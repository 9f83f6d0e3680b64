---------------------------- MODULE RespDecoder ----------------------------
(***************************************************************************)
(* The incremental parser of replies: lib/resp/decoder.ts, with the type   *)
(* mappings of lib/DataHandler.ts.                                         *)
(*                                                                         *)
(* A chunk of the stream may end anywhere.  The decoder keeps a            *)
(* continuation, here a stack of what is under way, innermost first; and   *)
(* it skips bytes it does not look at by moving its cursor, which may then *)
(* be past the end of the chunk.  What each function does at the end of    *)
(* the chunk is kept as it is written; the bytes are one-character strings *)
(* and a value is a record whose only field tells what it is.              *)
(*                                                                         *)
(* Left out: VerbatimString, Set, Map and BigInt as mappings (ioredis uses *)
(* none of them), the conversion of the text of a double to a number       *)
(* (which is kept as its text), keys of maps that are not strings, and     *)
(* types that do not exist.                                                *)
(***************************************************************************)
EXTENDS Integers, Sequences, SequencesExt

CONSTANT Null        \* a string or an array that does not exist

CR == "r"   LF == "n"
DigitsOf == <<"0", "1", "2", "3", "4", "5", "6", "7", "8", "9">>
DigitValue(b) == (CHOOSE i \in 1..10 : DigitsOf[i] = b) - 1

VARIABLES
  frames,            \* what the server sent on this connection
  mapping,           \* options.replyMapping, or "strings": "legacy" with options.stringNumbers
  received,          \* the number of bytes that have been received
  decoder            \* cursor, stack (#next), out: what the callbacks were called with

replies == <<frames, received, decoder>>

------------------------------------------------------------------------------
(* Text.  One letter takes two bytes; a byte that is no letter is replaced.  *)

Utf8(chars) ==
  FlattenSeq([i \in DOMAIN chars |->
    CASE chars[i] = "eacute" -> <<"c3", "a9">>
      [] chars[i] = "replacement" -> <<"ef", "bf", "bd">>
      [] OTHER -> <<chars[i]>>])

RECURSIVE Chars(_)
Chars(bytes) ==
  IF bytes = <<>> THEN <<>>
  ELSE IF Len(bytes) > 1 /\ SubSeq(bytes, 1, 2) = <<"c3", "a9">>
       THEN <<"eacute">> \o Chars(SubSeq(bytes, 3, Len(bytes)))
       ELSE <<IF bytes[1] \in {"c3", "a9"} THEN "replacement" ELSE bytes[1]>> \o Chars(Tail(bytes))

------------------------------------------------------------------------------
(* Values.                                                                   *)

Is(v, what) == what \in DOMAIN v
NullValue == [null |-> TRUE]

\* The value of a type that is written as bytes (or, for ":", as a number n).
Typed(type, bytes, mode) ==
  CASE type \in {"-", "!"} -> [error |-> bytes]
    [] type = ":" /\ mode # "strings" -> [int |-> bytes]
    [] type = "," /\ mode = "resp3" -> [double |-> bytes]
    [] type = "(" \/ (type \in {":", ","} /\ mode = "strings") -> [string |-> Chars(bytes)]
    [] OTHER -> [buffer |-> bytes]

Boolean(b, mode) == IF mode = "resp3" THEN [boolean |-> b] ELSE [int |-> IF b THEN 1 ELSE 0]

------------------------------------------------------------------------------
(* The protocol: what a server sends for a frame, and what it means.         *)

Types == [null |-> "_", boolean |-> "#", number |-> ":", simple |-> "+", error |-> "-",
          double |-> ",", bignum |-> "(", blob |-> "$", blobError |-> "!", verbatim |-> "=", array |-> "*",
          set |-> "~", push |-> ">", map |-> "%"]

Number(n) ==
  LET digits(k) == IF k < 10 THEN <<DigitsOf[k + 1]>>
                   ELSE <<DigitsOf[(k \div 10) + 1], DigitsOf[(k % 10) + 1]>>
  IN  IF n < 0 THEN <<"-">> \o digits(-n) ELSE digits(n)

Line(bytes) == bytes \o <<CR, LF>>

RECURSIVE Encode(_)
Encode(f) ==
  LET concat(fs) == FlattenSeq([i \in DOMAIN fs |-> Encode(fs[i])])
  IN  <<Types[f.type]>> \o
      CASE f.type = "null" -> Line(<<>>)
        [] f.type = "boolean" -> Line(IF f.value THEN <<"t">> ELSE <<"f">>)
        [] f.type = "number" -> Line(Number(f.value))
        [] f.type \in {"simple", "error", "double", "bignum"} -> Line(f.value)
        [] f.value = Null -> Line(Number(-1))
        [] f.type \in {"blob", "blobError"} -> Line(Number(Len(f.value))) \o Line(f.value)
        [] f.type = "verbatim" ->
             Line(Number(Len(f.value) + 4)) \o <<"t", "x", "t", ":">> \o Line(f.value)
        [] f.type = "map" -> Line(Number(Len(f.value) \div 2)) \o concat(f.value)
        [] OTHER -> Line(Number(Len(f.value))) \o concat(f.value)

\* A map under "resp3": an object, in which the last of two equal keys wins.
Object(items) ==
  LET isKey(i) == i % 2 = 1
      last(k) == CHOOSE i \in DOMAIN items :
                   isKey(i) /\ items[i].buffer = k
                   /\ \A j \in DOMAIN items : (isKey(j) /\ items[j].buffer = k) => j <= i
      keys == {items[i].buffer : i \in {j \in DOMAIN items : isKey(j)}}
  IN  [object |-> [k \in {Chars(b) : b \in keys} |-> items[last(Utf8(k)) + 1]]]

\* The value of a map or of an array.
Container(type, items, mode) ==
  IF type = "%" /\ mode = "resp3" THEN Object(items) ELSE [array |-> items]

RECURSIVE Meaning(_, _)
Meaning(f, mode) ==
  CASE f.type = "null" -> NullValue
    [] f.type = "boolean" -> Boolean(f.value, mode)
    [] f.type = "number" -> Typed(":", IF mode = "strings" THEN Number(f.value) ELSE f.value, mode)
    [] f.type \in {"array", "set", "push", "map"} /\ f.value # Null ->
         Container(Types[f.type], [i \in DOMAIN f.value |-> Meaning(f.value[i], mode)], mode)
    [] OTHER -> IF f.value = Null THEN NullValue ELSE Typed(Types[f.type], f.value, mode)

------------------------------------------------------------------------------
(* Decoding.  m is the decoder, chunk the chunk it is given.                 *)

AtEnd(m, chunk) == m.cursor >= Len(chunk)
Byte(m, chunk) == chunk[m.cursor + 1]
Skip(m, n) == [m EXCEPT !.cursor = @ + n]
Replace(m, ops) == [m EXCEPT !.stack = ops \o Tail(@)]

\* The callback that is given the value of this type.
Callback(type) ==
  CASE type \in {"-", "!"} -> "onErrorReply" [] type = ">" -> "onPush" [] OTHER -> "onReply"

\* What a function under way does with a value that has been decoded for it.
Emit(type) == [do |-> "emit", callback |-> Callback(type)]
Make(type) == [do |-> "make", type |-> type]
TakeLength(type) == [do |-> "length", type |-> type]
\* Functions that wait for bytes.
ReadType == [do |-> "type"]
ReadValue(type) == [do |-> "value", type |-> type]
ReadNumber(negative, number) == [do |-> "number", negative |-> negative, number |-> number]
ReadLine(bytes) == [do |-> "line", bytes |-> bytes]
ReadString(length, bytes) == [do |-> "string", length |-> length, bytes |-> bytes]
ReadItems(type, total, items) ==
  [do |-> "items", type |-> type, total |-> total, items |-> items]

\* Mutant: a number whose digits are in two chunks begins anew.
SoFar_Forgets(number) == 0

\* decodeUnsingedNumber.bind(this, number)
SoFar(number) == number

\* decodeUnsingedNumber, decodeSimpleString: up to the CR, or to the end of the chunk.
Rest(m, chunk) ==
  LET rest == SubSeq(chunk, m.cursor + 1, Len(chunk))
  IN  IF \E i \in DOMAIN rest : rest[i] = CR
      THEN [ended |-> TRUE, bytes |-> SubSeq(rest, 1, SelectInSeq(rest, LAMBDA b : b = CR) - 1)]
      ELSE [ended |-> FALSE, bytes |-> rest]

RECURSIVE Run(_, _, _), Return(_, _, _, _)

\* The innermost function is done with this value: it goes to the one it was called by.
Return(m, v, chunk, mode) ==
  LET below == Tail(m.stack)
      by == Head(below)
      then(ops) == [m EXCEPT !.stack = ops \o Tail(below)]
  IN  CASE by.do = "emit" ->
             Run([then(<<>>) EXCEPT !.out = Append(@, [to |-> by.callback, value |-> v])],
                 chunk, mode)
        [] by.do = "make" -> Return(then(<<by>>), Typed(by.type, v, mode), chunk, mode)
        [] by.do = "items" ->
             Run(then(<<ReadItems(by.type, by.total, Append(by.items, v))>>), chunk, mode)
        [] by.do = "length" /\ by.type \in {"$", "!"} ->
             LET m1 == then(<<ReadString(v, <<>>)>>)
             IN  IF AtEnd(m1, chunk) THEN m1 ELSE Run(m1, chunk, mode)
        [] by.do = "length" /\ by.type = "=" ->
             LET m1 == Skip(then(<<ReadString(v - 4, <<>>)>>), 4)
             IN  IF AtEnd(m1, chunk) THEN m1 ELSE Run(m1, chunk, mode)
        [] OTHER -> Run(then(<<ReadItems(by.type, IF by.type = "%" THEN 2 * v ELSE v, <<>>)>>),
                        chunk, mode)

\* decodeTypeValue, decodeNestedTypeValue: what a value of this type begins with.
Begin(m, type, chunk, mode) ==
  LET b == Byte(m, chunk)
      signed == Skip(Replace(m, <<ReadNumber(b = "-", 0), Make(":")>>), 1)
      length == <<ReadNumber(FALSE, 0), TakeLength(type)>>
      number == <<ReadNumber(FALSE, 0), Make(":")>>
      line == <<ReadLine(<<>>), Make(type)>>
  IN  CASE type = "_" -> Return(Skip(m, 2), NullValue, chunk, mode)
        [] type = "#" -> Return(Skip(m, 3), Boolean(b = "t", mode), chunk, mode)
        [] type = ":" /\ mode = "strings" -> Run(Replace(m, line), chunk, mode)
        [] type = ":" /\ b \in {"+", "-"} ->
             IF AtEnd(signed, chunk) THEN signed ELSE Run(signed, chunk, mode)
        [] type = ":" -> Run(Replace(m, number), chunk, mode)
        [] type \in {"+", "-", ",", "("} -> Run(Replace(m, line), chunk, mode)
        [] type \in {"$", "*", ">"} /\ b = "-" -> Return(Skip(m, 4), NullValue, chunk, mode)
        [] type \in {"$", "!", "="} -> Run(Replace(m, length \o <<Make(type)>>), chunk, mode)
        [] OTHER -> Run(Replace(m, length), chunk, mode)

\* Goes on with the innermost function, until it needs another chunk.
Run(m, chunk, mode) ==
  IF m.stack = <<>>
  THEN IF AtEnd(m, chunk) THEN m ELSE Run([m EXCEPT !.stack = <<ReadType>>], chunk, mode)
  ELSE
  LET op == Head(m.stack)
      rest == Rest(m, chunk)
      over == [m EXCEPT !.cursor = @ + Len(rest.bytes) + 2]
      end == m.cursor + op.length
  IN  CASE op.do = "type" ->
             LET type == Byte(m, chunk)
                 read == Skip(Replace(m, <<ReadValue(type)>> \o
                                IF Len(m.stack) = 1 THEN <<Emit(type)>> ELSE <<>>), 1)
             IN  IF AtEnd(read, chunk) THEN read ELSE Run(read, chunk, mode)
        [] op.do = "value" -> Begin(m, op.type, chunk, mode)
        [] op.do = "number" ->
             LET add(n, b) == n * 10 + DigitValue(b)
                 number == FoldLeft(add, op.number, rest.bytes)
             IN  IF rest.ended
                 THEN Return(over, IF op.negative THEN -number ELSE number, chunk, mode)
                 ELSE [Replace(m, <<ReadNumber(op.negative, SoFar(number))>>)
                         EXCEPT !.cursor = Len(chunk)]
        [] op.do = "line" ->
             IF rest.ended THEN Return(over, op.bytes \o rest.bytes, chunk, mode)
             ELSE [Replace(m, <<ReadLine(op.bytes \o rest.bytes)>>) EXCEPT !.cursor = Len(chunk)]
        [] op.do = "string" ->
             IF end >= Len(chunk)
             THEN LET slice == SubSeq(chunk, m.cursor + 1, Len(chunk))
                  IN  [Replace(m, <<ReadString(op.length - Len(slice), op.bytes \o slice)>>)
                         EXCEPT !.cursor = Len(chunk)]
             ELSE Return([m EXCEPT !.cursor = end + 2],
                         op.bytes \o SubSeq(chunk, m.cursor + 1, end), chunk, mode)
        [] op.do = "items" ->
             IF Len(op.items) = op.total
             THEN Return(m, Container(op.type, op.items, mode), chunk, mode)
             ELSE IF AtEnd(m, chunk) THEN m
             ELSE Run([m EXCEPT !.stack = <<ReadType>> \o @], chunk, mode)

\* Decoder.write
Write(m, chunk, mode) ==
  Skip(IF AtEnd(m, chunk) THEN m ELSE Run(m, chunk, mode), -Len(chunk))

------------------------------------------------------------------------------
Stream(fs) == FlattenSeq([i \in DOMAIN fs |-> Encode(fs[i])])

\* A connection that has just been opened.
NoReplies ==
  /\ frames' = <<>> /\ received' = 0
  /\ decoder' = [cursor |-> 0, stack |-> <<>>, out |-> <<>>]

\* "data": a chunk of n bytes.
Data(n) ==
  /\ received + n <= Len(Stream(frames))
  /\ decoder' = Write(decoder, SubSeq(Stream(frames), received + 1, received + n), mapping)
  /\ received' = received + n
  /\ UNCHANGED frames

------------------------------------------------------------------------------
(* Properties.                                                               *)

\* However the stream is cut, the callbacks are called with the replies that were sent, in
\* their order, and with each one that has arrived.
DecodesWhatWasSent ==
  LET sent == [i \in DOMAIN frames |-> [to |-> Callback(Types[frames[i].type]),
                                        value |-> Meaning(frames[i], mapping)]]
      arrived == {i \in DOMAIN frames : Len(Stream(SubSeq(frames, 1, i))) <= received}
  IN  /\ Len(decoder.out) <= Len(sent)
      /\ decoder.out = SubSeq(sent, 1, Len(decoder.out))
      /\ \A i \in arrived : i <= Len(decoder.out)
==============================================================================
