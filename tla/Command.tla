------------------------------- MODULE Command -------------------------------
(***************************************************************************)
(* What a command says and what its reply means: lib/Command.ts,           *)
(* lib/replyTransformers.ts and their helpers.  An argument is a           *)
(* JavaScript value: a record whose only field tells what it is (string,   *)
(* buffer, number, with the text it is printed as, null, list, pairs: a    *)
(* Map or an object).                                                      *)
(*                                                                         *)
(* Left out: reply transformers of the application, arguments that print   *)
(* as nothing a server understands (an object where none is expected), and *)
(* timeouts that are negative or no whole numbers.                         *)
(***************************************************************************)
EXTENDS RespDecoder

------------------------------------------------------------------------------
(* Arguments.                                                                *)

PairItems(pairs) == FlattenSeq([i \in DOMAIN pairs |-> <<pairs[i][1], pairs[i][2]>>])

\* args.flat()
Flat(args) ==
  FlattenSeq([i \in DOMAIN args |-> IF Is(args[i], "list") THEN args[i].list ELSE <<args[i]>>])

\* The argument transformers: a Map or an object stands for its entries, in mset where it
\* is the only argument and in hset where it follows the key.
Transformed(name, args) ==
  CASE name \in {"mset", "msetnx"} /\ Len(args) = 1 /\ Is(args[1], "pairs") ->
         PairItems(args[1].pairs)
    [] name \in {"hset", "hmset"} /\ Len(args) = 2 /\ Is(args[2], "pairs") ->
         <<args[1]>> \o PairItems(args[2].pairs)
    [] OTHER -> args

\* toArg
ToArg(arg) ==
  CASE Is(arg, "number") -> [string |-> arg.number]
    [] Is(arg, "null") -> [string |-> <<>>]
    [] OTHER -> arg

\* stringifyArguments
Stringified(args) == [i \in DOMAIN args |-> ToArg(args[i])]

ArgumentsOf(call) == Stringified(Transformed(call.name, Flat(call.args)))

\* The positions of the keys (@ioredis/commands).
KeyIndexes(name, args) ==
  CASE name \in {"mset", "msetnx"} -> {i \in DOMAIN args : i % 2 = 1}
    [] name \in {"eval", "evalsha"} -> {3}
    [] name \in {"get", "hset", "hgetall", "zrange", "vsim"} -> {1}
    [] name = "blpop" -> 1..(Len(args) - 1)
    [] OTHER -> {}

PrefixedKey(prefix, key) ==
  CASE Is(key, "buffer") ->
         [buffer |-> (IF Is(prefix, "buffer") THEN prefix.buffer ELSE Utf8(prefix.string)) \o key.buffer]
    [] Is(prefix, "buffer") -> [buffer |-> prefix.buffer \o Utf8(key.string)]
    [] OTHER -> [string |-> prefix.string \o key.string]

Prefixed(name, args, prefix) ==
  IF prefix = NullValue THEN args
  ELSE [i \in DOMAIN args |->
          IF i \in KeyIndexes(name, args) THEN PrefixedKey(prefix, args[i]) ELSE args[i]]

\* The bytes of a string or of a buffer.
BytesOf(arg) == IF Is(arg, "buffer") THEN arg.buffer ELSE Utf8(arg.string)

\* Mutant: the length of an argument is that of the string, not of its bytes.
ByteLength_Chars(arg) == IF Is(arg, "buffer") THEN Len(arg.buffer) ELSE Len(arg.string)

ByteLength(arg) == Len(BytesOf(arg))

\* toWritable.  In buffer mode the pieces are copied into one buffer; otherwise they are
\* put together as a string, for which a buffer (of a key prefix) is decoded.
Writable(name, args, bufferMode) ==
  LET piece(arg) == IF bufferMode \/ Is(arg, "string") THEN BytesOf(arg) ELSE Utf8(Chars(arg.buffer))
      item(arg) == <<"$">> \o Line(Number(ByteLength(arg))) \o Line(piece(arg))
      items == <<[string |-> <<name>>]>> \o args
  IN  <<"*">> \o Line(Number(Len(items))) \o FlattenSeq([i \in DOMAIN items |-> item(items[i])])

\* What is written for a call.
Request(name, args, prefix) ==
  Writable(name, Prefixed(name, args, prefix), \E i \in DOMAIN args : Is(args[i], "buffer"))

------------------------------------------------------------------------------
(* The timeout among the arguments of a blocking command, in milliseconds.   *)

Second == 1000
Blocking == {"blpop", "blmpop", "blmovem", "xread"}
NotBlocking == -1      \* undefined: the argument is not a number
Unlimited == -2        \* null: XREAD without BLOCK

Text(arg) == IF Is(arg, "buffer") THEN Chars(arg.buffer) ELSE arg.string

NumberOf(arg) ==
  LET add(n, c) == n * 10 + DigitValue(c)
  IN  IF ToSet(Text(arg)) \subseteq ToSet(DigitsOf) THEN FoldLeft(add, 0, Text(arg)) ELSE NotBlocking

Seconds(arg) == IF NumberOf(arg) = NotBlocking THEN NotBlocking ELSE NumberOf(arg) * Second

\* parseBlockOption
BlockOption(args) ==
  LET isBlock(arg) == Text(arg) \in {<<"block">>, <<"BLOCK">>}
      first == SelectInSeq(args, isBlock)
  IN  IF first = 0 THEN Unlimited
      ELSE IF first = Len(args) THEN NotBlocking ELSE NumberOf(args[first + 1])

\* extractBlockingTimeout
ArgumentTimeout(name, args) ==
  CASE name = "blmovem" -> IF Len(args) < 5 THEN NotBlocking ELSE Seconds(args[5])
    [] name = "blpop" -> Seconds(Last(args))
    [] name = "blmpop" -> Seconds(Head(args))
    [] name = "xread" -> BlockOption(args)

------------------------------------------------------------------------------
(* Replies.                                                                  *)

\* convertBufferToString
RECURSIVE AsStrings(_)
AsStrings(v) ==
  CASE Is(v, "buffer") -> [string |-> Chars(v.buffer)]
    [] Is(v, "array") -> [array |-> [i \in DOMAIN v.array |-> AsStrings(v.array[i])]]
    [] Is(v, "object") -> [object |-> [k \in DOMAIN v.object |-> AsStrings(v.object[k])]]
    [] OTHER -> v

\* flattenNestedArrayItems
FlattenItems(v) ==
  IF ~Is(v, "array") THEN v
  ELSE [array |-> FlattenSeq([i \in DOMAIN v.array |->
                    IF Is(v.array[i], "array") THEN v.array[i].array ELSE <<v.array[i]>>])]

\* wrapStreamMapPairs
WrapPairs(v) ==
  IF ~Is(v, "array") THEN v
  ELSE [array |-> [i \in 1..(Len(v.array) \div 2) |->
                    [array |-> <<v.array[2 * i - 1], v.array[2 * i]>>]]]

\* The transformer of hgetall: of two equal fields the last one counts.
FieldsOf(v) ==
  IF ~Is(v, "array") THEN v
  ELSE LET field(i) == Text(v.array[i])
           odd == {i \in DOMAIN v.array : i % 2 = 1}
           last(k) == CHOOSE i \in odd : field(i) = k /\ \A j \in odd : field(j) = k => j <= i
       IN  [object |-> [k \in {field(i) : i \in odd} |-> v.array[last(k) + 1]]]

PairCommands == {"hrandfield", "zrange", "zpopmin"}

\* Mutant: the pairs of RESP3 are given as they are.
TransformReply_KeepsPairs(name, encoding, v, protocol, replyMapping) ==
  LET text == IF encoding = "utf8" THEN AsStrings(v) ELSE v
  IN  IF name = "hgetall" THEN FieldsOf(text) ELSE text

\* transformReply
TransformReply(name, encoding, v, protocol, replyMapping) ==
  LET text == IF encoding = "utf8" THEN AsStrings(v) ELSE v
      legacy == replyMapping = "legacy"
  IN  CASE name = "hgetall" -> FieldsOf(text)
        [] name = "vsim" /\ legacy -> FlattenItems(text)
        [] name \in PairCommands /\ legacy /\ protocol = 3 -> FlattenItems(text)
        [] name = "xread" /\ legacy /\ protocol = 3 -> WrapPairs(text)
        [] OTHER -> text
==============================================================================
