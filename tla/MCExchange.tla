------------------------------ MODULE MCExchange ------------------------------
(* Exchange: every kind of reply cut everywhere; every kind of argument; timers; scripts. *)
EXTENDS Exchange
Of(type, value) == [type |-> type, value |-> value]
Ten == [i \in 1..10 |-> IF i = 3 THEN CR ELSE IF i = 4 THEN LF ELSE "$"]
Leaves == {
  Of("null", Null), Of("boolean", TRUE), Of("boolean", FALSE),
  Of("number", 0), Of("number", 47), Of("number", -12),
  Of("simple", <<"O", "K">>), Of("simple", <<>>), Of("double", <<"1", ".", "5">>),
  Of("bignum", <<"-", "9">>),
  Of("error", <<"E">>), Of("blobError", <<CR, "E">>),
  Of("blob", <<>>), Of("blob", <<CR, LF>>), Of("blob", Ten), Of("blob", Null),
  Of("verbatim", <<>>), Of("verbatim", <<"a", CR>>), Of("array", <<>>), Of("array", Null)}
Blob(b) == Of("blob", <<b>>)
Nested == {
  Of("array", <<l>>) : l \in Leaves} \cup {
  Of("array", <<Of("array", <<>>), Of("array", <<Of("number", 3), Blob("a")>>)>>),
  Of("set", <<Blob("a"), Of("null", Null)>>),
  Of("map", <<>>),
  Of("map", <<Blob("a"), Of("boolean", TRUE), Blob("b"), Of("array", <<>>)>>),
  Of("map", <<Blob("a"), Of("number", 1), Blob("a"), Of("map", <<Blob("c"), Of("number", 2)>>)>>)}
Push == Of("push", <<Blob("m"), Of("blob", <<>>)>>)

S(chars) == [string |-> chars]
B(bytes) == [buffer |-> bytes]
N(text) == [number |-> text]
\* A call, and the bytes a server should read for its arguments.
Call(name, args, frame, two, three) ==
  [name |-> name, encoding |-> "utf8", args |-> args, script |-> FALSE,
   requests |-> {<<<<name>>>> \o frame}, two |-> <<two>>, three |-> <<three>>]
Quiet == [calls |-> <<>>, mappings |-> {"legacy", "resp3"}, keyPrefix |-> NullValue,
          commandTimeout |-> None, blockingTimeout |-> None, grace |-> 0, socketTimeout |-> None,
          protocols |-> {2, 3}, faults |-> 0]

\* Replies of every type, alone, in pairs, and after a push.
Raw(fs) == [Call("call", <<>>, <<>>, Null, Null) EXCEPT !.two = <<>>, !.three = fs]
Answers(calls) ==
  [Quiet EXCEPT !.calls = calls, !.mappings = {"legacy", "resp3", "strings"}, !.protocols = {3}]
RawScenarios ==
  {Answers(<<Raw(<<f>>)>>) : f \in Nested} \cup {Answers(<<Raw(<<Push, f>>)>>) : f \in Leaves}
  \cup {Answers(<<Raw(<<f>>), Raw(<<g>>)>>) : f, g \in Leaves}

\* Commands whose replies differ between the protocols.
OK == Of("simple", <<"O">>)
Flat4 == Of("array", <<Blob("a"), Blob("1"), Of("blob", <<"c3", "a9">>), Blob("2")>>)
Pairs == Of("array", <<Of("array", <<Blob("a"), Of("double", <<"1">>)>>),
                       Of("array", <<Of("blob", <<"c3", "a9">>), Of("double", <<"2">>)>>)>>)
Entry == Of("array", <<Blob("i"), Of("array", <<Blob("f"), Blob("v")>>)>>)
Key == S(<<"k">>)
Commands == {
  Call("hgetall", <<Key>>, <<<<"k">>>>, Flat4, [Flat4 EXCEPT !.type = "map"]),
  Call("zrange", <<Key, S(<<"W">>)>>, <<<<"k">>, <<"W">>>>, Flat4, Pairs),
  Call("zrange", <<Key>>, <<<<"k">>>>, Of("array", <<Blob("a")>>), Of("array", <<Blob("a")>>)),
  [Call("zrange", <<Key, S(<<"W">>)>>, <<<<"k">>, <<"W">>>>, Flat4, Pairs) EXCEPT !.encoding = "none"],
  Call("vsim", <<Key, B(<<"c3", "9">>)>>, <<<<"k">>, <<"c3", "9">>>>,
       Of("array", <<Blob("a"), Of("array", <<Blob("1"), Of("blob", Null)>>)>>),
       Of("map", <<Blob("a"), Of("array", <<Of("double", <<"1">>), Of("null", Null)>>)>>)),
  Call("xread", <<S(<<"BLOCK">>), N(<<"9">>), Key>>, <<<<"BLOCK">>, <<"9">>, <<"k">>>>,
       Of("array", <<Of("array", <<Blob("s"), Of("array", <<Entry>>)>>)>>),
       Of("map", <<Blob("s"), Of("array", <<Entry>>)>>)),
  Call("xread", <<Key>>, <<<<"k">>>>, Of("array", Null), Of("null", Null))}

\* Arguments of every kind, with the bytes that should be read for them under each key prefix.
Hash == [pairs |-> <<<<S(<<"f">>), N(<<"1">>)>>, <<S(<<"eacute">>), [null |-> TRUE]>>>>]
Eacute == <<"c3", "a9">>
Arguments == {
  <<"mset", <<[pairs |-> <<<<S(<<"eacute", "k">>), B(<<"c3">>)>>, <<S(<<"a">>), S(<<>>)>>>>]>>,
    <<<<<<"c3", "a9", "k">>, <<"c3">>, <<"a">>, <<>>>>,
      <<<<"c3", "a9", ":", "c3", "a9", "k">>, <<"c3">>, <<"c3", "a9", ":", "a">>, <<>>>>,
      <<<<"p", "c3", "a9", "k">>, <<"c3">>, <<"p", "a">>, <<>>>>>>>>,
  <<"mset", <<[list |-> <<S(<<"a">>), N(<<"1", "0">>), B(<<"b">>), S(<<"eacute">>)>>]>>,
    <<<<<<"a">>, <<"1", "0">>, <<"b">>, Eacute>>,
      <<<<"c3", "a9", ":", "a">>, <<"1", "0">>, <<"c3", "a9", ":", "b">>, Eacute>>,
      <<<<"p", "a">>, <<"1", "0">>, <<"p", "b">>, Eacute>>>>>>,
  <<"mset", <<Key, S(<<"v">>)>>,
    <<<<<<"k">>, <<"v">>>>, <<<<"c3", "a9", ":", "k">>, <<"v">>>>, <<<<"p", "k">>, <<"v">>>>>>>>,
  <<"hset", <<S(<<"eacute">>), Hash>>,
    <<<<Eacute, <<"f">>, <<"1">>, Eacute, <<>>>>,
      <<<<"c3", "a9", ":", "c3", "a9">>, <<"f">>, <<"1">>, Eacute, <<>>>>,
      <<<<"p", "c3", "a9">>, <<"f">>, <<"1">>, Eacute, <<>>>>>>>>,
  <<"get", <<B(<<CR, LF, "c3", "a9">>)>>,
    <<<<<<CR, LF, "c3", "a9">>>>, <<<<"c3", "a9", ":", CR, LF, "c3", "a9">>>>,
      <<<<"p", CR, LF, "c3", "a9">>>>>>>>,
  <<"blpop", <<Key, S(<<"l">>), N(<<"0">>)>>,
    <<<<<<"k">>, <<"l">>, <<"0">>>>,
      <<<<"c3", "a9", ":", "k">>, <<"c3", "a9", ":", "l">>, <<"0">>>>,
      <<<<"p", "k">>, <<"p", "l">>, <<"0">>>>>>>>}

\* The same call without a key prefix, and with one that is a string or a buffer.
KeyPrefixes == <<NullValue, S(<<"eacute", ":">>), B(<<"p">>)>>
Requests(name, args, items) ==
  {[Quiet EXCEPT !.calls = <<Call(name, args, items[i], OK, OK)>>, !.keyPrefix = KeyPrefixes[i],
                 !.mappings = {"legacy"}] : i \in DOMAIN KeyPrefixes}

\* Timers: a server that is silent, connections that are lost.
Wait(name, args, frame) == Call(name, args, frame, Of("array", Null), Of("null", Null))
Timed(calls) ==
  [Quiet EXCEPT !.calls = calls, !.mappings = {"legacy"}, !.protocols = {3}, !.faults = 2]
Pop(n) == Wait("blpop", <<Key, N(<<n>>)>>, <<<<"k">>, <<n>>>>)
Get == Call("get", <<Key>>, <<<<"k">>>>, Blob("v"), Blob("v"))
TimerScenarios ==
  {[Timed(calls) EXCEPT !.commandTimeout = ct, !.socketTimeout = st] :
     calls \in {<<Get>>, <<Get, Get>>}, ct \in {None, 2 * Second}, st \in {None, 2 * Second}}
  \cup {[Timed(<<call, Get>>) EXCEPT !.blockingTimeout = 3 * Second, !.grace = Second, !.socketTimeout = st] :
     call \in {Pop("0"), Pop("1"),
               Wait("blmpop", <<N(<<"1">>), Key>>, <<<<"1">>, <<"k">>>>),
               Wait("blmpop", <<Key, Key>>, <<<<"k">>, <<"k">>>>),
               Wait("blmovem", <<Key, Key, Key, Key, N(<<"1">>), Key>>,
                    <<<<"k">>, <<"k">>, <<"k">>, <<"k">>, <<"1">>, <<"k">>>>),
               Wait("xread", <<Key>>, <<<<"k">>>>),
               Wait("xread", <<B(<<"block">>), N(<<"0">>), Key>>, <<<<"block">>, <<"0">>, <<"k">>>>)},
     st \in {None, 2 * Second}}

\* Two calls of a script.
Script ==
  [Call("evalsha", <<Key>>, <<>>, Blob("v"), Blob("v")) EXCEPT !.script = TRUE,
     !.requests = {<<<<"eval">>, <<"lua">>, <<"1">>, <<"k">>>>, <<<<"evalsha">>, <<"sha">>, <<"1">>, <<"k">>>>}]
ScriptScenarios ==
  {[Timed(<<Script, Script, Script>>) EXCEPT !.faults = 2],
   [Timed(<<Script, Script>>) EXCEPT !.commandTimeout = 2 * Second]}

MCScenarios ==
  RawScenarios \cup TimerScenarios \cup ScriptScenarios
  \cup {[Quiet EXCEPT !.calls = <<call>>, !.faults = 1] : call \in Commands}
  \cup UNION {Requests(name, args, items) : <<name, args, items>> \in Arguments}
MCNoScript == <<"S">>
MCTimedOut == <<"T">>
==============================================================================
