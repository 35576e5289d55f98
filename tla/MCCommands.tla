----------------------------- MODULE MCCommands -----------------------------
(***************************************************************************)
(* A small instance of Commands.  An int64 has six bits and a second four  *)
(* milliseconds of two, so that 3 seconds and 15 milliseconds are the      *)
(* longest durations.                                                      *)
(***************************************************************************)
EXTENDS Commands, TLC

MCMinInt == -32

MCKeys == {"a", "bab", "hi"}
MCBytes == "a" :> <<97>> @@ "bab" :> <<98, 97, 98>> @@ "hi" :> <<200>>

MCIntOf == "-1" :> -1 @@ "0" :> 0 @@ "-0" :> 0 @@ "1" :> 1 @@ "+3" :> 3 @@ "4" :> 4
             @@ "15" :> 15 @@ "16" :> 16 @@ "31" :> 31
MCUintOf == "0" :> 0 @@ "1" :> 1 @@ "+3" :> 3 @@ "63" :> 63

MCTextOf == "x" :> [form |-> "other", n |-> 0] @@ "+3" :> [form |-> "other", n |-> 3]
              @@ "31" :> FormatInt(31)

MCUpper == [w \in {"x", "nope", "-1", "0", "1", "4", "15", "a", "EX", "PX", "MATCH",
                   "COUNT"} \cup DOMAIN Table |-> w]
             @@ "ex" :> "EX" @@ "px" :> "PX" @@ "count" :> "COUNT" @@ "set" :> "SET"

Tuples(S, n) == UNION {[1..i -> S] : i \in 0..n}

\* Every pattern of up to three of * ? a b, and some that take more.
MCPatterns ==
  Tuples({42, 63, 97, 98}, 3) \cup
  {<<42, 98, 42, 98>>, <<42, 98, 42, 97, 42>>, <<42, 97, 98, 42, 98>>,  \* *b*b *b*a* *ab*b
   <<91, 97, 93>>, <<91, 94, 97, 93>>, <<91, 97, 45, 122, 93>>,         \* [a] [^a] [a-z]
   <<91, 97, 45, 93>>, <<91, 97>>, <<91, 94>>, <<91>>, <<91, 93>>,      \* [a-] [a [^ [ []
   <<42, 91, 98, 45, 97, 93, 98>>, <<91, 127, 45, 201, 93>>,            \* *[b-a]b and signed
   <<92, 97>>, <<92>>, <<92, 42>>, <<91, 92, 93, 97, 93>>}              \* \a \ \* [\]a]

Options == {<<>>, <<"EX">>, <<"ex", "1">>, <<"EX", "+3">>, <<"EX", "4">>, <<"PX", "15">>,
            <<"PX", "16">>, <<"PX", "0">>, <<"EX", "x">>, <<"x", "1">>,
            <<"EX", "1", "EX", "+3">>, <<"EX", "1", "PX", "15">>,
            <<"px", "15", "PX", "1">>, <<"PX", "1", "PX">>}

Scans == {<<>>, <<"MATCH">>, <<"MATCH", "x">>, <<"COUNT", "1">>, <<"COUNT", "0">>,
          <<"COUNT", "x">>, <<"x", "1">>, <<"COUNT", "1", "MATCH", "x", "count", "4">>,
          <<"MATCH", "COUNT", "COUNT", "4">>, <<"MATCH", "x", "MATCH", "a">>}

MCRequests ==
  {<<"SET", "a", "x">> \o o : o \in Options}
  \cup {<<"SET", "bab", "31", "PX", "15">>, <<"SET", "a", "+3">>, <<"set", "hi", "x">>,
        <<"SET", "a">>, <<"nope">>, <<"PING">>, <<"PING", "x">>, <<"DBSIZE">>,
        <<"GET", "a">>, <<"MGET", "a", "hi", "a">>, <<"EXISTS", "a", "a">>,
        <<"DEL", "a", "hi", "a">>, <<"INCR", "a">>, <<"INCR", "bab">>, <<"DECR", "bab">>,
        <<"PERSIST", "a">>, <<"TTL", "a">>, <<"TTL", "bab">>}
  \cup {<<"EXPIRE", "a", n>> : n \in {"x", "-1", "-0", "1", "4"}}
  \cup {<<"KEYS", p>> : p \in MCPatterns}
  \cup {<<"SCAN", c>> \o o : c \in {"0", "63", "-0", "x"}, o \in Scans}
=============================================================================
