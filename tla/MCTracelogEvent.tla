-------------------------- MODULE MCTracelogEvent --------------------------
(* Instances of TracelogEvent for TLC. *)
EXTENDS TracelogEvent

CONSTANTS t1, t2, n1, n2  \* threads, numbers

TwoThreads == {t1, t2}
OneThread  == {t1}
Telemetry  == {47}
Ordinary   == {1}
Keywords   == {{1, 47}, {1}}
MCLevels   == {"INFO", "DEBUG", "TRACE"}
OffOrAll   == {0, 4, 5}

Symmetry == Permutations(TwoThreads)

F(n, k, v) == [name |-> n, kind |-> k, value |-> v, len |-> 3, nul |-> FALSE]
Long(f, n) == [f EXCEPT !.len = n]
G(n)       == F(n, "str", "g")

PlainGlobals == {<<G("x"), G("y")>>, <<G("y")>>}

\* Fields of every kind; a name and a text that bring an event with target
\* and one global field to 65535 bytes and past it; a NUL inside.
Message(n) == Long(F("message", "debug", "m"), n)
EveryKind ==
  {<<F("message", "debug", "m"), F("a", "i64", n1), F("b", "str", "s"), F("c", "u64", n2)>>,
   <<F("log.file", "str", "f"), F("a", "error", <<"e", "source">>), F("b", "debug", "d")>>}
Edges ==
  {<<Message(n), F("a", "i64", n1)>> : n \in {65485, 65486}}
  \cup {<<F("a", "i64", n1), [F("b", "str", "s") EXCEPT !.nul = TRUE], F("c", "u64", n2)>>,
        <<[Message(3) EXCEPT !.nul = TRUE]>>}
MCFields == EveryKind \cup Edges
MCTargets == {3, 65537}

\* Spans, whose fields the handlers do not tell in the event's name.
Span == [v |-> <<"span">>, len |-> 4, nul |-> FALSE]
OneName == {Span}
Attributes ==
  {<<F("a", "error", <<"e", "source">>), F("b", "debug", "d")>>,
   <<F("a", "i64", n1), [F("b", "str", "s") EXCEPT !.nul = TRUE], F("c", "u64", n2)>>}
Recorded == {<<>>, <<F("b", "str", "s"), F("c", "u64", n2)>>}

Booleans == {<<F("a", "bool", n1), F("b", "i64", n2)>>}
OneTarget == {3}

\* Not used by the runs: a span with a field called message, which write_name
\* skips.  RoundTrip does not hold with SpanFields <- SpanMessages.
SpanMessages == {<<F("message", "str", "m"), F("a", "i64", n1)>>}
=============================================================================
