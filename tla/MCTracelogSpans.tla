-------------------------- MODULE MCTracelogSpans --------------------------
(* Instances of TracelogSpans for TLC. *)
EXTENDS TracelogSpans

CONSTANTS t1, t2, s1, s2, a1, a2, f1, f2, v1, v2

TwoThreads == {t1, t2}
OneThread  == {t1}
OneSpan    == {s1}
TwoSpans   == {s1, s2}
OneId      == {a1}
TwoIds     == {a1, a2}

V(f, v) == [field |-> f, value |-> v]
NoCalls == {}
MCCalls == {<<V(f1, v1)>>, <<V(f1, v1), V(f2, v1)>>, <<V(f2, v2), V(f1, v2)>>}

B(spans, unseen, records, fields, events) ==
  [spans |-> spans, unseen |-> unseen, records |-> records, fields |-> fields, events |-> events]
\* A parent and a child, one of them recorded on; a parent and a child that
\* the layer may not see; a span with records and an event; an unseen one.
Scenarios == {B(2, 0, 1, 1, 0), B(2, 2, 0, 0, 0), B(1, 0, 2, 2, 1), B(1, 1, 0, 0, 1)}
OneSeen   == {B(1, 0, 0, 0, 0)}
OneHidden == {B(2, 1, 0, 0, 0)}
=============================================================================
