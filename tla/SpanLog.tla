------------------------------- MODULE SpanLog -------------------------------
(***************************************************************************)
(* What the tracing layer promises about the events of spans               *)
(* (win_etw_tracing/src/lib.rs), with every operation on a span atomic: a  *)
(* span is opened under its parent, values are recorded on it, events      *)
(* happen in it, and it is closed once all its children are.  Whether an   *)
(* event reaches the log is up to the trace sessions.                      *)
(***************************************************************************)
EXTENDS DeferredValues

CONSTANTS Spans, NoSpan, Activities, None, Calls

VARIABLES
  status,   \* of each span: "none", "open" or "done"
  parent,   \* of each span that was opened
  activity, \* its activity id
  recorded, \* the values recorded on it
  log       \* the events written, in order

Event(op, s, a, r, values) ==
  [op |-> op, span |-> s, activity |-> a, related |-> r, values |-> values]

Logged(e) == log' \in {log, Append(log, e)}

IsOpen(s) == s # NoSpan => status[s] = "open"
ActivityOf(s) == IF s = NoSpan THEN None ELSE activity[s]

Init ==
  /\ status = [s \in Spans |-> "none"]
  /\ parent = [s \in Spans |-> NoSpan]
  /\ activity = [s \in Spans |-> None]
  /\ recorded = [s \in Spans |-> <<>>]
  /\ log = <<>>

Open(s, p, a) ==
  /\ status[s] = "none" /\ IsOpen(p)
  /\ status' = [status EXCEPT ![s] = "open"]
  /\ parent' = [parent EXCEPT ![s] = p]
  /\ activity' = [activity EXCEPT ![s] = a]
  /\ Logged(Event("START", s, a, ActivityOf(p), <<>>))
  /\ UNCHANGED recorded

Record(s, call) ==
  /\ status[s] = "open"
  /\ recorded' = [recorded EXCEPT ![s] = RecordAll(@, call)]
  /\ UNCHANGED <<status, parent, activity, log>>

Happen(s) ==
  /\ IsOpen(s)
  /\ Logged(Event("INFO", s, ActivityOf(s), None, <<>>))
  /\ UNCHANGED <<status, parent, activity, recorded>>

Close(s) ==
  /\ status[s] = "open"
  /\ \A c \in Spans : parent[c] = s => status[c] = "done"
  /\ status' = [status EXCEPT ![s] = "done"]
  /\ Logged(Event("STOP", s, activity[s], None, recorded[s]))
  /\ UNCHANGED <<parent, activity, recorded>>

Next ==
  \/ \E s \in Spans, p \in Spans \cup {NoSpan}, a \in Activities : Open(s, p, a)
  \/ \E s \in Spans, call \in Calls : Record(s, call)
  \/ \E s \in Spans \cup {NoSpan} : Happen(s)
  \/ \E s \in Spans : Close(s)

Spec == Init /\ [][Next]_<<status, parent, activity, recorded, log>>
=============================================================================
