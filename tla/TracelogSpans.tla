---------------------------- MODULE TracelogSpans ----------------------------
(***************************************************************************)
(* Threads that create, record on, log in and drop tracing spans, with the *)
(* handlers of TracelogSubscriber (win_etw_tracing/src/lib.rs) running on  *)
(* them: on_new_span, on_record, on_event, on_close.                       *)
(*                                                                         *)
(* The handlers share the extensions of a span, a type map behind one      *)
(* read-write lock per span, where the layer keeps the span's ActivityId   *)
(* and DeferredValues.  The registry of tracing-subscriber (external)      *)
(* counts the handles and the children of a span, calls on_close on the    *)
(* thread that gives up the last of them, and then gives up the span's own *)
(* reference to its parent.  Trace sessions come and go at any moment.     *)
(*                                                                         *)
(* The layer may have a filter of its own, which hides some spans from it: *)
(* its handlers do not run for them and ctx.span() does not find them.  It *)
(* may also be put in place by `reload` (None to Some) while the program   *)
(* runs, and then meets spans that are older than itself.                  *)
(***************************************************************************)
EXTENDS DeferredValues, FiniteSets

CONSTANTS
  Threads, Spans,
  Ids,        \* activity ids
  NullId,     \* GUID::default()
  NoSpan, None,
  Calls,      \* the calls of Span::record: sequences of [field, value]
  Budgets,       \* bounds: spans, spans the layer may not see, calls of
                 \* record, fields of such a call, events
  HiddenParents, \* TRUE: the filter may hide a span and show its children
  LateLayers     \* TRUE: the layer may be attached while spans are alive

ASSUME SpanAssumption ==
  /\ NoSpan \notin Spans
  /\ None \notin Threads
  /\ None \notin Ids /\ NullId \notin Ids /\ None # NullId
  /\ Budgets \subseteq [spans : Nat, unseen : Nat, records : Nat, fields : Nat, events : Nat]
  /\ HiddenParents \in BOOLEAN /\ LateLayers \in BOOLEAN
  /\ \A c \in Calls : c \in Seq(ToSet(c))

VARIABLES
  state,      \* registry: "unused", "alive" or "removed"
  parent,     \* registry: the parent of a span
  held,       \* registry: per thread, the spans it holds a handle to
  entered,    \* registry: per thread, the stack of entered spans
  attached,   \* reload: the layer is in place
  seen,       \* of each span: "visible" to the layer, "hidden" by its filter
              \* (or not created yet), or "early", older than the layer
  writer,     \* per span, the thread that holds its extensions for writing
  readers,    \* per span, the threads that hold them for reading
  activity,   \* extension ActivityId of a span, or None
  deferred,   \* extension DeferredValues of a span
  op,         \* per thread, the handler it is in
  collecting, \* is_event_enabled: a session collects the events
  log,        \* the events written
  said,       \* auxiliary: per span, all the values recorded, in order
  steady,     \* auxiliary: the spans created since the sessions last changed
  budget      \* what is left of the bounds

registry == <<state, parent, held, entered, seen, attached>>
locks    == <<writer, readers>>
exts     == <<activity, deferred>>
sessions == <<collecting, steady>>
vars     == <<registry, locks, exts, op, sessions, log, said, budget>>

SpanOrNone == Spans \cup {NoSpan}
Activity   == Ids \cup {NullId}
Value      == UNION {ToSet(c) : c \in Calls}

Event(kind, s, a, r, values) ==
  [op |-> kind, span |-> s, activity |-> a, related |-> r, values |-> values]
Events == [op : {"START", "STOP"}, span : Spans, activity : Activity,
           related : Activity \cup {None}, values : Seq(Value)]
     \cup [op : {"INFO"}, span : SpanOrNone, activity : Activity \cup {None},
           related : {None}, values : {<<>>}]

Idle == [pc |-> "idle"]
Panicked == [pc |-> "panicked"]
At(pc, s) == [pc |-> pc, span |-> s]
Ready(e)  == [pc |-> "ready", event |-> e]

TypeOK ==
  /\ state \in [Spans -> {"unused", "alive", "removed"}]
  /\ parent \in [Spans -> SpanOrNone]
  /\ held \in [Threads -> SUBSET Spans]
  /\ entered \in [Threads -> Seq(Spans)]
  /\ attached \in BOOLEAN
  /\ seen \in [Spans -> {"visible", "hidden", "early"}]
  /\ writer \in [Spans -> Threads \cup {None}]
  /\ readers \in [Spans -> SUBSET Threads]
  /\ activity \in [Spans -> Activity \cup {None}]
  /\ deferred \in [Spans -> Seq(Value)]
  /\ \A t \in Threads :
       \/ op[t] \in {Idle, Panicked}
       \/ op[t] \in [pc : {"new", "closing", "removing"}, span : Spans]
       \/ op[t] \in [pc : {"recording"}, span : Spans, todo : Seq(Value)]
       \/ op[t] \in [pc : {"ready", "writing"}, event : Events]
  /\ collecting \in BOOLEAN
  /\ log \in Seq(Events)
  /\ said \in [Spans -> Seq(Value)]
  /\ steady \subseteq Spans
  /\ budget \in [spans : Nat, unseen : Nat, records : Nat, fields : Nat, events : Nat]

Init ==
  /\ state = [s \in Spans |-> "unused"]
  /\ parent = [s \in Spans |-> NoSpan]
  /\ held = [t \in Threads |-> {}]
  /\ entered = [t \in Threads |-> <<>>]
  /\ budget \in Budgets
  /\ attached \in IF budget.unseen = 0 THEN {TRUE} ELSE BOOLEAN
  /\ seen = [s \in Spans |-> "hidden"]
  /\ writer = [s \in Spans |-> None]
  /\ readers = [s \in Spans |-> {}]
  /\ activity = [s \in Spans |-> None]
  /\ deferred = [s \in Spans |-> <<>>]
  /\ op = [t \in Threads |-> Idle]
  /\ collecting \in BOOLEAN
  /\ log = <<>>
  /\ said = [s \in Spans |-> <<>>]
  /\ steady = {}

-----------------------------------------------------------------------------
(* The registry and the lock on a span's extensions: external.             *)

Goto(t, where) == op' = [op EXCEPT ![t] = where]
Free(t)        == op[t] = Idle

CanRead(s)  == writer[s] = None
CanWrite(s) == writer[s] = None /\ readers[s] = {}

\* Context::event_span for a contextual event: the innermost span entered
\* that the layer sees.
IsCurrent(t, s) ==
  \E i \in DOMAIN entered[t] :
    /\ entered[t][i] = s /\ seen[s] # "hidden"
    /\ \A j \in DOMAIN entered[t] : j > i => seen[entered[t][j]] = "hidden"

\* The layer is called for the span and finds it.
Sees(s)   == attached /\ seen[s] # "hidden"
Hidden(s) == s # NoSpan /\ seen[s] = "hidden"

\* References to a span: handles, and children not yet removed.
Referenced(s) ==
  \/ \E t \in Threads : s \in held[t]
  \/ \E c \in Spans : parent[c] = s /\ state[c] = "alive"

\* Thread t gives up one reference to s; if it was the last, t closes s.
GiveUp(t, s) ==
  IF s # NoSpan /\ ~Referenced(s)'
  THEN Goto(t, At("closing", s))
  ELSE Goto(t, Idle)

Unused == {s \in Spans : state[s] = "unused"}

\* A span is registered under its parent, explicit, contextual or none;
\* the creating thread has a handle to the parent, or is inside it.  The
\* registry hands out the span, the filter decides who sees it.
NewSpan(t, p, sight) ==
  /\ Free(t) /\ budget.spans > 0
  /\ sight # "visible" => budget.unseen > 0
  /\ p \in {NoSpan} \cup held[t] \cup ToSet(entered[t])
  /\ IF attached THEN sight # "early" ELSE sight = "early"
  /\ sight = "visible" /\ ~HiddenParents => ~Hidden(p)
  /\ Unused # {}
  /\ LET s == CHOOSE x \in Unused : TRUE  IN
       /\ state' = [state EXCEPT ![s] = "alive"]
       /\ parent' = [parent EXCEPT ![s] = p]
       /\ held' = [held EXCEPT ![t] = @ \cup {s}]
       /\ seen' = [seen EXCEPT ![s] = sight]
       /\ steady' = steady \cup {s}
       /\ IF sight = "visible" THEN Goto(t, At("new", s)) ELSE UNCHANGED op
  /\ budget' = [budget EXCEPT !.spans = @ - 1,
                             !.unseen = IF sight = "visible" THEN @ ELSE @ - 1]
  /\ UNCHANGED <<entered, attached, locks, exts, collecting, log, said>>

\* A handle is cloned and sent to another thread.
Share(t, u, s) ==
  /\ Free(t) /\ s \in held[t] \ held[u]
  /\ held' = [held EXCEPT ![u] = @ \cup {s}]
  /\ UNCHANGED <<state, parent, entered, seen, attached, locks, exts, op, sessions, log, said, budget>>

Enter(t, s) ==
  /\ Free(t) /\ s \in held[t] \ ToSet(entered[t])
  /\ entered' = [entered EXCEPT ![t] = Append(@, s)]
  /\ UNCHANGED <<state, parent, held, seen, attached, locks, exts, op, sessions, log, said, budget>>

Exit(t) ==
  /\ Free(t) /\ entered[t] # <<>>
  /\ entered' = [entered EXCEPT ![t] = Front(@)]
  /\ UNCHANGED <<state, parent, held, seen, attached, locks, exts, op, sessions, log, said, budget>>

\* A handle is dropped; an entered span keeps its guard, so its handle.
DropHandle(t, s) ==
  /\ Free(t) /\ s \in held[t] \ ToSet(entered[t])
  /\ held' = [held EXCEPT ![t] = @ \ {s}]
  /\ UNCHANGED <<state, parent, entered, seen>>
  /\ GiveUp(t, s)
  /\ UNCHANGED <<attached, locks, exts, sessions, log, said, budget>>

\* After on_close the registry clears the span and gives up its parent.
Clear(t) ==
  \E s \in Spans, p \in SpanOrNone :
    /\ op[t] = At("removing", s) /\ p = parent[s]
    /\ state' = [state EXCEPT ![s] = "removed"]
    /\ UNCHANGED <<parent, held, entered, seen>>
    /\ GiveUp(t, p)
    /\ UNCHANGED <<attached, locks, exts, sessions, log, said, budget>>

\* The registry passes over the layer when a span closes that it is not to
\* see.
CloseUnseen(t) ==
  \E s \in Spans :
    /\ op[t] = At("closing", s) /\ ~Sees(s)
    /\ Goto(t, At("removing", s))
    /\ UNCHANGED <<registry, locks, exts, sessions, log, said, budget>>

\* reload puts the layer in place.
Attach ==
  /\ ~attached
  /\ LateLayers \/ \A s \in Spans : state[s] # "alive"
  /\ attached' = TRUE
  /\ UNCHANGED <<state, parent, held, entered, seen, locks, exts, op, sessions, log, said, budget>>

\* Sessions start and stop: the answer of is_event_enabled changes.
Toggle ==
  /\ collecting' = ~collecting /\ steady' = {}
  /\ UNCHANGED <<registry, locks, exts, op, log, said, budget>>

-----------------------------------------------------------------------------
(* The handlers of TracelogSubscriber.                                     *)

ExtensionOf(s) == IF s = NoSpan THEN None ELSE activity[s]
Readable(s)    == s # NoSpan => CanRead(s)

\* The attribute "activity_id" of a new span: absent, or an id given as a
\* GUID (`?guid`, `%guid`) or as a text field.  A text reaches
\* ActivityIdVisitor through record_debug, hence between quotes, and does
\* not parse.
extract_activity_id_attr(attr) == IF attr.as = "guid" THEN attr.id ELSE None

Attrs == {[as |-> "absent", id |-> None]} \cup [as : {"guid", "text"}, id : Ids]

\* Seeded fault: without the attribute there is no id.
ActivityFor_NoDefault(attr, current) == extract_activity_id_attr(attr)

\* The id of the span: the attribute's, or else the current thread's, which
\* is NullId if the thread has none or the call fails.
ActivityFor(attr, current) ==
  IF extract_activity_id_attr(attr) # None THEN extract_activity_id_attr(attr) ELSE current

\* Seeded faults: the id is kept only if the event is enabled; the
\* thread's id is kept instead; the related id is not the parent's.
NewSpanWith(t, kept, event) ==
  /\ op[t].pc = "new" /\ Readable(parent[op[t].span])
  /\ activity' = [activity EXCEPT ![op[t].span] = kept]
  /\ Goto(t, Ready(event))
  /\ UNCHANGED <<registry, locks, deferred, sessions, log, said, budget>>
StartOf(t, attr, current) ==
  Event("START", op[t].span, ActivityFor(attr, current), ExtensionOf(parent[op[t].span]), <<>>)
on_new_span_IfEnabled(t, attr, current) ==
  NewSpanWith(t, IF collecting THEN ActivityFor(attr, current) ELSE None, StartOf(t, attr, current))
on_new_span_KeepsCurrent(t, attr, current) == NewSpanWith(t, current, StartOf(t, attr, current))
on_new_span_Unrelated(t, attr, current) ==
  NewSpanWith(t, ActivityFor(attr, current),
              [StartOf(t, attr, current) EXCEPT !.related = current])

\* ctx.span(&id).unwrap() on the parent panics if the filter hides it;
\* attrs.parent() and ctx.current_span() do not ask the filter.  The parent's
\* extensions are read, then the new span's are written; no other thread
\* knows the new span yet.
on_new_span(t, attr, current) ==
  /\ op[t].pc = "new"
  /\ LET s == op[t].span  IN
       IF Hidden(parent[s])
       THEN Goto(t, Panicked) /\ UNCHANGED activity
       ELSE /\ Readable(parent[s])
            /\ activity' = [activity EXCEPT ![s] = ActivityFor(attr, current)]
            /\ Goto(t, Ready(Event("START", s, ActivityFor(attr, current),
                                   ExtensionOf(parent[s]), <<>>)))
  /\ UNCHANGED <<registry, locks, deferred, sessions, log, said, budget>>

\* Seeded fault: the values are updated without the lock.
RecordBegin_Unlocked(t, s, call) ==
  /\ Free(t) /\ Sees(s) /\ s \in held[t] /\ budget.records > 0 /\ Len(call) <= budget.fields
  /\ Goto(t, [pc |-> "recording", span |-> s, todo |-> call])
  /\ said' = [said EXCEPT ![s] = @ \o call]
  /\ budget' = [budget EXCEPT !.records = @ - 1]
  /\ UNCHANGED <<registry, locks, exts, sessions, log>>

\* The write lock is held over the whole of Record::record.
RecordBegin(t, s, call) ==
  /\ Free(t) /\ Sees(s) /\ s \in held[t] /\ CanWrite(s)
  /\ budget.records > 0 /\ Len(call) <= budget.fields
  /\ writer' = [writer EXCEPT ![s] = t]
  /\ Goto(t, [pc |-> "recording", span |-> s, todo |-> call])
  /\ said' = [said EXCEPT ![s] = @ \o call]
  /\ budget' = [budget EXCEPT !.records = @ - 1]
  /\ UNCHANGED <<registry, readers, exts, sessions, log>>

RecordField(t) ==
  /\ op[t].pc = "recording" /\ op[t].todo # <<>>
  /\ deferred' = [deferred EXCEPT ![op[t].span] = update(@, Head(op[t].todo))]
  /\ op' = [op EXCEPT ![t].todo = Tail(@)]
  /\ UNCHANGED <<registry, locks, activity, sessions, log, said, budget>>

\* Seeded fault: the lock is not given back.
RecordEnd_KeepsLock(t) ==
  /\ op[t].pc = "recording" /\ op[t].todo = <<>>
  /\ Goto(t, Idle)
  /\ UNCHANGED <<registry, locks, exts, sessions, log, said, budget>>

RecordEnd(t) ==
  /\ op[t].pc = "recording" /\ op[t].todo = <<>>
  /\ writer' = [writer EXCEPT ![op[t].span] = None]
  /\ Goto(t, Idle)
  /\ UNCHANGED <<registry, readers, exts, sessions, log, said, budget>>

\* An event, in the current span, in a given one or in none.  A given span
\* that the filter hides counts as none.
on_event(t, s) ==
  /\ Free(t) /\ attached /\ budget.events > 0
  /\ s = NoSpan \/ IsCurrent(t, s) \/ (s \in held[t] /\ seen[s] # "hidden")
  /\ Readable(s)
  /\ Goto(t, Ready(Event("INFO", s, ExtensionOf(s), None, <<>>)))
  /\ budget' = [budget EXCEPT !.events = @ - 1]
  /\ UNCHANGED <<registry, locks, exts, sessions, log, said>>

\* The read lock taken here is held until on_close returns.  The unwrap of
\* the activity id panics if on_new_span did not store one.
on_close(t) ==
  /\ op[t].pc = "closing" /\ Sees(op[t].span)
  /\ LET s == op[t].span  IN
       /\ CanRead(s)
       /\ IF activity[s] = None
          THEN Goto(t, Panicked) /\ UNCHANGED readers
          ELSE /\ readers' = [readers EXCEPT ![s] = @ \cup {t}]
               /\ Goto(t, Ready(Event("STOP", s, activity[s], None, deferred[s])))
  /\ UNCHANGED <<registry, writer, exts, sessions, log, said, budget>>

\* Seeded fault: on_close is run again.
Return_Again(t, e) ==
  IF e.op = "STOP"
  THEN /\ readers' = [readers EXCEPT ![e.span] = @ \ {t}]
       /\ Goto(t, At("closing", e.span))
  ELSE Goto(t, Idle) /\ UNCHANGED readers

\* The handler returns after write_event.
Return(t, e) ==
  IF e.op = "STOP"
  THEN /\ readers' = [readers EXCEPT ![e.span] = @ \ {t}]
       /\ Goto(t, At("removing", e.span))
  ELSE Goto(t, Idle) /\ UNCHANGED readers

\* write_event gives up when is_event_enabled says so ...
Skip(t) ==
  /\ op[t].pc = "ready" /\ ~collecting
  /\ Return(t, op[t].event)
  /\ UNCHANGED <<registry, writer, exts, sessions, log, said, budget>>

\* Seeded fault: a STOP is written without asking.
Build_StopUnasked(t) ==
  /\ op[t].pc = "ready" /\ (collecting \/ op[t].event.op = "STOP")
  /\ op' = [op EXCEPT ![t].pc = "writing"]
  /\ UNCHANGED <<registry, locks, exts, sessions, log, said, budget>>

\* ... and otherwise builds the event and hands it to the provider, after
\* which nothing is asked again.
Build(t) ==
  /\ op[t].pc = "ready" /\ collecting
  /\ op' = [op EXCEPT ![t].pc = "writing"]
  /\ UNCHANGED <<registry, locks, exts, sessions, log, said, budget>>

Write(t) ==
  /\ op[t].pc = "writing"
  /\ log' = Append(log, op[t].event)
  /\ Return(t, op[t].event)
  /\ UNCHANGED <<registry, writer, exts, sessions, said, budget>>

-----------------------------------------------------------------------------
Handler(t) ==
  \/ \E attr \in Attrs, current \in Activity : on_new_span(t, attr, current)
  \/ RecordField(t) \/ RecordEnd(t) \/ on_close(t)
  \/ Skip(t) \/ Build(t) \/ Write(t) \/ Clear(t) \/ CloseUnseen(t)

Program(t) ==
  \/ \E p \in SpanOrNone, sight \in {"visible", "hidden", "early"} : NewSpan(t, p, sight)
  \/ \E s \in Spans : \/ Enter(t, s) \/ DropHandle(t, s)
                      \/ \E u \in Threads : Share(t, u, s)
                      \/ \E call \in Calls : RecordBegin(t, s, call)
  \/ Exit(t)
  \/ \E s \in SpanOrNone : on_event(t, s)

Next == Toggle \/ Attach \/ \E t \in Threads : Handler(t) \/ Program(t)

Spec == Init /\ [][Next]_vars

\* A handler once begun is run on; the program owes nothing.  A call that
\* waits for a lock has not begun here, except on_new_span and on_close.
FairSpec == Spec /\ \A t \in Threads : WF_vars(Handler(t))

-----------------------------------------------------------------------------
(* Properties.                                                             *)

ParentOf(s) == IF s = NoSpan THEN NoSpan ELSE parent[s]

\* In the log nothing of a span comes before its START or after its STOP,
\* and a child's events lie within its parent's, whichever threads the
\* handlers ran on.
SpansNest ==
  \A i, j \in DOMAIN log : i < j =>
    /\ log[j].op = "START" => log[j].span \notin {log[i].span, ParentOf(log[i].span)}
    /\ log[i].op = "STOP"  => log[i].span \notin {log[j].span, ParentOf(log[j].span)}

\* The activity of a span is the same in all its events, and a START that
\* has a parent is related to the activity of the parent's own events.
OneActivityPerSpan ==
  \A i, j \in DOMAIN log :
    /\ log[i].span = log[j].span => log[i].activity = log[j].activity
    /\ log[i].op = "START" /\ parent[log[i].span] # NoSpan
         /\ log[j].span = parent[log[i].span] => log[i].related = log[j].activity

\* A STOP carries every field recorded on the span, once, in the order of
\* first mention and with the value recorded last, even when threads record
\* on the span at the same time.
StopSummarises ==
  \A i \in DOMAIN log : log[i].op = "STOP" => Summarises(log[i].values, said[log[i].span])

\* The unwraps of the handlers hold: on_new_span finds the parent
\* (`ctx.span(&id).unwrap()`), on_close finds the activity id that
\* on_new_span stored, whatever the filter, the sessions and reload did.
NoHandlerPanics == \A t \in Threads : op[t] # Panicked

\* If the sessions did not change while a span lived, the log has both its
\* START and its STOP or neither: the two handlers, on any threads, ask for
\* the same level and each writes at most once.
StartsPairWithStops ==
  \A s \in steady : state[s] = "removed" =>
    LET count(kind) == Cardinality({i \in DOMAIN log : log[i].span = s /\ log[i].op = kind})
    IN  count("START") = count("STOP") /\ count("STOP") <= 1

\* Every handler that began returns: no two of them wait for each other's
\* locks on the extensions.
HandlersReturn == \A t \in Threads : op[t].pc # "idle" ~> op[t].pc = "idle"

\* The handlers together implement SpanLog: an on_record takes effect when
\* it gets the lock, a START or STOP when it is written or skipped.  Spans
\* that the layer does not see are not in the log.
PendingStart(s) ==
  \E t \in Threads : \/ op[t] = At("new", s)
                     \/ /\ op[t].pc \in {"ready", "writing"}
                        /\ op[t].event.op = "START" /\ op[t].event.span = s
Stopped(s) == state[s] = "removed" \/ \E t \in Threads : op[t] = At("removing", s)
Status(s) ==
  IF seen[s] # "visible" \/ PendingStart(s) THEN "none" ELSE IF Stopped(s) THEN "done" ELSE "open"
Todo(s) ==
  IF writer[s] = None THEN <<>> ELSE op[writer[s]].todo

Promise == INSTANCE SpanLog WITH
  Activities <- Activity,
  status   <- [s \in Spans |-> Status(s)],
  parent   <- [s \in Spans |-> IF Status(s) = "none" THEN NoSpan ELSE parent[s]],
  activity <- [s \in Spans |-> IF Status(s) = "none" THEN None ELSE activity[s]],
  recorded <- [s \in Spans |-> RecordAll(deferred[s], Todo(s))]
ImplementsSpanLog == Promise!Spec

\* "Extracts the "activity_id" field from span attributes. Returns None if
\* the field is missing.": a START has the id of the attribute if there is one.
PresentAttributeIsUsed ==
  [][\A t \in Threads, attr \in Attrs, current \in Activity :
       on_new_span(t, attr, current) /\ attr.as # "absent"
       => op'[t].event.activity = attr.id]_vars
=============================================================================
