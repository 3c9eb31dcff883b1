------------------------ MODULE TracelogSpansProofs ------------------------
(***************************************************************************)
(* What the handlers of spans promise, for any threads, spans, filters and *)
(* sessions: events nest, a span has one activity, and no handler panics   *)
(* if the filter hides no parent and the layer is not late.                *)
(*                                                                         *)
(* The argument is about who may still speak for a span.  While it starts, *)
(* one thread knows it and it has no children; when a thread closes it,    *)
(* nobody else does, and nobody has a reference to it.                     *)
(*                                                                         *)
(* Then what the log says of a span: its STOP has the values recorded on   *)
(* it, its START and STOP are both there or neither, and the handlers,     *)
(* with their locks and in any interleaving, do in several steps what      *)
(* SpanLog does in one.  The values need an induction over the fields      *)
(* recorded: RecordAll is a fold, and FoldTheorems says what a fold does   *)
(* with one more element.                                                  *)
(***************************************************************************)
EXTENDS TracelogSpans, SequenceTheorems, FiniteSetTheorems, TLAPS

Writes(t) == op[t].pc \in {"ready", "writing"}

Starts(t, s) ==
  \/ op[t].pc = "new" /\ op[t].span = s
  \/ Writes(t) /\ op[t].event.op = "START" /\ op[t].event.span = s

Closes(t, s) ==
  \/ op[t].pc \in {"closing", "removing"} /\ op[t].span = s
  \/ Writes(t) /\ op[t].event.op = "STOP" /\ op[t].event.span = s

Types ==
  /\ state \in [Spans -> {"unused", "alive", "removed"}]
  /\ parent \in [Spans -> SpanOrNone]
  /\ held \in [Threads -> SUBSET Spans]
  /\ entered \in [Threads -> Seq(Spans)]
  /\ seen \in [Spans -> {"visible", "hidden", "early"}]
  /\ activity \in [Spans -> Activity \cup {None}]
  /\ op = [t \in Threads |-> op[t]]
  /\ \E S : log \in Seq(S)

\* The record a thread is at.
Shape(w) ==
  /\ w.pc \in {"idle", "panicked", "new", "closing", "removing", "recording", "ready", "writing"}
  /\ w.pc \in {"new", "closing", "removing"} => w.span \in Spans
  /\ w.pc = "recording" => w = [pc |-> w.pc, span |-> w.span, todo |-> w.todo]
  /\ w.pc \in {"ready", "writing"} => w = [pc |-> w.pc, event |-> w.event]

\* References: what is held or entered is alive, and so are the ancestors of
\* what is alive.
Registry ==
  /\ \A t \in Threads : \A i \in DOMAIN entered[t] : entered[t][i] \in held[t]
  /\ \A t \in Threads : \A s \in held[t] : state[s] = "alive"
  /\ \A c \in Spans : parent[c] # NoSpan =>
       /\ parent[c] # c /\ state[parent[c]] # "unused"
       /\ state[c] = "alive" => state[parent[c]] = "alive"

Alone(t, s) ==
  /\ s \in held[t] /\ seen[s] = "visible" /\ parent[s] \in held[t] \cup {NoSpan}
  /\ \A u \in Threads \ {t} : s \notin held[u]
  /\ \A c \in Spans : parent[c] # s
  /\ \A i \in DOMAIN log : log[i].span # s

Unreferenced(t, s) ==
  /\ state[s] = "alive"
  /\ \A u \in Threads : s \notin held[u] /\ (Closes(u, s) => u = t)
  /\ \A c \in Spans : parent[c] = s => state[c] # "alive"

\* An event says the activities that its span and the parent's have.
EventOK(e) ==
  /\ e.op \in {"START", "STOP", "INFO"} /\ e.span \in SpanOrNone
  /\ e.op # "INFO" => e.span \in Spans
  /\ e.activity = ExtensionOf(e.span)
  /\ e.op = "START" /\ parent[e.span] # NoSpan => e.related = activity[parent[e.span]]

Pending(t) ==
  /\ Writes(t) => EventOK(op[t].event)
  /\ Writes(t) /\ op[t].event.op = "INFO" => op[t].event.span \in held[t] \cup {NoSpan}

StoppedFor(s) == state[s] = "removed" \/ \E u \in Threads : op[u].pc = "removing" /\ op[u].span = s

Logged ==
  \A i \in DOMAIN log :
    /\ EventOK(log[i])
    /\ log[i].span # NoSpan => state[log[i].span] # "unused"
    /\ log[i].op = "STOP" => StoppedFor(log[i].span)

Inv ==
  /\ Types /\ Registry /\ Logged /\ SpansNest
  /\ \A t \in Threads : Shape(op[t]) /\ Pending(t)
  /\ \A t \in Threads, s \in Spans :
       (Starts(t, s) => Alone(t, s)) /\ (Closes(t, s) => Unreferenced(t, s))

LEMMA Names == NoSpan \notin Spans /\ None \notin Activity
  BY SpanAssumption DEF SpanAssumption, Activity

LEMMA InitInv == Init => Inv
<1> SUFFICES ASSUME Init PROVE Inv
  OBVIOUS
<1>1. /\ \A t \in Threads : op[t] = Idle /\ held[t] = {} /\ entered[t] = <<>>
      /\ log = <<>> /\ \A s \in Spans : parent[s] = NoSpan
  BY DEF Init
<1>2. <<>> \in Seq({}) /\ DOMAIN <<>> = {}
  OBVIOUS
<1>3. Types
  BY <1>1, <1>2 DEF Init, Types, SpanOrNone
<1>4. Registry /\ Logged /\ SpansNest
  BY <1>1, <1>2 DEF Registry, Logged, SpansNest
<1>5. ASSUME NEW t \in Threads, NEW s \in Spans
      PROVE  Shape(op[t]) /\ Pending(t) /\ ~Starts(t, s) /\ ~Closes(t, s)
  BY <1>1 DEF Idle, Shape, Pending, Writes, Starts, Closes
<1> QED
  BY <1>3, <1>4, <1>5 DEF Inv, Init, Idle, Shape, Pending, Writes

\* A step that only moves one thread, and makes it speak for no other span.
LEMMA Quiet ==
  ASSUME Inv, NEW t \in Threads, NEW w, op' = [op EXCEPT ![t] = w], Shape(w),
         UNCHANGED <<state, parent, held, entered, seen, activity, log>>,
         op[t].pc = "removing" => w = op[t],
         \A s \in Spans : (Starts(t, s)' => Starts(t, s)) /\ (Closes(t, s)' => Closes(t, s)),
         Pending(t)'
  PROVE  Inv'
<1>1. op'[t] = w /\ \A u \in Threads \ {t} : op'[u] = op[u]
  BY DEF Inv, Types
<1>2. Types' /\ Registry' /\ SpansNest'
  <2>1. Types'
    BY DEF Inv, Types
  <2>2. Registry'
    BY DEF Inv, Types, Registry
  <2>3. SpansNest'
    BY DEF Inv, Types, SpansNest, ParentOf
  <2> QED
    BY <2>1, <2>2, <2>3
<1>3. ASSUME NEW s, StoppedFor(s) PROVE StoppedFor(s)'
  BY <1>1, <1>3 DEF StoppedFor
<1>4. \A e : EventOK(e) => EventOK(e)'
  BY DEF EventOK, ExtensionOf
<1>5. Logged'
  BY <1>3, <1>4 DEF Inv, Logged
<1>6. ASSUME NEW u \in Threads PROVE Shape(op[u])' /\ Pending(u)'
  BY <1>1, <1>4, <1>6 DEF Inv, Shape, Pending, Writes
<1>7. ASSUME NEW u \in Threads, NEW s \in Spans
      PROVE  (Starts(u, s)' => Starts(u, s)) /\ (Closes(u, s)' => Closes(u, s))
  BY <1>1, <1>7 DEF Starts, Closes, Writes
<1>8. ASSUME NEW u \in Threads, NEW s \in Spans
      PROVE  (Starts(u, s)' => Alone(u, s)') /\ (Closes(u, s)' => Unreferenced(u, s)')
  <2>1. Starts(u, s) => Alone(u, s)'
    BY <1>8 DEF Inv, Alone
  <2>2. Closes(u, s) => Unreferenced(u, s)'
    BY <1>7, <1>8 DEF Inv, Unreferenced
  <2> QED
    BY <1>7, <2>1, <2>2
<1> QED
  BY <1>2, <1>5, <1>6, <1>8 DEF Inv

\* Handles are cloned and guards entered and left; the thread that gives a
\* handle away keeps its own, so it does not start a span.
LEMMA HandleInv ==
  ASSUME Inv, NEW t \in Threads, NEW u \in Threads, NEW s \in Spans,
         Share(t, u, s) \/ Enter(t, s) \/ Exit(t)
  PROVE  Inv'
<1> USE DEF Share, Enter, Exit, Free
<1>1. UNCHANGED <<state, parent, seen, activity, log, op>>
  BY DEF exts
<1>2. ASSUME NEW v \in Threads
      PROVE  /\ held[v] \subseteq held'[v] /\ held'[v] \subseteq Spans
             /\ held'[v] \ held[v] \subseteq {s}
             /\ held'[v] # held[v] => s \in held[t] /\ op[t] = Idle
             /\ entered'[v] \in Seq(Spans)
             /\ \A i \in DOMAIN entered'[v] : entered'[v][i] \in held'[v]
  <2>1. /\ entered[v] \in Seq(Spans) /\ \A i \in DOMAIN entered[v] : entered[v][i] \in held[v]
        /\ entered[t] \in Seq(Spans) /\ held[v] \subseteq Spans
        /\ held \in [Threads -> SUBSET Spans] /\ entered \in [Threads -> Seq(Spans)]
    BY DEF Inv, Types, Registry
  <2>2. CASE Share(t, u, s)
    BY <2>1, <2>2
  <2>3. CASE Enter(t, s)
    BY <2>1, <2>3
  <2>4. CASE Exit(t)
    BY <2>1, <2>4 DEF Front
  <2> QED
    BY <2>2, <2>3, <2>4
<1>3. Types'
  <2>1. held' \in [Threads -> SUBSET Spans] /\ entered' \in [Threads -> Seq(Spans)]
    BY <1>2 DEF Inv, Types
  <2> QED
    BY <1>1, <2>1 DEF Inv, Types
<1>4. \A v \in Threads : \A x \in held'[v] : state[x] = "alive"
  BY <1>2 DEF Inv, Registry
<1>5. Registry'
  BY <1>1, <1>2, <1>4 DEF Inv, Registry
<1>6. Logged' /\ SpansNest'
  BY <1>1 DEF Inv, Logged, EventOK, ExtensionOf, StoppedFor, SpansNest, ParentOf
<1>7. ASSUME NEW v \in Threads PROVE Shape(op[v])' /\ Pending(v)'
  BY <1>1, <1>2 DEF Inv, Shape, Pending, Writes, EventOK, ExtensionOf
<1>8. ASSUME NEW v \in Threads, NEW x \in Spans
      PROVE  (Starts(v, x)' => Alone(v, x)') /\ (Closes(v, x)' => Unreferenced(v, x)')
  <2>1. (Starts(v, x)' <=> Starts(v, x)) /\ (Closes(v, x)' <=> Closes(v, x))
    BY <1>1 DEF Starts, Closes, Writes
  <2>2. ASSUME Starts(v, x) PROVE Alone(v, x)'
    <3>1. Alone(v, x) /\ op[v] # Idle
      BY <2>2 DEF Inv, Starts, Writes, Idle
    <3>2. \A w \in Threads \ {v} : x \notin held'[w]
      BY <1>2, <3>1 DEF Alone
    <3> QED
      BY <1>1, <1>2, <3>1, <3>2 DEF Alone
  <2>3. ASSUME Closes(v, x) PROVE Unreferenced(v, x)'
    <3>1. Unreferenced(v, x)
      BY <2>3 DEF Inv
    <3>2. \A w \in Threads : x \notin held'[w]
      BY <1>2, <3>1 DEF Unreferenced
    <3>3. \A w \in Threads : Closes(w, x)' <=> Closes(w, x)
      BY <1>1 DEF Closes, Writes
    <3> QED
      BY <1>1, <3>1, <3>2, <3>3 DEF Unreferenced
  <2> QED
    BY <2>1, <2>2, <2>3
<1> QED
  BY <1>3, <1>5, <1>6, <1>7, <1>8 DEF Inv

\* A reference is given up: the thread that gave up the last one closes the
\* span, which nobody closed before.
LEMMA GiveUpInv ==
  ASSUME Inv, NEW t \in Threads, NEW s \in SpanOrNone, GiveUp(t, s),
         Registry', held' \in [Threads -> SUBSET Spans],
         state' \in [Spans -> {"unused", "alive", "removed"}],
         \A u \in Threads : held'[u] \subseteq held[u],
         \A u \in Threads \ {t} : held'[u] = held[u],
         \A x \in Spans : state'[x] = state[x] \/ (state'[x] = "removed" /\ Closes(t, x)),
         ~\E x \in Spans : Starts(t, x),
         \A x \in Spans : op[t].pc = "removing" /\ op[t].span = x => state'[x] = "removed",
         s # NoSpan => Referenced(s) /\ state'[s] = "alive",
         UNCHANGED <<parent, entered, seen, activity, log>>
  PROVE  Inv'
<1>1. /\ op'[t] = Idle \/ (s \in Spans /\ op'[t] = At("closing", s) /\ ~Referenced(s)')
      /\ \A u \in Threads \ {t} : op'[u] = op[u]
      /\ op' = [u \in Threads |-> op'[u]]
  BY DEF GiveUp, Goto, Inv, Types, SpanOrNone
<1>2. Types'
  BY <1>1 DEF Inv, Types
<1>3. SpansNest'
  BY DEF Inv, SpansNest, ParentOf
<1>4. ASSUME NEW x \in Spans, StoppedFor(x) PROVE StoppedFor(x)'
  BY <1>1, <1>4 DEF StoppedFor, Inv, Types
<1>5. \A e : EventOK(e) => EventOK(e)'
  BY DEF EventOK, ExtensionOf
<1>6. Logged'
  BY <1>4, <1>5, Names DEF Inv, Logged, EventOK, SpanOrNone
<1>7. ASSUME NEW u \in Threads PROVE Shape(op[u])' /\ Pending(u)'
  <2>1. CASE u = t
    BY <1>1, <2>1 DEF Shape, Pending, Writes, Idle, At
  <2>2. CASE u # t
    <3>1. Shape(op[u])'
      BY <1>1, <2>2 DEF Inv, Shape
    <3>2. Pending(u)'
      BY <1>1, <1>5, <2>2 DEF Inv, Pending, Writes
    <3> QED
      BY <3>1, <3>2
  <2> QED
    BY <2>1, <2>2
<1>8. ASSUME NEW u \in Threads, NEW x \in Spans, Starts(u, x)' PROVE Alone(u, x)'
  <2>1. u # t /\ Starts(u, x)
    BY <1>1, <1>8 DEF Starts, Writes, Idle, At
  <2> QED
    BY <2>1 DEF Inv, Alone
<1>9. ASSUME NEW u \in Threads, NEW x \in Spans, Closes(u, x)' PROVE Unreferenced(u, x)'
  <2>1. CASE u # t
    <3>1. Unreferenced(u, x)
      BY <1>1, <1>9, <2>1 DEF Inv, Closes, Writes
    <3>2. ~Closes(t, x) /\ x # s
      BY <2>1, <3>1, Names DEF Unreferenced, Referenced
    <3>3. state'[x] = "alive" /\ \A c \in Spans : parent'[c] = x => state'[c] # "alive"
      BY <3>1, <3>2 DEF Unreferenced
    <3>4. \A v \in Threads : Closes(v, x)' => Closes(v, x)
      BY <1>1, <3>2 DEF Closes, Writes, Idle, At
    <3> QED
      BY <3>1, <3>3, <3>4 DEF Unreferenced
  <2>2. CASE u = t
    <3>1. x = s /\ s \in Spans /\ ~Referenced(s)'
      BY <1>1, <1>9, <2>2 DEF Closes, Writes, Idle, At
    <3>2. ASSUME NEW v \in Threads, v # t PROVE ~Closes(v, x)'
      BY <1>1, <3>1, <3>2, Names DEF Inv, Unreferenced, Referenced, Closes, Writes
    <3> QED
      BY <2>2, <3>1, <3>2, Names DEF Unreferenced, Referenced
  <2> QED
    BY <2>1, <2>2
<1> QED
  BY <1>2, <1>3, <1>6, <1>7, <1>8, <1>9 DEF Inv

LEMMA DropInv == ASSUME Inv, NEW t \in Threads, NEW s \in Spans, DropHandle(t, s) PROVE Inv'
<1> USE DEF DropHandle, Free
<1>1. /\ op[t].pc = "idle" /\ s \in held[t] /\ GiveUp(t, s)
      /\ UNCHANGED <<state, parent, entered, seen, activity, log>>
      /\ held' = [held EXCEPT ![t] = @ \ {s}]
      /\ \A i \in DOMAIN entered[t] : entered[t][i] # s
  BY DEF exts, Idle, ToSet
<1>2. held' \in [Threads -> SUBSET Spans]
  BY <1>1 DEF Inv, Types
<1>3. \A u \in Threads : held'[u] = IF u = t THEN held[t] \ {s} ELSE held[u]
  BY <1>1 DEF Inv, Types
<1>4. Registry'
  BY <1>1, <1>3 DEF Inv, Registry
<1>5. ~\E x \in Spans : Starts(t, x)
  BY <1>1 DEF Starts, Writes
<1>6. Referenced(s) /\ state'[s] = "alive"
  BY <1>1 DEF Referenced, Inv, Registry
<1> QED
  BY <1>1, <1>2, <1>3, <1>4, <1>5, <1>6, GiveUpInv DEF Inv, Types, SpanOrNone

LEMMA ClearInv == ASSUME Inv, NEW t \in Threads, Clear(t) PROVE Inv'
<1>1. PICK s \in Spans, p \in SpanOrNone :
        /\ op[t] = At("removing", s) /\ p = parent[s] /\ GiveUp(t, p)
        /\ state' = [state EXCEPT ![s] = "removed"]
        /\ UNCHANGED <<parent, held, entered, seen, activity, log>>
  BY DEF Clear, exts
<1>2. Closes(t, s) /\ ~\E x \in Spans : Starts(t, x)
  BY <1>1 DEF Closes, Starts, Writes, At
<1>3. Unreferenced(t, s)
  BY <1>2 DEF Inv
<1>4. /\ state' \in [Spans -> {"unused", "alive", "removed"}] /\ state'[s] = "removed"
      /\ \A x \in Spans \ {s} : state'[x] = state[x]
  BY <1>1 DEF Inv, Types
<1>5. Registry'
  <2>1. \A u \in Threads : \A x \in held[u] : state'[x] = "alive"
    BY <1>3, <1>4 DEF Inv, Types, Registry, Unreferenced
  <2>2. ASSUME NEW c \in Spans, parent[c] # NoSpan
        PROVE  /\ parent[c] # c /\ state'[parent[c]] # "unused"
               /\ state'[c] = "alive" => state'[parent[c]] = "alive"
    BY <1>3, <1>4, <2>2 DEF Inv, Types, Registry, Unreferenced, SpanOrNone
  <2> QED
    BY <1>1, <2>1, <2>2 DEF Inv, Registry
<1>6. p # NoSpan => Referenced(p) /\ state'[p] = "alive"
  BY <1>1, <1>3, <1>4 DEF Inv, Registry, Referenced, Unreferenced, Types, SpanOrNone
<1>7. held' \in [Threads -> SUBSET Spans]
  BY <1>1 DEF Inv, Types
<1>8. \A x \in Spans : op[t].pc = "removing" /\ op[t].span = x => state'[x] = "removed"
  BY <1>1, <1>4 DEF At
<1> QED
  BY <1>1, <1>2, <1>4, <1>5, <1>6, <1>7, <1>8, GiveUpInv

\* The id is stored when nobody can have read its absence.
LEMMA NewHandlerInv ==
  ASSUME Inv, NEW t \in Threads, NEW attr \in Attrs, NEW current \in Activity,
         on_new_span(t, attr, current)
  PROVE  Inv'
<1> DEFINE id == ActivityFor(attr, current)
<1>1. PICK s \in Spans :
        /\ op[t].pc = "new" /\ op[t].span = s /\ Starts(t, s)
        /\ UNCHANGED <<state, parent, held, entered, seen, log>>
  BY DEF on_new_span, registry, Inv, Shape, Starts
<1>2. Alone(t, s)
  BY <1>1 DEF Inv
<1>3. CASE Hidden(parent[s])
  <2>1. op' = [op EXCEPT ![t] = Panicked] /\ activity' = activity
    BY <1>1, <1>3 DEF on_new_span, Goto
  <2>2. op'[t] = Panicked /\ Shape(Panicked) /\ Pending(t)'
    BY <2>1 DEF Inv, Types, Panicked, Shape, Pending, Writes
  <2>3. \A x \in Spans : ~Starts(t, x)' /\ ~Closes(t, x)'
    BY <2>2 DEF Panicked, Starts, Closes, Writes
  <2> QED
    BY <1>1, <2>1, <2>2, <2>3, Quiet
<1>4. CASE ~Hidden(parent[s])
  <2>1. PICK e : /\ e = Event("START", s, id, ExtensionOf(parent[s]), <<>>)
                 /\ op' = [op EXCEPT ![t] = Ready(e)]
                 /\ activity' = [activity EXCEPT ![s] = id]
    BY <1>1, <1>4 DEF on_new_span, Goto
  <2>2. id \in Activity
    BY DEF ActivityFor, extract_activity_id_attr, Attrs, Activity
  <2>3. /\ op'[t] = Ready(e) /\ \A u \in Threads \ {t} : op'[u] = op[u]
        /\ op' = [u \in Threads |-> op'[u]]
        /\ activity' \in [Spans -> Activity \cup {None}]
        /\ activity'[s] = id /\ \A x \in Spans \ {s} : activity'[x] = activity[x]
    BY <1>1, <2>1, <2>2 DEF Inv, Types
  <2>4. ASSUME NEW f, EventOK(f), f.span # s PROVE EventOK(f)'
    BY <1>1, <1>2, <2>3, <2>4 DEF EventOK, ExtensionOf, Alone, SpanOrNone, Inv, Types
  <2>5. EventOK(e)'
    <3>1. parent[s] # s /\ parent[s] \in SpanOrNone
      BY <1>1, <1>2 DEF Alone, Inv, Types
    <3>2. ExtensionOf(parent[s])' = ExtensionOf(parent[s]) /\ s # NoSpan
      BY <1>1, <2>3, <3>1, Names DEF ExtensionOf, SpanOrNone
    <3> QED
      BY <1>1, <2>1, <2>3, <3>1, <3>2 DEF EventOK, Event, ExtensionOf, SpanOrNone
  <2>6. Types' /\ Registry' /\ SpansNest'
    BY <1>1, <2>3 DEF Inv, Types, Registry, SpansNest, ParentOf
  <2>7. ASSUME NEW x, StoppedFor(x) PROVE StoppedFor(x)'
    BY <1>1, <2>3, <2>7 DEF StoppedFor
  <2>8. Logged'
    BY <1>1, <1>2, <2>4, <2>7 DEF Inv, Logged, Alone
  <2>9. ASSUME NEW u \in Threads PROVE Shape(op[u])' /\ Pending(u)'
    <3>1. CASE u = t
      BY <2>1, <2>3, <2>5, <3>1 DEF Shape, Pending, Writes, Ready, Event
    <3>2. CASE u # t
      <4>1. Shape(op[u])' /\ op'[u] = op[u]
        BY <2>3, <3>2 DEF Inv, Shape
      <4>2. ASSUME Writes(u) PROVE op[u].event.span # s
        <5>1. Pending(u)
          BY DEF Inv
        <5>2. s \notin held[u] /\ s \in held[t] /\ s # NoSpan
          BY <1>1, <1>2, <3>2, Names DEF Alone
        <5>3. CASE op[u].event.op = "INFO"
          BY <4>2, <5>1, <5>2, <5>3 DEF Pending
        <5>4. CASE op[u].event.op = "START"
          BY <1>1, <4>2, <5>2, <5>4 DEF Inv, Starts, Alone
        <5>5. CASE op[u].event.op = "STOP"
          BY <1>1, <4>2, <5>2, <5>5 DEF Inv, Closes, Unreferenced
        <5> QED
          BY <4>2, <5>1, <5>3, <5>4, <5>5 DEF Pending, EventOK
      <4>3. Pending(u)'
        BY <1>1, <2>4, <4>1, <4>2 DEF Inv, Pending, Writes
      <4> QED
        BY <4>1, <4>3
    <3> QED
      BY <3>1, <3>2
  <2>10. ASSUME NEW u \in Threads, NEW x \in Spans
         PROVE  (Starts(u, x)' => Alone(u, x)') /\ (Closes(u, x)' => Unreferenced(u, x)')
    <3>1. ASSUME NEW v \in Threads
          PROVE  (Starts(v, x)' => Starts(v, x)) /\ (Closes(v, x)' => Closes(v, x))
      BY <1>1, <2>1, <2>3 DEF Starts, Closes, Writes, Ready, Event
    <3>2. Starts(u, x) => Alone(u, x)'
      BY <1>1 DEF Inv, Alone
    <3>3. Closes(u, x) => Unreferenced(u, x)'
      BY <1>1, <3>1 DEF Inv, Unreferenced
    <3> QED
      BY <3>1, <3>2, <3>3
  <2> QED
    BY <2>6, <2>8, <2>9, <2>10 DEF Inv
<1> QED
  BY <1>3, <1>4

\* A span that nobody knew gets one thread that does, and no children.
LEMMA NewSpanInv ==
  ASSUME Inv, NEW t \in Threads, NEW p \in SpanOrNone, NEW sight \in {"visible", "hidden", "early"},
         NewSpan(t, p, sight)
  PROVE  Inv'
<1>1. PICK s \in Spans :
        /\ state[s] = "unused" /\ op[t] = Idle /\ p \in {NoSpan} \cup held[t] \cup ToSet(entered[t])
        /\ state' = [state EXCEPT ![s] = "alive"] /\ parent' = [parent EXCEPT ![s] = p]
        /\ held' = [held EXCEPT ![t] = @ \cup {s}] /\ seen' = [seen EXCEPT ![s] = sight]
        /\ op' = op \/ (op' = [op EXCEPT ![t] = At("new", s)] /\ sight = "visible")
        /\ UNCHANGED <<entered, activity, log>>
  <2> DEFINE s == CHOOSE x \in Unused : TRUE
  <2>1. s \in Unused
    BY DEF NewSpan
  <2>2. s \in Spans /\ state[s] = "unused"
    BY <2>1 DEF Unused
  <2> HIDE DEF s
  <2> QED
    BY <2>2 DEF NewSpan, Free, Goto, exts, s
<1>2. /\ state' \in [Spans -> {"unused", "alive", "removed"}] /\ parent' \in [Spans -> SpanOrNone]
      /\ held' \in [Threads -> SUBSET Spans] /\ seen' \in [Spans -> {"visible", "hidden", "early"}]
      /\ state'[s] = "alive" /\ parent'[s] = p /\ seen'[s] = sight
      /\ \A x \in Spans \ {s} : state'[x] = state[x] /\ parent'[x] = parent[x] /\ seen'[x] = seen[x]
      /\ \A u \in Threads : held'[u] = IF u = t THEN held[t] \cup {s} ELSE held[u]
      /\ op' = [u \in Threads |-> op'[u]] /\ \A u \in Threads \ {t} : op'[u] = op[u]
  BY <1>1 DEF Inv, Types
<1>3. p \in held[t] \cup {NoSpan} /\ p # s /\ (p # NoSpan => p \in Spans /\ state[p] = "alive")
  <2>1. ToSet(entered[t]) \subseteq held[t] /\ held[t] \subseteq Spans
    BY DEF Inv, Types, Registry, ToSet
  <2>2. \A x \in held[t] : state[x] = "alive"
    BY DEF Inv, Registry
  <2> QED
    BY <1>1, <2>1, <2>2, Names
<1>4. \A x \in Spans : parent[x] # s
  BY <1>1, Names DEF Inv, Registry
<1>5. \A i \in DOMAIN log : log[i].span # s
  BY <1>1, Names DEF Inv, Logged
<1>6. Types'
  BY <1>1, <1>2 DEF Inv, Types
<1>7. Registry'
  <2>1. \A u \in Threads : \A i \in DOMAIN entered[u] : entered[u][i] \in held'[u]
    BY <1>2 DEF Inv, Registry
  <2>2. \A u \in Threads : \A x \in held'[u] : state'[x] = "alive"
    BY <1>1, <1>2 DEF Inv, Types, Registry
  <2>3. ASSUME NEW c \in Spans, parent'[c] # NoSpan
        PROVE  /\ parent'[c] # c /\ state'[parent'[c]] # "unused"
               /\ state'[c] = "alive" => state'[parent'[c]] = "alive"
    <3>1. CASE c = s
      BY <1>2, <1>3, <2>3, <3>1
    <3>2. CASE c # s
      BY <1>1, <1>2, <1>4, <2>3, <3>2 DEF Inv, Types, Registry, SpanOrNone
    <3> QED
      BY <3>1, <3>2
  <2> QED
    BY <1>1, <2>1, <2>2, <2>3 DEF Registry
<1>8. ASSUME NEW e, EventOK(e), e.span # s PROVE EventOK(e)'
  BY <1>1, <1>2, <1>8 DEF EventOK, ExtensionOf, SpanOrNone
<1>9. Logged' /\ SpansNest'
  <2>1. ASSUME NEW x, x # s, StoppedFor(x), x \in Spans PROVE StoppedFor(x)'
    BY <1>1, <1>2, <2>1 DEF StoppedFor, Idle
  <2>2. Logged'
    BY <1>1, <1>2, <1>5, <1>8, <2>1 DEF Inv, Logged, EventOK, SpanOrNone
  <2>3. \A i \in DOMAIN log : ParentOf(log[i].span)' = ParentOf(log[i].span)
    BY <1>1, <1>2, <1>5 DEF ParentOf, Inv, Logged, EventOK, SpanOrNone
  <2> QED
    BY <1>1, <2>2, <2>3 DEF Inv, SpansNest
<1>10. ASSUME NEW u \in Threads PROVE Shape(op[u])' /\ Pending(u)'
  <2>1. CASE u = t
    BY <1>1, <1>2, <2>1 DEF Inv, Types, Shape, Pending, Writes, Idle, At
  <2>2. CASE u # t
    <3>1. Shape(op[u])' /\ Pending(u) /\ op'[u] = op[u] /\ held'[u] = held[u]
      BY <1>2, <2>2 DEF Inv, Shape
    <3>2. ASSUME Writes(u) PROVE op[u].event.span # s
      BY <1>1, <3>1, <3>2, Names
      DEF Pending, EventOK, Inv, Registry, Starts, Closes, Alone, Unreferenced
    <3> QED
      BY <1>8, <3>1, <3>2 DEF Pending, Writes
  <2> QED
    BY <2>1, <2>2
<1>11. ASSUME NEW u \in Threads, NEW x \in Spans, Starts(u, x)' PROVE Alone(u, x)'
  <2>1. CASE u = t
    <3>1. x = s /\ sight = "visible"
      BY <1>1, <1>11, <2>1 DEF Inv, Types, Starts, Writes, Idle, At
    <3>2. s \notin held[t] /\ \A v \in Threads : s \notin held[v]
      BY <1>1 DEF Inv, Registry
    <3> QED
      BY <1>1, <1>2, <1>3, <1>4, <1>5, <2>1, <3>1, <3>2 DEF Alone
  <2>2. CASE u # t
    <3>1. Alone(u, x)
      BY <1>2, <1>11, <2>2 DEF Inv, Starts, Writes
    <3>2. x # s /\ x # p /\ x \notin held[t]
      BY <1>1, <1>3, <2>2, <3>1, Names DEF Alone, Inv, Registry
    <3> QED
      BY <1>1, <1>2, <2>2, <3>1, <3>2 DEF Alone
  <2> QED
    BY <2>1, <2>2
<1>12. ASSUME NEW u \in Threads, NEW x \in Spans, Closes(u, x)' PROVE Unreferenced(u, x)'
  <2>1. \A v \in Threads : Closes(v, x)' => Closes(v, x)
    BY <1>1, <1>2 DEF Inv, Types, Closes, Writes, Idle, At
  <2>2. Unreferenced(u, x)
    BY <1>12, <2>1 DEF Inv
  <2>3. x # s /\ x # p
    BY <1>1, <1>3, <2>2, Names DEF Unreferenced
  <2> QED
    BY <1>2, <2>1, <2>2, <2>3 DEF Unreferenced
<1> QED
  BY <1>6, <1>7, <1>9, <1>10, <1>11, <1>12 DEF Inv

\* Nothing that contradicts an event is in the log when it is written.
LEMMA WriteInv == ASSUME Inv, NEW t \in Threads, Write(t) PROVE Inv'
<1>1. PICK e : /\ op[t].pc = "writing" /\ op[t].event = e /\ log' = Append(log, e)
               /\ IF e.op = "STOP" THEN Goto(t, At("removing", e.span)) ELSE Goto(t, Idle)
               /\ UNCHANGED <<state, parent, held, entered, seen, activity>>
  BY DEF Write, Return, registry, exts
<1>2. PICK n \in Nat :
        /\ DOMAIN log = 1..n /\ DOMAIN log' = 1..(n + 1)
        /\ log'[n + 1] = e /\ \A i \in 1..n : log'[i] = log[i]
        /\ \E S : log' \in Seq(S)
  <2>1. PICK S : log \in Seq(S)
    BY DEF Inv, Types
  <2>2. log \in Seq(S \cup {e}) /\ log' \in Seq(S \cup {e}) /\ Len(log) \in Nat
    BY <1>1, <2>1
  <2> QED
    BY <1>1, <2>2
<1>3. /\ op'[t] = IF e.op = "STOP" THEN At("removing", e.span) ELSE Idle
      /\ \A u \in Threads \ {t} : op'[u] = op[u]
      /\ op' = [u \in Threads |-> op'[u]]
  BY <1>1 DEF Goto, Inv, Types
<1>4. EventOK(e) /\ (e.op = "INFO" => e.span \in held[t] \cup {NoSpan})
  BY <1>1 DEF Inv, Pending, Writes
<1>5. /\ e.op = "START" => e.span \in Spans /\ Alone(t, e.span)
      /\ e.op = "STOP" => e.span \in Spans /\ Unreferenced(t, e.span)
  BY <1>1, <1>4 DEF EventOK, Inv, Starts, Closes, Writes
<1>6. e.span # NoSpan => e.span \in Spans /\ state[e.span] = "alive"
  BY <1>4, <1>5 DEF EventOK, SpanOrNone, Inv, Registry, Alone, Unreferenced
<1>7. ASSUME NEW x \in Spans, StoppedFor(x) PROVE x # e.span /\ x # ParentOf(e.span)
  <2>1. state[x] = "removed" \/ \E u \in Threads \ {t} : Closes(u, x) /\ Unreferenced(u, x)
    BY <1>1, <1>7 DEF StoppedFor, Closes, Inv
  <2>2. x # e.span
    <3>1. CASE e.op = "START"
      BY <1>5, <1>6, <2>1, <3>1, Names DEF Alone, Unreferenced
    <3>2. CASE e.op = "STOP"
      BY <1>1, <1>5, <1>6, <2>1, <3>2, Names DEF Unreferenced, Closes, Writes
    <3>3. CASE e.op = "INFO"
      BY <1>4, <1>6, <2>1, <3>3, Names DEF Unreferenced
    <3> QED
      BY <1>4, <3>1, <3>2, <3>3 DEF EventOK
  <2>3. ASSUME e.span # NoSpan, parent[e.span] = x PROVE FALSE
    <3>1. state[e.span] = "alive" /\ e.span \in Spans /\ state[x] = "alive"
      BY <1>6, <2>3, Names DEF Inv, Registry
    <3> QED
      BY <2>1, <2>3, <3>1 DEF Unreferenced
  <2> QED
    BY <2>2, <2>3, Names DEF ParentOf
<1>8. Types' /\ Registry'
  BY <1>1, <1>2, <1>3 DEF Inv, Types, Registry
<1>9. ASSUME NEW f, EventOK(f) PROVE EventOK(f)'
  BY <1>1, <1>9 DEF EventOK, ExtensionOf
<1>10. Logged'
  <2>1. ASSUME NEW x, StoppedFor(x) PROVE StoppedFor(x)'
    BY <1>1, <1>3, <2>1 DEF StoppedFor
  <2>2. e.op = "STOP" => StoppedFor(e.span)'
    BY <1>3 DEF StoppedFor, At
  <2> QED
    BY <1>1, <1>2, <1>4, <1>6, <1>9, <2>1, <2>2 DEF Inv, Logged
<1>11. SpansNest'
  <2>1. ASSUME NEW i \in 1..n, e.op = "START" PROVE e.span \notin {log[i].span, ParentOf(log[i].span)}
    <3>1. Alone(t, e.span) /\ e.span \in Spans
      BY <1>5, <2>1
    <3>2. log[i].span \in SpanOrNone
      BY <1>2 DEF Inv, Logged, EventOK
    <3> QED
      BY <1>2, <3>1, <3>2, Names DEF Alone, ParentOf, SpanOrNone
  <2>2. ASSUME NEW i \in 1..n, log[i].op = "STOP" PROVE log[i].span \notin {e.span, ParentOf(e.span)}
    BY <1>2, <1>7, <2>2 DEF Inv, Logged, EventOK
  <2>3. \A x : ParentOf(x)' = ParentOf(x)
    BY <1>1 DEF ParentOf
  <2> QED
    BY <1>2, <2>1, <2>2, <2>3 DEF Inv, SpansNest
<1>12. ASSUME NEW u \in Threads PROVE Shape(op[u])' /\ Pending(u)'
  <2>1. CASE u = t
    BY <1>3, <1>4, <2>1 DEF Shape, Pending, Writes, Idle, At, EventOK
  <2>2. CASE u # t
    BY <1>1, <1>3, <1>9, <2>2 DEF Inv, Shape, Pending, Writes
  <2> QED
    BY <2>1, <2>2
<1>13. ASSUME NEW u \in Threads, NEW x \in Spans, Starts(u, x)' PROVE Alone(u, x)'
  <2>1. u # t /\ Starts(u, x)
    BY <1>3, <1>13 DEF Starts, Writes, Idle, At
  <2>2. Alone(u, x)
    BY <2>1 DEF Inv
  <2>3. x # e.span
    <3>1. x \notin held[t] /\ x # NoSpan
      BY <2>1, <2>2, Names DEF Alone
    <3> QED
      BY <1>4, <1>5, <2>2, <3>1 DEF EventOK, Alone, Unreferenced
  <2> QED
    BY <1>1, <1>2, <2>2, <2>3 DEF Alone
<1>14. ASSUME NEW u \in Threads, NEW x \in Spans, Closes(u, x)' PROVE Unreferenced(u, x)'
  <2>1. \A v \in Threads : Closes(v, x)' => Closes(v, x)
    BY <1>1, <1>3 DEF Closes, Writes, Idle, At
  <2> QED
    BY <1>1, <1>14, <2>1 DEF Inv, Unreferenced
<1> QED
  BY <1>8, <1>10, <1>11, <1>12, <1>13, <1>14 DEF Inv

LEMMA Shorter ==
  ASSUME NEW r, NEW z, r = [pc |-> r.pc, span |-> r.span, todo |-> r.todo]
  PROVE  LET w == [r EXCEPT !.todo = z]
         IN  w.pc = r.pc /\ w = [pc |-> w.pc, span |-> w.span, todo |-> w.todo]
  OBVIOUS

\* The handlers that move a thread and touch no span.
LEMMA HandlerInv ==
  ASSUME Inv, NEW t \in Threads,
         RecordField(t) \/ RecordEnd(t) \/ on_close(t) \/ Skip(t) \/ Build(t) \/ CloseUnseen(t)
           \/ (\E s \in Spans, call \in Calls : RecordBegin(t, s, call))
           \/ (\E s \in SpanOrNone : on_event(t, s))
  PROVE  Inv'
<1> USE DEF registry, locks, exts
<1>1. Shape(op[t]) /\ Pending(t) /\ op = [u \in Threads |-> op[u]]
  BY DEF Inv, Types
<1>2. ASSUME NEW w, op' = [op EXCEPT ![t] = w], Shape(w),
             UNCHANGED <<state, parent, held, entered, seen, activity, log>>,
             op[t].pc # "removing", w.pc \notin {"new", "closing", "removing", "ready", "writing"}
      PROVE  Inv'
  <2>1. op'[t] = w
    BY <1>1, <1>2
  <2>2. Pending(t)' /\ \A s \in Spans : ~Starts(t, s)' /\ ~Closes(t, s)'
    BY <1>2, <2>1 DEF Pending, Starts, Closes, Writes
  <2> QED
    BY <1>2, <2>2, Quiet
<1>3. ASSUME NEW w, op' = [op EXCEPT ![t] = w], Shape(w),
             UNCHANGED <<state, parent, held, entered, seen, activity, log>>,
             op[t].pc # "removing", w.pc \in {"ready", "writing"},
             EventOK(w.event), w.event.op = "INFO" => w.event.span \in held[t] \cup {NoSpan},
             \A s \in Spans : w.event.op = "START" /\ w.event.span = s => Starts(t, s),
             \A s \in Spans : w.event.op = "STOP" /\ w.event.span = s => Closes(t, s)
      PROVE  Inv'
  <2>1. op'[t] = w
    BY <1>1, <1>3
  <2>2. \A s \in Spans : (Starts(t, s)' => Starts(t, s)) /\ (Closes(t, s)' => Closes(t, s))
    BY <1>3, <2>1 DEF Starts, Closes, Writes
  <2>3. Pending(t)'
    BY <1>3, <2>1 DEF Pending, Writes, EventOK, ExtensionOf
  <2> QED
    BY <1>3, <2>2, <2>3, Quiet
<1>4. ASSUME NEW s, op' = [op EXCEPT ![t] = At("removing", s)], Closes(t, s), s \in Spans,
             UNCHANGED <<state, parent, held, entered, seen, activity, log>>, op[t].pc # "removing"
      PROVE  Inv'
  <2>1. op'[t] = At("removing", s)
    BY <1>1, <1>4
  <2>2. Pending(t)' /\ \A x \in Spans : ~Starts(t, x)' /\ (Closes(t, x)' => x = s)
    BY <2>1 DEF Pending, Starts, Closes, Writes, At
  <2>3. Shape(At("removing", s))
    BY <1>4 DEF Shape, At
  <2> QED
    BY <1>4, <2>2, <2>3, Quiet
<1>5. CASE RecordField(t)
  <2> DEFINE w == [op[t] EXCEPT !.todo = Tail(@)]
  <2>1. op[t].pc = "recording" /\ op' = [op EXCEPT ![t] = w]
    BY <1>5 DEF RecordField
  <2>2. w.pc = "recording" /\ w = [pc |-> w.pc, span |-> w.span, todo |-> w.todo]
    BY <1>1, <2>1, Shorter DEF Shape
  <2> HIDE DEF w
  <2>3. w.pc = "recording" /\ Shape(w)
    BY <2>2 DEF Shape
  <2> QED
    BY <1>2, <1>5, <2>1, <2>3 DEF RecordField
<1>6. CASE RecordEnd(t)
  BY <1>2, <1>6 DEF RecordEnd, Goto, Idle, Shape
<1>7. CASE on_close(t)
  <2>1. PICK s \in Spans : op[t].pc = "closing" /\ op[t].span = s /\ Closes(t, s)
    BY <1>1, <1>7 DEF on_close, Shape, Closes
  <2>2. CASE activity[s] = None
    BY <1>2, <1>7, <2>1, <2>2 DEF on_close, Goto, Panicked, Shape
  <2>3. CASE activity[s] # None
    <3>1. PICK e : e = Event("STOP", s, activity[s], None, deferred[s]) /\ op' = [op EXCEPT ![t] = Ready(e)]
      BY <1>7, <2>1, <2>3 DEF on_close, Goto
    <3>2. EventOK(e) /\ e.op = "STOP" /\ e.span = s
      BY <3>1, Names DEF EventOK, Event, ExtensionOf, SpanOrNone
    <3>3. Ready(e).pc = "ready" /\ Ready(e).event = e /\ Shape(Ready(e))
      BY DEF Ready, Shape
    <3>4. UNCHANGED <<state, parent, held, entered, seen, activity, log>>
      BY <1>7 DEF on_close
    <3>5. \A x \in Spans : e.span = x => Closes(t, x)
      BY <2>1, <3>2
    <3> HIDE DEF Ready
    <3> QED
      BY <1>3, <2>1, <3>1, <3>2, <3>3, <3>4, <3>5
  <2> QED
    BY <2>2, <2>3
<1>8. CASE Skip(t)
  <2>1. op[t].pc = "ready" /\ Writes(t) /\ EventOK(op[t].event)
    BY <1>1, <1>8 DEF Skip, Pending, Writes
  <2>2. CASE op[t].event.op = "STOP"
    <3>1. op' = [op EXCEPT ![t] = At("removing", op[t].event.span)]
      BY <1>8, <2>2 DEF Skip, Return, Goto
    <3>2. Closes(t, op[t].event.span) /\ op[t].event.span \in Spans
      BY <2>1, <2>2 DEF Closes, EventOK
    <3> QED
      BY <1>4, <1>8, <2>1, <3>1, <3>2 DEF Skip
  <2>3. CASE op[t].event.op # "STOP"
    BY <1>2, <1>8, <2>1, <2>3 DEF Skip, Return, Goto, Idle, Shape
  <2> QED
    BY <2>2, <2>3
<1>9. CASE Build(t)
  <2> DEFINE w == [op[t] EXCEPT !.pc = "writing"]
  <2>1. op[t].pc = "ready" /\ Writes(t) /\ op' = [op EXCEPT ![t] = w]
    BY <1>9 DEF Build, Writes
  <2>2. w.pc = "writing" /\ w.event = op[t].event /\ Shape(w)
    BY <1>1, <2>1 DEF Shape
  <2> HIDE DEF w
  <2>3. /\ \A s \in Spans : w.event.op = "START" /\ w.event.span = s => Starts(t, s)
        /\ \A s \in Spans : w.event.op = "STOP" /\ w.event.span = s => Closes(t, s)
    BY <2>1, <2>2 DEF Starts, Closes
  <2>4. EventOK(w.event) /\ (w.event.op = "INFO" => w.event.span \in held[t] \cup {NoSpan})
    BY <1>1, <2>1, <2>2 DEF Pending
  <2> QED
    BY <1>3, <1>9, <2>1, <2>2, <2>3, <2>4 DEF Build
<1>10. CASE CloseUnseen(t)
  <2>1. PICK s \in Spans : op[t] = At("closing", s) /\ op' = [op EXCEPT ![t] = At("removing", s)]
    BY <1>10 DEF CloseUnseen, Goto
  <2>2. Closes(t, s) /\ op[t].pc = "closing"
    BY <2>1 DEF Closes, At
  <2> QED
    BY <1>4, <1>10, <2>1, <2>2 DEF CloseUnseen
<1>11. ASSUME NEW s \in Spans, NEW call \in Calls, RecordBegin(t, s, call) PROVE Inv'
  <2> DEFINE w == [pc |-> "recording", span |-> s, todo |-> call]
  <2>1. op' = [op EXCEPT ![t] = w] /\ op[t].pc = "idle"
    BY <1>11 DEF RecordBegin, Free, Goto, Idle
  <2>2. UNCHANGED <<state, parent, held, entered, seen, activity, log>>
    BY <1>11 DEF RecordBegin
  <2>3. w.pc = "recording" /\ Shape(w)
    BY DEF Shape
  <2> HIDE DEF w
  <2> QED
    BY <1>2, <2>1, <2>2, <2>3
<1>12. ASSUME NEW s \in SpanOrNone, on_event(t, s) PROVE Inv'
  <2>1. PICK e : e = Event("INFO", s, ExtensionOf(s), None, <<>>) /\ op' = [op EXCEPT ![t] = Ready(e)]
    BY <1>12 DEF on_event, Goto
  <2>2. s \in held[t] \cup {NoSpan}
    BY <1>12 DEF on_event, IsCurrent, Inv, Registry
  <2>3. EventOK(e) /\ e.op = "INFO" /\ e.span = s
    BY <2>1 DEF EventOK, Event
  <2>4. Ready(e).pc = "ready" /\ Ready(e).event = e /\ Shape(Ready(e))
    BY DEF Ready, Shape
  <2>5. UNCHANGED <<state, parent, held, entered, seen, activity, log>> /\ op[t].pc = "idle"
    BY <1>12 DEF on_event, Free, Idle
  <2> QED
    BY <1>3, <2>1, <2>2, <2>3, <2>4, <2>5
<1> QED
  BY <1>5, <1>6, <1>7, <1>8, <1>9, <1>10, <1>11, <1>12

LEMMA NextInv == Inv /\ [Next]_vars => Inv'
<1> SUFFICES ASSUME Inv, [Next]_vars PROVE Inv'
  OBVIOUS
<1>1. ASSUME UNCHANGED <<state, parent, held, entered, seen, activity, log, op>> PROVE Inv'
  <2>1. Types' /\ Registry' /\ Logged' /\ SpansNest'
    BY <1>1 DEF Inv, Types, Registry, Logged, SpansNest, ParentOf, EventOK, ExtensionOf, StoppedFor
  <2>2. \A t \in Threads : Shape(op[t])' /\ Pending(t)'
    BY <1>1 DEF Inv, Shape, Pending, Writes, EventOK, ExtensionOf
  <2>3. ASSUME NEW t \in Threads, NEW s \in Spans
        PROVE  (Starts(t, s)' => Alone(t, s)') /\ (Closes(t, s)' => Unreferenced(t, s)')
    BY <1>1, <2>3 DEF Inv, Starts, Closes, Writes, Alone, Unreferenced
  <2> QED
    BY <2>1, <2>2, <2>3 DEF Inv
<1>2. CASE UNCHANGED vars \/ Toggle \/ Attach
  BY <1>1, <1>2 DEF vars, registry, exts, Toggle, Attach
<1>3. ASSUME NEW t \in Threads, Handler(t) PROVE Inv'
  <2>1. ASSUME NEW attr \in Attrs, NEW current \in Activity, on_new_span(t, attr, current) PROVE Inv'
    BY <2>1, NewHandlerInv
  <2>2. CASE RecordField(t) \/ RecordEnd(t) \/ on_close(t) \/ Skip(t) \/ Build(t) \/ CloseUnseen(t)
    BY <2>2, HandlerInv
  <2> QED
    BY <1>3, <2>1, <2>2, WriteInv, ClearInv DEF Handler
<1>4. ASSUME NEW t \in Threads, Program(t) PROVE Inv'
  <2>1. ASSUME NEW p \in SpanOrNone, NEW sight \in {"visible", "hidden", "early"}, NewSpan(t, p, sight)
        PROVE  Inv'
    BY <2>1, NewSpanInv
  <2>2. ASSUME NEW s \in Spans, Enter(t, s) \/ \E u \in Threads : Share(t, u, s) PROVE Inv'
    BY <2>2, HandleInv
  <2>3. ASSUME NEW s \in Spans, DropHandle(t, s) PROVE Inv'
    BY <2>3, DropInv
  <2>4. CASE (\E s \in Spans, call \in Calls : RecordBegin(t, s, call)) \/ \E s \in SpanOrNone : on_event(t, s)
    BY <2>4, HandlerInv
  <2>5. CASE Exit(t)
    <3>1. entered[t] \in Seq(Spans) /\ entered[t] # <<>>
      BY <2>5 DEF Exit, Inv, Types
    <3>2. PICK s \in Spans : s = entered[t][1]
      BY <3>1
    <3> QED
      BY <2>5, HandleInv
  <2> QED
    BY <1>4, <2>1, <2>2, <2>3, <2>4, <2>5 DEF Program
<1> QED
  BY <1>2, <1>3, <1>4 DEF Next

THEOREM InvAlways == Spec => []Inv
<1> QED
  BY InitInv, NextInv, PTL DEF Spec

\* Events of a span lie between its START and its STOP, and those of its
\* children within: for any threads that share, enter and drop spans in any
\* order, and any sessions and filters.
THEOREM Nesting == Spec => []SpansNest
<1>1. Inv => SpansNest
  BY DEF Inv
<1> QED
  BY <1>1, InvAlways, PTL

\* All events of a span carry the activity of its START, and a START the
\* one of its parent: ActivityId is stored before anybody else can look.
THEOREM OneActivity == Spec => []OneActivityPerSpan
<1>1. ASSUME Inv PROVE OneActivityPerSpan
  <2>1. ASSUME NEW i \in DOMAIN log, NEW j \in DOMAIN log
        PROVE  /\ log[i].span = log[j].span => log[i].activity = log[j].activity
               /\ log[i].op = "START" /\ parent[log[i].span] # NoSpan
                    /\ log[j].span = parent[log[i].span] => log[i].related = log[j].activity
    BY <1>1 DEF Inv, Logged, EventOK, ExtensionOf
  <2> QED
    BY <2>1 DEF OneActivityPerSpan
<1> QED
  BY <1>1, InvAlways, PTL

-----------------------------------------------------------------------------
(* No handler panics, if the filter hides no parent of a visible span and  *)
(* the layer is not attached while spans are alive.                        *)

Safe ==
  /\ \A t \in Threads : op[t].pc # "panicked"
  /\ \A s \in Spans : attached /\ seen[s] = "early" => state[s] # "alive"
  /\ \A s \in Spans : state[s] # "unused" /\ seen[s] = "visible" =>
       /\ ~Hidden(parent[s])
       /\ activity[s] # None \/ \E t \in Threads : op[t].pc = "new" /\ op[t].span = s

LEMMA SafeMove ==
  ASSUME Inv, Safe, NEW t \in Threads, NEW w, op' = [op EXCEPT ![t] = w],
         op[t].pc # "new", w.pc # "panicked", UNCHANGED <<parent, seen, attached, activity>>,
         \A s \in Spans : state'[s] = state[s] \/ (state'[s] = "removed" /\ state[s] # "unused")
  PROVE  Safe'
<1>1. op'[t] = w /\ \A u \in Threads \ {t} : op'[u] = op[u]
  BY DEF Inv, Types
<1>2. \A s \in Spans : (\E u \in Threads : op[u].pc = "new" /\ op[u].span = s)
                       => \E u \in Threads : op'[u].pc = "new" /\ op'[u].span = s
  BY <1>1
<1> QED
  BY <1>1, <1>2 DEF Safe, Hidden

LEMMA SafeNew ==
  ASSUME Inv, Safe, ~HiddenParents, NEW t \in Threads, NEW p \in SpanOrNone,
         NEW sight \in {"visible", "hidden", "early"}, NewSpan(t, p, sight)
  PROVE  Safe'
<1>1. PICK s \in Spans :
        /\ state[s] = "unused" /\ op[t] = Idle /\ p \in {NoSpan} \cup held[t] \cup ToSet(entered[t])
        /\ state' = [state EXCEPT ![s] = "alive"] /\ parent' = [parent EXCEPT ![s] = p]
        /\ seen' = [seen EXCEPT ![s] = sight]
        /\ IF sight = "visible" THEN op' = [op EXCEPT ![t] = At("new", s)] ELSE op' = op
        /\ UNCHANGED <<attached, activity>>
  <2> DEFINE s == CHOOSE x \in Unused : TRUE
  <2>1. s \in Unused
    BY DEF NewSpan
  <2>2. s \in Spans /\ state[s] = "unused"
    BY <2>1 DEF Unused
  <2> HIDE DEF s
  <2> QED
    BY <2>2 DEF NewSpan, Free, Goto, exts, s
<1>2. /\ attached => sight # "early"
      /\ sight = "visible" => ~Hidden(p)
  BY DEF NewSpan
<1>3. p # s
  <2>1. ToSet(entered[t]) \subseteq held[t] /\ \A x \in held[t] : state[x] = "alive"
    BY DEF Inv, Types, Registry, ToSet
  <2> QED
    BY <1>1, <2>1, Names
<1>4. /\ state'[s] = "alive" /\ parent'[s] = p /\ seen'[s] = sight
      /\ \A x \in Spans \ {s} : state'[x] = state[x] /\ parent'[x] = parent[x] /\ seen'[x] = seen[x]
      /\ \A u \in Threads \ {t} : op'[u] = op[u]
      /\ IF sight = "visible" THEN op'[t] = At("new", s) ELSE op'[t] = Idle
  BY <1>1 DEF Inv, Types
<1>5. \A x \in Spans : parent[x] # s /\ parent[x] \in SpanOrNone
  BY <1>1, Names DEF Inv, Types, Registry
<1>6. ASSUME NEW x \in Spans, state'[x] # "unused", seen'[x] = "visible"
      PROVE  /\ ~Hidden(parent[x])'
             /\ activity'[x] # None \/ \E u \in Threads : op'[u].pc = "new" /\ op'[u].span = x
  <2>1. CASE x = s
    <3>1. sight = "visible" /\ ~Hidden(p)
      BY <1>2, <1>4, <1>6, <2>1
    <3>2. p # NoSpan => p \in Spans /\ seen'[p] = seen[p]
      BY <1>3, <1>4 DEF SpanOrNone
    <3>3. op'[t].pc = "new" /\ op'[t].span = s
      BY <1>4, <3>1 DEF At
    <3> QED
      BY <1>4, <2>1, <3>1, <3>2, <3>3 DEF Hidden
  <2>2. CASE x # s
    <3>1. /\ ~Hidden(parent[x]) /\ parent'[x] = parent[x]
          /\ activity[x] # None \/ \E u \in Threads : op[u].pc = "new" /\ op[u].span = x
      BY <1>4, <1>6, <2>2 DEF Safe
    <3>2. ~Hidden(parent[x])'
      BY <1>4, <1>5, <3>1 DEF Hidden, SpanOrNone
    <3>3. ASSUME NEW u \in Threads, op[u].pc = "new", op[u].span = x PROVE op'[u] = op[u]
      BY <1>1, <1>4, <3>3 DEF Idle
    <3> QED
      BY <1>1, <3>1, <3>2, <3>3
  <2> QED
    BY <2>1, <2>2
<1>7. \A u \in Threads : op'[u].pc # "panicked"
  BY <1>4 DEF Safe, Idle, At
<1>8. \A x \in Spans : attached' /\ seen'[x] = "early" => state'[x] # "alive"
  BY <1>1, <1>2, <1>4 DEF Safe
<1> QED
  BY <1>6, <1>7, <1>8 DEF Safe

LEMMA SafeHandler ==
  ASSUME Inv, Safe, NEW t \in Threads,
         on_close(t) \/ \E attr \in Attrs, current \in Activity : on_new_span(t, attr, current)
  PROVE  Safe'
<1>1. Shape(op[t])
  BY DEF Inv
<1>2. CASE on_close(t)
  <2>1. PICK s \in Spans : op[t].pc = "closing" /\ op[t].span = s /\ Sees(s)
    BY <1>1, <1>2 DEF on_close, Shape
  <2>2. Unreferenced(t, s)
    BY <2>1 DEF Closes, Inv
  <2>3. \A u \in Threads : ~(op[u].pc = "new" /\ op[u].span = s)
    BY <2>2 DEF Inv, Starts, Alone, Unreferenced
  <2>4. seen[s] \in {"visible", "hidden", "early"}
    BY DEF Inv, Types
  <2>5. activity[s] # None
    BY <2>1, <2>2, <2>3, <2>4 DEF Safe, Sees, Unreferenced
  <2>6. PICK e : op' = [op EXCEPT ![t] = Ready(e)]
    BY <1>2, <2>1, <2>5 DEF on_close, Goto
  <2>7. Ready(e).pc = "ready"
    BY DEF Ready
  <2>8. UNCHANGED <<state, parent, seen, attached, activity>>
    BY <1>2 DEF on_close, registry, exts
  <2> HIDE DEF Ready
  <2> QED
    BY <2>1, <2>6, <2>7, <2>8, SafeMove
<1>3. ASSUME NEW attr \in Attrs, NEW current \in Activity, on_new_span(t, attr, current) PROVE Safe'
  <2>1. PICK s \in Spans : op[t].pc = "new" /\ op[t].span = s /\ Starts(t, s)
    BY <1>1, <1>3 DEF on_new_span, Shape, Starts
  <2>2. Alone(t, s) /\ state[s] = "alive"
    BY <2>1 DEF Inv, Alone, Registry
  <2>3. ~Hidden(parent[s])
    BY <2>2 DEF Safe, Alone
  <2>4. PICK e : /\ activity' = [activity EXCEPT ![s] = ActivityFor(attr, current)]
                 /\ op' = [op EXCEPT ![t] = Ready(e)]
                 /\ UNCHANGED <<state, parent, seen, attached>>
    BY <1>3, <2>1, <2>3 DEF on_new_span, Goto, registry
  <2>5. ActivityFor(attr, current) \in Activity
    BY DEF ActivityFor, extract_activity_id_attr, Attrs, Activity
  <2>6. /\ activity'[s] # None /\ \A x \in Spans \ {s} : activity'[x] = activity[x]
        /\ op'[t].pc = "ready" /\ \A u \in Threads \ {t} : op'[u] = op[u]
    BY <2>4, <2>5, Names DEF Inv, Types, Ready
  <2>7. ASSUME NEW x \in Spans, state[x] # "unused", seen[x] = "visible"
        PROVE  activity'[x] # None \/ \E u \in Threads : op'[u].pc = "new" /\ op'[u].span = x
    <3>1. CASE x = s
      BY <2>6, <3>1
    <3>2. CASE x # s
      BY <2>1, <2>6, <2>7, <3>2 DEF Safe
    <3> QED
      BY <3>1, <3>2
  <2> QED
    BY <2>4, <2>6, <2>7 DEF Safe, Hidden
<1> QED
  BY <1>2, <1>3

LEMMA SafeStep ==
  ASSUME Inv, Safe, ~HiddenParents, ~LateLayers, [Next]_vars
  PROVE  Safe'
<1>1. ASSUME UNCHANGED <<state, parent, seen, activity, op>>,
             attached' = attached \/ \A s \in Spans : state[s] # "alive"
      PROVE  Safe'
  BY <1>1 DEF Safe, Hidden
<1>2. CASE UNCHANGED vars \/ Toggle \/ Attach
  BY <1>1, <1>2 DEF vars, registry, exts, Toggle, Attach
<1>3. ASSUME NEW t \in Threads, NEW w, op' = [op EXCEPT ![t] = w], op[t].pc # "new",
             w.pc # "panicked", UNCHANGED registry, UNCHANGED activity
      PROVE  Safe'
  BY <1>3, SafeMove DEF registry
<1>4. \A s : Idle.pc = "idle" /\ At("removing", s).pc = "removing" /\ At("closing", s).pc = "closing"
  BY DEF Idle, At
<1>5. ASSUME NEW t \in Threads, Handler(t) PROVE Safe'
  <2>1. Shape(op[t])
    BY DEF Inv
  <2>2. CASE RecordField(t)
    <3>1. op[t].pc = "recording" /\ op' = [op EXCEPT ![t] = [op[t] EXCEPT !.todo = Tail(@)]]
      BY <2>2 DEF RecordField
    <3>2. [op[t] EXCEPT !.todo = Tail(@)].pc = "recording"
      BY <2>1, <3>1, Shorter DEF Shape
    <3> QED
      BY <1>3, <2>2, <3>1, <3>2 DEF RecordField
  <2>3. CASE RecordEnd(t)
    BY <1>3, <1>4, <2>3 DEF RecordEnd, Goto, exts
  <2>4. CASE Skip(t)
    BY <1>3, <1>4, <2>4 DEF Skip, Return, Goto, exts
  <2>5. CASE Build(t)
    <3>1. op[t].pc = "ready" /\ op' = [op EXCEPT ![t] = [op[t] EXCEPT !.pc = "writing"]]
      BY <2>5 DEF Build
    <3>2. [op[t] EXCEPT !.pc = "writing"].pc = "writing"
      BY <2>1, <3>1 DEF Shape
    <3> QED
      BY <1>3, <2>5, <3>1, <3>2 DEF Build, exts
  <2>6. CASE Write(t)
    BY <1>3, <1>4, <2>6 DEF Write, Return, Goto, exts
  <2>7. CASE CloseUnseen(t)
    BY <1>3, <1>4, <2>7 DEF CloseUnseen, Goto, exts
  <2>8. CASE Clear(t)
    <3>1. PICK s \in Spans, p \in SpanOrNone :
            /\ op[t] = At("removing", s) /\ GiveUp(t, p) /\ state' = [state EXCEPT ![s] = "removed"]
            /\ UNCHANGED <<parent, seen, attached, activity>>
      BY <2>8 DEF Clear, exts
    <3>2. PICK w : op' = [op EXCEPT ![t] = w] /\ w.pc \in {"idle", "closing"}
      BY <1>4, <3>1 DEF GiveUp, Goto
    <3>3. Closes(t, s) /\ op[t].pc = "removing"
      BY <3>1 DEF Closes, At
    <3>4. state[s] # "unused" /\ \A x \in Spans : state'[x] = IF x = s THEN "removed" ELSE state[x]
      BY <3>1, <3>3 DEF Inv, Types, Unreferenced
    <3> QED
      BY <3>1, <3>2, <3>3, <3>4, SafeMove
  <2> QED
    BY <1>5, <2>2, <2>3, <2>4, <2>5, <2>6, <2>7, <2>8, SafeHandler DEF Handler
<1>6. ASSUME NEW t \in Threads, Program(t) PROVE Safe'
  <2>1. ASSUME NEW p \in SpanOrNone, NEW sight \in {"visible", "hidden", "early"}, NewSpan(t, p, sight)
        PROVE  Safe'
    BY <2>1, SafeNew
  <2>2. ASSUME NEW s \in Spans, Enter(t, s) \/ Exit(t) \/ \E u \in Threads : Share(t, u, s) PROVE Safe'
    BY <1>1, <2>2 DEF Enter, Exit, Share, exts
  <2>3. ASSUME NEW s \in Spans, DropHandle(t, s) PROVE Safe'
    <3>1. op[t].pc = "idle" /\ GiveUp(t, s) /\ UNCHANGED <<state, parent, seen, attached, activity>>
      BY <2>3, <1>4 DEF DropHandle, Free, exts
    <3>2. PICK w : op' = [op EXCEPT ![t] = w] /\ w.pc \in {"idle", "closing"}
      BY <1>4, <3>1 DEF GiveUp, Goto
    <3> QED
      BY <3>1, <3>2, SafeMove
  <2>4. ASSUME NEW s \in Spans, NEW call \in Calls, RecordBegin(t, s, call) PROVE Safe'
    <3>1. op' = [op EXCEPT ![t] = [pc |-> "recording", span |-> s, todo |-> call]]
      BY <2>4 DEF RecordBegin, Goto
    <3> QED
      BY <1>3, <1>4, <2>4, <3>1 DEF RecordBegin, Free, exts
  <2>5. ASSUME NEW s \in SpanOrNone, on_event(t, s) PROVE Safe'
    <3>1. PICK e : op' = [op EXCEPT ![t] = [pc |-> "ready", event |-> e]]
      BY <2>5 DEF on_event, Goto, Ready
    <3> QED
      BY <1>3, <1>4, <2>5, <3>1 DEF on_event, Free, exts
  <2>6. CASE Exit(t)
    BY <1>1, <2>6 DEF Exit, exts
  <2> QED
    BY <1>6, <2>1, <2>2, <2>3, <2>4, <2>5, <2>6 DEF Program
<1> QED
  BY <1>2, <1>5, <1>6 DEF Next

\* on_new_span finds the parent and on_close the activity id, whatever the
\* threads, the sessions and a filter that hides no parent do.
THEOREM NoPanics == ~HiddenParents /\ ~LateLayers /\ Spec => []NoHandlerPanics
<1> SUFFICES ASSUME ~HiddenParents, ~LateLayers PROVE Spec => []NoHandlerPanics
  OBVIOUS
<1>1. Init => Safe
  BY DEF Init, Safe, Idle
<1>2. Inv /\ Inv' /\ Safe /\ [Next]_vars => Safe'
  BY SafeStep
<1>3. Safe => NoHandlerPanics
  BY DEF Safe, NoHandlerPanics, Panicked
<1> QED
  BY <1>1, <1>2, <1>3, InvAlways, PTL DEF Spec

-----------------------------------------------------------------------------
(* The values of a span.                                                   *)

\* DeferredValues::update, folded over the fields of a call.
Updates == INSTANCE FoldTheorems WITH op <- update

\* Both are the same recursive function.
LEMMA RecordAllIsFold == \A values, call : RecordAll(values, call) = Updates!Fold(values, call)
  BY Zenon DEF RecordAll, FoldLeft, MapThenFoldSet, Max,
               Updates!Fold, Updates!FoldLeft, Updates!MapThenFoldSet, Updates!Max

\* Record::record on no field changes nothing; on some, it is an update with
\* the first and a record of the rest.
LEMMA RecordAllSteps ==
  /\ \A values : RecordAll(values, <<>>) = values
  /\ \A S, values : \A call \in Seq(S) :
       call # <<>> => RecordAll(values, call) = RecordAll(update(values, Head(call)), Tail(call))
<1>1. \A values : RecordAll(values, <<>>) = values
  BY RecordAllIsFold, Updates!FoldEmpty, Zenon
<1>2. ASSUME NEW S, NEW call \in Seq(S), NEW values, call # <<>>
      PROVE  RecordAll(values, call) = RecordAll(update(values, Head(call)), Tail(call))
  BY <1>2, RecordAllIsFold, Updates!FoldHead, Zenon
<1> QED
  BY <1>1, <1>2, Zenon

\* Position finds the first entry of a field, or nothing if there is none.
LEMMA PositionIs ==
  ASSUME NEW S, NEW values \in Seq(S), NEW f
  PROVE  LET p == Position(values, f)
         IN  \/ p \in 1..Len(values) /\ values[p].field = f
             \/ p = 0 /\ \A i \in 1..Len(values) : values[i].field # f
<1> DEFINE I == {i \in 1..Len(values) : values[i].field = f}
<1>1. Position(values, f) = IF I # {} THEN Min(I) ELSE 0
  BY Zenon DEF Position, SelectInSeq
<1>2. CASE I = {}
  BY <1>1, <1>2
<1>3. CASE I # {}
  <2>1. I \in SUBSET Nat
    OBVIOUS
  <2>2. \E n \in I : \A m \in I : n <= m
    <3> HIDE DEF I
    <3> QED
      BY <1>3, <2>1, Updates!Least
  <2>3. Min(I) \in I
    <3> HIDE DEF I
    <3> QED
      BY <2>2, Zenon DEF Min
  <2> QED
    BY <1>1, <1>3, <2>3
<1> QED
  BY <1>2, <1>3

\* The first and the last mention of a field that is mentioned at all.
LEMMA FirstIndexIs ==
  ASSUME NEW S, NEW history \in Seq(S), NEW f \in FieldsOf(history)
  PROVE  /\ FirstIndex(history, f) \in DOMAIN history /\ history[FirstIndex(history, f)].field = f
         /\ \A j \in DOMAIN history : history[j].field = f => FirstIndex(history, f) <= j
<1> DEFINE I == {i \in DOMAIN history : history[i].field = f}
<1>1. I \in SUBSET Nat /\ I # {}
  BY DEF FieldsOf
<1>2. \E n \in I : \A m \in I : n <= m
  <2> HIDE DEF I
  <2> QED
    BY <1>1, Updates!Least
<1>3. \E i \in DOMAIN history : history[i].field = f /\ \A j \in DOMAIN history : history[j].field = f => i <= j
  BY <1>2
<1> QED
  BY <1>3, Zenon DEF FirstIndex

\* LastIndex finds the last mention of a field.
LEMMA LastIndexIs ==
  ASSUME NEW S, NEW history \in Seq(S), NEW f \in FieldsOf(history)
  PROVE  /\ LastIndex(history, f) \in DOMAIN history /\ history[LastIndex(history, f)].field = f
         /\ \A j \in DOMAIN history : history[j].field = f => j <= LastIndex(history, f)
<1> DEFINE I == {k \in 0..Len(history) : Len(history) - k \in DOMAIN history /\ history[Len(history) - k].field = f}
<1>1. I \in SUBSET Nat /\ I # {}
  <2>1. PICK i \in DOMAIN history : history[i].field = f
    BY DEF FieldsOf
  <2>2. Len(history) - i \in 0..Len(history) /\ Len(history) - (Len(history) - i) = i
    OBVIOUS
  <2>3. Len(history) - i \in I
    BY <2>1, <2>2
  <2> QED
    BY <2>3
<1>2. PICK n \in I : \A m \in I : n <= m
  <2> HIDE DEF I
  <2> QED
    BY <1>1, Updates!Least
<1>3. ASSUME NEW j \in DOMAIN history, history[j].field = f PROVE j <= Len(history) - n
  <2>1. Len(history) - j \in 0..Len(history) /\ Len(history) - (Len(history) - j) = j
    OBVIOUS
  <2>2. Len(history) - j \in I
    BY <1>3, <2>1
  <2> QED
    BY <1>2, <2>2
<1>4. \E i \in DOMAIN history : history[i].field = f /\ \A j \in DOMAIN history : history[j].field = f => j <= i
  BY <1>2, <1>3
<1> QED
  BY <1>4, Zenon DEF LastIndex

\* update keeps a sequence of values.
LEMMA UpdateType ==
  ASSUME NEW S, NEW values \in Seq(S), NEW new \in S
  PROVE  update(values, new) \in Seq(S)
<1>1. CASE Position(values, new.field) = 0
  BY <1>1 DEF update
<1>2. CASE Position(values, new.field) \in 1..Len(values)
  BY <1>2 DEF update
<1> QED
  BY <1>1, <1>2, PositionIs

\* Two mentions of one field are the first one, or the last one, alike.
LEMMA FirstIsUnique ==
  ASSUME NEW S, NEW history \in Seq(S), NEW i \in DOMAIN history,
         \A j \in DOMAIN history : history[j].field = history[i].field => i <= j
  PROVE  FirstIndex(history, history[i].field) = i
<1>1. history[i].field \in FieldsOf(history)
  BY DEF FieldsOf
<1>2. /\ FirstIndex(history, history[i].field) \in DOMAIN history
      /\ history[FirstIndex(history, history[i].field)].field = history[i].field
      /\ FirstIndex(history, history[i].field) <= i
  BY <1>1, FirstIndexIs
<1> QED
  BY <1>2

\* There is one last mention of a field.
LEMMA LastIsUnique ==
  ASSUME NEW S, NEW history \in Seq(S), NEW i \in DOMAIN history,
         \A j \in DOMAIN history : history[j].field = history[i].field => j <= i
  PROVE  LastIndex(history, history[i].field) = i
<1>1. history[i].field \in FieldsOf(history)
  BY DEF FieldsOf
<1>2. /\ LastIndex(history, history[i].field) \in DOMAIN history
      /\ history[LastIndex(history, history[i].field)].field = history[i].field
      /\ i <= LastIndex(history, history[i].field)
  BY <1>1, LastIndexIs
<1> QED
  BY <1>2

\* The history grows by a mention of field e.field.
Grown(history, e, more) ==
  /\ FieldsOf(more) = FieldsOf(history) \cup {e.field}
  /\ LastIndex(more, e.field) = Len(history) + 1 /\ more[Len(history) + 1] = e
  /\ \A f \in FieldsOf(history) :
       /\ FirstIndex(more, f) = FirstIndex(history, f)
       /\ f # e.field => LastIndex(more, f) = LastIndex(history, f)
       /\ history[LastIndex(history, f)] = more[LastIndex(history, f)]
       /\ FirstIndex(history, f) \in 1..Len(history)
  /\ e.field \notin FieldsOf(history) => FirstIndex(more, e.field) = Len(history) + 1

\* What one more value does to the first and last mentions of the fields.
LEMMA HistoryGrows ==
  ASSUME NEW S, NEW history \in Seq(S), NEW e \in S, NEW more, more = Append(history, e)
  PROVE  Grown(history, e, more)
<1>1. PICK n \in Nat : n = Len(history)
  OBVIOUS
<1>2. /\ more \in Seq(S) /\ DOMAIN more = 1..n + 1 /\ DOMAIN history = 1..n
      /\ more[n + 1] = e /\ \A i \in 1..n : more[i] = history[i] /\ i \in DOMAIN more
  BY <1>1
<1>3. \A i \in DOMAIN more : i = n + 1 \/ i \in DOMAIN history
  BY <1>2
<1>4. FieldsOf(more) = FieldsOf(history) \cup {e.field}
  BY <1>2, <1>3 DEF FieldsOf
<1>5. LastIndex(more, e.field) = n + 1
  <2>1. n + 1 \in DOMAIN more /\ \A j \in DOMAIN more : more[j].field = more[n + 1].field => j <= n + 1
    BY <1>2
  <2>2. LastIndex(more, more[n + 1].field) = n + 1
    BY <1>2, <2>1, LastIsUnique
  <2> QED
    BY <1>2, <2>2
<1>6. ASSUME NEW f \in FieldsOf(history)
      PROVE  /\ FirstIndex(more, f) = FirstIndex(history, f)
             /\ f # e.field => LastIndex(more, f) = LastIndex(history, f)
             /\ history[LastIndex(history, f)] = more[LastIndex(history, f)]
             /\ FirstIndex(history, f) \in 1..n
  <2>1. PICK i \in 1..n : /\ i = FirstIndex(history, f) /\ history[i].field = f
                          /\ \A j \in 1..n : history[j].field = f => i <= j
    BY <1>2, FirstIndexIs
  <2>2. PICK k \in 1..n : /\ k = LastIndex(history, f) /\ history[k].field = f
                          /\ \A j \in 1..n : history[j].field = f => j <= k
    BY <1>2, LastIndexIs
  <2>3. FirstIndex(more, more[i].field) = i
    <3>1. \A j \in DOMAIN more : more[j].field = more[i].field => i <= j
      BY <1>2, <1>3, <2>1
    <3> QED
      BY <1>2, <3>1, FirstIsUnique
  <2>4. ASSUME f # e.field PROVE LastIndex(more, more[k].field) = k
    <3>1. \A j \in DOMAIN more : more[j].field = more[k].field => j <= k
      BY <1>2, <1>3, <2>2, <2>4
    <3> QED
      BY <1>2, <3>1, LastIsUnique
  <2> QED
    BY <1>2, <2>1, <2>2, <2>3, <2>4
<1>7. ASSUME e.field \notin FieldsOf(history) PROVE FirstIndex(more, e.field) = n + 1
  <2>1. \A j \in DOMAIN history : history[j].field # e.field
    BY <1>7 DEF FieldsOf
  <2>2. n + 1 \in DOMAIN more /\ \A j \in DOMAIN more : more[j].field = more[n + 1].field => n + 1 <= j
    BY <1>2, <1>3, <2>1
  <2>3. FirstIndex(more, more[n + 1].field) = n + 1
    BY <1>2, <2>2, FirstIsUnique
  <2> QED
    BY <1>2, <2>3
<1> QED
  BY <1>1, <1>2, <1>4, <1>5, <1>6, <1>7 DEF Grown

\* What Summarises says, and that nothing else is in the values.
Summary(values, history) ==
  /\ Summarises(values, history)
  /\ IsFiniteSet(FieldsOf(history)) /\ FieldsOf(values) \subseteq FieldsOf(history)

\* No values summarise that nothing was said.
LEMMA SummaryOfNothing == Summary(<<>>, <<>>)
<1>1. FieldsOf(<<>>) = {} /\ DOMAIN <<>> = {} /\ Len(<<>>) = 0
  BY DEF FieldsOf
<1>2. IsFiniteSet({}) /\ Cardinality({}) = 0
  BY FS_EmptySet
<1> QED
  BY <1>1, <1>2 DEF Summary, Summarises

\* One update keeps the values a summary: it overwrites the entry of the
\* field in its place, or opens one at the end.
LEMMA SummaryGrows ==
  ASSUME NEW S, NEW values \in Seq(S), NEW history \in Seq(S), Summary(values, history), NEW e \in S
  PROVE  Summary(update(values, e), Append(history, e))
<1> DEFINE more == Append(history, e)
           next == update(values, e)
           p == Position(values, e.field)
<1>0. more = Append(history, e)
  OBVIOUS
<1> HIDE DEF more
<1>1. Grown(history, e, more)
  BY <1>0, HistoryGrows
<1>2. /\ Len(values) = Cardinality(FieldsOf(history)) /\ IsFiniteSet(FieldsOf(history))
      /\ \A f \in FieldsOf(history) :
           \E i \in DOMAIN values : values[i] = history[LastIndex(history, f)]
      /\ \A i, j \in DOMAIN values :
           i < j => FirstIndex(history, values[i].field) < FirstIndex(history, values[j].field)
      /\ \A i \in DOMAIN values : values[i].field \in FieldsOf(history)
  BY DEF Summary, Summarises, FieldsOf
<1>3. \/ p \in 1..Len(values) /\ values[p].field = e.field
      \/ p = 0 /\ \A i \in 1..Len(values) : values[i].field # e.field
  BY PositionIs
<1>4. \A f \in FieldsOf(history) : history[LastIndex(history, f)].field = f
  BY LastIndexIs
<1>5. next = IF p # 0 THEN [values EXCEPT ![p] = e] ELSE Append(values, e)
  BY DEF update
<1>6. e.field \in FieldsOf(history) <=> p # 0
  BY <1>2, <1>3, <1>4
<1> HIDE DEF next, p
<1> USE DEF Grown
<1>7. CASE p # 0
  <2>1. /\ p \in DOMAIN values /\ values[p].field = e.field /\ e.field \in FieldsOf(history)
        /\ DOMAIN next = DOMAIN values /\ Len(next) = Len(values) /\ next[p] = e
        /\ \A i \in DOMAIN values \ {p} : next[i] = values[i]
    BY <1>3, <1>5, <1>6, <1>7
  <2>2. FieldsOf(more) = FieldsOf(history) /\ \A i \in DOMAIN next : next[i].field = values[i].field
    BY <1>1, <2>1
  <2>3. ASSUME NEW f \in FieldsOf(history)
        PROVE  \E i \in DOMAIN next : next[i] = more[LastIndex(more, f)]
    <3>1. CASE f = e.field
      BY <1>1, <2>1, <3>1
    <3>2. CASE f # e.field
      <4>1. PICK i \in DOMAIN values : values[i] = history[LastIndex(history, f)]
        BY <1>2
      <4>2. i # p /\ more[LastIndex(more, f)] = values[i]
        BY <1>1, <1>4, <2>1, <3>2, <4>1
      <4> QED
        BY <2>1, <4>2
    <3> QED
      BY <3>1, <3>2
  <2>4. \A i, j \in DOMAIN next :
          i < j => FirstIndex(more, next[i].field) < FirstIndex(more, next[j].field)
    BY <1>1, <1>2, <2>1, <2>2
  <2>5. FieldsOf(next) \subseteq FieldsOf(more)
    BY <1>2, <2>1, <2>2 DEF FieldsOf
  <2> QED
    BY <1>2, <2>1, <2>2, <2>3, <2>4, <2>5 DEF Summary, Summarises, more, next
<1>8. CASE p = 0
  <2>1. PICK n \in Nat : n = Len(values)
    OBVIOUS
  <2>2. /\ e.field \notin FieldsOf(history) /\ DOMAIN values = 1..n
        /\ DOMAIN next = 1..n + 1 /\ Len(next) = n + 1 /\ next[n + 1] = e
        /\ \A i \in 1..n : next[i] = values[i]
    BY <1>5, <1>6, <1>8, <2>1
  <2>3. /\ IsFiniteSet(FieldsOf(more)) /\ Cardinality(FieldsOf(more)) = n + 1
    <3>1. /\ IsFiniteSet(FieldsOf(history) \cup {e.field})
          /\ Cardinality(FieldsOf(history) \cup {e.field}) = Cardinality(FieldsOf(history)) + 1
      BY <1>2, <2>2, FS_AddElement
    <3> QED
      BY <1>1, <1>2, <2>1, <3>1
  <2>4. ASSUME NEW f \in FieldsOf(more)
        PROVE  \E i \in DOMAIN next : next[i] = more[LastIndex(more, f)]
    <3>1. CASE f = e.field
      BY <1>1, <2>2, <3>1
    <3>2. CASE f # e.field
      <4>1. PICK i \in DOMAIN values : values[i] = history[LastIndex(history, f)]
        BY <1>1, <1>2, <3>2
      <4> QED
        BY <1>1, <2>2, <3>2, <4>1
    <3> QED
      BY <3>1, <3>2
  <2>5. ASSUME NEW i \in DOMAIN next, NEW j \in DOMAIN next, i < j
        PROVE  FirstIndex(more, next[i].field) < FirstIndex(more, next[j].field)
    <3>1. i \in 1..n /\ next[i].field \in FieldsOf(history) /\ next[i] = values[i]
      BY <1>2, <2>2, <2>5
    <3>2. FirstIndex(more, next[i].field) = FirstIndex(history, values[i].field)
      BY <1>1, <3>1
    <3>3. CASE j \in 1..n
      BY <1>1, <1>2, <2>2, <2>5, <3>1, <3>2, <3>3
    <3>4. CASE j = n + 1
      BY <1>1, <2>2, <3>1, <3>2, <3>4
    <3> QED
      BY <2>2, <3>3, <3>4
  <2>6. FieldsOf(next) \subseteq FieldsOf(more)
    <3>1. \A i \in 1..n + 1 : i = n + 1 \/ i \in 1..n
      OBVIOUS
    <3>2. \A i \in DOMAIN next : next[i].field \in FieldsOf(more)
      BY <1>1, <1>2, <2>2, <3>1
    <3> QED
      BY <3>2 DEF FieldsOf
  <2> QED
    BY <2>2, <2>3, <2>4, <2>5, <2>6 DEF Summary, Summarises, more, next
<1> QED
  BY <1>3, <1>7, <1>8

-----------------------------------------------------------------------------
(* The types.                                                              *)

OpOK(w) ==
  \/ w \in {Idle, Panicked}
  \/ w \in [pc : {"new", "closing", "removing"}, span : Spans]
  \/ w \in [pc : {"recording"}, span : Spans, todo : Seq(Value)]
  \/ w \in [pc : {"ready", "writing"}, event : Events]

Left == [spans : Nat, unseen : Nat, records : Nat, fields : Nat, events : Nat]

\* TypeOK, without the threads.
Shared ==
  /\ attached \in BOOLEAN
  /\ writer \in [Spans -> Threads \cup {None}] /\ readers \in [Spans -> SUBSET Threads]
  /\ deferred \in [Spans -> Seq(Value)] /\ said \in [Spans -> Seq(Value)]
  /\ collecting \in BOOLEAN /\ log \in Seq(Events) /\ steady \subseteq Spans
  /\ budget \in Left

\* TypeOK, in its two parts, of this state and of the next.
LEMMA TypeParts ==
  /\ Inv => (TypeOK <=> Shared /\ \A t \in Threads : OpOK(op[t]))
  /\ Inv' => (TypeOK' <=> Shared' /\ \A t \in Threads : OpOK(op'[t]))
  BY DEF Inv, Types, TypeOK, Shared, OpOK, Left

\* A call records values.
LEMMA CallType ==
  ASSUME NEW call \in Calls
  PROVE  call \in Seq(Value)
<1>1. call \in Seq(ToSet(call)) /\ ToSet(call) \subseteq Value
  BY SpanAssumption DEF SpanAssumption, Value
<1> QED
  BY <1>1, SeqMonotonic

\* What a thread can be at, by the place it is at.
LEMMA OpKinds ==
  ASSUME NEW w, OpOK(w)
  PROVE  /\ w.pc \in {"new", "closing", "removing"} => w.span \in Spans
         /\ w.pc = "recording" => w.span \in Spans /\ w.todo \in Seq(Value)
                                  /\ w = [pc |-> "recording", span |-> w.span, todo |-> w.todo]
         /\ w.pc \in {"ready", "writing"} => w.event \in Events
BY DEF OpOK, Idle, Panicked

\* The places of a thread have the type of one.
LEMMA OpPlaces ==
  /\ OpOK(Idle) /\ OpOK(Panicked)
  /\ \A s \in Spans : OpOK(At("new", s)) /\ OpOK(At("closing", s)) /\ OpOK(At("removing", s))
  /\ \A s \in Spans, todo \in Seq(Value) : OpOK([pc |-> "recording", span |-> s, todo |-> todo])
  /\ \A e \in Events : OpOK(Ready(e)) /\ OpOK([pc |-> "writing", event |-> e])
BY DEF OpOK, At, Ready

\* The three kinds of events.
LEMMA EventTypes ==
  /\ \A s \in Spans, a \in Activity, r \in Activity \cup {None} :
       Event("START", s, a, r, <<>>) \in Events
  /\ \A s \in Spans, a \in Activity, values \in Seq(Value) :
       Event("STOP", s, a, None, values) \in Events
  /\ \A s \in SpanOrNone, a \in Activity \cup {None} : Event("INFO", s, a, None, <<>>) \in Events
<1>1. <<>> \in Seq(Value)
  OBVIOUS
<1> QED
  BY <1>1 DEF Event, Events

\* A step that moves one thread.
LEMMA TypeMove ==
  ASSUME Inv, Inv', TypeOK, NEW t \in Threads, NEW w, op' = [op EXCEPT ![t] = w], OpOK(w), Shared'
  PROVE  TypeOK'
<1>1. op'[t] = w /\ \A u \in Threads \ {t} : op'[u] = op[u]
  BY DEF Inv, Types
<1>2. (\A u \in Threads : OpOK(op[u])) /\ (TypeOK' <=> Shared' /\ \A u \in Threads : OpOK(op'[u]))
  BY TypeParts
<1>3. \A u \in Threads : OpOK(op'[u])
  BY <1>1, <1>2 DEF OpOK
<1> QED
  BY <1>2, <1>3

\* The handlers and the program, one by one.
LEMMA TypeNewSpan ==
  ASSUME Inv, Inv', TypeOK, NEW t \in Threads, NEW p \in SpanOrNone,
         NEW sight \in {"visible", "hidden", "early"}, NewSpan(t, p, sight)
  PROVE  TypeOK'
<1>1. PICK s \in Spans : /\ steady' = steady \cup {s}
                         /\ op' = op \/ op' = [op EXCEPT ![t] = At("new", s)]
  <2> DEFINE s == CHOOSE x \in Unused : TRUE
  <2>1. s \in Unused
    BY DEF NewSpan
  <2>2. s \in Spans
    BY <2>1 DEF Unused
  <2> HIDE DEF s
  <2> QED
    BY <2>2 DEF NewSpan, Goto, s
<1>2. Shared /\ (\A u \in Threads : OpOK(op[u]))
  BY TypeParts
<1>3. budget' \in Left
  <2>1. PICK n \in Nat : n = budget.spans - 1
    BY <1>2 DEF NewSpan, Shared, Left
  <2>2. PICK m \in Nat : m = IF sight = "visible" THEN budget.unseen ELSE budget.unseen - 1
    BY <1>2 DEF NewSpan, Shared, Left
  <2>3. PICK b : b = [budget EXCEPT !.spans = n]
    OBVIOUS
  <2>4. budget' = [b EXCEPT !.unseen = m]
    BY <2>1, <2>2, <2>3, Zenon DEF NewSpan
  <2> QED
    BY <1>2, <2>3, <2>4 DEF Shared, Left
<1>4. Shared'
  BY <1>1, <1>2, <1>3 DEF NewSpan, Shared, locks, exts
<1>5. CASE op' = op
  BY <1>2, <1>4, <1>5, TypeParts
<1>6. CASE op' = [op EXCEPT ![t] = At("new", s)]
  BY <1>4, <1>6, OpPlaces, TypeMove
<1> QED
  BY <1>1, <1>5, <1>6

\* The steps of the registry, of reload and of the sessions.
LEMMA TypeRegistry ==
  ASSUME Inv, Inv', TypeOK,
         \/ UNCHANGED vars \/ Toggle \/ Attach
         \/ \E t \in Threads : \/ Clear(t) \/ CloseUnseen(t) \/ Exit(t)
                               \/ \E s \in Spans : \/ Enter(t, s) \/ DropHandle(t, s)
                                                   \/ \E u \in Threads : Share(t, u, s)
  PROVE  TypeOK'
<1>1. Shared /\ (\A u \in Threads : OpOK(op[u]))
  BY TypeParts
<1>2. ASSUME op' = op, Shared' PROVE TypeOK'
  BY <1>1, <1>2, TypeParts
<1>3. CASE UNCHANGED vars \/ Toggle \/ Attach
  <2>1. op' = op
    BY <1>3 DEF vars, Toggle, Attach
  <2>2. Shared'
    BY <1>1, <1>3 DEF vars, Toggle, Attach, Shared, registry, locks, exts, sessions
  <2> QED
    BY <1>2, <2>1, <2>2
<1>4. ASSUME NEW t \in Threads, NEW s \in Spans,
             Exit(t) \/ Enter(t, s) \/ \E u \in Threads : Share(t, u, s)
      PROVE  TypeOK'
  BY <1>1, <1>2, <1>4 DEF Exit, Enter, Share, Shared, registry, locks, exts, sessions
<1>5. ASSUME NEW t \in Threads, NEW s \in Spans, DropHandle(t, s) PROVE TypeOK'
  <2>1. Shared'
    BY <1>1, <1>5 DEF DropHandle, Shared, locks, exts, sessions
  <2>2. PICK w \in {Idle, At("closing", s)} : op' = [op EXCEPT ![t] = w]
    BY <1>5 DEF DropHandle, GiveUp, Goto
  <2> QED
    BY <2>1, <2>2, OpPlaces, TypeMove
<1>6. ASSUME NEW t \in Threads, Clear(t) PROVE TypeOK'
  <2>1. Shared'
    BY <1>1, <1>6 DEF Clear, Shared, locks, exts, sessions
  <2>2. PICK p \in SpanOrNone : GiveUp(t, p)
    BY <1>6 DEF Clear
  <2>3. PICK w : w \in {Idle, At("closing", p)} /\ op' = [op EXCEPT ![t] = w] /\ (w # Idle => p \in Spans)
    BY <2>2 DEF GiveUp, Goto, SpanOrNone
  <2>4. OpOK(w)
    BY <2>3, OpPlaces
  <2> QED
    BY <2>1, <2>3, <2>4, TypeMove
<1>7. ASSUME NEW t \in Threads, CloseUnseen(t) PROVE TypeOK'
  <2>1. Shared'
    BY <1>1, <1>7 DEF CloseUnseen, Shared, registry, locks, exts, sessions
  <2>2. PICK s \in Spans : op' = [op EXCEPT ![t] = At("removing", s)]
    BY <1>7 DEF CloseUnseen, Goto
  <2> QED
    BY <2>1, <2>2, OpPlaces, TypeMove
<1>8. ASSUME NEW t \in Threads, Exit(t) PROVE TypeOK'
  <2>1. entered[t] \in Seq(Spans) /\ entered[t] # <<>>
    BY <1>8 DEF Exit, Inv, Types
  <2>2. PICK s \in Spans : s = entered[t][1]
    BY <2>1
  <2> QED
    BY <1>4, <1>8
<1> QED
  BY <1>3, <1>4, <1>5, <1>6, <1>7, <1>8

\* on_new_span stores an id and makes a START.
LEMMA TypeNewHandler ==
  ASSUME Inv, Inv', TypeOK, NEW t \in Threads, NEW attr \in Attrs, NEW current \in Activity,
         on_new_span(t, attr, current)
  PROVE  TypeOK'
<1>1. /\ Shared /\ OpOK(op[t])
      /\ parent \in [Spans -> SpanOrNone] /\ activity \in [Spans -> Activity \cup {None}]
  BY TypeParts DEF Inv, Types
<1>2. Shared'
  BY <1>1 DEF on_new_span, Shared, registry, locks, sessions
<1>3. PICK s \in Spans : s = op[t].span
  BY <1>1, OpKinds DEF on_new_span
<1>4. CASE Hidden(parent[s])
  <2>1. op' = [op EXCEPT ![t] = Panicked]
    BY <1>3, <1>4 DEF on_new_span, Goto
  <2> QED
    BY <1>2, <2>1, OpPlaces, TypeMove
<1>5. CASE ~Hidden(parent[s])
  <2>1. PICK e : /\ e = Event("START", s, ActivityFor(attr, current), ExtensionOf(parent[s]), <<>>)
                 /\ op' = [op EXCEPT ![t] = Ready(e)]
    BY <1>3, <1>5 DEF on_new_span, Goto
  <2>2. ActivityFor(attr, current) \in Activity /\ ExtensionOf(parent[s]) \in Activity \cup {None}
    BY <1>1 DEF ActivityFor, extract_activity_id_attr, Attrs, Activity, ExtensionOf, SpanOrNone
  <2>3. e \in Events
    BY <2>1, <2>2, EventTypes
  <2> QED
    BY <1>2, <2>1, <2>3, OpPlaces, TypeMove
<1> QED
  BY <1>4, <1>5

\* The steps of Record::record.
LEMMA TypeRecord ==
  ASSUME Inv, Inv', TypeOK, NEW t \in Threads,
         RecordField(t) \/ RecordEnd(t)
           \/ (\E s \in Spans, call \in Calls : RecordBegin(t, s, call))
  PROVE  TypeOK'
<1>1. Shared /\ OpOK(op[t])
  BY TypeParts
<1>2. ASSUME NEW s \in Spans, NEW call \in Calls, RecordBegin(t, s, call) PROVE TypeOK'
  <2>1. call \in Seq(Value) /\ op' = [op EXCEPT ![t] = [pc |-> "recording", span |-> s, todo |-> call]]
    BY <1>2, CallType DEF RecordBegin, Goto
  <2>2. said' \in [Spans -> Seq(Value)] /\ writer' \in [Spans -> Threads \cup {None}]
    BY <1>1, <1>2, <2>1 DEF RecordBegin, Shared
  <2>3. budget' \in Left
    <3>1. PICK n \in Nat : n = budget.records - 1
      BY <1>1, <1>2 DEF RecordBegin, Shared, Left
    <3>2. budget' = [budget EXCEPT !.records = n]
      BY <1>2, <3>1, Zenon DEF RecordBegin
    <3> QED
      BY <1>1, <3>2 DEF Shared, Left
  <2>4. Shared'
    BY <1>1, <1>2, <2>2, <2>3 DEF RecordBegin, Shared, registry, exts, sessions
  <2> QED
    BY <2>1, <2>4, OpPlaces, TypeMove
<1>3. CASE RecordField(t)
  <2> DEFINE s == op[t].span
             rest == Tail(op[t].todo)
  <2>1. /\ op[t].pc = "recording" /\ op[t].todo # <<>> /\ s \in Spans /\ op[t].todo \in Seq(Value)
        /\ op[t] = [pc |-> "recording", span |-> s, todo |-> op[t].todo]
    BY <1>1, <1>3, OpKinds DEF RecordField
  <2>2. rest \in Seq(Value) /\ Head(op[t].todo) \in Value
    BY <2>1
  <2>3. update(deferred[s], Head(op[t].todo)) \in Seq(Value)
    <3>1. deferred[s] \in Seq(Value)
      BY <1>1, <2>1 DEF Shared
    <3> QED
      BY <2>2, <3>1, UpdateType
  <2>4. Shared'
    BY <1>1, <1>3, <2>3 DEF RecordField, Shared, registry, locks, sessions
  <2>5. op' = [op EXCEPT ![t] = [op[t] EXCEPT !.todo = rest]]
    BY <1>3 DEF RecordField
  <2>6. [op[t] EXCEPT !.todo = rest] = [pc |-> "recording", span |-> s, todo |-> rest]
    BY <2>1
  <2>7. OpOK([op[t] EXCEPT !.todo = rest])
    BY <2>1, <2>2, <2>6, OpPlaces
  <2> QED
    BY <2>4, <2>5, <2>7, TypeMove
<1>4. CASE RecordEnd(t)
  <2>1. Shared' /\ op' = [op EXCEPT ![t] = Idle]
    BY <1>1, <1>4 DEF RecordEnd, Goto, Shared, registry, exts, sessions
  <2> QED
    BY <2>1, OpPlaces, TypeMove
<1> QED
  BY <1>2, <1>3, <1>4

\* on_event and on_close make an event, and a handler returns.
LEMMA TypeEvent ==
  ASSUME Inv, Inv', TypeOK, NEW t \in Threads,
         on_close(t) \/ Skip(t) \/ Build(t) \/ Write(t) \/ \E s \in SpanOrNone : on_event(t, s)
  PROVE  TypeOK'
<1>1. Shared /\ OpOK(op[t]) /\ activity \in [Spans -> Activity \cup {None}]
  BY TypeParts DEF Inv, Types
<1>2. ASSUME NEW s \in SpanOrNone, on_event(t, s) PROVE TypeOK'
  <2>1. PICK e : e = Event("INFO", s, ExtensionOf(s), None, <<>>) /\ op' = [op EXCEPT ![t] = Ready(e)]
    BY <1>2 DEF on_event, Goto
  <2>2. ExtensionOf(s) \in Activity \cup {None}
    BY <1>1 DEF ExtensionOf, SpanOrNone
  <2>3. e \in Events
    BY <2>1, <2>2, EventTypes
  <2>4. budget' \in Left
    <3>1. PICK n \in Nat : n = budget.events - 1
      BY <1>1, <1>2 DEF on_event, Shared, Left
    <3>2. budget' = [budget EXCEPT !.events = n]
      BY <1>2, <3>1, Zenon DEF on_event
    <3> QED
      BY <1>1, <3>2 DEF Shared, Left
  <2>5. Shared'
    BY <1>1, <1>2, <2>4 DEF on_event, Shared, registry, locks, exts, sessions
  <2> QED
    BY <2>1, <2>3, <2>5, OpPlaces, TypeMove
<1>3. CASE on_close(t)
  <2>1. PICK s \in Spans : s = op[t].span
    BY <1>1, <1>3, OpKinds DEF on_close
  <2>2. Shared'
    <3>1. readers' \in [Spans -> SUBSET Threads]
      <4>1. readers' = readers \/ readers' = [readers EXCEPT ![s] = readers[s] \cup {t}]
        BY <1>3, <2>1 DEF on_close
      <4>2. readers \in [Spans -> SUBSET Threads] /\ readers[s] \cup {t} \in SUBSET Threads
        BY <1>1 DEF Shared
      <4> QED
        BY <4>1, <4>2
    <3>2. UNCHANGED <<attached, writer, deferred, said, collecting, log, steady, budget>>
      BY <1>3 DEF on_close, registry, exts, sessions
    <3> QED
      BY <1>1, <3>1, <3>2 DEF Shared
  <2>3. CASE activity[s] = None
    <3>1. op' = [op EXCEPT ![t] = Panicked]
      BY <1>3, <2>1, <2>3 DEF on_close, Goto
    <3> QED
      BY <2>2, <3>1, OpPlaces, TypeMove
  <2>4. CASE activity[s] # None
    <3>1. PICK e : e = Event("STOP", s, activity[s], None, deferred[s]) /\ op' = [op EXCEPT ![t] = Ready(e)]
      BY <1>3, <2>1, <2>4 DEF on_close, Goto
    <3>2. activity[s] \in Activity /\ deferred[s] \in Seq(Value)
      BY <1>1, <2>4 DEF Shared
    <3>3. e \in Events
      BY <3>1, <3>2, EventTypes
    <3> QED
      BY <2>2, <3>1, <3>3, OpPlaces, TypeMove
  <2> QED
    BY <2>3, <2>4
<1>4. ASSUME op[t].pc \in {"ready", "writing"}, NEW e, e = op[t].event, Return(t, e),
             UNCHANGED <<writer, deferred, said, collecting, steady, budget, attached>>,
             log' \in {log, Append(log, e)}
      PROVE  TypeOK'
  <2>1. e \in Events /\ (e.op = "STOP" => e.span \in Spans)
    BY <1>1, <1>4, OpKinds DEF Events
  <2>2. readers' \in [Spans -> SUBSET Threads]
    BY <1>1, <1>4, <2>1 DEF Return, Shared
  <2>3. log' \in Seq(Events)
    <3>1. log \in Seq(Events) /\ log' \in {log, Append(log, e)}
      BY <1>1, <1>4 DEF Shared
    <3> HIDE DEF Events
    <3> QED
      BY <2>1, <3>1
  <2>4. Shared'
    BY <1>1, <1>4, <2>2, <2>3 DEF Shared
  <2>5. CASE e.op = "STOP"
    BY <1>4, <2>1, <2>4, <2>5, OpPlaces, TypeMove DEF Return, Goto
  <2>6. CASE e.op # "STOP"
    BY <1>4, <2>4, <2>6, OpPlaces, TypeMove DEF Return, Goto
  <2> QED
    BY <2>5, <2>6
<1>5. CASE Skip(t)
  BY <1>4, <1>5 DEF Skip, registry, exts, sessions
<1>6. CASE Write(t)
  BY <1>4, <1>6 DEF Write, registry, exts, sessions
<1>7. CASE Build(t)
  <2>1. Shared' /\ op' = [op EXCEPT ![t] = [op[t] EXCEPT !.pc = "writing"]]
    BY <1>1, <1>7 DEF Build, Shared, registry, locks, exts, sessions
  <2>2. op[t] \in [pc : {"ready", "writing"}, event : Events]
    BY <1>1, <1>7 DEF Build, OpOK, Idle, Panicked
  <2>3. OpOK([op[t] EXCEPT !.pc = "writing"])
    BY <2>2 DEF OpOK
  <2> QED
    BY <2>1, <2>3, TypeMove
<1> QED
  BY <1>2, <1>3, <1>5, <1>6, <1>7

\* Every step keeps the types.
LEMMA TypeNext == Inv /\ Inv' /\ TypeOK /\ [Next]_vars => TypeOK'
<1> SUFFICES ASSUME Inv, Inv', TypeOK, [Next]_vars PROVE TypeOK'
  OBVIOUS
<1>1. CASE UNCHANGED vars \/ Toggle \/ Attach
  BY <1>1, TypeRegistry
<1>2. ASSUME NEW t \in Threads, Handler(t) PROVE TypeOK'
  BY <1>2, TypeNewHandler, TypeRecord, TypeEvent, TypeRegistry DEF Handler
<1>3. ASSUME NEW t \in Threads, Program(t) PROVE TypeOK'
  BY <1>3, TypeNewSpan, TypeRecord, TypeEvent, TypeRegistry DEF Program
<1> QED
  BY <1>1, <1>2, <1>3 DEF Next

\* TypeOK holds in every reachable state, for any threads, spans and calls.
THEOREM TypeCorrect == Spec => []TypeOK
<1>1. ASSUME Init PROVE TypeOK
  <2>1. <<>> \in Seq(Value) /\ <<>> \in Seq(Events)
    BY EmptySeq
  <2>2. budget \in Left /\ attached \in BOOLEAN
    BY <1>1, SpanAssumption DEF SpanAssumption, Init, Left
  <2>3. deferred \in [Spans -> Seq(Value)] /\ said \in [Spans -> Seq(Value)] /\ log \in Seq(Events)
    BY <1>1, <2>1 DEF Init
  <2>4. Shared
    BY <1>1, <2>2, <2>3 DEF Init, Shared
  <2>5. \A t \in Threads : OpOK(op[t])
    BY <1>1 DEF Init, OpOK
  <2> QED
    BY <1>1, <2>4, <2>5, InitInv, TypeParts
<1> QED
  BY <1>1, TypeNext, InvAlways, PTL DEF Spec

-----------------------------------------------------------------------------
(* The values of a STOP.  While a thread records on a span it holds the    *)
(* span's lock and a handle to the span, so nobody closes it; what was     *)
(* said on a span is what the values summarise and what is still to do.    *)

\* Who records has the lock, and who has the lock records.
LocksOK ==
  /\ \A t \in Threads : op[t].pc = "recording" =>
       writer[op[t].span] = t /\ op[t].span \in held[t]
  /\ \A s \in Spans : writer[s] # None =>
       op[writer[s]].pc = "recording" /\ op[writer[s]].span = s

Summed == \A s \in Spans :
  \E done \in Seq(Value) : said[s] = done \o Todo(s) /\ Summary(deferred[s], done)

\* The STOP that a thread is about to write has the span's values.
StopOK(w) ==
  w.pc \in {"ready", "writing"} /\ w.event.op = "STOP" =>
    /\ w.event.values = deferred[w.event.span]
    /\ Summary(w.event.values, said[w.event.span])

Kept ==
  /\ LocksOK /\ Summed
  /\ \A t \in Threads : StopOK(op[t])
  /\ \A i \in DOMAIN log : log[i].op = "STOP" => Summary(log[i].values, said[log[i].span])

\* Nobody records on a span that is being closed, or was.
LEMMA NoLateRecord ==
  ASSUME Inv, LocksOK, NEW s \in Spans, StoppedFor(s) \/ \E t \in Threads : Closes(t, s)
  PROVE  \A t \in Threads : s \notin held[t] /\ ~(op[t].pc = "recording" /\ op[t].span = s)
<1>1. \A t \in Threads : s \notin held[t]
  <2>1. CASE state[s] = "removed"
    BY <2>1 DEF Inv, Registry
  <2>2. ASSUME NEW t \in Threads, Closes(t, s) PROVE \A u \in Threads : s \notin held[u]
    BY <2>2 DEF Inv, Unreferenced
  <2> QED
    BY <2>1, <2>2 DEF StoppedFor, Closes
<1> QED
  BY <1>1 DEF LocksOK

\* What a span that nobody records on was told is what its values summarise.
LEMMA Settled ==
  ASSUME TypeOK, Kept, NEW s \in Spans, writer[s] = None
  PROVE  Summary(deferred[s], said[s])
<1>1. PICK done \in Seq(Value) : said[s] = done \o <<>> /\ Summary(deferred[s], done)
  BY DEF Kept, Summed, Todo
<1>2. done \o <<>> = done
  BY ConcatEmptySeq
<1> QED
  BY <1>1, <1>2

\* A step of threads that do not record, and do not start to.
LEMMA KeptMove ==
  ASSUME Inv, TypeOK, Kept, UNCHANGED <<writer, deferred, said>>,
         \A u \in Threads : op'[u] = op[u] \/
           (op[u].pc # "recording" /\ op'[u].pc # "recording" /\ StopOK(op'[u])),
         \A u \in Threads : op[u].pc = "recording" => held[u] \subseteq held'[u],
         log' = log \/ \E u \in Threads : Writes(u) /\ log' = Append(log, op[u].event)
  PROVE  Kept'
<1>1. \A s \in Spans : writer[s] # None => writer[s] \in Threads
  BY DEF TypeOK
<1>2. LocksOK'
  BY <1>1 DEF Kept, LocksOK, TypeOK
<1>3. \A s \in Spans : Todo(s)' = Todo(s)
  BY <1>1 DEF Kept, LocksOK, Todo
<1>4. Summed'
  BY <1>3 DEF Kept, Summed
<1>5. \A t \in Threads : StopOK(op[t])'
  BY DEF Kept, StopOK
<1>6. ASSUME NEW i \in DOMAIN log', log'[i].op = "STOP"
      PROVE  Summary(log'[i].values, said'[log'[i].span])
  <2>1. CASE log' = log
    BY <1>6, <2>1 DEF Kept
  <2>2. ASSUME NEW u \in Threads, Writes(u), log' = Append(log, op[u].event)
        PROVE  Summary(log'[i].values, said'[log'[i].span])
    <3>1. PICK S : log \in Seq(S)
      BY DEF Inv, Types
    <3>2. (i \in DOMAIN log /\ log'[i] = log[i]) \/ log'[i] = op[u].event
      BY <2>2, <3>1, <1>6
    <3> QED
      BY <1>6, <2>2, <3>2 DEF Kept, StopOK, Writes
  <2> QED
    BY <2>1, <2>2
<1> QED
  BY <1>2, <1>4, <1>5, <1>6 DEF Kept

\* One step along a sequence.
LEMMA MoveOne ==
  ASSUME NEW S, NEW done \in Seq(S), NEW todo \in Seq(S), todo # <<>>
  PROVE  Append(done, Head(todo)) \o Tail(todo) = done \o todo
<1>0. PICK m \in Nat : Len(todo) = m + 1
  <2>1. Len(todo) - 1 \in Nat /\ Len(todo) = (Len(todo) - 1) + 1
    OBVIOUS
  <2> QED
    BY <2>1, Zenon
<1>1. PICK n \in Nat : n = Len(done) /\ Len(todo) = m + 1
  BY <1>0
<1>2. /\ Append(done, Head(todo)) \in Seq(S) /\ Tail(todo) \in Seq(S)
      /\ Len(Append(done, Head(todo))) = n + 1 /\ Len(Tail(todo)) = m
      /\ \A i \in 1..n : Append(done, Head(todo))[i] = done[i]
      /\ Append(done, Head(todo))[n + 1] = todo[1]
      /\ \A i \in 1..m : Tail(todo)[i] = todo[i + 1]
  BY <1>1
<1> DEFINE a == Append(done, Head(todo))
           b == Tail(todo)
<1> HIDE DEF a, b
<1>3. /\ a \o b \in Seq(S) /\ done \o todo \in Seq(S)
      /\ Len(a \o b) = n + 1 + m /\ Len(done \o todo) = n + 1 + m
  BY <1>1, <1>2 DEF a, b
<1>4. ASSUME NEW i \in 1..n + 1 + m PROVE (a \o b)[i] = (done \o todo)[i]
  <2>0. i <= n \/ i = n + 1 \/ i > n + 1
    OBVIOUS
  <2>1. a \in Seq(S) /\ b \in Seq(S) /\ Len(a) = n + 1 /\ Len(b) = m
    BY <1>2 DEF a, b
  <2>2. (a \o b)[i] = IF i <= n + 1 THEN a[i] ELSE b[i - (n + 1)]
    BY <1>1, <2>1
  <2>3. (done \o todo)[i] = IF i <= n THEN done[i] ELSE todo[i - n]
    BY <1>1
  <2>4. CASE i <= n
    BY <1>2, <2>2, <2>3, <2>4 DEF a
  <2>5. CASE i = n + 1
    BY <1>2, <2>2, <2>3, <2>5 DEF a
  <2>6. CASE i > n + 1
    <3>1. PICK k \in 1..m : k = i - (n + 1)
      BY <2>6
    <3>2. k + 1 = i - n /\ b[k] = todo[k + 1]
      BY <1>2, <2>6, <3>1 DEF b
    <3> QED
      BY <2>2, <2>3, <2>6, <3>1, <3>2
  <2> QED
    BY <2>0, <2>4, <2>5, <2>6
<1> QED
  BY <1>3, <1>4, SeqEqual DEF a, b

\* The thread goes on with what is left of its call.
LEMMA Advance ==
  ASSUME NEW r, NEW s, NEW todo, NEW rest, r = [pc |-> "recording", span |-> s, todo |-> todo]
  PROVE  [r EXCEPT !.todo = rest] = [pc |-> "recording", span |-> s, todo |-> rest]
  OBVIOUS

\* RecordBegin hands the call over, RecordField moves it into the values
\* field by field, RecordEnd finds nothing left to do.
LEMMA KeptRecord ==
  ASSUME Inv, TypeOK, Kept, NEW t \in Threads,
         RecordField(t) \/ RecordEnd(t)
           \/ (\E s \in Spans, call \in Calls : RecordBegin(t, s, call))
  PROVE  Kept'
<1>0. /\ OpOK(op[t]) /\ deferred \in [Spans -> Seq(Value)] /\ said \in [Spans -> Seq(Value)]
      /\ writer \in [Spans -> Threads \cup {None}] /\ op = [u \in Threads |-> op[u]]
  BY TypeParts DEF TypeOK, Inv, Types
<1>1. /\ None \notin Threads /\ LocksOK
      /\ \A u \in Threads : op[u].pc = "recording" => op[u].span \in Spans
      /\ \A x \in Spans : writer[x] \in Threads \cup {None}
  BY TypeParts, OpKinds, SpanAssumption DEF SpanAssumption, TypeOK, Kept
\* Threads whose STOP is pending, and STOPs in the log, are about other spans.
<1>2. ASSUME NEW s \in Spans, s \in held[t]
      PROVE  /\ \A u \in Threads : op[u].pc \in {"ready", "writing"} /\ op[u].event.op = "STOP"
                                   => op[u].event.span \in Spans \ {s}
             /\ \A i \in DOMAIN log : log[i].op = "STOP" => log[i].span \in Spans \ {s}
  <2>1. ~StoppedFor(s) /\ \A u \in Threads : ~Closes(u, s)
    BY <1>1, <1>2, NoLateRecord
  <2> QED
    BY <2>1 DEF Inv, Pending, Writes, EventOK, Closes, Logged
<1>3. ASSUME NEW s \in Spans, s \in held[t], UNCHANGED <<held, log>>,
             \A u \in Threads \ {t} : op'[u] = op[u],
             op'[t].pc \notin {"ready", "writing"},
             \A x \in Spans \ {s} : deferred'[x] = deferred[x] /\ said'[x] = said[x]
      PROVE  /\ \A u \in Threads : StopOK(op[u])'
             /\ \A i \in DOMAIN log : log[i].op = "STOP" => Summary(log[i].values, said'[log[i].span])
  <2>1. ASSUME NEW u \in Threads PROVE StopOK(op[u])'
    BY <1>2, <1>3 DEF Kept, StopOK
  <2> QED
    BY <1>2, <1>3, <2>1 DEF Kept
<1>4. ASSUME NEW s \in Spans, NEW call \in Calls, RecordBegin(t, s, call) PROVE Kept'
  <2>1. /\ op[t].pc = "idle" /\ s \in held[t] /\ writer[s] = None
        /\ writer' = [writer EXCEPT ![s] = t] /\ said' = [said EXCEPT ![s] = @ \o call]
        /\ op' = [op EXCEPT ![t] = [pc |-> "recording", span |-> s, todo |-> call]]
        /\ UNCHANGED <<held, log, deferred>> /\ call \in Seq(Value)
    BY <1>4, CallType DEF RecordBegin, Free, Idle, CanWrite, Goto, registry, exts
  <2>2. /\ op'[t].pc = "recording" /\ op'[t].span = s /\ op'[t].todo = call
        /\ \A u \in Threads \ {t} : op'[u] = op[u]
        /\ writer'[s] = t /\ \A x \in Spans \ {s} : writer'[x] = writer[x] /\ said'[x] = said[x]
        /\ said'[s] = said[s] \o call
    BY <1>0, <1>1, <2>1
  <2>3. LocksOK'
    BY <1>1, <2>1, <2>2 DEF LocksOK
  <2>4. ASSUME NEW x \in Spans
        PROVE  \E done \in Seq(Value) : said'[x] = done \o Todo(x)' /\ Summary(deferred'[x], done)
    <3>1. PICK done \in Seq(Value) : said[x] = done \o Todo(x) /\ Summary(deferred[x], done)
      BY DEF Kept, Summed
    <3>2. CASE x = s
      <4>1. said[x] = done \o <<>> /\ Todo(x)' = call
        BY <1>1, <2>1, <2>2, <3>1, <3>2 DEF Todo
      <4>2. said'[x] = done \o call
        BY <2>2, <3>2, <4>1, ConcatEmptySeq
      <4> QED
        BY <2>1, <3>1, <4>1, <4>2
    <3>3. CASE x # s
      <4>1. writer[x] # t
        BY <1>1, <2>1 DEF LocksOK
      <4>2. Todo(x)' = Todo(x)
        BY <1>1, <2>2, <3>3, <4>1 DEF Todo
      <4> QED
        BY <2>1, <2>2, <3>1, <3>3, <4>2
    <3> QED
      BY <3>2, <3>3
  <2> QED
    BY <1>3, <2>1, <2>2, <2>3, <2>4 DEF Kept, Summed
<1>5. CASE RecordEnd(t)
  <2> DEFINE s == op[t].span
  <2>1. /\ op[t].pc = "recording" /\ s \in Spans /\ op[t].todo = <<>> /\ s \in held[t] /\ writer[s] = t
        /\ writer' = [writer EXCEPT ![s] = None] /\ op' = [op EXCEPT ![t] = Idle]
        /\ UNCHANGED <<held, log, deferred, said>>
    BY <1>0, <1>1, <1>5, OpKinds DEF RecordEnd, Goto, registry, exts, LocksOK
  <2>2. /\ op'[t].pc = "idle" /\ \A u \in Threads \ {t} : op'[u] = op[u]
        /\ writer'[s] = None /\ \A x \in Spans \ {s} : writer'[x] = writer[x]
    BY <1>0, <1>1, <2>1 DEF Idle
  <2>3. ASSUME NEW x \in Spans, x # s PROVE writer[x] # t
    BY <1>1, <2>1, <2>3 DEF LocksOK
  <2>4. LocksOK'
    BY <1>1, <2>1, <2>2, <2>3 DEF LocksOK
  <2>5. \A x \in Spans : Todo(x)' = Todo(x)
    BY <1>1, <2>1, <2>2, <2>3 DEF Todo
  <2>6. Summed'
    BY <2>1, <2>5 DEF Kept, Summed
  <2> QED
    BY <1>3, <2>1, <2>2, <2>4, <2>6 DEF Kept
<1>6. CASE RecordField(t)
  <2>1. PICK s \in Spans, todo \in Seq(Value) :
          op[t] = [pc |-> "recording", span |-> s, todo |-> todo]
    BY <1>0, <1>6, OpKinds DEF RecordField
  <2> DEFINE e == Head(todo)
  <2>2. /\ op[t].pc = "recording" /\ op[t].span = s /\ op[t].todo = todo /\ todo # <<>>
        /\ s \in held[t] /\ writer[s] = t
        /\ deferred' = [deferred EXCEPT ![s] = update(@, e)]
        /\ op' = [op EXCEPT ![t] = [op[t] EXCEPT !.todo = Tail(todo)]]
        /\ UNCHANGED <<held, log, writer, said>>
    BY <1>1, <1>6, <2>1 DEF RecordField, registry, locks, LocksOK
  <2>3. [op[t] EXCEPT !.todo = Tail(todo)] = [pc |-> "recording", span |-> s, todo |-> Tail(todo)]
    <3>1. PICK rest : rest = Tail(todo)
      OBVIOUS
    <3>2. PICK r : r = op[t]
      OBVIOUS
    <3>3. r = [pc |-> "recording", span |-> s, todo |-> todo]
      BY <2>1, <3>2
    <3>4. [r EXCEPT !.todo = rest] = [pc |-> "recording", span |-> s, todo |-> rest]
      BY <3>3, Advance
    <3> QED
      BY <3>1, <3>2, <3>4
  <2>4. /\ op'[t].pc = "recording" /\ op'[t].span = s /\ op'[t].todo = Tail(todo)
        /\ \A u \in Threads \ {t} : op'[u] = op[u]
        /\ deferred'[s] = update(deferred[s], e)
        /\ \A x \in Spans \ {s} : deferred'[x] = deferred[x]
    BY <1>0, <2>2, <2>3
  <2>5. LocksOK'
    BY <1>1, <2>2, <2>4 DEF LocksOK
  <2>6. ASSUME NEW x \in Spans
        PROVE  \E done \in Seq(Value) : said'[x] = done \o Todo(x)' /\ Summary(deferred'[x], done)
    <3>1. PICK done \in Seq(Value) : said[x] = done \o Todo(x) /\ Summary(deferred[x], done)
      BY DEF Kept, Summed
    <3>2. CASE x = s
      <4>1. Todo(x) = todo /\ Todo(x)' = Tail(todo)
        BY <1>1, <2>2, <2>4, <3>2 DEF Todo
      <4>2. e \in Value /\ Append(done, e) \in Seq(Value) /\ deferred[x] \in Seq(Value)
        BY <1>0, <2>2
      <4>3. said'[x] = Append(done, e) \o Tail(todo)
        BY <2>2, <3>1, <4>1, MoveOne
      <4>4. Summary(deferred'[x], Append(done, e))
        BY <2>4, <3>1, <3>2, <4>2, SummaryGrows
      <4> QED
        BY <4>1, <4>2, <4>3, <4>4
    <3>3. CASE x # s
      <4>1. writer[x] # t
        BY <1>1, <2>2, <3>3 DEF LocksOK
      <4>2. Todo(x)' = Todo(x)
        BY <1>1, <2>2, <2>4, <4>1 DEF Todo
      <4> QED
        BY <2>2, <2>4, <3>1, <3>3, <4>2
    <3> QED
      BY <3>2, <3>3
  <2> QED
    BY <1>3, <2>2, <2>4, <2>5, <2>6 DEF Kept, Summed
<1> QED
  BY <1>4, <1>5, <1>6

\* KeptMove, of one thread.
LEMMA KeptOne ==
  ASSUME Inv, TypeOK, Kept, UNCHANGED <<writer, deferred, said>>,
         NEW t \in Threads, NEW w, op' = [op EXCEPT ![t] = w],
         op[t].pc # "recording", w.pc # "recording", StopOK(w),
         \A u \in Threads \ {t} : held[u] \subseteq held'[u],
         log' = log \/ (Writes(t) /\ log' = Append(log, op[t].event))
  PROVE  Kept'
<1>1. op'[t] = w /\ \A u \in Threads \ {t} : op'[u] = op[u]
  BY DEF Inv, Types
<1>2. \A u \in Threads : op'[u] = op[u] \/
           (op[u].pc # "recording" /\ op'[u].pc # "recording" /\ StopOK(op'[u]))
  BY <1>1
<1>3. \A u \in Threads : op[u].pc = "recording" => held[u] \subseteq held'[u]
  OBVIOUS
<1> QED
  BY <1>2, <1>3, KeptMove

\* The places a thread is at without an event.
LEMMA Quietly ==
  /\ Idle.pc = "idle" /\ Panicked.pc = "panicked"
  /\ \A s : At("new", s).pc = "new" /\ At("closing", s).pc = "closing" /\ At("removing", s).pc = "removing"
  /\ \A e : Ready(e).pc = "ready" /\ Ready(e).event = e
BY DEF Idle, Panicked, At, Ready

\* Who holds a lock keeps its handle while the registry moves others.
LEMMA KeptRegistry ==
  ASSUME Inv, TypeOK, Kept,
         \/ UNCHANGED vars \/ Toggle \/ Attach
         \/ \E t \in Threads : \/ Clear(t) \/ CloseUnseen(t) \/ Exit(t)
                               \/ \E s \in Spans : \/ Enter(t, s) \/ DropHandle(t, s)
                                                   \/ \E u \in Threads : Share(t, u, s)
                               \/ \E p \in SpanOrNone, sight \in {"visible", "hidden", "early"} :
                                    NewSpan(t, p, sight)
  PROVE  Kept'
<1>1. ASSUME UNCHANGED <<op, writer, deferred, said, log>>,
             \A u \in Threads : held[u] \subseteq held'[u]
      PROVE  Kept'
  BY <1>1, KeptMove
<1>2. held \in [Threads -> SUBSET Spans]
  BY DEF TypeOK
<1>3. CASE UNCHANGED vars \/ Toggle \/ Attach
  BY <1>1, <1>3 DEF vars, Toggle, Attach, registry, locks, exts, sessions
<1>4. ASSUME NEW t \in Threads, NEW s,
             Exit(t) \/ Enter(t, s) \/ \E u \in Threads : Share(t, u, s)
      PROVE  Kept'
  <2>1. \A u \in Threads : held[u] \subseteq held'[u]
    BY <1>2, <1>4 DEF Exit, Enter, Share
  <2>2. UNCHANGED <<op, writer, deferred, said, log>>
    BY <1>4 DEF Exit, Enter, Share, locks, exts
  <2> QED
    BY <1>1, <2>1, <2>2
<1>5. ASSUME NEW t \in Threads, NEW p \in SpanOrNone, NEW sight \in {"visible", "hidden", "early"},
             NewSpan(t, p, sight)
      PROVE  Kept'
  <2>1. PICK s : /\ op' = op \/ op' = [op EXCEPT ![t] = At("new", s)]
                 /\ held' = [held EXCEPT ![t] = @ \cup {s}]
    BY <1>5 DEF NewSpan, Goto
  <2>2. UNCHANGED <<writer, deferred, said, log>> /\ op[t].pc = "idle"
    BY <1>5, Quietly DEF NewSpan, locks, exts, Free
  <2>3. \A u \in Threads : held[u] \subseteq held'[u]
    BY <1>2, <2>1
  <2>4. CASE op' = [op EXCEPT ![t] = At("new", s)]
    BY <2>2, <2>3, <2>4, Quietly, KeptOne DEF StopOK
  <2> QED
    BY <1>1, <2>1, <2>2, <2>3, <2>4
<1>6. ASSUME NEW t \in Threads, NEW s \in Spans, DropHandle(t, s) PROVE Kept'
  <2>1. PICK w \in {Idle, At("closing", s)} : op' = [op EXCEPT ![t] = w]
    BY <1>6 DEF DropHandle, GiveUp, Goto
  <2>2. UNCHANGED <<writer, deferred, said, log>> /\ op[t].pc = "idle"
    BY <1>6, Quietly DEF DropHandle, locks, exts, Free
  <2>3. \A u \in Threads \ {t} : held[u] \subseteq held'[u]
    BY <1>2, <1>6 DEF DropHandle
  <2> QED
    BY <2>1, <2>2, <2>3, Quietly, KeptOne DEF StopOK
<1>7. ASSUME NEW t \in Threads, Clear(t) \/ CloseUnseen(t) PROVE Kept'
  <2>1. PICK s, w : /\ w \in {Idle, At("closing", s), At("removing", s)}
                    /\ op' = [op EXCEPT ![t] = w]
    <3>1. CASE Clear(t)
      BY <1>7, <3>1 DEF Clear, GiveUp, Goto
    <3>2. CASE CloseUnseen(t)
      BY <1>7, <3>2 DEF CloseUnseen, Goto
    <3> QED
      BY <1>7, <3>1, <3>2
  <2>2. UNCHANGED <<writer, deferred, said, log, held>> /\ op[t].pc \in {"closing", "removing"}
    BY <1>7, Quietly DEF Clear, CloseUnseen, registry, locks, exts
  <2> QED
    BY <2>1, <2>2, Quietly, KeptOne DEF StopOK
<1>8. ASSUME NEW t \in Threads, Exit(t) PROVE Kept'
  BY <1>4, <1>8
<1> QED
  BY <1>3, <1>4, <1>5, <1>6, <1>7, <1>8

\* on_close reads the values when nobody records on the span any more.
LEMMA KeptEvent ==
  ASSUME Inv, TypeOK, Kept, NEW t \in Threads,
         \/ on_close(t) \/ Skip(t) \/ Build(t) \/ Write(t)
         \/ \E s \in SpanOrNone : on_event(t, s)
         \/ \E attr \in Attrs, current \in Activity : on_new_span(t, attr, current)
  PROVE  Kept'
<1>1. OpOK(op[t]) /\ StopOK(op[t])
  BY TypeParts DEF Kept
<1>2. ASSUME NEW w, op' = [op EXCEPT ![t] = w], op[t].pc # "recording", w.pc # "recording", StopOK(w),
             UNCHANGED <<held, writer, deferred, said>>,
             log' = log \/ (Writes(t) /\ log' = Append(log, op[t].event))
      PROVE  Kept'
  BY <1>2, KeptOne
<1>3. ASSUME NEW s \in SpanOrNone, on_event(t, s) PROVE Kept'
  <2>1. PICK e : e = Event("INFO", s, ExtensionOf(s), None, <<>>) /\ op' = [op EXCEPT ![t] = Ready(e)]
    BY <1>3 DEF on_event, Goto
  <2>2. e.op = "INFO"
    BY <2>1 DEF Event
  <2>3. UNCHANGED <<held, writer, deferred, said, log>> /\ op[t].pc = "idle"
    BY <1>3, Quietly DEF on_event, Free, registry, locks, exts
  <2> QED
    BY <1>2, <2>1, <2>2, <2>3, Quietly DEF StopOK
<1>4. ASSUME NEW attr \in Attrs, NEW current \in Activity, on_new_span(t, attr, current) PROVE Kept'
  <2>1. PICK e : e.op = "START" /\ (op' = [op EXCEPT ![t] = Panicked] \/ op' = [op EXCEPT ![t] = Ready(e)])
    BY <1>4 DEF on_new_span, Goto, Event
  <2>2. UNCHANGED <<held, writer, deferred, said, log>> /\ op[t].pc = "new"
    BY <1>4 DEF on_new_span, registry, locks
  <2>3. StopOK(Panicked) /\ StopOK(Ready(e))
    BY <2>1, Quietly DEF StopOK
  <2> QED
    BY <1>2, <2>1, <2>2, <2>3, Quietly
<1>5. CASE on_close(t)
  <2>1. PICK s \in Spans : s = op[t].span /\ op[t].pc = "closing" /\ writer[s] = None
    BY <1>1, <1>5, OpKinds DEF on_close, CanRead
  <2>2. PICK e : /\ e = Event("STOP", s, activity[s], None, deferred[s])
                 /\ op' = [op EXCEPT ![t] = Panicked] \/ op' = [op EXCEPT ![t] = Ready(e)]
    BY <1>5, <2>1 DEF on_close, Goto
  <2>3. e.op = "STOP" /\ e.span = s /\ e.values = deferred[s]
    BY <2>2 DEF Event
  <2>4. Summary(deferred[s], said[s])
    BY <2>1, Settled
  <2>5. UNCHANGED <<held, writer, deferred, said, log>>
    BY <1>5 DEF on_close, registry, exts
  <2>6. StopOK(Panicked) /\ StopOK(Ready(e))
    BY <2>3, <2>4, Quietly DEF StopOK
  <2> QED
    BY <1>2, <2>1, <2>2, <2>5, <2>6, Quietly
<1>6. ASSUME NEW e, Return(t, e), op[t].pc \in {"ready", "writing"},
             UNCHANGED <<held, writer, deferred, said>>,
             log' = log \/ (Writes(t) /\ log' = Append(log, op[t].event))
      PROVE  Kept'
  <2>1. PICK w : w \in {Idle, At("removing", e.span)} /\ op' = [op EXCEPT ![t] = w]
    BY <1>6 DEF Return, Goto
  <2> QED
    BY <1>2, <1>6, <2>1, Quietly DEF StopOK
<1>7. CASE Skip(t)
  BY <1>6, <1>7 DEF Skip, registry, exts
<1>8. CASE Write(t)
  BY <1>6, <1>8 DEF Write, Writes, registry, exts
<1>9. CASE Build(t)
  <2>1. PICK r : r = op[t] /\ r.pc = "ready" /\ StopOK(r)
    BY <1>1, <1>9 DEF Build
  <2>2. r \in [pc : {"ready", "writing"}, event : Events]
    BY <1>1, <2>1 DEF OpOK, Idle, Panicked
  <2>3. PICK w : w = [r EXCEPT !.pc = "writing"]
    OBVIOUS
  <2>4. w.pc = "writing" /\ w.event = r.event
    BY <2>2, <2>3
  <2>5. StopOK(w)
    BY <2>1, <2>4 DEF StopOK
  <2>6. UNCHANGED <<held, writer, deferred, said, log>> /\ op' = [op EXCEPT ![t] = w]
    BY <1>9, <2>1, <2>3 DEF Build, registry, locks, exts
  <2> QED
    BY <1>2, <2>1, <2>4, <2>5, <2>6
<1> QED
  BY <1>3, <1>4, <1>5, <1>7, <1>8, <1>9

\* Every step keeps the locks, the sums and the pending STOPs right.
LEMMA KeptNext == Inv /\ TypeOK /\ Kept /\ [Next]_vars => Kept'
<1> SUFFICES ASSUME Inv, TypeOK, Kept, [Next]_vars PROVE Kept'
  OBVIOUS
<1>1. CASE UNCHANGED vars \/ Toggle \/ Attach
  BY <1>1, KeptRegistry
<1>2. ASSUME NEW t \in Threads, Handler(t) PROVE Kept'
  BY <1>2, KeptRecord, KeptEvent, KeptRegistry DEF Handler
<1>3. ASSUME NEW t \in Threads, Program(t) PROVE Kept'
  BY <1>3, KeptRecord, KeptEvent, KeptRegistry DEF Program
<1> QED
  BY <1>1, <1>2, <1>3 DEF Next

\* At the start nothing is said, held or pending.
LEMMA InitKept == Init => Kept
<1> SUFFICES ASSUME Init PROVE Kept
  OBVIOUS
<1>1. \A t \in Threads : op[t].pc = "idle"
  BY Quietly DEF Init
<1>2. \A s \in Spans : writer[s] = None /\ said[s] = <<>> /\ deferred[s] = <<>>
  BY DEF Init
<1>3. <<>> \in Seq(Value) /\ <<>> \o <<>> = <<>> /\ DOMAIN log = {}
  BY DEF Init
<1>4. Summed
  BY <1>2, <1>3, SummaryOfNothing DEF Summed, Todo
<1> QED
  BY <1>1, <1>2, <1>3, <1>4 DEF Kept, LocksOK, StopOK

\* What a span was told is in its values or still to do, under its lock.
THEOREM KeptAlways == Spec => []Kept
  BY InitKept, KeptNext, InvAlways, TypeCorrect, PTL DEF Spec

\* A STOP carries every field recorded on its span once, in the order of
\* first mention, with the last value: whichever threads recorded, in calls
\* of any number of fields, up to the moment the last handle went.
THEOREM StopsSummarise == Spec => []StopSummarises
<1>1. Kept => StopSummarises
  BY DEF Kept, Summary, StopSummarises
<1> QED
  BY <1>1, KeptAlways, PTL

-----------------------------------------------------------------------------
(* START and STOP are both in the log or neither.  A span created since    *)
(* the sessions last changed has the event of a handler that has returned  *)
(* if and only if the sessions collect.                                    *)

HasEvent(kind, s) == \E i \in DOMAIN log : log[i].op = kind /\ log[i].span = s

\* Only spans that the layer sees get an activity, once.
Sights ==
  /\ \A s \in Spans :
       /\ state[s] = "unused" => seen[s] = "hidden"
       /\ activity[s] # None => seen[s] = "visible"
       /\ seen[s] = "visible" => attached
  /\ \A t \in Threads : op[t].pc = "new" => activity[op[t].span] = None

Asked(s) ==
  /\ \A t \in Threads : op[t].pc = "writing" /\ op[t].event.op # "INFO" /\ op[t].event.span = s
       => collecting
  /\ activity[s] # None =>
       /\ (\A t \in Threads : ~Starts(t, s)) => (HasEvent("START", s) <=> collecting)
       /\ StoppedFor(s) => (HasEvent("STOP", s) <=> collecting)

Pairs == Sights /\ \A s \in steady : Asked(s)

\* A step of one thread that neither begins nor ends a START or a STOP.
LEMMA PairsMove ==
  ASSUME Inv, TypeOK, Pairs, NEW t \in Threads, NEW w, op' = [op EXCEPT ![t] = w],
         UNCHANGED <<seen, attached, activity, collecting, steady, log>>,
         w.pc \notin {"new", "writing"},
         \A s \in Spans : state'[s] = "unused" => state[s] = "unused",
         \A s \in Spans : activity[s] # None => ~Starts(t, s) /\ (StoppedFor(s)' => StoppedFor(s))
  PROVE  Pairs'
<1>1. op'[t] = w /\ \A u \in Threads \ {t} : op'[u] = op[u]
  BY DEF Inv, Types
<1>2. Sights'
  BY <1>1 DEF Pairs, Sights
<1>3. ASSUME NEW s \in steady PROVE Asked(s)'
  <2>1. s \in Spans /\ Asked(s)
    BY <1>3 DEF Pairs, TypeOK
  <2>2. \A u \in Threads : op'[u].pc = "writing" => op'[u] = op[u]
    BY <1>1
  <2>3. activity[s] # None => \A u \in Threads : Starts(u, s) => Starts(u, s)'
    BY <1>1, <2>1 DEF Starts, Writes
  <2>4. \A kind : HasEvent(kind, s)' <=> HasEvent(kind, s)
    BY DEF HasEvent
  <2> QED
    BY <2>1, <2>2, <2>3, <2>4 DEF Asked
<1> QED
  BY <1>2, <1>3 DEF Pairs

\* StoppedFor is left alone by a step after which its thread is not removing.
LEMMA StillRunning ==
  ASSUME Inv, NEW t \in Threads, NEW w, op' = [op EXCEPT ![t] = w], w.pc # "removing",
         NEW s \in Spans, state'[s] = "removed" => StoppedFor(s)
  PROVE  StoppedFor(s)' => StoppedFor(s)
BY DEF StoppedFor, Inv, Types

\* The registry ends no handler of a span that the layer sees.
LEMMA PairsRegistry ==
  ASSUME Inv, TypeOK, Pairs,
         \/ UNCHANGED vars \/ Toggle \/ Attach
         \/ \E t \in Threads : \/ Exit(t) \/ Clear(t) \/ CloseUnseen(t)
                               \/ \E s \in Spans : \/ Enter(t, s) \/ DropHandle(t, s)
                                                   \/ \E u \in Threads : Share(t, u, s)
  PROVE  Pairs'
<1>1. ASSUME UNCHANGED <<state, seen, activity, op, log>>, attached => attached',
             steady' = {} \/ (UNCHANGED <<collecting, steady>>)
      PROVE  Pairs'
  <2>1. Sights'
    BY <1>1 DEF Pairs, Sights
  <2>2. ASSUME NEW s \in steady' PROVE Asked(s)'
    BY <1>1, <2>2 DEF Pairs, Asked, Starts, Writes, StoppedFor, HasEvent
  <2> QED
    BY <2>1, <2>2 DEF Pairs
<1>2. CASE UNCHANGED vars \/ Toggle \/ Attach
  BY <1>1, <1>2 DEF vars, Toggle, Attach, registry, locks, exts, sessions
<1>3. ASSUME NEW t \in Threads, NEW s, Exit(t) \/ Enter(t, s) \/ \E u \in Threads : Share(t, u, s)
      PROVE  Pairs'
  BY <1>1, <1>3 DEF Exit, Enter, Share, exts, sessions
<1>4. ASSUME NEW t \in Threads, NEW s \in Spans, DropHandle(t, s) PROVE Pairs'
  <2>1. PICK w \in {Idle, At("closing", s)} : op' = [op EXCEPT ![t] = w]
    BY <1>4 DEF DropHandle, GiveUp, Goto
  <2>2. /\ UNCHANGED <<state, seen, attached, activity, collecting, steady, log>>
        /\ op[t].pc = "idle"
    BY <1>4, Quietly DEF DropHandle, Free, exts, sessions
  <2>3. w.pc \notin {"new", "writing", "removing"}
    BY <2>1, Quietly
  <2>4. \A x \in Spans : ~Starts(t, x)
    BY <2>2 DEF Starts, Writes
  <2>5. \A x \in Spans : StoppedFor(x)' => StoppedFor(x)
    BY <2>1, <2>2, <2>3, StillRunning DEF StoppedFor
  <2> QED
    BY <2>1, <2>2, <2>3, <2>4, <2>5, PairsMove
<1>5. ASSUME NEW t \in Threads, Clear(t) PROVE Pairs'
  <2>1. PICK s \in Spans, p \in SpanOrNone :
          /\ op[t] = At("removing", s) /\ state' = [state EXCEPT ![s] = "removed"] /\ GiveUp(t, p)
          /\ UNCHANGED <<seen, attached, activity, collecting, steady, log>>
    BY <1>5 DEF Clear, exts, sessions
  <2>2. PICK w \in {Idle, At("closing", p)} : op' = [op EXCEPT ![t] = w]
    BY <2>1 DEF GiveUp, Goto
  <2>3. w.pc \notin {"new", "writing", "removing"}
    BY <2>2, Quietly
  <2>4. \A x \in Spans : ~Starts(t, x)
    BY <2>1, Quietly DEF Starts, Writes
  <2>5. \A x \in Spans : state'[x] = IF x = s THEN "removed" ELSE state[x]
    BY <2>1 DEF Inv, Types
  <2>6. StoppedFor(s)
    BY <2>1 DEF At, StoppedFor
  <2>7. \A x \in Spans : StoppedFor(x)' => StoppedFor(x)
    BY <2>2, <2>3, <2>5, <2>6, StillRunning DEF StoppedFor
  <2>8. \A x \in Spans : state'[x] = "unused" => state[x] = "unused"
    BY <2>5
  <2>9. UNCHANGED <<seen, attached, activity, collecting, steady, log>>
    BY <2>1
  <2> QED
    BY <2>2, <2>3, <2>4, <2>7, <2>8, <2>9, PairsMove
<1>6. ASSUME NEW t \in Threads, CloseUnseen(t) PROVE Pairs'
  <2>1. PICK s \in Spans : /\ op[t] = At("closing", s) /\ ~Sees(s)
                           /\ op' = [op EXCEPT ![t] = At("removing", s)]
                           /\ UNCHANGED <<state, seen, attached, activity, collecting, steady, log>>
    BY <1>6 DEF CloseUnseen, Goto, registry, exts, sessions
  <2>2. activity[s] = None
    BY <2>1 DEF Pairs, Sights, Sees
  <2>3. \A x \in Spans : ~Starts(t, x)
    BY <2>1, Quietly DEF Starts, Writes
  <2>4. \A x \in Spans \ {s} : StoppedFor(x)' => StoppedFor(x)
    BY <2>1 DEF StoppedFor, Inv, Types, At
  <2> QED
    BY <2>1, <2>2, <2>3, <2>4, Quietly, PairsMove
<1>7. ASSUME NEW t \in Threads, Exit(t) PROVE Pairs'
  BY <1>3, <1>7
<1> QED
  BY <1>2, <1>3, <1>4, <1>5, <1>6, <1>7

\* A new span has no events yet.
LEMMA PairsNewSpan ==
  ASSUME Inv, TypeOK, Pairs, NEW t \in Threads, NEW p \in SpanOrNone,
         NEW sight \in {"visible", "hidden", "early"}, NewSpan(t, p, sight)
  PROVE  Pairs'
<1>1. PICK s \in Spans :
        /\ state[s] = "unused" /\ op[t].pc = "idle"
        /\ state' = [state EXCEPT ![s] = "alive"] /\ seen' = [seen EXCEPT ![s] = sight]
        /\ steady' = steady \cup {s} /\ (op' = op \/ op' = [op EXCEPT ![t] = At("new", s)])
        /\ UNCHANGED <<attached, activity, collecting, log>>
  <2> DEFINE s == CHOOSE x \in Unused : TRUE
  <2>1. s \in Unused
    BY DEF NewSpan
  <2>2. s \in Spans /\ state[s] = "unused"
    BY <2>1 DEF Unused
  <2> HIDE DEF s
  <2> QED
    BY <2>2, Quietly DEF NewSpan, Free, Goto, exts, s
<1>2. sight = "visible" => attached
  BY DEF NewSpan
<1>3. /\ state'[s] = "alive" /\ \A x \in Spans \ {s} : state'[x] = state[x]
      /\ seen'[s] = sight /\ \A x \in Spans \ {s} : seen'[x] = seen[x]
      /\ op'[t] \in {op[t], At("new", s)} /\ \A u \in Threads \ {t} : op'[u] = op[u]
  BY <1>1 DEF Inv, Types
<1>4. activity[s] = None
  BY <1>1 DEF Pairs, Sights
<1>5. Sights'
  BY <1>1, <1>2, <1>3, <1>4, Quietly DEF Pairs, Sights, At
\* Nobody writes an event of a span that is not created.
<1>6. ASSUME NEW u \in Threads, op[u].pc = "writing", op[u].event.op # "INFO"
      PROVE  op[u].event.span # s
  <2>1. op[u].event.op \in {"START", "STOP"} /\ op[u].event.span \in Spans
    BY <1>6 DEF Inv, Pending, Writes, EventOK
  <2> QED
    BY <1>1, <1>6, <2>1 DEF Inv, Starts, Closes, Writes, Alone, Registry, Unreferenced
<1>7. \A u \in Threads : op'[u].pc = "writing" => op'[u] = op[u]
  BY <1>3, Quietly
<1>8. ASSUME NEW x \in steady, x # s PROVE Asked(x)'
  <2>1. x \in Spans /\ Asked(x)
    BY <1>8 DEF Pairs, TypeOK
  <2>2. \A u \in Threads : Starts(u, x) => Starts(u, x)'
    BY <1>1, <1>3 DEF Starts, Writes
  <2>3. StoppedFor(x)' => StoppedFor(x)
    BY <1>3, <1>8, <2>1, Quietly DEF StoppedFor
  <2>4. \A kind : HasEvent(kind, x)' <=> HasEvent(kind, x)
    BY <1>1 DEF HasEvent
  <2> QED
    BY <1>1, <1>7, <2>1, <2>2, <2>3, <2>4 DEF Asked
<1>9. Asked(s)'
  BY <1>1, <1>4, <1>6, <1>7 DEF Asked
<1> QED
  BY <1>1, <1>5, <1>8, <1>9 DEF Pairs

\* on_event, on_record and the beginning of on_close write nothing.
LEMMA PairsHandlers ==
  ASSUME Inv, TypeOK, Pairs, NEW t \in Threads,
         \/ on_close(t) \/ RecordField(t) \/ RecordEnd(t)
         \/ \E s \in Spans, call \in Calls : RecordBegin(t, s, call)
         \/ \E s \in SpanOrNone : on_event(t, s)
  PROVE  Pairs'
<1>1. ASSUME NEW w, op' = [op EXCEPT ![t] = w], op[t].pc \in {"idle", "recording", "closing"},
             w.pc \in {"idle", "panicked", "recording", "ready"},
             UNCHANGED registry, UNCHANGED activity, UNCHANGED sessions, UNCHANGED log
      PROVE  Pairs'
  <2>1. UNCHANGED <<state, seen, attached, activity, collecting, steady, log>>
    BY <1>1 DEF registry, sessions
  <2>2. \A x \in Spans : ~Starts(t, x)
    BY <1>1 DEF Starts, Writes
  <2>3. \A x \in Spans : StoppedFor(x)' => StoppedFor(x)
    BY <1>1, <2>1, StillRunning DEF StoppedFor
  <2> QED
    BY <1>1, <2>1, <2>2, <2>3, PairsMove
<1>2. CASE on_close(t)
  <2>1. PICK w : op' = [op EXCEPT ![t] = w] /\ w.pc \in {"panicked", "ready"}
    BY <1>2, Quietly DEF on_close, Goto
  <2> QED
    BY <1>1, <1>2, <2>1 DEF on_close, exts
<1>3. CASE RecordField(t)
  <2>1. PICK r : r = op[t]
    OBVIOUS
  <2>2. r.pc = "recording" /\ r = [pc |-> r.pc, span |-> r.span, todo |-> r.todo]
    BY <1>3, <2>1 DEF RecordField, Inv, Shape
  <2>3. PICK w : w = [r EXCEPT !.todo = Tail(@)]
    OBVIOUS
  <2>4. w.pc = "recording"
    BY <2>2, <2>3
  <2>5. op' = [op EXCEPT ![t] = w]
    BY <1>3, <2>1, <2>3 DEF RecordField
  <2> QED
    BY <1>1, <1>3, <2>1, <2>2, <2>4, <2>5 DEF RecordField
<1>4. CASE RecordEnd(t)
  BY <1>1, <1>4, Quietly DEF RecordEnd, Goto, exts
<1>5. ASSUME NEW s \in Spans, NEW call \in Calls, RecordBegin(t, s, call) PROVE Pairs'
  <2>1. op' = [op EXCEPT ![t] = [pc |-> "recording", span |-> s, todo |-> call]]
    BY <1>5 DEF RecordBegin, Goto
  <2> QED
    BY <1>1, <1>5, <2>1, Quietly DEF RecordBegin, Free, exts
<1>6. ASSUME NEW s \in SpanOrNone, on_event(t, s) PROVE Pairs'
  <2>1. PICK e : op' = [op EXCEPT ![t] = Ready(e)]
    BY <1>6 DEF on_event, Goto
  <2> QED
    BY <1>1, <1>6, <2>1, Quietly DEF on_event, Free, exts
<1> QED
  BY <1>2, <1>3, <1>4, <1>5, <1>6

\* on_new_span: the span has an activity now, and its START is pending.
LEMMA PairsNewHandler ==
  ASSUME Inv, TypeOK, Pairs, NEW t \in Threads, NEW attr \in Attrs, NEW current \in Activity,
         on_new_span(t, attr, current)
  PROVE  Pairs'
<1>1. PICK s \in Spans : op[t].pc = "new" /\ op[t].span = s /\ Starts(t, s)
  BY DEF on_new_span, Inv, Shape, Starts
<1>2. /\ activity[s] = None /\ Alone(t, s) /\ seen[s] = "visible"
      /\ UNCHANGED <<state, seen, attached, collecting, steady, log>>
  BY <1>1 DEF on_new_span, Inv, Alone, Pairs, Sights, registry, sessions
<1>3. CASE Hidden(parent[s])
  <2>1. op' = [op EXCEPT ![t] = Panicked] /\ activity' = activity
    BY <1>1, <1>3 DEF on_new_span, Goto
  <2>2. \A x \in Spans \ {s} : ~Starts(t, x)
    BY <1>1 DEF Starts, Writes
  <2>3. \A x \in Spans : StoppedFor(x)' => StoppedFor(x)
    BY <1>2, <2>1, Quietly, StillRunning DEF StoppedFor
  <2> QED
    BY <1>2, <2>1, <2>2, <2>3, Quietly, PairsMove
<1>4. CASE ~Hidden(parent[s])
  <2>1. PICK e : /\ e.op = "START" /\ e.span = s /\ op' = [op EXCEPT ![t] = Ready(e)]
                 /\ activity' = [activity EXCEPT ![s] = ActivityFor(attr, current)]
    BY <1>1, <1>4 DEF on_new_span, Goto, Event
  <2>2. /\ op'[t] = Ready(e) /\ \A u \in Threads \ {t} : op'[u] = op[u]
        /\ \A x \in Spans \ {s} : activity'[x] = activity[x]
    BY <2>1 DEF Inv, Types
  <2>3. ASSUME NEW u \in Threads, op[u].pc = "new", op[u].span = s PROVE u = t
    BY <1>2, <2>3 DEF Inv, Starts, Alone
  <2>4. \A u \in Threads : op[u].pc = "new" => op[u].span \in Spans
    BY DEF Inv, Shape
  <2>5. Sights'
    BY <1>2, <2>2, <2>3, <2>4, Quietly DEF Pairs, Sights
  <2>6. Starts(t, s)' /\ \A x \in Spans \ {s} : ~Starts(t, x)
    BY <1>1, <2>1, <2>2, Quietly DEF Starts, Writes
  <2>7. \A u \in Threads : op'[u].pc = "writing" => op'[u] = op[u]
    BY <2>2, Quietly
  <2>8. \A x \in Spans : StoppedFor(x)' => StoppedFor(x)
    BY <1>2, <2>1, Quietly, StillRunning DEF StoppedFor
  <2>9. ~StoppedFor(s)
    BY <1>2 DEF StoppedFor, Alone, Inv, Registry, Closes, Unreferenced
  <2>10. ASSUME NEW x \in steady PROVE Asked(x)'
    <3>1. x \in Spans /\ Asked(x)
      BY <2>10 DEF Pairs, TypeOK
    <3>2. \A kind : HasEvent(kind, x)' <=> HasEvent(kind, x)
      BY <1>2 DEF HasEvent
    <3>3. \A u \in Threads : op'[u].pc = "writing" /\ op'[u].event.op # "INFO" /\ op'[u].event.span = x
            => collecting'
      BY <1>2, <2>7, <3>1 DEF Asked
    <3>4. CASE x = s
      BY <2>6, <2>8, <2>9, <3>1, <3>3, <3>4 DEF Asked
    <3>5. CASE x # s
      <4>1. \A u \in Threads : Starts(u, x) => Starts(u, x)'
        BY <2>2, <2>6, <3>1, <3>5 DEF Starts, Writes
      <4> QED
        BY <1>2, <2>2, <2>8, <3>1, <3>2, <3>3, <3>5, <4>1 DEF Asked
    <3> QED
      BY <3>4, <3>5
  <2> QED
    BY <1>2, <2>5, <2>10 DEF Pairs
<1> QED
  BY <1>3, <1>4

\* An event is built while the sessions collect.
LEMMA PairsBuild ==
  ASSUME Inv, TypeOK, Pairs, NEW t \in Threads, Build(t)
  PROVE  Pairs'
<1>1. PICK r : r = op[t] /\ r.pc = "ready" /\ r = [pc |-> r.pc, event |-> r.event]
  BY DEF Build, Inv, Shape
<1>2. PICK w : w = [r EXCEPT !.pc = "writing"]
  OBVIOUS
<1>3. w.pc = "writing" /\ w.event = r.event
  BY <1>1, <1>2
<1>4. /\ op' = [op EXCEPT ![t] = w] /\ collecting
      /\ UNCHANGED <<state, seen, attached, activity, collecting, steady, log>>
  BY <1>1, <1>2 DEF Build, registry, exts, sessions
<1>5. op'[t] = w /\ \A u \in Threads \ {t} : op'[u] = op[u]
  BY <1>4 DEF Inv, Types
<1>6. Sights'
  BY <1>3, <1>4, <1>5 DEF Pairs, Sights
<1>7. ASSUME NEW x \in steady PROVE Asked(x)'
  <2>1. \A u \in Threads : Starts(u, x) => Starts(u, x)'
    BY <1>1, <1>3, <1>5 DEF Starts, Writes
  <2>2. x \in Spans /\ Asked(x)
    BY <1>7 DEF Pairs, TypeOK
  <2>3. StoppedFor(x)' => StoppedFor(x)
    BY <1>3, <1>4, <2>2, StillRunning DEF StoppedFor
  <2>4. \A kind : HasEvent(kind, x)' <=> HasEvent(kind, x)
    BY <1>4 DEF HasEvent
  <2> QED
    BY <1>4, <2>1, <2>2, <2>3, <2>4 DEF Asked
<1> QED
  BY <1>4, <1>6, <1>7 DEF Pairs

\* A handler returns, having asked: its event is in the log or is not.
LEMMA PairsReturn ==
  ASSUME Inv, TypeOK, Pairs, NEW t \in Threads, Skip(t) \/ Write(t)
  PROVE  Pairs'
<1>1. PICK e : /\ e = op[t].event /\ Writes(t) /\ EventOK(e) /\ Return(t, e)
               /\ UNCHANGED <<state, seen, attached, activity, collecting, steady>>
  BY DEF Skip, Write, Writes, Inv, Pending, registry, exts, sessions
<1>2. \/ op[t].pc = "ready" /\ ~collecting /\ log' = log
      \/ op[t].pc = "writing" /\ log' = Append(log, e)
  BY <1>1 DEF Skip, Write
<1>3. PICK w : /\ op' = [op EXCEPT ![t] = w] /\ w.pc \in {"idle", "removing"}
               /\ w = IF e.op = "STOP" THEN At("removing", e.span) ELSE Idle
  BY <1>1, Quietly DEF Return, Goto
<1>4. op'[t] = w /\ \A u \in Threads \ {t} : op'[u] = op[u]
  BY <1>3 DEF Inv, Types
<1>5. /\ e.op \in {"START", "STOP", "INFO"} /\ (e.op # "INFO" => e.span \in Spans)
      /\ e.op = "START" => Starts(t, e.span)
      /\ e.op = "STOP" => Closes(t, e.span)
  BY <1>1 DEF EventOK, Starts, Closes
<1>6. Sights'
  BY <1>1, <1>3, <1>4 DEF Pairs, Sights
<1>7. \A kind, x : HasEvent(kind, x)' <=>
        HasEvent(kind, x) \/ (log' # log /\ e.op = kind /\ e.span = x)
  <2>1. PICK S : log \in Seq(S)
    BY DEF Inv, Types
  <2>2. CASE log' = log
    BY <2>2 DEF HasEvent
  <2>3. CASE log' = Append(log, e)
    <3>1. /\ DOMAIN log' = DOMAIN log \cup {Len(log) + 1} /\ log'[Len(log) + 1] = e
          /\ \A i \in DOMAIN log : log'[i] = log[i]
          /\ log' # log
      BY <2>1, <2>3
    <3> QED
      BY <3>1 DEF HasEvent
  <2> QED
    BY <1>2, <2>2, <2>3
<1>8. ASSUME NEW x \in steady PROVE Asked(x)'
  <2>1. x \in Spans /\ Asked(x)
    BY <1>8 DEF Pairs, TypeOK
  <2>2. \A u \in Threads : op'[u].pc = "writing" => op'[u] = op[u]
    BY <1>3, <1>4
  <2>3. op[t].pc = "writing" /\ e.op # "INFO" /\ e.span = x => collecting
    BY <1>1, <2>1 DEF Asked
  <2>4. ASSUME activity[x] # None, \A u \in Threads : ~Starts(u, x)'
        PROVE  HasEvent("START", x)' <=> collecting
    <3>1. CASE Starts(t, x)
      <4>1. e.op = "START" /\ e.span = x
        BY <1>1, <3>1 DEF Starts, Writes
      <4>2. ~HasEvent("START", x)
        BY <2>1, <3>1 DEF Inv, Alone, HasEvent
      <4>3. CASE op[t].pc = "ready"
        BY <1>2, <1>7, <4>2, <4>3
      <4>4. CASE op[t].pc = "writing"
        <5>1. log' # log
          BY <1>2, <4>4 DEF TypeOK
        <5> QED
          BY <1>7, <2>3, <4>1, <4>4, <5>1
      <4> QED
        BY <1>1, <4>3, <4>4 DEF Writes
    <3>2. CASE ~Starts(t, x)
      <4>1. \A u \in Threads : ~Starts(u, x)
        BY <1>4, <2>4, <3>2 DEF Starts, Writes
      <4>2. HasEvent("START", x) <=> collecting
        BY <2>1, <2>4, <4>1 DEF Asked
      <4>3. ~(e.op = "START" /\ e.span = x)
        BY <1>5, <3>2
      <4> QED
        BY <1>7, <4>2, <4>3
    <3> QED
      BY <3>1, <3>2
  <2>5. ASSUME activity[x] # None, StoppedFor(x)'
        PROVE  HasEvent("STOP", x)' <=> collecting
    <3>1. CASE e.op = "STOP" /\ e.span = x
      <4>1. ~StoppedFor(x)
        BY <1>1, <1>5, <3>1 DEF Inv, Closes, Unreferenced, StoppedFor, Writes
      <4>2. ~HasEvent("STOP", x)
        BY <4>1 DEF Inv, Logged, HasEvent
      <4>3. CASE op[t].pc = "ready"
        BY <1>2, <1>7, <4>2, <4>3
      <4>4. CASE op[t].pc = "writing"
        <5>1. log' # log
          BY <1>2, <4>4 DEF TypeOK
        <5> QED
          BY <1>7, <2>3, <3>1, <4>4, <5>1
      <4> QED
        BY <1>1, <4>3, <4>4 DEF Writes
    <3>2. CASE ~(e.op = "STOP" /\ e.span = x)
      <4>1. StoppedFor(x)
        BY <1>1, <1>3, <1>4, <2>5, <3>2 DEF StoppedFor, At, Idle
      <4> QED
        BY <1>7, <2>1, <2>5, <3>2, <4>1 DEF Asked
    <3> QED
      BY <3>1, <3>2
  <2>6. \A u \in Threads : op'[u].pc = "writing" /\ op'[u].event.op # "INFO" /\ op'[u].event.span = x
          => collecting'
    BY <1>1, <2>1, <2>2 DEF Asked
  <2> QED
    BY <1>1, <2>4, <2>5, <2>6 DEF Asked
<1> QED
  BY <1>1, <1>6, <1>8 DEF Pairs

\* Every step keeps what was asked and what is in the log in accord.
LEMMA PairsNext == Inv /\ TypeOK /\ Pairs /\ [Next]_vars => Pairs'
<1> SUFFICES ASSUME Inv, TypeOK, Pairs, [Next]_vars PROVE Pairs'
  OBVIOUS
<1>1. CASE UNCHANGED vars \/ Toggle \/ Attach
  BY <1>1, PairsRegistry
<1>2. ASSUME NEW t \in Threads, Handler(t) PROVE Pairs'
  BY <1>2, PairsRegistry, PairsHandlers, PairsNewHandler, PairsBuild, PairsReturn DEF Handler
<1>3. ASSUME NEW t \in Threads, Program(t) PROVE Pairs'
  BY <1>3, PairsRegistry, PairsNewSpan, PairsHandlers DEF Program
<1> QED
  BY <1>1, <1>2, <1>3 DEF Next

\* A handler that returned, in steady sessions, wrote if they collect.
THEOREM PairsAlways == Spec => []Pairs
<1>1. Init => Pairs
  BY Quietly DEF Init, Pairs, Sights
<1> QED
  BY <1>1, PairsNext, InvAlways, TypeCorrect, PTL DEF Spec

\* No span has two events of one kind in the log, because events nest.
LEMMA AtMostOne ==
  ASSUME Inv, NEW kind \in {"START", "STOP"}, NEW s \in Spans
  PROVE  Cardinality({i \in DOMAIN log : log[i].span = s /\ log[i].op = kind})
           = IF HasEvent(kind, s) THEN 1 ELSE 0
<1> DEFINE Where == {i \in DOMAIN log : log[i].span = s /\ log[i].op = kind}
<1>1. CASE ~HasEvent(kind, s)
  <2>1. Where = {}
    BY <1>1 DEF HasEvent
  <2> QED
    BY <1>1, <2>1, FS_EmptySet
<1>2. CASE HasEvent(kind, s)
  <2>1. PICK i \in DOMAIN log : log[i].span = s /\ log[i].op = kind
    BY <1>2 DEF HasEvent
  <2>2. PICK S : log \in Seq(S)
    BY DEF Inv, Types
  <2>3. ASSUME NEW j \in DOMAIN log, log[j].span = s, log[j].op = kind PROVE j = i
    <3>1. i \in Nat /\ j \in Nat
      BY <2>2
    <3>2. ~(i < j) /\ ~(j < i)
      BY <2>1, <2>3 DEF Inv, SpansNest
    <3> QED
      BY <3>1, <3>2
  <2>4. Where = {i}
    BY <2>1, <2>3
  <2> QED
    BY <1>2, <2>4, FS_Singleton
<1> QED
  BY <1>1, <1>2

\* If no session came or went while a span lived, the log has its START and
\* its STOP or neither of them, and neither twice, on whichever threads the
\* two handlers ran and whatever ran between them.
THEOREM StartsAndStopsPair == Spec => []StartsPairWithStops
<1>1. ASSUME Inv, TypeOK, Pairs PROVE StartsPairWithStops
  <2>1. ASSUME NEW s \in steady, state[s] = "removed"
        PROVE  s \in Spans /\ (HasEvent("START", s) <=> HasEvent("STOP", s))
    <3>1. s \in Spans /\ Asked(s) /\ StoppedFor(s)
      BY <1>1, <2>1 DEF Pairs, TypeOK, StoppedFor
    <3>2. \A t \in Threads : ~Starts(t, s)
      BY <1>1, <2>1, <3>1 DEF Inv, Alone, Registry
    <3>3. CASE activity[s] # None
      BY <3>1, <3>2, <3>3 DEF Asked
    <3>4. CASE activity[s] = None
      <4>1. ASSUME NEW i \in DOMAIN log, log[i].op \in {"START", "STOP"}, log[i].span = s PROVE FALSE
        <5>1. log[i].activity = None
          BY <1>1, <3>1, <3>4, <4>1, Names DEF Inv, Logged, EventOK, ExtensionOf
        <5>2. log[i] \in Events
          BY <1>1, <4>1 DEF TypeOK
        <5> QED
          BY <4>1, <5>1, <5>2, Names DEF Events
      <4> QED
        BY <3>1, <4>1 DEF HasEvent
    <3> QED
      BY <3>1, <3>3, <3>4
  <2> QED
    BY <1>1, <2>1, AtMostOne DEF StartsPairWithStops
<1> QED
  BY <1>1, PairsAlways, InvAlways, TypeCorrect, PTL

-----------------------------------------------------------------------------
(* The handlers together implement SpanLog, if the filter hides no parent  *)
(* and the layer is not late.                                              *)

Formed(e) ==
  /\ e.op = "START" => e.values = <<>> /\ (parent[e.span] = NoSpan => e.related = None)
  /\ e.op = "STOP"  => e.related = None
  /\ e.op = "INFO"  => e.span = NoSpan \/ seen[e.span] = "visible"

Forms == \A t \in Threads : Writes(t) => Formed(op[t].event)

\* What the registry says of a span that exists does not change.
LEMMA FormsMove ==
  ASSUME Inv, TypeOK, Forms, NEW t \in Threads, NEW w, op' = op \/ op' = [op EXCEPT ![t] = w],
         \A x \in Spans : state[x] # "unused" => parent'[x] = parent[x] /\ seen'[x] = seen[x],
         w.pc \in {"ready", "writing"} => (Writes(t) /\ w.event = op[t].event) \/ Formed(w.event)'
  PROVE  Forms'
<1>1. op'[t] \in {w, op[t]} /\ \A u \in Threads \ {t} : op'[u] = op[u]
  BY DEF Inv, Types
<1>2. ASSUME NEW u \in Threads, Writes(u), NEW e, e = op[u].event PROVE Formed(e)'
  <2>1. e = op[u].event
    BY <1>2
  <2>2. EventOK(e) /\ Formed(e) /\ (e.op = "INFO" => e.span \in held[u] \cup {NoSpan})
    BY <1>2, <2>1 DEF Forms, Inv, Pending
  <2>3. e.span # NoSpan => e.span \in Spans /\ state[e.span] # "unused"
    <3>1. CASE e.op = "INFO"
      BY <2>2, <3>1 DEF EventOK, Inv, Registry, SpanOrNone
    <3>2. CASE e.op = "START"
      BY <1>2, <2>1, <2>2, <3>2 DEF EventOK, Inv, Starts, Alone, Registry
    <3>3. CASE e.op = "STOP"
      BY <1>2, <2>1, <2>2, <3>3 DEF EventOK, Inv, Closes, Unreferenced
    <3> QED
      BY <2>2, <3>1, <3>2, <3>3 DEF EventOK
  <2>4. e.op = "START" => e.span # NoSpan
    BY <2>2, Names DEF EventOK
  <2> QED
    BY <2>2, <2>3, <2>4 DEF Formed
<1>3. ASSUME NEW u \in Threads, Writes(u)' PROVE Formed(op[u].event)'
  <2>1. PICK e : e = op'[u].event
    OBVIOUS
  <2>2. (Writes(u) /\ e = op[u].event) \/ Formed(e)'
    BY <1>1, <1>3, <2>1 DEF Writes
  <2>3. Formed(e)'
    BY <1>2, <2>2
  <2> QED
    BY <2>1, <2>3 DEF Formed
<1> QED
  BY <1>3 DEF Forms

\* Every step keeps the pending events well-formed.
LEMMA FormsNext == Inv /\ TypeOK /\ Safe /\ Forms /\ [Next]_vars => Forms'
<1> SUFFICES ASSUME Inv, TypeOK, Safe, Forms, [Next]_vars PROVE Forms'
  OBVIOUS
<1>1. ASSUME op' = op, UNCHANGED <<parent, seen>> PROVE Forms'
  BY <1>1 DEF Forms, Formed, Writes
<1>2. CASE UNCHANGED vars \/ Toggle \/ Attach
  BY <1>1, <1>2 DEF vars, Toggle, Attach, registry, locks, exts, sessions
<1>3. ASSUME NEW t \in Threads, NEW w, op' = [op EXCEPT ![t] = w], UNCHANGED <<parent, seen>>,
             w.pc \in {"ready", "writing"} => (Writes(t) /\ w.event = op[t].event) \/ Formed(w.event)'
      PROVE  Forms'
  BY <1>3, FormsMove
<1>4. ASSUME NEW t \in Threads, NEW e, op' = [op EXCEPT ![t] = Ready(e)],
             UNCHANGED <<parent, seen>>, Formed(e)'
      PROVE  Forms'
  <2>1. PICK w : w = Ready(e) /\ w.event = e
    BY Quietly
  <2>2. op' = [op EXCEPT ![t] = w] /\ Formed(w.event)'
    BY <1>4, <2>1
  <2> QED
    BY <1>3, <1>4, <2>2
<1>5. ASSUME NEW t \in Threads, Handler(t) PROVE Forms'
  <2>1. ASSUME NEW attr \in Attrs, NEW current \in Activity, on_new_span(t, attr, current)
        PROVE  Forms'
    <3>1. PICK s : s = op[t].span
      OBVIOUS
    <3>2. CASE Hidden(parent[s])
      BY <1>3, <2>1, <3>1, <3>2, Quietly DEF on_new_span, Goto, registry
    <3>3. CASE ~Hidden(parent[s])
      <4>1. PICK e : /\ e = Event("START", s, ActivityFor(attr, current), ExtensionOf(parent[s]), <<>>)
                     /\ op' = [op EXCEPT ![t] = Ready(e)]
        BY <2>1, <3>1, <3>3 DEF on_new_span, Goto
      <4>2. UNCHANGED <<parent, seen>>
        BY <2>1 DEF on_new_span, registry
      <4>3. Formed(e)'
        BY <4>1, <4>2 DEF Formed, Event, ExtensionOf
      <4> QED
        BY <1>4, <4>1, <4>2, <4>3
    <3> QED
      BY <3>2, <3>3
  <2>2. CASE on_close(t)
    <3>1. PICK s, e : /\ e = Event("STOP", s, activity[s], None, deferred[s])
                      /\ op' = [op EXCEPT ![t] = Panicked] \/ op' = [op EXCEPT ![t] = Ready(e)]
      BY <2>2 DEF on_close, Goto
    <3>2. UNCHANGED <<parent, seen>>
      BY <2>2 DEF on_close, registry
    <3>3. Formed(e)'
      BY <3>1 DEF Formed, Event
    <3>4. CASE op' = [op EXCEPT ![t] = Panicked]
      BY <1>3, <3>2, <3>4, Quietly
    <3>5. CASE op' = [op EXCEPT ![t] = Ready(e)]
      BY <1>4, <3>2, <3>3, <3>5
    <3> QED
      BY <3>1, <3>4, <3>5
  <2>3. CASE RecordField(t)
    <3>1. PICK r : r = op[t] /\ r.pc = "recording" /\ r = [pc |-> r.pc, span |-> r.span, todo |-> r.todo]
      BY <2>3 DEF RecordField, Inv, Shape
    <3>2. PICK w : w = [r EXCEPT !.todo = Tail(@)]
      OBVIOUS
    <3>3. w.pc = "recording"
      BY <3>1, <3>2
    <3>4. op' = [op EXCEPT ![t] = w] /\ UNCHANGED <<parent, seen>>
      BY <2>3, <3>1, <3>2 DEF RecordField, registry
    <3> QED
      BY <1>3, <3>3, <3>4
  <2>4. CASE RecordEnd(t) \/ CloseUnseen(t)
    BY <1>3, <2>4, Quietly DEF RecordEnd, CloseUnseen, Goto, registry
  <2>5. CASE Skip(t) \/ Write(t)
    BY <1>3, <2>5, Quietly DEF Skip, Write, Return, Goto, registry
  <2>6. CASE Build(t)
    <3>1. PICK r : r = op[t] /\ r.pc = "ready" /\ r = [pc |-> r.pc, event |-> r.event]
      BY <2>6 DEF Build, Inv, Shape
    <3>2. PICK w : w = [r EXCEPT !.pc = "writing"]
      OBVIOUS
    <3>3. w.event = r.event /\ Writes(t)
      BY <3>1, <3>2 DEF Writes
    <3>4. op' = [op EXCEPT ![t] = w] /\ UNCHANGED <<parent, seen>>
      BY <2>6, <3>1, <3>2 DEF Build, registry
    <3> QED
      BY <1>3, <3>1, <3>3, <3>4
  <2>7. CASE Clear(t)
    BY <1>3, <2>7, Quietly DEF Clear, GiveUp, Goto
  <2> QED
    BY <1>5, <2>1, <2>2, <2>3, <2>4, <2>5, <2>6, <2>7 DEF Handler
<1>6. ASSUME NEW t \in Threads, Program(t) PROVE Forms'
  <2>1. ASSUME NEW p \in SpanOrNone, NEW sight \in {"visible", "hidden", "early"}, NewSpan(t, p, sight)
        PROVE  Forms'
    <3>1. PICK s \in Spans :
            /\ state[s] = "unused" /\ parent' = [parent EXCEPT ![s] = p]
            /\ seen' = [seen EXCEPT ![s] = sight]
            /\ (op' = op \/ op' = [op EXCEPT ![t] = At("new", s)])
      <4> DEFINE s == CHOOSE x \in Unused : TRUE
      <4>1. s \in Unused
        BY <2>1 DEF NewSpan
      <4>2. s \in Spans /\ state[s] = "unused"
        BY <4>1 DEF Unused
      <4> HIDE DEF s
      <4> QED
        BY <2>1, <4>2 DEF NewSpan, Goto, s
    <3>2. \A x \in Spans : state[x] # "unused" => parent'[x] = parent[x] /\ seen'[x] = seen[x]
      BY <3>1 DEF Inv, Types
    <3> QED
      BY <3>1, <3>2, Quietly, FormsMove
  <2>2. ASSUME NEW s, Enter(t, s) \/ Exit(t) \/ \E u \in Threads : Share(t, u, s) PROVE Forms'
    BY <1>1, <2>2 DEF Enter, Exit, Share
  <2>3. ASSUME NEW s \in Spans, DropHandle(t, s) PROVE Forms'
    BY <1>3, <2>3, Quietly DEF DropHandle, GiveUp, Goto
  <2>4. ASSUME NEW s \in Spans, NEW call \in Calls, RecordBegin(t, s, call) PROVE Forms'
    BY <1>3, <2>4, Quietly DEF RecordBegin, Goto, registry
  <2>5. ASSUME NEW s \in SpanOrNone, on_event(t, s) PROVE Forms'
    <3>1. PICK e : e = Event("INFO", s, ExtensionOf(s), None, <<>>) /\ op' = [op EXCEPT ![t] = Ready(e)]
      BY <2>5 DEF on_event, Goto
    <3>2. UNCHANGED <<parent, seen>>
      BY <2>5 DEF on_event, registry
    <3>3. s # NoSpan => s \in Spans /\ s \in held[t] /\ seen[s] # "hidden" /\ attached
      BY <2>5 DEF on_event, IsCurrent, Inv, Registry, SpanOrNone
    <3>4. s # NoSpan => seen[s] = "visible"
      BY <3>3 DEF Safe, Inv, Types, Registry
    <3>5. Formed(e)'
      BY <3>1, <3>2, <3>4 DEF Formed, Event
    <3> QED
      BY <1>4, <3>1, <3>2, <3>5
  <2>6. CASE Exit(t)
    BY <2>2, <2>6
  <2> QED
    BY <1>6, <2>1, <2>2, <2>3, <2>4, <2>5, <2>6 DEF Program
<1> QED
  BY <1>2, <1>5, <1>6 DEF Next

\* What the steps of SpanLog need: all that was shown so far.
Known == Inv /\ TypeOK /\ Kept /\ Pairs /\ Safe /\ Forms

Begun(s) == \E t \in Threads : Starts(t, s)

\* The refinement mapping in the terms of TracelogSpansProofs.
LEMMA StatusIs ==
  ASSUME Inv, TypeOK, NEW s \in Spans
  PROVE  Status(s) = IF seen[s] # "visible" \/ Begun(s) THEN "none"
                     ELSE IF StoppedFor(s) THEN "done" ELSE "open"
<1>1. \A t \in Threads : OpOK(op[t])
  BY TypeParts
<1>2. ASSUME NEW t \in Threads, NEW pc \in {"new", "removing"}
      PROVE  op[t] = At(pc, s) <=> op[t].pc = pc /\ op[t].span = s
  <2>1. ASSUME op[t].pc = pc PROVE op[t] = [pc |-> pc, span |-> op[t].span]
    BY <1>1, <2>1 DEF OpOK, Idle, Panicked
  <2> QED
    BY <2>1 DEF At
<1>3. PendingStart(s) <=> Begun(s)
  BY <1>2 DEF PendingStart, Begun, Starts, Writes
<1>4. Stopped(s) <=> StoppedFor(s)
  BY <1>2 DEF Stopped, StoppedFor
<1> QED
  BY <1>3, <1>4 DEF Status

\* What SpanLog knows of a span.
ParentIn(s)   == IF Status(s) = "none" THEN NoSpan ELSE parent[s]
ActivityIn(s) == IF Status(s) = "none" THEN None ELSE activity[s]
RecordedIn(s) == RecordAll(deferred[s], Todo(s))

StatusMap   == [s \in Spans |-> Status(s)]
ParentMap   == [s \in Spans |-> IF Status(s) = "none" THEN NoSpan ELSE parent[s]]
ActivityMap == [s \in Spans |-> IF Status(s) = "none" THEN None ELSE activity[s]]
RecordedMap == [s \in Spans |-> RecordAll(deferred[s], Todo(s))]

Same(s) ==
  /\ Status(s)' = Status(s) /\ ParentIn(s)' = ParentIn(s)
  /\ ActivityIn(s)' = ActivityIn(s) /\ RecordedIn(s)' = RecordedIn(s)

Stutters == UNCHANGED <<StatusMap, ParentMap, ActivityMap, RecordedMap, log>>

\* The mapping as functions of the spans.
LEMMA Views ==
  /\ StatusMap = [s \in Spans |-> Status(s)] /\ ParentMap = [s \in Spans |-> ParentIn(s)]
  /\ ActivityMap = [s \in Spans |-> ActivityIn(s)] /\ RecordedMap = [s \in Spans |-> RecordedIn(s)]
  /\ StatusMap' = [s \in Spans |-> Status(s)'] /\ ParentMap' = [s \in Spans |-> ParentIn(s)']
  /\ ActivityMap' = [s \in Spans |-> ActivityIn(s)'] /\ RecordedMap' = [s \in Spans |-> RecordedIn(s)']
BY DEF StatusMap, ParentMap, ActivityMap, RecordedMap, ParentIn, ActivityIn, RecordedIn

\* The steps of SpanLog, by what they change for each span: none ...
LEMMA LogStutters ==
  ASSUME \A s \in Spans : Same(s), log' = log
  PROVE  Stutters
BY Views DEF Same, Stutters

\* ... a span is opened ...
LEMMA LogOpens ==
  ASSUME NEW s \in Spans, NEW p \in SpanOrNone, NEW a \in Activity,
         Status(s) = "none", p # NoSpan => Status(p) = "open",
         Status(s)' = "open", ParentIn(s)' = p, ActivityIn(s)' = a, RecordedIn(s)' = RecordedIn(s),
         \A x \in Spans \ {s} : Same(x),
         NEW r, r = IF p = NoSpan THEN None ELSE ActivityIn(p),
         log' \in {log, Append(log, Event("START", s, a, r, <<>>))}
  PROVE  Promise!Next
<1>1. /\ StatusMap[s] = "none" /\ (p # NoSpan => StatusMap[p] = "open")
      /\ r = IF p = NoSpan THEN None ELSE ActivityMap[p]
  BY Views DEF SpanOrNone
<1>2. /\ StatusMap' = [StatusMap EXCEPT ![s] = "open"]
      /\ ParentMap' = [ParentMap EXCEPT ![s] = p]
      /\ ActivityMap' = [ActivityMap EXCEPT ![s] = a]
      /\ RecordedMap' = RecordedMap
  BY Views DEF Same
<1>3. Promise!Open(s, p, a)
  BY <1>1, <1>2 DEF Promise!Open, Promise!IsOpen, Promise!Logged, Promise!ActivityOf, Promise!Event, Event,
                    StatusMap, ParentMap, ActivityMap, RecordedMap
<1> QED
  BY <1>3 DEF Promise!Next, SpanOrNone

\* Both modules extend DeferredValues.
LEMMA SameRecordAll == \A values, call : Promise!RecordAll(values, call) = RecordAll(values, call)
  BY Zenon DEF RecordAll, FoldLeft, MapThenFoldSet, Max, Min, update, Position, SelectInSeq,
               Promise!RecordAll, Promise!FoldLeft, Promise!MapThenFoldSet, Promise!Max, Promise!Min,
               Promise!update, Promise!Position, Promise!SelectInSeq

\* ... values are recorded ...
LEMMA LogRecords ==
  ASSUME NEW s \in Spans, NEW call \in Calls, Status(s) = "open",
         Status(s)' = "open", ParentIn(s)' = ParentIn(s), ActivityIn(s)' = ActivityIn(s),
         RecordedIn(s)' = RecordAll(RecordedIn(s), call),
         \A x \in Spans \ {s} : Same(x), log' = log
  PROVE  Promise!Next
<1>1. StatusMap[s] = "open"
  BY Views
<1>2. /\ StatusMap' = StatusMap /\ ParentMap' = ParentMap /\ ActivityMap' = ActivityMap
      /\ RecordedMap' = [RecordedMap EXCEPT ![s] = RecordAll(RecordedMap[s], call)]
  BY Views DEF Same
<1>3. Promise!Record(s, call)
  BY <1>1, <1>2, SameRecordAll DEF Promise!Record, StatusMap, ParentMap, ActivityMap, RecordedMap
<1> QED
  BY <1>3 DEF Promise!Next

\* ... an event happens ...
LEMMA LogHappens ==
  ASSUME NEW s \in SpanOrNone, s # NoSpan => Status(s) = "open",
         \A x \in Spans : Same(x), NEW a, a = IF s = NoSpan THEN None ELSE ActivityIn(s),
         log' \in {log, Append(log, Event("INFO", s, a, None, <<>>))}
  PROVE  Promise!Next
<1>1. s # NoSpan => StatusMap[s] = "open"
  BY Views DEF SpanOrNone
<1>2. a = IF s = NoSpan THEN None ELSE ActivityMap[s]
  BY Views DEF SpanOrNone
<1>3. StatusMap' = StatusMap /\ ParentMap' = ParentMap /\ ActivityMap' = ActivityMap
      /\ RecordedMap' = RecordedMap
  BY Views DEF Same
<1>4. Promise!Happen(s)
  BY <1>1, <1>2, <1>3 DEF Promise!Happen, Promise!IsOpen, Promise!Logged, Promise!ActivityOf,
                          Promise!Event, Event, StatusMap, ParentMap, ActivityMap, RecordedMap
<1> QED
  BY <1>4 DEF Promise!Next, SpanOrNone

\* ... a span is closed.
LEMMA LogCloses ==
  ASSUME NEW s \in Spans, Status(s) = "open", Status(s)' = "done",
         \A c \in Spans : ParentIn(c) = s => Status(c) = "done",
         ParentIn(s)' = ParentIn(s), ActivityIn(s)' = ActivityIn(s), RecordedIn(s)' = RecordedIn(s),
         \A x \in Spans \ {s} : Same(x),
         log' \in {log, Append(log, Event("STOP", s, ActivityIn(s), None, RecordedIn(s)))}
  PROVE  Promise!Next
<1>1. /\ StatusMap[s] = "open" /\ ActivityMap[s] = ActivityIn(s) /\ RecordedMap[s] = RecordedIn(s)
      /\ \A c \in Spans : ParentMap[c] = s => StatusMap[c] = "done"
  BY Views
<1>2. /\ StatusMap' = [StatusMap EXCEPT ![s] = "done"] /\ ParentMap' = ParentMap
      /\ ActivityMap' = ActivityMap /\ RecordedMap' = RecordedMap
  BY Views DEF Same
<1>3. Promise!Close(s)
  BY <1>1, <1>2 DEF Promise!Close, Promise!Logged, Promise!Event, Event,
                    StatusMap, ParentMap, ActivityMap, RecordedMap
<1> QED
  BY <1>3 DEF Promise!Next

\* StatusIs, of the next state.
LEMMA StatusWillBe ==
  ASSUME Inv', TypeOK', NEW s \in Spans
  PROVE  Status(s)' = IF seen'[s] # "visible" \/ Begun(s)' THEN "none"
                      ELSE IF StoppedFor(s)' THEN "done" ELSE "open"
<1>1. \A t \in Threads : OpOK(op'[t])
  BY TypeParts
<1>2. ASSUME NEW t \in Threads, NEW pc \in {"new", "removing"}
      PROVE  op'[t] = At(pc, s) <=> op'[t].pc = pc /\ op'[t].span = s
  <2>1. ASSUME op'[t].pc = pc PROVE op'[t] = [pc |-> pc, span |-> op'[t].span]
    BY <1>1, <2>1 DEF OpOK, Idle, Panicked
  <2> QED
    BY <2>1 DEF At
<1>3. PendingStart(s)' <=> Begun(s)'
  BY <1>2 DEF PendingStart, Begun, Starts, Writes
<1>4. Stopped(s)' <=> StoppedFor(s)'
  BY <1>2 DEF Stopped, StoppedFor
<1> QED
  BY <1>3, <1>4 DEF Status

\* A span that a step leaves alone, or that SpanLog does not know of.
LEMMA SameView ==
  ASSUME Inv, TypeOK, Inv', TypeOK', NEW s \in Spans,
         seen'[s] = seen[s], Begun(s)' <=> Begun(s), RecordedIn(s)' = RecordedIn(s),
         seen[s] = "visible" /\ ~Begun(s) =>
           (StoppedFor(s)' <=> StoppedFor(s)) /\ parent'[s] = parent[s] /\ activity'[s] = activity[s]
  PROVE  Same(s)
<1>1. Status(s)' = Status(s)
  BY StatusIs, StatusWillBe
<1>2. Status(s) # "none" => parent'[s] = parent[s] /\ activity'[s] = activity[s]
  BY StatusIs
<1> QED
  BY <1>1, <1>2 DEF Same, ParentIn, ActivityIn

\* Who moves without recording moves nothing that is recorded.
LEMMA SameRecorded ==
  ASSUME Inv, TypeOK, LocksOK, NEW t \in Threads, NEW w, op' = [op EXCEPT ![t] = w],
         UNCHANGED <<writer, deferred>>, op[t].pc # "recording", NEW s \in Spans
  PROVE  RecordedIn(s)' = RecordedIn(s)
<1>1. writer[s] # None => writer[s] \in Threads \ {t}
  BY DEF LocksOK, TypeOK
<1>2. Todo(s)' = Todo(s)
  BY <1>1 DEF Todo, Inv, Types
<1> QED
  BY <1>2 DEF RecordedIn

\* A step of one thread that neither ends a handler nor records.
LEMMA LogMove ==
  ASSUME Inv, TypeOK, LocksOK, Inv', TypeOK', NEW t \in Threads, NEW w, op' = [op EXCEPT ![t] = w],
         UNCHANGED <<seen, parent, activity, writer, deferred, log>>, op[t].pc # "recording",
         \A s \in Spans : Starts(t, s)' <=> Starts(t, s),
         \A s \in Spans : seen[s] = "visible" => (StoppedFor(s)' <=> StoppedFor(s))
  PROVE  Stutters
<1>1. \A u \in Threads \ {t} : op'[u] = op[u]
  BY DEF Inv, Types
<1>2. ASSUME NEW s \in Spans PROVE Same(s)
  <2>1. Begun(s)' <=> Begun(s)
    BY <1>1 DEF Begun, Starts, Writes
  <2>2. RecordedIn(s)' = RecordedIn(s)
    BY SameRecorded
  <2> QED
    BY <2>1, <2>2, SameView
<1> QED
  BY <1>2, LogStutters

\* StoppedFor does not change with the thread of a span that goes on.
LEMMA NotStopped ==
  ASSUME Inv, NEW t \in Threads, NEW w, op' = [op EXCEPT ![t] = w],
         op[t].pc # "removing", w.pc # "removing", state' = state, NEW s \in Spans
  PROVE  StoppedFor(s)' <=> StoppedFor(s)
<1>1. op'[t] = w /\ \A u \in Threads \ {t} : op'[u] = op[u]
  BY DEF Inv, Types
<1> QED
  BY <1>1 DEF StoppedFor

\* SpanLog knows nothing of handles, guards and sessions.
LEMMA LogRegistry ==
  ASSUME Known, Inv', TypeOK',
         \/ UNCHANGED vars \/ Toggle \/ Attach
         \/ \E t \in Threads : \/ Exit(t) \/ Clear(t) \/ CloseUnseen(t)
                               \/ \E s \in Spans : \/ Enter(t, s) \/ DropHandle(t, s)
                                                   \/ \E u \in Threads : Share(t, u, s)
  PROVE  Stutters
<1>1. Inv /\ TypeOK /\ LocksOK /\ Pairs
  BY DEF Known, Kept
<1>2. ASSUME UNCHANGED <<state, parent, seen, op, activity, deferred, writer, log>> PROVE Stutters
  BY <1>2 DEF Stutters, StatusMap, ParentMap, ActivityMap, RecordedMap, Status, PendingStart, Stopped, Todo
<1>3. CASE UNCHANGED vars \/ Toggle \/ Attach
  BY <1>2, <1>3 DEF vars, Toggle, Attach, registry, locks, exts, sessions
<1>4. ASSUME NEW t \in Threads, NEW s, Exit(t) \/ Enter(t, s) \/ \E u \in Threads : Share(t, u, s)
      PROVE  Stutters
  BY <1>2, <1>4 DEF Exit, Enter, Share, locks, exts
<1>5. ASSUME NEW t \in Threads, NEW s \in Spans, DropHandle(t, s) PROVE Stutters
  <2>1. PICK w \in {Idle, At("closing", s)} : op' = [op EXCEPT ![t] = w]
    BY <1>5 DEF DropHandle, GiveUp, Goto
  <2>2. UNCHANGED <<state, seen, parent, activity, writer, deferred, log>> /\ op[t].pc = "idle"
    BY <1>5, Quietly DEF DropHandle, Free, locks, exts
  <2>3. w.pc \in {"idle", "closing"} /\ op'[t] = w
    BY <1>1, <2>1, Quietly DEF Inv, Types
  <2>4. \A x \in Spans : Starts(t, x)' <=> Starts(t, x)
    BY <2>2, <2>3 DEF Starts, Writes
  <2>5. \A x \in Spans : StoppedFor(x)' <=> StoppedFor(x)
    BY <1>1, <2>1, <2>2, <2>3, NotStopped
  <2> QED
    BY <1>1, <2>1, <2>2, <2>4, <2>5, LogMove
<1>6. ASSUME NEW t \in Threads, Clear(t) PROVE Stutters
  <2>1. PICK s \in Spans, p \in SpanOrNone :
          /\ op[t] = At("removing", s) /\ state' = [state EXCEPT ![s] = "removed"] /\ GiveUp(t, p)
          /\ UNCHANGED <<seen, parent, activity, writer, deferred, log>>
    BY <1>6 DEF Clear, locks, exts
  <2>2. PICK w \in {Idle, At("closing", p)} : op' = [op EXCEPT ![t] = w]
    BY <2>1 DEF GiveUp, Goto
  <2>3. /\ w.pc \in {"idle", "closing"} /\ op[t].pc = "removing" /\ op[t].span = s
        /\ op'[t] = w /\ \A u \in Threads \ {t} : op'[u] = op[u]
    BY <1>1, <2>1, <2>2, Quietly DEF Inv, Types, At
  <2>4. \A x \in Spans : Starts(t, x)' <=> Starts(t, x)
    BY <2>3 DEF Starts, Writes
  <2>5. \A x \in Spans : state'[x] = IF x = s THEN "removed" ELSE state[x]
    BY <1>1, <2>1 DEF Inv, Types
  <2>6. \A x \in Spans : StoppedFor(x)' <=> StoppedFor(x)
    BY <2>3, <2>5 DEF StoppedFor
  <2>7. UNCHANGED <<seen, parent, activity, writer, deferred, log>> /\ op[t].pc # "recording"
    BY <2>1, <2>3
  <2> QED
    BY <1>1, <2>2, <2>4, <2>6, <2>7, LogMove
<1>7. ASSUME NEW t \in Threads, CloseUnseen(t) PROVE Stutters
  <2>1. PICK s \in Spans : /\ op[t] = At("closing", s) /\ ~Sees(s)
                           /\ op' = [op EXCEPT ![t] = At("removing", s)]
                           /\ UNCHANGED <<state, seen, parent, activity, writer, deferred, log>>
    BY <1>7 DEF CloseUnseen, Goto, registry, locks, exts
  <2>2. seen[s] # "visible"
    BY <1>1, <2>1 DEF Pairs, Sights, Sees
  <2>3. /\ op[t].pc = "closing" /\ op'[t].pc = "removing" /\ op'[t].span = s
        /\ \A u \in Threads \ {t} : op'[u] = op[u]
    BY <1>1, <2>1 DEF Inv, Types, At
  <2>4. \A x \in Spans : Starts(t, x)' <=> Starts(t, x)
    BY <2>3 DEF Starts, Writes
  <2>5. \A x \in Spans \ {s} : StoppedFor(x)' <=> StoppedFor(x)
    BY <2>1, <2>3 DEF StoppedFor
  <2> QED
    BY <1>1, <2>1, <2>2, <2>3, <2>4, <2>5, LogMove
<1>8. ASSUME NEW t \in Threads, Exit(t) PROVE Stutters
  BY <1>4, <1>8
<1> QED
  BY <1>3, <1>4, <1>5, <1>6, <1>7, <1>8

\* A span is not open before its START is written or skipped.
LEMMA LogNewSpan ==
  ASSUME Known, Inv', TypeOK', NEW t \in Threads, NEW p \in SpanOrNone,
         NEW sight \in {"visible", "hidden", "early"}, NewSpan(t, p, sight)
  PROVE  Stutters
<1>1. Inv /\ TypeOK /\ LocksOK /\ Sights
  BY DEF Known, Kept, Pairs
<1>2. PICK s \in Spans :
        /\ state[s] = "unused" /\ op[t].pc = "idle"
        /\ state' = [state EXCEPT ![s] = "alive"] /\ seen' = [seen EXCEPT ![s] = sight]
        /\ parent' = [parent EXCEPT ![s] = p]
        /\ op' = IF sight = "visible" THEN [op EXCEPT ![t] = At("new", s)] ELSE op
        /\ UNCHANGED <<activity, writer, deferred, log>>
  <2> DEFINE s == CHOOSE x \in Unused : TRUE
  <2>1. s \in Unused
    BY DEF NewSpan
  <2>2. s \in Spans /\ state[s] = "unused"
    BY <2>1 DEF Unused
  <2> HIDE DEF s
  <2> QED
    BY <2>2, Quietly DEF NewSpan, Free, Goto, locks, exts, s
<1>3. /\ state'[s] = "alive" /\ \A x \in Spans \ {s} : state'[x] = state[x]
      /\ seen'[s] = sight /\ \A x \in Spans \ {s} : seen'[x] = seen[x] /\ parent'[x] = parent[x]
      /\ op'[t] = IF sight = "visible" THEN At("new", s) ELSE op[t]
      /\ \A u \in Threads \ {t} : op'[u] = op[u]
  BY <1>1, <1>2 DEF Inv, Types
<1>4. ASSUME NEW x \in Spans PROVE RecordedIn(x)' = RecordedIn(x)
  <2>1. CASE sight = "visible"
    BY <1>1, <1>2, <2>1, SameRecorded
  <2>2. CASE sight # "visible"
    BY <1>2, <2>2 DEF RecordedIn, Todo
  <2> QED
    BY <2>1, <2>2
<1>5. ASSUME NEW x \in Spans, x # s PROVE Same(x)
  <2>1. Begun(x)' <=> Begun(x)
    BY <1>2, <1>3, <1>5, Quietly DEF Begun, Starts, Writes, At
  <2>2. StoppedFor(x)' <=> StoppedFor(x)
    BY <1>2, <1>3, <1>5, Quietly DEF StoppedFor
  <2> QED
    BY <1>1, <1>2, <1>3, <1>4, <1>5, <2>1, <2>2, SameView
<1>6. Same(s)
  <2>1. Status(s) = "none"
    BY <1>1, <1>2, StatusIs DEF Sights
  <2>2. sight = "visible" => Begun(s)'
    BY <1>3, Quietly DEF Begun, Starts, At
  <2>3. Status(s)' = "none"
    BY <1>3, <2>2, StatusWillBe
  <2> QED
    BY <1>4, <2>1, <2>3 DEF Same, ParentIn, ActivityIn
<1> QED
  BY <1>2, <1>5, <1>6, LogStutters

\* on_new_span, on_event and on_close as far as the question whether the
\* event is to be written.
LEMMA LogBegin ==
  ASSUME Known, Inv', TypeOK', NEW t \in Threads,
         on_close(t) \/ Build(t) \/ \E s \in SpanOrNone : on_event(t, s)
  PROVE  Stutters
<1>1. Inv /\ TypeOK /\ LocksOK
  BY DEF Known, Kept
<1>2. ASSUME NEW w, op' = [op EXCEPT ![t] = w], op[t].pc \notin {"recording", "removing"},
             w.pc # "removing", \A s \in Spans : Starts(t, s)' <=> Starts(t, s),
             UNCHANGED registry, UNCHANGED exts, UNCHANGED <<writer, log>>
      PROVE  Stutters
  <2>1. UNCHANGED <<state, seen, parent, activity, writer, deferred, log>>
    BY <1>2 DEF registry, exts
  <2>2. \A s \in Spans : StoppedFor(s)' <=> StoppedFor(s)
    BY <1>1, <1>2, <2>1, NotStopped
  <2> QED
    BY <1>1, <1>2, <2>1, <2>2, LogMove
<1>3. ASSUME NEW w, op' = [op EXCEPT ![t] = w] PROVE op'[t] = w
  BY <1>1, <1>3 DEF Inv, Types
<1>4. ASSUME NEW s \in SpanOrNone, on_event(t, s) PROVE Stutters
  <2>1. PICK e : e.op = "INFO" /\ op' = [op EXCEPT ![t] = Ready(e)]
    BY <1>4 DEF on_event, Goto, Event
  <2>2. op[t].pc = "idle" /\ op'[t] = Ready(e)
    BY <1>3, <1>4, <2>1, Quietly DEF on_event, Free
  <2>3. \A x \in Spans : Starts(t, x)' <=> Starts(t, x)
    BY <2>1, <2>2, Quietly DEF Starts, Writes
  <2> QED
    BY <1>2, <1>4, <2>1, <2>2, <2>3, Quietly DEF on_event, locks
<1>5. CASE on_close(t)
  <2>1. PICK e : e.op = "STOP" /\ (op' = [op EXCEPT ![t] = Panicked] \/ op' = [op EXCEPT ![t] = Ready(e)])
    BY <1>5 DEF on_close, Goto, Event
  <2>2. PICK w \in {Panicked, Ready(e)} : op' = [op EXCEPT ![t] = w]
    BY <2>1
  <2>3. op[t].pc = "closing" /\ op'[t] = w
    BY <1>3, <1>5, <2>2 DEF on_close
  <2>4. \A x \in Spans : Starts(t, x)' <=> Starts(t, x)
    BY <2>1, <2>2, <2>3, Quietly DEF Starts, Writes
  <2> QED
    BY <1>2, <1>5, <2>2, <2>3, <2>4, Quietly DEF on_close
<1>6. CASE Build(t)
  <2>1. PICK r : r = op[t] /\ r.pc = "ready" /\ r = [pc |-> r.pc, event |-> r.event]
    BY <1>1, <1>6 DEF Build, Inv, Shape
  <2>2. PICK w : w = [r EXCEPT !.pc = "writing"]
    OBVIOUS
  <2>3. w.pc = "writing" /\ w.event = r.event
    BY <2>1, <2>2
  <2>4. op' = [op EXCEPT ![t] = w] /\ op'[t] = w
    BY <1>3, <1>6, <2>1, <2>2 DEF Build
  <2>5. \A x \in Spans : Starts(t, x)' <=> Starts(t, x)
    BY <2>1, <2>3, <2>4 DEF Starts, Writes
  <2> QED
    BY <1>2, <1>6, <2>1, <2>3, <2>4, <2>5 DEF Build, locks
<1> QED
  BY <1>4, <1>5, <1>6

\* The activity of a span that is not open yet is stored.
LEMMA LogNewHandler ==
  ASSUME Known, Inv', TypeOK', NEW t \in Threads, NEW attr \in Attrs, NEW current \in Activity,
         on_new_span(t, attr, current)
  PROVE  Stutters
<1>1. Inv /\ TypeOK /\ LocksOK /\ Safe
  BY DEF Known, Kept
<1>2. PICK s \in Spans : op[t].pc = "new" /\ op[t].span = s /\ Starts(t, s)
  BY <1>1 DEF on_new_span, Inv, Shape, Starts
<1>3. ~Hidden(parent[s])
  BY <1>1, <1>2 DEF Inv, Alone, Registry, Safe
<1>4. PICK e : /\ e.op = "START" /\ e.span = s /\ op' = [op EXCEPT ![t] = Ready(e)]
               /\ activity' = [activity EXCEPT ![s] = ActivityFor(attr, current)]
               /\ UNCHANGED <<state, seen, parent, writer, deferred, log>>
  BY <1>2, <1>3 DEF on_new_span, Goto, Event, registry, locks
<1>5. /\ op'[t] = Ready(e) /\ \A u \in Threads \ {t} : op'[u] = op[u]
      /\ \A x \in Spans \ {s} : activity'[x] = activity[x]
  BY <1>1, <1>4 DEF Inv, Types
<1>6. \A x \in Spans : Starts(t, x)' <=> Starts(t, x)
  BY <1>2, <1>4, <1>5, Quietly DEF Starts, Writes
<1>7. ASSUME NEW x \in Spans PROVE Same(x)
  <2>1. (Begun(x)' <=> Begun(x)) /\ Begun(s)
    BY <1>2, <1>5, <1>6 DEF Begun, Starts, Writes
  <2>2. StoppedFor(x)' <=> StoppedFor(x)
    BY <1>1, <1>2, <1>4, Quietly, NotStopped
  <2>3. RecordedIn(x)' = RecordedIn(x)
    BY <1>1, <1>2, <1>4, SameRecorded
  <2> QED
    BY <1>1, <1>4, <1>5, <2>1, <2>2, <2>3, SameView
<1> QED
  BY <1>4, <1>7, LogStutters

\* A call of Record::record takes effect when it gets the lock.
LEMMA LogRecord ==
  ASSUME Known, Inv', TypeOK', NEW t \in Threads,
         RecordField(t) \/ RecordEnd(t) \/ \E s \in Spans, call \in Calls : RecordBegin(t, s, call)
  PROVE  Stutters \/ Promise!Next
<1>1. /\ Inv /\ TypeOK /\ LocksOK /\ Safe /\ OpOK(op[t]) /\ deferred \in [Spans -> Seq(Value)]
      /\ writer \in [Spans -> Threads \cup {None}]
  BY TypeParts DEF Known, Kept, TypeOK
<1>2. /\ UNCHANGED <<state, seen, parent, activity, log>>
      /\ op[t].pc \in {"idle", "recording"}
  BY Quietly DEF RecordField, RecordEnd, RecordBegin, Free, registry, exts
\* The step is about s; its thread records on it, or did.
<1>3. ASSUME NEW s \in Spans, NEW w, op' = [op EXCEPT ![t] = w], w.pc \in {"idle", "recording"},
             op[t].pc = "recording" => op[t].span = s,
             \A x \in Spans \ {s} : writer'[x] = writer[x] /\ deferred'[x] = deferred[x]
      PROVE  /\ \A x \in Spans : (Begun(x)' <=> Begun(x)) /\ (StoppedFor(x)' <=> StoppedFor(x))
             /\ \A x \in Spans \ {s} : Same(x)
  <2>1. op'[t] = w /\ \A u \in Threads \ {t} : op'[u] = op[u]
    BY <1>1, <1>3 DEF Inv, Types
  <2>2. ASSUME NEW x \in Spans PROVE (Begun(x)' <=> Begun(x)) /\ (StoppedFor(x)' <=> StoppedFor(x))
    <3>1. Begun(x)' <=> Begun(x)
      BY <1>2, <1>3, <2>1 DEF Begun, Starts, Writes
    <3>2. StoppedFor(x)' <=> StoppedFor(x)
      BY <1>1, <1>2, <1>3, NotStopped
    <3> QED
      BY <3>1, <3>2
  <2>3. ASSUME NEW x \in Spans, x # s PROVE Same(x)
    <3>1. writer[x] # None => writer[x] \in Threads \ {t}
      BY <1>1, <1>2, <1>3, <2>3 DEF LocksOK
    <3>2. Todo(x)' = Todo(x)
      BY <1>3, <2>1, <2>3, <3>1 DEF Todo
    <3>3. RecordedIn(x)' = RecordedIn(x)
      BY <1>3, <2>3, <3>2 DEF RecordedIn
    <3> QED
      BY <1>1, <1>2, <2>2, <3>3, SameView
  <2> QED
    BY <2>2, <2>3
<1>4. ASSUME NEW s \in Spans, NEW call \in Calls, RecordBegin(t, s, call) PROVE Promise!Next
  <2>1. /\ op[t].pc = "idle" /\ Sees(s) /\ s \in held[t] /\ writer[s] = None
        /\ writer' = [writer EXCEPT ![s] = t] /\ deferred' = deferred
        /\ op' = [op EXCEPT ![t] = [pc |-> "recording", span |-> s, todo |-> call]]
    BY <1>4, Quietly DEF RecordBegin, Free, CanWrite, Goto, exts
  <2>2. state[s] = "alive" /\ seen[s] = "visible"
    BY <1>1, <2>1 DEF Inv, Types, Registry, Sees, Safe
  <2>3. ~Begun(s) /\ ~StoppedFor(s)
    BY <1>1, <2>1, <2>2 DEF Begun, Starts, Writes, StoppedFor, Inv, Alone, Closes, Unreferenced
  <2>4. /\ \A x \in Spans : (Begun(x)' <=> Begun(x)) /\ (StoppedFor(x)' <=> StoppedFor(x))
        /\ \A x \in Spans \ {s} : Same(x)
    BY <1>1, <1>3, <2>1
  <2>5. Status(s) = "open" /\ Status(s)' = "open"
    BY <1>1, <1>2, <2>2, <2>3, <2>4, StatusIs, StatusWillBe
  <2>6. RecordedIn(s) = deferred[s]
    BY <2>1, RecordAllSteps DEF RecordedIn, Todo
  <2>7. RecordedIn(s)' = RecordAll(deferred[s], call)
    <3>1. writer'[s] = t /\ op'[t].todo = call /\ t # None
      BY <1>1, <2>1, SpanAssumption DEF SpanAssumption, Inv, Types
    <3>2. Todo(s)' = call
      BY <3>1 DEF Todo
    <3> QED
      BY <2>1, <3>2 DEF RecordedIn
  <2>8. ParentIn(s)' = ParentIn(s) /\ ActivityIn(s)' = ActivityIn(s)
    BY <1>2, <2>5 DEF ParentIn, ActivityIn
  <2> QED
    BY <1>2, <2>4, <2>5, <2>6, <2>7, <2>8, LogRecords
\* Within the call, and at its end, nothing changes for SpanLog.
<1>5. ASSUME NEW s \in Spans, RecordedIn(s)' = RecordedIn(s),
             \A x \in Spans : (Begun(x)' <=> Begun(x)) /\ (StoppedFor(x)' <=> StoppedFor(x)),
             \A x \in Spans \ {s} : Same(x)
      PROVE  Stutters
  BY <1>1, <1>2, <1>5, SameView, LogStutters
<1>6. ASSUME op[t].pc = "recording"
      PROVE  \E s \in Spans, todo \in Seq(Value) :
               /\ s = op[t].span /\ writer[s] = t
               /\ op[t] = [pc |-> "recording", span |-> s, todo |-> todo]
  BY <1>1, <1>6, OpKinds DEF LocksOK
<1>7. CASE RecordField(t)
  <2>1. op[t].pc = "recording" /\ op[t].todo # <<>> /\ writer' = writer
    BY <1>7 DEF RecordField, locks
  <2>2. PICK s \in Spans, todo \in Seq(Value) :
          /\ s = op[t].span /\ writer[s] = t
          /\ op[t] = [pc |-> "recording", span |-> s, todo |-> todo]
    BY <1>6, <2>1
  <2>3. PICK r : r = op[t]
    OBVIOUS
  <2>4. r = [pc |-> "recording", span |-> s, todo |-> todo] /\ r.todo = todo /\ todo # <<>>
    BY <2>1, <2>2, <2>3
  <2>5. /\ op' = [op EXCEPT ![t] = [pc |-> "recording", span |-> s, todo |-> Tail(todo)]]
        /\ deferred' = [deferred EXCEPT ![s] = update(deferred[s], Head(todo))]
    <3>1. [r EXCEPT !.todo = Tail(todo)] = [pc |-> "recording", span |-> s, todo |-> Tail(todo)]
      BY <2>4, Advance
    <3>2. /\ op' = [op EXCEPT ![t] = [r EXCEPT !.todo = Tail(todo)]]
          /\ deferred' = [deferred EXCEPT ![s] = update(deferred[s], Head(todo))]
      BY <1>7, <2>2, <2>3, <2>4 DEF RecordField
    <3> QED
      BY <3>1, <3>2
  <2>6. /\ op'[t].todo = Tail(todo) /\ deferred'[s] = update(deferred[s], Head(todo))
        /\ \A x \in Spans \ {s} : deferred'[x] = deferred[x]
    BY <1>1, <2>5 DEF Inv, Types
  <2>7. t # None
    BY SpanAssumption DEF SpanAssumption
  <2>8. RecordedIn(s) = RecordAll(deferred[s], todo)
    BY <2>2, <2>3, <2>4, <2>7 DEF RecordedIn, Todo
  <2>9. RecordedIn(s)' = RecordAll(update(deferred[s], Head(todo)), Tail(todo))
    BY <2>1, <2>2, <2>6, <2>7 DEF RecordedIn, Todo
  <2>10. RecordedIn(s)' = RecordedIn(s)
    BY <2>4, <2>8, <2>9, RecordAllSteps
  <2>11. /\ \A x \in Spans : (Begun(x)' <=> Begun(x)) /\ (StoppedFor(x)' <=> StoppedFor(x))
         /\ \A x \in Spans \ {s} : Same(x)
    BY <1>3, <2>1, <2>2, <2>5, <2>6
  <2> QED
    BY <1>5, <2>10, <2>11
<1>8. CASE RecordEnd(t)
  <2>1. /\ op[t].pc = "recording" /\ op[t].todo = <<>> /\ deferred' = deferred
        /\ op' = [op EXCEPT ![t] = Idle] /\ writer' = [writer EXCEPT ![op[t].span] = None]
    BY <1>8 DEF RecordEnd, Goto, exts
  <2>2. PICK s \in Spans : s = op[t].span /\ writer[s] = t
    BY <1>6, <2>1
  <2>3. writer'[s] = None /\ \A x \in Spans \ {s} : writer'[x] = writer[x]
    BY <1>1, <2>1, <2>2
  <2>4. RecordedIn(s)' = RecordedIn(s)
    BY <2>1, <2>2, <2>3 DEF RecordedIn, Todo
  <2>5. /\ \A x \in Spans : (Begun(x)' <=> Begun(x)) /\ (StoppedFor(x)' <=> StoppedFor(x))
        /\ \A x \in Spans \ {s} : Same(x)
    BY <1>3, <2>1, <2>2, <2>3, Quietly
  <2> QED
    BY <1>5, <2>4, <2>5
<1> QED
  BY <1>4, <1>7, <1>8

\* The children of a span that starts, or closes, and its parent.
LEMMA Family ==
  ASSUME Known, NEW s \in Spans, NEW t \in Threads
  PROVE  /\ Starts(t, s) => /\ Status(s) = "none" /\ ~StoppedFor(s) /\ seen[s] = "visible"
                            /\ \A u \in Threads : Starts(u, s) => u = t
                            /\ parent[s] # NoSpan => Status(parent[s]) = "open"
         /\ Closes(t, s) /\ Writes(t) /\ activity[s] # None =>
              /\ Status(s) = "open" /\ ~Begun(s) /\ seen[s] = "visible"
              /\ \A c \in Spans : ParentIn(c) = s => Status(c) = "done"
<1>1. Inv /\ TypeOK /\ Safe /\ Sights
  BY DEF Known, Pairs
<1>2. ASSUME NEW x \in Spans, state[x] = "alive", \E c \in Spans : parent[c] = x /\ state[c] = "alive"
      PROVE  ~Begun(x) /\ ~StoppedFor(x)
  BY <1>1, <1>2 DEF Begun, StoppedFor, Inv, Alone, Closes, Unreferenced
<1>3. ASSUME Starts(t, s)
      PROVE  /\ Status(s) = "none" /\ ~StoppedFor(s) /\ seen[s] = "visible"
             /\ \A u \in Threads : Starts(u, s) => u = t
             /\ parent[s] # NoSpan => Status(parent[s]) = "open"
  <2>1. Alone(t, s) /\ state[s] = "alive" /\ seen[s] = "visible" /\ s \in held[t]
    BY <1>1, <1>3 DEF Inv, Alone, Registry
  <2>2. Status(s) = "none"
    BY <1>1, <1>3, StatusIs DEF Begun
  <2>3. ~StoppedFor(s)
    BY <1>1, <2>1 DEF StoppedFor, Inv, Closes, Unreferenced
  <2>4. \A u \in Threads : Starts(u, s) => u = t
    BY <1>1, <2>1 DEF Inv, Alone
  <2>5. ASSUME parent[s] # NoSpan PROVE Status(parent[s]) = "open"
    <3>1. parent[s] \in Spans /\ state[parent[s]] = "alive" /\ seen[parent[s]] # "hidden"
      BY <1>1, <2>1, <2>5 DEF Inv, Types, Registry, SpanOrNone, Safe, Hidden
    <3>2. seen[parent[s]] = "visible"
      BY <1>1, <2>1, <3>1 DEF Inv, Types, Safe, Sights
    <3>3. ~Begun(parent[s]) /\ ~StoppedFor(parent[s])
      BY <1>2, <2>1, <3>1
    <3> QED
      BY <1>1, <3>1, <3>2, <3>3, StatusIs
  <2> QED
    BY <2>1, <2>2, <2>3, <2>4, <2>5
<1>4. ASSUME Closes(t, s), Writes(t), activity[s] # None
      PROVE  /\ Status(s) = "open" /\ ~Begun(s) /\ seen[s] = "visible"
             /\ \A c \in Spans : ParentIn(c) = s => Status(c) = "done"
  <2>1. Unreferenced(t, s) /\ seen[s] = "visible"
    BY <1>1, <1>4 DEF Inv, Sights
  <2>2. ~Begun(s)
    BY <1>1, <2>1 DEF Begun, Inv, Alone, Unreferenced
  <2>3. ~StoppedFor(s)
    BY <1>4, <2>1 DEF StoppedFor, Closes, Unreferenced, Writes
  <2>4. Status(s) = "open"
    BY <1>1, <2>1, <2>2, <2>3, StatusIs
  <2>5. ASSUME NEW c \in Spans, ParentIn(c) = s PROVE Status(c) = "done"
    <3>1. Status(c) # "none" /\ parent[c] = s
      BY <2>5, Names DEF ParentIn
    <3>2. seen[c] = "visible" /\ ~Begun(c)
      BY <1>1, <3>1, StatusIs
    <3>3. state[c] = "removed"
      BY <1>1, <2>1, <3>1, <3>2 DEF Sights, Inv, Types, Unreferenced
    <3> QED
      BY <1>1, <3>2, <3>3, StatusIs DEF StoppedFor
  <2> QED
    BY <2>1, <2>2, <2>4, <2>5
<1> QED
  BY <1>3, <1>4

\* A handler returns: its START, STOP or event is in the log or is not.
LEMMA LogReturn ==
  ASSUME Known, Inv', TypeOK', NEW t \in Threads, Skip(t) \/ Write(t)
  PROVE  Promise!Next
<1>1. Inv /\ TypeOK /\ LocksOK /\ Kept /\ Safe /\ Sights /\ Forms /\ OpOK(op[t])
  BY TypeParts DEF Known, Kept, Pairs
<1>2. PICK e : /\ e = op[t].event /\ Writes(t) /\ Return(t, e) /\ log' \in {log, Append(log, e)}
               /\ UNCHANGED <<state, seen, parent, activity, writer, deferred>>
  BY DEF Skip, Write, Writes, registry, exts
<1>3. /\ EventOK(e) /\ Formed(e) /\ StopOK(op[t]) /\ e \in Events
      /\ e.op = "INFO" => e.span \in held[t] \cup {NoSpan}
  BY <1>1, <1>2, OpKinds DEF Inv, Pending, Forms, Kept, Writes
<1>4. PICK w : /\ op' = [op EXCEPT ![t] = w]
               /\ w = IF e.op = "STOP" THEN At("removing", e.span) ELSE Idle
  BY <1>2 DEF Return, Goto
<1>5. /\ op'[t] = w /\ \A u \in Threads \ {t} : op'[u] = op[u]
      /\ w.pc = (IF e.op = "STOP" THEN "removing" ELSE "idle") /\ (e.op = "STOP" => w.span = e.span)
  BY <1>1, <1>4, Quietly DEF Inv, Types, At
<1>6. /\ e.op \in {"START", "STOP", "INFO"} /\ (e.op # "INFO" => e.span \in Spans)
      /\ \A x \in Spans : Starts(t, x) <=> e.op = "START" /\ e.span = x
      /\ \A x \in Spans : Closes(t, x) <=> e.op = "STOP" /\ e.span = x
  BY <1>2, <1>3 DEF EventOK, Starts, Closes, Writes
<1>7. ASSUME NEW x \in Spans
      PROVE  /\ Begun(x)' <=> Begun(x) /\ ~(e.op = "START" /\ e.span = x)
             /\ StoppedFor(x)' <=> StoppedFor(x) \/ (e.op = "STOP" /\ e.span = x)
             /\ RecordedIn(x)' = RecordedIn(x)
  <2>1. ~Starts(t, x)'
    BY <1>5 DEF Starts, Writes
  <2>2. \A u \in Threads \ {t} : Starts(u, x)' <=> Starts(u, x)
    BY <1>5 DEF Starts, Writes
  <2>3. Starts(t, x) => \A u \in Threads : Starts(u, x) => u = t
    BY Family
  <2>4. Begun(x)' <=> Begun(x) /\ ~(e.op = "START" /\ e.span = x)
    BY <1>6, <2>1, <2>2, <2>3 DEF Begun
  <2>5. StoppedFor(x)' <=> StoppedFor(x) \/ (e.op = "STOP" /\ e.span = x)
    BY <1>2, <1>5 DEF StoppedFor, Writes
  <2>6. RecordedIn(x)' = RecordedIn(x)
    BY <1>1, <1>2, <1>4, SameRecorded DEF Writes
  <2> QED
    BY <2>4, <2>5, <2>6
<1>8. ASSUME NEW x \in Spans, e.op = "INFO" \/ e.span # x PROVE Same(x)
  BY <1>1, <1>2, <1>7, <1>8, SameView
<1>9. CASE e.op = "INFO"
  <2>1. /\ e.span \in SpanOrNone /\ e.related = None /\ e.values = <<>>
        /\ e = [op |-> e.op, span |-> e.span, activity |-> e.activity, related |-> e.related, values |-> e.values]
    BY <1>3, <1>9 DEF Events
  <2>2. ASSUME e.span # NoSpan PROVE Status(e.span) = "open" /\ e.activity = ActivityIn(e.span)
    <3>1. e.span \in Spans /\ e.span \in held[t] /\ seen[e.span] = "visible"
      BY <1>3, <1>9, <2>1, <2>2 DEF SpanOrNone, Formed
    <3>2. ~Begun(e.span) /\ ~StoppedFor(e.span)
      BY <1>1, <1>2, <1>6, <1>9, <3>1 DEF Begun, StoppedFor, Inv, Alone, Closes, Unreferenced, Registry
    <3>3. Status(e.span) = "open"
      BY <1>1, <3>1, <3>2, StatusIs
    <3> QED
      BY <1>3, <2>2, <3>3 DEF ActivityIn, EventOK, ExtensionOf
  <2>3. e.span = NoSpan => e.activity = None
    BY <1>3 DEF EventOK, ExtensionOf
  <2>4. PICK s, a : s = e.span /\ a = e.activity
    OBVIOUS
  <2>5. e = Event("INFO", s, a, None, <<>>)
    BY <1>9, <2>1, <2>4 DEF Event
  <2>6. \A x \in Spans : Same(x)
    BY <1>8, <1>9
  <2>7. a = IF s = NoSpan THEN None ELSE ActivityIn(s)
    BY <2>2, <2>3, <2>4
  <2> QED
    BY <1>2, <2>1, <2>2, <2>4, <2>5, <2>6, <2>7, LogHappens
<1>10. CASE e.op = "START"
  <2>1. PICK s \in Spans : s = e.span /\ Starts(t, s)
    BY <1>6, <1>10
  <2>2. /\ Status(s) = "none" /\ ~StoppedFor(s) /\ seen[s] = "visible"
        /\ parent[s] # NoSpan => Status(parent[s]) = "open"
    BY <2>1, Family
  <2>3. Status(s)' = "open"
    <3>1. ~Begun(s)' /\ ~StoppedFor(s)' /\ seen'[s] = "visible"
      BY <1>2, <1>7, <1>10, <2>1, <2>2
    <3> QED
      BY <3>1, StatusWillBe
  <2>4. PICK p \in SpanOrNone, a \in Activity, r \in {e.related} : p = parent[s] /\ a = activity[s] /\ r = e.related
    <3>1. e.activity \in Activity
      BY <1>3, <1>10 DEF Events
    <3> QED
      BY <1>1, <1>3, <2>1, <3>1, Names DEF Inv, Types, EventOK, ExtensionOf
  <2>5. ParentIn(s)' = p /\ ActivityIn(s)' = a
    BY <1>2, <2>3, <2>4 DEF ParentIn, ActivityIn
  <2>6. r = IF p = NoSpan THEN None ELSE ActivityIn(p)
    BY <1>3, <1>10, <2>1, <2>2, <2>4 DEF EventOK, Formed, ActivityIn
  <2>7. e = Event("START", s, a, r, <<>>)
    <3>1. e = [op |-> e.op, span |-> e.span, activity |-> e.activity, related |-> e.related, values |-> e.values]
      BY <1>3 DEF Events
    <3>2. e.activity = a /\ e.values = <<>>
      BY <1>3, <1>10, <2>1, <2>4, Names DEF EventOK, ExtensionOf, Formed
    <3> QED
      BY <1>10, <2>1, <2>4, <3>1, <3>2 DEF Event
  <2>8. RecordedIn(s)' = RecordedIn(s) /\ \A x \in Spans \ {s} : Same(x)
    BY <1>7, <1>8, <2>1
  <2> QED
    BY <1>2, <2>2, <2>3, <2>4, <2>5, <2>6, <2>7, <2>8, LogOpens
<1>11. CASE e.op = "STOP"
  <2>1. PICK s \in Spans : s = e.span /\ Closes(t, s)
    BY <1>6, <1>11
  <2>2. e.activity \in Activity /\ e.activity = activity[s] /\ activity[s] # None
    BY <1>3, <1>11, <2>1, Names DEF Events, EventOK, ExtensionOf
  <2>3. /\ Status(s) = "open" /\ ~Begun(s) /\ seen[s] = "visible"
        /\ \A c \in Spans : ParentIn(c) = s => Status(c) = "done"
    BY <1>2, <2>1, <2>2, Family
  <2>4. Status(s)' = "done"
    BY <1>2, <1>7, <1>11, <2>1, <2>3, StatusWillBe
  <2>5. ParentIn(s)' = ParentIn(s) /\ ActivityIn(s)' = ActivityIn(s) /\ ActivityIn(s) = activity[s]
    BY <1>2, <2>3, <2>4 DEF ParentIn, ActivityIn
  <2>6. RecordedIn(s) = deferred[s]
    <3>1. \A u \in Threads : ~(op[u].pc = "recording" /\ op[u].span = s)
      BY <1>1, <2>1, NoLateRecord
    <3>2. writer[s] \in Threads \cup {None}
      BY <1>1 DEF TypeOK
    <3>3. writer[s] = None
      BY <1>1, <3>1, <3>2 DEF LocksOK
    <3> QED
      BY <3>3, RecordAllSteps DEF RecordedIn, Todo
  <2>7. e = Event("STOP", s, ActivityIn(s), None, RecordedIn(s))
    <3>1. e = [op |-> e.op, span |-> e.span, activity |-> e.activity, related |-> e.related, values |-> e.values]
      BY <1>3 DEF Events
    <3>2. e.values = deferred[s] /\ e.related = None
      BY <1>2, <1>3, <1>11, <2>1 DEF StopOK, Formed, Writes
    <3> QED
      BY <1>11, <2>1, <2>2, <2>5, <2>6, <3>1, <3>2 DEF Event
  <2>8. RecordedIn(s)' = RecordedIn(s) /\ \A x \in Spans \ {s} : Same(x)
    BY <1>7, <1>8, <2>1
  <2> QED
    BY <1>2, <2>3, <2>4, <2>5, <2>7, <2>8, LogCloses
<1> QED
  BY <1>6, <1>9, <1>10, <1>11

\* Every step is one of SpanLog or none.
LEMMA LogStep ==
  Known /\ Inv' /\ TypeOK' /\ [Next]_vars =>
    [Promise!Next]_<<StatusMap, ParentMap, ActivityMap, RecordedMap, log>>
<1> SUFFICES ASSUME Known, Inv', TypeOK', [Next]_vars PROVE Stutters \/ Promise!Next
  BY DEF Stutters
<1>1. CASE UNCHANGED vars \/ Toggle \/ Attach
  BY <1>1, LogRegistry
<1>2. ASSUME NEW t \in Threads, Handler(t) PROVE Stutters \/ Promise!Next
  BY <1>2, LogRegistry, LogBegin, LogNewHandler, LogRecord, LogReturn DEF Handler
<1>3. ASSUME NEW t \in Threads, Program(t) PROVE Stutters \/ Promise!Next
  BY <1>3, LogRegistry, LogNewSpan, LogBegin, LogRecord DEF Program
<1> QED
  BY <1>1, <1>2, <1>3 DEF Next

\* The handlers of on_new_span, on_record, on_event and on_close, with their
\* locks and in any interleaving, do what SpanLog does in single steps.
THEOREM HandlersAreAtomic == ~HiddenParents /\ ~LateLayers /\ Spec => ImplementsSpanLog
<1> SUFFICES ASSUME ~HiddenParents, ~LateLayers PROVE Spec => ImplementsSpanLog
  OBVIOUS
<1>1. Init => Safe /\ Forms /\ Promise!Init
  <2> SUFFICES ASSUME Init PROVE Safe /\ Forms /\ Promise!Init
    OBVIOUS
  <2>1. Safe /\ Forms
    BY DEF Init, Safe, Forms, Writes, Idle
  <2>2. \A s \in Spans : Status(s) = "none" /\ RecordedIn(s) = <<>>
    BY RecordAllSteps DEF Init, Status, RecordedIn, Todo
  <2>3. Promise!Init
    BY <2>2 DEF Promise!Init, Init, RecordedIn
  <2> QED
    BY <2>1, <2>3
<1>2. Inv /\ TypeOK /\ Safe /\ Forms /\ [Next]_vars => Safe' /\ Forms'
  BY SafeStep, FormsNext
<1>3. Inv /\ TypeOK /\ Kept /\ Pairs /\ Safe /\ Forms => Known
  BY DEF Known
<1>4. Known /\ Inv' /\ TypeOK' /\ [Next]_vars =>
        [Promise!Next]_<<StatusMap, ParentMap, ActivityMap, RecordedMap, log>>
  BY LogStep
<1> QED
  BY <1>1, <1>2, <1>3, <1>4, InvAlways, TypeCorrect, KeptAlways, PairsAlways, PTL
     DEF Spec, ImplementsSpanLog, Promise!Spec, StatusMap, ParentMap, ActivityMap, RecordedMap
=============================================================================
