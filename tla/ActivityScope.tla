--------------------------- MODULE ActivityScope ---------------------------
(***************************************************************************)
(* Threads inside nested calls of `with_activity`, returning and unwinding *)
(* (win_etw_provider/src/provider.rs).  A call of with_activity is a frame *)
(* that owns a RestoreActivityHolder; the thread's current activity id is  *)
(* ETW's, reached through EventActivityIdControl.                          *)
(***************************************************************************)
EXTENDS Naturals, Sequences, FiniteSets

CONSTANTS
  Threads,
  Ids,         \* the ids EventActivityIdControl can create
  NoActivity,  \* the id of a thread that has none (GUID_NULL)
  None,        \* the Option's None
  MaxDepth     \* bound: nested calls of with_activity in one thread

ASSUME ScopeAssumption ==
  /\ NoActivity \notin Ids
  /\ None \notin Ids \cup {NoActivity}
  /\ MaxDepth \in Nat

VARIABLES
  current,   \* ETW: the current activity id of each thread
  frames,    \* per thread, the frames of with_activity, outermost first
  unwinding, \* per thread, TRUE while a panic unwinds its stack
  created,   \* ETW: ids handed out so far (never handed out twice)
  entry      \* auxiliary: per thread and frame, the id in force at the call

vars == <<current, frames, unwinding, created, entry>>

AnyId == Ids \cup {NoActivity}

TypeOK ==
  /\ current \in [Threads -> AnyId]
  /\ frames \in [Threads -> Seq([previous_activity_id : AnyId \cup {None}])]
  /\ unwinding \in [Threads -> BOOLEAN]
  /\ created \subseteq Ids
  /\ entry \in [Threads -> Seq(AnyId)]

Init ==
  /\ current = [t \in Threads |-> NoActivity]
  /\ frames = [t \in Threads |-> <<>>]
  /\ unwinding = [t \in Threads |-> FALSE]
  /\ created = {}
  /\ entry = [t \in Threads |-> <<>>]

-----------------------------------------------------------------------------
(* EventActivityIdControl: external.                                       *)

CREATE_ID(id) == id \in Ids \ created /\ created' = created \cup {id}

SET_ID(t, id) == current' = [current EXCEPT ![t] = id]

-----------------------------------------------------------------------------
Depth(t) == Len(frames[t])

\* new_activity_id: CREATE_ID does not touch the calling thread's id.
new_activity_id(id) ==
  /\ CREATE_ID(id)
  /\ UNCHANGED <<current, frames, unwinding, entry>>

Push(t, holder) ==
  /\ ~unwinding[t] /\ Depth(t) < MaxDepth
  /\ frames' = [frames EXCEPT ![t] = Append(@, [previous_activity_id |-> holder])]
  /\ entry' = [entry EXCEPT ![t] = Append(@, current[t])]
  /\ UNCHANGED unwinding

\* Seeded fault: one activity id for the whole process.
EnterActivity_ProcessWide(t, id) ==
  /\ CREATE_ID(id) /\ current' = [u \in Threads |-> id]
  /\ Push(t, current[t])

\* CREATE_SET_ID reports the id it replaced, which the holder keeps.
EnterActivity(t, id) ==
  /\ CREATE_ID(id) /\ SET_ID(t, id)
  /\ Push(t, current[t])

\* Seeded fault: a failure is taken for a replaced id of zero.
EnterFailed_KeepsZero(t) ==
  /\ Push(t, NoActivity)
  /\ UNCHANGED <<current, created>>

\* CREATE_SET_ID failed: the holder keeps None and f runs all the same.
EnterFailed(t) ==
  /\ Push(t, None)
  /\ UNCHANGED <<current, created>>

\* Seeded fault: what the holder keeps is restored unseen.
Restore_Always(t, holder) == SET_ID(t, holder.previous_activity_id)

\* RestoreActivityHolder::drop.
Restore(t, holder) ==
  IF holder.previous_activity_id # None
  THEN SET_ID(t, holder.previous_activity_id)
  ELSE UNCHANGED current

Leave(t) ==
  /\ Depth(t) > 0
  /\ Restore(t, frames[t][Depth(t)])
  /\ frames' = [frames EXCEPT ![t] = SubSeq(@, 1, Len(@) - 1)]
  /\ entry' = [entry EXCEPT ![t] = SubSeq(@, 1, Len(@) - 1)]
  /\ UNCHANGED created

\* f returned: `drop(restore)`.
Return(t) == ~unwinding[t] /\ Leave(t) /\ UNCHANGED unwinding

\* f panicked: the frames are dropped one by one, until some caller of
\* with_activity catches the panic or the thread has no frame left.
Panic(t) ==
  /\ ~unwinding[t] /\ Depth(t) > 0
  /\ unwinding' = [unwinding EXCEPT ![t] = TRUE]
  /\ UNCHANGED <<current, frames, created, entry>>

Unwind(t) ==
  /\ unwinding[t] /\ Leave(t)
  /\ unwinding' \in {unwinding, [unwinding EXCEPT ![t] = FALSE]}
  /\ Depth(t) = 1 => ~unwinding'[t]

Next ==
  \/ \E id \in Ids : new_activity_id(id)
  \/ \E t \in Threads :
       \/ \E id \in Ids : EnterActivity(t, id)
       \/ EnterFailed(t) \/ Return(t) \/ Panic(t) \/ Unwind(t)

Spec == Init /\ [][Next]_vars

-----------------------------------------------------------------------------
(* Properties.                                                             *)

\* The ids of the scopes a thread is in, outermost first, current id last.
Chain(t) == [i \in 1..Depth(t) + 1 |-> IF i <= Depth(t) THEN entry[t][i] ELSE current[t]]

\* "After the function finishes, it restores the activity ID of the calling
\* thread (even if a panic occurs)": with_activity implements dynamic scoping,
\* through failures of CREATE_SET_ID and through unwinding.
Scoped == INSTANCE DynamicScope WITH scope <- [t \in Threads |-> Chain(t)]
IsDynamicallyScoped == Scoped!Spec

\* No activity leaks from one thread into another: an id is in force, or
\* waits to be restored when with_activity returns, in one thread at most.
ActivityBelongsToOneThread ==
  \A t, u \in Threads : \A i \in 1..Depth(t) + 1, j \in 1..Depth(u) + 1 :
    Chain(t)[i] = Chain(u)[j] /\ Chain(t)[i] # NoActivity => t = u
=============================================================================
