---------------------------- MODULE DynamicScope ----------------------------
(***************************************************************************)
(* What `with_activity` promises (win_etw_provider/src/provider.rs): the   *)
(* activity id of a thread is dynamically scoped.  Every thread has a      *)
(* chain of ids, the innermost one is in force, and leaving a scope, in    *)
(* whatever way, uncovers the id that was in force when it was entered.    *)
(***************************************************************************)
EXTENDS Naturals, Sequences

CONSTANTS Threads, Ids, NoActivity

VARIABLES scope, created

Innermost(t) == scope[t][Len(scope[t])]

Init ==
  /\ scope = [t \in Threads |-> <<NoActivity>>]
  /\ created = {}

\* An id made for some other use is not given to a scope later.
Make(id) ==
  /\ id \notin created
  /\ created' = created \cup {id}
  /\ UNCHANGED scope

\* A nested scope has an id never seen before ...
Enter(t, id) ==
  /\ id \notin created
  /\ created' = created \cup {id}
  /\ scope' = [scope EXCEPT ![t] = Append(@, id)]

\* ... or, when none can be made, the id of the scope around it.
EnterSame(t) ==
  /\ scope' = [scope EXCEPT ![t] = Append(@, Innermost(t))]
  /\ UNCHANGED created

Leave(t) ==
  /\ Len(scope[t]) > 1
  /\ scope' = [scope EXCEPT ![t] = SubSeq(@, 1, Len(@) - 1)]
  /\ UNCHANGED created

Next ==
  \/ \E id \in Ids : Make(id)
  \/ \E t \in Threads : (\E id \in Ids : Enter(t, id)) \/ EnterSame(t) \/ Leave(t)

Spec == Init /\ [][Next]_<<scope, created>>
=============================================================================
