------------------------ MODULE ActivityScopeProofs ------------------------
(***************************************************************************)
(* ActivityScope implements DynamicScope, for any threads, ids and depth.  *)
(* The invariant says what each RestoreActivityHolder is worth: it holds   *)
(* the id in force when with_activity was called, or None, and None only   *)
(* when the call did not change the id.                                    *)
(***************************************************************************)
EXTENDS ActivityScope, SequenceTheorems, TLAPS

HoldersOK ==
  \A t \in Threads :
    /\ Len(entry[t]) = Depth(t)
    /\ \A i \in 1..Depth(t) :
         IF frames[t][i].previous_activity_id = None
         THEN Chain(t)[i + 1] = entry[t][i]
         ELSE frames[t][i].previous_activity_id = entry[t][i]

Inv == TypeOK /\ HoldersOK

LEMMA InitInv == Init => Inv
  BY DEF Init, Inv, TypeOK, HoldersOK, Depth, AnyId

\* Entering: thread t gains a frame whose holder is `holder`.
LEMMA PushInv ==
  ASSUME Inv, NEW t \in Threads, NEW holder \in AnyId \cup {None}, Push(t, holder),
         current' \in [Threads -> AnyId], created' \subseteq Ids,
         \A u \in Threads \ {t} : current'[u] = current[u],
         holder = None => current'[t] = current[t],
         holder # None => holder = current[t],
         NEW n \in Nat, n = Depth(t)
  PROVE  /\ Inv'
         /\ Chain(t)' = Append(Chain(t), current'[t])
         /\ Chain(t)[Len(Chain(t))] = current[t]
         /\ \A u \in Threads \ {t} : Chain(u)' = Chain(u)
<1> DEFINE h == [previous_activity_id |-> holder]
<1>1. /\ frames[t] \in Seq([previous_activity_id : AnyId \cup {None}]) /\ Len(frames[t]) = n
      /\ entry[t] \in Seq(AnyId) /\ Len(entry[t]) = n
      /\ current[t] \in AnyId /\ current'[t] \in AnyId
      /\ \A i \in 1..n : IF frames[t][i].previous_activity_id = None
                        THEN Chain(t)[i + 1] = entry[t][i]
                        ELSE frames[t][i].previous_activity_id = entry[t][i]
  BY DEF Inv, TypeOK, HoldersOK, Depth
<1>2. /\ frames'[t] = Append(frames[t], h) /\ entry'[t] = Append(entry[t], current[t])
      /\ \A u \in Threads \ {t} : frames'[u] = frames[u] /\ entry'[u] = entry[u]
  BY DEF Push, Inv, TypeOK
<1>3. /\ h \in [previous_activity_id : AnyId \cup {None}]
      /\ Len(frames'[t]) = n + 1 /\ Len(entry'[t]) = n + 1
      /\ \A i \in 1..n : frames'[t][i] = frames[t][i] /\ entry'[t][i] = entry[t][i]
      /\ frames'[t][n + 1] = h /\ entry'[t][n + 1] = current[t]
  BY <1>1, <1>2
<1>4. TypeOK'
  <2>1. /\ Append(frames[t], h) \in Seq([previous_activity_id : AnyId \cup {None}])
        /\ Append(entry[t], current[t]) \in Seq(AnyId)
    BY <1>1, <1>3
  <2>2. frames' \in [Threads -> Seq([previous_activity_id : AnyId \cup {None}])]
    BY <2>1 DEF Push, Inv, TypeOK
  <2>3. entry' \in [Threads -> Seq(AnyId)]
    BY <2>1 DEF Push, Inv, TypeOK
  <2>4. unwinding' \in [Threads -> BOOLEAN]
    BY DEF Push, Inv, TypeOK
  <2> QED BY <2>2, <2>3, <2>4 DEF TypeOK
<1>5. \A u \in Threads \ {t} : Depth(u)' = Depth(u) /\ Chain(u)' = Chain(u)
  BY <1>2 DEF Chain, Depth
<1>6. /\ Chain(t) = [i \in 1..n + 1 |-> IF i <= n THEN entry[t][i] ELSE current[t]]
      /\ Chain(t)' = [i \in 1..(n + 1) + 1 |-> IF i <= n + 1 THEN entry'[t][i] ELSE current'[t]]
  BY <1>1, <1>3 DEF Chain, Depth
<1>7. /\ Chain(t) \in Seq(AnyId) /\ Len(Chain(t)) = n + 1
  <2>1. \A i \in 1..n + 1 : Chain(t)[i] \in AnyId
    BY <1>1, <1>6
  <2> QED BY <1>6, <2>1
<1>8. Chain(t)' = Append(Chain(t), current'[t])
  <2>1. \A i \in 1..n + 1 : Chain(t)'[i] = Chain(t)[i]
    BY <1>1, <1>3, <1>6
  <2>2. Chain(t)'[n + 2] = current'[t]
    BY <1>6
  <2>3. /\ Append(Chain(t), current'[t]) \in Seq(AnyId)
        /\ Len(Append(Chain(t), current'[t])) = n + 2
        /\ \A i \in 1..n + 1 : Append(Chain(t), current'[t])[i] = Chain(t)[i]
        /\ Append(Chain(t), current'[t])[n + 2] = current'[t]
    BY <1>1, <1>7
  <2>4. Chain(t)' \in Seq(AnyId) /\ Len(Chain(t)') = n + 2
    <3>1. \A i \in 1..n + 2 : Chain(t)'[i] \in AnyId
      <4>1. \A i \in 1..n + 1 : Chain(t)[i] \in AnyId
        BY <1>7
      <4>2. \A i \in 1..n + 2 : i = n + 2 \/ i \in 1..n + 1
        OBVIOUS
      <4> QED BY <1>1, <2>1, <2>2, <4>1, <4>2
    <3>2. Chain(t)' = [i \in 1..n + 2 |-> Chain(t)'[i]]
      BY <1>6
    <3> QED BY <3>1, <3>2
  <2>5. \A i \in 1..n + 2 : Chain(t)'[i] = Append(Chain(t), current'[t])[i]
    BY <2>1, <2>2, <2>3
  <2> QED BY <2>3, <2>4, <2>5, SeqEqual
<1>9. HoldersOK'
  <2>1. ASSUME NEW u \in Threads \ {t}
        PROVE  /\ Len(entry'[u]) = Depth(u)'
               /\ \A i \in 1..Depth(u)' :
                    IF frames'[u][i].previous_activity_id = None
                    THEN Chain(u)'[i + 1] = entry'[u][i]
                    ELSE frames'[u][i].previous_activity_id = entry'[u][i]
    BY <1>2, <1>5 DEF Inv, HoldersOK
  <2>2. ASSUME NEW i \in 1..n + 1
        PROVE  IF frames'[t][i].previous_activity_id = None
               THEN Chain(t)'[i + 1] = entry'[t][i]
               ELSE frames'[t][i].previous_activity_id = entry'[t][i]
    <3>1. CASE i = n + 1
      BY <1>3, <1>6, <3>1
    <3>2. CASE i # n + 1
      <4>1. i \in 1..n /\ i + 1 \in 1..n + 1
        BY <3>2
      <4>2. Chain(t)'[i + 1] = Chain(t)[i + 1]
        BY <1>3, <1>6, <4>1
      <4> QED BY <1>1, <1>3, <4>1, <4>2
    <3> QED BY <3>1, <3>2
  <2>3. Depth(t)' = n + 1
    BY <1>3 DEF Depth
  <2> QED BY <1>3, <2>1, <2>2, <2>3 DEF HoldersOK
<1>10. Chain(t)[Len(Chain(t))] = current[t]
  BY <1>6, <1>7
<1> QED BY <1>4, <1>5, <1>8, <1>9, <1>10 DEF Inv

\* Leaving, by return or by unwinding: the id of the call is back.
LEMMA LeaveInv ==
  ASSUME Inv, NEW t \in Threads, Leave(t), unwinding' \in [Threads -> BOOLEAN],
         NEW n \in Nat, n = Depth(t)
  PROVE  /\ Inv'
         /\ Len(Chain(t)) > 1
         /\ Chain(t)' = SubSeq(Chain(t), 1, Len(Chain(t)) - 1)
         /\ \A u \in Threads \ {t} : Chain(u)' = Chain(u)
<1> DEFINE Frame == [previous_activity_id : AnyId \cup {None}]
           h == frames[t][n]
<1>1. /\ frames[t] \in Seq(Frame) /\ Len(frames[t]) = n
      /\ entry[t] \in Seq(AnyId) /\ Len(entry[t]) = n
      /\ current[t] \in AnyId /\ n > 0 /\ n - 1 \in Nat
      /\ \A i \in 1..n : IF frames[t][i].previous_activity_id = None
                        THEN Chain(t)[i + 1] = entry[t][i]
                        ELSE frames[t][i].previous_activity_id = entry[t][i]
  <2>1. n > 0 /\ n - 1 \in Nat
    BY DEF Leave
  <2> QED BY <2>1 DEF Inv, TypeOK, HoldersOK, Depth
<1>2. /\ Chain(t) = [i \in 1..n + 1 |-> IF i <= n THEN entry[t][i] ELSE current[t]]
      /\ Chain(t)[n + 1] = current[t]
      /\ \A i \in 1..n : Chain(t)[i] = entry[t][i]
  BY <1>1 DEF Chain, Depth
<1>3. /\ current' \in [Threads -> AnyId] /\ current'[t] = entry[t][n]
      /\ \A u \in Threads \ {t} : current'[u] = current[u]
  <2>1. n \in 1..n /\ h.previous_activity_id \in AnyId \cup {None} /\ entry[t][n] \in AnyId
    BY <1>1
  <2>2. CASE h.previous_activity_id = None
    BY <1>1, <1>2, <2>1, <2>2 DEF Leave, Restore, Inv, TypeOK
  <2>3. CASE h.previous_activity_id # None
    <3>1. current' = [current EXCEPT ![t] = h.previous_activity_id]
      BY <2>3 DEF Leave, Restore, SET_ID
    <3> QED BY <1>1, <2>1, <2>3, <3>1 DEF Inv, TypeOK
  <2> QED BY <2>2, <2>3
<1>4. /\ frames'[t] = SubSeq(frames[t], 1, n - 1) /\ entry'[t] = SubSeq(entry[t], 1, n - 1)
      /\ \A u \in Threads \ {t} : frames'[u] = frames[u] /\ entry'[u] = entry[u]
  BY <1>1 DEF Leave, Inv, TypeOK
<1>5. /\ SubSeq(frames[t], 1, n - 1) \in Seq(Frame) /\ SubSeq(entry[t], 1, n - 1) \in Seq(AnyId)
      /\ Len(frames'[t]) = n - 1 /\ Len(entry'[t]) = n - 1
      /\ \A i \in 1..n - 1 : frames'[t][i] = frames[t][i] /\ entry'[t][i] = entry[t][i]
  <2>1. /\ \A i \in 1..n - 1 : frames[t][i] \in Frame /\ entry[t][i] \in AnyId
        /\ 1 \in Int /\ n - 1 \in Int
    <3>1. \A i \in 1..n - 1 : i \in 1..Len(frames[t]) /\ i \in 1..Len(entry[t])
      BY <1>1
    <3> HIDE DEF Frame
    <3>2. \A i \in 1..n - 1 : frames[t][i] \in Frame /\ entry[t][i] \in AnyId
      BY <1>1, <3>1, ElementOfSeq
    <3> QED BY <1>1, <3>2
  <2>2. /\ SubSeq(frames[t], 1, n - 1) \in Seq(Frame)
        /\ Len(SubSeq(frames[t], 1, n - 1)) = n - 1
        /\ \A i \in 1..n - 1 : SubSeq(frames[t], 1, n - 1)[i] = frames[t][i]
    <3> HIDE DEF Frame
    <3> QED BY <1>1, <2>1, SubSeqProperties
  <2>3. /\ SubSeq(entry[t], 1, n - 1) \in Seq(AnyId)
        /\ Len(SubSeq(entry[t], 1, n - 1)) = n - 1
        /\ \A i \in 1..n - 1 : SubSeq(entry[t], 1, n - 1)[i] = entry[t][i]
    BY <1>1, <2>1, SubSeqProperties
  <2> QED BY <1>4, <2>2, <2>3
<1>6. TypeOK'
  <2>1. frames' \in [Threads -> Seq(Frame)]
    BY <1>1, <1>5 DEF Leave, Inv, TypeOK
  <2>2. entry' \in [Threads -> Seq(AnyId)]
    BY <1>1, <1>5 DEF Leave, Inv, TypeOK
  <2> QED BY <1>3, <2>1, <2>2 DEF TypeOK, Leave, Inv
<1>7. \A u \in Threads \ {t} : Depth(u)' = Depth(u) /\ Chain(u)' = Chain(u)
  BY <1>3, <1>4 DEF Chain, Depth
<1>8. Chain(t)' = [i \in 1..n |-> IF i <= n - 1 THEN entry'[t][i] ELSE current'[t]]
  <2>1. (n - 1) + 1 = n
    BY <1>1
  <2> QED BY <1>5, <2>1 DEF Chain, Depth
<1>9. \A i \in 1..n : Chain(t)'[i] = Chain(t)[i]
  <2>1. \A i \in 1..n : i = n \/ i \in 1..n - 1
    BY <1>1
  <2>2. \A i \in 1..n - 1 : Chain(t)'[i] = entry[t][i]
    BY <1>1, <1>5, <1>8
  <2>3. Chain(t)'[n] = entry[t][n]
    BY <1>1, <1>3, <1>8
  <2> QED BY <1>1, <1>2, <2>1, <2>2, <2>3
<1>10. Chain(t) \in Seq(AnyId) /\ Len(Chain(t)) = n + 1
  <2>1. \A i \in 1..n + 1 : Chain(t)[i] \in AnyId
    BY <1>1, <1>2
  <2> QED BY <1>2, <2>1
<1>11. Chain(t)' = SubSeq(Chain(t), 1, Len(Chain(t)) - 1)
  <2>1. /\ SubSeq(Chain(t), 1, n) \in Seq(AnyId) /\ Len(SubSeq(Chain(t), 1, n)) = n
        /\ \A i \in 1..n : SubSeq(Chain(t), 1, n)[i] = Chain(t)[i]
    BY <1>1, <1>10
  <2>2. Chain(t)' \in Seq(AnyId) /\ Len(Chain(t)') = n
    <3>1. \A i \in 1..n : Chain(t)'[i] \in AnyId
      <4>1. \A i \in 1..n : entry[t][i] \in AnyId
        BY <1>1
      <4> QED BY <1>2, <1>9, <4>1
    <3>2. Chain(t)' = [i \in 1..n |-> Chain(t)'[i]]
      BY <1>8
    <3> QED BY <3>1, <3>2
  <2>3. \A i \in 1..n : Chain(t)'[i] = SubSeq(Chain(t), 1, n)[i]
    BY <1>9, <2>1
  <2>4. Chain(t)' = SubSeq(Chain(t), 1, n)
    BY <2>1, <2>2, <2>3, SeqEqual
  <2>5. Len(Chain(t)) - 1 = n
    BY <1>10
  <2> QED BY <2>4, <2>5
<1>12. HoldersOK'
  <2>1. ASSUME NEW u \in Threads \ {t}
        PROVE  /\ Len(entry'[u]) = Depth(u)'
               /\ \A i \in 1..Depth(u)' :
                    IF frames'[u][i].previous_activity_id = None
                    THEN Chain(u)'[i + 1] = entry'[u][i]
                    ELSE frames'[u][i].previous_activity_id = entry'[u][i]
    <3>1. Depth(u)' = Depth(u) /\ Chain(u)' = Chain(u)
      BY <1>7
    <3>2. frames'[u] = frames[u] /\ entry'[u] = entry[u]
      BY <1>4
    <3> QED BY <3>1, <3>2 DEF Inv, HoldersOK
  <2>2. ASSUME NEW i \in 1..n - 1
        PROVE  IF frames'[t][i].previous_activity_id = None
               THEN Chain(t)'[i + 1] = entry'[t][i]
               ELSE frames'[t][i].previous_activity_id = entry'[t][i]
    <3>1. i \in 1..n /\ i + 1 \in 1..n
      BY <1>1
    <3>2. Chain(t)'[i + 1] = Chain(t)[i + 1]
      BY <1>9, <3>1
    <3> QED BY <1>1, <1>5, <3>1, <3>2
  <2>3. Depth(t)' = n - 1
    BY <1>5 DEF Depth
  <2> QED BY <1>5, <2>1, <2>2, <2>3 DEF HoldersOK
<1> QED BY <1>1, <1>6, <1>7, <1>10, <1>11, <1>12 DEF Inv

-----------------------------------------------------------------------------
ChainMap == [t \in Threads |-> Chain(t)]

\* Every step is a step of DynamicScope, or leaves its variables alone.
LEMMA StepSimulation ==
  ASSUME Inv, [Next]_vars
  PROVE  Inv' /\ [Scoped!Next]_<<ChainMap, created>>
<1> USE DEF ChainMap
<1>0. \A t \in Threads : Depth(t) \in Nat
  BY DEF Inv, TypeOK, Depth
<1>1. ASSUME UNCHANGED <<current, frames, entry>>, unwinding' \in [Threads -> BOOLEAN],
             created' \subseteq Ids
      PROVE  Inv' /\ ChainMap' = ChainMap
  <2>1. \A t \in Threads : Chain(t)' = Chain(t) /\ Depth(t)' = Depth(t)
    BY <1>1 DEF Chain, Depth
  <2> QED BY <1>1, <2>1 DEF Inv, TypeOK, HoldersOK
<1>2. CASE UNCHANGED vars
  BY <1>1, <1>2 DEF vars, Inv, TypeOK
<1>3. ASSUME NEW id \in Ids, new_activity_id(id)
      PROVE  Inv' /\ Scoped!Next
  <2>1. Inv' /\ ChainMap' = ChainMap
    BY <1>1, <1>3 DEF new_activity_id, CREATE_ID, Inv, TypeOK
  <2>2. Scoped!Make(id)
    BY <1>3, <2>1 DEF new_activity_id, CREATE_ID, Scoped!Make
  <2> QED BY <2>1, <2>2 DEF Scoped!Next
<1>4. ASSUME NEW t \in Threads, NEW id \in Ids, EnterActivity(t, id)
      PROVE  Inv' /\ Scoped!Next
  <2>1. /\ Push(t, current[t]) /\ current' = [current EXCEPT ![t] = id]
        /\ created' = created \cup {id} /\ id \notin created
    BY <1>4 DEF EnterActivity, CREATE_ID, SET_ID
  <2>2. /\ current' \in [Threads -> AnyId] /\ current[t] \in AnyId /\ current'[t] = id
        /\ current[t] # None /\ created' \subseteq Ids
        /\ \A u \in Threads \ {t} : current'[u] = current[u]
    BY <2>1, ScopeAssumption DEF ScopeAssumption, Inv, TypeOK, AnyId
  <2>3. /\ Inv' /\ Chain(t)' = Append(Chain(t), id)
        /\ \A u \in Threads \ {t} : Chain(u)' = Chain(u)
    BY <1>0, <2>1, <2>2, PushInv
  <2>4. ChainMap' = [ChainMap EXCEPT ![t] = Append(@, id)]
    BY <2>3
  <2>5. Scoped!Enter(t, id)
    BY <2>1, <2>4 DEF Scoped!Enter
  <2> QED BY <2>3, <2>5 DEF Scoped!Next
<1>5. ASSUME NEW t \in Threads, EnterFailed(t)
      PROVE  Inv' /\ Scoped!Next
  <2>1. /\ Push(t, None) /\ current' = current /\ created' = created
        /\ None \notin AnyId /\ None \in AnyId \cup {None}
        /\ current' \in [Threads -> AnyId] /\ created' \subseteq Ids
    BY <1>5, ScopeAssumption DEF ScopeAssumption, EnterFailed, Inv, TypeOK, AnyId
  <2>2. /\ Inv' /\ Chain(t)' = Append(Chain(t), current'[t])
        /\ Chain(t)[Len(Chain(t))] = current[t]
        /\ \A u \in Threads \ {t} : Chain(u)' = Chain(u)
    BY <1>0, <2>1, PushInv
  <2>3. ChainMap' = [ChainMap EXCEPT ![t] = Append(@, ChainMap[t][Len(ChainMap[t])])]
    BY <2>1, <2>2
  <2>4. Scoped!EnterSame(t)
    BY <2>1, <2>3 DEF Scoped!EnterSame, Scoped!Innermost
  <2> QED BY <2>2, <2>4 DEF Scoped!Next
<1>6. ASSUME NEW t \in Threads, Leave(t), unwinding' \in [Threads -> BOOLEAN]
      PROVE  Inv' /\ Scoped!Next
  <2>1. /\ Inv' /\ Len(Chain(t)) > 1
        /\ Chain(t)' = SubSeq(Chain(t), 1, Len(Chain(t)) - 1)
        /\ \A u \in Threads \ {t} : Chain(u)' = Chain(u)
    BY <1>0, <1>6, LeaveInv
  <2>2. ChainMap' = [ChainMap EXCEPT ![t] = SubSeq(@, 1, Len(@) - 1)]
    BY <2>1
  <2>3. Scoped!Leave(t)
    BY <1>6, <2>1, <2>2 DEF Scoped!Leave, Leave
  <2> QED BY <2>1, <2>3 DEF Scoped!Next
<1>7. ASSUME NEW t \in Threads, Return(t)
      PROVE  Inv' /\ Scoped!Next
  BY <1>6, <1>7 DEF Return, Inv, TypeOK
<1>8. ASSUME NEW t \in Threads, Unwind(t)
      PROVE  Inv' /\ Scoped!Next
  BY <1>6, <1>8 DEF Unwind, Inv, TypeOK
<1>9. ASSUME NEW t \in Threads, Panic(t)
      PROVE  Inv' /\ ChainMap' = ChainMap /\ created' = created
  BY <1>1, <1>9 DEF Panic, Inv, TypeOK
<1> QED BY <1>1, <1>2, <1>3, <1>4, <1>5, <1>7, <1>8, <1>9 DEF Next, vars

\* with_activity is dynamic scoping, whatever fails and whatever panics.
THEOREM DynamicallyScoped == Spec => IsDynamicallyScoped
<1>1. Init => Inv /\ Scoped!Init
  <2>1. Init => Scoped!Init
    BY DEF Init, Scoped!Init, Chain, Depth
  <2> QED BY <2>1, InitInv
<1>2. Inv /\ [Next]_vars => Inv' /\ [Scoped!Next]_<<ChainMap, created>>
  BY StepSimulation
<1> QED BY <1>1, <1>2, PTL DEF Spec, IsDynamicallyScoped, Scoped!Spec, ChainMap

\* TypeOK holds in every reachable state, for any threads, ids and depth.
THEOREM TypeCorrect == Spec => []TypeOK
<1>1. Inv /\ [Next]_vars => Inv'
  BY StepSimulation
<1>2. Inv => TypeOK
  BY DEF Inv
<1> QED BY InitInv, <1>1, <1>2, PTL DEF Spec

-----------------------------------------------------------------------------
(* The ids in force.  That an activity belongs to one thread follows from  *)
(* dynamic scoping alone: a chain gains an id only by repeating its own    *)
(* innermost one or by taking one that was never handed out.               *)

Has(t, id) == \E i \in 1..Depth(t) + 1 : Chain(t)[i] = id

Owned ==
  \A t \in Threads : \A id : Has(t, id) /\ id # NoActivity =>
    id \in created /\ \A u \in Threads : Has(u, id) => u = t

\* One thread takes one new id at most.
LEMMA OwnedStep ==
  ASSUME Owned, NEW v \in Threads, NEW new, created \subseteq created',
         \A t \in Threads : \A id : Has(t, id)' =>
           Has(t, id) \/ (t = v /\ id = new /\ id \notin created /\ id \in created')
  PROVE  Owned'
BY DEF Owned

\* A chain that another one starts with has no other ids.
LEMMA HasLess ==
  ASSUME NEW t \in Threads, Depth(t) \in Nat, Depth(t)' \in Nat,
         NEW id, Has(t, id)',
         \/ Chain(t)' = Chain(t)
         \/ Len(Chain(t)) > 1 /\ Chain(t)' = SubSeq(Chain(t), 1, Len(Chain(t)) - 1)
  PROVE  Has(t, id)
<1> DEFINE n == Depth(t) + 1
           m == Depth(t)' + 1
<1>1. /\ n \in Nat /\ DOMAIN Chain(t) = 1..n /\ Len(Chain(t)) = n
      /\ m \in Nat /\ DOMAIN Chain(t)' = 1..m
  BY DEF Chain
<1>2. PICK i \in 1..m : Chain(t)'[i] = id
  BY DEF Has
<1>3. CASE Chain(t)' = Chain(t)
  BY <1>1, <1>2, <1>3 DEF Has
<1>4. CASE n > 1 /\ Chain(t)' = SubSeq(Chain(t), 1, n - 1)
  <2>1. DOMAIN SubSeq(Chain(t), 1, n - 1) = 1..n - 1
    BY <1>1, <1>4
  <2>2. i \in 1..n - 1 /\ Chain(t)'[i] = Chain(t)[i]
    BY <1>1, <1>2, <1>4, <2>1
  <2> QED BY <1>1, <1>2, <2>2 DEF Has
<1> QED BY <1>1, <1>3, <1>4

\* A chain that is another one with an id appended has the ids of that one
\* and the appended one.
LEMMA HasMore ==
  ASSUME NEW t \in Threads, Depth(t) \in Nat, Depth(t)' \in Nat,
         NEW new, Chain(t)' = Append(Chain(t), new),
         NEW id, Has(t, id)', id # new
  PROVE  Has(t, id)
<1> DEFINE n == Depth(t) + 1
           m == Depth(t)' + 1
<1>1. /\ n \in Nat /\ DOMAIN Chain(t) = 1..n /\ Len(Chain(t)) = n
      /\ m \in Nat /\ DOMAIN Chain(t)' = 1..m
  BY DEF Chain
<1>2. PICK i \in 1..m : Chain(t)'[i] = id
  BY DEF Has
<1>3. DOMAIN Append(Chain(t), new) = 1..n + 1 /\ Append(Chain(t), new)[n + 1] = new
  BY <1>1
<1>4. i \in 1..n /\ Chain(t)'[i] = Chain(t)[i]
  BY <1>1, <1>2, <1>3
<1> QED BY <1>1, <1>2, <1>4 DEF Has

LEMMA OwnedNext ==
  ASSUME Inv, Inv', Owned, [Scoped!Next]_<<ChainMap, created>>
  PROVE  Owned'
<1>0. \A t \in Threads : Depth(t) \in Nat /\ Depth(t)' \in Nat
  BY DEF Inv, TypeOK, Depth
<1>1. ASSUME NEW t \in Threads, ChainMap'[t] = ChainMap[t], NEW id, Has(t, id)'
      PROVE  Has(t, id)
  BY <1>0, <1>1, HasLess DEF ChainMap
<1>2. ASSUME created \subseteq created',
             \A u \in Threads : \A id : Has(u, id)' => Has(u, id)
      PROVE  Owned'
  BY <1>2 DEF Owned
<1>3. ASSUME created \subseteq created', ChainMap' = ChainMap PROVE Owned'
  BY <1>1, <1>2, <1>3
<1>4. ASSUME NEW t \in Threads, NEW new, created \subseteq created',
             ChainMap' = [ChainMap EXCEPT ![t] = Append(@, new)],
             Has(t, new) \/ (new \notin created /\ new \in created')
      PROVE  Owned'
  <2>1. Chain(t)' = Append(Chain(t), new) /\ \A u \in Threads \ {t} : ChainMap'[u] = ChainMap[u]
    BY <1>4 DEF ChainMap
  <2>2. ASSUME NEW u \in Threads, NEW id, Has(u, id)'
        PROVE  Has(u, id) \/ (u = t /\ id = new)
    BY <1>0, <1>1, <2>1, <2>2, HasMore
  <2> QED BY <1>4, <2>2, OwnedStep
<1>5. ASSUME NEW t \in Threads, NEW id \in Ids, Scoped!Enter(t, id) PROVE Owned'
  <2>1. /\ ChainMap' = [ChainMap EXCEPT ![t] = Append(@, id)]
        /\ id \notin created /\ created' = created \cup {id}
    BY <1>5 DEF Scoped!Enter, ChainMap
  <2> QED BY <1>4, <2>1
<1>6. ASSUME NEW t \in Threads, Scoped!EnterSame(t) PROVE Owned'
  <2> DEFINE last == ChainMap[t][Len(ChainMap[t])]
  <2>1. ChainMap' = [ChainMap EXCEPT ![t] = Append(@, last)] /\ created' = created
    BY <1>6 DEF Scoped!EnterSame, Scoped!Innermost, ChainMap
  <2>2. Has(t, last)
    <3>1. Len(Chain(t)) = Depth(t) + 1 /\ Depth(t) + 1 \in 1..Depth(t) + 1
      BY <1>0 DEF Chain
    <3> QED BY <3>1 DEF Has, ChainMap
  <2> QED BY <1>4, <2>1, <2>2
<1>7. ASSUME NEW t \in Threads, Scoped!Leave(t) PROVE Owned'
  <2>1. /\ created' = created /\ Len(Chain(t)) > 1
        /\ Chain(t)' = SubSeq(Chain(t), 1, Len(Chain(t)) - 1)
        /\ \A u \in Threads \ {t} : ChainMap'[u] = ChainMap[u]
    BY <1>7 DEF Scoped!Leave, ChainMap
  <2>2. ASSUME NEW u \in Threads, NEW id, Has(u, id)' PROVE Has(u, id)
    BY <1>0, <1>1, <2>1, <2>2, HasLess
  <2> QED BY <1>2, <2>1, <2>2
<1>8. ASSUME NEW id \in Ids, Scoped!Make(id) PROVE Owned'
  BY <1>3, <1>8 DEF Scoped!Make, ChainMap
<1> QED BY <1>3, <1>5, <1>6, <1>7, <1>8 DEF Scoped!Next

\* No activity leaks from one thread into another, nor from one call of
\* with_activity into a later one of another thread: EventActivityIdControl
\* hands an id out once, and every drop of a holder uncovers an id that its
\* own thread already had.
THEOREM OneThreadPerActivity == Spec => []ActivityBelongsToOneThread
<1>1. Init => Inv /\ Owned
  <2>1. ASSUME Init, NEW t \in Threads, NEW id, Has(t, id) PROVE id = NoActivity
    <3>1. Depth(t) = 0 /\ current[t] = NoActivity
      BY <2>1 DEF Init, Depth
    <3> QED BY <2>1, <3>1 DEF Has, Chain
  <2> QED BY <2>1, InitInv DEF Owned
<1>2. Inv /\ Owned /\ [Next]_vars => Inv' /\ Owned'
  BY StepSimulation, OwnedNext
<1>3. Owned => ActivityBelongsToOneThread
  <2>1. ASSUME NEW t \in Threads, NEW i \in 1..Depth(t) + 1 PROVE Has(t, Chain(t)[i])
    BY <2>1, Zenon DEF Has
  <2> QED BY <2>1, Zenon DEF Owned, ActivityBelongsToOneThread
<1> QED BY <1>1, <1>2, <1>3, PTL DEF Spec
=============================================================================
