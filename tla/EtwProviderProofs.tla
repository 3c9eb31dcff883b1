------------------------- MODULE EtwProviderProofs -------------------------
(***************************************************************************)
(* Theorems about EtwProvider, for any number of threads and any levels.   *)
(*                                                                         *)
(* NoUseAfterFree follows from PhaseInv, which ties the owner's program    *)
(* counter to what ETW may still do.  LevelAgreement needs, besides, that  *)
(* ETW runs callbacks one at a time and reports level 0 with DISABLE, and  *)
(* is proved under those two assumptions.  That the provider implements    *)
(* LevelFeed needs the first of them only: FeedInv counts the notices that *)
(* announce a level, and ties the k-th of them to the k-th level announced.*)
(***************************************************************************)
EXTENDS EtwProvider, FiniteSetTheorems, TLAPS

PhaseInv ==
  /\ phase = "unborn" => stable = "none"
  /\ phase \in {"registering", "live", "unregistering"} => stable = "live"
  /\ phase = "live" => registered
  /\ registered => phase \in {"registering", "live"}
  /\ running # {} => phase \in {"registering", "live", "unregistering"}
  /\ phase \in {"unborn", "registering"} /\ ~registered
       => notices = <<>> /\ begun = 0 /\ running = {}
  /\ \A t \in Threads : client[t].pc # "idle" => phase = "live"

Inv == TypeOK /\ PhaseInv

LEMMA InitInv == Init => Inv
<1> SUFFICES ASSUME Init PROVE Inv
  OBVIOUS
<1> USE LevelAssumption DEF LevelAssumption, Init, Levels, Idle
<1>1. TypeOK
  <2>1. Idle \in Calls
    BY DEF Calls
  <2>2. client \in [Threads -> Calls]
    BY <2>1
  <2>3. notices \in Seq(Notice) /\ begun \in 0..Len(notices) /\ running \subseteq 1..begun
    OBVIOUS
  <2>4. session \in [on : BOOLEAN, level : Levels]
    <3>1. CASE session = [on |-> FALSE, level |-> 0]
      BY <3>1
    <3>2. CASE session \in [on : {TRUE}, level : Levels]
      BY <3>2
    <3> QED BY <3>1, <3>2
  <2>5. max_level \in Levels
    OBVIOUS
  <2>6. phase \in Phases
    BY DEF Phases
  <2> QED BY <2>2, <2>3, <2>4, <2>5, <2>6 DEF TypeOK
<1>2. PhaseInv
  BY DEF PhaseInv
<1> QED BY <1>1, <1>2 DEF Inv

\* One application thread changes only its own entry of `client`.
LEMMA GotoInv ==
  ASSUME Inv, NEW t \in Threads, NEW c \in Calls, Goto(t, c),
         c.pc # "idle" => phase = "live"
  PROVE  Inv'
<1> USE DEF Inv, ownerVars, etwVars, cbVars, Goto
<1>1. TypeOK'
  BY DEF TypeOK
<1>2. PhaseInv'
  BY DEF TypeOK, PhaseInv
<1> QED BY <1>1, <1>2

LEMMA AppInv ==
  ASSUME Inv, NEW t \in Threads, App(t)
  PROVE  Inv'
<1> USE LevelAssumption DEF LevelAssumption, Calls, Idle, Holding, Levels
<1>0. client[t].pc # "idle" => phase = "live"
  BY DEF Inv, PhaseInv
<1>1. CASE Borrow(t)
  BY <1>1, GotoInv DEF Borrow
<1>2. CASE Return(t)
  BY <1>2, GotoInv DEF Return
<1>3. CASE Refused(t)
  BY <1>0, <1>3, GotoInv DEF Refused
<1>4. CASE EventWriteExReturns(t)
  BY <1>0, <1>4, GotoInv DEF EventWriteExReturns
<1>5. ASSUME NEW l \in EventLevels, is_event_enabled(t, l)
      PROVE  Inv'
  <2>1. Allows(l) \in BOOLEAN
    BY DEF Allows
  <2>2. [pc |-> "answered", level |-> l, answer |-> Allows(l)] \in Calls
    BY <2>1
  <2> QED BY <1>0, <1>5, <2>2, GotoInv DEF is_event_enabled
<1>6. ASSUME NEW l \in EventLevels, write(t, l)
      PROVE  Inv'
  BY <1>0, <1>6, GotoInv DEF write, MayWrite
<1>7. ASSUME NEW l \in EventLevels, is_enabled(t, l)
      PROVE  Inv'
  <2>1. EventProviderEnabled(l) \in BOOLEAN
    BY DEF EventProviderEnabled, Inv, TypeOK
  <2>2. [pc |-> "answered", level |-> l, answer |-> EventProviderEnabled(l)] \in Calls
    BY <2>1
  <2> QED BY <1>0, <1>7, <2>2, GotoInv DEF is_enabled
<1> QED BY <1>1, <1>2, <1>3, <1>4, <1>5, <1>6, <1>7 DEF App

LEMMA OwnerInv == ASSUME Inv, Owner PROVE Inv'
<1> USE LevelAssumption DEF LevelAssumption, Inv, TypeOK, PhaseInv, Levels, Phases, ownerVars, etwVars, cbVars
<1>1. CASE New
  BY <1>1 DEF New, NewBox
<1>2. CASE NewOk
  BY <1>2 DEF NewOk
<1>3. CASE NewErr
  BY <1>3 DEF NewErr
<1>4. CASE register_provider_metadata
  BY <1>4 DEF register_provider_metadata, SetInformation, Exclusive
<1>5. CASE set_provider_traits
  BY <1>5 DEF set_provider_traits, SetInformation, Exclusive
<1>6. CASE DropBegin
  <2>1. \A t \in Threads : client'[t].pc = "idle"
    BY <1>6 DEF DropBegin, Exclusive, Idle
  <2>2. TypeOK'
    BY <1>6 DEF DropBegin
  <2>3. PhaseInv'
    BY <1>6, <2>1 DEF DropBegin, Exclusive
  <2> QED BY <2>2, <2>3
<1>7. CASE DropEnd
  BY <1>7 DEF DropEnd, EventUnregisterReturns
<1> QED BY <1>1, <1>2, <1>3, <1>4, <1>5, <1>6, <1>7 DEF Owner

LEMMA PostType ==
  ASSUME TypeOK, NEW code \in Codes, NEW l \in Levels, Post(code, l)
  PROVE  /\ notices' \in Seq(Notice)
         /\ Len(notices') = Len(notices) + 1
         /\ notices'[Len(notices) + 1] = [code |-> code, level |-> l]
         /\ \A i \in 1..Len(notices) : notices'[i] = notices[i]
<1>1. [code |-> code, level |-> l] \in Notice
  BY DEF Notice
<1> QED BY <1>1 DEF TypeOK, Post

\* Posting a notice disturbs nothing but the queue.
LEMMA PostInv ==
  ASSUME Inv, NEW code \in Codes, NEW l \in Levels, Post(code, l),
         registered', phase \in {"registering", "live"},
         session' \in [on : BOOLEAN, level : Levels],
         UNCHANGED <<ownerVars, max_level, client, cbVars>>
  PROVE  Inv'
<1>1. /\ notices' \in Seq(Notice)
      /\ Len(notices') = Len(notices) + 1
  BY PostType DEF Inv
<1>2. TypeOK'
  BY <1>1 DEF Inv, TypeOK, ownerVars, cbVars
<1>3. PhaseInv'
  BY DEF Inv, PhaseInv, ownerVars, cbVars
<1> QED BY <1>2, <1>3 DEF Inv

LEMMA EtwInv ==
  ASSUME Inv, Controller \/ Publish \/ Callbacks
  PROVE  Inv'
<1> USE LevelAssumption DEF LevelAssumption, Inv
<1>0. registered => phase \in {"registering", "live"}
  BY DEF PhaseInv
<1>1. ASSUME NEW code \in Codes, NEW s \in [on : BOOLEAN, level : Levels], Control(code, s)
      PROVE  Inv'
  <2>1. s.level \in Levels /\ session' = s
    BY <1>1 DEF Control
  <2>2. CASE registered
    <3>1. Post(code, s.level) /\ registered' /\ UNCHANGED <<ownerVars, max_level, client, cbVars>>
      BY <1>1, <2>2 DEF Control
    <3> QED BY <1>0, <2>1, <2>2, <3>1, PostInv
  <2>3. CASE ~registered
    BY <1>1, <2>3 DEF Control, TypeOK, PhaseInv, ownerVars, cbVars
  <2> QED BY <2>2, <2>3
<1>2. ASSUME NEW l \in Levels, Enable(l)
      PROVE  Inv'
  <2>1. Control("ENABLE", [on |-> TRUE, level |-> l])
    BY <1>2 DEF Enable
  <2> QED BY <1>1, <2>1 DEF Codes
<1>3. ASSUME NEW l \in DisableLevels, Disable(l)
      PROVE  Inv'
  <2>1. Control("DISABLE", [on |-> FALSE, level |-> l])
    BY <1>3 DEF Disable
  <2> QED BY <1>1, <2>1 DEF Codes
<1>4. ASSUME NEW code \in Codes, NEW l \in Levels, Notify(code, l)
      PROVE  Inv'
  <2>1. /\ Post(code, l) /\ registered /\ registered'
        /\ UNCHANGED <<ownerVars, max_level, client, cbVars>>
        /\ session' \in [on : BOOLEAN, level : Levels]
    BY <1>4 DEF Notify, TypeOK
  <2> QED BY <1>0, <2>1, PostInv
<1>5. CASE Controller
  BY <1>2, <1>3, <1>4, <1>5 DEF Controller, Codes
<1>6. CASE Publish
  <2>1. CASE session.on
    <3>1. /\ Post("ENABLE", session.level) /\ registered' /\ phase = "registering"
          /\ UNCHANGED <<ownerVars, max_level, client, cbVars>>
          /\ session' \in [on : BOOLEAN, level : Levels] /\ session.level \in Levels
      BY <1>6, <2>1 DEF Publish, TypeOK
    <3> QED BY <3>1, PostInv DEF Codes
  <2>2. CASE ~session.on
    BY <1>6, <2>2 DEF Publish, TypeOK, PhaseInv, ownerVars, cbVars
  <2> QED BY <2>1, <2>2
<1>7. CASE CallbackBegin
  BY <1>7 DEF CallbackBegin, TypeOK, PhaseInv, ownerVars, etwVars
<1>8. ASSUME NEW i \in 1..begun, enable_callback(i)
      PROVE  Inv'
  <2>1. notices[i] \in Notice
    BY DEF TypeOK
  <2>2. Stored(notices[i]) \in Levels
    BY <2>1 DEF Stored, Notice, TypeOK
  <2> QED BY <1>8, <2>2 DEF enable_callback, TypeOK, PhaseInv, ownerVars, etwVars
<1> QED BY <1>5, <1>6, <1>7, <1>8 DEF Callbacks

LEMMA NextInv == Inv /\ [Next]_vars => Inv'
<1> SUFFICES ASSUME Inv, [Next]_vars PROVE Inv'
  OBVIOUS
<1>1. CASE UNCHANGED vars
  BY <1>1 DEF Inv, TypeOK, PhaseInv, vars, ownerVars, etwVars, cbVars
<1> QED BY <1>1, AppInv, OwnerInv, EtwInv DEF Next

THEOREM InvAlways == Spec => []Inv
  BY InitInv, NextInv, PTL DEF Spec

\* Every variable keeps its type: in particular max_level only ever holds a
\* level that ETW announced.
THEOREM TypeCorrect == Spec => []TypeOK
<1>1. Inv => TypeOK
  BY DEF Inv
<1> QED BY <1>1, InvAlways, PTL

\* No callback and no application thread touches the box of a provider that
\* has been dropped, or a handle that has been unregistered, whether ETW
\* serialises the callbacks or not.
THEOREM MemorySafety == Spec => []NoUseAfterFree
<1>1. Inv => NoUseAfterFree
  BY DEF Inv, TypeOK, PhaseInv, NoUseAfterFree
<1> QED BY <1>1, InvAlways, PTL
-----------------------------------------------------------------------------
(* LevelAgreement, under the two assumptions on ETW.                       *)

LevelInv ==
  /\ running \subseteq {begun}
  /\ ~session.on => session.level = 0
  /\ phase = "registering" /\ ~registered => max_level = 0
  /\ LevelAgreement

\* A step that touches neither ETW's side nor max_level keeps the agreement.
LEMMA LevelFrame ==
  ASSUME LevelInv, UNCHANGED <<max_level, etwVars, cbVars>>,
         phase' = "registering" => phase = "registering"
  PROVE  LevelInv'
BY DEF LevelInv, LevelAgreement, CaughtUp, Unapplied, IsControl, etwVars, cbVars

\* A new notice is the newest one on its way.
LEMMA LevelPost ==
  ASSUME Inv, LevelInv, NEW code \in Codes, NEW l \in Levels, Post(code, l),
         UNCHANGED <<max_level, cbVars>>, registered',
         code \in {"ENABLE", "DISABLE"} => session'.level = l,
         code \notin {"ENABLE", "DISABLE"} => session' = session /\ registered,
         NEW n \in Nat, n = Len(notices)
  PROVE  LevelAgreement'
<1>1. /\ n \in Nat /\ Len(notices') = n + 1
      /\ notices'[n + 1] = [code |-> code, level |-> l]
      /\ \A i \in 1..n : notices'[i] = notices[i]
      /\ begun' = begun /\ begun \in 0..n /\ running' = running /\ running \subseteq 1..begun
  BY PostType DEF Inv, TypeOK, cbVars
<1>2. CASE code \in {"ENABLE", "DISABLE"}
  <2>1. n + 1 \in 1..Len(notices') /\ Unapplied(n + 1)' /\ IsControl(n + 1)'
    BY <1>1, <1>2 DEF Unapplied, IsControl
  <2>2. notices'[n + 1].level = session'.level
    BY <1>1, <1>2
  <2>3. ~CaughtUp'
    BY <2>1 DEF CaughtUp
  <2>4. \A j \in (n + 2)..Len(notices') : ~IsControl(j)'
    BY <1>1
  <2>5. (n + 1) + 1 = n + 2
    BY <1>1
  <2> QED BY <2>1, <2>2, <2>3, <2>4, <2>5 DEF LevelAgreement
<1>3. CASE code \notin {"ENABLE", "DISABLE"}
  <2>1. /\ ~IsControl(n + 1)'
        /\ \A i \in 1..n : (IsControl(i)' <=> IsControl(i)) /\ (Unapplied(i)' <=> Unapplied(i))
    BY <1>1, <1>3 DEF IsControl, Unapplied
  <2>2. CaughtUp' <=> CaughtUp
    BY <1>1, <2>1 DEF CaughtUp
  <2>3. CASE CaughtUp
    BY <1>3, <2>2, <2>3 DEF LevelInv, LevelAgreement
  <2>4. CASE ~CaughtUp
    <3>1. PICK i \in 1..n : /\ Unapplied(i) /\ IsControl(i) /\ notices[i].level = session.level
                            /\ \A j \in (i + 1)..n : ~IsControl(j)
      BY <1>3, <2>4 DEF LevelInv, LevelAgreement
    <3>2. /\ i \in 1..Len(notices') /\ Unapplied(i)' /\ IsControl(i)'
          /\ notices'[i].level = session'.level
      BY <1>1, <1>3, <2>1, <3>1
    <3>3. \A j \in (i + 1)..Len(notices') : ~IsControl(j)'
      BY <1>1, <2>1, <3>1
    <3> QED BY <2>2, <2>4, <3>2, <3>3 DEF LevelAgreement
  <2> QED BY <2>3, <2>4
<1> QED BY <1>2, <1>3

\* The callback that finishes is the oldest one unapplied, so the newest
\* control notice is either the one it just stored or still on its way.
LEMMA LevelCallback ==
  ASSUME Inv, LevelInv, NEW i \in 1..begun, enable_callback(i)
  PROVE  LevelAgreement'
<1>1. /\ i = begun /\ begun \in 1..Len(notices) /\ running = {begun} /\ running' = {}
      /\ begun' = begun /\ notices' = notices /\ session' = session
      /\ registered' = registered /\ max_level' = Stored(notices[begun])
      /\ Len(notices) \in Nat
  <2>1. /\ begun \in 0..Len(notices) /\ Len(notices) \in Nat
        /\ running \subseteq {begun} /\ i \in running
    BY DEF Inv, TypeOK, LevelInv, enable_callback
  <2>2. i = begun /\ running = {begun} /\ running' = {}
    BY <2>1 DEF enable_callback
  <2> QED BY <2>1, <2>2 DEF enable_callback, etwVars
<1>2. SUFFICES ASSUME registered PROVE LevelAgreement'
  BY <1>1 DEF LevelAgreement
<1>3. \A j \in 1..Len(notices) :
        /\ IsControl(j)' <=> IsControl(j)
        /\ Unapplied(j)' <=> j > begun
        /\ Unapplied(j) <=> j >= begun
  BY <1>1 DEF IsControl, Unapplied
<1>4. ASSUME NEW w \in 1..Len(notices), w > begun, Unapplied(w), IsControl(w),
             notices[w].level = session.level,
             \A j \in (w + 1)..Len(notices) : ~IsControl(j)
      PROVE  LevelAgreement'
  <2>1. ~CaughtUp'
    BY <1>1, <1>3, <1>4 DEF CaughtUp
  <2>2. \A j \in (w + 1)..Len(notices) : ~IsControl(j)'
    BY <1>1, <1>4 DEF IsControl
  <2> QED BY <1>1, <1>3, <1>4, <2>1, <2>2 DEF LevelAgreement
<1>5. CASE ~CaughtUp
  <2>1. PICK w \in 1..Len(notices) :
          /\ Unapplied(w) /\ IsControl(w) /\ notices[w].level = session.level
          /\ \A j \in (w + 1)..Len(notices) : ~IsControl(j)
    BY <1>2, <1>5 DEF LevelInv, LevelAgreement
  <2>2. CASE w = begun
    <3>1. max_level' = session'.level
      BY <1>1, <2>1, <2>2 DEF Stored, IsControl
    <3>2. CaughtUp'
      BY <1>1, <1>3, <2>1, <2>2 DEF CaughtUp
    <3> QED BY <3>1, <3>2 DEF LevelAgreement
  <2>3. CASE w # begun
    BY <1>1, <1>3, <1>4, <2>1, <2>3
  <2> QED BY <2>2, <2>3
<1>6. CASE CaughtUp
  <2>1. ~IsControl(begun)
    BY <1>1, <1>3, <1>6 DEF CaughtUp
  <2>2. max_level' = max_level
    BY <1>1, <2>1 DEF Stored, IsControl
  <2>3. CaughtUp'
    BY <1>1, <1>3, <1>6 DEF CaughtUp
  <2> QED BY <1>1, <1>2, <1>6, <2>2, <2>3 DEF LevelInv, LevelAgreement
<1> QED BY <1>5, <1>6

LEMMA LevelBegin ==
  ASSUME Inv, LevelInv, CallbackBegin
  PROVE  LevelAgreement'
<1>1. /\ begun' = begun + 1 /\ running' = running \cup {begun + 1}
      /\ begun \in 0..Len(notices) /\ Len(notices) \in Nat /\ begun < Len(notices)
      /\ notices' = notices /\ session' = session /\ registered' = registered
      /\ max_level' = max_level
  BY DEF Inv, TypeOK, CallbackBegin, etwVars
<1>2. \A i \in 1..Len(notices) : (Unapplied(i)' <=> Unapplied(i)) /\ (IsControl(i)' <=> IsControl(i))
  BY <1>1 DEF Unapplied, IsControl
<1>3. CaughtUp' <=> CaughtUp
  BY <1>1, <1>2 DEF CaughtUp
<1>4. \A i \in 1..Len(notices) : \A j \in (i + 1)..Len(notices) : IsControl(j)' <=> IsControl(j)
  BY <1>1, <1>2
<1> QED BY <1>1, <1>2, <1>3, <1>4 DEF LevelInv, LevelAgreement

LEMMA LevelNext ==
  ASSUME Serial, DisableLevels = {0}, Inv, LevelInv, [Next]_vars
  PROVE  LevelInv'
<1> USE DEF etwVars, cbVars, ownerVars
<1>0. PICK n \in Nat : n = Len(notices)
  BY DEF Inv, TypeOK
<1>1. CASE UNCHANGED vars
  BY <1>1, LevelFrame DEF vars
<1>2. ASSUME NEW t \in Threads, App(t) PROVE LevelInv'
  BY <1>2, LevelFrame DEF App, Goto, Borrow, Return, Refused, EventWriteExReturns,
                          is_event_enabled, is_enabled, write
<1>3. CASE Owner
  <2>1. CASE New
    <3>1. ~registered /\ ~registered'
      BY <2>1 DEF New, Inv, PhaseInv
    <3> QED BY <2>1, <3>1 DEF New, NewBox, LevelInv, LevelAgreement
  <2>2. CASE DropBegin
    BY <2>2 DEF DropBegin, LevelInv, LevelAgreement
  <2>3. CASE NewOk \/ NewErr \/ register_provider_metadata \/ set_provider_traits \/ DropEnd
    BY <2>3, LevelFrame DEF NewOk, NewErr, register_provider_metadata, set_provider_traits,
                            SetInformation, DropEnd
  <2> QED BY <1>3, <2>1, <2>2, <2>3 DEF Owner
<1>4. ASSUME NEW code \in {"ENABLE", "DISABLE"}, NEW s \in [on : BOOLEAN, level : Levels],
             Control(code, s), ~s.on => s.level = 0
      PROVE  LevelInv'
  <2>1. /\ session' = s /\ s.level \in Levels /\ registered' = registered
        /\ phase' = phase /\ UNCHANGED <<max_level, cbVars>>
    BY <1>4 DEF Control
  <2>2. LevelAgreement'
    <3>1. CASE registered
      <4>1. Post(code, s.level)
        BY <1>4, <3>1 DEF Control
      <4> QED BY <1>0, <2>1, <3>1, <4>1, LevelPost DEF Codes
    <3>2. CASE ~registered
      BY <2>1, <3>2 DEF LevelAgreement
    <3> QED BY <3>1, <3>2
  <2> QED BY <1>4, <2>1, <2>2 DEF LevelInv
<1>5. ASSUME NEW l \in Levels, NEW code \in {"CAPTURE_STATE", "UNRECOGNIZED"}, Notify(code, l)
      PROVE  LevelInv'
  <2>1. /\ Post(code, l) /\ UNCHANGED <<max_level, cbVars, phase>>
        /\ registered /\ registered' /\ session' = session
    BY <1>5 DEF Notify
  <2>2. LevelAgreement'
    BY <1>0, <2>1, LevelPost DEF Codes
  <2> QED BY <2>1, <2>2 DEF LevelInv
<1>6. CASE Controller
  <2>1. ASSUME NEW l \in Levels, Enable(l) PROVE LevelInv'
    <3>1. Control("ENABLE", [on |-> TRUE, level |-> l])
      BY <2>1 DEF Enable
    <3> QED BY <1>4, <3>1
  <2>2. ASSUME NEW l \in DisableLevels, Disable(l) PROVE LevelInv'
    <3>1. l = 0 /\ 0 \in Levels
      BY LevelAssumption DEF LevelAssumption
    <3>2. Control("DISABLE", [on |-> FALSE, level |-> 0])
      BY <2>2, <3>1 DEF Disable
    <3> QED BY <1>4, <3>1, <3>2
  <2> QED BY <1>5, <1>6, <2>1, <2>2 DEF Controller
<1>7. CASE Publish
  <2>1. ~registered /\ phase = "registering" /\ notices = <<>> /\ max_level = 0 /\ running = {} /\ begun = 0
    BY <1>7 DEF Publish, Inv, PhaseInv, LevelInv
  <2>2. CASE session.on
    <3>1. /\ Post("ENABLE", session.level) /\ session' = session /\ session.level \in Levels
          /\ registered' /\ UNCHANGED <<max_level, cbVars>>
      BY <1>7, <2>2 DEF Publish, Inv, TypeOK
    <3>2. LevelAgreement'
      BY <1>0, <3>1, LevelPost DEF Codes
    <3> QED BY <3>1, <3>2 DEF LevelInv
  <2>3. CASE ~session.on
    <3>1. CaughtUp' /\ max_level' = session'.level
      BY <1>7, <2>1, <2>3 DEF Publish, CaughtUp, LevelInv
    <3> QED BY <1>7, <2>1, <2>3, <3>1 DEF Publish, LevelInv, LevelAgreement
  <2> QED BY <2>2, <2>3
<1>8. CASE CallbackBegin
  <2>1. running = {} /\ running' = {begun'}
    BY <1>8 DEF CallbackBegin
  <2>2. LevelAgreement'
    BY <1>8, LevelBegin
  <2> QED BY <1>8, <2>1, <2>2 DEF CallbackBegin, LevelInv
<1>9. ASSUME NEW i \in 1..begun, enable_callback(i) PROVE LevelInv'
  <2>1. LevelAgreement'
    BY <1>9, LevelCallback
  <2>2. phase \in {"registering"} /\ ~registered => running = {}
    BY DEF Inv, PhaseInv
  <2> QED BY <1>9, <2>1, <2>2 DEF enable_callback, LevelInv
<1> QED BY <1>1, <1>2, <1>3, <1>6, <1>7, <1>8, <1>9 DEF Next, Callbacks

LEMMA InitLevel == Init => LevelInv
<1> SUFFICES ASSUME Init PROVE LevelInv
  OBVIOUS
<1>1. ~session.on => session.level = 0
  <2>1. CASE session = [on |-> FALSE, level |-> 0]
    BY <2>1
  <2>2. CASE session \in [on : {TRUE}, level : Levels]
    BY <2>2
  <2> QED BY <2>1, <2>2 DEF Init
<1> QED BY <1>1 DEF Init, LevelInv, LevelAgreement

\* If ETW serialises the callbacks of a registration and disables with level
\* 0, the cached max_level differs from the level of the sessions only while
\* a notice is on its way, and the newest such notice repairs it.
THEOREM LevelsAgree ==
  ASSUME Serial, DisableLevels = {0}
  PROVE  Spec => []LevelAgreement
<1>1. Init => LevelInv
  BY InitLevel
<1>2. Inv /\ LevelInv /\ [Next]_vars => LevelInv'
  BY LevelNext
<1>3. LevelInv => LevelAgreement
  BY DEF LevelInv
<1> QED BY <1>1, <1>2, <1>3, InvAlways, PTL DEF Spec

LEMMA AnswerStep ==
  ASSUME DisableLevels = {0}, 0 \notin EventLevels, Inv, LevelInv, [Next]_vars,
         NEW t \in Threads, client[t].pc = "holding", client'[t].pc = "answered",
         registered, CaughtUp
  PROVE  client'[t].answer <=> Wanted(client'[t].level)
<1> USE DEF ownerVars, etwVars, cbVars
<1>1. client' # client
  OBVIOUS
<1>2. PICK u \in Threads : App(u)
  BY <1>1 DEF Next, Owner, Controller, Callbacks, vars, New, NewOk, NewErr, DropBegin, DropEnd,
              register_provider_metadata, set_provider_traits, SetInformation,
              Enable, Disable, Control, Notify, Publish, CallbackBegin, enable_callback
<1>3. PICK c : Goto(u, c)
  BY <1>2 DEF App, Borrow, Return, Refused, EventWriteExReturns, is_event_enabled,
               is_enabled, write
<1>4. u = t /\ client'[t] = c
  BY <1>3 DEF Goto, Inv, TypeOK
<1>5. PICK l \in EventLevels : is_event_enabled(t, l) \/ is_enabled(t, l)
  <2>0. ASSUME NEW d, Goto(t, d) PROVE d.pc = "answered"
    <3>1. client'[t] = d
      BY <2>0 DEF Goto, Inv, TypeOK
    <3> QED BY <3>1
  <2>1. ~Borrow(t) /\ ~Return(t) /\ ~Refused(t) /\ ~EventWriteExReturns(t)
    <3>1. Holding.pc # "answered" /\ Idle.pc # "answered"
      BY DEF Holding, Idle
    <3> QED BY <2>0, <3>1 DEF Borrow, Return, Refused, EventWriteExReturns
  <2>2. ASSUME NEW l \in EventLevels, write(t, l) PROVE FALSE
    <3>1. Goto(t, [pc |-> "writing", level |-> l])
      BY <2>2 DEF write
    <3>2. [pc |-> "writing", level |-> l].pc # "answered"
      OBVIOUS
    <3> QED BY <2>0, <3>1, <3>2
  <2> QED BY <1>2, <1>4, <2>1, <2>2 DEF App
<1>6. l \in Nat /\ l > 0
  BY LevelAssumption DEF LevelAssumption, Levels
<1>7. max_level = session.level /\ (~session.on => session.level = 0)
  BY DEF LevelInv, LevelAgreement
<1>8. (Allows(l) <=> Wanted(l)) /\ (EventProviderEnabled(l) <=> Wanted(l))
  BY <1>6, <1>7 DEF Allows, EventProviderEnabled, Wanted
<1>9. CASE is_event_enabled(t, l)
  <2>1. client'[t] = [pc |-> "answered", level |-> l, answer |-> Allows(l)]
    BY <1>9 DEF is_event_enabled, Goto, Inv, TypeOK
  <2>2. client'[t].answer = Allows(l) /\ client'[t].level = l
    BY <2>1
  <2> QED BY <1>8, <2>2
<1>10. CASE is_enabled(t, l)
  <2>1. client'[t] = [pc |-> "answered", level |-> l, answer |-> EventProviderEnabled(l)]
    BY <1>10 DEF is_enabled, Goto, Inv, TypeOK
  <2>2. client'[t].answer = EventProviderEnabled(l) /\ client'[t].level = l
    BY <2>1
  <2> QED BY <1>8, <2>2
<1> QED BY <1>5, <1>9, <1>10

\* Under the same assumptions, and for events whose level is not 0, the
\* answers of is_event_enabled and is_enabled are the truth whenever no notice is on its way.
THEOREM AnswersAreRight ==
  ASSUME Serial, DisableLevels = {0}, 0 \notin EventLevels
  PROVE  Spec => AnswersMatchSession
<1>1. Init => LevelInv
  BY InitLevel
<1>2. Inv /\ LevelInv /\ [Next]_vars => LevelInv'
  BY LevelNext
<1>3. Inv /\ LevelInv /\ [Next]_vars =>
        [\A t \in Threads :
           /\ client[t].pc = "holding" /\ client'[t].pc = "answered"
           /\ registered /\ CaughtUp
           => (client'[t].answer <=> Wanted(client'[t].level))]_vars
  BY AnswerStep
<1> QED BY <1>1, <1>2, <1>3, InvAlways, PTL DEF Spec, AnswersMatchSession

-----------------------------------------------------------------------------
(* max_level follows what ETW announces, if the callbacks of a             *)
(* registration run one at a time, with whatever level DISABLE comes.      *)

\* The announced levels are a fold over the notices.
Added == INSTANCE FoldTheorems WITH op <- Announce

\* F is the recursive function of the levels announced by a prefix of s.
Announces(F, s) ==
  F = [k \in 0..Len(s) |-> IF k = 0 THEN <<>> ELSE Announce(F[k - 1], s[k])]

\* Its values are the partial results of a fold.
LEMMA AnnouncesSteps ==
  ASSUME NEW S, NEW s \in Seq(S), NEW F, Announces(F, s)
  PROVE  F[Len(s)] = Added!Fold(<<>>, s)
<1>1. PICK n \in Nat : n = Len(s) /\ DOMAIN s = 1..n
  OBVIOUS
<1>2. DOMAIN F = 0..n /\ F[0] = <<>>
  <2>1. DOMAIN F = 0..n
    BY <1>1, Zenon DEF Announces
  <2>2. 0 \in 0..n
    OBVIOUS
  <2> QED
    BY <1>1, <2>1, <2>2, Zenon DEF Announces
<1>3. ASSUME NEW k \in 0..n - 1 PROVE F[k + 1] = Announce(F[k], s[k + 1])
  <2>1. k + 1 \in 0..n /\ k + 1 # 0 /\ (k + 1) - 1 = k
    OBVIOUS
  <2> QED
    BY <1>1, <2>1, Zenon DEF Announces
<1>4. Added!Partials(F, <<>>, s, n)
  BY <1>2, <1>3, Zenon DEF Added!Partials
<1> QED
  BY <1>1, <1>4, Added!FoldIs, Zenon

\* There is such a function for every sequence of notices.
LEMMA AnnouncesExists ==
  ASSUME NEW S, NEW s \in Seq(S)
  PROVE  \E F : Announces(F, s)
<1>1. PICK n \in Nat : n = Len(s) /\ DOMAIN s = 1..n
  OBVIOUS
<1>2. PICK g : Added!Partials(g, <<>>, s, n)
  BY <1>1, Added!FoldSteps
<1> DEFINE h == [k \in 0..n |-> g[k]]
<1>3. ASSUME NEW k \in 0..n PROVE h[k] = IF k = 0 THEN <<>> ELSE Announce(h[k - 1], s[k])
  <2>1. CASE k = 0
    BY <1>2, <2>1 DEF Added!Partials
  <2>2. CASE k # 0
    <3>1. k - 1 \in 0..n - 1 /\ (k - 1) + 1 = k /\ k - 1 \in 0..n
      BY <2>2
    <3>2. g[k] = Announce(g[k - 1], s[k])
      BY <1>2, <3>1 DEF Added!Partials
    <3> QED
      BY <2>2, <3>1, <3>2
  <2> QED
    BY <2>1, <2>2
<1>4. Announces(h, s)
  BY <1>1, <1>3 DEF Announces
<1> QED
  BY <1>4

AllAnnounced == Announced[Len(notices)]

\* The levels announced so far are the fold of the notices, in this state ...
LEMMA AnnouncedNow ==
  ASSUME notices \in Seq(Notice)
  PROVE  AllAnnounced = Added!Fold(<<>>, notices)
<1>1. Announces(Announced, notices)
  BY AnnouncesExists, Zenon DEF Announces, Announced
<1> QED
  BY <1>1, AnnouncesSteps DEF AllAnnounced

\* ... and in the next.
LEMMA AnnouncedNext ==
  ASSUME notices' \in Seq(Notice)
  PROVE  AllAnnounced' = Added!Fold(<<>>, notices')
<1>1. Announces(Announced', notices')
  BY AnnouncesExists, Zenon DEF Announces, Announced
<1> QED
  BY <1>1, AnnouncesSteps DEF AllAnnounced

\* So a notice that is posted adds its level if it announces one.
LEMMA AnnouncedPost ==
  ASSUME TypeOK, NEW n \in Notice, notices' = Append(notices, n)
  PROVE  AllAnnounced' = Announce(AllAnnounced, n)
<1>1. notices \in Seq(Notice) /\ notices' \in Seq(Notice)
  BY DEF TypeOK
<1> QED
  BY <1>1, AnnouncedNow, AnnouncedNext, Added!FoldAppend

\* The notices of q among the first n that announce a level.
Announcing(q, n) == {j \in 1..n : q[j].code \in {"ENABLE", "DISABLE"}}

Announced_to(q, n) == Cardinality(Announcing(q, n))

\* Counting them one more at a time.
LEMMA CountSteps ==
  ASSUME NEW q, NEW n \in Nat
  PROVE  /\ Announced_to(q, 0) = 0
         /\ Announced_to(q, n) \in Nat
         /\ q[n + 1].code \in {"ENABLE", "DISABLE"} => Announced_to(q, n + 1) = Announced_to(q, n) + 1
         /\ q[n + 1].code \notin {"ENABLE", "DISABLE"} => Announced_to(q, n + 1) = Announced_to(q, n)
<1>1. Announcing(q, 0) = {}
  BY DEF Announcing
<1>2. IsFiniteSet(Announcing(q, n)) /\ n + 1 \notin Announcing(q, n)
  <2>1. IsFiniteSet(1..n)
    BY FS_Interval
  <2>2. Announcing(q, n) \subseteq 1..n
    BY DEF Announcing
  <2> QED
    BY <2>1, <2>2, FS_Subset
<1>3. q[n + 1].code \in {"ENABLE", "DISABLE"} => Announcing(q, n + 1) = Announcing(q, n) \cup {n + 1}
  BY DEF Announcing
<1>4. q[n + 1].code \notin {"ENABLE", "DISABLE"} => Announcing(q, n + 1) = Announcing(q, n)
  BY DEF Announcing
<1>5. Announced_to(q, 0) = 0
  BY <1>1, FS_EmptySet, Zenon DEF Announced_to
<1>6. Announced_to(q, n) \in Nat
  BY <1>2, FS_CardinalityType, Zenon DEF Announced_to
<1>7. Cardinality(Announcing(q, n) \cup {n + 1}) = Cardinality(Announcing(q, n)) + 1
  <2>1. PICK S, x : S = Announcing(q, n) /\ x = n + 1
    OBVIOUS
  <2>2. IsFiniteSet(S) /\ x \notin S
    BY <1>2, <2>1, Zenon
  <2>3. Cardinality(S \cup {x}) = Cardinality(S) + 1
    BY <2>2, FS_AddElement, Zenon
  <2> QED
    BY <2>1, <2>3, Zenon
<1> QED
  BY <1>3, <1>4, <1>5, <1>6, <1>7, Zenon DEF Announced_to

\* A queue that begins with q counts the same.
LEMMA CountSame ==
  ASSUME NEW q, NEW r, NEW n \in Nat, \A j \in 1..n : r[j] = q[j]
  PROVE  Announced_to(r, n) = Announced_to(q, n)
<1>1. Announcing(r, n) = Announcing(q, n)
  BY DEF Announcing
<1> QED
  BY <1>1 DEF Announced_to

\* A longer prefix counts no less.
LEMMA CountGrows ==
  ASSUME NEW q, NEW n \in Nat, NEW i \in 1..n, q[i].code \in {"ENABLE", "DISABLE"}
  PROVE  Announced_to(q, i - 1) + 1 \in 1..Announced_to(q, n)
<1>1. i - 1 \in Nat /\ (i - 1) + 1 = i
  OBVIOUS
<1>2. Announced_to(q, i) = Announced_to(q, i - 1) + 1 /\ Announced_to(q, i - 1) \in Nat
  <2>1. PICK m \in Nat : m = i - 1 /\ m + 1 = i
    BY <1>1
  <2> QED
    BY <2>1, CountSteps
<1>3. Announcing(q, i) \subseteq Announcing(q, n)
  BY DEF Announcing
<1>4. IsFiniteSet(Announcing(q, n))
  <2>1. IsFiniteSet(1..n)
    <3>1. 1 \in Int /\ n \in Int
      OBVIOUS
    <3> QED
      BY <3>1, FS_Interval, Zenon
  <2>2. Announcing(q, n) \subseteq 1..n
    BY DEF Announcing
  <2> QED
    BY <2>1, <2>2, FS_Subset
<1>5. Announced_to(q, i) <= Announced_to(q, n) /\ Announced_to(q, n) \in Nat
  BY <1>3, <1>4, FS_Subset, FS_CardinalityType DEF Announced_to
<1> QED
  BY <1>2, <1>5

\* The k-th level announced is the level of the k-th notice that announces
\* one; no callback overtakes another; the box is created with level 0.
FeedInv ==
  /\ running \subseteq {begun}
  /\ phase = "unborn" => max_level = 0
  /\ AllAnnounced \in Seq(Levels)
  /\ Len(AllAnnounced) = Announced_to(notices, Len(notices))
  /\ \A i \in 1..Len(notices) :
       IsControl(i) => AllAnnounced[Announced_to(notices, i - 1) + 1] = notices[i].level

\* What FollowsTheFeed calls applied.
Applied == Cardinality({i \in 1..begun : i \notin running /\ IsControl(i)})

\* With callbacks one at a time, it is a prefix of the notices.
LEMMA AppliedIs ==
  ASSUME TypeOK, running \subseteq {begun}
  PROVE  /\ running = {} => Applied = Announced_to(notices, begun)
         /\ running # {} => begun \in 1..Len(notices) /\ Applied = Announced_to(notices, begun - 1)
<1>1. begun \in Nat /\ begun <= Len(notices)
  BY DEF TypeOK
<1>2. CASE running = {}
  <2>1. {i \in 1..begun : i \notin running /\ IsControl(i)} = Announcing(notices, begun)
    BY <1>2 DEF Announcing, IsControl
  <2> QED
    BY <1>2, <2>1 DEF Applied, Announced_to
<1>3. CASE running # {}
  <2>1. running = {begun} /\ begun \in 1..begun
    BY <1>3 DEF TypeOK
  <2>2. \A i : i \in 1..begun /\ i \notin running <=> i \in 1..begun - 1
    BY <1>1, <2>1
  <2>3. {i \in 1..begun : i \notin running /\ IsControl(i)} = Announcing(notices, begun - 1)
    BY <2>2 DEF Announcing, IsControl
  <2>4. Applied = Announced_to(notices, begun - 1)
    BY <2>3, Zenon DEF Applied, Announced_to
  <2> QED
    BY <1>1, <1>3, <2>1, <2>4
<1> QED
  BY <1>2, <1>3

\* The same of the next state.
LEMMA AppliedNext ==
  ASSUME TypeOK', running' \subseteq {begun'}
  PROVE  /\ running' = {} => Applied' = Announced_to(notices', begun')
         /\ running' # {} => begun' \in 1..Len(notices') /\ Applied' = Announced_to(notices', begun' - 1)
<1>1. begun' \in Nat /\ begun' <= Len(notices')
  BY DEF TypeOK
<1>2. CASE running' = {}
  <2>1. {i \in 1..begun' : i \notin running' /\ IsControl(i)'} = Announcing(notices', begun')
    BY <1>2 DEF Announcing, IsControl
  <2> QED
    BY <1>2, <2>1 DEF Applied, Announced_to
<1>3. CASE running' # {}
  <2>1. running' = {begun'} /\ begun' \in 1..begun'
    BY <1>3 DEF TypeOK
  <2>2. \A i : i \in 1..begun' /\ i \notin running' <=> i \in 1..begun' - 1
    BY <1>1, <2>1
  <2>3. {i \in 1..begun' : i \notin running' /\ IsControl(i)'} = Announcing(notices', begun' - 1)
    BY <2>2 DEF Announcing, IsControl
  <2>4. Applied' = Announced_to(notices', begun' - 1)
    BY <2>3, Zenon DEF Applied, Announced_to
  <2> QED
    BY <1>1, <1>3, <2>1, <2>4
<1> QED
  BY <1>2, <1>3

\* A step that leaves the queue and the callbacks alone shows nothing of itself.
LEMMA FeedFrame ==
  ASSUME Inv, Inv', FeedInv, UNCHANGED <<notices, cbVars, max_level>>,
         phase' = "unborn" => phase = "unborn"
  PROVE  FeedInv' /\ UNCHANGED <<AllAnnounced, Applied, max_level>>
<1>1. AllAnnounced' = AllAnnounced
  BY AnnouncedNow, AnnouncedNext DEF Inv, TypeOK
<1>2. \A i : IsControl(i)' <=> IsControl(i)
  BY DEF IsControl
<1>3. Applied' = Applied
  BY <1>2 DEF Applied, cbVars
<1>4. FeedInv'
  BY <1>1, <1>2 DEF FeedInv, cbVars
<1> QED
  BY <1>1, <1>3, <1>4

\* What a step does to the cache, as LevelFeed has it.
Fed ==
  \/ UNCHANGED <<AllAnnounced, Applied, max_level>>
  \/ \E l \in Levels : AllAnnounced' = Append(AllAnnounced, l) /\ UNCHANGED <<Applied, max_level>>
  \/ /\ Applied < Len(AllAnnounced) /\ AllAnnounced' = AllAnnounced
     /\ Applied' = Applied + 1 /\ max_level' = AllAnnounced[Applied + 1]

\* A notice is posted: its level joins the feed if it announces one.
LEMMA FeedPost ==
  ASSUME Inv, Inv', FeedInv, NEW code \in Codes, NEW l \in Levels, Post(code, l),
         UNCHANGED <<max_level, cbVars>>, phase' # "unborn"
  PROVE  FeedInv' /\ Fed
<1> DEFINE n == [code |-> code, level |-> l]
<1>1. n \in Notice /\ n.code = code /\ n.level = l /\ notices' = Append(notices, n)
  BY DEF Notice, Post
<1>2. PICK m \in Nat : m = Len(notices)
  BY DEF Inv, TypeOK
<1>3. /\ Len(notices') = m + 1 /\ notices'[m + 1] = n
      /\ \A i \in 1..m : notices'[i] = notices[i]
  BY <1>2, PostType DEF Inv
<1>4. AllAnnounced' = Announce(AllAnnounced, n)
  BY <1>1, AnnouncedPost, Zenon DEF Inv
<1> HIDE DEF n
<1>5. \A i \in 0..m : Announced_to(notices', i) = Announced_to(notices, i)
  <2>1. ASSUME NEW i \in 0..m PROVE Announced_to(notices', i) = Announced_to(notices, i)
    <3>1. i \in Nat /\ \A j \in 1..i : notices'[j] = notices[j]
      BY <1>3
    <3> QED
      BY <3>1, CountSame
  <2> QED
    BY <2>1
<1>6. Applied' = Applied
  <2>1. begun' = begun /\ running' = running /\ begun \in 0..m
    BY <1>2 DEF Inv, TypeOK, cbVars
  <2>2. \A i \in 1..begun : IsControl(i)' <=> IsControl(i)
    BY <1>3, <2>1 DEF IsControl
  <2>3. {i \in 1..begun' : i \notin running' /\ IsControl(i)'} = {i \in 1..begun : i \notin running /\ IsControl(i)}
    BY <2>1, <2>2
  <2> QED
    BY <2>3, Zenon DEF Applied
<1>7. /\ AllAnnounced \in Seq(Levels) /\ Len(AllAnnounced) = Announced_to(notices, m)
      /\ Announced_to(notices, m) \in Nat
  BY <1>2, CountSteps DEF FeedInv
<1>8. ASSUME NEW i \in 1..m, IsControl(i)'
      PROVE  /\ Announced_to(notices', i - 1) + 1 \in 1..Len(AllAnnounced)
             /\ AllAnnounced[Announced_to(notices', i - 1) + 1] = notices'[i].level
  <2>1. IsControl(i) /\ notices'[i] = notices[i] /\ i - 1 \in 0..m
    BY <1>3, <1>8 DEF IsControl
  <2>2. Announced_to(notices', i - 1) = Announced_to(notices, i - 1)
    BY <1>5, <2>1
  <2>3. Announced_to(notices, i - 1) + 1 \in 1..Announced_to(notices, m)
    BY <2>1, CountGrows DEF IsControl
  <2> QED
    BY <1>2, <1>7, <2>1, <2>2, <2>3 DEF FeedInv
<1>9. CASE code \in {"ENABLE", "DISABLE"}
  <2>1. AllAnnounced' = Append(AllAnnounced, l)
    BY <1>1, <1>4, <1>9 DEF Announce
  <2>2. Announced_to(notices', m + 1) = Announced_to(notices', m) + 1
    BY <1>1, <1>3, <1>9, CountSteps
  <2>3. Len(AllAnnounced') = Announced_to(notices', m + 1) /\ AllAnnounced' \in Seq(Levels)
    BY <1>5, <1>7, <2>1, <2>2
  <2>4. /\ AllAnnounced'[Len(AllAnnounced) + 1] = l
        /\ \A k \in 1..Len(AllAnnounced) : AllAnnounced'[k] = AllAnnounced[k]
    BY <1>7, <2>1
  <2>5. Len(AllAnnounced) = Announced_to(notices', (m + 1) - 1)
    BY <1>5, <1>7
  <2>6. ASSUME NEW i \in 1..m + 1, IsControl(i)'
        PROVE  AllAnnounced'[Announced_to(notices', i - 1) + 1] = notices'[i].level
    <3>1. CASE i = m + 1
      BY <1>1, <1>3, <2>4, <2>5, <3>1
    <3>2. CASE i # m + 1
      BY <1>8, <2>4, <2>6, <3>2
    <3> QED
      BY <3>1, <3>2
  <2>7. FeedInv'
    BY <1>3, <2>3, <2>6 DEF FeedInv, cbVars
  <2> QED
    BY <1>6, <2>1, <2>7 DEF Fed
<1>10. CASE code \notin {"ENABLE", "DISABLE"}
  <2>1. AllAnnounced' = AllAnnounced
    BY <1>1, <1>4, <1>10 DEF Announce
  <2>2. Announced_to(notices', m + 1) = Announced_to(notices', m)
    BY <1>1, <1>3, <1>10, CountSteps
  <2>3. Len(AllAnnounced') = Announced_to(notices', m + 1) /\ AllAnnounced' \in Seq(Levels)
    BY <1>5, <1>7, <2>1, <2>2
  <2>4. ASSUME NEW i \in 1..m + 1, IsControl(i)'
        PROVE  AllAnnounced'[Announced_to(notices', i - 1) + 1] = notices'[i].level
    <3>1. i # m + 1
      BY <1>1, <1>3, <1>10, <2>4 DEF IsControl
    <3> QED
      BY <1>8, <2>1, <2>4, <3>1
  <2>5. FeedInv'
    BY <1>3, <2>3, <2>4 DEF FeedInv, cbVars
  <2> QED
    BY <1>6, <2>1, <2>5 DEF Fed
<1> QED
  BY <1>9, <1>10

\* The callback that returns applies the next level of the feed.
LEMMA FeedCallback ==
  ASSUME Inv, Inv', FeedInv, NEW i \in 1..begun, enable_callback(i)
  PROVE  FeedInv' /\ Fed
<1>1. /\ i = begun /\ begun \in 1..Len(notices) /\ running = {begun} /\ running' = {}
      /\ begun' = begun /\ notices' = notices /\ phase' = phase
      /\ max_level' = Stored(notices[begun]) /\ Len(notices) \in Nat
  <2>1. /\ begun \in 0..Len(notices) /\ Len(notices) \in Nat
        /\ running \subseteq {begun} /\ i \in running
    BY DEF Inv, TypeOK, FeedInv, enable_callback
  <2>2. i = begun /\ running = {begun} /\ running' = {}
    BY <2>1 DEF enable_callback
  <2> QED
    BY <2>1, <2>2 DEF enable_callback, etwVars, ownerVars
<1>2. AllAnnounced' = AllAnnounced
  BY <1>1, AnnouncedNow, AnnouncedNext DEF Inv, TypeOK
<1>3. FeedInv'
  <2>1. phase # "unborn"
    BY <1>1 DEF Inv, PhaseInv
  <2> QED
    BY <1>1, <1>2, <2>1 DEF FeedInv, IsControl
<1>4. Applied = Announced_to(notices, begun - 1) /\ Applied' = Announced_to(notices, begun)
  BY <1>1, <1>3, AppliedIs, AppliedNext DEF Inv, FeedInv
<1>5. PICK k \in Nat : k = begun - 1 /\ k + 1 = begun
  <2>1. begun - 1 \in Nat /\ (begun - 1) + 1 = begun
    BY <1>1
  <2> QED
    BY <2>1, Zenon
<1>6. CASE IsControl(begun)
  <2>1. Applied' = Applied + 1
    BY <1>4, <1>5, <1>6, CountSteps DEF IsControl
  <2>2. max_level' = notices[begun].level
    BY <1>1, <1>6 DEF Stored, IsControl
  <2>3. AllAnnounced[Applied + 1] = notices[begun].level
    BY <1>1, <1>4, <1>6 DEF FeedInv
  <2>4. Applied < Len(AllAnnounced)
    <3>1. Announced_to(notices, begun - 1) + 1 \in 1..Announced_to(notices, Len(notices))
      BY <1>1, <1>6, CountGrows DEF IsControl
    <3>2. Announced_to(notices, begun - 1) \in Nat /\ Announced_to(notices, Len(notices)) \in Nat
      BY <1>1, <1>5, CountSteps
    <3> QED
      BY <1>4, <3>1, <3>2 DEF FeedInv
  <2> QED
    BY <1>2, <1>3, <2>1, <2>2, <2>3, <2>4 DEF Fed
<1>7. CASE ~IsControl(begun)
  <2>1. Applied' = Applied
    BY <1>4, <1>5, <1>7, CountSteps DEF IsControl
  <2>2. max_level' = max_level
    BY <1>1, <1>7 DEF Stored, IsControl
  <2> QED
    BY <1>2, <1>3, <2>1, <2>2 DEF Fed
<1> QED
  BY <1>6, <1>7

\* A callback that begins applies nothing yet.
LEMMA FeedBegin ==
  ASSUME Serial, Inv, Inv', FeedInv, CallbackBegin
  PROVE  FeedInv' /\ Fed
<1>1. /\ running = {} /\ running' = {begun'} /\ begun' = begun + 1
      /\ notices' = notices /\ phase' = phase /\ max_level' = max_level
  BY DEF CallbackBegin, etwVars, ownerVars
<1>2. begun \in Nat /\ (begun + 1) - 1 = begun
  BY DEF Inv, TypeOK
<1>3. AllAnnounced' = AllAnnounced
  BY <1>1, AnnouncedNow, AnnouncedNext DEF Inv, TypeOK
<1>4. FeedInv'
  BY <1>1, <1>3 DEF FeedInv, IsControl
<1>5. Applied = Announced_to(notices, begun) /\ Applied' = Announced_to(notices, begun)
  BY <1>1, <1>2, AppliedIs, AppliedNext DEF Inv
<1> QED
  BY <1>1, <1>3, <1>4, <1>5 DEF Fed

\* Every step of the provider and of ETW is a step of the feed or none.
LEMMA FeedNext ==
  ASSUME Serial, Inv, Inv', FeedInv, [Next]_vars
  PROVE  FeedInv' /\ Fed
<1>1. ASSUME UNCHANGED <<notices, cbVars, max_level>>, phase' = "unborn" => phase = "unborn"
      PROVE  FeedInv' /\ Fed
  BY <1>1, FeedFrame, Zenon DEF Fed
<1>2. CASE UNCHANGED vars
  BY <1>1, <1>2 DEF vars, etwVars, ownerVars
<1>3. ASSUME NEW t \in Threads, App(t) PROVE FeedInv' /\ Fed
  BY <1>1, <1>3 DEF App, Goto, Borrow, Return, Refused, EventWriteExReturns,
                    is_event_enabled, is_enabled, write, etwVars, ownerVars
<1>4. CASE Owner
  <2>1. CASE New
    <3>1. max_level' = max_level
      BY <2>1 DEF New, NewBox, FeedInv
    <3> QED
      BY <1>1, <2>1, <3>1 DEF New, etwVars
  <2> QED
    BY <1>1, <1>4, <2>1 DEF Owner, NewOk, NewErr, DropBegin, DropEnd, register_provider_metadata,
                            set_provider_traits, SetInformation, etwVars, ownerVars
<1>5. ASSUME NEW code \in Codes, NEW l \in Levels, Post(code, l),
             UNCHANGED <<phase, max_level, cbVars>>, phase \in {"registering", "live"}
      PROVE  FeedInv' /\ Fed
  BY <1>5, FeedPost
<1>6. registered => phase \in {"registering", "live"}
  BY DEF Inv, PhaseInv
<1>7. ASSUME NEW code \in Codes, NEW s \in [on : BOOLEAN, level : Levels], Control(code, s)
      PROVE  FeedInv' /\ Fed
  <2>1. CASE registered
    <3>1. Post(code, s.level) /\ UNCHANGED <<phase, max_level, cbVars>> /\ s.level \in Levels
      BY <1>7, <2>1 DEF Control, ownerVars
    <3> QED
      BY <1>5, <1>6, <2>1, <3>1
  <2>2. CASE ~registered
    BY <1>1, <1>7, <2>2 DEF Control, ownerVars
  <2> QED
    BY <2>1, <2>2
<1>8. CASE Controller
  <2>1. ASSUME NEW l \in Levels, Enable(l) PROVE FeedInv' /\ Fed
    <3>1. Control("ENABLE", [on |-> TRUE, level |-> l])
      BY <2>1 DEF Enable
    <3> QED
      BY <1>7, <3>1 DEF Codes
  <2>2. ASSUME NEW l \in DisableLevels, Disable(l) PROVE FeedInv' /\ Fed
    <3>1. Control("DISABLE", [on |-> FALSE, level |-> l]) /\ l \in Levels
      BY <2>2, LevelAssumption DEF Disable, LevelAssumption
    <3> QED
      BY <1>7, <3>1 DEF Codes
  <2>3. ASSUME NEW code \in Codes, NEW l \in Levels, Notify(code, l) PROVE FeedInv' /\ Fed
    <3>1. Post(code, l) /\ registered /\ UNCHANGED <<phase, max_level, cbVars>>
      BY <2>3 DEF Notify, ownerVars
    <3> QED
      BY <1>5, <1>6, <3>1
  <2> QED
    BY <1>8, <2>1, <2>2, <2>3 DEF Controller, Codes
<1>9. CASE Publish
  <2>1. CASE session.on
    <3>1. /\ Post("ENABLE", session.level) /\ session.level \in Levels
          /\ UNCHANGED <<phase, max_level, cbVars>> /\ phase = "registering"
      BY <1>9, <2>1 DEF Publish, Inv, TypeOK, ownerVars
    <3> QED
      BY <1>5, <3>1 DEF Codes
  <2>2. CASE ~session.on
    BY <1>1, <1>9, <2>2 DEF Publish, ownerVars
  <2> QED
    BY <2>1, <2>2
<1> QED
  BY <1>2, <1>3, <1>4, <1>8, <1>9, FeedBegin, FeedCallback DEF Next, Callbacks

\* At the start nothing is announced, nothing applied, and the level is 0.
LEMMA FeedInit ==
  ASSUME Init
  PROVE  FeedInv /\ Feed!Init
<1>1. AllAnnounced = <<>>
  BY AnnouncedNow, Added!FoldEmpty DEF Init
<1>2. Announced_to(notices, Len(notices)) = 0
  BY CountSteps DEF Init
<1>3. Applied = 0
  <2>1. {i \in 1..begun : i \notin running /\ IsControl(i)} = {}
    BY DEF Init
  <2> QED
    BY <2>1, FS_EmptySet, Zenon DEF Applied
<1>4. Feed!Init
  BY <1>1, <1>3, Zenon DEF Feed!Init, AllAnnounced, Applied, Init
<1>5. FeedInv
  BY <1>1, <1>2 DEF FeedInv, Init
<1> QED
  BY <1>4, <1>5

\* If ETW runs the callbacks of a registration one at a time, max_level takes
\* every level announced to it, once and in order, and no other value: the
\* provider implements LevelFeed, with whatever level a DISABLE notice comes.
THEOREM CacheFollowsTheFeed ==
  ASSUME Serial
  PROVE  Spec => FollowsTheFeed
<1>1. Init => FeedInv /\ Feed!Init
  BY FeedInit
<1>2. Inv /\ Inv' /\ FeedInv /\ [Next]_vars => FeedInv' /\ [Feed!Next]_(Feed!vars)
  <2>1. SUFFICES ASSUME Inv, Inv', FeedInv, [Next]_vars
                 PROVE  FeedInv' /\ [Feed!Next]_(Feed!vars)
    OBVIOUS
  <2>2. FeedInv' /\ Fed
    BY <2>1, FeedNext
  <2>3. Fed => [Feed!Next]_(Feed!vars)
    BY Zenon DEF Fed, Feed!Next, Feed!Apply, Feed!Announce, Feed!vars, AllAnnounced, Applied
  <2> QED
    BY <2>2, <2>3
<1> QED
  BY <1>1, <1>2, InvAlways, PTL DEF Spec, FollowsTheFeed, Feed!Spec
=============================================================================
