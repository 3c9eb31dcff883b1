---------------------------- MODULE EtwProvider ----------------------------
(***************************************************************************)
(* One `EtwProvider` (win_etw_provider/src/provider.rs) from the call of   *)
(* EtwProvider::new to the end of Drop, the application threads that share *)
(* it, and the side of ETW it talks to.                                    *)
(*                                                                         *)
(* ETW runs `enable_callback` on threads of its own, at any moment between *)
(* the publication of the registration (before EventRegister returns) and  *)
(* the end of EventUnregister.  The callback holds a raw pointer to the    *)
(* boxed StableProviderData, and stores the level of the notice there;     *)
(* is_event_enabled reads it.                                              *)
(*                                                                         *)
(* The ETW side is external: session control, the queue of notices, and    *)
(* what EventRegister and EventUnregister guarantee.  An instance of the   *)
(* provider is created once; the program may create others, each with its  *)
(* own box and its own registration.                                       *)
(***************************************************************************)
EXTENDS Naturals, Sequences, FiniteSets

CONSTANTS
  Threads,        \* application threads that share the provider
  MaxLevel,       \* the largest trace level (the code: 255, a u8)
  EventLevels,    \* levels of the events the application asks about
  DisableLevels,  \* levels ETW may pass along with a DISABLE notice
  MaxNotices,     \* bound: control notices posted in one behaviour
  Serial          \* TRUE: ETW runs the callbacks of a registration one at a time

Levels == 0..MaxLevel

ASSUME LevelAssumption ==
  /\ MaxLevel \in Nat
  /\ EventLevels \subseteq Levels
  /\ DisableLevels \subseteq Levels
ASSUME SerialAssumption == Serial \in BOOLEAN

VARIABLES
  phase,      \* where the owner is in new() ... drop()
  stable,     \* the Box<StableProviderData>: "none", "live" or "freed"
  max_level,  \* StableProviderData::max_level
  traits,     \* what EventSetInformation last attached to the registration
  client,     \* per application thread: its borrow and the call it is in
  registered, \* ETW: the registration is published
  session,    \* ETW: the combined state of the trace sessions
  notices,    \* ETW: every notice posted to this registration, oldest first
  begun,      \* ETW: how many of them have been handed to the callback
  running     \* ETW: the callbacks in flight, by the index of their notice

ownerVars  == <<phase, stable, traits>>
etwVars    == <<registered, session, notices>>
cbVars     == <<begun, running>>
vars       == <<ownerVars, max_level, client, etwVars, cbVars>>

Codes  == {"ENABLE", "DISABLE", "CAPTURE_STATE", "UNRECOGNIZED"}
Notice == [code : Codes, level : Levels]
Phases == {"unborn", "registering", "live", "unregistering", "dropped", "failed"}
Calls  == [pc : {"idle", "holding", "writing"}, level : Levels]
            \cup [pc : {"answered"}, level : Levels, answer : BOOLEAN]

Idle    == [pc |-> "idle",    level |-> 0]
Holding == [pc |-> "holding", level |-> 0]

TypeOK ==
  /\ phase \in Phases
  /\ stable \in {"none", "live", "freed"}
  /\ max_level \in Levels
  /\ traits \in {"none", "metadata", "traits"}
  /\ client \in [Threads -> Calls]
  /\ registered \in BOOLEAN
  /\ session \in [on : BOOLEAN, level : Levels]
  /\ notices \in Seq(Notice)
  /\ begun \in 0..Len(notices)
  /\ running \subseteq 1..begun

Init ==
  /\ phase = "unborn" /\ stable = "none" /\ max_level = 0 /\ traits = "none"
  /\ client = [t \in Threads |-> Idle]
  /\ registered = FALSE
  /\ session \in {[on |-> FALSE, level |-> 0]} \cup [on : {TRUE}, level : Levels]
  /\ notices = <<>> /\ begun = 0 /\ running = {}

-----------------------------------------------------------------------------
(* The owner: EtwProvider::new, the two EventSetInformation calls, Drop.   *)

NewBox == stable' = "live" /\ max_level' = 0

New ==
  /\ phase = "unborn"
  /\ phase' = "registering"
  /\ NewBox
  /\ UNCHANGED <<traits, client, etwVars, cbVars>>

\* Seeded fault: the box is initialised once EventRegister has returned.
NewOk_InitialisesLate ==
  /\ phase = "registering" /\ registered
  /\ phase' = "live" /\ max_level' = 0
  /\ UNCHANGED <<stable, traits, client, etwVars, cbVars>>

\* EventRegister returned ERROR_SUCCESS: the handle and the box move into
\* the EtwProvider; the box keeps its address.
NewOk ==
  /\ phase = "registering" /\ registered
  /\ phase' = "live"
  /\ UNCHANGED <<stable, traits, max_level, client, etwVars, cbVars>>

\* EventRegister failed: Err is returned and the box is dropped.
NewErr ==
  /\ phase = "registering" /\ ~registered
  /\ phase' = "failed" /\ stable' = "freed"
  /\ UNCHANGED <<traits, max_level, client, etwVars, cbVars>>

\* Both calls take &mut self, so no thread may be borrowing the provider.
Exclusive == phase = "live" /\ \A t \in Threads : client[t] = Idle

SetInformation(blob, accepted) ==
  /\ Exclusive
  /\ traits' = IF accepted THEN blob ELSE traits
  /\ UNCHANGED <<phase, stable, max_level, client, etwVars, cbVars>>

register_provider_metadata == \E ok \in BOOLEAN : SetInformation("metadata", ok)
set_provider_traits        == \E ok \in BOOLEAN : SetInformation("traits", ok)

\* Seeded fault: the box is dropped before EventUnregister returns.
DropBegin_FreesFirst ==
  /\ Exclusive
  /\ phase' = "unregistering" /\ registered' = FALSE /\ stable' = "freed"
  /\ UNCHANGED <<traits, max_level, client, session, notices, cbVars>>

\* Drop::drop calls EventUnregister: the registration is withdrawn, and the
\* call waits for the callbacks in flight.  Only then are the fields dropped.
DropBegin ==
  /\ Exclusive
  /\ phase' = "unregistering" /\ registered' = FALSE
  /\ UNCHANGED <<stable, traits, max_level, client, session, notices, cbVars>>

EventUnregisterReturns == running = {}

DropEnd ==
  /\ phase = "unregistering" /\ EventUnregisterReturns
  /\ phase' = "dropped" /\ stable' = "freed"
  /\ UNCHANGED <<traits, max_level, client, etwVars, cbVars>>

-----------------------------------------------------------------------------
(* The application threads (Provider for EtwProvider).                     *)

Goto(t, c) ==
  /\ client' = [client EXCEPT ![t] = c]
  /\ UNCHANGED <<ownerVars, max_level, etwVars, cbVars>>

Borrow(t)  == phase = "live" /\ client[t] = Idle /\ Goto(t, Holding)
Return(t)  == client[t] = Holding /\ Goto(t, Idle)

\* Seeded fault: the level of the sessions is taken for exclusive.
Allows_Below(level) == level < max_level

Allows(level) == level <= max_level

is_event_enabled(t, level) ==
  /\ client[t] = Holding
  /\ Goto(t, [pc |-> "answered", level |-> level, answer |-> Allows(level)])

\* ETW's own answer for the registration (external).  The keyword of the
\* question is left out: the sessions of the model take every keyword.
EventProviderEnabled(level) == session.on /\ level <= session.level

\* Asks ETW and not the cached level.
is_enabled(t, level) ==
  /\ client[t] = Holding
  /\ Goto(t, [pc |-> "answered", level |-> level, answer |-> EventProviderEnabled(level)])

\* The caller of is_event_enabled goes on to write, or gives up.  Event
\* methods made by the macro write without asking.  `level` is the level of
\* the descriptor after options.level has replaced it.
Refused(t) ==
  /\ client[t].pc = "answered" /\ ~client[t].answer
  /\ Goto(t, Holding)

MayWrite(t) == client[t] = Holding \/ (client[t].pc = "answered" /\ client[t].answer)

write(t, level) ==
  /\ MayWrite(t)
  /\ Goto(t, [pc |-> "writing", level |-> level])

EventWriteExReturns(t) == client[t].pc = "writing" /\ Goto(t, Holding)

-----------------------------------------------------------------------------
(* ETW (external).                                                         *)

Post(code, level) == notices' = Append(notices, [code |-> code, level |-> level])

\* Inside EventRegister.  A session that is already on is reported at once.
Publish ==
  /\ phase = "registering" /\ ~registered
  /\ registered' = TRUE
  /\ IF session.on THEN Post("ENABLE", session.level) ELSE UNCHANGED notices
  /\ UNCHANGED <<ownerVars, max_level, client, session, cbVars>>

\* A controller changes the sessions; the provider hears of it if it is
\* registered.
Control(code, next) ==
  /\ Len(notices) < MaxNotices
  /\ session' = next
  /\ IF registered THEN Post(code, next.level) ELSE UNCHANGED notices
  /\ UNCHANGED <<ownerVars, max_level, client, registered, cbVars>>

Enable(l)  == Control("ENABLE", [on |-> TRUE, level |-> l])
Disable(l) == session.on /\ Control("DISABLE", [on |-> FALSE, level |-> l])

Notify(code, l) ==
  /\ registered /\ Len(notices) < MaxNotices
  /\ Post(code, l)
  /\ UNCHANGED <<ownerVars, max_level, client, registered, session, cbVars>>

CallbackBegin ==
  /\ registered /\ begun < Len(notices)
  /\ Serial => running = {}
  /\ begun' = begun + 1 /\ running' = running \cup {begun + 1}
  /\ UNCHANGED <<ownerVars, max_level, client, etwVars>>

\* Seeded faults: the level becomes an exclusive bound; DISABLE is ignored;
\* CAPTURE_STATE falls through to the store.
Stored_Exclusive(n) == IF n.code \in {"ENABLE", "DISABLE"} THEN n.level + 1 ELSE max_level
Stored_OnlyEnable(n) == IF n.code = "ENABLE" THEN n.level ELSE max_level
Stored_AnyCode(n) == IF n.code = "UNRECOGNIZED" THEN max_level ELSE n.level

\* What enable_callback does to max_level for one notice.
Stored(n) == IF n.code \in {"ENABLE", "DISABLE"} THEN n.level ELSE max_level

\* Seeded fault: the callback does not return from a code it does not know.
enable_callback_Hangs(i) ==
  /\ i \in running /\ notices[i].code # "UNRECOGNIZED"
  /\ max_level' = Stored(notices[i])
  /\ running' = running \ {i}
  /\ UNCHANGED <<ownerVars, client, etwVars, begun>>

enable_callback(i) ==
  /\ i \in running
  /\ max_level' = Stored(notices[i])
  /\ running' = running \ {i}
  /\ UNCHANGED <<ownerVars, client, etwVars, begun>>

-----------------------------------------------------------------------------
Owner == New \/ NewOk \/ NewErr \/ register_provider_metadata
         \/ set_provider_traits \/ DropBegin \/ DropEnd

App(t) ==
  \/ Borrow(t) \/ Return(t) \/ Refused(t) \/ EventWriteExReturns(t)
  \/ \E l \in EventLevels : is_event_enabled(t, l) \/ is_enabled(t, l) \/ write(t, l)

Controller ==
  \/ \E l \in Levels : Enable(l)
  \/ \E l \in DisableLevels : Disable(l)
  \/ \E l \in Levels : Notify("CAPTURE_STATE", l) \/ Notify("UNRECOGNIZED", l)

Callbacks == CallbackBegin \/ \E i \in 1..begun : enable_callback(i)

Next == Owner \/ (\E t \in Threads : App(t)) \/ Controller \/ Publish \/ Callbacks

Spec == Init /\ [][Next]_vars

\* ETW runs the callbacks it queued, and Drop, once begun, is carried on by
\* the thread that runs it.  Nothing obliges the owner to drop, a controller
\* to act, or a thread to log.
Fairness == WF_vars(Callbacks) /\ WF_vars(DropEnd)
FairSpec == Spec /\ Fairness

-----------------------------------------------------------------------------
(* Properties.                                                             *)

\* Every access to the boxed StableProviderData -- by a callback in flight
\* on an ETW thread or by a thread inside is_event_enabled -- finds the box
\* alive, and every handle passed to EventWriteEx is still registered: the
\* order inside Drop (EventUnregister, then the box) is what ensures it.
NoUseAfterFree ==
  /\ running # {} => stable = "live"
  /\ registered => stable = "live"
  /\ \A t \in Threads : client[t].pc # "idle" => stable = "live" /\ registered

Unapplied(i) == i \in (begun + 1)..Len(notices) \/ i \in running
IsControl(i) == notices[i].code \in {"ENABLE", "DISABLE"}
CaughtUp     == \A i \in 1..Len(notices) : Unapplied(i) => ~IsControl(i)

\* The cached max_level never disagrees with the sessions except by notices
\* still on their way: with none left it is the level ETW last announced,
\* and otherwise the newest one on its way carries that level.  A store of
\* the wrong notice, a notice dropped during registration, or a box
\* initialised after EventRegister would leave the provider deaf or noisy.
LevelAgreement ==
  registered =>
    IF CaughtUp
    THEN max_level = session.level
    ELSE \E i \in 1..Len(notices) :
           /\ Unapplied(i) /\ IsControl(i) /\ notices[i].level = session.level
           /\ \A j \in (i + 1)..Len(notices) : ~IsControl(j)

Wanted(level) == session.on /\ level <= session.level

\* is_event_enabled ("Checks whether a specific event is enabled.") and
\* is_enabled answer, whenever no notice is on its way, exactly whether a
\* session collects events of that level: the cache and ETW agree.
AnswersMatchSession ==
  [][\A t \in Threads :
       /\ client[t].pc = "holding" /\ client'[t].pc = "answered"
       /\ registered /\ CaughtUp
       => (client'[t].answer <=> Wanted(client'[t].level))]_vars

\* The levels that the first n notices announced.
Announce(levels, n) ==
  IF n.code \in {"ENABLE", "DISABLE"} THEN Append(levels, n.level) ELSE levels
Announced[n \in 0..Len(notices)] ==
  IF n = 0 THEN <<>> ELSE Announce(Announced[n - 1], notices[n])

\* max_level passes through the levels of the ENABLE and DISABLE notices of
\* the registration, each once and in the order ETW posted them: no store of
\* another notice, none lost during EventRegister, none overtaken.
Feed == INSTANCE LevelFeed WITH
          announced <- Announced[Len(notices)],
          applied   <- Cardinality({i \in 1..begun : i \notin running /\ IsControl(i)}),
          cached    <- max_level
FollowsTheFeed == Feed!Spec

\* Drop cannot be held up for ever by callbacks: once begun it completes.
DropCompletes == phase = "unregistering" ~> phase = "dropped"

\* A provider that stays registered ends up with the level of the sessions.
CacheCatchesUp == <>[]registered => <>[](max_level = session.level)
=============================================================================
