---------------------------- MODULE TraceLogger ----------------------------
(***************************************************************************)
(* The `log::Log` implementation of win_etw_logger/src/lib.rs: threads     *)
(* that log records while others change its two settings.                  *)
(*                                                                         *)
(* log() reads the two atomic flags one after the other, then formats the  *)
(* message -- code of the program, of any length -- and only then hands    *)
(* the event to its provider.  It does not ask whether the record is       *)
(* enabled; `enabled` is there for its callers.  The provider underneath   *)
(* is LevelFeed: sessions announce levels, and the cached level follows.   *)
(***************************************************************************)
EXTENDS Naturals, Sequences

CONSTANTS
  Threads,
  None,
  Empty,         \* the empty text
  Records,       \* log records: [level, module_path, file, line], None for what is missing
  SessionLevels, \* the levels sessions are given, 0 if there is none left
  MaxAnnounced   \* bound: changes of the sessions in one behaviour

ASSUME LoggerAssumption ==
  /\ None # Empty
  /\ SessionLevels \subseteq Nat
  /\ \A r \in Records : r.level \in {"Error", "Warn", "Info", "Debug", "Trace"}

VARIABLES
  registered,      \* RustLogProvider::new() got a registration
  log_module_path, \* the two AtomicBool
  log_file_path,
  op,              \* per thread, the call it is in
  during,          \* auxiliary: per thread, the values of the flags since its call began
  last,            \* the event the last step handed to the provider, or None
  announced, applied, cached  \* LevelFeed

feedVars == <<announced, applied, cached>>
flags    == <<log_module_path, log_file_path>>
vars     == <<registered, flags, op, during, last, feedVars>>

Feed == INSTANCE LevelFeed WITH Levels <- SessionLevels

Idle == [pc |-> "idle"]

Init ==
  /\ registered \in BOOLEAN
  /\ log_module_path = TRUE /\ log_file_path = TRUE
  /\ op = [t \in Threads |-> Idle]
  /\ during = [t \in Threads |-> [module |-> {}, file |-> {}]]
  /\ last = None
  /\ Feed!Init

-----------------------------------------------------------------------------
(* The sessions, and the level cache of the provider.                      *)

\* An answer of `enabled` is steady while no session changes.
Announce(l) ==
  /\ Len(announced) < MaxAnnounced
  /\ Feed!Announce(l)
  /\ op' = [t \in Threads |->
              IF op[t].pc = "idle" THEN op[t] ELSE [op[t] EXCEPT !.steady = FALSE]]
  /\ last' = None /\ UNCHANGED <<registered, flags, during>>

Apply ==
  /\ Feed!Apply
  /\ last' = None /\ UNCHANGED <<registered, flags, op, during>>

\* ETW (external) stores an event if a session collects its level.
Collects(level) == registered /\ level <= Feed!Current

-----------------------------------------------------------------------------
(* The settings.                                                           *)

InCall(t) == op[t].pc \in {"called", "reading", "formatting"}

set_log_module_path(value) ==
  /\ log_module_path' = value
  /\ during' = [t \in Threads |->
                  IF InCall(t) THEN [during[t] EXCEPT !.module = @ \cup {value}] ELSE during[t]]
  /\ last' = None
  /\ UNCHANGED <<registered, log_file_path, op, feedVars>>

set_log_file_path(value) ==
  /\ log_file_path' = value
  /\ during' = [t \in Threads |->
                  IF InCall(t) THEN [during[t] EXCEPT !.file = @ \cup {value}] ELSE during[t]]
  /\ last' = None
  /\ UNCHANGED <<registered, log_module_path, op, feedVars>>

-----------------------------------------------------------------------------
(* log::Log for TraceLogger.                                               *)

\* Seeded fault: the levels of the log crate are passed on as they are.
level_to_etw_AsIs(level) ==
  CASE level = "Error" -> 1 [] level = "Warn" -> 2 [] level = "Info" -> 3
    [] level = "Debug" -> 4 [] level = "Trace" -> 5

level_to_etw(level) ==
  CASE level = "Error" -> 2 [] level = "Warn" -> 3 [] level = "Info" -> 4
    [] level = "Debug" -> 5 [] level = "Trace" -> 6

\* log_is_enabled(Some(level)): is_event_enabled of the provider, if there
\* is one.
log_is_enabled(level) == registered /\ level <= cached

enabled(t, r) ==
  /\ op[t] = Idle
  /\ op' = [op EXCEPT ![t] = [pc |-> "asked", record |-> r,
                              answer |-> log_is_enabled(level_to_etw(r.level)),
                              steady |-> applied = Len(announced)]]
  /\ last' = None
  /\ UNCHANGED <<registered, flags, during, feedVars>>

OrElse(x, default) == IF x = None THEN default ELSE x

\* The call of log(), by a caller that has asked or by one that has not.
LogBegin(t, r) ==
  /\ op[t] = Idle \/ (op[t].pc = "asked" /\ op[t].record = r)
  /\ op' = [op EXCEPT ![t] =
              IF op[t] = Idle THEN [pc |-> "called", record |-> r, answer |-> None, steady |-> FALSE]
              ELSE [op[t] EXCEPT !.pc = "called"]]
  /\ during' = [during EXCEPT ![t] = [module |-> {log_module_path}, file |-> {log_file_path}]]
  /\ last' = None
  /\ UNCHANGED <<registered, flags, feedVars>>

ModulePart(r, on) == IF on THEN OrElse(r.module_path, Empty) ELSE Empty
FilePart(r, on) ==
  IF on THEN [file |-> OrElse(r.file, Empty), line |-> OrElse(r.line, 0)]
  ELSE [file |-> Empty, line |-> 0]

Advance(t, pc, field, part) ==
  [pc |-> pc, record |-> op[t].record, answer |-> op[t].answer, steady |-> op[t].steady,
   module |-> IF field = "module" THEN part ELSE op[t].module,
   place  |-> IF field = "place" THEN part ELSE FilePart(op[t].record, FALSE)]

ReadModulePath(t) ==
  /\ op[t].pc = "called"
  /\ op' = [op EXCEPT ![t] = Advance(t, "reading", "module",
                                     ModulePart(op[t].record, log_module_path))]
  /\ last' = None
  /\ UNCHANGED <<registered, flags, during, feedVars>>

\* Seeded fault: the module's flag is asked twice.
ReadFilePath_ModuleFlag(t) ==
  /\ op[t].pc = "reading"
  /\ op' = [op EXCEPT ![t] = Advance(t, "formatting", "place",
                                     FilePart(op[t].record, log_module_path))]
  /\ last' = None
  /\ UNCHANGED <<registered, flags, during, feedVars>>

\* File and line depend on one load.
ReadFilePath(t) ==
  /\ op[t].pc = "reading"
  /\ op' = [op EXCEPT ![t] = Advance(t, "formatting", "place",
                                     FilePart(op[t].record, log_file_path))]
  /\ last' = None
  /\ UNCHANGED <<registered, flags, during, feedVars>>

\* The event handed to the provider once the message is formatted.
Written(t, level) ==
  /\ last' = [record |-> op[t].record, answer |-> op[t].answer, steady |-> op[t].steady,
              settings |-> during[t], level |-> level, module |-> op[t].module,
              place |-> op[t].place, collected |-> Collects(level)]
  /\ op' = [op EXCEPT ![t] = Idle]
  /\ during' = [during EXCEPT ![t] = [module |-> {}, file |-> {}]]
  /\ UNCHANGED <<registered, flags, feedVars>>

\* Seeded fault: the options are left out, the event keeps its level VERBOSE.
log_WithoutOptions(t) == op[t].pc = "formatting" /\ Written(t, 5)

log(t) == op[t].pc = "formatting" /\ Written(t, level_to_etw(op[t].record.level))

-----------------------------------------------------------------------------
Next ==
  \/ \E l \in SessionLevels : Announce(l)
  \/ Apply
  \/ \E value \in BOOLEAN : set_log_module_path(value) \/ set_log_file_path(value)
  \/ \E t \in Threads : \/ \E r \in Records : enabled(t, r) \/ LogBegin(t, r)
                        \/ ReadModulePath(t) \/ ReadFilePath(t) \/ log(t)

Spec == Init /\ [][Next]_vars

-----------------------------------------------------------------------------
(* Properties.                                                             *)

Places == {FilePart(r, on) : r \in Records, on \in BOOLEAN}
Modules == {ModulePart(r, on) : r \in Records, on \in BOOLEAN}

Calls ==
  {Idle}
    \cup [pc : {"asked", "called"}, record : Records, answer : BOOLEAN \cup {None},
          steady : BOOLEAN]
    \cup [pc : {"reading", "formatting"}, record : Records, answer : BOOLEAN \cup {None},
          steady : BOOLEAN, module : Modules, place : Places]

TypeOK ==
  /\ registered \in BOOLEAN /\ log_module_path \in BOOLEAN /\ log_file_path \in BOOLEAN
  /\ during \in [Threads -> [module : SUBSET BOOLEAN, file : SUBSET BOOLEAN]]
  /\ op \in [Threads -> Calls]
  /\ last # None => last.level \in 2..6 /\ last.module \in Modules /\ last.place \in Places
  /\ announced \in Seq(SessionLevels) /\ applied \in 0..Len(announced)
  /\ cached \in SessionLevels \cup {0}

\* Every event says of its record what some setting in force during the call
\* makes it say: the module path or nothing by the one flag, file and line
\* together or neither by the other.  So once set_log_module_path(false) or
\* set_log_file_path(false) -- "provided to give control over privacy" -- has
\* returned, no call that begins later lets the path out.
RecordsFollowTheSettings ==
  last # None =>
    /\ \E on \in last.settings.module : last.module = ModulePart(last.record, on)
    /\ \E on \in last.settings.file   : last.place  = FilePart(last.record, on)

\* `enabled` speaks for the event that log() then writes: if the cache had
\* caught up when it was asked and no session changed since, ETW stores the
\* record exactly if the answer was yes.
EnabledForetells ==
  last # None /\ last.steady => (last.collected <=> last.answer)
=============================================================================
