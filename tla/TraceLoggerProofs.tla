------------------------- MODULE TraceLoggerProofs -------------------------
(***************************************************************************)
(* The logger keeps its promises for any threads, records and levels.      *)
(*                                                                         *)
(* The invariant says what a call in progress has seen: what it took from  *)
(* its record is what some setting in force since it began makes of it,    *)
(* and a steady answer is still the answer of the sessions.                *)
(***************************************************************************)
EXTENDS TraceLogger, SequenceTheorems, TLAPS

Feeds == cached = IF applied = 0 THEN 0 ELSE announced[applied]

\* The settings seen by the call of one thread.
Seen(t) ==
  /\ InCall(t) => log_module_path \in during[t].module /\ log_file_path \in during[t].file
  /\ op[t].pc \in {"reading", "formatting"} =>
       \E on \in during[t].module : op[t].module = ModulePart(op[t].record, on)
  /\ op[t].pc = "formatting" =>
       \E on \in during[t].file : op[t].place = FilePart(op[t].record, on)

Foretold(t) ==
  op[t] # Idle /\ op[t].steady =>
    /\ applied = Len(announced)
    /\ op[t].answer \in BOOLEAN
    /\ op[t].answer <=> Collects(level_to_etw(op[t].record.level))

Inv ==
  /\ TypeOK /\ Feeds
  /\ \A t \in Threads : Seen(t) /\ Foretold(t)
  /\ RecordsFollowTheSettings /\ EnabledForetells

LEMMA LevelType == ASSUME NEW r \in Records PROVE level_to_etw(r.level) \in 2..6
  BY LoggerAssumption DEF level_to_etw

LEMMA PartTypes ==
  ASSUME NEW r \in Records, NEW on \in BOOLEAN
  PROVE  ModulePart(r, on) \in Modules /\ FilePart(r, on) \in Places
  BY DEF Modules, Places

LEMMA InitInv == Init => Inv
<1> SUFFICES ASSUME Init PROVE Inv
  OBVIOUS
<1> USE DEF Init, Feed!Init
<1>1. TypeOK
  BY DEF TypeOK, Calls
<1>2. Feeds /\ RecordsFollowTheSettings /\ EnabledForetells
  BY DEF Feeds, RecordsFollowTheSettings, EnabledForetells
<1>3. ASSUME NEW t \in Threads PROVE Seen(t) /\ Foretold(t)
  BY DEF Seen, Foretold, InCall, Idle
<1> QED
  BY <1>1, <1>2, <1>3 DEF Inv

\* What a step leaves alone stays true of the threads that it leaves alone.
LEMMA OthersKeep ==
  ASSUME NEW u, Seen(u), Foretold(u), op'[u] = op[u], during'[u] = during[u],
         UNCHANGED <<registered, flags, feedVars>>
  PROVE  Seen(u)' /\ Foretold(u)'
  BY DEF Seen, Foretold, InCall, Collects, Feed!Current, flags, feedVars

LEMMA AnnounceInv == ASSUME Inv, NEW l \in SessionLevels, Announce(l) PROVE Inv'
<1> USE DEF Announce, Feed!Announce
<1>1. /\ announced \in Seq(SessionLevels) /\ announced' = Append(announced, l)
      /\ announced' \in Seq(SessionLevels) /\ Len(announced') = Len(announced) + 1
      /\ \A i \in 1..Len(announced) : announced'[i] = announced[i]
      /\ applied \in 0..Len(announced) /\ UNCHANGED <<applied, cached>>
  BY DEF Inv, TypeOK
<1>2. ASSUME NEW t \in Threads
      PROVE  /\ op'[t] \in Calls /\ op'[t].pc = op[t].pc
             /\ op[t] = Idle => op'[t] = Idle
             /\ op[t] # Idle => op'[t].record = op[t].record /\ ~op'[t].steady
             /\ op[t].pc \in {"reading", "formatting"} =>
                  op'[t].module = op[t].module /\ op'[t].place = op[t].place
  <2>1. op[t] \in Calls
    BY DEF Inv, TypeOK
  <2>2. CASE op[t].pc = "idle"
    BY <2>1, <2>2 DEF Calls, Idle
  <2>3. CASE op[t] \in [pc : {"asked", "called"}, record : Records, answer : BOOLEAN \cup {None},
                        steady : BOOLEAN]
    BY <2>3 DEF Calls, Idle
  <2>4. CASE op[t] \in [pc : {"reading", "formatting"}, record : Records,
                        answer : BOOLEAN \cup {None}, steady : BOOLEAN, module : Modules, place : Places]
    BY <2>4 DEF Calls, Idle
  <2> QED
    BY <2>1, <2>2, <2>3, <2>4 DEF Calls, Idle
<1>3. TypeOK'
  <2>1. op' \in [Threads -> Calls]
    BY <1>2
  <2> QED
    BY <1>1, <2>1 DEF Inv, TypeOK, flags
<1>4. Feeds'
  BY <1>1 DEF Inv, Feeds
<1>5. ASSUME NEW t \in Threads PROVE Seen(t)' /\ Foretold(t)'
  <2>1. Seen(t)
    BY <1>5 DEF Inv
  <2>2. UNCHANGED <<log_module_path, log_file_path, during>>
    BY DEF flags
  <2>3. Seen(t)'
    BY <1>2, <1>5, <2>1, <2>2, Zenon DEF Seen, InCall, Idle
  <2>4. Foretold(t)'
    BY <1>2, <1>5 DEF Foretold
  <2> QED
    BY <2>3, <2>4
<1> QED
  BY <1>3, <1>4, <1>5 DEF Inv, RecordsFollowTheSettings, EnabledForetells

LEMMA ApplyInv == ASSUME Inv, Apply PROVE Inv'
<1> USE DEF Apply, Feed!Apply
<1>1. /\ announced \in Seq(SessionLevels) /\ applied < Len(announced)
      /\ applied' = applied + 1 /\ cached' = announced[applied + 1]
      /\ applied \in 0..Len(announced) /\ announced' = announced
  BY DEF Inv, TypeOK
<1>2. TypeOK'
  BY <1>1 DEF Inv, TypeOK, flags
<1>3. Feeds'
  BY <1>1 DEF Feeds
<1>4. ASSUME NEW t \in Threads PROVE Seen(t)' /\ Foretold(t)'
  BY <1>1, <1>4 DEF Inv, Seen, Foretold, InCall, flags
<1> QED
  BY <1>2, <1>3, <1>4 DEF Inv, RecordsFollowTheSettings, EnabledForetells

LEMMA SettingInv ==
  ASSUME Inv, NEW value \in BOOLEAN, set_log_module_path(value) \/ set_log_file_path(value)
  PROVE  Inv'
<1> USE DEF set_log_module_path, set_log_file_path
<1>1. /\ UNCHANGED <<registered, op, feedVars>> /\ last' = None
      /\ log_module_path' \in BOOLEAN /\ log_file_path' \in BOOLEAN
  BY DEF Inv, TypeOK
<1>2. ASSUME NEW t \in Threads
      PROVE  /\ during'[t] \in [module : SUBSET BOOLEAN, file : SUBSET BOOLEAN]
             /\ during[t].module \subseteq during'[t].module
             /\ during[t].file \subseteq during'[t].file
             /\ InCall(t) => log_module_path' \in during'[t].module /\ log_file_path' \in during'[t].file
  <2>1. during[t] \in [module : SUBSET BOOLEAN, file : SUBSET BOOLEAN]
    BY DEF Inv, TypeOK
  <2>2. InCall(t) => log_module_path \in during[t].module /\ log_file_path \in during[t].file
    BY DEF Inv, Seen
  <2> QED
    BY <2>1, <2>2
<1>3. TypeOK'
  <2>1. during' \in [Threads -> [module : SUBSET BOOLEAN, file : SUBSET BOOLEAN]]
    BY <1>2
  <2> QED
    BY <1>1, <2>1 DEF Inv, TypeOK, feedVars
<1>4. Feeds'
  BY <1>1 DEF Inv, Feeds, feedVars
<1>5. ASSUME NEW t \in Threads PROVE Seen(t)' /\ Foretold(t)'
  <2>1. Seen(t)'
    BY <1>1, <1>2, <1>5 DEF Inv, Seen, InCall
  <2>2. Foretold(t)'
    BY <1>1, <1>5 DEF Inv, Foretold, Collects, Feed!Current, feedVars
  <2> QED
    BY <2>1, <2>2
<1> QED
  BY <1>1, <1>3, <1>4, <1>5 DEF Inv, RecordsFollowTheSettings, EnabledForetells

\* A step of the call of one thread that hands over no event.
LEMMA CallInv ==
  ASSUME Inv, NEW t \in Threads, NEW call \in Calls, NEW d \in [module : SUBSET BOOLEAN, file : SUBSET BOOLEAN],
         op' = [op EXCEPT ![t] = call], during' = [during EXCEPT ![t] = d], last' = None,
         UNCHANGED <<registered, flags, feedVars>>, Seen(t)', Foretold(t)'
  PROVE  Inv'
<1>1. TypeOK'
  BY DEF Inv, TypeOK, flags, feedVars
<1>2. ASSUME NEW u \in Threads PROVE Seen(u)' /\ Foretold(u)'
  <2>1. CASE u = t
    BY <2>1
  <2>2. CASE u # t
    BY <2>2, <1>2, OthersKeep DEF Inv, TypeOK
  <2> QED
    BY <2>1, <2>2
<1>3. Feeds'
  BY DEF Inv, Feeds, feedVars
<1> QED
  BY <1>1, <1>2, <1>3 DEF Inv, RecordsFollowTheSettings, EnabledForetells

LEMMA EnabledInv ==
  ASSUME Inv, NEW t \in Threads, NEW r \in Records, enabled(t, r) PROVE Inv'
<1> DEFINE answer == log_is_enabled(level_to_etw(r.level))
           call   == [pc |-> "asked", record |-> r, answer |-> answer,
                      steady |-> applied = Len(announced)]
<1>1. /\ answer \in BOOLEAN /\ call \in Calls
      /\ op' = [op EXCEPT ![t] = call] /\ op'[t] = call
      /\ UNCHANGED <<registered, flags, during, feedVars>> /\ last' = None
  BY DEF enabled, log_is_enabled, Calls, Inv, TypeOK
<1>2. /\ during[t] \in [module : SUBSET BOOLEAN, file : SUBSET BOOLEAN]
      /\ during' = [during EXCEPT ![t] = during[t]]
  BY <1>1 DEF Inv, TypeOK
<1>3. applied = Len(announced) => cached = Feed!Current
  BY DEF Inv, TypeOK, Feeds, Feed!Current
<1>4. Seen(t)'
  BY <1>1 DEF Seen, InCall
<1>5. Foretold(t)'
  <2>1. call.steady => (answer <=> Collects(level_to_etw(r.level)))
    BY <1>3 DEF log_is_enabled, Collects
  <2>2. (Collects(level_to_etw(r.level)))' = Collects(level_to_etw(r.level))
    BY <1>1 DEF Collects, Feed!Current, feedVars
  <2>3. call.steady => applied' = Len(announced')
    BY <1>1 DEF feedVars
  <2>4. call.record = r /\ call.answer = answer
    OBVIOUS
  <2> HIDE DEF answer, call
  <2> QED
    BY <1>1, <2>1, <2>2, <2>3, <2>4 DEF Foretold
<1> QED
  BY <1>1, <1>2, <1>4, <1>5, CallInv

LEMMA LogBeginInv ==
  ASSUME Inv, NEW t \in Threads, NEW r \in Records, LogBegin(t, r) PROVE Inv'
<1> DEFINE call == IF op[t] = Idle
                   THEN [pc |-> "called", record |-> r, answer |-> None, steady |-> FALSE]
                   ELSE [op[t] EXCEPT !.pc = "called"]
           d    == [module |-> {log_module_path}, file |-> {log_file_path}]
<1>1. /\ op' = [op EXCEPT ![t] = call] /\ op'[t] = call
      /\ during' = [during EXCEPT ![t] = d] /\ during'[t] = d
      /\ d \in [module : SUBSET BOOLEAN, file : SUBSET BOOLEAN]
      /\ UNCHANGED <<registered, flags, feedVars>> /\ last' = None
  BY DEF LogBegin, Inv, TypeOK
<1>2. /\ call \in Calls /\ call.pc = "called" /\ call # Idle
      /\ call.steady => op[t] # Idle /\ op[t].steady /\ call.record = op[t].record
                        /\ call.answer = op[t].answer
  <2>1. op[t] \in Calls
    BY DEF Inv, TypeOK
  <2>2. CASE op[t] = Idle
    BY <2>2 DEF Calls, Idle
  <2>3. CASE op[t] # Idle /\ op[t].pc = "asked" /\ op[t].record = r
    <3>1. op[t] \in [pc : {"asked", "called"}, record : Records, answer : BOOLEAN \cup {None},
                     steady : BOOLEAN]
      BY <2>1, <2>3 DEF Calls, Idle
    <3> QED
      BY <2>3, <3>1 DEF Calls, Idle
  <2> QED
    BY <2>2, <2>3 DEF LogBegin
<1>3. Seen(t)'
  <2>1. d.module = {log_module_path} /\ d.file = {log_file_path}
    OBVIOUS
  <2> HIDE DEF call, d
  <2> QED
    BY <1>1, <1>2, <2>1 DEF Seen, InCall, flags
<1>4. Foretold(t)'
  <2> HIDE DEF call, d
  <2>1. Foretold(t)
    BY DEF Inv
  <2> QED
    <3>1. op'[t].steady => op[t] # Idle /\ op[t].steady /\ op'[t].record = op[t].record
                           /\ op'[t].answer = op[t].answer
      BY <1>1, <1>2
    <3>2. UNCHANGED <<registered, announced, applied, cached>>
      BY <1>1 DEF feedVars
    <3> QED
      BY <2>1, <3>1, <3>2 DEF Foretold, Collects, Feed!Current
<1> QED
  <2> HIDE DEF call, d
  <2> QED
    BY <1>1, <1>2, <1>3, <1>4, CallInv

\* The two reads of the settings.
LEMMA ReadInv ==
  ASSUME Inv, NEW t \in Threads, ReadModulePath(t) \/ ReadFilePath(t) PROVE Inv'
<1>1. /\ op[t] \in Calls /\ Seen(t) /\ Foretold(t)
      /\ during[t] \in [module : SUBSET BOOLEAN, file : SUBSET BOOLEAN]
      /\ during' = [during EXCEPT ![t] = during[t]] /\ UNCHANGED during
      /\ UNCHANGED <<registered, flags, feedVars>> /\ last' = None
      /\ log_module_path \in BOOLEAN /\ log_file_path \in BOOLEAN
  BY DEF ReadModulePath, ReadFilePath, Inv, TypeOK
<1>2. CASE ReadModulePath(t)
  <2> DEFINE part == ModulePart(op[t].record, log_module_path)
             call == Advance(t, "reading", "module", part)
  <2>1. op[t] \in [pc : {"asked", "called"}, record : Records, answer : BOOLEAN \cup {None},
                   steady : BOOLEAN]
        /\ op[t].pc = "called"
    BY <1>1, <1>2 DEF ReadModulePath, Calls, Idle
  <2>2. part \in Modules /\ FilePart(op[t].record, FALSE) \in Places
    BY <1>1, <2>1, PartTypes
  <2>3. /\ call \in Calls /\ call.pc = "reading" /\ call.record = op[t].record
        /\ call.answer = op[t].answer /\ call.steady = op[t].steady /\ call.module = part
        /\ call # Idle /\ op[t] # Idle
    <3>1. call = [pc |-> "reading", record |-> op[t].record, answer |-> op[t].answer,
                  steady |-> op[t].steady, module |-> part,
                  place |-> FilePart(op[t].record, FALSE)]
      BY DEF Advance
    <3> HIDE DEF call
    <3> HIDE DEF part
    <3>2. call \in [pc : {"reading", "formatting"}, record : Records,
                   answer : BOOLEAN \cup {None}, steady : BOOLEAN, module : Modules, place : Places]
      BY <2>1, <2>2, <3>1
    <3>3. call # Idle /\ op[t] # Idle
      BY <2>1, <3>1 DEF Idle
    <3>4. /\ call.pc = "reading" /\ call.record = op[t].record /\ call.answer = op[t].answer
          /\ call.steady = op[t].steady /\ call.module = part
      BY <3>1
    <3> QED
      BY <3>2, <3>3, <3>4 DEF Calls
  <2>4. op' = [op EXCEPT ![t] = call] /\ op'[t] = call
    BY <1>2 DEF ReadModulePath, Inv, TypeOK
  <2> HIDE DEF call
  <2>5. Seen(t)'
    BY <1>1, <2>1, <2>3, <2>4 DEF Seen, InCall, flags
  <2>6. Foretold(t)'
    BY <1>1, <2>3, <2>4 DEF Foretold, Collects, Feed!Current, feedVars
  <2> QED
    BY <1>1, <2>3, <2>4, <2>5, <2>6, CallInv
<1>3. CASE ReadFilePath(t)
  <2> DEFINE part == FilePart(op[t].record, log_file_path)
             call == Advance(t, "formatting", "place", part)
  <2>1. op[t] \in [pc : {"reading", "formatting"}, record : Records,
                   answer : BOOLEAN \cup {None}, steady : BOOLEAN, module : Modules, place : Places]
        /\ op[t].pc = "reading"
    BY <1>1, <1>3 DEF ReadFilePath, Calls, Idle
  <2>2. part \in Places
    BY <1>1, <2>1, PartTypes
  <2>3. /\ call \in Calls /\ call.pc = "formatting" /\ call.record = op[t].record
        /\ call.answer = op[t].answer /\ call.steady = op[t].steady
        /\ call.module = op[t].module /\ call.place = part
        /\ call # Idle /\ op[t] # Idle
    BY <2>1, <2>2 DEF Advance, Calls, Idle
  <2>4. op' = [op EXCEPT ![t] = call] /\ op'[t] = call
    BY <1>3 DEF ReadFilePath, Inv, TypeOK
  <2> HIDE DEF call
  <2>5. Seen(t)'
    BY <1>1, <2>1, <2>3, <2>4 DEF Seen, InCall, flags
  <2>6. Foretold(t)'
    BY <1>1, <2>3, <2>4 DEF Foretold, Collects, Feed!Current, feedVars
  <2> QED
    BY <1>1, <2>3, <2>4, <2>5, <2>6, CallInv
<1> QED
  BY <1>2, <1>3

\* The event: what its call has seen is now said of it.
LEMMA LogInv == ASSUME Inv, NEW t \in Threads, log(t) PROVE Inv'
<1> DEFINE level == level_to_etw(op[t].record.level)
           e     == [record |-> op[t].record, answer |-> op[t].answer, steady |-> op[t].steady,
                     settings |-> during[t], level |-> level, module |-> op[t].module,
                     place |-> op[t].place, collected |-> Collects(level)]
           d     == [module |-> {}, file |-> {}]
<1>1. /\ op[t].pc = "formatting" /\ last' = e
      /\ op' = [op EXCEPT ![t] = Idle] /\ during' = [during EXCEPT ![t] = d]
      /\ op'[t] = Idle /\ during'[t] = d
      /\ UNCHANGED <<registered, flags, feedVars>> /\ Seen(t) /\ Foretold(t)
  BY DEF log, Written, Inv, TypeOK
<1>2. op[t] \in [pc : {"reading", "formatting"}, record : Records,
                 answer : BOOLEAN \cup {None}, steady : BOOLEAN, module : Modules, place : Places]
      /\ op[t] # Idle
  <2>1. op[t] \in Calls
    BY DEF Inv, TypeOK
  <2> QED
    BY <1>1, <2>1 DEF Calls, Idle
<1>3. level \in 2..6
  BY <1>2, LevelType
<1>4. /\ Idle \in Calls /\ d \in [module : SUBSET BOOLEAN, file : SUBSET BOOLEAN]
  BY DEF Calls
<1>5. TypeOK'
  <2>1. last'.level \in 2..6 /\ last'.module \in Modules /\ last'.place \in Places
    BY <1>1, <1>2, <1>3
  <2>2. op' \in [Threads -> Calls]
    BY <1>1, <1>4 DEF Inv, TypeOK
  <2>3. during' \in [Threads -> [module : SUBSET BOOLEAN, file : SUBSET BOOLEAN]]
    BY <1>1, <1>4 DEF Inv, TypeOK
  <2> QED
    BY <1>1, <2>1, <2>2, <2>3 DEF Inv, TypeOK, flags, feedVars
<1>6. ASSUME NEW u \in Threads PROVE Seen(u)' /\ Foretold(u)'
  <2>1. CASE u = t
    BY <1>1, <2>1 DEF Seen, Foretold, InCall, Idle
  <2>2. CASE u # t
    BY <1>1, <1>6, <2>2, OthersKeep DEF Inv, TypeOK
  <2> QED
    BY <2>1, <2>2
<1>7. Feeds'
  BY <1>1 DEF Inv, Feeds, feedVars
<1>8. RecordsFollowTheSettings'
  BY <1>1 DEF Seen, RecordsFollowTheSettings
<1>9. EnabledForetells'
  BY <1>1, <1>2 DEF Foretold, EnabledForetells
<1> QED
  BY <1>5, <1>6, <1>7, <1>8, <1>9 DEF Inv

LEMMA NextInv == Inv /\ [Next]_vars => Inv'
<1> SUFFICES ASSUME Inv, [Next]_vars PROVE Inv'
  OBVIOUS
<1>1. CASE UNCHANGED vars
  <2>1. UNCHANGED <<registered, log_module_path, log_file_path, op, during, last,
                    announced, applied, cached>>
    BY <1>1 DEF vars, flags, feedVars
  <2> QED
    BY <2>1 DEF Inv, TypeOK, Feeds, Seen, Foretold, InCall, Collects, Feed!Current,
                RecordsFollowTheSettings, EnabledForetells
<1>2. CASE Next
  BY <1>2, AnnounceInv, ApplyInv, SettingInv, EnabledInv, LogBeginInv, ReadInv, LogInv DEF Next
<1> QED
  BY <1>1, <1>2

THEOREM Invariance == Spec => []Inv
  BY InitInv, NextInv, PTL DEF Spec

\* The state of the logger keeps its type.
THEOREM TypeCorrect == Spec => []TypeOK
<1>1. Inv => TypeOK
  BY DEF Inv
<1> QED
  BY <1>1, Invariance, PTL

\* No event tells a path that every setting in force during its call holds
\* back, however many threads log and change the settings.
THEOREM SettingsFollowed == Spec => []RecordsFollowTheSettings
<1>1. Inv => RecordsFollowTheSettings
  BY DEF Inv
<1> QED
  BY <1>1, Invariance, PTL

\* A steady answer of `enabled` is what becomes of the record.
THEOREM AnswerForetells == Spec => []EnabledForetells
<1>1. Inv => EnabledForetells
  BY DEF Inv
<1> QED
  BY <1>1, Invariance, PTL
=============================================================================
