------------------------ MODULE TracelogEventProofs ------------------------
(***************************************************************************)
(* The opt-out from telemetry, the keyword of TRACE events, and that events *)
(* say what they were given, for any threads, keywords, levels and fields. *)
(*                                                                         *)
(* An event takes its keyword when its handler starts and is written later;*)
(* what makes the mask it was filtered with the mask in force is the lock  *)
(* of reload: nobody configures while a handler runs.  For the same reason *)
(* the metadata and the data of the global fields, which are copied in two *)
(* steps, belong together.                                                 *)
(*                                                                         *)
(* An event is then a function of its target, the global fields last asked *)
(* for, its name and its own fields.  Every field that is not skipped is   *)
(* one wire of EventMetadataProofs, the metadata and the payload are those *)
(* wires end to end, and each wire is read alone unless its text has a NUL *)
(* inside or it is a target too long for 16 bits, which makes the event    *)
(* too long.                                                               *)
(***************************************************************************)
EXTENDS TracelogEvent, EventMetadataProofs, TLAPS

Configuring(t) == op[t].pc \in {"modifying", "setting"}
Handling(t)    == op[t].pc \in {"checking", "building", "written"}

\* The call a handler was started for.
CallOf(t) == IF op[t].pc = "checking" THEN op[t] ELSE op[t].call

LockOK ==
  /\ \A t \in Threads : Configuring(t) <=> writer = t
  /\ \A t \in Threads : Handling(t) <=> t \in readers
  /\ writer # None => readers = {}

KeywordOK(c) ==
  /\ c.keyword \subseteq keyword_mask
  /\ c.keyword # {} => c.level = "TRACE"

Inv ==
  /\ TypeOK /\ LockOK
  /\ op = [t \in Threads |-> op[t]]
  /\ \A t \in Threads : Handling(t) => KeywordOK(CallOf(t))
  /\ \A t \in Threads : op[t].pc = "written" =>
       op[t].keyword = op[t].call.keyword /\ op[t].level = EtwLevel(op[t].call.level)

LEMMA NoThread == \A t \in Threads : None # t
  BY EventAssumption DEF EventAssumption

LEMMA Keywords == \A k \in TraceKeywords : k \subseteq Bits
  BY EventAssumption DEF EventAssumption

LEMMA InitInv == Init => Inv
<1> SUFFICES ASSUME Init PROVE Inv
  OBVIOUS
<1>1. \A t \in Threads : op[t].pc = "idle"
  BY DEF Init, Idle
<1>2. TypeOK
  BY <1>1 DEF Init, TypeOK
<1>3. LockOK
  BY <1>1, NoThread DEF Init, LockOK, Configuring, Handling
<1> QED
  BY <1>1, <1>2, <1>3 DEF Inv, Handling, Init

\* A step of one thread, which is or comes to be at `where`.
LEMMA StepInv ==
  ASSUME Inv, NEW t \in Threads, NEW where, Goto(t, where),
         where.pc \in {"idle", "modifying", "setting", "checking", "building", "written"},
         UNCHANGED <<config, max_level>>,
         readers' = IF where.pc \in {"checking", "building", "written"}
                    THEN readers \cup {t} ELSE readers \ {t},
         writer' = IF where.pc \in {"modifying", "setting"} THEN t
                   ELSE IF writer = t THEN None ELSE writer,
         where.pc \in {"modifying", "setting"} => readers \subseteq {t} /\ writer \in {None, t},
         where.pc \in {"checking", "building", "written"} => writer = None,
         where.pc = "checking" => KeywordOK(where),
         where.pc \in {"building", "written"} => KeywordOK(where.call),
         where.pc = "written" =>
           where.keyword = where.call.keyword /\ where.level = EtwLevel(where.call.level)
  PROVE  Inv'
<1>1. /\ op'[t] = where /\ \A u \in Threads \ {t} : op'[u] = op[u]
      /\ op' = [u \in Threads |-> op'[u]]
  BY DEF Inv, Goto
<1>2. TypeOK'
  BY <1>1 DEF Inv, TypeOK, config
<1>3. LockOK'
  <2>1. \A u \in Threads : Configuring(u)' <=> writer' = u
    BY <1>1, NoThread DEF Inv, LockOK, Configuring
  <2>2. \A u \in Threads : Handling(u)' <=> u \in readers'
    BY <1>1 DEF Inv, LockOK, Handling
  <2>3. writer' # None => readers' = {}
    BY DEF Inv, LockOK
  <2> QED
    BY <2>1, <2>2, <2>3 DEF LockOK
<1>4. ASSUME NEW u \in Threads, Handling(u)' PROVE KeywordOK(CallOf(u))'
  BY <1>1, <1>4 DEF Inv, Handling, CallOf, KeywordOK, config
<1>5. ASSUME NEW u \in Threads, op'[u].pc = "written"
      PROVE  op'[u].keyword = op'[u].call.keyword /\ op'[u].level = EtwLevel(op'[u].call.level)
  BY <1>1, <1>5 DEF Inv
<1> QED
  BY <1>1, <1>2, <1>3, <1>4, <1>5 DEF Inv

\* The mask is changed by a thread that configures, when no handler runs.
LEMMA MaskInv ==
  ASSUME Inv, NEW t \in Threads, Configuring(t),
         keyword_mask' \in {Bits, Bits \ TelemetryBits}, trace_keyword' \subseteq Bits,
         UNCHANGED <<max_level, readers, writer, op>>
  PROVE  Inv'
<1>1. readers = {}
  BY NoThread DEF Inv, LockOK
<1>2. \A u \in Threads : ~Handling(u) /\ ~Handling(u)'
  BY <1>1 DEF Inv, LockOK, Handling
<1>3. TypeOK' /\ LockOK'
  BY DEF Inv, TypeOK, LockOK, Configuring, Handling
<1> QED
  BY <1>2, <1>3 DEF Inv, Handling

LEMMA NextInv == Inv /\ [Next]_vars => Inv'
<1> SUFFICES ASSUME Inv, [Next]_vars PROVE Inv'
  OBVIOUS
<1>1. CASE UNCHANGED vars
  BY <1>1 DEF vars, config, globals, Inv, TypeOK, LockOK, Configuring, Handling, CallOf, KeywordOK
<1>2. ASSUME NEW l \in SessionLevels, SessionChanges(l) PROVE Inv'
  BY <1>2 DEF SessionChanges, config, Inv, TypeOK, LockOK, Configuring, Handling, CallOf, KeywordOK
<1>3. ASSUME NEW t \in Threads, Modify(t) PROVE Inv'
  <2> DEFINE where == [pc |-> "modifying"]
  <2>1. where.pc = "modifying" /\ Goto(t, where)
    BY <1>3 DEF Modify
  <2> HIDE DEF where
  <2> QED
    BY <1>3, <2>1, StepInv DEF Modify
<1>4. ASSUME NEW t \in Threads, Modified(t) PROVE Inv'
  <2>1. Idle.pc = "idle" /\ Goto(t, Idle)
    BY <1>4 DEF Modified, Idle
  <2>2. writer = t /\ readers = {}
    BY <1>4, NoThread DEF Modified, Inv, LockOK, Configuring
  <2> QED
    BY <1>4, <2>1, <2>2, StepInv DEF Modified
<1>5. ASSUME NEW t \in Threads, NEW enabled \in BOOLEAN, enable_telemetry_events(t, enabled)
      PROVE  Inv'
  BY <1>5, MaskInv DEF enable_telemetry_events, Configuring, Inv, TypeOK
<1>6. ASSUME NEW t \in Threads, NEW keyword \in TraceKeywords, set_trace_keyword(t, keyword)
      PROVE  Inv'
  BY <1>6, MaskInv, Keywords DEF set_trace_keyword, Configuring, Inv, TypeOK
<1>7. ASSUME NEW t \in Threads, NEW list \in GlobalLists, set_global_fields(t, list) PROVE Inv'
  <2> DEFINE where == [pc |-> "setting", todo |-> list]
  <2>1. where.pc = "setting" /\ Goto(t, where)
    BY <1>7 DEF set_global_fields
  <2>2. writer = t /\ readers = {}
    BY <1>7, NoThread DEF set_global_fields, Inv, LockOK, Configuring
  <2> HIDE DEF where
  <2> QED
    BY <1>7, <2>1, <2>2, StepInv DEF set_global_fields
<1>8. ASSUME NEW t \in Threads, AddGlobal(t) PROVE Inv'
  <2> DEFINE where == [op[t] EXCEPT !.todo = Tail(@)]
  <2>1. where.pc = "setting" /\ Goto(t, where)
    BY <1>8 DEF AddGlobal, Goto
  <2>2. writer = t /\ readers = {}
    BY <1>8, NoThread DEF AddGlobal, Inv, LockOK, Configuring
  <2> HIDE DEF where
  <2> QED
    BY <1>8, <2>1, <2>2, StepInv DEF AddGlobal
<1>9. ASSUME NEW t \in Threads, GlobalsSet(t) PROVE Inv'
  <2> DEFINE where == [pc |-> "modifying"]
  <2>1. where.pc = "modifying" /\ Goto(t, where)
    BY <1>9 DEF GlobalsSet
  <2>2. writer = t /\ readers = {}
    BY <1>9, NoThread DEF GlobalsSet, Inv, LockOK, Configuring
  <2> HIDE DEF where
  <2> QED
    BY <1>9, <2>1, <2>2, StepInv DEF GlobalsSet
<1>10. ASSUME NEW t \in Threads, NEW opcode, NEW level, NEW target, NEW name, NEW fields,
              write_event(t, opcode, level, target, name, fields)
       PROVE  Inv'
  <2> DEFINE where == [pc |-> "checking", opcode |-> opcode, level |-> level, target |-> target,
                       name |-> name, fields |-> fields, keyword |-> KeywordFor(level)]
  <2>1. where.pc = "checking" /\ Goto(t, where)
    BY <1>10 DEF write_event
  <2>2. KeywordOK(where)
    BY DEF KeywordOK, KeywordFor, filter_keyword
  <2> HIDE DEF where
  <2> QED
    BY <1>10, <2>1, <2>2, StepInv DEF write_event
<1>11. ASSUME NEW t \in Threads, NotEnabled(t) \/ Return(t) PROVE Inv'
  <2>1. Idle.pc = "idle" /\ Goto(t, Idle)
    BY <1>11 DEF NotEnabled, Return, Idle
  <2>2. t \in readers /\ writer # t
    BY <1>11, NoThread DEF NotEnabled, Return, Inv, LockOK, Handling
  <2> QED
    BY <1>11, <2>1, <2>2, StepInv DEF NotEnabled, Return
<1>12. ASSUME NEW t \in Threads, CopyMetadata(t) PROVE Inv'
  <2> DEFINE where == [pc |-> "building", call |-> op[t],
                       metadata |-> TargetMetadata(op[t].target) \o global_fields.metadata]
  <2>1. /\ where.pc = "building" /\ where.call = op[t] /\ Goto(t, where)
    BY <1>12 DEF CopyMetadata, Goto
  <2>2. t \in readers /\ writer = None /\ KeywordOK(op[t])
    BY <1>12, NoThread DEF CopyMetadata, Inv, LockOK, Handling, CallOf
  <2> HIDE DEF where
  <2> QED
    BY <1>12, <2>1, <2>2, StepInv DEF CopyMetadata
<1>13. ASSUME NEW t \in Threads, Write(t) PROVE Inv'
  <2>1. PICK where : /\ Goto(t, where) /\ where.pc = "written" /\ where.call = op[t].call
                     /\ where.keyword = where.call.keyword
                     /\ where.level = EtwLevel(where.call.level)
    BY <1>13 DEF Write
  <2>2. t \in readers /\ writer = None /\ KeywordOK(op[t].call)
    BY <1>13, NoThread DEF Write, Inv, LockOK, Handling, CallOf
  <2> QED
    BY <1>13, <2>1, <2>2, StepInv DEF Write
<1> QED
  BY <1>1, <1>2, <1>3, <1>4, <1>5, <1>6, <1>7, <1>8, <1>9, <1>10, <1>11, <1>12, <1>13
  DEF Next, on_new_span, on_event, on_close

THEOREM Invariance == Spec => []Inv
  BY InitInv, NextInv, PTL DEF Spec

\* The configuration and the calls keep their types.
THEOREM TypeCorrect == Spec => []TypeOK
<1>1. Inv => TypeOK
  BY DEF Inv
<1> QED
  BY <1>1, Invariance, PTL

\* While telemetry is off no event carries a telemetry keyword.
THEOREM OptOut == Spec => []OptOutHolds
<1>1. Inv => OptOutHolds
  <2> SUFFICES ASSUME Inv, keyword_mask \cap TelemetryBits = {},
                      NEW t \in Threads, op[t].pc = "written"
               PROVE  op[t].keyword \cap TelemetryBits = {}
    BY DEF OptOutHolds, Sent
  <2> QED
    BY DEF Inv, Handling, CallOf, KeywordOK
<1> QED
  BY <1>1, Invariance, PTL

\* A keyword on an event is the one of TRACE, at the level DEBUG shares.
THEOREM TraceMarked == Spec => []KeywordMarksTrace
<1>1. Inv => KeywordMarksTrace
  <2> SUFFICES ASSUME Inv, NEW t \in Threads, op[t].pc = "written", op[t].keyword # {}
               PROVE  op[t].call.level = "TRACE" /\ op[t].level = EtwLevel("DEBUG")
    BY DEF KeywordMarksTrace, Sent
  <2>1. op[t].call.level = "TRACE" /\ op[t].level = EtwLevel(op[t].call.level)
    BY DEF Inv, Handling, CallOf, KeywordOK
  <2> QED
    BY <2>1 DEF EtwLevel
<1> QED
  BY <1>1, Invariance, PTL

-----------------------------------------------------------------------------
(* Fields as wires.                                                        *)

Textual == {"str", "debug", "error"}

\* What write_name and write_field append for a field, unless it is skipped.
WireOf(f) ==
  CASE f.kind \in Textual -> Wire(f.name, InText, <<Out(OutFlag.UTF8)>>, Terminated(Rendered(f), f))
    [] f.kind = "i64" -> Wire(f.name, In("INT64", {}), <<>>, <<Num(8, f.value)>>)
    [] f.kind = "u64" -> Wire(f.name, In("UINT64", {"CHAIN"}), <<Out(OutFlag.HEX)>>, <<Num(8, f.value)>>)

\* A field of a kind that carries its OutFlag the way the format asks for.
Sound(f) == IsField(f) /\ f.kind \in Textual \cup {"i64", "u64"}

LEMMA FieldParts ==
  ASSUME NEW f, IsField(f)
  PROVE  f.len \in Nat /\ f.nul \in BOOLEAN /\ (f.nul => f.len >= 2)
BY Zenon DEF IsField

LEMMA TextIsText ==
  ASSUME NEW v, NEW len \in Nat
  PROVE  /\ Text(v, len).k = "text" /\ Text(v, len).v = v /\ Text(v, len).len = len
         /\ ItemSize(Text(v, len)) = len
BY DEF Text, ItemSize

LEMMA OthersAre ==
  /\ Nul.k = "nul" /\ ItemSize(Nul) = 1
  /\ \A v : Num(8, v).k = "num" /\ Num(8, v).v = v /\ Num(8, v).width = 8 /\ ItemSize(Num(8, v)) = 8
  /\ \A n : Count(n).k = "count" /\ Count(n).n = n /\ ItemSize(Count(n)) = 2
BY DEF Nul, Num, Count, ItemSize

\* The items of a text, and of a text with a NUL.
LEMMA TerminatedIs ==
  ASSUME NEW v, NEW f, IsField(f)
  PROVE  /\ IsSequence(Terminated(v, f))
         /\ \A i \in DOMAIN Terminated(v, f) : ItemSize(Terminated(v, f)[i]) \in Nat
<1>1. CASE f.nul
  <2>1. PICK a, b : a = Text(<<"start of", v>>, f.len - 2) /\ b = Text(<<"end of", v>>, 1)
    OBVIOUS
  <2>2. ItemSize(a) \in Nat /\ ItemSize(b) \in Nat /\ ItemSize(Nul) \in Nat
    <3>0. f.len \in Nat /\ f.len >= 2
      BY <1>1, FieldParts
    <3>1. PICK l, v1, v2 : l = f.len /\ v1 = <<"start of", v>> /\ v2 = <<"end of", v>>
      OBVIOUS
    <3>5. l \in Nat /\ l >= 2
      BY <3>0, <3>1, Zenon
    <3>6. PICK n \in Nat : n = l - 2
      BY <3>5
    <3>7. 1 \in Nat
      OBVIOUS
    <3>2. a = Text(v1, n) /\ b = Text(v2, 1)
      BY <2>1, <3>1, <3>6
    <3>3. ItemSize(Text(v1, n)) = n /\ ItemSize(Text(v2, 1)) = 1
      BY <3>7, TextIsText
    <3>4. ItemSize(Nul) \in Nat
      BY OthersAre
    <3> QED
      BY <3>2, <3>3, <3>4, <3>7
  <2>3. PICK s : s = Terminated(v, f) /\ s = <<a, Nul, b, Nul>>
    BY <1>1, <2>1 DEF Terminated
  <2>4. PICK S : S = {a, b, Nul}
    OBVIOUS
  <2>5. s \in Seq(S) /\ \A i \in DOMAIN s : s[i] \in S
    BY <2>3, <2>4
  <2>6. \A x \in S : ItemSize(x) \in Nat
    BY <2>2, <2>4, Zenon
  <2>7. IsSequence(s) /\ \A i \in DOMAIN s : ItemSize(s[i]) \in Nat
    BY <2>5, <2>6, SequenceIs, Zenon
  <2> QED
    BY <2>3, <2>7, Zenon
<1>2. CASE ~f.nul
  <2>1. PICK a : a = Text(v, f.len)
    OBVIOUS
  <2>2. ItemSize(a) \in Nat /\ ItemSize(Nul) \in Nat
    BY <2>1, TextIsText, OthersAre, FieldParts
  <2>3. PICK s : s = Terminated(v, f) /\ s = <<a, Nul>>
    BY <1>2, <2>1 DEF Terminated
  <2>4. PICK S : S = {a, Nul}
    OBVIOUS
  <2>5. s \in Seq(S) /\ \A i \in DOMAIN s : s[i] \in S
    BY <2>3, <2>4
  <2>6. \A x \in S : ItemSize(x) \in Nat
    BY <2>2, <2>4, Zenon
  <2>7. IsSequence(s) /\ \A i \in DOMAIN s : ItemSize(s[i]) \in Nat
    BY <2>5, <2>6, SequenceIs, Zenon
  <2> QED
    BY <2>3, <2>7, Zenon
<1> QED
  BY <1>1, <1>2, FieldParts

\* The fixed widths that fields of tracing have.
LEMMA WidthIs ==
  /\ "ANSI_STRING" \notin DOMAIN Width /\ "COUNTED_ANSI_STRING" \notin DOMAIN Width
  /\ "INT64" \in DOMAIN Width /\ Width["INT64"] = 8
  /\ "UINT64" \in DOMAIN Width /\ Width["UINT64"] = 8
BY DEF Width, Sizes1, Sizes2, Sizes4, Sizes8

\* The numbers of tracing.
LEMMA NumberReads ==
  ASSUME NEW name, NEW o, NEW v, NEW type \in {"INT64", "UINT64"}, NEW w, w.items = <<Num(8, v)>>,
         NEW flags, "VCOUNT" \notin flags, Desc(w) = FieldDesc(name, In(type, flags), o)
  PROVE  Reads(w, v)
<1>1. type \in DOMAIN Width /\ Width[type] = 8 /\ type # "GUID"
  BY WidthIs
<1>2. w.items = <<Num(Width[type], v)>>
  BY <1>1
<1> QED
  BY <1>1, <1>2, NumReads

\* What the field of f is shown as.
Value(f) == IF f.kind \in Textual THEN Rendered(f) ELSE f.value

LEMMA WireOfIs ==
  ASSUME NEW f, Sound(f)
  PROVE  WireOK(WireOf(f)) /\ Seen(WireOf(f), Value(f)) = ShownField(f)
<1>1. CASE f.kind \in Textual
  <2>1. PICK items, w : items = Terminated(Rendered(f), f) /\ w = WireOf(f)
    OBVIOUS
  <2>2. IsSequence(items) /\ \A i \in DOMAIN items : ItemSize(items[i]) \in Nat
    BY <2>1, TerminatedIs DEF Sound
  <2>3. PICK flags, o : flags = {"CHAIN"} /\ o = OutFlag.UTF8
    OBVIOUS
  <2>4. w = Wire(f.name, In("ANSI_STRING", flags), <<Out(o)>>, items)
    <3>1. WireOf(f) = Wire(f.name, InText, <<Out(OutFlag.UTF8)>>, Terminated(Rendered(f), f))
      BY <1>1 DEF WireOf, Textual
    <3> QED
      BY <2>1, <2>3, <3>1 DEF InText
  <2>5. /\ WireOK(w) /\ Desc(w) = FieldDesc(f.name, In("ANSI_STRING", flags), o)
        /\ w.name = f.name /\ w.items = items
    <3>1. "CHAIN" \in flags
      BY <2>3
    <3> QED
      BY <2>2, <2>4, <3>1, ChainedWire
  <2>6. Seen(w, Value(f)) = [name |-> f.name, value |-> Rendered(f), out |-> o]
    BY <1>1, <2>5 DEF Seen, FieldDesc, Value
  <2>7. ShownField(f) = [name |-> f.name, value |-> Rendered(f), out |-> o]
    BY <1>1, <2>3 DEF ShownField, Shown, Textual
  <2> QED
    BY <2>1, <2>5, <2>6, <2>7
<1>2. CASE f.kind = "i64"
  <2>1. PICK items, w, a : a = Num(8, f.value) /\ items = <<a>> /\ w = WireOf(f)
    OBVIOUS
  <2>2. IsSequence(items) /\ \A i \in DOMAIN items : ItemSize(items[i]) \in Nat
    <3>1. ItemSize(a) \in Nat
      BY <2>1, OthersAre
    <3> QED
      BY <2>1, <3>1, OneItem
  <2>3. PICK flags : flags = {}
    OBVIOUS
  <2>4. w = Wire(f.name, In("INT64", flags), <<>>, items)
    BY <1>2, <2>1, <2>3 DEF WireOf, Textual
  <2>5. /\ WireOK(w) /\ Desc(w) = FieldDesc(f.name, In("INT64", flags), OutFlag.NULL)
        /\ w.name = f.name /\ w.items = items
    <3>1. "CHAIN" \notin flags
      BY <2>3
    <3> QED
      BY <2>2, <2>4, <3>1, PlainWire
  <2>6. Seen(w, Value(f)) = [name |-> f.name, value |-> f.value, out |-> OutFlag.NULL]
    BY <1>2, <2>5 DEF Seen, FieldDesc, Value, Textual
  <2>7. ShownField(f) = [name |-> f.name, value |-> f.value, out |-> OutFlag.NULL]
    BY <1>2 DEF ShownField, Shown
  <2> QED
    BY <2>1, <2>5, <2>6, <2>7
<1>3. CASE f.kind = "u64"
  <2>1. PICK items, w, a : a = Num(8, f.value) /\ items = <<a>> /\ w = WireOf(f)
    OBVIOUS
  <2>2. IsSequence(items) /\ \A i \in DOMAIN items : ItemSize(items[i]) \in Nat
    <3>1. ItemSize(a) \in Nat
      BY <2>1, OthersAre
    <3> QED
      BY <2>1, <3>1, OneItem
  <2>3. PICK flags, o : flags = {"CHAIN"} /\ o = OutFlag.HEX
    OBVIOUS
  <2>4. w = Wire(f.name, In("UINT64", flags), <<Out(o)>>, items)
    BY <1>3, <2>1, <2>3 DEF WireOf, Textual
  <2>5. /\ WireOK(w) /\ Desc(w) = FieldDesc(f.name, In("UINT64", flags), o)
        /\ w.name = f.name /\ w.items = items
    <3>1. "CHAIN" \in flags
      BY <2>3
    <3> QED
      BY <2>2, <2>4, <3>1, ChainedWire
  <2>6. Seen(w, Value(f)) = [name |-> f.name, value |-> f.value, out |-> o]
    BY <1>3, <2>5 DEF Seen, FieldDesc, Value, Textual
  <2>7. ShownField(f) = [name |-> f.name, value |-> f.value, out |-> o]
    BY <1>3, <2>3 DEF ShownField, Shown
  <2> QED
    BY <2>1, <2>5, <2>6, <2>7
<1> QED
  BY <1>1, <1>2, <1>3 DEF Sound

\* A text and its terminator, a number, a counted text.
LEMMA TextReads ==
  ASSUME NEW name, NEW o, NEW v, NEW len, NEW w, w.items = <<Text(v, len), Nul>>,
         Desc(w) = FieldDesc(name, In("ANSI_STRING", {"CHAIN"}), o)
  PROVE  Reads(w, v)
<1> SUFFICES ASSUME NEW s, NEW p, LiesAt(s, p, w.items)
             PROVE  ValueAt(Desc(w), s, p) = [v |-> v, next |-> p + Len(w.items)]
  BY DEF Reads
<1>1. PICK d, a : d = Desc(w) /\ a = Text(v, len)
  OBVIOUS
<1>2. d.type = "ANSI_STRING" /\ d.flags = {"CHAIN"}
  BY <1>1 DEF FieldDesc, In
<1>3. a.k = "text" /\ a.v = v
  BY <1>1 DEF Text
<1>4. p <= Len(s) /\ s[p] = a /\ p + 1 <= Len(s) /\ s[p + 1] = Nul
  BY <1>1, FirstTwoAt
<1>5. Len(w.items) = 2
  OBVIOUS
<1>6. Nul.k = "nul"
  BY DEF Nul
<1>7. ValueAt(d, s, p) = [v |-> a.v, next |-> p + 2]
  BY <1>2, <1>3, <1>4, <1>6, WidthIs DEF ValueAt, Counted, Strings
<1> QED
  BY <1>1, <1>3, <1>5, <1>7

\* A field without a NUL inside is read as its value.
LEMMA FieldReads ==
  ASSUME NEW f, Sound(f), ~f.nul
  PROVE  Reads(WireOf(f), Value(f))
<1>1. PICK w : w = WireOf(f)
  OBVIOUS
<1>2. CASE f.kind \in Textual
  <2>1. PICK v, len : v = Rendered(f) /\ len = f.len
    OBVIOUS
  <2>2. Terminated(v, f) = <<Text(v, len), Nul>>
    BY <2>1 DEF Terminated
  <2>3. w = Wire(f.name, InText, <<Out(OutFlag.UTF8)>>, <<Text(v, len), Nul>>)
    <3>1. WireOf(f) = Wire(f.name, InText, <<Out(OutFlag.UTF8)>>, Terminated(Rendered(f), f))
      BY <1>2 DEF WireOf, Textual
    <3> QED
      BY <1>1, <2>1, <2>2, <3>1
  <2>4. w.items = <<Text(v, len), Nul>>
    BY <2>3 DEF Wire
  <2>5. Desc(w) = FieldDesc(f.name, In("ANSI_STRING", {"CHAIN"}), OutFlag.UTF8)
    BY <2>3 DEF Wire, Desc, Chains, InText, In, Out
  <2>6. Reads(w, v)
    BY <2>4, <2>5, TextReads
  <2> QED
    BY <1>1, <1>2, <2>1, <2>6 DEF Value
<1>3. CASE f.kind = "i64"
  <2>1. w = Wire(f.name, In("INT64", {}), <<>>, <<Num(8, f.value)>>)
    BY <1>1, <1>3 DEF WireOf, Textual
  <2>2. w.items = <<Num(8, f.value)>>
    BY <2>1 DEF Wire
  <2>3. Desc(w) = FieldDesc(f.name, In("INT64", {}), OutFlag.NULL)
    BY <2>1 DEF Wire, Desc, Chains, In
  <2>4. Reads(w, f.value)
    <3>1. "VCOUNT" \notin {}
      OBVIOUS
    <3> QED
      BY <2>2, <2>3, <3>1, NumberReads
  <2> QED
    BY <1>1, <1>3, <2>4 DEF Value, Textual
<1>4. CASE f.kind = "u64"
  <2>1. w = Wire(f.name, In("UINT64", {"CHAIN"}), <<Out(OutFlag.HEX)>>, <<Num(8, f.value)>>)
    BY <1>1, <1>4 DEF WireOf, Textual
  <2>2. w.items = <<Num(8, f.value)>>
    BY <2>1 DEF Wire
  <2>3. Desc(w) = FieldDesc(f.name, In("UINT64", {"CHAIN"}), OutFlag.HEX)
    BY <2>1 DEF Wire, Desc, Chains, In, Out
  <2>4. Reads(w, f.value)
    <3>1. "VCOUNT" \notin {"CHAIN"}
      OBVIOUS
    <3> QED
      BY <2>2, <2>3, <3>1, NumberReads
  <2> QED
    BY <1>1, <1>4, <2>4 DEF Value, Textual
<1> QED
  BY <1>2, <1>3, <1>4 DEF Sound

-----------------------------------------------------------------------------
(* A list of fields, recorded one after the other.                         *)

Recording == INSTANCE FoldTheorems WITH op <- record
Keeping   == INSTANCE FoldTheorems WITH op <- Kept

Wires(s) == [i \in DOMAIN s |-> WireOf(s[i])]

LEMMA WiresAre ==
  ASSUME NEW s, IsSequence(s)
  PROVE  /\ IsSequence(Wires(s)) /\ Len(Wires(s)) = Len(s)
         /\ \A i \in 1..Len(s) : Wires(s)[i] = WireOf(s[i])
<1>1. PICK n \in Nat : n = Len(s) /\ DOMAIN s = 1..n
  BY SequenceParts
<1>2. PICK h : h = Wires(s) /\ h = [i \in 1..n |-> WireOf(s[i])]
  BY <1>1 DEF Wires
<1>3. DOMAIN h = 1..n /\ h = [i \in 1..n |-> h[i]]
  BY <1>2
<1>4. IsSequence(h) /\ Len(h) = n
  BY <1>3, FunctionIsSequence
<1> QED
  BY <1>1, <1>2, <1>4

LEMMA OneMoreWire ==
  ASSUME NEW s, IsSequence(s), NEW f
  PROVE  Wires(Append(s, f)) = Wires(s) \o <<WireOf(f)>>
<1>1. PICK a, w, u : a = Append(s, f) /\ w = WireOf(f) /\ u = Wires(s)
  OBVIOUS
<1>2. /\ IsSequence(a) /\ Len(a) = Len(s) + 1 /\ a[Len(s) + 1] = f
      /\ \A i \in 1..Len(s) : a[i] = s[i]
  BY <1>1, AppendIs
<1>3. IsSequence(u) /\ Len(u) = Len(s) /\ \A i \in 1..Len(s) : u[i] = WireOf(s[i])
  BY <1>1, WiresAre
<1>4. PICK b : b = Append(u, w)
  OBVIOUS
<1>5. /\ b = u \o <<w>> /\ IsSequence(b) /\ Len(b) = Len(s) + 1 /\ b[Len(s) + 1] = w
      /\ \A i \in 1..Len(s) : b[i] = WireOf(s[i])
  <2>1. /\ Append(u, w) = u \o <<w>> /\ IsSequence(Append(u, w)) /\ Len(Append(u, w)) = Len(u) + 1
        /\ \A i \in 1..Len(u) : Append(u, w)[i] = u[i]
        /\ Append(u, w)[Len(u) + 1] = w
    BY <1>3, AppendIs
  <2> QED
    BY <1>3, <1>4, <2>1
<1>6. PICK c : c = Wires(a)
  OBVIOUS
<1>7. IsSequence(c) /\ Len(c) = Len(s) + 1 /\ \A i \in 1..Len(a) : c[i] = WireOf(a[i])
  BY <1>2, <1>6, WiresAre
<1>8. ASSUME NEW i \in 1..Len(c) PROVE c[i] = b[i]
  <2>1. Len(s) \in Nat /\ i \in 1..Len(a) /\ c[i] = WireOf(a[i])
    BY <1>2, <1>7, SequenceParts
  <2>2. CASE i = Len(s) + 1
    BY <1>1, <1>2, <1>5, <2>1, <2>2
  <2>3. CASE i # Len(s) + 1
    <3>1. i \in 1..Len(s)
      BY <1>7, <2>1, <2>3
    <3> QED
      BY <1>2, <1>5, <2>1, <3>1
  <2> QED
    BY <2>2, <2>3
<1>9. c = b
  BY <1>5, <1>7, <1>8, SameSequence
<1> QED
  BY <1>1, <1>5, <1>6, <1>9

\* What With appends, unless it skips the field.
LEMMA WithIs ==
  ASSUME NEW d, IsSequence(d.metadata), NEW f, NEW in, NEW out, IsSequence(out), NEW items,
         NEW w, w = Wire(f.name, in, out, items), ~Skipped(f.name)
  PROVE  With(d, f, in, out, items) =
           [metadata |-> d.metadata \o Tokens(w), data |-> d.data \o w.items]
<1>1. PICK m, s : m = d.metadata /\ s = <<Name(f.name), in>>
  OBVIOUS
<1>2. Tokens(w) = s \o out /\ w.items = items
  BY <1>1, WireIs DEF Tokens
<1>3. IsSequence(s)
  <2>1. PICK S : S = {Name(f.name), in}
    OBVIOUS
  <2>2. s \in Seq(S)
    BY <1>1, <2>1
  <2> QED
    BY <2>2, SequenceIs
<1>4. (m \o s) \o out = m \o (s \o out)
  <2>1. IsSequence(m)
    BY <1>1
  <2> QED
    BY <1>3, <2>1, JoinAssoc
<1>5. With(d, f, in, out, items) = [metadata |-> (m \o s) \o out, data |-> d.data \o items]
  BY <1>1 DEF With
<1> QED
  BY <1>1, <1>2, <1>4, <1>5

LEMMA RecordIs ==
  ASSUME NEW d, IsSequence(d.metadata), NEW f, Sound(f), NEW w, w = WireOf(f)
  PROVE  record(d, f) =
           IF Skipped(f.name) THEN d
           ELSE [metadata |-> d.metadata \o Tokens(w), data |-> d.data \o w.items]
<1>1. CASE Skipped(f.name)
  <2>1. \A in, out, items : With(d, f, in, out, items) = d
    BY <1>1 DEF With
  <2> QED
    BY <1>1, <2>1 DEF record, record_text, record_i64, record_u64, Sound, Textual
<1>2. CASE ~Skipped(f.name)
  <2>1. ASSUME NEW o PROVE IsSequence(<<Out(o)>>)
    <3>1. <<Out(o)>> \in Seq({Out(o)})
      OBVIOUS
    <3> QED
      BY <3>1, SequenceIs
  <2>2. IsSequence(<<>>)
    <3>1. <<>> \in Seq({})
      OBVIOUS
    <3> QED
      BY <3>1, SequenceIs
  <2>3. CASE f.kind \in Textual
    <3>1. PICK in, out, items :
            in = InText /\ out = <<Out(OutFlag.UTF8)>> /\ items = Terminated(Rendered(f), f)
      OBVIOUS
    <3>2. w = Wire(f.name, in, out, items)
      BY <2>3, <3>1 DEF WireOf, Textual
    <3>3. record(d, f) = With(d, f, in, out, items)
      BY <2>3, <3>1 DEF record, record_text, Textual
    <3>4. IsSequence(out)
      BY <2>1, <3>1
    <3> QED
      BY <1>2, <3>2, <3>3, <3>4, WithIs
  <2>4. CASE f.kind = "i64"
    <3>1. PICK in, out, items :
            in = In("INT64", {}) /\ out = <<>> /\ items = <<Num(8, f.value)>>
      OBVIOUS
    <3>2. w = Wire(f.name, in, out, items)
      BY <2>4, <3>1 DEF WireOf, Textual
    <3>3. record(d, f) = With(d, f, in, out, items)
      BY <2>4, <3>1 DEF record, record_i64
    <3>4. IsSequence(out)
      BY <2>2, <3>1
    <3> QED
      BY <1>2, <3>2, <3>3, <3>4, WithIs
  <2>5. CASE f.kind = "u64"
    <3>1. PICK in, out, items :
            in = In("UINT64", {"CHAIN"}) /\ out = <<Out(OutFlag.HEX)>> /\ items = <<Num(8, f.value)>>
      OBVIOUS
    <3>2. w = Wire(f.name, in, out, items)
      BY <2>5, <3>1 DEF WireOf, Textual
    <3>3. record(d, f) = With(d, f, in, out, items)
      BY <2>5, <3>1 DEF record, record_u64
    <3>4. IsSequence(out)
      BY <2>1, <3>1
    <3> QED
      BY <1>2, <3>2, <3>3, <3>4, WithIs
  <2> QED
    BY <2>3, <2>4, <2>5 DEF Sound
<1> QED
  BY <1>1, <1>2

\* Behind what `front` is, d is the wires of L0 and of the fields h.
CarryOK(d, front, L0, h) ==
  /\ IsSequence(d.data) /\ IsSequence(h) /\ \A i \in 1..Len(h) : Sound(h[i])
  /\ Carries(d.metadata, front \o d.data, L0 \o Wires(h))

LEMMA CarryStep ==
  ASSUME NEW d, NEW front, NEW L0, NEW h, CarryOK(d, front, L0, h),
         IsSequence(front), IsSequence(L0), NEW f, Sound(f)
  PROVE  CarryOK(record(d, f), front, L0, Kept(h, f))
<1>1. PICK w : w = WireOf(f)
  OBVIOUS
<1>2. WireOK(w)
  BY <1>1, WireOfIs
<1>3. CASE Skipped(f.name)
  BY <1>1, <1>3, RecordIs DEF CarryOK, Kept, Carries
<1>4. CASE ~Skipped(f.name)
  <2>1. PICK x : x = record(d, f)
    OBVIOUS
  <2>2. x = [metadata |-> d.metadata \o Tokens(w), data |-> d.data \o w.items]
    BY <1>1, <1>4, <2>1, RecordIs DEF CarryOK, Carries
  <2>3. PICK m, s, t, i, u, a :
          /\ m = d.metadata /\ s = d.data /\ t = Tokens(w) /\ i = w.items /\ u = Wires(h)
          /\ a = Append(h, f)
    OBVIOUS
  <2>4. x.metadata = m \o t /\ x.data = s \o i
    BY <2>2, <2>3
  <2>5. IsSequence(s) /\ IsSequence(i) /\ IsSequence(h) /\ IsSequence(u) /\ IsSequence(<<w>>)
    <3>1. <<w>> \in Seq({w})
      OBVIOUS
    <3> QED
      BY <1>2, <2>3, <3>1, SequenceIs, WiresAre DEF CarryOK, WireOK
  <2>6. Carries(m, front \o s, L0 \o u) /\ Carries(t, i, <<w>>)
    BY <1>2, <2>3, CarriesOne DEF CarryOK
  <2>7. Carries(m \o t, (front \o s) \o i, (L0 \o u) \o <<w>>)
    BY <2>6, CarriesJoin
  <2>8. (front \o s) \o i = front \o (s \o i) /\ (L0 \o u) \o <<w>> = L0 \o (u \o <<w>>)
    <3>1. PICK c : c = <<w>>
      OBVIOUS
    <3>2. IsSequence(front) /\ IsSequence(s) /\ IsSequence(i)
      BY <2>5
    <3>3. IsSequence(L0) /\ IsSequence(u) /\ IsSequence(c)
      BY <2>5, <3>1
    <3>4. (front \o s) \o i = front \o (s \o i)
      BY <3>2, JoinAssoc
    <3>5. (L0 \o u) \o c = L0 \o (u \o c)
      BY <3>3, JoinAssoc
    <3> QED
      BY <3>1, <3>4, <3>5
  <2>9. Wires(a) = u \o <<w>>
    BY <1>1, <2>3, <2>5, OneMoreWire
  <2>10. Carries(x.metadata, front \o x.data, L0 \o Wires(a))
    BY <2>4, <2>7, <2>8, <2>9
  <2>11. IsSequence(x.data)
    BY <2>4, <2>5, SequencesJoin
  <2>12. IsSequence(a) /\ \A j \in 1..Len(a) : Sound(a[j])
    <3>1. /\ IsSequence(a) /\ Len(a) = Len(h) + 1 /\ a[Len(h) + 1] = f
          /\ \A j \in 1..Len(h) : a[j] = h[j]
      BY <2>3, <2>5, AppendIs
    <3>2. ASSUME NEW j \in 1..Len(a) PROVE Sound(a[j])
      <4>1. Len(h) \in Nat
        BY <2>5, SequenceParts
      <4>2. j \in 1..Len(h) \/ j = Len(h) + 1
        BY <3>1, <4>1
      <4> QED
        BY <3>1, <4>2 DEF CarryOK
    <3> QED
      BY <3>1, <3>2
  <2>13. Kept(h, f) = a
    BY <1>4, <2>3 DEF Kept
  <2> QED
    BY <2>1, <2>10, <2>11, <2>12, <2>13 DEF CarryOK
<1> QED
  BY <1>3, <1>4

LEMMA FieldsCarry ==
  ASSUME NEW list, IsSequence(list), \A i \in DOMAIN list : Sound(list[i]),
         NEW d0, NEW front, NEW L0, IsSequence(front), IsSequence(L0), CarryOK(d0, front, L0, <<>>)
  PROVE  CarryOK(FoldLeft(record, d0, list), front, L0, Own(list))
<1>1. PICK n \in Nat : n = Len(list) /\ DOMAIN list = 1..n
  BY SequenceParts
<1>2. PICK g : Recording!Partials(g, d0, list, n) /\ FoldLeft(record, d0, list) = g[n]
  <2>1. \E g : Recording!Partials(g, d0, list, n) /\ Recording!Fold(d0, list) = g[n]
    BY <1>1, Recording!FoldSteps, Zenon
  <2>2. FoldLeft(record, d0, list) = Recording!Fold(d0, list)
    BY Zenon DEF FoldLeft, MapThenFoldSet, Max,
                 Recording!Fold, Recording!FoldLeft, Recording!MapThenFoldSet, Recording!Max
  <2> QED
    BY <2>1, <2>2, Zenon
<1>3. PICK h : Keeping!Partials(h, <<>>, list, n) /\ Own(list) = h[n]
  <2>1. \E h : Keeping!Partials(h, <<>>, list, n) /\ Keeping!Fold(<<>>, list) = h[n]
    BY <1>1, Keeping!FoldSteps, Zenon
  <2>2. Own(list) = Keeping!Fold(<<>>, list)
    BY Zenon DEF Own, FoldLeft, MapThenFoldSet, Max,
                 Keeping!Fold, Keeping!FoldLeft, Keeping!MapThenFoldSet, Keeping!Max
  <2> QED
    BY <2>1, <2>2, Zenon
<1>4. /\ g[0] = d0 /\ h[0] = <<>>
      /\ \A k \in 0..n - 1 : g[k + 1] = record(g[k], list[k + 1]) /\ h[k + 1] = Kept(h[k], list[k + 1])
  BY <1>2, <1>3 DEF Recording!Partials, Keeping!Partials
<1> DEFINE S == {k \in 0..n : CarryOK(g[k], front, L0, h[k])}
<1>5. 0 \in S
  BY <1>4
<1>6. ASSUME NEW k \in 0..n - 1, k \in S PROVE k + 1 \in S
  <2>1. PICK d, hh, f : d = g[k] /\ hh = h[k] /\ f = list[k + 1]
    OBVIOUS
  <2>2. Sound(f) /\ CarryOK(d, front, L0, hh) /\ k + 1 \in 0..n
    <3>1. k + 1 \in 1..n
      OBVIOUS
    <3> QED
      BY <1>1, <1>6, <2>1, <3>1
  <2>3. CarryOK(record(d, f), front, L0, Kept(hh, f))
    BY <2>2, CarryStep
  <2> QED
    BY <1>4, <2>1, <2>2, <2>3
<1>7. n \in S
  <2>1. 0..n \subseteq S
    <3> HIDE DEF S
    <3> QED
      BY <1>5, <1>6, Sizes!UpTo
  <2> QED
    BY <2>1
<1> QED
  BY <1>2, <1>3, <1>7

-----------------------------------------------------------------------------
(* The target.                                                             *)

TargetWire(target) ==
  Wire("target", In("COUNTED_ANSI_STRING", {"CHAIN"}), <<Out(OutFlag.UTF8)>>, TargetData(target))
TargetWires(target) == IF target = None THEN <<>> ELSE <<TargetWire(target)>>

LEMMA PairAndOne == \A a, b, c : <<a, b>> \o <<c>> = <<a, b, c>>
<1> SUFFICES ASSUME NEW a, NEW b, NEW c PROVE <<a, b>> \o <<c>> = <<a, b, c>>
  OBVIOUS
<1>1. PICK S, s, t, u : S = {a, b, c} /\ s = <<a, b>> /\ t = <<c>> /\ u = <<a, b, c>>
  OBVIOUS
<1>2. s \in Seq(S) /\ t \in Seq(S) /\ u \in Seq(S)
  BY <1>1
<1>3. Len(s) = 2 /\ Len(t) = 1 /\ Len(u) = 3 /\ s[1] = a /\ s[2] = b /\ t[1] = c
      /\ u[1] = a /\ u[2] = b /\ u[3] = c
  BY <1>1
<1>4. IsSequence(s) /\ IsSequence(t) /\ IsSequence(u)
  BY <1>2, SequenceIs
<1>5. /\ IsSequence(s \o t) /\ Len(s \o t) = 3
      /\ \A i \in 1..2 : (s \o t)[i] = s[i]
      /\ \A i \in 1..1 : (s \o t)[2 + i] = t[i]
  <2>1. /\ IsSequence(s \o t) /\ Len(s \o t) = Len(s) + Len(t)
        /\ \A i \in 1..Len(s) : (s \o t)[i] = s[i]
        /\ \A i \in 1..Len(t) : (s \o t)[Len(s) + i] = t[i]
    BY <1>4, SequencesJoin
  <2>2. Len(s) = 2 /\ Len(t) = 1
    BY <1>3
  <2> QED
    BY <2>1, <2>2
<1>6. \A i \in 1..Len(u) : (s \o t)[i] = u[i]
  BY <1>3, <1>5
<1>7. s \o t = u
  BY <1>3, <1>4, <1>5, <1>6, SameSequence
<1> QED
  BY <1>1, <1>7

LEMMA TargetItems ==
  ASSUME NEW target \in Nat
  PROVE  /\ IsSequence(TargetData(target))
         /\ \A i \in DOMAIN TargetData(target) : ItemSize(TargetData(target)[i]) \in Nat
<1>0. target # None
  BY FieldAssumption DEF FieldAssumption
<1>1. CASE target = 0
  <2>1. PICK a : a = Count(0)
    OBVIOUS
  <2>2. TargetData(target) = <<a>> /\ ItemSize(a) \in Nat
    BY <1>0, <1>1, <2>1, OthersAre DEF TargetData
  <2> QED
    BY <2>2, OneItem
<1>2. CASE target # 0
  <2>1. PICK a, b : a = Count(u16(target)) /\ b = Text("target", target)
    OBVIOUS
  <2>2. ItemSize(a) \in Nat /\ ItemSize(b) \in Nat
    BY <2>1, OthersAre, TextIsText
  <2>3. PICK s : s = TargetData(target) /\ s = <<a, b>>
    BY <1>0, <1>2, <2>1 DEF TargetData
  <2>4. PICK S : S = {a, b}
    OBVIOUS
  <2>5. s \in Seq(S) /\ \A i \in DOMAIN s : s[i] \in S
    BY <2>3, <2>4
  <2>6. \A x \in S : ItemSize(x) \in Nat
    BY <2>2, <2>4
  <2> QED
    BY <2>3, <2>5, <2>6, SequenceIs
<1> QED
  BY <1>1, <1>2

LEMMA TargetWireIs ==
  ASSUME NEW target \in Nat, NEW w, w = TargetWire(target)
  PROVE  /\ WireOK(w) /\ w.name = "target" /\ w.items = TargetData(target)
         /\ Desc(w) = FieldDesc("target", In("COUNTED_ANSI_STRING", {"CHAIN"}), OutFlag.UTF8)
<1>1. PICK type, flags, o, name, items :
        /\ type = "COUNTED_ANSI_STRING" /\ flags = {"CHAIN"} /\ o = OutFlag.UTF8
        /\ name = "target" /\ items = TargetData(target)
  OBVIOUS
<1>2. w = Wire(name, In(type, flags), <<Out(o)>>, items)
  BY <1>1 DEF TargetWire
<1>3. /\ "CHAIN" \in flags /\ IsSequence(items)
      /\ \A i \in DOMAIN items : ItemSize(items[i]) \in Nat
  BY <1>1, TargetItems
<1>4. /\ WireOK(w) /\ Desc(w) = FieldDesc(name, In(type, flags), o)
      /\ w.name = name /\ w.items = items
  BY <1>2, <1>3, ChainedWire
<1> QED
  BY <1>1, <1>4

\* The target of an event, or None.
AnyTarget == Targets \cup {None}

LEMMA TargetCarries ==
  ASSUME NEW target \in AnyTarget
  PROVE  Carries(TargetMetadata(target), TargetData(target), TargetWires(target))
<1>1. CASE target = None
  <2>1. target # 0
    BY <1>1, FieldAssumption DEF FieldAssumption
  <2> QED
    BY <1>1, <2>1, CarriesNothing DEF TargetMetadata, TargetData, TargetWires
<1>2. CASE target # None
  <2>1. target \in Nat
    BY <1>2, FieldAssumption DEF FieldAssumption, AnyTarget
  <2>2. PICK w : w = TargetWire(target)
    OBVIOUS
  <2>3. WireOK(w) /\ w.items = TargetData(target)
    BY <2>1, <2>2, TargetWireIs
  <2>4. Carries(Tokens(w), w.items, <<w>>)
    BY <2>3, CarriesOne
  <2>5. TargetMetadata(target) = Tokens(w)
    <3>1. PICK a, b, c : a = Name("target") /\ b = In("COUNTED_ANSI_STRING", {"CHAIN"})
                         /\ c = Out(OutFlag.UTF8)
      OBVIOUS
    <3>2. Tokens(w) = <<a, b>> \o <<c>>
      BY <2>2, <3>1 DEF Tokens, TargetWire, Wire
    <3>3. TargetMetadata(target) = <<a, b, c>>
      BY <1>2, <3>1 DEF TargetMetadata
    <3>4. <<a, b>> \o <<c>> = <<a, b, c>>
      BY PairAndOne
    <3> QED
      BY <3>2, <3>3, <3>4
  <2> QED
    BY <1>2, <2>2, <2>3, <2>4, <2>5 DEF TargetWires
<1> QED
  BY <1>1, <1>2

\* The target as it is shown.
TargetShown(target) ==
  CASE target = None -> <<>>
    [] target = 0    -> <<Shown("target", Nothing, OutFlag.UTF8)>>
    [] OTHER         -> <<Shown("target", "target", OutFlag.UTF8)>>
TargetValue(target) == IF target = 0 THEN Nothing ELSE "target"

LEMMA TargetIsShown ==
  ASSUME NEW target \in Nat
  PROVE  /\ TargetShown(target) = <<Shown("target", TargetValue(target), OutFlag.UTF8)>>
         /\ Seen(TargetWire(target), TargetValue(target)) =
              Shown("target", TargetValue(target), OutFlag.UTF8)
<1>1. target # None
  BY FieldAssumption DEF FieldAssumption
<1>2. TargetShown(target) = <<Shown("target", TargetValue(target), OutFlag.UTF8)>>
  BY <1>1 DEF TargetShown, TargetValue
<1>3. PICK w : w = TargetWire(target)
  OBVIOUS
<1>4. w.name = "target" /\ Desc(w).out = OutFlag.UTF8
  BY <1>3, TargetWireIs DEF FieldDesc
<1> QED
  BY <1>2, <1>3, <1>4 DEF Seen, Shown

\* The length of the target is stored in 16 bits; one of 64 KB is cut.
LEMMA TargetReads ==
  ASSUME NEW target \in Nat, target < 65536
  PROVE  Reads(TargetWire(target), TargetValue(target))
<1>0. target # None
  BY FieldAssumption DEF FieldAssumption
<1>1. PICK w : w = TargetWire(target)
  OBVIOUS
<1>2. /\ w.items = TargetData(target)
      /\ Desc(w) = FieldDesc("target", In("COUNTED_ANSI_STRING", {"CHAIN"}), OutFlag.UTF8)
  BY <1>1, TargetWireIs
<1>3. CASE target = 0
  <2>1. w.items = <<Count(0)>>
    BY <1>0, <1>2, <1>3 DEF TargetData
  <2>2. Reads(w, Nothing)
    <3>1. "COUNTED_ANSI_STRING" \in Counted
      BY DEF Counted
    <3> QED
      BY <1>2, <2>1, <3>1, EmptyReads
  <2> QED
    BY <1>1, <1>3, <2>2 DEF TargetValue
<1>4. CASE target # 0
  <2>1. u16(target) = target
    BY DEF u16
  <2>2. w.items = <<Count(target), Text("target", target)>>
    BY <1>0, <1>2, <1>4, <2>1 DEF TargetData
  <2>3. Reads(w, "target")
    <3>1. "COUNTED_ANSI_STRING" \in Counted /\ "VCOUNT" \notin {"CHAIN"}
      BY DEF Counted
    <3> QED
      BY <1>2, <1>4, <2>2, <3>1, CountedReads
  <2> QED
    BY <1>1, <1>4, <2>3 DEF TargetValue
<1> QED
  BY <1>3, <1>4

-----------------------------------------------------------------------------
(* The global fields are recorded as texts, whatever they are.             *)

Sharing == INSTANCE FoldTheorems WITH op <- record_global

AsText(g)    == [g EXCEPT !.kind = "str"]
Texts(list)  == [i \in DOMAIN list |-> AsText(list[i])]
GlobalsOf(list) == FoldLeft(record_global, Empty, list)

\* What a program may set or log.
IsList(list) == IsSequence(list) /\ \A i \in 1..Len(list) : IsField(list[i])

LEMMA AsTextIs ==
  ASSUME NEW g, IsField(g), NEW f, f = AsText(g)
  PROVE  /\ f.name = g.name /\ f.kind = "str" /\ f.value = g.value /\ f.nul = g.nul
         /\ Sound(f) /\ ShownField(f) = ShownGlobal(g)
<1>1. /\ g = [name |-> g.name, kind |-> g.kind, value |-> g.value, len |-> g.len, nul |-> g.nul]
      /\ g.len \in Nat /\ g.nul \in BOOLEAN /\ (g.nul => g.len >= 2)
  BY Zenon DEF IsField
<1>2. f = [name |-> g.name, kind |-> "str", value |-> g.value, len |-> g.len, nul |-> g.nul]
  BY <1>1 DEF AsText
<1>3. /\ f.name = g.name /\ f.kind = "str" /\ f.value = g.value /\ f.nul = g.nul /\ f.len = g.len
      /\ f = [name |-> f.name, kind |-> f.kind, value |-> f.value, len |-> f.len, nul |-> f.nul]
  BY <1>2
<1>4. IsField(f)
  <2>1. f.kind \in {"str", "debug", "error", "i64", "u64", "bool"}
    BY <1>3
  <2>2. f.len \in Nat /\ f.nul \in BOOLEAN /\ (f.nul => f.len >= 2)
    BY <1>1, <1>3
  <2> QED
    BY <1>3, <2>1, <2>2, Zenon DEF IsField
<1>5. f.kind \in Textual
  BY <1>3 DEF Textual
<1>6. Sound(f)
  BY <1>4, <1>5 DEF Sound
<1>7. Rendered(f) = <<g.value>>
  BY <1>3 DEF Rendered
<1>8. ShownField(f) = ShownGlobal(g)
  BY <1>3, <1>7 DEF ShownField, ShownGlobal
<1> QED
  BY <1>3, <1>6, <1>8

LEMMA TextsAre ==
  ASSUME NEW list, IsList(list), NEW s, s = Texts(list)
  PROVE  /\ IsSequence(s) /\ Len(s) = Len(list)
         /\ \A i \in 1..Len(list) : s[i] = AsText(list[i])
<1>1. PICK n \in Nat : n = Len(list) /\ DOMAIN list = 1..n
  BY SequenceParts DEF IsList
<1>2. s = [i \in 1..n |-> AsText(list[i])]
  BY <1>1 DEF Texts
<1>3. DOMAIN s = 1..n /\ s = [i \in 1..n |-> s[i]]
  BY <1>2
<1>4. IsSequence(s) /\ Len(s) = n
  BY <1>3, FunctionIsSequence
<1> QED
  BY <1>1, <1>2, <1>4

LEMMA OneMoreText ==
  ASSUME NEW list, IsList(list), NEW g, IsField(g)
  PROVE  IsList(Append(list, g)) /\ Texts(Append(list, g)) = Append(Texts(list), AsText(g))
<1>1. PICK a, u, f : a = Append(list, g) /\ u = Texts(list) /\ f = AsText(g)
  OBVIOUS
<1>2. /\ IsSequence(a) /\ Len(a) = Len(list) + 1 /\ a[Len(list) + 1] = g
      /\ \A i \in 1..Len(list) : a[i] = list[i]
  BY <1>1, AppendIs DEF IsList
<1>3. Len(list) \in Nat
  BY SequenceParts DEF IsList
<1>4. \A i \in 1..Len(a) : i \in 1..Len(list) \/ i = Len(list) + 1
  BY <1>2, <1>3
<1>5. IsList(a)
  BY <1>2, <1>4 DEF IsList
<1>6. IsSequence(u) /\ Len(u) = Len(list) /\ \A i \in 1..Len(list) : u[i] = AsText(list[i])
  BY <1>1, TextsAre
<1>7. PICK b : b = Append(u, f)
  OBVIOUS
<1>8. /\ IsSequence(b) /\ Len(b) = Len(list) + 1 /\ b[Len(list) + 1] = f
      /\ \A i \in 1..Len(list) : b[i] = AsText(list[i])
  <2>1. /\ IsSequence(Append(u, f)) /\ Len(Append(u, f)) = Len(u) + 1
        /\ \A i \in 1..Len(u) : Append(u, f)[i] = u[i]
        /\ Append(u, f)[Len(u) + 1] = f
    BY <1>6, AppendIs
  <2> QED
    BY <1>6, <1>7, <2>1
<1>9. PICK c : c = Texts(a)
  OBVIOUS
<1>10. IsSequence(c) /\ Len(c) = Len(a) /\ \A i \in 1..Len(a) : c[i] = AsText(a[i])
  BY <1>5, <1>9, TextsAre
<1>11. ASSUME NEW i \in 1..Len(c) PROVE c[i] = b[i]
  BY <1>1, <1>2, <1>4, <1>8, <1>10
<1>12. c = b
  BY <1>2, <1>8, <1>10, <1>11, SameSequence
<1> QED
  BY <1>1, <1>5, <1>7, <1>9, <1>12

\* Which fields are kept does not depend on their kinds.
LEMMA TextKept ==
  ASSUME NEW h, IsList(h), NEW g, IsField(g)
  PROVE  IsList(Kept(h, g)) /\ Kept(Texts(h), AsText(g)) = Texts(Kept(h, g))
<1>1. AsText(g).name = g.name
  BY AsTextIs
<1> QED
  BY <1>1, OneMoreText DEF Kept

LEMMA NothingIsList == IsList(<<>>) /\ Texts(<<>>) = <<>> /\ Len(<<>>) = 0
<1>1. <<>> \in Seq({}) /\ Len(<<>>) = 0
  OBVIOUS
<1>2. IsList(<<>>)
  <2>1. IsSequence(<<>>)
    BY <1>1, SequenceIs
  <2> QED
    BY <1>1, <2>1 DEF IsList
<1>3. PICK s, e : s = Texts(<<>>) /\ e = <<>>
  OBVIOUS
<1>4. IsSequence(s) /\ Len(s) = 0
  BY <1>1, <1>2, <1>3, TextsAre
<1>5. IsSequence(e) /\ Len(e) = 0
  BY <1>1, <1>2, <1>3 DEF IsList
<1>6. s = e
  BY <1>4, <1>5, SameSequence
<1> QED
  BY <1>1, <1>2, <1>3, <1>6

LEMMA GlobalsAre ==
  ASSUME NEW list, IsList(list)
  PROVE  /\ GlobalsOf(list) = FoldLeft(record, Empty, Texts(list))
         /\ IsList(Own(list)) /\ Own(Texts(list)) = Texts(Own(list))
<1>1. PICK n \in Nat : n = Len(list) /\ DOMAIN list = 1..n
  BY SequenceParts DEF IsList
<1>2. PICK s : s = Texts(list)
  OBVIOUS
<1>3. DOMAIN s = 1..n /\ \A i \in 1..n : s[i] = AsText(list[i])
  BY <1>1, <1>2, TextsAre DEF Texts
<1>4. PICK g : Sharing!Partials(g, Empty, list, n) /\ GlobalsOf(list) = g[n]
  <2>1. \E g : Sharing!Partials(g, Empty, list, n) /\ Sharing!Fold(Empty, list) = g[n]
    BY <1>1, Sharing!FoldSteps, Zenon
  <2>2. GlobalsOf(list) = Sharing!Fold(Empty, list)
    BY Zenon DEF GlobalsOf, FoldLeft, MapThenFoldSet, Max,
                 Sharing!Fold, Sharing!FoldLeft, Sharing!MapThenFoldSet, Sharing!Max
  <2> QED
    BY <2>1, <2>2, Zenon
<1>5. Recording!Partials(g, Empty, s, n)
  <2>1. DOMAIN g = 0..n /\ g[0] = Empty /\ \A k \in 0..n - 1 : g[k + 1] = record_global(g[k], list[k + 1])
    BY <1>4 DEF Sharing!Partials
  <2>2. ASSUME NEW k \in 0..n - 1 PROVE g[k + 1] = record(g[k], s[k + 1])
    <3>1. PICK i \in 1..n : i = k + 1
      OBVIOUS
    <3>2. PICK d, x, f : d = g[k] /\ x = list[i] /\ f = s[i]
      OBVIOUS
    <3>3. IsField(x) /\ f = AsText(x)
      BY <1>1, <1>3, <3>2 DEF IsList
    <3>4. f.kind = "str"
      BY <3>3, AsTextIs
    <3>5. record(d, f) = record_text(d, f)
      BY <3>4 DEF record
    <3>6. record_global(d, x) = record_text(d, f)
      BY <3>3 DEF record_global, AsText
    <3> QED
      BY <2>1, <3>1, <3>2, <3>5, <3>6
  <2> QED
    BY <2>1, <2>2, Zenon DEF Recording!Partials
<1>6. FoldLeft(record, Empty, s) = g[n]
  <2>1. Recording!Fold(Empty, s) = g[n]
    BY <1>3, <1>5, Recording!FoldIs, Zenon
  <2>2. FoldLeft(record, Empty, s) = Recording!Fold(Empty, s)
    BY Zenon DEF FoldLeft, MapThenFoldSet, Max,
                 Recording!Fold, Recording!FoldLeft, Recording!MapThenFoldSet, Recording!Max
  <2> QED
    BY <2>1, <2>2, Zenon
<1>7. PICK h : Keeping!Partials(h, <<>>, list, n) /\ Own(list) = h[n]
  <2>1. \E h : Keeping!Partials(h, <<>>, list, n) /\ Keeping!Fold(<<>>, list) = h[n]
    BY <1>1, Keeping!FoldSteps, Zenon
  <2>2. Own(list) = Keeping!Fold(<<>>, list)
    BY Zenon DEF Own, FoldLeft, MapThenFoldSet, Max,
                 Keeping!Fold, Keeping!FoldLeft, Keeping!MapThenFoldSet, Keeping!Max
  <2> QED
    BY <2>1, <2>2, Zenon
<1>8. PICK r : Keeping!Partials(r, <<>>, s, n) /\ Own(s) = r[n]
  <2>1. \E r : Keeping!Partials(r, <<>>, s, n) /\ Keeping!Fold(<<>>, s) = r[n]
    BY <1>3, Keeping!FoldSteps, Zenon
  <2>2. Own(s) = Keeping!Fold(<<>>, s)
    BY Zenon DEF Own, FoldLeft, MapThenFoldSet, Max,
                 Keeping!Fold, Keeping!FoldLeft, Keeping!MapThenFoldSet, Keeping!Max
  <2> QED
    BY <2>1, <2>2, Zenon
<1>9. /\ h[0] = <<>> /\ r[0] = <<>>
      /\ \A k \in 0..n - 1 : h[k + 1] = Kept(h[k], list[k + 1]) /\ r[k + 1] = Kept(r[k], s[k + 1])
  BY <1>7, <1>8 DEF Keeping!Partials
<1> DEFINE S == {k \in 0..n : IsList(h[k]) /\ r[k] = Texts(h[k])}
<1>10. 0 \in S
  BY <1>9, NothingIsList
<1>11. ASSUME NEW k \in 0..n - 1, k \in S PROVE k + 1 \in S
  <2>1. PICK i \in 1..n : i = k + 1 /\ i \in 0..n
    OBVIOUS
  <2>2. PICK hh, x : hh = h[k] /\ x = list[i]
    OBVIOUS
  <2>3. IsField(x) /\ IsList(hh) /\ r[k] = Texts(hh) /\ s[i] = AsText(x)
    BY <1>1, <1>3, <1>11, <2>2 DEF IsList
  <2>4. IsList(Kept(hh, x)) /\ Kept(Texts(hh), AsText(x)) = Texts(Kept(hh, x))
    BY <2>3, TextKept
  <2>5. h[i] = Kept(hh, x) /\ r[i] = Kept(Texts(hh), AsText(x))
    BY <1>9, <2>1, <2>2, <2>3
  <2> QED
    BY <2>1, <2>4, <2>5
<1>12. n \in S
  <2>1. 0..n \subseteq S
    <3> HIDE DEF S
    <3> QED
      BY <1>10, <1>11, Sizes!UpTo
  <2> QED
    BY <2>1
<1> QED
  BY <1>2, <1>4, <1>6, <1>7, <1>8, <1>12

-----------------------------------------------------------------------------
(* Sizes, the name, and the first NUL.                                     *)

Measuring == INSTANCE FoldTheorems WITH op <- AddToken

LEMMA SizeIs ==
  ASSUME NEW name, name.len \in Nat, NEW metadata, IsSequence(metadata)
  PROVE  MetadataSize(name, metadata) \in Nat
<1>1. PICK n \in Nat : DOMAIN metadata = 1..n
  BY SequenceParts
<1>2. PICK base \in Nat : base = 2 + 1 + name.len + 1
  OBVIOUS
<1>3. PICK g : Measuring!Partials(g, base, metadata, n) /\ MetadataSize(name, metadata) = g[n]
  <2>1. \E g : Measuring!Partials(g, base, metadata, n) /\ Measuring!Fold(base, metadata) = g[n]
    BY <1>1, Measuring!FoldSteps, Zenon
  <2>2. MetadataSize(name, metadata) = Measuring!Fold(base, metadata)
    BY <1>2, Zenon DEF MetadataSize, FoldLeft, MapThenFoldSet, Max,
                 Measuring!Fold, Measuring!FoldLeft, Measuring!MapThenFoldSet, Measuring!Max
  <2> QED
    BY <2>1, <2>2, Zenon
<1>4. g[0] = base /\ \A k \in 0..n - 1 : g[k + 1] = AddToken(g[k], metadata[k + 1])
  BY <1>3 DEF Measuring!Partials
<1>5. \A token : \A m \in Nat : AddToken(m, token) \in Nat
  BY EventAssumption DEF EventAssumption, AddToken
<1> DEFINE S == {k \in 0..n : g[k] \in Nat}
<1>6. 0 \in S
  BY <1>2, <1>4
<1>7. ASSUME NEW k \in 0..n - 1, k \in S PROVE k + 1 \in S
  BY <1>4, <1>5, <1>7
<1>8. n \in S
  <2>1. 0..n \subseteq S
    <3> HIDE DEF S
    <3> QED
      BY <1>6, <1>7, Sizes!UpTo
  <2> QED
    BY <2>1
<1> QED
  BY <1>3, <1>8

LEMMA NameIs ==
  ASSUME NEW list, IsList(list)
  PROVE  EventName(list).len \in Nat
<1>1. PICK I : I = {i \in 1..Len(list) : list[i].name = "message"}
  OBVIOUS
<1>2. SelectInSeq(list, LAMBDA f : f.name = "message") = IF I # {} THEN Min(I) ELSE 0
  BY <1>1 DEF SelectInSeq
<1>3. PICK at : at = SelectInSeq(list, LAMBDA f : f.name = "message")
  OBVIOUS
<1>4. EventName(list) = IF at = 0 THEN [v |-> <<>>, len |-> 0, nul |-> FALSE]
                        ELSE [v |-> <<"{:?}", list[at].value>>, len |-> list[at].len, nul |-> list[at].nul]
  BY <1>3 DEF EventName
<1>5. CASE at = 0
  BY <1>4, <1>5
<1>6. CASE at # 0
  <2>1. at \in 1..Len(list)
    <3>1. I # {} /\ at = Min(I)
      BY <1>2, <1>3, <1>6
    <3>2. I \in SUBSET Nat
      BY <1>1
    <3> QED
      BY <1>1, <3>1, <3>2, MinIs
  <2>2. list[at].len \in Nat
    BY <2>1, FieldParts DEF IsList
  <2>3. PICK v, l, u : v = <<"{:?}", list[at].value>> /\ l = list[at].len /\ u = list[at].nul
    OBVIOUS
  <2>4. EventName(list) = [v |-> v, len |-> l, nul |-> u]
    BY <1>4, <1>6, <2>3
  <2>5. EventName(list).len = l
    BY <2>4
  <2> QED
    BY <2>2, <2>3, <2>5
<1> QED
  BY <1>5, <1>6

\* The fields before the first one with a NUL.
Before(texts) ==
  LET at == SelectInSeq(texts, LAMBDA f : f.nul)
  IN  IF at = 0 THEN Len(texts) ELSE at - 1

LEMMA BeforeIs ==
  ASSUME NEW texts, Len(texts) \in Nat
  PROVE  Before(texts) \in 0..Len(texts) /\ \A i \in 1..Before(texts) : ~texts[i].nul
<1>1. PICK I : I = {i \in 1..Len(texts) : texts[i].nul}
  OBVIOUS
<1>2. SelectInSeq(texts, LAMBDA f : f.nul) = IF I # {} THEN Min(I) ELSE 0
  BY <1>1 DEF SelectInSeq
<1>3. PICK at : at = SelectInSeq(texts, LAMBDA f : f.nul)
  OBVIOUS
<1>4. Before(texts) = IF at = 0 THEN Len(texts) ELSE at - 1
  BY <1>3 DEF Before
<1>5. I \in SUBSET Nat /\ 0 \notin I
  BY <1>1
<1>6. CASE I = {}
  <2>1. Before(texts) = Len(texts)
    BY <1>2, <1>3, <1>4, <1>6
  <2> QED
    BY <1>1, <1>6, <2>1
<1>7. CASE I # {}
  <2>1. at \in I /\ \A y \in I : at <= y
    BY <1>2, <1>3, <1>5, <1>7, MinIs
  <2>2. at \in 1..Len(texts) /\ Before(texts) = at - 1
    BY <1>1, <1>4, <1>5, <2>1
  <2>3. ASSUME NEW i \in 1..at - 1 PROVE ~texts[i].nul
    <3>1. i \in 1..Len(texts) /\ ~(at <= i)
      BY <2>2
    <3> QED
      BY <1>1, <2>1, <3>1
  <2> QED
    BY <2>2, <2>3
<1> QED
  BY <1>6, <1>7

-----------------------------------------------------------------------------
(* An event that was built in full.                                        *)

\* The wires of L show E, except that one with a NUL in its text may not
\* be read.
Tells(L, E, T) ==
  /\ IsSequence(L) /\ IsSequence(E) /\ IsSequence(T) /\ Len(L) = Len(E) /\ Len(T) = Len(E)
  /\ \A k \in 1..Len(E) :
       /\ Seen(L[k], E[k].value) = E[k]
       /\ ~T[k].nul => Reads(L[k], E[k].value)

LEMMA TellsJoin ==
  ASSUME NEW L1, NEW E1, NEW T1, Tells(L1, E1, T1), NEW L2, NEW E2, NEW T2, Tells(L2, E2, T2)
  PROVE  Tells(L1 \o L2, E1 \o E2, T1 \o T2)
<1>1. PICK m \in Nat, n \in Nat : m = Len(E1) /\ n = Len(E2)
  BY SequenceParts DEF Tells
<1>0. /\ IsSequence(L1) /\ IsSequence(E1) /\ IsSequence(T1) /\ Len(L1) = m /\ Len(T1) = m
      /\ IsSequence(L2) /\ IsSequence(E2) /\ IsSequence(T2) /\ Len(L2) = n /\ Len(T2) = n
      /\ Len(E1) = m /\ Len(E2) = n
  BY <1>1 DEF Tells
<1>2. PICK L, E, T : L = L1 \o L2 /\ E = E1 \o E2 /\ T = T1 \o T2
  OBVIOUS
<1>3. /\ IsSequence(L) /\ Len(L) = m + n
      /\ \A k \in 1..m : L[k] = L1[k]
      /\ \A k \in 1..n : L[m + k] = L2[k]
  <2>1. IsSequence(L1) /\ IsSequence(L2) /\ Len(L1) = m /\ Len(L2) = n
    BY <1>0
  <2>2. /\ IsSequence(L1 \o L2) /\ Len(L1 \o L2) = Len(L1) + Len(L2)
        /\ \A k \in 1..Len(L1) : (L1 \o L2)[k] = L1[k]
        /\ \A k \in 1..Len(L2) : (L1 \o L2)[Len(L1) + k] = L2[k]
    BY <2>1, SequencesJoin
  <2> QED
    BY <1>2, <2>1, <2>2
<1>4. /\ IsSequence(E) /\ Len(E) = m + n
      /\ \A k \in 1..m : E[k] = E1[k]
      /\ \A k \in 1..n : E[m + k] = E2[k]
  <2>1. IsSequence(E1) /\ IsSequence(E2) /\ Len(E1) = m /\ Len(E2) = n
    BY <1>0
  <2>2. /\ IsSequence(E1 \o E2) /\ Len(E1 \o E2) = Len(E1) + Len(E2)
        /\ \A k \in 1..Len(E1) : (E1 \o E2)[k] = E1[k]
        /\ \A k \in 1..Len(E2) : (E1 \o E2)[Len(E1) + k] = E2[k]
    BY <2>1, SequencesJoin
  <2> QED
    BY <1>2, <2>1, <2>2
<1>5. /\ IsSequence(T) /\ Len(T) = m + n
      /\ \A k \in 1..m : T[k] = T1[k]
      /\ \A k \in 1..n : T[m + k] = T2[k]
  <2>1. IsSequence(T1) /\ IsSequence(T2) /\ Len(T1) = m /\ Len(T2) = n
    BY <1>0
  <2>2. /\ IsSequence(T1 \o T2) /\ Len(T1 \o T2) = Len(T1) + Len(T2)
        /\ \A k \in 1..Len(T1) : (T1 \o T2)[k] = T1[k]
        /\ \A k \in 1..Len(T2) : (T1 \o T2)[Len(T1) + k] = T2[k]
    BY <2>1, SequencesJoin
  <2> QED
    BY <1>2, <2>1, <2>2
<1>6. ASSUME NEW k \in 1..m + n
      PROVE  Seen(L[k], E[k].value) = E[k] /\ (~T[k].nul => Reads(L[k], E[k].value))
  <2>1. CASE k \in 1..m
    BY <1>1, <1>3, <1>4, <1>5, <2>1 DEF Tells
  <2>2. CASE k \notin 1..m
    <3>1. PICK i \in 1..n : k = m + i
      <4>1. k - m \in 1..n /\ k = m + (k - m)
        BY <2>2
      <4> QED
        BY <4>1
    <3>2. L[k] = L2[i] /\ E[k] = E2[i] /\ T[k] = T2[i]
      BY <1>3, <1>4, <1>5, <3>1
    <3> QED
      BY <1>1, <3>2 DEF Tells
  <2> QED
    BY <2>1, <2>2
<1> QED
  BY <1>2, <1>3, <1>4, <1>5, <1>6 DEF Tells

\* Fields tell themselves, global fields as texts.
LEMMA FieldsTell ==
  ASSUME NEW s, IsSequence(s), \A i \in 1..Len(s) : Sound(s[i]),
         NEW E, IsSequence(E), Len(E) = Len(s), \A i \in 1..Len(s) : E[i] = ShownField(s[i]),
         NEW T, IsSequence(T), Len(T) = Len(s), \A i \in 1..Len(s) : T[i].nul = s[i].nul
  PROVE  Tells(Wires(s), E, T)
<1>1. PICK L : L = Wires(s)
  OBVIOUS
<1>2. IsSequence(L) /\ Len(L) = Len(s) /\ \A i \in 1..Len(s) : L[i] = WireOf(s[i])
  BY <1>1, WiresAre
<1>3. ASSUME NEW k \in 1..Len(s)
      PROVE  Seen(L[k], E[k].value) = E[k] /\ (~T[k].nul => Reads(L[k], E[k].value))
  <2>1. PICK f, w, e : f = s[k] /\ w = WireOf(f) /\ e = E[k]
    OBVIOUS
  <2>2. Sound(f) /\ e = ShownField(f) /\ L[k] = w /\ T[k].nul = f.nul
    BY <1>2, <2>1
  <2>3. Seen(w, Value(f)) = e
    BY <2>1, <2>2, WireOfIs
  <2>4. e.value = Value(f)
    BY <2>3 DEF Seen
  <2>5. ~f.nul => Reads(w, Value(f))
    BY <2>1, <2>2, FieldReads
  <2> QED
    BY <2>1, <2>2, <2>3, <2>4, <2>5
<1> QED
  BY <1>1, <1>2, <1>3 DEF Tells

\* The length of the target is one that 16 bits hold.
Short(target) == target # None => target < 65536

LEMMA TargetTells ==
  ASSUME NEW target \in AnyTarget, Short(target)
  PROVE  \E T : /\ Tells(TargetWires(target), TargetShown(target), T)
                /\ \A k \in 1..Len(T) : ~T[k].nul
                /\ Len(T) = IF target = None THEN 0 ELSE 1
<1>1. CASE target = None
  <2>1. PICK s : s = <<>>
    OBVIOUS
  <2>2. IsSequence(s) /\ Len(s) = 0
    BY <2>1, NothingIsList DEF IsList
  <2>3. target # 0
    BY <1>1, FieldAssumption DEF FieldAssumption
  <2>4. TargetWires(target) = s /\ TargetShown(target) = s
    BY <1>1, <2>1, <2>3 DEF TargetWires, TargetShown
  <2>5. Tells(s, s, s)
    BY <2>2 DEF Tells
  <2> QED
    BY <1>1, <2>2, <2>4, <2>5
<1>2. CASE target # None
  <2>1. target \in Nat /\ target < 65536
    BY <1>2, FieldAssumption DEF FieldAssumption, AnyTarget, Short
  <2>12. PICK w, v, t : /\ w = TargetWire(target) /\ v = TargetValue(target)
                        /\ t = [nul |-> FALSE]
    OBVIOUS
  <2>2. PICK e : e = Shown("target", v, OutFlag.UTF8)
    OBVIOUS
  <2>3. Reads(w, v) /\ Seen(w, v) = e /\ TargetShown(target) = <<e>> /\ e.value = v
    BY <2>1, <2>2, <2>12, TargetReads, TargetIsShown DEF Shown
  <2>4. PICK L, E, T : L = <<w>> /\ E = <<e>> /\ T = <<t>>
    OBVIOUS
  <2>5. L[1] = w /\ E[1] = e /\ T[1] = t /\ Len(L) = 1 /\ Len(E) = 1 /\ Len(T) = 1
    BY <2>4
  <2>6. L \in Seq({w}) /\ E \in Seq({e}) /\ T \in Seq({t})
    BY <2>4
  <2>7. IsSequence(L) /\ IsSequence(E) /\ IsSequence(T)
    BY <2>6, SequenceIs
  <2>8. ~t.nul
    BY <2>12
  <2>9. \A k \in 1..1 : k = 1
    OBVIOUS
  <2>10. Tells(L, E, T)
    BY <2>3, <2>5, <2>7, <2>9 DEF Tells
  <2>11. L = TargetWires(target) /\ E = TargetShown(target)
    BY <1>2, <2>2, <2>3, <2>4, <2>12 DEF TargetWires
  <2> QED
    BY <1>2, <2>5, <2>8, <2>9, <2>10, <2>11
<1> QED
  BY <1>1, <1>2

\* No field of an event is a bool: the OutFlag of one is not announced.
NoBooleans == \A list \in FieldLists : \A i \in 1..Len(list) : list[i].kind # "bool"

LEMMA ListsAre ==
  /\ \A list \in GlobalLists \cup FieldLists \cup {<<>>} : IsList(list)
  /\ NoBooleans => \A list \in FieldLists : \A i \in 1..Len(list) : Sound(list[i])
<1>1. \A list \in GlobalLists \cup FieldLists :
        IsSequence(list) /\ \A i \in DOMAIN list : IsField(list[i])
  BY FieldAssumption DEF FieldAssumption
<1>2. \A list \in GlobalLists \cup FieldLists : IsList(list)
  BY <1>1, SequenceParts DEF IsList
<1>3. ASSUME NoBooleans, NEW list \in FieldLists, NEW i \in 1..Len(list) PROVE Sound(list[i])
  <2>1. PICK f : f = list[i]
    OBVIOUS
  <2>2. IsField(f) /\ f.kind # "bool"
    BY <1>2, <1>3, <2>1 DEF IsList, NoBooleans
  <2>3. f.kind \in {"str", "debug", "error", "i64", "u64", "bool"}
    BY <2>2, Zenon DEF IsField
  <2>4. f.kind \in Textual \cup {"i64", "u64"}
    BY <2>2, <2>3 DEF Textual
  <2> QED
    BY <2>1, <2>2, <2>4 DEF Sound
<1> QED
  BY <1>2, <1>3, NothingIsList

\* What Write makes of the target, the global fields and the fields.
BuiltOf(target, list, fields) ==
  FoldLeft(record, [metadata |-> TargetMetadata(target) \o GlobalsOf(list).metadata,
                    data     |-> GlobalsOf(list).data], fields)

LEMMA BuiltCarries ==
  ASSUME NEW target \in AnyTarget, NEW list, IsList(list),
         NEW fields, IsList(fields), \A i \in 1..Len(fields) : Sound(fields[i]),
         NEW d, d = BuiltOf(target, list, fields),
         NEW a, a = Own(Texts(list)), NEW b, b = Own(fields)
  PROVE  /\ IsSequence(a) /\ \A i \in 1..Len(a) : Sound(a[i])
         /\ IsSequence(b) /\ \A i \in 1..Len(b) : Sound(b[i])
         /\ Carries(d.metadata, TargetData(target) \o d.data,
                    (TargetWires(target) \o Wires(a)) \o Wires(b))
<1>1. PICK none : none = <<>>
  OBVIOUS
<1>2. IsSequence(none) /\ Len(none) = 0 /\ Wires(none) = none
  <2>1. IsSequence(none) /\ Len(none) = 0
    BY <1>1, NothingIsList DEF IsList
  <2>2. PICK u : u = Wires(none)
    OBVIOUS
  <2>3. IsSequence(u) /\ Len(u) = 0
    BY <2>1, <2>2, WiresAre
  <2>4. u = none
    BY <2>1, <2>3, SameSequence
  <2> QED
    BY <2>1, <2>2, <2>4
<1>3. Carries(none, none, none)
  BY <1>1, CarriesNothing
<1>4. \A s : IsSequence(s) => none \o s = s /\ s \o none = s
  BY <1>1, EmptyJoin
<1>5. PICK s : s = Texts(list)
  OBVIOUS
<1>6. IsSequence(s) /\ \A i \in DOMAIN s : Sound(s[i])
  <2>1. IsSequence(s) /\ Len(s) = Len(list) /\ \A i \in 1..Len(list) : s[i] = AsText(list[i])
    BY <1>5, TextsAre
  <2>2. DOMAIN s = 1..Len(s)
    BY <2>1, SequenceParts
  <2>3. \A i \in 1..Len(list) : Sound(AsText(list[i]))
    BY AsTextIs DEF IsList
  <2> QED
    BY <2>1, <2>2, <2>3
<1>7. PICK g : g = GlobalsOf(list)
  OBVIOUS
<1>8. CarryOK(g, none, none, a)
  <2>0. PICK e : e = Empty
    OBVIOUS
  <2>1. e = Empty /\ e.metadata = none /\ e.data = none
    BY <1>1, <2>0 DEF Empty
  <2>2. none \o none = none
    BY <1>2, <1>4
  <2>3. CarryOK(e, none, none, none)
    <3>1. \A i \in 1..Len(none) : Sound(none[i])
      BY <1>2
    <3> QED
      BY <1>2, <1>3, <2>1, <2>2, <3>1 DEF CarryOK
  <2>4. CarryOK(FoldLeft(record, e, s), none, none, Own(s))
    BY <1>1, <1>2, <1>6, <2>3, FieldsCarry
  <2>5. g = FoldLeft(record, e, s)
    BY <1>5, <1>7, <2>1, GlobalsAre
  <2> QED
    BY <1>5, <2>4, <2>5
<1>9. IsSequence(a) /\ (\A i \in 1..Len(a) : Sound(a[i])) /\ IsSequence(g.data)
      /\ Carries(g.metadata, g.data, Wires(a))
  <2>1. PICK u : u = Wires(a)
    OBVIOUS
  <2>2. IsSequence(a) /\ IsSequence(g.data)
    BY <1>8 DEF CarryOK
  <2>3. IsSequence(u)
    BY <2>1, <2>2, WiresAre
  <2>4. none \o g.data = g.data /\ none \o u = u
    BY <1>4, <2>2, <2>3
  <2> QED
    BY <1>8, <2>1, <2>4 DEF CarryOK
<1>10. PICK tm, td, tw, u : /\ tm = TargetMetadata(target) /\ td = TargetData(target)
                            /\ tw = TargetWires(target) /\ u = Wires(a)
  OBVIOUS
<1>11. Carries(tm, td, tw)
  BY <1>10, TargetCarries
<1>12. Carries(tm \o g.metadata, td \o g.data, tw \o u)
  BY <1>9, <1>10, <1>11, CarriesJoin
<1>13. IsSequence(td) /\ IsSequence(tw \o u)
  BY <1>11, <1>12 DEF Carries
<1>14. PICK d0 : d0 = [metadata |-> tm \o g.metadata, data |-> g.data]
  OBVIOUS
<1>15. PICK L0 : L0 = tw \o u
  OBVIOUS
<1>16. CarryOK(d0, td, L0, none)
  <2>1. d0.metadata = tm \o g.metadata /\ d0.data = g.data
    BY <1>14
  <2>2. L0 \o Wires(none) = L0
    BY <1>2, <1>4, <1>13, <1>15
  <2>3. Carries(d0.metadata, td \o d0.data, L0 \o Wires(none))
    BY <1>12, <1>15, <2>1, <2>2
  <2>4. \A i \in 1..Len(none) : Sound(none[i])
    BY <1>2
  <2> QED
    BY <1>2, <1>9, <2>1, <2>3, <2>4 DEF CarryOK
<1>17. CarryOK(FoldLeft(record, d0, fields), td, L0, b)
  <2>1. IsSequence(fields) /\ \A i \in DOMAIN fields : Sound(fields[i])
    BY SequenceParts DEF IsList
  <2>2. IsSequence(td) /\ IsSequence(L0)
    BY <1>13, <1>15
  <2> QED
    BY <1>1, <1>16, <2>1, <2>2, FieldsCarry
<1>18. d = FoldLeft(record, d0, fields)
  BY <1>7, <1>10, <1>14 DEF BuiltOf
<1>19. CarryOK(d, td, L0, b)
  BY <1>17, <1>18
<1> QED
  BY <1>9, <1>10, <1>15, <1>19 DEF CarryOK

\* An event that was written, as a function of what it was asked to say.
WrittenOK(w) ==
  LET built   == BuiltOf(w.call.target, w.globals, w.call.fields)
      payload == TargetData(w.call.target) \o built.data
  IN  /\ w.metadata = built.metadata /\ w.payload = payload
      /\ w.name = w.call.name
      /\ w.accepted = EventWriteEx(w.name, built.metadata, payload)
      /\ w.size = u16(MetadataSize(w.name, built.metadata))

\* What a consumer makes of it.
Faithful(e) ==
  LET shown == Decode(e.metadata, e.payload)
      n     == Intact(e)
  IN  /\ e.size = MetadataSize(e.name, e.metadata)
      /\ IF n = Len(Expected(e)) THEN shown = Expected(e)
         ELSE SubSeq(shown, 1, n) = SubSeq(Expected(e), 1, n)

\* A target that 16 bits cannot count does not fit into an event.
Leads(target, L) == target # None => 1 \in DOMAIN L /\ L[1] = TargetWire(target)

LEMMA TargetIsShort ==
  ASSUME NEW target \in AnyTarget, NEW meta, NEW data, NEW L, Carries(meta, data, L),
         Leads(target, L),
         NEW total \in Nat, PayloadSize(data) <= total, total < 65536
  PROVE  Short(target)
<1> SUFFICES ASSUME target # None PROVE target < 65536
  BY DEF Short
<1>1. target \in Nat
  BY FieldAssumption DEF FieldAssumption, AnyTarget
<1>2. CASE target = 0
  BY <1>2
<1>3. CASE target # 0
  <2>1. PICK a, b : a = Count(u16(target)) /\ b = Text("target", target)
    OBVIOUS
  <2>2. PICK s : s = L[1].items
    OBVIOUS
  <2>3. s = <<a, b>>
    <3>1. L[1] = TargetWire(target)
      BY DEF Leads
    <3>2. s = TargetData(target)
      BY <1>1, <2>2, <3>1, TargetWireIs
    <3>3. TargetData(target) = <<a, b>>
      BY <1>3, <2>1 DEF TargetData
    <3> QED
      BY <3>2, <3>3
  <2>4. 2 \in DOMAIN s /\ s[2] = b
    BY <2>3
  <2>5. ItemSize(b) = target
    BY <1>1, <2>1, TextIsText
  <2>6. PayloadSize(data) \in Nat /\ ItemSize(L[1].items[2]) <= PayloadSize(data)
    <3>1. 1 \in DOMAIN L
      BY DEF Leads
    <3> QED
      BY <2>2, <2>4, <3>1, WireFits
  <2>7. PICK z \in Nat : z = PayloadSize(data) /\ target <= z
    BY <2>2, <2>4, <2>5, <2>6
  <2> QED
    BY <1>1, <2>7
<1> QED
  BY <1>2, <1>3

LEMMA Adds == \A x \in Nat, y \in Nat, z \in Nat : x + y <= z => x <= z /\ y <= z
OBVIOUS

\* What ETW accepts is short enough for the lengths of 16 bits.
LEMMA SizesAreExact ==
  ASSUME NEW name, name.len \in Nat, NEW meta, NEW data, NEW L, Carries(meta, data, L),
         EventWriteEx(name, meta, data)
  PROVE  /\ u16(MetadataSize(name, meta)) = MetadataSize(name, meta)
         /\ PayloadSize(data) <= MaxEvent
<1>1. IsSequence(meta) /\ IsSequence(data) /\ \A i \in DOMAIN data : ItemSize(data[i]) \in Nat
  BY DEF Carries
<1>2. PICK x \in Nat : x = MetadataSize(name, meta)
  BY <1>1, SizeIs
<1>3. PICK y \in Nat : y = PayloadSize(data)
  BY <1>1, SizesAdd
<1>4. MaxEvent \in Nat /\ MaxEvent < 65536
  BY EventAssumption DEF EventAssumption
<1>5. x + y <= MaxEvent
  BY <1>2, <1>3 DEF EventWriteEx
<1>6. x < 65536 /\ y <= MaxEvent
  BY <1>4, <1>5
<1>7. u16(x) = x
  BY <1>6 DEF u16
<1> QED
  BY <1>2, <1>3, <1>6, <1>7

NoNul(T, n) == \A k \in 1..n : ~T[k].nul

\* What is told of the fields before the first NUL is what is decoded.
LEMMA TellsDecode ==
  ASSUME NEW meta, NEW data, NEW L, Carries(meta, data, L), NEW E, NEW T, Tells(L, E, T),
         NEW n \in 0..Len(E), NoNul(T, n)
  PROVE  ShownAs(Decode(meta, data), E, n)
<1>1. IsSequence(E) /\ Len(E) = Len(L) /\ Len(E) \in Nat
  BY SequenceParts DEF Tells
<1>2. ASSUME NEW k \in 1..n PROVE Reads(L[k], E[k].value) /\ Seen(L[k], E[k].value) = E[k]
  BY <1>1 DEF Tells, NoNul
<1> QED
  BY <1>1, <1>2, WiresShown

LEMMA TargetLeads ==
  ASSUME NEW target \in AnyTarget, NEW u, IsSequence(u), NEW w, IsSequence(w),
         NEW L, L = (TargetWires(target) \o u) \o w
  PROVE  Leads(target, L)
<1>0. CASE target = None
  BY <1>0, Zenon DEF Leads
<1> SUFFICES ASSUME target # None PROVE 1 \in DOMAIN L /\ L[1] = TargetWire(target)
  BY <1>0, Zenon DEF Leads
<1>1. PICK a, s : a = TargetWire(target) /\ s = <<a>>
  OBVIOUS
<1>2. s \in Seq({a}) /\ Len(s) = 1 /\ s[1] = a
  BY <1>1
<1>3. IsSequence(s)
  BY <1>2, SequenceIs
<1>4. L = (s \o u) \o w
  BY <1>1 DEF TargetWires
<1>5. PICK p : p = s \o u
  OBVIOUS
<1>6. /\ IsSequence(s \o u) /\ Len(s \o u) = Len(s) + Len(u)
      /\ \A i \in 1..Len(s) : (s \o u)[i] = s[i]
  BY <1>3, SequencesJoin
<1>7. Len(u) \in Nat /\ Len(w) \in Nat
  BY SequenceParts
<1>8. IsSequence(p) /\ Len(p) = 1 + Len(u) /\ p[1] = a
  BY <1>2, <1>5, <1>6
<1>9. /\ IsSequence(p \o w) /\ Len(p \o w) = Len(p) + Len(w)
      /\ \A i \in 1..Len(p) : (p \o w)[i] = p[i]
  BY <1>8, SequencesJoin
<1>10. 1 \in 1..Len(p) /\ 1 \in 1..Len(p) + Len(w)
  BY <1>7, <1>8
<1>11. L = p \o w
  BY <1>4, <1>5
<1>12. DOMAIN L = 1..Len(L) /\ L[1] = a /\ Len(L) = Len(p) + Len(w)
  BY <1>8, <1>9, <1>10, <1>11, SequenceParts
<1> QED
  BY <1>1, <1>10, <1>12

\* The texts behind the target.
LEMMA IntactIs ==
  ASSUME NEW c \in Nat, NEW TT, IsSequence(TT), Len(TT) = c, \A k \in 1..Len(TT) : ~TT[k].nul,
         NEW texts, IsSequence(texts)
  PROVE  /\ c + Before(texts) \in 0..Len(TT \o texts)
         /\ \A k \in 1..c + Before(texts) : ~(TT \o texts)[k].nul
<1>0. PICK T : T = TT \o texts
  OBVIOUS
<1>1. PICK l \in Nat : l = Len(texts)
  BY SequenceParts
<1>2. PICK n : n = Before(texts)
  OBVIOUS
<1>3. n \in 0..l /\ \A i \in 1..n : ~texts[i].nul
  BY <1>1, <1>2, BeforeIs
<1>4. /\ Len(T) = c + l
      /\ \A i \in 1..c : T[i] = TT[i]
      /\ \A i \in 1..l : T[c + i] = texts[i]
  <2>1. /\ Len(TT \o texts) = Len(TT) + Len(texts)
        /\ \A i \in 1..Len(TT) : (TT \o texts)[i] = TT[i]
        /\ \A i \in 1..Len(texts) : (TT \o texts)[Len(TT) + i] = texts[i]
    BY SequencesJoin
  <2> QED
    BY <1>0, <1>1, <2>1
<1>5. ASSUME NEW k \in 1..c + n PROVE ~T[k].nul
  <2>1. CASE k \in 1..c
    BY <1>4, <2>1
  <2>2. CASE k \notin 1..c
    <3>1. PICK i \in 1..n : k = c + i
      <4>1. k - c \in 1..n /\ k = c + (k - c)
        BY <1>3, <2>2
      <4> QED
        BY <4>1
    <3>2. i \in 1..l
      BY <1>3
    <3> QED
      BY <1>3, <1>4, <3>1, <3>2
  <2> QED
    BY <2>1, <2>2
<1> QED
  BY <1>0, <1>2, <1>3, <1>4, <1>5

\* What a call of write_event was given.
CallOK(c) ==
  /\ c.target \in AnyTarget /\ c.fields \in FieldLists /\ c.name.len \in Nat
  /\ c.opcode = "INFO" \/ c.fields \in SpanFields \cup DeferredFields

\* write_name skips no field of a span and no global field.
Unreserved(list) == \A i \in 1..Len(list) : ~Skipped(list[i].name)
NothingReserved  == \A list \in GlobalLists \cup SpanFields \cup DeferredFields : Unreserved(list)

\* Where nothing is skipped everything is kept.
LEMMA AllKept ==
  ASSUME NEW list, IsSequence(list), Unreserved(list)
  PROVE  Own(list) = list
<1>1. PICK n \in Nat : n = Len(list) /\ DOMAIN list = 1..n
  BY SequenceParts
<1>2. PICK h : Keeping!Partials(h, <<>>, list, n) /\ Own(list) = h[n]
  <2>1. \E h : Keeping!Partials(h, <<>>, list, n) /\ Keeping!Fold(<<>>, list) = h[n]
    BY <1>1, Keeping!FoldSteps, Zenon
  <2>2. Own(list) = Keeping!Fold(<<>>, list)
    BY Zenon DEF Own, FoldLeft, MapThenFoldSet, Max,
                 Keeping!Fold, Keeping!FoldLeft, Keeping!MapThenFoldSet, Keeping!Max
  <2> QED
    BY <2>1, <2>2, Zenon
<1>3. h[0] = <<>> /\ \A k \in 0..n - 1 : h[k + 1] = Kept(h[k], list[k + 1])
  BY <1>2 DEF Keeping!Partials
<1> DEFINE Start(s, k) == IsSequence(s) /\ Len(s) = k /\ \A i \in 1..k : s[i] = list[i]
           S == {k \in 0..n : Start(h[k], k)}
<1>4. 0 \in S
  BY <1>3, NothingIsList DEF IsList
<1>5. ASSUME NEW k \in 0..n - 1, k \in S PROVE k + 1 \in S
  <2>1. PICK i \in 1..n : i = k + 1 /\ i \in 0..n
    OBVIOUS
  <2>2. PICK told, f, s : told = h[k] /\ f = list[i] /\ s = Append(told, f)
    OBVIOUS
  <2>3. h[i] = s
    <3>1. ~Skipped(f.name)
      BY <1>1, <2>2 DEF Unreserved
    <3> QED
      BY <1>3, <2>1, <2>2, <3>1 DEF Kept
  <2>4. IsSequence(told) /\ Len(told) = k /\ \A j \in 1..k : told[j] = list[j]
    BY <1>5, <2>2
  <2>5. /\ IsSequence(s) /\ Len(s) = Len(told) + 1 /\ s[Len(told) + 1] = f
        /\ \A j \in 1..Len(told) : s[j] = told[j]
    <3>1. IsSequence(told)
      BY <2>4
    <3>2. /\ IsSequence(Append(told, f)) /\ Len(Append(told, f)) = Len(told) + 1
          /\ \A j \in 1..Len(told) : Append(told, f)[j] = told[j]
          /\ Append(told, f)[Len(told) + 1] = f
      BY <3>1, AppendIs, Zenon
    <3> QED
      BY <2>2, <3>2, Zenon
  <2>6. ASSUME NEW j \in 1..i PROVE s[j] = list[j]
    <3>1. j \in 1..k \/ j = k + 1
      BY <2>1
    <3> QED
      BY <2>1, <2>2, <2>4, <2>5, <3>1
  <2>7. Start(s, i)
    BY <2>1, <2>4, <2>5, <2>6
  <2> HIDE DEF Start
  <2> QED
    BY <2>1, <2>3, <2>7
<1>6. n \in S
  <2>1. 0..n \subseteq S
    <3> HIDE DEF S
    <3> QED
      BY <1>4, <1>5, Sizes!UpTo
  <2> QED
    BY <2>1
<1>7. IsSequence(h[n]) /\ Len(h[n]) = Len(list) /\ \A i \in 1..Len(list) : h[n][i] = list[i]
  BY <1>1, <1>6
<1>8. h[n] = list
  BY <1>7, SameSequence
<1> QED
  BY <1>2, <1>8

LEMMA UntoldIs ==
  ASSUME NothingReserved, NEW c, CallOK(c)
  PROVE  Untold(c) = Own(c.fields)
<1>1. CASE c.opcode = "INFO"
  BY <1>1 DEF Untold
<1>2. CASE c.opcode # "INFO"
  <2>1. PICK list : list = c.fields
    OBVIOUS
  <2>2. IsSequence(list) /\ Unreserved(list)
    BY <1>2, <2>1, ListsAre DEF CallOK, NothingReserved, IsList
  <2>3. Own(list) = list
    BY <2>2, AllKept
  <2> QED
    BY <1>2, <2>1, <2>3 DEF Untold
<1> QED
  BY <1>1, <1>2

LEMMA GlobalsKept ==
  ASSUME NothingReserved, NEW list \in GlobalLists \cup {<<>>}
  PROVE  Own(list) = list
<1>1. IsSequence(list)
  BY ListsAre DEF IsList
<1>2. Unreserved(list)
  BY NothingIsList DEF NothingReserved, Unreserved
<1> QED
  BY <1>1, <1>2, AllKept

LEMMA EventDecodes ==
  ASSUME NEW e, WrittenOK(e), CallOK(e.call), e.globals \in GlobalLists \cup {<<>>},
         NoBooleans, NothingReserved, e.accepted
  PROVE  Faithful(e)
<1>1. PICK target, list, fields : target = e.call.target /\ list = e.globals /\ fields = e.call.fields
  OBVIOUS
<1>2. /\ target \in AnyTarget /\ IsList(list) /\ IsList(fields)
      /\ \A i \in 1..Len(fields) : Sound(fields[i])
  BY <1>1, ListsAre DEF CallOK
<1>3. PICK d, a, b, og : /\ d = BuiltOf(target, list, fields) /\ a = Own(Texts(list))
                         /\ b = Own(fields) /\ og = Own(list)
  OBVIOUS
<1>4. PICK meta, data : meta = d.metadata /\ data = TargetData(target) \o d.data
  OBVIOUS
<1>5. /\ e.metadata = meta /\ e.payload = data /\ e.name = e.call.name
      /\ EventWriteEx(e.name, meta, data) /\ e.size = u16(MetadataSize(e.name, meta))
  BY <1>1, <1>3, <1>4 DEF WrittenOK
<1>6. IsList(og) /\ a = Texts(og) /\ og = list /\ b = Untold(e.call)
  BY <1>1, <1>2, <1>3, GlobalsAre, GlobalsKept, UntoldIs
<1>7. PICK tw, wa, wb, L : /\ tw = TargetWires(target) /\ wa = Wires(a) /\ wb = Wires(b)
                           /\ L = (tw \o wa) \o wb
  <2>1. PICK tw, wa, wb : tw = TargetWires(target) /\ wa = Wires(a) /\ wb = Wires(b)
    OBVIOUS
  <2> QED
    BY <2>1
<1>8. /\ IsSequence(a) /\ \A i \in 1..Len(a) : Sound(a[i])
      /\ IsSequence(b) /\ \A i \in 1..Len(b) : Sound(b[i])
      /\ Carries(meta, data, L)
  BY <1>2, <1>3, <1>4, <1>7, BuiltCarries
<1>9. e.name.len \in Nat
  BY <1>5 DEF CallOK
<1>10. u16(MetadataSize(e.name, meta)) = MetadataSize(e.name, meta) /\ PayloadSize(data) <= MaxEvent
  BY <1>5, <1>8, <1>9, SizesAreExact
<1>11. Leads(target, L)
  <2>1. IsSequence(wa) /\ IsSequence(wb)
    BY <1>7, <1>8, WiresAre
  <2>2. L = (TargetWires(target) \o wa) \o wb
    BY <1>7
  <2> QED
    BY <1>2, <2>1, <2>2, TargetLeads
<1>12. Short(target)
  <2>1. MaxEvent \in Nat /\ MaxEvent < 65536
    BY EventAssumption DEF EventAssumption
  <2> QED
    BY <1>2, <1>8, <1>10, <1>11, <2>1, TargetIsShort
<1>13. PICK ts, c : ts = TargetShown(target) /\ c = IF target = None THEN 0 ELSE 1
  OBVIOUS
<1>14. PICK TT : Tells(tw, ts, TT) /\ (\A k \in 1..Len(TT) : ~TT[k].nul) /\ Len(TT) = c
  BY <1>2, <1>7, <1>12, <1>13, TargetTells
<1>15. PICK eg, eb : eg = Each(ShownGlobal, og) /\ eb = Each(ShownField, b)
  OBVIOUS
<1>16. IsSequence(eg) /\ Len(eg) = Len(og) /\ \A i \in 1..Len(og) : eg[i] = ShownGlobal(og[i])
  <2>1. PICK n \in Nat : n = Len(og) /\ DOMAIN og = 1..n
    BY <1>6, SequenceParts DEF IsList
  <2>2. eg = [i \in 1..n |-> ShownGlobal(og[i])]
    BY <1>15, <2>1 DEF Each
  <2>3. DOMAIN eg = 1..n /\ eg = [i \in 1..n |-> eg[i]]
    BY <2>2
  <2> QED
    BY <2>1, <2>2, <2>3, FunctionIsSequence
<1>17. IsSequence(eb) /\ Len(eb) = Len(b) /\ \A i \in 1..Len(b) : eb[i] = ShownField(b[i])
  <2>1. PICK n \in Nat : n = Len(b) /\ DOMAIN b = 1..n
    BY <1>8, SequenceParts
  <2>2. eb = [i \in 1..n |-> ShownField(b[i])]
    BY <1>15, <2>1 DEF Each
  <2>3. DOMAIN eb = 1..n /\ eb = [i \in 1..n |-> eb[i]]
    BY <2>2
  <2> QED
    BY <2>1, <2>2, <2>3, FunctionIsSequence
<1>18. Tells(wa, eg, og)
  <2>1. IsSequence(og) /\ Len(a) = Len(og) /\ \A i \in 1..Len(og) : a[i] = AsText(og[i])
    BY <1>6, TextsAre DEF IsList
  <2>2. \A i \in 1..Len(og) : ShownField(a[i]) = ShownGlobal(og[i]) /\ a[i].nul = og[i].nul
    BY <1>6, <2>1, AsTextIs DEF IsList
  <2>3. \A i \in 1..Len(a) : eg[i] = ShownField(a[i]) /\ og[i].nul = a[i].nul
    BY <1>16, <2>1, <2>2
  <2> QED
    BY <1>7, <1>8, <1>16, <2>1, <2>3, FieldsTell
<1>19. Tells(wb, eb, b)
  BY <1>7, <1>8, <1>17, FieldsTell
<1>20. PICK E, T : E = (ts \o eg) \o eb /\ T = (TT \o og) \o b
  OBVIOUS
<1>21. Tells(L, E, T)
  <2>1. Tells(tw \o wa, ts \o eg, TT \o og)
    BY <1>14, <1>18, TellsJoin
  <2> QED
    BY <1>7, <1>19, <1>20, <2>1, TellsJoin
<1>22. E = Expected(e)
  BY <1>1, <1>6, <1>13, <1>15, <1>20 DEF Expected, TargetShown
<1>23. PICK texts : texts = og \o b
  OBVIOUS
<1>24. IsSequence(TT) /\ IsSequence(og) /\ IsSequence(b) /\ IsSequence(texts)
  <2>1. IsSequence(TT) /\ IsSequence(og)
    BY <1>6, <1>14 DEF Tells, IsList
  <2> QED
    BY <1>8, <1>23, <2>1, SequencesJoin
<1>25. T = TT \o texts
  <2>1. (TT \o og) \o b = TT \o (og \o b)
    <3>1. IsSequence(TT) /\ IsSequence(og) /\ IsSequence(b)
      BY <1>24
    <3> QED
      BY <3>1, JoinAssoc, SMTT(30)
  <2> QED
    BY <1>20, <1>23, <2>1
<1>26. PICK n : n = c + Before(texts)
  OBVIOUS
<1>27. n \in 0..Len(T) /\ \A k \in 1..n : ~T[k].nul
  <2>1. c \in Nat
    BY <1>13
  <2> QED
    BY <1>14, <1>24, <1>25, <1>26, <2>1, IntactIs
<1>28. Intact(e) = n
  <2>1. Before(texts) \in Nat
    BY <1>24, SequenceParts, BeforeIs
  <2>2. Intact(e) = IF target = None THEN Before(texts) ELSE Before(texts) + 1
    BY <1>1, <1>6, <1>23 DEF Intact, Before
  <2> QED
    BY <1>13, <1>26, <2>1, <2>2
<1>29. ShownAs(Decode(meta, data), E, n)
  <2>1. Len(T) = Len(E)
    BY <1>21 DEF Tells
  <2>2. n \in 0..Len(E) /\ NoNul(T, n)
    BY <1>27, <2>1 DEF NoNul
  <2>3. Carries(meta, data, L)
    BY <1>8
  <2> QED
    BY <1>21, <2>2, <2>3, TellsDecode
<1> QED
  BY <1>5, <1>10, <1>22, <1>28, <1>29 DEF Faithful, ShownAs

-----------------------------------------------------------------------------
(* The steps that build an event.                                          *)

Whole == configured \in GlobalLists \cup {<<>>}

\* What is left to do makes the global fields those last asked for.
SettingOK(o) ==
  IsSequence(o.todo) /\ FoldLeft(record_global, global_fields, o.todo) = GlobalsOf(configured)

BuildingOK(o) == o.metadata = TargetMetadata(o.call.target) \o global_fields.metadata

SentOK(o) == WrittenOK(o) /\ o.globals \in GlobalLists \cup {<<>>}

BuildInv ==
  /\ Whole
  /\ \A t \in Threads : op[t].pc = "setting" => SettingOK(op[t])
  /\ (\A t \in Threads : op[t].pc # "setting") => global_fields = GlobalsOf(configured)
  /\ \A t \in Threads : Handling(t) => CallOK(CallOf(t))
  /\ \A t \in Threads : op[t].pc = "building" => BuildingOK(op[t])
  /\ \A t \in Threads : op[t].pc = "written" => SentOK(op[t])

\* A list whose fields are left to be recorded.
LEMMA GlobalHead ==
  ASSUME NEW d, NEW todo, IsSequence(todo), todo # <<>>
  PROVE  /\ IsSequence(Tail(todo))
         /\ FoldLeft(record_global, record_global(d, Head(todo)), Tail(todo)) =
              FoldLeft(record_global, d, todo)
<1>1. PICK S : todo \in Seq(S)
  BY DEF IsSequence
<1>2. PICK r : r = Tail(todo)
  OBVIOUS
<1>7. r \in Seq(S)
  BY <1>1, <1>2
<1>3. IsSequence(r)
  BY <1>7, SequenceIs
<1>4. Sharing!Fold(d, todo) = Sharing!Fold(record_global(d, Head(todo)), Tail(todo))
  BY <1>1, Sharing!FoldHead
<1>5. \A base, s : FoldLeft(record_global, base, s) = Sharing!Fold(base, s)
  BY Zenon DEF FoldLeft, MapThenFoldSet, Max,
               Sharing!Fold, Sharing!FoldLeft, Sharing!MapThenFoldSet, Sharing!Max
<1>6. FoldLeft(record_global, record_global(d, Head(todo)), Tail(todo)) =
        FoldLeft(record_global, d, todo)
  BY <1>4, <1>5, Zenon
<1> QED
  BY <1>2, <1>3, <1>6

LEMMA NoGlobals == ASSUME NEW d PROVE FoldLeft(record_global, d, <<>>) = d
<1>1. Sharing!Fold(d, <<>>) = d
  BY Sharing!FoldEmpty
<1>2. FoldLeft(record_global, d, <<>>) = Sharing!Fold(d, <<>>)
  BY Zenon DEF FoldLeft, MapThenFoldSet, Max,
               Sharing!Fold, Sharing!FoldLeft, Sharing!MapThenFoldSet, Sharing!Max
<1> QED
  BY <1>1, <1>2

LEMMA InitBuild == Init => BuildInv
<1> SUFFICES ASSUME Init PROVE BuildInv
  OBVIOUS
<1>1. \A t \in Threads : op[t].pc = "idle"
  BY DEF Init, Idle
<1>2. configured = <<>> /\ global_fields = Empty
  BY DEF Init
<1>3. global_fields = GlobalsOf(configured)
  BY <1>2, NoGlobals DEF GlobalsOf
<1> QED
  BY <1>1, <1>2, <1>3 DEF BuildInv, Whole, Handling

\* A step of one thread that leaves the global fields alone.
LEMMA StepBuild ==
  ASSUME Inv, BuildInv, NEW t \in Threads, NEW where, Goto(t, where), UNCHANGED globals,
         where.pc # "setting", op[t].pc = "setting" => global_fields = GlobalsOf(configured),
         where.pc = "checking" => CallOK(where),
         where.pc \in {"building", "written"} => CallOK(where.call),
         where.pc = "building" => BuildingOK(where),
         where.pc = "written" => SentOK(where)
  PROVE  BuildInv'
<1>1. op'[t] = where /\ \A u \in Threads \ {t} : op'[u] = op[u]
  BY DEF Inv, Goto
<1>2. UNCHANGED <<global_fields, configured>>
  BY DEF globals
<1>3. Whole'
  BY <1>2 DEF BuildInv, Whole
<1>4. ASSUME NEW u \in Threads, op'[u].pc = "setting" PROVE SettingOK(op[u])'
  BY <1>1, <1>2, <1>4 DEF BuildInv, SettingOK
<1>5. ASSUME \A u \in Threads : op'[u].pc # "setting"
      PROVE  global_fields' = GlobalsOf(configured)'
  <2>1. CASE op[t].pc = "setting"
    BY <1>2, <2>1
  <2>2. CASE op[t].pc # "setting"
    <3>1. \A u \in Threads : op[u].pc # "setting"
      BY <1>1, <1>5, <2>2
    <3> QED
      BY <1>2, <3>1 DEF BuildInv
  <2> QED
    BY <2>1, <2>2
<1>6. ASSUME NEW u \in Threads, Handling(u)' PROVE CallOK(CallOf(u))'
  BY <1>1, <1>6 DEF BuildInv, Handling, CallOf, CallOK
<1>7. ASSUME NEW u \in Threads, op'[u].pc = "building" PROVE BuildingOK(op[u])'
  BY <1>1, <1>2, <1>7 DEF BuildInv, BuildingOK
<1>8. ASSUME NEW u \in Threads, op'[u].pc = "written" PROVE SentOK(op[u])'
  BY <1>1, <1>8 DEF BuildInv, SentOK
<1> QED
  BY <1>3, <1>4, <1>5, <1>6, <1>7, <1>8 DEF BuildInv

\* The global fields are changed by a thread that configures, when no
\* handler runs.
LEMMA GlobalsBuild ==
  ASSUME Inv, BuildInv, NEW t \in Threads, Configuring(t), NEW where, Goto(t, where),
         where.pc = "setting", Whole', SettingOK(where)'
  PROVE  BuildInv'
<1>1. op'[t] = where /\ \A u \in Threads \ {t} : op'[u] = op[u]
  BY DEF Inv, Goto
<1>2. writer = t /\ readers = {}
  BY NoThread DEF Inv, LockOK
<1>3. \A u \in Threads : ~Handling(u) /\ (op[u].pc = "setting" => u = t)
  BY <1>2 DEF Inv, LockOK, Configuring
<1>4. \A u \in Threads : ~Handling(u)'
  BY <1>1, <1>3 DEF Handling
<1>5. ASSUME NEW u \in Threads, op'[u].pc = "setting" PROVE SettingOK(op[u])'
  BY <1>1, <1>3, <1>5 DEF SettingOK
<1>6. op'[t].pc = "setting"
  BY <1>1
<1> QED
  BY <1>4, <1>5, <1>6 DEF BuildInv, Handling

LEMMA NextBuild == Inv /\ BuildInv /\ [Next]_vars => BuildInv'
<1> SUFFICES ASSUME Inv, BuildInv, [Next]_vars PROVE BuildInv'
  OBVIOUS
<1>0. ASSUME UNCHANGED <<globals, op>> PROVE BuildInv'
  BY <1>0 DEF globals, BuildInv, Whole, SettingOK, Handling, CallOf, CallOK, BuildingOK, SentOK
<1>1. CASE UNCHANGED vars
  BY <1>0, <1>1 DEF vars
<1>2. ASSUME NEW l \in SessionLevels, SessionChanges(l) PROVE BuildInv'
  BY <1>0, <1>2 DEF SessionChanges
<1>3. ASSUME NEW t \in Threads, Modify(t) PROVE BuildInv'
  <2> DEFINE where == [pc |-> "modifying"]
  <2>1. where.pc = "modifying" /\ Goto(t, where) /\ op[t].pc = "idle" /\ UNCHANGED globals
    BY <1>3 DEF Modify, Idle
  <2> HIDE DEF where
  <2> QED
    BY <2>1, StepBuild
<1>4. ASSUME NEW t \in Threads, Modified(t) PROVE BuildInv'
  <2>1. Idle.pc = "idle" /\ Goto(t, Idle) /\ op[t].pc = "modifying" /\ UNCHANGED globals
    BY <1>4 DEF Modified, Idle
  <2> QED
    BY <2>1, StepBuild
<1>5. ASSUME NEW t \in Threads, NEW enabled \in BOOLEAN, enable_telemetry_events(t, enabled)
      PROVE  BuildInv'
  BY <1>0, <1>5 DEF enable_telemetry_events
<1>6. ASSUME NEW t \in Threads, NEW keyword \in TraceKeywords, set_trace_keyword(t, keyword)
      PROVE  BuildInv'
  BY <1>0, <1>6 DEF set_trace_keyword
<1>7. ASSUME NEW t \in Threads, NEW list \in GlobalLists, set_global_fields(t, list) PROVE BuildInv'
  <2> DEFINE where == [pc |-> "setting", todo |-> list]
  <2>1. where.pc = "setting" /\ where.todo = list /\ Goto(t, where) /\ Configuring(t)
    BY <1>7 DEF set_global_fields, Configuring
  <2>2. global_fields' = Empty /\ configured' = list
    BY <1>7 DEF set_global_fields
  <2>3. IsSequence(list)
    BY FieldAssumption DEF FieldAssumption
  <2>4. Whole'
    BY <2>2 DEF Whole
  <2>5. SettingOK(where)'
    BY <2>1, <2>2, <2>3 DEF SettingOK, GlobalsOf
  <2> HIDE DEF where
  <2> QED
    BY <2>1, <2>4, <2>5, GlobalsBuild
<1>8. ASSUME NEW t \in Threads, AddGlobal(t) PROVE BuildInv'
  <2>1. PICK todo : todo = op[t].todo
    OBVIOUS
  <2>2. /\ op[t].pc = "setting" /\ todo # <<>> /\ configured' = configured
        /\ global_fields' = record_global(global_fields, Head(todo))
        /\ op' = [op EXCEPT ![t].todo = Tail(@)]
    BY <1>8, <2>1 DEF AddGlobal
  <2>10. PICK where : where = [op[t] EXCEPT !.todo = Tail(@)]
    OBVIOUS
  <2>3. SettingOK(op[t])
    BY <2>2 DEF BuildInv
  <2>4. Goto(t, where) /\ where.pc = "setting" /\ where.todo = Tail(todo)
    BY <1>8, <2>1, <2>2, <2>10 DEF Goto
  <2>6. /\ IsSequence(Tail(todo))
        /\ FoldLeft(record_global, record_global(global_fields, Head(todo)), Tail(todo)) =
             GlobalsOf(configured)
    BY <2>1, <2>2, <2>3, GlobalHead DEF SettingOK
  <2>7. Whole'
    BY <2>2 DEF BuildInv, Whole
  <2>8. SettingOK(where)'
    BY <2>2, <2>4, <2>6 DEF SettingOK
  <2>9. Configuring(t)
    BY <2>2 DEF Configuring
  <2> QED
    BY <2>4, <2>7, <2>8, <2>9, GlobalsBuild
<1>9. ASSUME NEW t \in Threads, GlobalsSet(t) PROVE BuildInv'
  <2> DEFINE where == [pc |-> "modifying"]
  <2>1. /\ where.pc = "modifying" /\ Goto(t, where) /\ UNCHANGED globals
        /\ op[t].pc = "setting" /\ op[t].todo = <<>>
    BY <1>9 DEF GlobalsSet
  <2>2. FoldLeft(record_global, global_fields, <<>>) = GlobalsOf(configured)
    BY <2>1 DEF BuildInv, SettingOK
  <2>3. global_fields = GlobalsOf(configured)
    BY <2>2, NoGlobals
  <2> HIDE DEF where
  <2> QED
    BY <2>1, <2>3, StepBuild
<1>10. ASSUME NEW t \in Threads, NEW opcode, NEW level, NEW target \in AnyTarget,
              NEW name, name.len \in Nat, NEW fields \in FieldLists,
              opcode = "INFO" \/ fields \in SpanFields \cup DeferredFields,
              write_event(t, opcode, level, target, name, fields)
       PROVE  BuildInv'
  <2> DEFINE where == [pc |-> "checking", opcode |-> opcode, level |-> level, target |-> target,
                       name |-> name, fields |-> fields, keyword |-> KeywordFor(level)]
  <2>1. /\ where.pc = "checking" /\ Goto(t, where) /\ UNCHANGED globals
        /\ op[t].pc = "idle" /\ CallOK(where)
    BY <1>10 DEF write_event, Idle, CallOK
  <2> HIDE DEF where
  <2> QED
    BY <2>1, StepBuild
<1>14. ASSUME NEW t \in Threads, NEW level, NEW target \in Targets, NEW fields \in EventFields,
              on_event(t, level, target, fields)
       PROVE  BuildInv'
  <2>1. fields \in FieldLists /\ target \in AnyTarget
    BY DEF FieldLists, AnyTarget
  <2>2. EventName(fields).len \in Nat
    BY <2>1, ListsAre, NameIs
  <2> QED
    BY <1>10, <1>14, <2>1, <2>2 DEF on_event
<1>15. ASSUME NEW t \in Threads, NEW level, NEW target \in Targets, NEW name \in SpanNames,
              NEW fields \in SpanFields, on_new_span(t, level, target, name, fields)
       PROVE  BuildInv'
  <2>1. fields \in FieldLists /\ target \in AnyTarget /\ name.len \in Nat
    BY FieldAssumption DEF FieldAssumption, FieldLists, AnyTarget
  <2> QED
    BY <1>10, <1>15, <2>1 DEF on_new_span
<1>16. ASSUME NEW t \in Threads, NEW level, NEW name \in SpanNames, NEW fields \in DeferredFields,
              on_close(t, level, name, fields)
       PROVE  BuildInv'
  <2>1. fields \in FieldLists /\ None \in AnyTarget /\ name.len \in Nat
    BY FieldAssumption DEF FieldAssumption, FieldLists, AnyTarget
  <2> QED
    BY <1>10, <1>16, <2>1 DEF on_close
<1>11. ASSUME NEW t \in Threads, NotEnabled(t) \/ Return(t) PROVE BuildInv'
  <2>1. /\ Idle.pc = "idle" /\ Goto(t, Idle) /\ UNCHANGED globals
        /\ op[t].pc \in {"checking", "written"}
    BY <1>11 DEF NotEnabled, Return, Idle
  <2> QED
    BY <2>1, StepBuild
<1>12. ASSUME NEW t \in Threads, CopyMetadata(t) PROVE BuildInv'
  <2>1. op[t].pc = "checking" /\ CallOK(op[t]) /\ UNCHANGED globals
    BY <1>12 DEF CopyMetadata, BuildInv, Handling, CallOf
  <2> DEFINE where == [pc |-> "building", call |-> op[t],
                       metadata |-> TargetMetadata(op[t].target) \o global_fields.metadata]
  <2>2. where.pc = "building" /\ where.call = op[t] /\ Goto(t, where) /\ BuildingOK(where)
    BY <1>12 DEF CopyMetadata, Goto, BuildingOK
  <2> HIDE DEF where
  <2> QED
    BY <2>1, <2>2, StepBuild
<1>13. ASSUME NEW t \in Threads, Write(t) PROVE BuildInv'
  <2>1. PICK call, g : call = op[t].call /\ g = global_fields
    OBVIOUS
  <2>2. op[t].pc = "building" /\ CallOK(call) /\ BuildingOK(op[t]) /\ UNCHANGED globals
    BY <1>13, <2>1 DEF Write, BuildInv, Handling, CallOf
  <2>3. g = GlobalsOf(configured) /\ Whole
    <3>1. t \in readers
      BY <2>2 DEF Inv, LockOK, Handling
    <3>2. writer = None
      BY <3>1 DEF Inv, LockOK
    <3>3. \A u \in Threads : op[u].pc # "setting"
      BY <3>2, NoThread DEF Inv, LockOK, Configuring
    <3> QED
      BY <2>1, <3>3 DEF BuildInv
  <2>4. PICK built : built = FoldLeft(record, [metadata |-> op[t].metadata, data |-> g.data], call.fields)
    OBVIOUS
  <2>5. built = BuiltOf(call.target, configured, call.fields)
    BY <2>1, <2>2, <2>3, <2>4 DEF BuildingOK, BuiltOf
  <2>6. PICK name, payload : name = call.name
                             /\ payload = TargetData(call.target) \o built.data
    OBVIOUS
  <2> DEFINE where == [pc |-> "written", call |-> call, globals |-> configured,
                       level |-> EtwLevel(call.level), keyword |-> call.keyword,
                       accepted |-> EventWriteEx(name, built.metadata, payload),
                       size |-> u16(MetadataSize(name, built.metadata)),
                       name |-> name, metadata |-> built.metadata, payload |-> payload]
  <2>7. Goto(t, where)
    BY <1>13, <2>1, <2>4, <2>6 DEF Write
  <2>8. /\ where.pc = "written" /\ where.call = call /\ where.globals = configured
        /\ where.accepted = EventWriteEx(name, built.metadata, payload)
        /\ where.size = u16(MetadataSize(name, built.metadata))
        /\ where.name = name /\ where.metadata = built.metadata /\ where.payload = payload
    OBVIOUS
  <2> HIDE DEF where
  <2>9. WrittenOK(where)
    BY <2>5, <2>6, <2>8 DEF WrittenOK
  <2>10. SentOK(where)
    BY <2>3, <2>8, <2>9 DEF SentOK, Whole
  <2> QED
    BY <2>2, <2>7, <2>8, <2>10, StepBuild
<1> QED
  BY <1>1, <1>2, <1>3, <1>4, <1>5, <1>6, <1>7, <1>8, <1>9, <1>11, <1>12, <1>13, <1>14, <1>15, <1>16
  DEF Next

THEOREM BuildInvariance == Spec => [](Inv /\ BuildInv)
<1>1. Init => Inv /\ BuildInv
  BY InitInv, InitBuild
<1>2. (Inv /\ BuildInv) /\ [Next]_vars => (Inv /\ BuildInv)'
  BY NextInv, NextBuild
<1> QED
  BY <1>1, <1>2, PTL DEF Spec

\* Whatever is configured and logged, every event that ETW accepts is decoded
\* to the fields it was given: START, INFO and STOP events alike, if no field
\* is a bool, whose OutFlag is not announced, and no field of a span and no
\* global field has a name that write_name skips, for nothing else tells it.
THEOREM EventsRoundTrip ==
  ASSUME NoBooleans, NothingReserved
  PROVE  Spec => []RoundTrip
<1>1. Inv /\ BuildInv => RoundTrip
  <2> SUFFICES ASSUME BuildInv, NEW e \in Sent, e.accepted
               PROVE  Faithful(e)
    BY DEF RoundTrip, Faithful
  <2>1. PICK t \in Threads : op[t].pc = "written" /\ e = op[t]
    BY DEF Sent
  <2>2. SentOK(e) /\ CallOK(e.call)
    BY <2>1 DEF BuildInv, Handling, CallOf
  <2> QED
    BY <2>2, EventDecodes DEF SentOK
<1> QED
  BY <1>1, BuildInvariance, PTL
=============================================================================
