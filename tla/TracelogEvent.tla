---------------------------- MODULE TracelogEvent ----------------------------
(***************************************************************************)
(* How TracelogSubscriber (win_etw_tracing/src/lib.rs) is configured while *)
(* it runs and how it turns a tracing event into an ETW event.             *)
(*                                                                         *)
(* The layer sits behind the lock of tracing_subscriber::reload            *)
(* (external): a handler runs with the lock held for reading, `modify`     *)
(* with the lock held for writing.  An event is written in steps, because  *)
(* the sessions, the configuration and other events move on between them.  *)
(* Keywords are sets of bits.  A field is [name, kind, value, len, nul]:   *)
(* `len` is the length of its text, `nul` whether there is a NUL in it.    *)
(* What the handlers read of a span and store in it is in TracelogSpans.   *)
(***************************************************************************)
EXTENDS EventMetadata, FiniteSets, SequencesExt

CONSTANTS
  Threads, None,
  TelemetryBits, \* the three MICROSOFT_KEYWORD bits
  OtherBits,     \* bits of ordinary keywords
  TraceKeywords, \* the keywords the program may set for TRACE events
  GlobalLists,   \* the global fields it may set: sequences of fields
  EventFields,   \* the fields of its events: sequences of fields
  SpanFields,    \* the attributes of its spans, logged when one opens
  DeferredFields, \* the values recorded on its spans, logged when one closes
  SpanNames,     \* the names of its spans
  Targets,       \* the lengths of targets
  NameSize,      \* the bytes of a field's name, with its terminator
  MaxEvent,      \* ETW (external): EventWriteEx refuses longer events
  EventLevels,   \* the tracing levels of its events
  SessionLevels, \* the levels sessions ask for
  LogFeature     \* the "tracing-log" feature

Bits == TelemetryBits \cup OtherBits

ASSUME EventAssumption ==
  /\ TelemetryBits \cap OtherBits = {}
  /\ \A k \in TraceKeywords : k \subseteq Bits
  /\ EventLevels \subseteq {"ERROR", "WARN", "INFO", "DEBUG", "TRACE"}
  /\ SessionLevels \subseteq 0..255
  /\ None \notin Threads
  /\ NameSize \in Nat \ {0}
  /\ MaxEvent \in Nat /\ MaxEvent < 65536  \* Windows: an event is less than 64 KB long

\* Fields of tracing.  A text with a NUL inside is made of what is before it,
\* the NUL, and a byte after it.
IsField(f) ==
  /\ f = [name |-> f.name, kind |-> f.kind, value |-> f.value, len |-> f.len, nul |-> f.nul]
  /\ f.kind \in {"str", "debug", "error", "i64", "u64", "bool"}
  /\ f.len \in Nat /\ f.nul \in BOOLEAN /\ (f.nul => f.len >= 2)

FieldLists == EventFields \cup SpanFields \cup DeferredFields

\* DeferredValues keeps what was shown with {:?} as a text.
ASSUME FieldAssumption ==
  /\ \A list \in GlobalLists \cup FieldLists :
       IsSequence(list) /\ \A i \in DOMAIN list : IsField(list[i])
  /\ \A list \in DeferredFields :
       \A i \in DOMAIN list : list[i].kind \in {"str", "i64", "u64", "bool"}
  /\ \A name \in SpanNames : name.len \in Nat
  /\ Targets \subseteq Nat /\ None \notin Nat

VARIABLES
  keyword_mask, trace_keyword, \* the layer's configuration ...
  global_fields,               \* ... and the encoded global fields
  configured,                  \* auxiliary: the global fields last asked for
  max_level,                   \* the provider's level
  readers, writer,             \* the reload lock
  op                           \* per thread, the call it is in

config == <<keyword_mask, trace_keyword>>
globals == <<global_fields, configured>>
vars == <<config, globals, max_level, readers, writer, op>>

Empty == [metadata |-> <<>>, data |-> <<>>]
Idle  == [pc |-> "idle"]

Init ==
  /\ keyword_mask = Bits /\ trace_keyword = {}
  /\ global_fields = Empty /\ configured = <<>>
  /\ max_level \in SessionLevels
  /\ readers = {} /\ writer = None
  /\ op = [t \in Threads |-> Idle]

-----------------------------------------------------------------------------
(* EventData: fields appended to the metadata and to the data.             *)

\* write_name skips the message and, with the feature, the log.* fields.
Skipped(name) == name = "message" \/ (LogFeature /\ name = "log.file")

With(data, field, in, out, items) ==
  IF Skipped(field.name) THEN data
  ELSE [metadata |-> data.metadata \o <<Name(field.name), in>> \o out,
        data     |-> data.data \o items]

InText == In("ANSI_STRING", {"CHAIN"})

\* The text of a value: as it is, as {:?} shows it, or an error and its
\* sources joined by ": ".
Rendered(field) ==
  CASE field.kind = "str"   -> <<field.value>>
    [] field.kind = "debug" -> <<"{:?}", field.value>>
    [] field.kind = "error" -> field.value

\* The bytes of the text and a terminator.  A NUL inside is copied as it is.
Terminated(v, field) ==
  IF field.nul THEN <<Text(<<"start of", v>>, field.len - 2), Nul, Text(<<"end of", v>>, 1), Nul>>
  ELSE <<Text(v, field.len), Nul>>

record_text(data, field) ==
  With(data, field, InText, <<Out(OutFlag.UTF8)>>, Terminated(Rendered(field), field))
record_i64(data, field) ==
  With(data, field, In("INT64", {}), <<>>, <<Num(8, field.value)>>)
record_u64(data, field) ==
  With(data, field, In("UINT64", {"CHAIN"}), <<Out(OutFlag.HEX)>>, <<Num(8, field.value)>>)
record_bool(data, field) ==
  With(data, field, In("UINT8", {}), <<Out(OutFlag.BOOLEAN)>>, <<Num(1, field.value)>>)

\* Visit for EventData.
record(data, field) ==
  CASE field.kind \in {"str", "debug", "error"} -> record_text(data, field)
    [] field.kind = "i64"  -> record_i64(data, field)
    [] field.kind = "u64"  -> record_u64(data, field)
    [] field.kind = "bool" -> record_bool(data, field)

record_global(data, g) == record_text(data, [g EXCEPT !.kind = "str"])

\* EventName: on_event makes the message, as record_debug shows it, the
\* event's name.
EventName(fields) ==
  LET at == SelectInSeq(fields, LAMBDA f : f.name = "message")
  IN  IF at = 0 THEN [v |-> <<>>, len |-> 0, nul |-> FALSE]
      ELSE [v |-> <<"{:?}", fields[at].value>>, len |-> fields[at].len, nul |-> fields[at].nul]

TargetMetadata(target) ==
  IF target = None THEN <<>>
  ELSE <<Name("target"), In("COUNTED_ANSI_STRING", {"CHAIN"}), Out(OutFlag.UTF8)>>

\* The length is cut to 16 bits, the text is not.
TargetData(target) ==
  CASE target = None -> <<>>
    [] target = 0    -> <<Count(0)>>
    [] OTHER         -> <<Count(u16(target)), Text("target", target)>>

\* The size, a byte for extensions, the name with its terminator, the fields.
AddToken(n, token) == n + (IF token.k = "name" THEN NameSize ELSE 1)
MetadataSize(name, metadata) == FoldLeft(AddToken, 2 + 1 + name.len + 1, metadata)

-----------------------------------------------------------------------------
(* The configuration, changed by `modify` with the lock held for writing.  *)

Goto(t, where) == op' = [op EXCEPT ![t] = where]

Modify(t) ==
  /\ op[t] = Idle /\ writer = None /\ readers = {}
  /\ writer' = t
  /\ Goto(t, [pc |-> "modifying"])
  /\ UNCHANGED <<config, globals, max_level, readers>>

Modified(t) ==
  /\ op[t].pc = "modifying"
  /\ writer' = None
  /\ Goto(t, Idle)
  /\ UNCHANGED <<config, globals, max_level, readers>>

\* Seeded fault: the bits are not complemented.
enable_telemetry_events_Inverted(t, enabled) ==
  /\ op[t].pc = "modifying"
  /\ keyword_mask' = IF enabled THEN Bits ELSE TelemetryBits
  /\ UNCHANGED <<trace_keyword, globals, max_level, readers, writer, op>>

enable_telemetry_events(t, enabled) ==
  /\ op[t].pc = "modifying"
  /\ keyword_mask' = IF enabled THEN Bits ELSE Bits \ TelemetryBits
  /\ UNCHANGED <<trace_keyword, globals, max_level, readers, writer, op>>

set_trace_keyword(t, keyword) ==
  /\ op[t].pc = "modifying"
  /\ trace_keyword' = keyword
  /\ UNCHANGED <<keyword_mask, globals, max_level, readers, writer, op>>

\* Seeded fault: the data is not cleared.
set_global_fields_KeepsData(t, list) ==
  /\ op[t].pc = "modifying"
  /\ global_fields' = [global_fields EXCEPT !.metadata = <<>>]
  /\ configured' = list
  /\ Goto(t, [pc |-> "setting", todo |-> list])
  /\ UNCHANGED <<config, max_level, readers, writer>>

\* set_global_fields clears both buffers, then appends field by field.
set_global_fields(t, list) ==
  /\ op[t].pc = "modifying"
  /\ global_fields' = Empty
  /\ configured' = list
  /\ Goto(t, [pc |-> "setting", todo |-> list])
  /\ UNCHANGED <<config, max_level, readers, writer>>

AddGlobal(t) ==
  /\ op[t].pc = "setting" /\ op[t].todo # <<>>
  /\ global_fields' = record_global(global_fields, Head(op[t].todo))
  /\ op' = [op EXCEPT ![t].todo = Tail(@)]
  /\ UNCHANGED <<config, configured, max_level, readers, writer>>

GlobalsSet(t) ==
  /\ op[t].pc = "setting" /\ op[t].todo = <<>>
  /\ Goto(t, [pc |-> "modifying"])
  /\ UNCHANGED <<config, globals, max_level, readers, writer>>

SessionChanges(level) ==
  /\ level # max_level
  /\ max_level' = level
  /\ UNCHANGED <<config, globals, readers, writer, op>>

-----------------------------------------------------------------------------
(* write_event.                                                            *)

EtwLevel(level) ==
  CASE level = "ERROR" -> 2
    [] level = "WARN"  -> 3
    [] level = "INFO"  -> 4
    [] level \in {"DEBUG", "TRACE"} -> 5

\* Seeded fault: the mask is not applied.
filter_keyword_Nothing(keyword) == keyword

filter_keyword(keyword) == keyword \cap keyword_mask

\* Seeded fault: the ETW level decides, which DEBUG and TRACE share.
KeywordFor_Verbose(level) == filter_keyword(IF EtwLevel(level) = 5 THEN trace_keyword ELSE {})

KeywordFor(level) == filter_keyword(IF level = "TRACE" THEN trace_keyword ELSE {})

\* A handler starts, with the lock held for reading.
write_event(t, opcode, level, target, name, fields) ==
  /\ op[t] = Idle /\ writer = None
  /\ readers' = readers \cup {t}
  /\ Goto(t, [pc |-> "checking", opcode |-> opcode, level |-> level, target |-> target,
              name |-> name, fields |-> fields, keyword |-> KeywordFor(level)])
  /\ UNCHANGED <<config, globals, max_level, writer>>

\* The events of a span have its name, a STOP has no target.
on_new_span(t, level, target, name, fields) ==
  write_event(t, "START", level, target, name, fields)
on_event(t, level, target, fields) ==
  write_event(t, "INFO", level, target, EventName(fields), fields)
on_close(t, level, name, fields) == write_event(t, "STOP", level, None, name, fields)

NotEnabled(t) ==
  /\ op[t].pc = "checking" /\ EtwLevel(op[t].level) > max_level
  /\ readers' = readers \ {t}
  /\ Goto(t, Idle)
  /\ UNCHANGED <<config, globals, max_level, writer>>

\* The global metadata and the global data are copied one after the other.
CopyMetadata(t) ==
  /\ op[t].pc = "checking" /\ EtwLevel(op[t].level) <= max_level
  /\ op' = [op EXCEPT ![t] = [pc |-> "building", call |-> @,
       metadata |-> TargetMetadata(@.target) \o global_fields.metadata]]
  /\ UNCHANGED <<config, globals, max_level, readers, writer>>

\* ETW (external) looks at the true lengths of what it is given.
EventWriteEx(name, metadata, payload) ==
  MetadataSize(name, metadata) + PayloadSize(payload) <= MaxEvent

Write(t) ==
  /\ op[t].pc = "building"
  /\ LET call    == op[t].call
         name    == call.name
         built   == FoldLeft(record, [metadata |-> op[t].metadata, data |-> global_fields.data],
                             call.fields)
         payload == TargetData(call.target) \o built.data
     IN  Goto(t, [pc |-> "written", call |-> call, globals |-> configured,
                  level |-> EtwLevel(call.level), keyword |-> call.keyword,
                  accepted |-> EventWriteEx(name, built.metadata, payload),
                  size |-> u16(MetadataSize(name, built.metadata)),
                  name |-> name, metadata |-> built.metadata, payload |-> payload])
  /\ UNCHANGED <<config, globals, max_level, readers, writer>>

Return(t) ==
  /\ op[t].pc = "written"
  /\ readers' = readers \ {t}
  /\ Goto(t, Idle)
  /\ UNCHANGED <<config, globals, max_level, writer>>

-----------------------------------------------------------------------------
Next ==
  \/ \E l \in SessionLevels : SessionChanges(l)
  \/ \E t \in Threads :
       \/ Modify(t) \/ Modified(t) \/ AddGlobal(t) \/ GlobalsSet(t)
       \/ \E enabled \in BOOLEAN : enable_telemetry_events(t, enabled)
       \/ \E keyword \in TraceKeywords : set_trace_keyword(t, keyword)
       \/ \E list \in GlobalLists : set_global_fields(t, list)
       \/ \E level \in EventLevels, target \in Targets, fields \in EventFields :
            on_event(t, level, target, fields)
       \/ \E level \in EventLevels, target \in Targets, name \in SpanNames, fields \in SpanFields :
            on_new_span(t, level, target, name, fields)
       \/ \E level \in EventLevels, name \in SpanNames, fields \in DeferredFields :
            on_close(t, level, name, fields)
       \/ NotEnabled(t) \/ CopyMetadata(t) \/ Write(t) \/ Return(t)

Spec == Init /\ [][Next]_vars

-----------------------------------------------------------------------------
(* Properties.                                                             *)

TypeOK ==
  /\ keyword_mask \in {Bits, Bits \ TelemetryBits} /\ trace_keyword \subseteq Bits
  /\ max_level \in SessionLevels
  /\ readers \subseteq Threads /\ writer \in Threads \cup {None}
  /\ \A t \in Threads :
       op[t].pc \in {"idle", "modifying", "setting", "checking", "building", "written"}

Shown(name, value, out) == [name |-> name, value |-> value, out |-> out]

\* What an event was asked to say: its target, the global fields and its
\* own fields.  The name of an INFO event tells its message, and tracing-log
\* has consumed its log.* fields; the name of a START or a STOP tells nothing
\* of the fields.
ShownField(f) ==
  Shown(f.name, IF f.kind \in {"str", "debug", "error"} THEN Rendered(f) ELSE f.value,
        CASE f.kind \in {"str", "debug", "error"} -> OutFlag.UTF8
          [] f.kind = "u64" -> OutFlag.HEX [] f.kind = "bool" -> OutFlag.BOOLEAN
          [] OTHER -> OutFlag.NULL)
ShownGlobal(g) == Shown(g.name, <<g.value>>, OutFlag.UTF8)
Kept(told, f)  == IF Skipped(f.name) THEN told ELSE Append(told, f)
Own(fields)    == FoldLeft(Kept, <<>>, fields)
Untold(call)   == IF call.opcode = "INFO" THEN Own(call.fields) ELSE call.fields
Each(Op(_), s) == [i \in DOMAIN s |-> Op(s[i])]

Expected(e) ==
  (CASE e.call.target = None -> <<>>
     [] e.call.target = 0    -> <<Shown("target", Nothing, OutFlag.UTF8)>>
     [] OTHER                -> <<Shown("target", "target", OutFlag.UTF8)>>)
    \o Each(ShownGlobal, e.globals) \o Each(ShownField, Untold(e.call))

\* The fields before the first text with a NUL inside.
Intact(e) ==
  LET texts == e.globals \o Untold(e.call)
      at    == SelectInSeq(texts, LAMBDA f : f.nul)
      n     == IF at = 0 THEN Len(texts) ELSE at - 1
  IN  IF e.call.target = None THEN n ELSE n + 1

Sent == {op[t] : t \in {u \in Threads : op[u].pc = "written"}}

\* A consumer that follows win_etw_metadata, and takes the count of a string
\* in bytes as write_event computes it for the target, decodes every event
\* ETW accepts to exactly the fields it was given, whatever the configuration
\* did meanwhile: names, types and values are appended to two buffers and
\* must stay in step, and of the lengths computed modulo 2^16 none is wrong
\* in an event short enough for ETW.  A text with a NUL inside spoils nothing
\* that comes before it.  (False of a span's or global field that write_name
\* skips: NothingReserved in TracelogEventProofs.)
RoundTrip ==
  \A e \in Sent : e.accepted /\ ~e.name.nul =>
    LET shown == Decode(e.metadata, e.payload)
        n     == Intact(e)
    IN  /\ e.size = MetadataSize(e.name, e.metadata)
        /\ IF n = Len(Expected(e)) THEN shown = Expected(e)
           ELSE SubSeq(shown, 1, n) = SubSeq(Expected(e), 1, n)

\* An event written while telemetry is off carries no telemetry keyword,
\* whatever keyword TRACE events were given and in whatever order.
OptOutHolds ==
  keyword_mask \cap TelemetryBits = {} =>
    \A e \in Sent : e.keyword \cap TelemetryBits = {}

\* The trace keyword is "used only for TRACE events", and tells them from
\* DEBUG events of the same ETW level.
KeywordMarksTrace ==
  \A e \in Sent : e.keyword # {} => e.call.level = "TRACE" /\ e.level = EtwLevel("DEBUG")
=============================================================================
