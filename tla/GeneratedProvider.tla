-------------------------- MODULE GeneratedProvider --------------------------
(***************************************************************************)
(* A provider made by #[trace_logging_provider] (win_etw_macros): the      *)
(* expansion of its trait, method by method, then the program that uses    *)
(* it -- a constructor, and calls of event methods with any arguments.     *)
(*                                                                         *)
(* A trait is [ident, args, methods]: its name, the arguments of the       *)
(* attribute, and its method declarations.  The metadata of an event is    *)
(* fixed when the trait is expanded, its payload is laid out at every      *)
(* call; a consumer only has the two.                                      *)
(***************************************************************************)
EXTENDS EventMetadata, EventAttributes, ProviderAttributes, FiniteSets, SequencesExt

CONSTANTS
  Traits,        \* the traits expanded
  Lengths,       \* lengths of texts and slices
  Uuids,         \* the GUIDs that callers pass
  OptionLevels,  \* what callers give as options.level: None, or a level
  Constructors,  \* the constructors the program uses: "new", "new_err", "null"
  MaxPayload     \* ETW (external): EventWriteEx refuses longer payloads

ASSUME GeneratedAssumption ==
  /\ Traits # {}
  /\ \A t \in Traits : Len(t.methods) \in Nat /\ Len(t.methods) < 65536  \* no index wraps
  /\ Lengths \subseteq Nat /\ Uuids \subseteq [1..16 -> 0..255]
  /\ None \notin Nat  \* no format is None
  /\ Constructors \subseteq {"new", "new_err", "null"}
  /\ MaxPayload \in Nat /\ MaxPayload < 65536  \* Windows: an event is less than 64 KB long

\* The shape of what the parser hands to the macro.
ASSUME SyntaxAssumption ==
  \A t \in Traits :
    /\ IsSequence(t.methods) /\ IsSequence(t.args)
    /\ t.ident.len \in Nat
    /\ \A arg \in ToSet(t.args) :
         /\ arg.kind = "guid" => arg.guid \in [1..16 -> 0..255] /\ arg.guid # None
         /\ arg.kind = "text" => arg.text.len \in Nat /\ arg.text # None
    /\ \A m \in ToSet(t.methods) :
         /\ IsSequence(m.params) /\ IsSequence(m.attrs)
         /\ \A p \in ToSet(m.params) : p.slice \in BOOLEAN /\ p.hex \in BOOLEAN
         /\ \A attr \in ToSet(m.attrs) :
              IsSequence(attr.metas) /\ \A meta \in ToSet(attr.metas) : meta.lit # None

VARIABLES
  trait,     \* the trait given to the macro
  phase,     \* "expanding", "rejected" by the compiler, "built", "running"
             \* or "panicked"
  expansion, \* the state of the expansion, and the events it generated
  provider,  \* the Option<EtwProvider> of the struct, None before and if null
  made,      \* the constructor call: its name, what EventRegister said, Ok or Err
  event      \* the event last accepted by ETW, or None

vars == <<trait, phase, expansion, provider, made, event>>

-----------------------------------------------------------------------------
(* well_known_types.rs.                                                    *)

Primitive(in)   == [in_type |-> in, in_expr |-> in, out_type |-> None, primitive |-> TRUE]
Word(in)        == [Primitive("NULL") EXCEPT !.in_expr = in]
Other(in, out)  == [in_type |-> in, in_expr |-> in, out_type |-> out, primitive |-> FALSE]

WellKnownTypes == [
  bool |-> [Primitive("UINT8") EXCEPT !.out_type = OutFlag.BOOLEAN],
  u8 |-> Primitive("UINT8"),   i8 |-> Primitive("INT8"),
  u16 |-> Primitive("UINT16"), i16 |-> Primitive("INT16"),
  u32 |-> Primitive("UINT32"), i32 |-> Primitive("INT32"),
  u64 |-> Primitive("UINT64"), i64 |-> Primitive("INT64"),
  f32 |-> Primitive("FLOAT"),  f64 |-> Primitive("DOUBLE"),
  usize |-> Word("UINT64"),    isize |-> Word("INT64"),  \* on a 64-bit target
  ref_str      |-> Other("COUNTED_ANSI_STRING", OutFlag.UTF8),
  u16str       |-> Other("COUNTED_UNICODE_STRING", None),
  u16cstr      |-> Other("COUNTED_UNICODE_STRING", None),
  osstr        |-> Other("COUNTED_UNICODE_STRING", None),
  guid         |-> Other("GUID", None),
  SocketAddrV4 |-> Other("BINARY", OutFlag.SOCKETADDRESS),
  SocketAddrV6 |-> Other("BINARY", OutFlag.SOCKETADDRESS),
  SocketAddr   |-> Other("BINARY", OutFlag.SOCKETADDRESS),
  SystemTime   |-> Other("FILETIME", None),
  FILETIME     |-> Other("FILETIME", None),
  HRESULT      |-> Other("INT32", OutFlag.HRESULT),
  WIN32ERROR   |-> Other("UINT32", OutFlag.WIN32ERROR),
  NTSTATUS     |-> Other("UINT32", OutFlag.NTSTATUS)]

Texts   == {"ref_str", "u16str", "u16cstr", "osstr"}
Sockets == [SocketAddrV4 |-> {16}, SocketAddrV6 |-> {28}, SocketAddr |-> {16, 28}]

-----------------------------------------------------------------------------
(* parse_event_field, at expansion.  A parameter is [name, ty, slice, hex]. *)

Unsupported(p) ==
  \/ p.ty \notin DOMAIN WellKnownTypes
  \/ p.slice /\ ~WellKnownTypes[p.ty].primitive

\* a | OutFlag::HEX
OrHex(a) == IF (a \div 4) % 2 = 1 THEN a ELSE a + 4

\* The format of a slice's elements is not looked up.
OutType(p) ==
  LET natural == IF p.slice THEN None ELSE WellKnownTypes[p.ty].out_type
  IN  CASE ~p.hex -> natural
        [] p.hex /\ natural = None -> OutFlag.HEX
        [] OTHER -> OrHex(natural)

FieldMetadata(p) ==
  LET t     == WellKnownTypes[p.ty]
      type  == IF p.slice THEN t.in_type ELSE t.in_expr
      flags == IF p.slice THEN {"VCOUNT"} ELSE {}
  IN  IF OutType(p) = None
      THEN <<Name(p.name), In(type, flags)>>
      ELSE <<Name(p.name), In(type, flags \cup {"CHAIN"}), Out(OutType(p))>>

-----------------------------------------------------------------------------
(* The code parse_event_field generates for a call.  A value is [v, len,   *)
(* ok]: its content, its length in units, and whether it converts.  A GUID *)
(* has its text for content, and `from`, the way the program came by it.   *)

\* No bytes at all for a text or an array of length 0.
Bytes(item) == IF item.len = 0 THEN <<>> ELSE <<item>>

\* A slice is cut to 0xffff elements, so its count is exact.
SliceData(p, x) ==
  LET n == IF x.len > 65535 THEN 65535 ELSE x.len
  IN  <<Count(n)>> \o Bytes(Items(x.v, Width[WellKnownTypes[p.ty].in_expr], n))

\* Seeded fault: wide strings are counted as given, converted or not.
CountOf_Early(ty, x) == IF ty = "ref_str" THEN u16(x.len) ELSE u16(u16(x.len) * 2)

\* "compute length in bytes": not the units that InFlag asks for.
CountOf(ty, x) ==
  CASE ty = "ref_str" -> u16(x.len)
    [] ty \in {"u16str", "u16cstr"} -> IF x.len * 2 > 65535 THEN 65535 ELSE x.len * 2
    [] ty = "osstr" -> IF x.ok THEN u16(u16(x.len) * 2) ELSE 0

UnitSize(ty) == IF ty = "ref_str" THEN 1 ELSE 2

TextData(p, x) ==
  <<Count(CountOf(p.ty, x))>>
    \o (IF x.ok THEN Bytes(Text(x.v, x.len * UnitSize(p.ty))) ELSE <<>>)

\* A time before 1970 gets an empty descriptor.
TimeData(x) == IF x.ok THEN <<Num(8, x.v)>> ELSE <<>>

\* A GUID is handed to ETW as it lies in memory.
GuidData(x) ==
  LET g == CASE x.from = "literal" -> uuid_to_expr(x.v)
             [] x.from = "uuid"    -> FromUuid(x.v)
             [] x.from = "printed" -> TryFromText(Display(FromUuid(x.v)))
             [] x.from = "windows" -> FromWindows(FromUuid(x.v))
  IN  <<Num(16, Memory(g))>>

FieldData(p, x) ==
  CASE p.slice                          -> SliceData(p, x)
    [] ~p.slice /\ p.ty \in Texts          -> TextData(p, x)
    [] ~p.slice /\ p.ty \in DOMAIN Sockets -> <<Count(x.len), Text(x.v, x.len)>>
    [] ~p.slice /\ p.ty = "SystemTime"     -> TimeData(x)
    [] ~p.slice /\ p.ty = "guid"           -> GuidData(x)
    [] OTHER -> <<Num(Width[WellKnownTypes[p.ty].in_expr], x.v)>>

\* `len as u16 * 2` overflows: a build with overflow checks panics.
MayPanic(p, x) == p.ty = "osstr" /\ x.ok /\ u16(x.len) * 2 > 65535

\* The values a parameter can have; the content is told by the parameter, of
\* a GUID by its bytes.
Values(p) ==
  CASE p.slice -> [v : {p.name}, len : Lengths, ok : {TRUE}]
    [] ~p.slice /\ p.ty = "osstr" ->
         {x \in [v : {p.name}, len : Lengths, ok : BOOLEAN] : x.ok \/ x.len > 0}
    [] ~p.slice /\ p.ty \in Texts \ {"osstr"} -> [v : {p.name}, len : Lengths, ok : {TRUE}]
    [] ~p.slice /\ p.ty \in DOMAIN Sockets -> [v : {p.name}, len : Sockets[p.ty], ok : {TRUE}]
    [] ~p.slice /\ p.ty = "SystemTime" -> [v : {p.name}, len : {1}, ok : BOOLEAN]
    [] ~p.slice /\ p.ty = "guid" ->
         [v : Uuids, len : {1}, ok : {TRUE}, from : {"literal", "uuid", "printed", "windows"}]
    [] OTHER -> [v : {p.name}, len : {1}, ok : {TRUE}]

Concat(Op(_), s) == FlattenSeq([i \in DOMAIN s |-> Op(i)])

Payload(params, args) == Concat(LAMBDA i : FieldData(params[i], args[i]), params)

-----------------------------------------------------------------------------
(* trace_logging_events_core: the loop over the methods.  A method is      *)
(* [attrs, params, malformed, oversized]: its attributes, its parameters,  *)
(* whether its signature is rejected, whether its metadata exceeds 0xffff  *)
(* bytes.                                                                  *)

FieldErrors(m) ==
  (IF m.malformed THEN {"signature"} ELSE {})
    \cup (IF \E i \in DOMAIN m.params : Unsupported(m.params[i]) THEN {"type"} ELSE {})

AutoIds(b, id) == IF b.index = 0 THEN id = None ELSE b.event_ids_auto_generated

\* Seeded fault: explicit and generated ids may be mixed.
IdErrors_Mixed(b, id) == IF id \in b.event_id_mappings THEN {"duplicate id"} ELSE {}

IdErrors(b, id) ==
  (IF AutoIds(b, id) # (id = None) THEN {"mixed ids"} ELSE {})
    \cup (IF id \in b.event_id_mappings THEN {"duplicate id"} ELSE {})

\* Fields of an unsupported type leave an error, and no metadata that matters.
EventMetadataOf(m) ==
  IF FieldErrors(m) = {} THEN Concat(LAMBDA i : FieldMetadata(m.params[i]), m.params) ELSE <<>>

GeneratedEvent(b, m, a) ==
  [id |-> IF a.event_id = None THEN b.index ELSE a.event_id, attrs |-> a,
   params |-> m.params, metadata |-> EventMetadataOf(m)]

\* A method whose metadata is too large is given up on the spot.
TooLarge(b, m) ==
  [b EXCEPT !.index = u16(@ + 1), !.errors = @ \cup FieldErrors(m) \cup {"too large"}]

\* Seeded fault: the first event's choice is not remembered.
ExpandedWith_Forgets(b, m, a) ==
  [b EXCEPT
     !.index = u16(@ + 1),
     !.event_id_mappings = IF a.event_id = None THEN @ ELSE @ \cup {a.event_id},
     !.errors = @ \cup FieldErrors(m) \cup a.errors \cup IdErrors(b, a.event_id),
     !.events = Append(@, GeneratedEvent(b, m, a))]

ExpandedWith(b, m, a) ==
  [b EXCEPT
     !.index = u16(@ + 1),
     !.event_ids_auto_generated = AutoIds(b, a.event_id),
     !.event_id_mappings = IF a.event_id = None THEN @ ELSE @ \cup {a.event_id},
     !.errors = @ \cup FieldErrors(m) \cup a.errors \cup IdErrors(b, a.event_id),
     !.events = Append(@, GeneratedEvent(b, m, a))]

Expanded(b, m) ==
  IF m.oversized THEN TooLarge(b, m) ELSE ExpandedWith(b, m, parse_event_attributes(m.attrs))

-----------------------------------------------------------------------------
(* The identity of the provider.                                           *)

Attributes    == parse(trait.args)
provider_name == IF Attributes.provider_name = None THEN trait.ident ELSE Attributes.provider_name

\* SHA-1 of the namespace and the name in capitals (external): 20 bytes.
Sha1(name) == [i \in 1..20 |-> (name.len + 11 * i) % 256]

PROVIDER_GUID ==
  uuid_to_expr(IF Attributes.uuid = None THEN etw_event_source_guid(Sha1(provider_name))
               ELSE Attributes.uuid)

PROVIDER_METADATA == create_provider_metadata(provider_name)
PROVIDER_TRAITS   ==
  create_register_provider_traits(provider_name, Attributes.provider_group_guid)

-----------------------------------------------------------------------------
Init ==
  /\ trait \in Traits
  /\ phase = "expanding"
  /\ expansion = [index |-> 0, event_ids_auto_generated |-> TRUE, event_id_mappings |-> {},
                  errors |-> Attributes.errors
                    \cup (IF NameTooLong(provider_name) THEN {"name"} ELSE {}),
                  events |-> <<>>]
  /\ provider = None /\ made = None /\ event = None

Expand ==
  /\ phase = "expanding" /\ expansion.index < Len(trait.methods)
  /\ expansion' = Expanded(expansion, trait.methods[expansion.index + 1])
  /\ UNCHANGED <<trait, phase, provider, made, event>>

\* The generated items and the errors are emitted together; rustc then looks
\* at the literals.
Compile ==
  /\ phase = "expanding" /\ expansion.index = Len(trait.methods)
  /\ phase' = IF /\ expansion.errors = {}
                 /\ \A i \in DOMAIN expansion.events : WellTyped(expansion.events[i].attrs)
              THEN "built" ELSE "rejected"
  /\ UNCHANGED <<trait, expansion, provider, made, event>>

Construct(how, registered, result, option) ==
  /\ phase = "built" /\ how \in Constructors
  /\ phase' = "running"
  /\ made' = [how |-> how, registered |-> registered, result |-> result]
  /\ provider' = option
  /\ UNCHANGED <<trait, expansion, event>>

\* The registration: the id ETW reads, the traits asked for, those it took.
Registered(asked, taken) ==
  [id |-> Memory(PROVIDER_GUID), asked |-> asked, traits |-> IF taken THEN asked ELSE None]

\* ETW may refuse the traits, for its own reasons or because they are not
\* well formed; the generated code ignores that.
new(registered) ==
  \E taken \in {FALSE, TakesTraits(PROVIDER_TRAITS)} :
    Construct("new", registered, "Ok",
              IF registered THEN Registered(PROVIDER_TRAITS, taken) ELSE None)
new_err(registered) ==
  Construct("new_err", registered, IF registered THEN "Ok" ELSE "Err",
            IF registered THEN Registered(None, FALSE) ELSE None)
null == Construct("null", FALSE, "Ok", None)

\* The level of the options replaces the event's: once in the event method,
\* and again in EtwProvider::write.
WithLevel(d, level) == IF level = None THEN d ELSE [d EXCEPT !.level = level]

\* A call of the i-th event method, up to EventWriteEx.  A null provider
\* discards the event.
Call(i, args, level) ==
  LET e       == expansion.events[i]
      payload == Payload(e.params, args)
  IN  /\ phase = "running" /\ made.result = "Ok"
      /\ IF provider # None /\ PayloadSize(payload) <= MaxPayload
         THEN event' = [of |-> i, args |-> args, options_level |-> level,
                        descriptor |-> WithLevel(WithLevel(EventDescriptor(e.attrs, e.id), level), level),
                        provider |-> PROVIDER_METADATA,
                        metadata |-> e.metadata, payload |-> payload]
         ELSE UNCHANGED event
      /\ UNCHANGED <<trait, phase, expansion, provider, made>>

CallPanics(i, args) ==
  /\ phase = "running" /\ made.result = "Ok"
  /\ \E j \in DOMAIN args : MayPanic(expansion.events[i].params[j], args[j])
  /\ phase' = "panicked"
  /\ UNCHANGED <<trait, expansion, provider, made, event>>

Arguments(params) ==
  {args \in [DOMAIN params -> UNION {Values(params[j]) : j \in DOMAIN params}] :
     \A j \in DOMAIN params : args[j] \in Values(params[j])}

Next ==
  \/ Expand
  \/ Compile
  \/ \E registered \in BOOLEAN : new(registered) \/ new_err(registered)
  \/ null
  \/ \E i \in DOMAIN expansion.events : \E args \in Arguments(expansion.events[i].params) :
       CallPanics(i, args) \/ \E level \in OptionLevels : Call(i, args, level)

Spec == Init /\ [][Next]_vars

-----------------------------------------------------------------------------
(* Properties.                                                             *)

TypeOK ==
  /\ phase \in {"expanding", "rejected", "built", "running", "panicked"}
  /\ expansion.index \in 0..Len(trait.methods)
  /\ Len(expansion.events) <= expansion.index
  /\ expansion.errors \subseteq {"signature", "type", "mixed ids", "duplicate id", "too large",
                            "attribute", "provider attribute", "name"}
  /\ expansion.event_id_mappings = {} \/ ~expansion.event_ids_auto_generated
       \/ expansion.errors # {}
  /\ provider # None => provider.traits \in {None, provider.asked}
  /\ event # None => event.of \in DOMAIN expansion.events

\* "All event types declared on a specific event provider must have unique
\* event IDs", given for all events or for none: whatever the mix of explicit
\* and generated ids, a trait that compiles has an event for every method,
\* and no two with one id.
EventIdsAreUnique ==
  phase \in {"built", "running"} =>
    /\ Len(expansion.events) = Len(trait.methods)
    /\ \A i, j \in DOMAIN expansion.events :
         expansion.events[i].id = expansion.events[j].id => i = j

\* What a parameter is declared to look like to a consumer.
Displayed(p) ==
  CASE p.hex -> OutFlag.HEX
    [] ~p.hex /\ p.slice -> OutFlag.NULL
    [] ~p.hex /\ ~p.slice /\ p.ty = "bool" -> OutFlag.BOOLEAN
    [] ~p.hex /\ p.ty = "ref_str" -> OutFlag.UTF8
    [] ~p.hex /\ p.ty \in DOMAIN Sockets -> OutFlag.SOCKETADDRESS
    [] ~p.hex /\ p.ty \in {"HRESULT", "WIN32ERROR", "NTSTATUS"} -> OutFlag[p.ty]
    [] OTHER -> OutFlag.NULL

Shown(p, x) ==
  [name |-> p.name, out |-> Displayed(p),
   value |-> IF x.len = 0 \/ (p.ty = "osstr" /\ ~x.ok) THEN Nothing ELSE x.v]

\* What the format can tell: slices of usize and isize have no element type
\* in the metadata, and "hex" is a format of its own only for types that do
\* not have one already.
Decodable(p) ==
  /\ p.slice => p.ty \notin {"usize", "isize"}
  /\ p.hex => p.slice \/ WellKnownTypes[p.ty].out_type = None
DecodableTrait(t) == \A m \in ToSet(t.methods) : \A p \in ToSet(m.params) : Decodable(p)

\* To a consumer that takes the count of a string in bytes, as the macro
\* computes it (see EventMetadata on what the comments of InFlag say), every
\* event ETW accepts decodes to the parameters of its method, by name
\* and display format, with the arguments of the call; if one of them is a
\* time before 1970, the parameters before it do.  The counts are computed
\* modulo 2^16; that the events they would garble are too long for ETW is
\* what makes this true.  &[bool] is included, one byte for each element,
\* because the code accepts it, although the docs of the macro (lib.rs:112)
\* and of EventDataDescriptor (lines 14-15) say that it is not supported.
RoundTrip ==
  event # None =>
    LET params == expansion.events[event.of].params
        early  == SelectInSeq([i \in DOMAIN params |-> <<params[i], event.args[i]>>],
                              LAMBDA x : x[1].ty = "SystemTime" /\ ~x[2].ok)
        given  == [i \in DOMAIN params |-> Shown(params[i], event.args[i])]
        shown  == Decode(event.metadata, event.payload)
    IN  IF early = 0 THEN shown = given
        ELSE SubSeq(shown, 1, early - 1) = SubSeq(given, 1, early - 1)

\* Every event written has the level, opcode, task and keyword that its
\* #[event] attributes -- one or several, in any order -- say last, the level
\* of the caller's options instead if there is one, and the defaults where
\* the attributes say nothing.
EventMetas(attrs) ==
  FlattenSeq([k \in DOMAIN attrs |-> IF attrs[k].path = "event" THEN attrs[k].metas ELSE <<>>])
Said(key, default) ==
  LET metas == EventMetas(trait.methods[event.of].attrs)
      about == {k \in DOMAIN metas : metas[k].key = key}
  IN  IF about = {} THEN default ELSE metas[Max(about)].lit
LevelSaid ==
  IF event.options_level # None THEN event.options_level
  ELSE LET lit == Said("level", StrLit("verbose"))
       IN  IF lit.kind = "str" THEN LevelNames[lit.text] ELSE lit.v
DescriptorAsDeclared ==
  event # None =>
    /\ event.descriptor.level   = LevelSaid
    /\ event.descriptor.opcode  = Said("opcode", IntLit(0)).v
    /\ event.descriptor.task    = Said("task", IntLit(0)).v
    /\ event.descriptor.keyword = Said("keyword", IntLit(0)).v

\* ETW knows a provider by what its declaration says, whatever byte orders
\* lie between: by the GUID of the attribute or, without one, the GUID that
\* .NET's EventSource makes of the name ("the same algorithm"); its traits,
\* if ETW took them, and its events carry its name, and the traits the GUID
\* of its group.
Declared(key, default) ==
  LET about == {i \in DOMAIN trait.args : trait.args[i].key = key}
      first == trait.args[Min(about)]
  IN  IF about = {} THEN default ELSE IF key = "name" THEN first.text ELSE first.guid
\* .NET: the first 16 bytes of the hash, version 5 in the eighth, are the
\* memory of the Guid.
EventSourceGuid(hash) == [SubSeq(hash, 1, 16) EXCEPT ![8] = (@ % 16) + 80]
IdentityAsDeclared ==
  LET name  == Declared("name", trait.ident)
      group == Declared("provider_group_guid", None)
  IN  /\ provider # None =>
           provider.id = IF Declared("guid", None) = None THEN EventSourceGuid(Sha1(name))
                         ELSE SwapFields(Declared("guid", None))
      /\ provider # None /\ provider.traits # None =>
           LET taken == provider.traits
           IN  /\ taken.name = name
               /\ IF group = None THEN taken.group = None
                  ELSE TextOf(taken.group.guid) = group
               /\ SizeOf(taken.size) = 2 + name.len + 1 + (IF group = None THEN 0 ELSE 19)
      /\ event # None =>
           event.provider.name = name /\ SizeOf(event.provider.size) = 2 + name.len + 1

\* "A provider group can be enabled or disabled as a unit.  To do so, specify
\* the GUID of the provider group when declaring the ETW provider": every
\* registered provider has asked ETW for the group it declares.
ProvidersJoinTheirGroup ==
  provider # None /\ Declared("provider_group_guid", None) # None => provider.asked # None
=============================================================================
