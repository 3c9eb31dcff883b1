# A TLA+ model of rust_win_etw

The repository lets Rust programs log structured events to Event Tracing for
Windows (ETW). This directory holds TLA+ modules translated from its source, the
TLC configurations that check them on small instances, and proofs that the TLA+
proof system (TLAPS) checks for every value of the constants.

Paths below are relative to `src/`. "ETW", `tracing-subscriber` and the Rust
runtime are not in the repository: they are modelled from how its code uses them,
and every such definition is marked external in `PROJECT.json`.

## 1. Inventory

### 1.1 Parts

| Part | Source | State | Operations |
|---|---|---|---|
| ETW provider | `win_etw_provider/src/provider.rs` | registration handle; `Box<StableProviderData>` with the atomic `max_level` | `new`, `register_provider_metadata`, `set_provider_traits`, `is_event_enabled`, `write`, `Drop`; `enable_callback`, run by ETW |
| Activity scopes | same file, 313-323 and 439-508 | the thread's activity id (kept by ETW), a `RestoreActivityHolder` per call | `with_activity`, `new_activity_id` |
| Tracing layer, spans | `win_etw_tracing/src/lib.rs` | per span, the extensions `ActivityId` and `DeferredValues` | `on_new_span`, `on_record`, `on_event`, `on_close` |
| Tracing layer, events | same file | `keyword_mask`, `trace_keyword`, two buffers of encoded global fields | `enable_telemetry_events`, `set_trace_keyword`, `set_global_fields`, `write_event` |
| Event format | `win_etw_metadata/src/lib.rs` | none | the InFlag and OutFlag bytes |
| Provider macro | `win_etw_macros/src/lib.rs`, `well_known_types.rs` | the expansion: event index, ids taken, errors, generated events; then the generated struct's `Option<EtwProvider>` | expansion of a trait; generated `new`, `new_err`, `null`, event methods |
| Data descriptors, types | `win_etw_provider/src/data_descriptor.rs`, `types.rs` | none | the bytes a value contributes |
| Logger | `win_etw_logger/src/lib.rs` | two atomic flags over one generated provider | `log`, `enabled`, the setters |
| GUID | `win_etw_provider/src/guid.rs`, the ends of the macro | none | text, `Uuid`, struct, memory, `windows_sys`, name-based |
| Crate roots, examples | `win_etw_provider/src/lib.rs`, `examples` | none | re-exports, samples |

### 1.2 How they interact

* ETW calls `enable_callback` on threads of its own with a raw pointer to the
  boxed `StableProviderData`, from before `EventRegister` returns until
  `EventUnregister` does. It shares only the atomic `max_level` with the
  program's threads.
* The generated event methods and the tracing layer own an `EtwProvider` and share
  it (`Send + Sync`). The layer asks `is_event_enabled` first and then writes;
  the generated event methods write at once.
* `tracing-subscriber`'s registry counts the references to a span and calls
  `on_close` on the thread that gives up the last. The handlers meet in the
  span's extensions, a type map under a read-write lock. The configuration of
  the layer changes under the lock of `reload`.
* The logger is a generated provider with two settings read one after the other in
  `log`. Its `enabled` asks the same level cache that callers of `*_is_enabled` ask.
* The macro fixes the metadata of an event when the trait is expanded; the payload is
  laid out at every call. The layer builds both at run time, from target, global
  and own fields. A consumer has the two byte strings and nothing else.

### 1.3 What is hard, and what makes each part correct

* **Provider.** Memory: no callback and no writer may outlive the box or the
  handle. Cache: whatever the interleaving of control changes, callbacks and
  registration, `max_level` may differ from the sessions only by notices still on
  their way. The end of `Drop` depends on the callbacks in flight.
* **Activity scopes.** Nested calls, a `CREATE_SET_ID` that fails in the middle,
  panics caught at any depth: the thread must come out with the id it had.
* **Spans.** The last handle is dropped on any thread, parents and children in any
  order, sessions start and stop between START and STOP, several threads record on
  one span. Events must nest, carry one activity, and a STOP must carry the last
  value of every field. Handlers unwrap what a filter or a late layer may not have
  put there.
* **Events.** Metadata and payload are two buffers filled by different code; one
  byte too few or too many garbles every field that follows, and three lengths are
  cut to 16 bits. Configuration changes arrive in the middle. The telemetry opt-out
  must hold.
* **Macro.** The same for 26 types with three different ways of cutting a length to
  16 bits; ids must be unique or the trait rejected, whatever is mixed; the
  descriptor must be what several attributes say together; a GUID passes five byte
  orders before ETW reads it.
* **Logger.** The settings are about privacy, change while other threads log, and are
  read apart from each other; `enabled` answers before the event is written.

`PROJECT.json` lists these as hazards, each at its line with the properties
that cover it, or with a note saying why none does.

## 2. Modules

| Module | What it is |
|---|---|
| `LevelFeed` | abstract: a cached level that takes every announced level, in order and late |
| `EtwProvider` | one provider, the threads that share it, and ETW's side of it; implements `LevelFeed` |
| `DynamicScope` | abstract: a chain of activity ids per thread |
| `ActivityScope` | `with_activity` with its holders, failures and panics; implements `DynamicScope` |
| `DeferredValues` | `DeferredValues::update`, and what a reader expects of a history of records |
| `SpanLog` | abstract: atomic operations on spans and the log they leave |
| `TracelogSpans` | the handlers of the layer over the registry, a filter and `reload`; implements `SpanLog` |
| `EventMetadata` | the event format, its sizes, and a decoder that knows only the format |
| `TracelogEvent` | configuration of the layer and `write_event` |
| `Guids` | the forms of a GUID and the conversions between them |
| `Options` | `None`, Rust's `Option` without a value |
| `EventAttributes` | `#[event(...)]` and the event descriptor |
| `ProviderAttributes` | the arguments of the provider, its metadata and traits |
| `GeneratedProvider` | expansion of a trait and calls of its event methods, on the four before |
| `TraceLogger` | the logger, composed with `LevelFeed` |
| `...Proofs` | theorems about the module of that name (seven of them) |
| `FoldTheorems` | lemmas about folds over sequences, for the modules that prove about one |
| `MC...` | instances for TLC |

Operators named `Something_Fault` after a "Seeded fault" comment are wrong
versions of the operator that follows them. Nothing uses them; putting one in the
place of its operator makes the property named with it in `PROJECT.json`
("mutants") fail, which is how each property is known to depend on the code it is
about.

### 2.1 EtwProvider, LevelFeed

| Code | Model |
|---|---|
| locals of `new`, then `self`, then `drop` | `phase` |
| `Box<StableProviderData>` | `stable`, `max_level` |
| `EventRegister` | `New` (call), `Publish` (ETW makes the registration visible and reports a session that is already on), `NewOk`/`NewErr` (return) |
| `register_provider_metadata`, `set_provider_traits` | actions of those names; ETW may accept or refuse |
| `Drop` | `DropBegin` (calls `EventUnregister`), `DropEnd` (it returned; the box is dropped) |
| `&self` of a caller | `client[t]`, from `Borrow` to `Return`; `&mut self` is `Exclusive` |
| `is_event_enabled`, `is_enabled`, then `write` | the answer is kept in `client[t]`; sessions and cache move on before `write` |
| `enable_callback` | `CallbackBegin` (ETW enters it) and `enable_callback` (the store, and the return) |
| control changes | `Enable`, `Disable`, `Notify` append to `notices` |

The level of the sessions is a number that ETW passes along, and a session collects the
events whose level is not above it; a session enabled with level 0 is no exception.
That callbacks of one registration run one at a time, and that a DISABLE carries level 0,
are assumptions about ETW (`Serial`, `DisableLevels`).

The refinement mapping to `LevelFeed` takes the levels of the ENABLE and DISABLE notices
for what was announced, and those whose callback has returned for what was applied.
`TraceLogger` uses `LevelFeed` in the place of a whole provider.

An instance of the provider is created once; another provider has its own box and
registration and shares nothing with it.

### 2.2 ActivityScope, DynamicScope

A frame of `frames[t]` is a call of `with_activity` with its holder; `EnterFailed`
is a `CREATE_SET_ID` that fails (the holder keeps `None` and the function runs all
the same); `Panic` and `Unwind` drop the frames one by one until some caller
catches. `entry` is auxiliary: the id in force at each call. The refinement
mapping is the chain of those ids with the current one last.

### 2.3 TracelogSpans, SpanLog, DeferredValues

| Code | Model |
|---|---|
| `extensions()` / `extensions_mut()` | `readers` / `writer`; `on_record` holds the write lock over `Record::record` (`RecordBegin`, `RecordField`..., `RecordEnd`), `on_close` holds a read lock until it returns |
| `ActivityId`, `DeferredValues` extensions | `activity`, `deferred` |
| `write_event` | `Skip` (not enabled), or `Build` and later `Write`: sessions may change in between |
| an `unwrap` that fails | the thread's `op` is `Panicked` |
| registry | `NewSpan`, `Share`, `Enter`, `Exit`, `DropHandle`; `GiveUp` makes the thread that drops the last reference close the span, `Clear` then gives up the parent's |
| a filter of the layer | `seen[s]` is `"hidden"`: the handlers do not run for the span (`CloseUnseen`) and `ctx.span()` does not find it |
| `reload` from `None` to `Some` | `Attach`; spans created before are `"early"` |

`SpanLog` has four atomic operations: open, record, happen, close. In the
mapping a span opens when its START is written or skipped, closes when its STOP is,
and a record takes effect as a whole when it obtains the lock, so a child may not
open in a closed parent and a STOP holds the complete summary.

`steady` is auxiliary: the spans created since the sessions last changed, for which the
log must have both START and STOP or neither.

### 2.4 EventMetadata, TracelogEvent

Metadata is a sequence of tokens (name, InFlag with its flags, OutFlag), a payload
a sequence of items with widths and lengths, so that a missing flag, a missing
item, a wrong width or a wrong count shows as it would in bytes. `Decode` is
written from `win_etw_metadata`: an OutFlag byte that no CHAIN flag announces
is read as the first letter of the next name; an item no field describes garbles
the event; a text with a NUL ends there. On two points it follows the producers
and not the comments of that file (section 6): the counts of both counted string types,
`COUNTED_UNICODE_STRING` and `COUNTED_ANSI_STRING`, are taken in bytes, where the
comments say WCHAR units, and a GUID is taken as the struct lies in memory, where they say
big-endian. So `RoundTrip` is a statement about consumers that do the same, of both
producers: of the target of every event of the layer, and of every `&str`, `U16Str`,
`U16CStr` and `OsStr` of a generated event. Of a consumer that takes the two comments at
their word nothing is shown; it would read past every such text that is not empty.

`TracelogEvent` takes `modify` of the reload handle as a section under the lock
(`Modify` ... `Modified`) in which any setters run; `set_global_fields` is a step per
field. The handlers `on_new_span`, `on_event` and `on_close` differ in what they hand to
`write_event`: the opcode, whether there is a target, the name and the fields. An INFO event
is named by its message, as `EventName` writes it; START and STOP have the name of the
span. `write_event` takes the keyword; `NotEnabled`, or `CopyMetadata` and `Write`, and
`Return` are the rest of it. `write_name` skips the same fields in all three events, so a
span's field called `message` is told by nothing: `Expected` asks for it (`Untold`), and
`RoundTrip` holds only of spans that have no such field (section 6).

Keywords are sets of bits. A field has a length, and a text may have a NUL in it. The size of the metadata and the length of the target are cut to 16 bits as in the
code; ETW accepts an event by its true size (`EventWriteEx`).

### 2.5 GeneratedProvider, EventAttributes, ProviderAttributes, Guids

`GeneratedProvider` first expands the methods of `trait` in order (`Expand`,
`Compile`), then calls a constructor, then event methods with any arguments and any
`options.level`. Lengths are numbers and the 16-bit arithmetic is done as in the code:
`as u16` (`&str`), `min(.., 65535)` after doubling (`U16Str`, `U16CStr`), `as u16 * 2`
(`OsStr`, which panics on overflow in a build with overflow checks and wraps
otherwise; both happen in the model), `min(len, 65535)` (slices).

`parse_event_attributes` reads the metas of all attributes of a method one by one, an
error giving up the rest of its attribute; literals that do not fit their field are
left to the compiler (`WellTyped`). `ProviderAttributes` makes the provider metadata and
the traits as sized blobs, the size wrapped to 16 bits as in the code; ETW takes traits
only if their size is right.

A `Uuid` is its 16 bytes; the struct `GUID` has the bytes of each field, most significant
first; `Memory` is what ETW reads through a pointer on a little-endian machine.

### 2.6 TraceLogger

`log` is five steps: `LogBegin`, `ReadModulePath`, `ReadFilePath` (each reads its flag
once; file and line depend on the same read), the formatting of the message during which
anything happens, and `log`, which hands the event over with the level as an option.
`during` is auxiliary: the values each flag had since the call began.

## 3. Runs

| Run | Question | Instance |
|---|---|---|
| `provider` | memory safety, level cache, both answers, refinement of `LevelFeed`, end of drop | 2 threads, levels 0..2, 3 notices, callbacks one at a time |
| `activity` | does `with_activity` implement dynamic scoping | 2 threads, 3 ids, depth 3 |
| `spans` | do the handlers implement `SpanLog`, return, and never panic, where no parent of a visible span is hidden and no layer is attached while a span is alive (with either a handler panics: section 6) | 2 threads and one of four scenarios (`Scenarios`): parent and child with a record; parent and child that the filter may hide, but not the parent alone, or that come and go before the layer is attached; one span with two calls of record of two fields and an event; one that the layer may not see, with an event |
| `events` | does every INFO, START and STOP that ETW accepts decode to its fields, with the right keyword, for a consumer that counts strings in bytes | 2 threads, lists of every kind of field but bool, two global lists, two targets or none, one span name, 3 levels; sizes of exactly 65535 and 65536 bytes; no field of a span and no global field named `message` or `log.*` |
| `generated` | ids, descriptors and identity as declared; does every event decode to its arguments, for a consumer that counts strings in bytes | every pair of parameters out of 48 (types, slices, hex) with lengths at the edges of 16 bits; every trait of up to 3 methods out of 12 kinds of declaration; up to 3 metas in one or two attributes; up to 3 arguments of the provider; two GUIDs, in the four forms a program can have them in |
| `logger` | do events follow the settings, and does `enabled` foretell | 2 threads, 2 records, levels {0, 2, 5}, 2 changes of the sessions |
| `provider_level_zero`, `spans_filter`, `spans_attribute`, `events_bool`, `generated_word_slices`, `generated_group` | disagreements of section 6 | the smallest that shows each |

`spans` and `generated` take about two minutes, `events` about one and a half, the others
seconds.

Properties, beyond the type invariants:

* `NoUseAfterFree`: while a callback is in flight, a thread borrows the provider or
  the registration stands, the box is alive, and borrowed handles are registered.
* `LevelAgreement`: with no control notice on its way `max_level` is the level of
  the sessions; otherwise the newest one on its way carries it.
* `FollowsTheFeed`: `EtwProvider` implements `LevelFeed`: no level is skipped, repeated,
  overtaken or invented.
* `AnswersMatchSession`: with none on its way, the answers of `is_event_enabled` and of
  `is_enabled` are whether a session collects that level.
* `DropCompletes`, `CacheCatchesUp`: a drop that began ends; a provider that stays
  registered ends with the right level.
* `IsDynamicallyScoped`, `ActivityBelongsToOneThread`.
* `ImplementsSpanLog`, `SpansNest`, `OneActivityPerSpan`, `StopSummarises`,
  `StartsPairWithStops`, `NoHandlerPanics` (the unwraps hold, without hidden parents and
  late layers), `HandlersReturn` (no cycle of locks).
* `RoundTrip` (both producers): `Decode` of what was written is what was asked for. Counts of
  strings are in bytes (section 2.4). It includes `&[bool]`, which the code accepts and
  two docs exclude (section 6).
* `OptOutHolds`, `KeywordMarksTrace`: no telemetry bit while telemetry is off; the
  trace keyword is on TRACE events only.
* `EventIdsAreUnique`: a trait that compiles has an event per method and no id twice.
* `DescriptorAsDeclared`: every field of the descriptor is what the attributes say, read
  by somebody who does not know how the macro reads them; the options' level wins.
* `IdentityAsDeclared`: ETW registers the GUID that was declared, or the one that follows
  from the name, and a consumer finds the name and the group that were declared.
* `RecordsFollowTheSettings`, `EnabledForetells`.

### Bounds, and why they suffice

* Two threads: the code has no step that three threads take part in. Every lock is
  between pairs, and `client` entries do not interact. The proofs have no bound.
* Three levels: none, one, and one above it. Three notices: an ENABLE, a DISABLE,
  and another ENABLE or a notice without a level, with each of them before, during
  or after registration. The theorems drop both bounds.
* Depth 3 with 3 ids: a failed scope inside a good one inside a good one.
* Two spans: a parent, a child, either of them closed by either thread. Two calls of two
  fields are what it takes to overwrite a field that another call has recorded, in the
  other order. The scenarios keep apart what does not interact: `Budgets` bounds the
  spans, the spans that are not seen, the calls of record, their fields, and the events.
* Three event levels: INFO, and DEBUG and TRACE, which share an ETW level. ERROR and
  WARN take the same path as INFO.
* Two fields are enough for `RoundTrip`: a field that leaves a byte too many or too
  few shows in itself, in the next one, or in what is left over at the end.
* `MaxPayload`, `MaxEvent` = 65535: ETW refuses longer events. This is the fact that makes
  `RoundTrip` hold for texts and targets whose wrapped 16-bit length is wrong: they do
  not fit. In `events` the target has 3 bytes or 65537, one more than wraps to nothing,
  and a text of 65485 or 65486 bytes is the largest that fits and the smallest that does
  not, with that target and one global field. The limit is a constant below 65536.
* One span name: all that RoundTrip has to do with it is that it tells nothing of the fields.
  A START takes what a span can have at its creation, errors and `{:?}` included; a STOP
  what `DeferredValues` keeps, texts and numbers.
* Two GUIDs whose bytes all differ: a swap that is missing or wrong shows in each of them, and
  one taken for the other too.
* 65513 and its neighbours in `generated`: names at which the traits, and the provider
  metadata, reach 65535 and 65536 bytes.
* Two changes of the sessions in `logger`: on and off, or from one level to another.

Symmetry is declared over threads, and over ids in `activity`, in runs without liveness
properties; no operator there chooses among them.

Deadlock is checked except where the system may stop: a provider that was dropped or
failed to register, a trait that was rejected, a program that panicked.

### Fairness

* `EtwProvider`: weak fairness of callbacks (ETW runs the notices it queued; the
  body of `enable_callback` has no loop and no lock) and of `DropEnd` (the thread in
  `drop` goes on). Nothing obliges anyone to drop, to log or to control.
* `TracelogSpans`: weak fairness of the handler steps of each thread, which is the
  operating system scheduling a thread that can run. The program owes nothing: it
  may keep handles for ever. Weak fairness is enough because a handler waits for a
  lock only while another handler holds it, and every holder releases it in a
  bounded number of steps.

## 4. Proofs

TLAPS checks the proof modules to the last leaf. Assumptions on the constants are
the named ASSUMEs of the modules; TLC evaluates them in the runs. Three say what the code
gets from others: `SpanAssumption`, that no thread is called `None` and that a call of
record is a finite sequence of fields; `SyntaxAssumption`, that the parser of Rust hands
the macro finite sequences of methods, parameters, attributes, metas and arguments, GUIDs
of 16 bytes, and texts of some length. `GeneratedAssumption` adds that callers pass `Uuid`s
of 16 bytes, and that an event ETW takes is shorter than 64 KB. `FieldAssumption` says what `tracing` hands the
layer: finite lists of fields of the six kinds that `Visit` tells apart, where a byte
follows the NUL inside a text, and that `DeferredValues` has texts, numbers and bools only.

**`FoldTheorems`**, any sequence, any start, one step that is a constant operator.

* The models read sequences with the community folds: `DeferredValues::update` over the
  fields of a record, the attributes of a method, the arguments of a provider. `FoldSteps`:
  a fold is the last of a sequence of partial results, each one step from the one before;
  `FoldAppend`, `FoldHead`: a fold grows by one step at either end. The induction behind
  them, and the others of these proofs, is on a least counterexample (`Least`, `UpTo`): a
  set of naturals needs no operator parameter, and the naturals are well-founded.

**`EtwProviderProofs`**, any set of threads, any `MaxLevel`, any number of notices.

* `TypeCorrect`, `MemorySafety`: `TypeOK` and `NoUseAfterFree` are invariants,
  whether or not ETW runs callbacks in parallel. `NoUseAfterFree` is not inductive:
  it does not say which phases allow a callback. `PhaseInv` adds that: the box is
  alive from `registering` to `unregistering`; the registration is published only
  in `registering` and `live`; a callback can be in flight up to `unregistering`,
  which `DropEnd` leaves only when none is; a thread borrows only in `live`.
* `LevelsAgree`: `LevelAgreement` is an invariant, assuming callbacks of one
  registration run one at a time (`Serial`) and that ETW passes level 0 with a
  DISABLE. The argument splits on the newest control notice: if it is on its way it
  carries the level of the sessions; if it was applied, being the newest and
  callbacks running in order, nothing was stored after it. With parallel callbacks
  this is false: an older ENABLE may store after a newer DISABLE.
* `AnswersAreRight`: if moreover no event has level 0, `AnswersMatchSession` holds.
  The assumption is needed: section 6.
* `CacheFollowsTheFeed`: `EtwProvider` implements `LevelFeed`, assuming `Serial` only.
  The cache has applied the announcements among the notices whose callback returned. With
  one callback at a time these notices are a prefix, up to the one that runs, so the next
  store is the next announcement. `FeedInv` says which notice announced which level (the
  k-th level of the feed is that of the k-th ENABLE or DISABLE), through notices that
  announce nothing; without it `LevelFeed`'s queue and the notices would be two
  unrelated sequences.

**`ActivityScopeProofs`**, any threads, ids and depth.

* `DynamicallyScoped`: `ActivityScope` implements `DynamicScope`. The invariant
  `HoldersOK` says what a holder is worth: the id in force at the call, or `None`,
  and `None` only if the call did not change the id. Entering then appends to the
  chain and every way of leaving cuts off its last element.
* `TypeCorrect`: `TypeOK`, by the same invariant.
* `OneThreadPerActivity`: `ActivityBelongsToOneThread`. It is not inductive: a new id
  could be one that another thread has. `Owned` adds that every id in a chain is among
  those handed out. Its proof uses `DynamicScope` alone: a step of the abstract chain gives
  a thread its own ids again, or one that was never handed out, and the refinement does
  the rest.

**`TracelogSpansProofs`**, any threads, spans, ids, calls and budgets.

* `Nesting` and `OneActivity`: `SpansNest` and `OneActivityPerSpan` are invariants, for
  every filter and for late layers too. Neither is inductive, since they only speak of
  the log. The invariant says who may still speak for a span. While a thread starts a
  span (`Alone`), it is the only one that has a handle to it, it holds the parent, the
  span has no children, and nothing of it is in the log. When a thread closes a span
  (`Unreferenced`), no thread has a handle to it or closes it too, and no child is
  alive. What is held or entered is alive, and so are its ancestors. An event on its way
  or in the log carries the activities its span and parent have now; they do not change,
  because the only store happens while the span is `Alone`.
* `NoPanics`: `NoHandlerPanics` is an invariant if the filter shows no child of a hidden
  span and no layer is attached while spans are alive. `Safe` adds that a visible span
  has its activity id unless a thread is still in its `on_new_span`; by `Unreferenced`
  none is when it closes. The run `spans_filter` shows that the first assumption is
  needed; with `LateLayers` TLC finds the other unwrap failing.

* `TypeCorrect`: `TypeOK`; `deferred` comes out of a fold of searches (`update`), each of
  which keeps the type of the values.
* `StopsSummarise`: `StopSummarises`. The property speaks of the log, and what a span was
  told is spread over its `deferred` values and the fields that a call in progress has
  still to record. `Kept` says that `said[s]` is a part that `deferred[s]` summarises
  followed by what is still to do, and that something is still to do only for the thread
  that has the write lock. So a STOP, which reads under the read lock and after the last
  handle is gone, reads a complete summary. One step of it is a lemma about the
  data: `update` of a summary of a history is a summary of that history and one more value
  (a field seen before keeps its place and takes the new value; a new one goes last).
* `StartsAndStopsPair`: `StartsPairWithStops`. `Pairs` says that of a span created since
  the sessions last changed, the START is in the log as soon as its handler returned if
  and only if the sessions collect, and so for the STOP; and that a thread between its
  question and its write was told yes. That neither is there twice is from `Nesting`'s
  invariant.
* `HandlersAreAtomic`: `TracelogSpans` implements `SpanLog`, under the two assumptions of
  `NoPanics`. Every step of a handler maps to one of open, record, happen, close, or to
  none: a span opens when its START is written or skipped, a record takes effect when
  it obtains the lock, a span closes when its STOP is written or skipped. The steps need
  all of the above (`Known`) and `Forms`: an event on its way has the shape that the
  abstract operation writes. Without the assumptions it is false: a child of a hidden span
  panics instead of opening.

**`EventMetadataProofs`**, any metadata and payload.

* `WiresDecode`: what `Decode` makes of an event that was appended field by field. A wire
  is what one field appends: name, InFlag, the OutFlag if any, and items. Metadata and
  payload carry a list of wires (`Carries`) if they are those of the wires end to end. They
  decode to one field per wire, up to the first that is not read alone (`Reads`: wherever
  its items lie, all of them are read, as the value they stand for); if all are, nothing is left over. `Decode` is made of recursive functions over
  positions. That they exist is an induction of its own (`FieldsExist`, backwards from the
  end of the metadata; `PositionsExist`, forwards through the payload).
* `WireFits`: an event ETW accepts has no item longer than the event, which is why the
  wrapped lengths of longer ones are never read.
* The lemmas that both producers need. `Carried` and `ConcatCarries`: buffers that are
  extended one wire at a time, and buffers that are the concatenation of all wires at once
  (`FlattenSeq`, whose recursive function has to be shown to exist: `FlattensExists`), both
  carry them. `NumReads`, `CountedReads`, `EmptyReads`, `ArrayReads`: a value of fixed width,
  a counted text, a count alone and a counted array are each read alone. `WiresShown`: the
  decoded fields are what is to be shown, as far as the fields are read.

**`TracelogEventProofs`**, any threads, keywords, levels, targets and fields.

* `TypeCorrect`, `OptOut`, `TraceMarked`. An event takes its keyword when `write_event` begins and is
  written later. The invariant `LockOK` says that the threads in handlers are the readers
  of the reload lock and the one that configures is its writer, so the mask an event was
  filtered with is the mask in force until its handler returns.
* `EventsRoundTrip`: `RoundTrip` of START, INFO and STOP, for lists of any number of fields,
  under two hypotheses about the constants. No field of an event is a bool (`NoBooleans`):
  without it the theorem is false, see the run `events_bool`. No field of a span, and no
  global field, has a name that `write_name` skips (`NothingReserved`): without it a START is
  asked for a field that nothing tells. The fields of an INFO event may have those names:
  its name tells the message, and `log.*` fields count as consumed. Global
  fields may be of any kind, for they are recorded as text. The argument has two
  halves. `BuildInv` says what the metadata and the data of an event on its way are made
  of, although they are copied and extended in different steps: while nobody configures,
  the encoded global fields are the encoding of those last asked for (while somebody does,
  recording what is left to do would make them so), and a handler keeps configurers out.
  So an event is a function of its target, the global fields and its own, whichever handler
  wrote it; what it owes a consumer are all of these (`GlobalsKept`, `UntoldIs`), an INFO's
  skipped fields excepted. That function is a fold, and each of its steps appends one wire or, for a field that is skipped,
  nothing. `WiresDecode` then gives the fields back up to the first text with a NUL inside,
  which is all that `RoundTrip` asks for. The target needs its wrapped length to be
  its length: otherwise it alone is longer than ETW takes.

**`GeneratedProviderProofs`**, any traits of fewer than 65536 methods.

* `IdsUnique`: `EventIdsAreUnique`. The invariant is about the methods expanded so far
  without an error: either none gave an id and each has its index, or all did and
  `event_id_mappings` holds them all. The bound is needed: the index is cut to 16 bits.
* `DescriptorsAreDeclared` and `IdentitiesAreDeclared`: `DescriptorAsDeclared` and
  `IdentityAsDeclared`. The two sides read the declaration in different ways: the macro
  folds over attributes, and over the metas of each, with an error that gives up the rest
  of an attribute; the property takes the last meta of a key, or the first argument of the
  provider. They agree only where the macro saw no error, so the invariant `Faithful` says
  what the absence of errors tells (`Clean`: nothing was given up, in the provider or
  in any method expanded so far), that a provider in use comes from a trait without errors,
  and that it and its events carry what was then generated (`Enrolled`, `Written`). The rest
  are lemmas about the operators: a fold without an error is the last meta of each key;
  the size of a blob fits its 16 bits when the name does or ETW refuses it; and the GUID
  comes through text, struct and memory unchanged, the swaps of bytes undoing each other.
* `TypeCorrect`: `TypeOK`, by the same invariant.
* `GeneratedRoundTrip`: `RoundTrip`, if the parameters of every trait are such as the format
  can tell (`DecodableTrait`: no slice of `usize` or `isize`, no `hex` for a type that has a
  format already; section 6), for any number of parameters of any of the 26 types and any
  arguments. TLC evaluates the hypothesis for the traits of the run `generated`
  (`AllDecodable`). Two more invariants say what an event is made of: its metadata are
  those of the fields of its method, fixed when the trait was expanded (`Built`), and its
  payload is that of the arguments of the call (`Sent`). So metadata and payload carry one
  wire per parameter (`CallCarries`). What is left is a matter of one parameter and one
  argument: `ArgumentTold` says that the wire is read alone, as the argument, unless an
  item is longer than ETW takes or a time has no value. It has a lemma for each way of
  laying out a value: slices (`SliceTold`), texts with three ways of wrapping their count
  (`TextTold`, `CountsFit`: if the text is short enough for ETW the count is exact), socket
  addresses, times, GUIDs (`GuidTold`: through literal, `Uuid`, text or `windows_sys`, what
  lies in memory is what was meant), and all the types of fixed width at once.

**`TraceLoggerProofs`**, any threads, records, session levels.

* `TypeCorrect`, `SettingsFollowed`, `AnswerForetells`. What a call took from its record
  is what some value of the setting since the call began makes of it (`Seen`), and an
  answer that is still steady is the answer of the sessions now (`Foretold`).

Only model-checked are the liveness properties (`DropCompletes`, `CacheCatchesUp`,
`HandlersReturn`): they rest on fairness, which is outside what the installed provers
handle. Every other property of a passing run is a theorem.

`ValueAt` is a CASE, and TLC takes the first branch that holds. Proving about it showed that
two of its guards overlapped (a count of 0 that an empty text follows), in which case the
definition said nothing; they are disjoint now.

## 5. What is not modelled

* The contents of addresses and times, and of texts but for a NUL inside; the parser of
  Rust, and names of generated locals, which a parameter can shadow (`<name>__len`).
* Constant-length arrays, custom serializers and the image section header of
  `win_etw_metadata`: nothing in the repository writes them.
* Several layers on one registry: the second `insert` of the same extension panics in
  every behaviour that creates a span.
* The user's `Debug` implementation running under the extensions' lock: values of the
  model have no code.
* `EventOptions`, `Error` and re-exports of the crate roots, except as parameters of the
  events above; the examples. They keep no state.

## 6. Where the code disagrees with what is said of it

Shown by a run that finds the counterexample:

* `provider_level_zero`: `is_event_enabled` compares `level <= max_level`
  (`provider.rs:207`), and both are 0 for an event of level 0 with tracing off.
* `spans_filter`: a filter of the layer that hides a span and shows its child makes
  `on_new_span` of the child panic: it takes the parent from `attrs` or `current_span()`,
  which do not ask the filter, and unwraps `ctx.span()`, which does
  (`win_etw_tracing/src/lib.rs:278`).
* `spans_attribute`: an `activity_id` given as a text reaches the visitor through
  `record_debug`, in quotes, and does not parse (`win_etw_tracing/src/lib.rs:239`).
* `events_bool`: `record_bool` writes an OutFlag without the CHAIN flag (`:497`), so
  a consumer takes it for the beginning of the next name.
* `generated_word_slices`: the metadata of `&[usize]` and `&[isize]` has InFlag NULL
  (`win_etw_macros/src/lib.rs:1029`).
* `generated_group`: only `new` registers the traits that carry the provider group,
  not `new_err` (`:641`).

Seen while modelling, without a run:

* A layer that `reload` puts in place while spans are alive panics when they close
  (`win_etw_tracing/src/lib.rs:353`). Setting `LateLayers` in `MCTracelogSpans.cfg` shows it.
* A `SystemTime` before 1970 contributes no bytes to a field of 8
  (`win_etw_macros/src/lib.rs:974`), as a comment there admits. `RoundTrip` asks only for
  the parameters before it.
* A text with a NUL spoils what follows it in events of the layer, and an event whose name
  has one cannot be read. `RoundTrip` asks for the fields before it.
* A provider name that fits and a group can make traits of more than 65535 bytes: the
  size wraps, ETW refuses them, and the generated code ignores that.
* With 65536 methods the index wraps and generated ids repeat (`win_etw_macros/src/lib.rs:303`).
* `win_etw_metadata/src/lib.rs:132-134` (`COUNTED_UNICODE_STRING`) and `:138-140`
  (`COUNTED_ANSI_STRING`) give the counts "in WCHAR units (not bytes)". Both producers store
  bytes: the layer for the target of every START and INFO
  (`win_etw_tracing/src/lib.rs:176`), the macro for `&str` (`win_etw_macros/src/lib.rs:836`)
  and for wide strings (`:849-851` "we want the length in bytes of the string", `:887`
  "compute length in bytes"). `Decode` takes bytes, and `RoundTrip` claims nothing of a
  consumer that takes units. Of the comments and the producers one is wrong; the model does
  not decide which, since what reads the events is not in the repository.
* `:114-115` of the same file says of `InFlag::GUID` that the fields are stored in big-endian
  form; the macro hands over the struct as it lies in memory
  (`win_etw_provider/src/data_descriptor.rs:167-176`). `Decode` takes that form.
* `win_etw_tracing/src/lib.rs:448` says that the message is skipped because it is "used as
  the event name". That is true of `on_event` (`:345`) only: START and STOP have the name of
  the span (`:300`, `:363`), so a span's field called `message`, given at creation or
  recorded later, is lost; with `tracing-log` so are `log.*` fields of spans, and of events
  that do not come from the `log` crate, where nothing has "already consumed" them. Setting
  `SpanFields <- SpanMessages` in `MCTracelogEvent.cfg` shows `RoundTrip` violated by the
  START. `set_global_fields` drops global fields of these names likewise, where its doc says
  all global fields are in all events.
* `win_etw_macros/src/lib.rs:112` says `&[bool]` is not supported, and
  `data_descriptor.rs:14-15` of the provider that a descriptor cannot point to one. But
  `data_descriptor.rs:131` has `bool` in the list that makes `From<&[T]>`, the macro takes it,
  and its `tests.rs:161` and `examples/hello_world/src/main.rs:168` declare one. `RoundTrip`
  follows the code: a byte for each element.
* `win_etw_macros/src/lib.rs:631-632` says `new_err` returns a null provider on failure; it returns `Err`.
* `output = "hex"` is or-ed into the format of the type (`win_etw_macros/src/lib.rs:1050`), which makes PORT of
  BOOLEAN; `can_output_hex` of the table of types is not consulted.
* `win_etw_metadata/src/lib.rs:192` allows the format BOOLEAN with INT8 only; both producers
  use it with UINT8.

## 7. Plan

Done, in this order: `EtwProvider` and its proofs, `ActivityScope`/`DynamicScope` and
theirs, `TracelogSpans`/`SpanLog`, `EventMetadata`, `TracelogEvent`,
`GeneratedProvider`; then filters and `reload` in `TracelogSpans`, `is_enabled` and
`LevelFeed`, attributes, identity and GUIDs of the macro, sizes and NULs in
`TracelogEvent`, `TraceLogger`, and the proofs about all of them.

What would be next:

1. Several layers on one registry, should the code come to support them.
2. `TracelogSpans` over `LevelFeed` in the place of `collecting`, to bound how late the
   START after a session's beginning can be.
