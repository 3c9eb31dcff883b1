---------------------- MODULE GeneratedProviderProofs ----------------------
(***************************************************************************)
(* What the macro makes of every trait, with any methods, attributes and   *)
(* arguments (fewer than 65536 methods: the index of a method is cut to 16 *)
(* bits).                                                                  *)
(*                                                                         *)
(* Inv is about the ids of the methods expanded so far without an error:   *)
(* either none of them gave an id and each has its index, or all did and   *)
(* the mapping holds the ids of all of them.  Faithful is about the rest:  *)
(* each event has the attributes of its method, a provider was registered  *)
(* with what the arguments of the trait say, and an event accepted by ETW  *)
(* describes the method that was called.  What attributes and arguments    *)
(* say is a fact about loops, folds here, that carry a result along.       *)
(*                                                                         *)
(* Built and Sent are about the two halves of an event: its metadata is    *)
(* made of the fields of its method, its payload of the arguments of the   *)
(* call.  Field by field the metadata say what the payload holds (Told),   *)
(* which is a matter of the table of types; that a decoder then finds the  *)
(* way through a whole event is proved with EventMetadata.                 *)
(***************************************************************************)
EXTENDS GeneratedProvider, EventMetadataProofs, SequenceTheorems, FiniteSetTheorems, TLAPS

Shape ==
  /\ trait \in Traits
  /\ expansion = [index |-> expansion.index,
                  event_ids_auto_generated |-> expansion.event_ids_auto_generated,
                  event_id_mappings |-> expansion.event_id_mappings,
                  errors |-> expansion.errors, events |-> expansion.events]
  /\ expansion.index \in 0..Len(trait.methods)
  /\ expansion.event_ids_auto_generated \in BOOLEAN
  /\ \E S : expansion.events \in Seq(S)

Given(b, i) == b.events[i].attrs.event_id

IdsOK(b, n) ==
  /\ Len(b.events) = n
  /\ \A i \in 1..n : /\ b.events[i].id = IF Given(b, i) = None THEN i - 1 ELSE Given(b, i)
                     /\ Given(b, i) = None <=> b.event_ids_auto_generated
                     /\ Given(b, i) # None => Given(b, i) \in b.event_id_mappings
  /\ \A i, j \in 1..n : b.events[i].id = b.events[j].id => i = j

Inv ==
  /\ Shape
  /\ expansion.errors = {} => IdsOK(expansion, expansion.index)
  /\ phase \in {"built", "running"} =>
       expansion.errors = {} /\ expansion.index = Len(trait.methods)

\* The index of a method fits into 16 bits.
LEMMA Lengths16 == \A t \in Traits : Len(t.methods) \in Nat /\ Len(t.methods) < 65536
  BY GeneratedAssumption DEF GeneratedAssumption

\* Before the first method.
LEMMA InitInv == Init => Inv
<1> SUFFICES ASSUME Init PROVE Inv
  OBVIOUS
<1>1. /\ trait \in Traits /\ phase = "expanding" /\ expansion.index = 0
      /\ expansion.events = <<>> /\ expansion.event_ids_auto_generated = TRUE
  BY DEF Init
<1>2. <<>> \in Seq({}) /\ Len(<<>>) = 0
  OBVIOUS
<1>3. Shape
  BY <1>1, <1>2, Lengths16 DEF Init, Shape
<1>4. IdsOK(expansion, expansion.index)
  BY <1>1, <1>2 DEF IdsOK
<1> QED
  BY <1>1, <1>3, <1>4 DEF Inv

\* A method that leaves no error: its event joins the others.
LEMMA AddEvent ==
  ASSUME NEW b, NEW c, NEW e, NEW id, NEW n \in Nat, IdsOK(b, n),
         Len(c.events) = n + 1, c.events[n + 1] = e, \A i \in 1..n : c.events[i] = b.events[i],
         e.id = IF id = None THEN n ELSE id, e.attrs.event_id = id,
         id = None <=> c.event_ids_auto_generated, id \notin b.event_id_mappings,
         n # 0 => (id = None <=> b.event_ids_auto_generated),
         b.event_id_mappings \subseteq c.event_id_mappings,
         id # None => id \in c.event_id_mappings
  PROVE  IdsOK(c, n + 1)
<1>1. ASSUME NEW i \in 1..n
      PROVE  /\ n # 0 /\ i # n + 1 /\ Given(c, i) = Given(b, i) /\ c.events[i].id = b.events[i].id
             /\ b.events[i].id = IF Given(b, i) = None THEN i - 1 ELSE Given(b, i)
             /\ Given(b, i) = None <=> b.event_ids_auto_generated
             /\ Given(b, i) # None => Given(b, i) \in b.event_id_mappings
  BY <1>1 DEF IdsOK, Given
<1>2. ASSUME NEW i \in 1..(n + 1)
      PROVE  /\ c.events[i].id = IF Given(c, i) = None THEN i - 1 ELSE Given(c, i)
             /\ Given(c, i) = None <=> c.event_ids_auto_generated
             /\ Given(c, i) # None => Given(c, i) \in c.event_id_mappings
  <2>1. CASE i = n + 1
    BY <2>1 DEF Given
  <2>2. CASE i \in 1..n
    BY <1>1, <2>2
  <2> QED
    BY <2>1, <2>2
<1>3. ASSUME NEW i \in 1..n PROVE c.events[i].id # e.id
  <2>1. CASE id = None
    BY <1>1, <2>1
  <2>2. CASE id # None
    BY <1>1, <2>2
  <2> QED
    BY <2>1, <2>2
<1>4. ASSUME NEW i \in 1..(n + 1), NEW j \in 1..(n + 1), c.events[i].id = c.events[j].id
      PROVE  i = j
  <2>1. CASE i \in 1..n /\ j \in 1..n
    <3>1. b.events[i].id = b.events[j].id
      BY <1>4, <2>1
    <3> QED
      BY <2>1, <3>1 DEF IdsOK
  <2>2. CASE i = n + 1 /\ j \in 1..n
    BY <1>3, <1>4, <2>2
  <2>3. CASE j = n + 1 /\ i \in 1..n
    BY <1>3, <1>4, <2>3
  <2> QED
    BY <2>1, <2>2, <2>3
<1> QED
  BY <1>2, <1>4 DEF IdsOK

\* One method: given up as too large, or turned into an event.
LEMMA ExpandInv == ASSUME Inv, Expand PROVE Inv'
<1> DEFINE b == expansion
           m == trait.methods[b.index + 1]
           a == parse_event_attributes(m.attrs)
           e == GeneratedEvent(b, m, a)
           n == b.index
<1>0. /\ trait' = trait /\ phase' = phase /\ phase = "expanding" /\ trait \in Traits
      /\ n \in Nat /\ n < Len(trait.methods) /\ Len(trait.methods) \in Nat /\ n < 65535
  BY Lengths16 DEF Expand, Inv, Shape
<1>1. u16(n + 1) = n + 1
  BY <1>0 DEF u16
<1>2. PICK S : b.events \in Seq(S)
  BY DEF Inv, Shape
<1>3. b.events \in Seq(S \cup {e})
  BY <1>2
<1>4. /\ Append(b.events, e) \in Seq(S \cup {e})
      /\ Len(Append(b.events, e)) = Len(b.events) + 1
      /\ Append(b.events, e)[Len(b.events) + 1] = e
      /\ \A i \in 1..Len(b.events) : Append(b.events, e)[i] = b.events[i]
  BY <1>3, AppendProperties
<1>5. CASE m.oversized
  <2>1. expansion' = [b EXCEPT !.index = u16(@ + 1), !.errors = @ \cup FieldErrors(m) \cup {"too large"}]
    BY <1>5 DEF Expand, Expanded, TooLarge
  <2>2. /\ expansion'.index = n + 1 /\ expansion'.events = b.events
        /\ expansion'.event_ids_auto_generated = b.event_ids_auto_generated
        /\ expansion'.errors # {}
        /\ expansion' = [index |-> expansion'.index,
                  event_ids_auto_generated |-> expansion'.event_ids_auto_generated,
                  event_id_mappings |-> expansion'.event_id_mappings,
                  errors |-> expansion'.errors, events |-> expansion'.events]
    BY <1>1, <2>1 DEF Inv, Shape
  <2>3. Shape'
    BY <1>0, <1>2, <2>2 DEF Inv, Shape
  <2> QED
    BY <1>0, <2>2, <2>3 DEF Inv
<1>6. CASE ~m.oversized
  <2>1. expansion' = [b EXCEPT
           !.index = u16(@ + 1),
           !.event_ids_auto_generated = AutoIds(b, a.event_id),
           !.event_id_mappings = IF a.event_id = None THEN @ ELSE @ \cup {a.event_id},
           !.errors = @ \cup FieldErrors(m) \cup a.errors \cup IdErrors(b, a.event_id),
           !.events = Append(@, e)]
    BY <1>6 DEF Expand, Expanded, ExpandedWith
  <2>2. /\ expansion'.index = n + 1 /\ expansion'.events = Append(b.events, e)
        /\ expansion'.event_ids_auto_generated = AutoIds(b, a.event_id)
        /\ expansion'.event_id_mappings = IF a.event_id = None THEN b.event_id_mappings
                                          ELSE b.event_id_mappings \cup {a.event_id}
        /\ expansion'.errors = b.errors \cup FieldErrors(m) \cup a.errors \cup IdErrors(b, a.event_id)
        /\ expansion' = [index |-> expansion'.index,
                  event_ids_auto_generated |-> expansion'.event_ids_auto_generated,
                  event_id_mappings |-> expansion'.event_id_mappings,
                  errors |-> expansion'.errors, events |-> expansion'.events]
    BY <1>1, <2>1 DEF Inv, Shape
  <2>3. Shape'
    <3>1. AutoIds(b, a.event_id) \in BOOLEAN
      BY DEF AutoIds, Inv, Shape
    <3> HIDE DEF b, m, a, e, n
    <3>2. /\ trait' \in Traits /\ expansion'.index \in 0..Len(trait'.methods)
          /\ expansion'.events \in Seq(S \cup {e})
      BY <1>0, <1>4, <2>2
    <3> QED
      BY <2>2, <3>1, <3>2 DEF Shape
  <2>4. ASSUME expansion'.errors = {} PROVE IdsOK(expansion', n + 1)
    <3>1. b.errors = {} /\ IdErrors(b, a.event_id) = {}
      BY <2>2, <2>4
    <3>2. /\ AutoIds(b, a.event_id) <=> a.event_id = None
          /\ a.event_id \notin b.event_id_mappings
      BY <3>1 DEF IdErrors
    <3>3. IdsOK(b, n) /\ Len(b.events) = n
      BY <3>1 DEF Inv, IdsOK
    <3>4. e.id = (IF a.event_id = None THEN n ELSE a.event_id) /\ e.attrs.event_id = a.event_id
      BY DEF GeneratedEvent
    <3>5. n # 0 => (a.event_id = None <=> b.event_ids_auto_generated)
      BY <3>2 DEF AutoIds
    <3> HIDE DEF b, m, a, e, n
    <3>6. /\ n \in Nat /\ Len(expansion'.events) = n + 1 /\ expansion'.events[n + 1] = e
          /\ \A i \in 1..n : expansion'.events[i] = b.events[i]
      BY <1>0, <1>4, <2>2, <3>3
    <3>7. /\ a.event_id = None <=> expansion'.event_ids_auto_generated
          /\ b.event_id_mappings \subseteq expansion'.event_id_mappings
          /\ a.event_id # None => a.event_id \in expansion'.event_id_mappings
      BY <2>2, <3>2
    <3> QED
      BY <3>2, <3>3, <3>4, <3>5, <3>6, <3>7, AddEvent
  <2>5. phase' = "expanding"
    BY <1>0
  <2> HIDE DEF b, m, a, e
  <2> QED
    BY <2>2, <2>3, <2>4, <2>5 DEF Inv
<1> QED
  BY <1>5, <1>6

\* Only Expand touches what the invariant is about, and Compile the phase.
LEMMA NextInv == Inv /\ [Next]_vars => Inv'
<1> SUFFICES ASSUME Inv, [Next]_vars PROVE Inv'
  OBVIOUS
<1>1. CASE Expand
  BY <1>1, ExpandInv
<1>2. CASE Compile
  BY <1>2 DEF Compile, Inv, Shape, IdsOK, Given
<1>3. ASSUME UNCHANGED <<trait, expansion>>, phase' \in {"running", "panicked", phase},
             phase' = "running" => phase \in {"built", "running"}
      PROVE  Inv'
  BY <1>3 DEF Inv, Shape, IdsOK, Given
<1>4. CASE UNCHANGED vars
  BY <1>3, <1>4 DEF vars
<1>5. ASSUME NEW how, NEW registered, NEW result, NEW option, Construct(how, registered, result, option)
      PROVE  Inv'
  BY <1>3, <1>5 DEF Construct
<1>6. CASE null \/ \E registered \in BOOLEAN : new(registered) \/ new_err(registered)
  BY <1>5, <1>6 DEF null, new, new_err
<1>7. ASSUME NEW i, NEW args, CallPanics(i, args) PROVE Inv'
  BY <1>3, <1>7 DEF CallPanics
<1>8. ASSUME NEW i, NEW args, NEW level, Call(i, args, level) PROVE Inv'
  BY <1>3, <1>8 DEF Call
<1> QED
  BY <1>1, <1>2, <1>4, <1>6, <1>7, <1>8 DEF Next

\* Every trait that compiles has an event for each method, each with an id of
\* its own, whatever ids its attributes give and in whatever order.
THEOREM IdsUnique == Spec => []EventIdsAreUnique
<1>1. Inv => EventIdsAreUnique
  <2> SUFFICES ASSUME Inv, phase \in {"built", "running"}
               PROVE  /\ Len(expansion.events) = Len(trait.methods)
                      /\ \A i, j \in DOMAIN expansion.events :
                           expansion.events[i].id = expansion.events[j].id => i = j
    BY DEF EventIdsAreUnique
  <2>1. IdsOK(expansion, expansion.index) /\ expansion.index = Len(trait.methods)
    BY DEF Inv
  <2>2. PICK S : expansion.events \in Seq(S)
    BY DEF Inv, Shape
  <2>3. DOMAIN expansion.events = 1..Len(expansion.events)
    BY <2>2
  <2> QED
    BY <2>1, <2>3 DEF IdsOK
<1> QED
  BY <1>1, InitInv, NextInv, PTL DEF Spec

-----------------------------------------------------------------------------
(* What the #[event] attributes of a method come to.                       *)

\* A step of the loop over the attributes, and one of the loop over the
\* metas of one of them.
ReadAttribute(a, attr) ==
  CASE attr.path = "doc"   -> a
    [] attr.path = "event" -> parse_nested_meta(a, attr.metas)
    [] OTHER -> [a EXCEPT !.errors = @ \cup {"attribute"}]
ReadMeta(b, meta) == IF b.failed THEN b ELSE parse_event_meta(b, meta)

Attributing == INSTANCE FoldTheorems WITH op <- ReadAttribute
Nesting     == INSTANCE FoldTheorems WITH op <- ReadMeta

\* The two loops are folds.
LEMMA AttributesFolded ==
  ASSUME NEW attrs
  PROVE  parse_event_attributes(attrs) = Attributing!Fold(Unset, attrs)
BY Zenon DEF parse_event_attributes, ReadAttribute, Attributing!Fold, Attributing!FoldLeft, FoldLeft,
             Attributing!MapThenFoldSet, MapThenFoldSet, Max, Attributing!Max

\* So is the loop over the metas of one attribute.
LEMMA MetasFolded ==
  ASSUME NEW a, NEW metas
  PROVE  parse_nested_meta(a, metas) = [Nesting!Fold(a, metas) EXCEPT !.failed = FALSE]
BY Zenon DEF parse_nested_meta, ReadMeta, Nesting!Fold, Nesting!FoldLeft, FoldLeft,
             Nesting!MapThenFoldSet, MapThenFoldSet, Max, Nesting!Max

\* A result of reading attributes is a record.
IsResult(a) ==
  a = [level |-> a.level, opcode |-> a.opcode, task |-> a.task, keyword |-> a.keyword,
       event_id |-> a.event_id, errors |-> a.errors, failed |-> a.failed]

\* A level given by its name is the number of that name.
AsLevel(lit) == IF lit.kind = "str" THEN IntLit(LevelNames[lit.text]) ELSE lit

\* What parse_event_meta does to each field of the result.
LEMMA MetaStep ==
  ASSUME NEW a, IsResult(a), NEW meta, NEW b, b = parse_event_meta(a, meta)
  PROVE  /\ IsResult(b)
         /\ a.errors \subseteq b.errors /\ b.errors \subseteq a.errors \cup {"attribute"}
         /\ b.failed => a.failed \/ b.errors # {}
         /\ b.errors = {} =>
              /\ b.level = IF meta.key = "level" THEN AsLevel(meta.lit) ELSE a.level
              /\ b.opcode = IF meta.key = "opcode" THEN meta.lit ELSE a.opcode
              /\ b.task = IF meta.key = "task" THEN meta.lit ELSE a.task
              /\ b.keyword = IF meta.key = "keyword" THEN meta.lit ELSE a.keyword
<1> DEFINE lit == meta.lit
<1>1. CASE b = Fail(a)
  <2>1. b.errors = a.errors \cup {"attribute"} /\ IsResult(b)
    BY <1>1 DEF Fail, IsResult
  <2> QED
    BY <2>1
<1>2. CASE b # Fail(a) /\ meta.key = "level"
  <2>1. b = [a EXCEPT !.level = AsLevel(lit)]
    BY <1>2 DEF parse_event_meta, AsLevel
  <2> QED
    BY <1>2, <2>1 DEF IsResult
<1>3. CASE b # Fail(a) /\ meta.key = "opcode"
  <2>1. b = [a EXCEPT !.opcode = lit]
    BY <1>3 DEF parse_event_meta
  <2> QED
    BY <1>3, <2>1 DEF IsResult
<1>4. CASE b # Fail(a) /\ meta.key = "task"
  <2>1. b = [a EXCEPT !.task = lit]
    BY <1>4 DEF parse_event_meta
  <2> QED
    BY <1>4, <2>1 DEF IsResult
<1>5. CASE b # Fail(a) /\ meta.key = "keyword"
  <2>1. b = [a EXCEPT !.keyword = lit]
    BY <1>5 DEF parse_event_meta
  <2> QED
    BY <1>5, <2>1 DEF IsResult
<1>6. CASE b # Fail(a) /\ meta.key = "id"
  <2>1. b = [a EXCEPT !.event_id = lit.v]
    BY <1>6 DEF parse_event_meta
  <2> QED
    BY <1>6, <2>1 DEF IsResult
<1>7. CASE /\ meta.key # "level" /\ meta.key # "opcode" /\ meta.key # "task"
           /\ meta.key # "keyword" /\ meta.key # "id"
  <2>1. parse_event_meta(a, meta) = Fail(a)
    BY <1>7 DEF parse_event_meta
  <2> QED
    BY <1>1, <2>1
<1> QED
  BY <1>1, <1>2, <1>3, <1>4, <1>5, <1>6, <1>7

\* The literal of the last of the metas with a key.
LastLit(metas, key, default) ==
  LET about == {k \in DOMAIN metas : metas[k].key = key}
  IN  IF about = {} THEN default ELSE metas[Max(about)].lit

\* The maximum of a set of numbers up to n that is not empty.
LEMMA LargestOf ==
  ASSUME NEW n \in Nat, NEW S \in SUBSET (1..n), S # {}
  PROVE  \E j \in S : \A m \in S : m <= j
<1> DEFINE Above == {d \in 0..n : n - d \in S}
<1>1. PICK x \in S : TRUE
  OBVIOUS
<1>2. n - x \in Above
  <2>1. n - x \in 0..n /\ n - (n - x) = x
    OBVIOUS
  <2> QED
    BY <2>1, Zenon
<1>3. PICK d \in Above : \A e \in Above : d <= e
  <2>1. Above \in SUBSET Nat
    OBVIOUS
  <2>2. Above # {}
    BY <1>2, Zenon
  <2> HIDE DEF Above
  <2> QED
    BY <2>1, <2>2, Nesting!Least
<1>4. ASSUME NEW m \in S PROVE m <= n - d
  <2>1. n - m \in 0..n /\ n - (n - m) = m
    OBVIOUS
  <2>2. n - m \in Above
    BY <2>1, Zenon
  <2>3. d <= n - m
    BY <1>3, <2>2
  <2> QED
    BY <1>3, <2>3
<1> QED
  BY <1>3, <1>4

\* A number of the set with none above it is the maximum.
LEMMA MaxIs ==
  ASSUME NEW S \in SUBSET Nat, NEW n \in S, \A m \in S : m <= n
  PROVE  Max(S) = n
<1>1. \A m \in S : n >= m
  OBVIOUS
<1>2. \A a \in S : (\A m \in S : a >= m) => a = n
  OBVIOUS
<1> QED
  BY <1>1, <1>2, Zenon DEF Max

\* One meta more is the last of its key, and leaves the others.
LEMMA LastLitStep ==
  ASSUME NEW E, NEW metas \in Seq(E), NEW meta, NEW key, NEW default
  PROVE  LastLit(Append(metas, meta), key, default)
           = IF meta.key = key THEN meta.lit ELSE LastLit(metas, key, default)
<1> DEFINE more == Append(metas, meta)
<1>1. PICK n \in Nat : n = Len(metas) /\ DOMAIN metas = 1..n
  OBVIOUS
<1>2. DOMAIN more = 1..n + 1 /\ more[n + 1] = meta /\ \A k \in 1..n : more[k] = metas[k]
  BY <1>1
<1> HIDE DEF more
<1> DEFINE about == {k \in DOMAIN metas : metas[k].key = key}
           now   == {k \in DOMAIN more : more[k].key = key}
<1>3. CASE meta.key = key
  <2>1. now \in SUBSET Nat /\ n + 1 \in now /\ \A m \in now : m <= n + 1
    BY <1>1, <1>2, <1>3
  <2>2. Max(now) = n + 1
    <3> HIDE DEF now
    <3> QED
      BY <2>1, MaxIs
  <2>3. LastLit(more, key, default) = more[Max(now)].lit
    <3>1. now # {}
      BY <2>1
    <3> QED
      BY <3>1, Zenon DEF LastLit
  <2> QED
    BY <1>2, <1>3, <2>2, <2>3 DEF more
<1>4. CASE meta.key # key
  <2>1. now = about
    BY <1>1, <1>2, <1>4
  <2>2. CASE about = {}
    BY <1>4, <2>1, <2>2, Zenon DEF LastLit, more
  <2>3. CASE about # {}
    <3>1. \E j \in about : \A m \in about : m <= j
      <4>1. about \in SUBSET (1..n)
        BY <1>1
      <4> HIDE DEF about
      <4> QED
        BY <2>3, <4>1, LargestOf
    <3>2. PICK j \in about : \A m \in about : m <= j
      BY <3>1
    <3>3. Max(about) = j
      <4>1. about \in SUBSET Nat
        BY <1>1
      <4> HIDE DEF about
      <4> QED
        BY <3>2, <4>1, MaxIs
    <3>4. more[j] = metas[j]
      BY <1>1, <1>2, <3>2
    <3>5. LastLit(metas, key, default) = metas[Max(about)].lit
      BY <2>3, Zenon DEF LastLit
    <3>6. LastLit(more, key, default) = more[Max(now)].lit
      BY <2>1, <2>3, Zenon DEF LastLit
    <3>7. LastLit(more, key, default) = LastLit(metas, key, default)
      BY <2>1, <3>3, <3>4, <3>5, <3>6
    <3> QED
      BY <1>4, <3>7, Zenon DEF more
  <2> QED
    BY <2>2, <2>3
<1> QED
  BY <1>3, <1>4

\* What the result of reading says is what the metas say last.
Says(a, metas) ==
  /\ a.level  = AsLevel(LastLit(metas, "level", StrLit("verbose")))
  /\ a.opcode = LastLit(metas, "opcode", IntLit(0))
  /\ a.task   = LastLit(metas, "task", IntLit(0))
  /\ LastLit(metas, "keyword", IntLit(0)) = IF a.keyword = None THEN IntLit(0) ELSE a.keyword

\* A meta read without an error is heard.
LEMMA SaysStep ==
  ASSUME NEW a, IsResult(a), NEW E, NEW metas \in Seq(E), Says(a, metas), NEW meta, meta.lit # None,
         NEW b, b = parse_event_meta(a, meta), b.errors = {}
  PROVE  Says(b, Append(metas, meta))
<1>1. /\ b.level = IF meta.key = "level" THEN AsLevel(meta.lit) ELSE a.level
      /\ b.opcode = IF meta.key = "opcode" THEN meta.lit ELSE a.opcode
      /\ b.task = IF meta.key = "task" THEN meta.lit ELSE a.task
      /\ b.keyword = IF meta.key = "keyword" THEN meta.lit ELSE a.keyword
  BY MetaStep, ZenonT(30)
<1> DEFINE more == Append(metas, meta)
<1>2. /\ LastLit(more, "level", StrLit("verbose"))
           = IF meta.key = "level" THEN meta.lit ELSE LastLit(metas, "level", StrLit("verbose"))
      /\ LastLit(more, "opcode", IntLit(0))
           = IF meta.key = "opcode" THEN meta.lit ELSE LastLit(metas, "opcode", IntLit(0))
      /\ LastLit(more, "task", IntLit(0))
           = IF meta.key = "task" THEN meta.lit ELSE LastLit(metas, "task", IntLit(0))
      /\ LastLit(more, "keyword", IntLit(0))
           = IF meta.key = "keyword" THEN meta.lit ELSE LastLit(metas, "keyword", IntLit(0))
  BY LastLitStep
<1> HIDE DEF more
<1>3. Says(b, more)
  BY <1>1, <1>2 DEF Says
<1> QED
  BY <1>3 DEF more

\* Metas, every one with a literal.
Literal(E) == \A e \in E : e.lit # None

\* c is what reading more metas makes of a.
Continues(c, a, before, metas) ==
  /\ IsResult(c) /\ c.failed = FALSE
  /\ c.errors \subseteq a.errors \cup {"attribute"}
  /\ c.errors = {} => a.errors = {}
  /\ c.errors = {} /\ Says(a, before) => Says(c, before \o metas)

\* The loop over the metas of one attribute, after others have said `before`.
LEMMA NestedMeta ==
  ASSUME NEW E, Literal(E), NEW metas \in Seq(E), NEW before \in Seq(E),
         NEW a, IsResult(a), a.failed = FALSE, NEW c, c = parse_nested_meta(a, metas)
  PROVE  Continues(c, a, before, metas)
<1>1. PICK n \in Nat : n = Len(metas) /\ DOMAIN metas = 1..n
  OBVIOUS
<1>2. PICK g : Nesting!Partials(g, a, metas, n) /\ Nesting!Fold(a, metas) = g[n]
  BY <1>1, Nesting!FoldSteps
<1> DEFINE pre(k) == before \o SubSeq(metas, 1, k)
           P(k) == /\ IsResult(g[k])
                   /\ g[k].failed => g[k].errors # {}
                   /\ g[k].errors \subseteq a.errors \cup {"attribute"}
                   /\ a.errors \subseteq g[k].errors
                   /\ g[k].errors = {} /\ Says(a, before) => Says(g[k], pre(k))
           S == {k \in 0..n : P(k)}
<1>3. 0 \in S
  <2>1. g[0] = a
    BY <1>2 DEF Nesting!Partials
  <2>2. pre(0) = before
    BY <1>1
  <2> HIDE DEF pre
  <2> QED
    BY <2>1, <2>2
<1>4. ASSUME NEW k \in 0..n - 1, k \in S PROVE k + 1 \in S
  <2>1. P(k) /\ g[k + 1] = ReadMeta(g[k], metas[k + 1])
    BY <1>2, <1>4 DEF Nesting!Partials
  <2>2. metas[k + 1] \in E /\ metas[k + 1].lit # None
    BY <1>1 DEF Literal
  <2>3. pre(k) \in Seq(E) /\ pre(k + 1) = Append(pre(k), metas[k + 1])
    <3>1. /\ SubSeq(metas, 1, k) \in Seq(E) /\ Len(SubSeq(metas, 1, k)) = k
          /\ SubSeq(metas, 1, k + 1) = Append(SubSeq(metas, 1, k), metas[k + 1])
      BY <1>1
    <3>2. \A s \in Seq(E), e \in E : before \o Append(s, e) = Append(before \o s, e)
      OBVIOUS
    <3> QED
      BY <2>2, <3>1, <3>2
  <2> HIDE DEF pre
  <2>4. CASE g[k].failed
    <3>1. g[k + 1] = g[k] /\ g[k].errors # {}
      BY <2>1, <2>4 DEF ReadMeta
    <3> QED
      BY <2>1, <2>4, <3>1
  <2>5. CASE ~g[k].failed
    <3>1. g[k + 1] = parse_event_meta(g[k], metas[k + 1])
      BY <2>1, <2>5 DEF ReadMeta
    <3>0. PICK b, d : b = g[k] /\ d = g[k + 1]
      OBVIOUS
    <3>2. /\ IsResult(d) /\ b.errors \subseteq d.errors /\ d.errors \subseteq b.errors \cup {"attribute"}
          /\ d.failed => d.errors # {}
      <4>1. PICK m : m = metas[k + 1]
        OBVIOUS
      <4>2. IsResult(b) /\ d = parse_event_meta(b, m) /\ ~b.failed
        BY <2>1, <2>5, <3>0, <3>1, <4>1
      <4> QED
        BY <4>2, MetaStep
    <3>3. ASSUME d.errors = {}, Says(a, before) PROVE Says(d, pre(k + 1))
      <4>1. b.errors = {}
        BY <3>2, <3>3
      <4>2. IsResult(b) /\ Says(b, pre(k))
        BY <2>1, <3>0, <3>3, <4>1
      <4>3. d = parse_event_meta(b, metas[k + 1])
        BY <3>0, <3>1
      <4> QED
        BY <2>2, <2>3, <3>3, <4>2, <4>3, SaysStep
    <3>4. k + 1 \in 0..n
      OBVIOUS
    <3> QED
      BY <2>1, <3>0, <3>2, <3>3, <3>4
  <2> QED
    BY <2>4, <2>5
<1>5. n \in S
  <2>1. 0..n \subseteq S
    <3> HIDE DEF S
    <3> QED
      BY <1>3, <1>4, Nesting!UpTo
  <2> QED
    BY <2>1
<1>6. P(n) /\ pre(n) = before \o metas
  <2>1. SubSeq(metas, 1, n) = metas
    BY <1>1
  <2> QED
    BY <1>5, <2>1
<1>7. PICK r : r = g[n]
  OBVIOUS
<1>8. c = [r EXCEPT !.failed = FALSE] /\ IsResult(r)
  BY <1>2, <1>6, <1>7, MetasFolded
<1>9. /\ IsResult(c) /\ c.failed = FALSE /\ c.errors = r.errors /\ c.level = r.level
      /\ c.opcode = r.opcode /\ c.task = r.task /\ c.keyword = r.keyword
  BY <1>8 DEF IsResult
<1>10. Says(r, before \o metas) => Says(c, before \o metas)
  BY <1>9 DEF Says
<1> HIDE DEF pre
<1> QED
  BY <1>6, <1>7, <1>9, <1>10 DEF Continues

\* Without metas the result says the defaults.
LEMMA UnsetSays == IsResult(Unset) /\ Says(Unset, <<>>)
<1>1. \A key, default : LastLit(<<>>, key, default) = default
  <2>1. ASSUME NEW key, NEW default PROVE LastLit(<<>>, key, default) = default
    <3>1. DOMAIN <<>> = {}
      OBVIOUS
    <3> QED
      BY <3>1 DEF LastLit
  <2> QED
    BY <2>1
<1>2. AsLevel(StrLit("verbose")) = Unset.level
  BY DEF AsLevel, StrLit, Unset, IntLit, LevelNames
<1>3. /\ LastLit(<<>>, "level", StrLit("verbose")) = StrLit("verbose")
      /\ LastLit(<<>>, "opcode", IntLit(0)) = IntLit(0) /\ LastLit(<<>>, "task", IntLit(0)) = IntLit(0)
      /\ LastLit(<<>>, "keyword", IntLit(0)) = IntLit(0)
  BY <1>1
<1>4. Unset.opcode = IntLit(0) /\ Unset.task = IntLit(0) /\ Unset.keyword = None
  BY DEF Unset
<1> QED
  BY <1>2, <1>3, <1>4 DEF Says, IsResult, Unset

MetasOf(attr) == IF attr.path = "event" THEN attr.metas ELSE <<>>

\* What parse_event_attributes makes of all the attributes of a method.
LEMMA AttributesSay ==
  ASSUME NEW E, Literal(E),
         NEW A, \A attr \in A : attr.metas \in Seq(E), NEW attrs \in Seq(A)
  PROVE  /\ IsResult(parse_event_attributes(attrs))
         /\ parse_event_attributes(attrs).errors \subseteq {"attribute"}
         /\ parse_event_attributes(attrs).errors = {} =>
              Says(parse_event_attributes(attrs), EventMetas(attrs))
<1>1. PICK n \in Nat : n = Len(attrs) /\ DOMAIN attrs = 1..n
  OBVIOUS
<1> DEFINE lists == [k \in DOMAIN attrs |-> MetasOf(attrs[k])]
<1>2. lists \in Seq(Seq(E)) /\ DOMAIN lists = 1..n
  <2>1. \A k \in 1..n : MetasOf(attrs[k]) \in Seq(E)
    BY <1>1 DEF MetasOf
  <2> QED
    BY <1>1, <2>1
<1>3. EventMetas(attrs) = Joining!Fold(<<>>, lists)
  <2>1. EventMetas(attrs) = FlattenSeq(lists)
    BY Zenon DEF EventMetas, MetasOf
  <2> HIDE DEF lists
  <2> QED
    BY <1>2, <2>1, FlattenFolded
<1>4. PICK f : Joining!Partials(f, <<>>, lists, n) /\ EventMetas(attrs) = f[n]
  <2> HIDE DEF lists
  <2> QED
    BY <1>2, <1>3, Joining!FoldSteps
<1>5. PICK g : Attributing!Partials(g, Unset, attrs, n) /\ parse_event_attributes(attrs) = g[n]
  BY <1>1, Attributing!FoldSteps, AttributesFolded
<1> DEFINE P(k) == /\ f[k] \in Seq(E) /\ IsResult(g[k]) /\ g[k].failed = FALSE
                   /\ g[k].errors \subseteq {"attribute"}
                   /\ g[k].errors = {} => Says(g[k], f[k])
           S == {k \in 0..n : P(k)}
<1>6. 0 \in S
  <2>1. g[0] = Unset /\ f[0] = <<>>
    BY <1>4, <1>5 DEF Attributing!Partials, Joining!Partials
  <2>2. Unset.failed = FALSE /\ Unset.errors = {} /\ <<>> \in Seq(E)
    BY DEF Unset
  <2>3. P(0)
    BY <2>1, <2>2, UnsetSays, Zenon
  <2> QED
    BY <2>3
<1>7. ASSUME NEW k \in 0..n - 1, k \in S PROVE k + 1 \in S
  <2> DEFINE attr == attrs[k + 1]
  <2>0. PICK a : a = g[k]
    OBVIOUS
  <2>1. PICK c : c = g[k + 1]
    OBVIOUS
  <2>2. /\ f[k] \in Seq(E) /\ IsResult(a) /\ a.failed = FALSE /\ a.errors \subseteq {"attribute"}
        /\ a.errors = {} => Says(a, f[k])
    BY <1>7, <2>0
  <2>3. c = ReadAttribute(a, attr) /\ f[k + 1] = f[k] \o MetasOf(attr)
    <3>1. lists[k + 1] = MetasOf(attr)
      BY <1>1
    <3> HIDE DEF lists
    <3> QED
      BY <1>4, <1>5, <2>0, <2>1, <3>1 DEF Attributing!Partials, Joining!Partials, Join
  <2>4. attr \in A /\ attr.metas \in Seq(E) /\ k + 1 \in 0..n
    BY <1>1
  <2>5. SUFFICES /\ f[k + 1] \in Seq(E) /\ IsResult(c) /\ c.failed = FALSE
                 /\ c.errors \subseteq {"attribute"}
                 /\ c.errors = {} => Says(c, f[k + 1])
    BY <2>1, <2>4
  <2> HIDE DEF attr, P, S
  <2>6. CASE attr.path = "event"
    <3>1. c = parse_nested_meta(a, attr.metas) /\ f[k + 1] = f[k] \o attr.metas
      BY <2>3, <2>6 DEF ReadAttribute, MetasOf
    <3>2. /\ IsResult(c) /\ c.failed = FALSE
          /\ c.errors \subseteq a.errors \cup {"attribute"}
          /\ c.errors = {} => a.errors = {}
          /\ c.errors = {} /\ Says(a, f[k]) => Says(c, f[k] \o attr.metas)
      <4>1. PICK metas, before : metas = attr.metas /\ before = f[k]
        OBVIOUS
      <4>2. /\ metas \in Seq(E) /\ c = parse_nested_meta(a, metas) /\ IsResult(a) /\ a.failed = FALSE
            /\ before \in Seq(E)
        BY <2>2, <2>4, <3>1, <4>1
      <4>3. Continues(c, a, before, metas)
        BY <4>2, NestedMeta
      <4> QED
        BY <4>1, <4>3 DEF Continues
    <3>3. f[k] \o attr.metas \in Seq(E)
      BY <2>2, <2>4
    <3> QED
      BY <2>2, <3>1, <3>2, <3>3
  <2>7. CASE attr.path # "event"
    <3>1. f[k + 1] = f[k]
      <4>1. \A s \in Seq(E) : s \o <<>> = s
        OBVIOUS
      <4> QED
        BY <2>2, <2>3, <2>7, <4>1 DEF MetasOf
    <3>2. CASE attr.path = "doc"
      <4>1. c = a
        BY <2>3, <2>7, <3>2 DEF ReadAttribute
      <4> QED
        BY <2>2, <3>1, <4>1
    <3>3. CASE attr.path # "doc"
      <4>1. c = [a EXCEPT !.errors = @ \cup {"attribute"}]
        BY <2>3, <2>7, <3>3 DEF ReadAttribute
      <4>2. IsResult(c) /\ c.failed = FALSE /\ c.errors = a.errors \cup {"attribute"}
        BY <2>2, <4>1 DEF IsResult
      <4> QED
        BY <2>2, <3>1, <4>2
    <3> QED
      BY <3>2, <3>3
  <2> QED
    BY <2>6, <2>7
<1>8. n \in S
  <2>1. 0..n \subseteq S
    <3> HIDE DEF S
    <3> QED
      BY <1>6, <1>7, Attributing!UpTo
  <2> QED
    BY <2>1
<1> QED
  BY <1>4, <1>5, <1>8

\* A method of a trait, and the metas of its attributes, are sequences.
LEMMA MethodShape ==
  ASSUME NEW t \in Traits, NEW i \in 1..Len(t.methods)
  PROVE  \E E, A : /\ Literal(E) /\ t.methods[i].attrs \in Seq(A)
                   /\ \A attr \in A : attr.metas \in Seq(E)
<1>1. PICK m : m = t.methods[i]
  OBVIOUS
<1>2. m \in ToSet(t.methods)
  <2>1. t.methods \in Seq(ToSet(t.methods))
    BY SyntaxAssumption DEF SyntaxAssumption, IsSequence
  <2> QED
    BY <1>1, <2>1
<1>3. /\ m.attrs \in Seq(ToSet(m.attrs))
      /\ \A attr \in ToSet(m.attrs) :
           attr.metas \in Seq(ToSet(attr.metas)) /\ \A meta \in ToSet(attr.metas) : meta.lit # None
  BY <1>2, SyntaxAssumption, Zenon DEF SyntaxAssumption, IsSequence
<1> DEFINE A == ToSet(m.attrs)
           E == UNION {ToSet(attr.metas) : attr \in A}
<1>4. ASSUME NEW attr \in A PROVE attr.metas \in Seq(E)
  <2>1. PICK metas : metas = attr.metas
    OBVIOUS
  <2>2. metas \in Seq(ToSet(metas)) /\ ToSet(metas) \subseteq E
    BY <1>3, <1>4, <2>1
  <2> HIDE DEF E
  <2>3. metas \in Seq(E)
    BY <2>2
  <2> QED
    BY <2>1, <2>3
<1>5. Literal(E)
  BY <1>3 DEF Literal
<1> QED
  BY <1>1, <1>3, <1>4, <1>5

\* What is read from the attributes of a method of a trait.
LEMMA MethodReads ==
  ASSUME NEW t \in Traits, NEW i \in 1..Len(t.methods),
         NEW a, a = parse_event_attributes(t.methods[i].attrs)
  PROVE  /\ IsResult(a) /\ a.errors \subseteq {"attribute"}
         /\ a.errors = {} => Says(a, EventMetas(t.methods[i].attrs))
<1>1. PICK E, A : /\ Literal(E) /\ t.methods[i].attrs \in Seq(A)
                  /\ \A attr \in A : attr.metas \in Seq(E)
  BY MethodShape
<1> QED
  BY <1>1, AttributesSay

-----------------------------------------------------------------------------
(* What the arguments of the provider's attribute come to.                 *)

ReadArgument(b, arg) == IF b.errors = {} THEN parse_argument(b, arg) ELSE b

Arguing == INSTANCE FoldTheorems WITH op <- ReadArgument

\* The loop over the arguments is a fold.
LEMMA ArgumentsFolded ==
  ASSUME NEW args, NEW a, a = Arguing!Fold(Empty, args)
  PROVE  parse(args) = IF a.errors = {} THEN a ELSE Refuse(Empty)
<1>1. parse(args) = LET c == Arguing!Fold(Empty, args)
                    IN  IF c.errors = {} THEN c ELSE Refuse(Empty)
  BY Zenon DEF parse, ReadArgument, Arguing!Fold, Arguing!FoldLeft, FoldLeft,
               Arguing!MapThenFoldSet, MapThenFoldSet, Max, Arguing!Max
<1> QED
  BY <1>1, Zenon

IsReading(a) ==
  a = [uuid |-> a.uuid, provider_name |-> a.provider_name,
       provider_group_guid |-> a.provider_group_guid, errors |-> a.errors]

\* What an argument gives to its key, and how it is written.
Content(arg, key) == IF key = "name" THEN arg.text ELSE arg.guid
KindOf(key)       == IF key = "name" THEN "text" ELSE "guid"

\* v is what each of the first k arguments with the key gives it, or None
\* without any.
Gives(v, args, k, key) ==
  /\ \A i \in 1..k : args[i].key = key =>
       v = Content(args[i], key) /\ v # None /\ args[i].kind = KindOf(key)
  /\ v # None => \E i \in 1..k : args[i].key = key

\* A key that was not given yet is given now.
LEMMA GivenNow ==
  ASSUME NEW args, NEW k \in Nat, NEW key, Gives(None, args, k, key), NEW v, v # None,
         args[k + 1].key = key, args[k + 1].kind = KindOf(key), v = Content(args[k + 1], key)
  PROVE  Gives(v, args, k + 1, key)
<1>1. k + 1 \in 1..k + 1 /\ \A i \in 1..k + 1 : i \in 1..k \/ i = k + 1
  OBVIOUS
<1>2. \A i \in 1..k : args[i].key # key
  BY DEF Gives
<1> QED
  BY <1>1, <1>2, Zenon DEF Gives

\* An argument with another key changes nothing.
LEMMA GivenStill ==
  ASSUME NEW args, NEW k \in Nat, NEW key, NEW v, Gives(v, args, k, key), args[k + 1].key # key
  PROVE  Gives(v, args, k + 1, key)
<1>1. /\ \A i \in 1..k + 1 : i \in 1..k \/ i = k + 1
      /\ \A i \in 1..k : i \in 1..k + 1
  OBVIOUS
<1> QED
  BY <1>1, Zenon DEF Gives

\* After k arguments without an error.
Heard(a, args, k) ==
  /\ Gives(a.uuid, args, k, "guid")
  /\ Gives(a.provider_name, args, k, "name")
  /\ Gives(a.provider_group_guid, args, k, "provider_group_guid")

\* One argument: refused, or heard.
LEMMA ArgumentStep ==
  ASSUME NEW a, IsReading(a), a.errors = {}, NEW args, NEW k \in Nat, Heard(a, args, k),
         NEW arg, arg = args[k + 1], NEW b, b = parse_argument(a, arg),
         arg.kind = "guid" => arg.guid # None, arg.kind = "text" => arg.text # None
  PROVE  /\ IsReading(b) /\ b.errors \subseteq {"provider attribute"}
         /\ b.errors = {} => Heard(b, args, k + 1)
<1>1. CASE b = Refuse(a)
  <2>1. IsReading(b) /\ b.errors = {"provider attribute"}
    BY <1>1 DEF Refuse, IsReading
  <2> QED
    BY <2>1
<1>2. CASE b # Refuse(a) /\ arg.key = "guid"
  <2>1. b = [a EXCEPT !.uuid = arg.guid] /\ a.uuid = None /\ arg.kind = "guid"
    BY <1>2 DEF parse_argument, IsGuid
  <2>2. /\ IsReading(b) /\ b.errors = {} /\ b.uuid = arg.guid /\ b.provider_name = a.provider_name
        /\ b.provider_group_guid = a.provider_group_guid
    BY <2>1 DEF IsReading
  <2>3. Gives(arg.guid, args, k + 1, "guid")
    <3>1. arg.guid = Content(arg, "guid") /\ KindOf("guid") = "guid"
      BY DEF Content, KindOf
    <3> QED
      BY <1>2, <2>1, <3>1, GivenNow DEF Heard
  <2>4. /\ Gives(a.provider_name, args, k + 1, "name")
        /\ Gives(a.provider_group_guid, args, k + 1, "provider_group_guid")
    BY <1>2, GivenStill DEF Heard
  <2> QED
    BY <2>2, <2>3, <2>4 DEF Heard
<1>3. CASE b # Refuse(a) /\ arg.key = "name"
  <2>1. b = [a EXCEPT !.provider_name = arg.text] /\ a.provider_name = None /\ arg.kind = "text"
    BY <1>3 DEF parse_argument
  <2>2. /\ IsReading(b) /\ b.errors = {} /\ b.provider_name = arg.text /\ b.uuid = a.uuid
        /\ b.provider_group_guid = a.provider_group_guid
    BY <2>1 DEF IsReading
  <2>3. Gives(arg.text, args, k + 1, "name")
    <3>1. arg.text = Content(arg, "name") /\ KindOf("name") = "text"
      BY DEF Content, KindOf
    <3> QED
      BY <1>3, <2>1, <3>1, GivenNow DEF Heard
  <2>4. /\ Gives(a.uuid, args, k + 1, "guid")
        /\ Gives(a.provider_group_guid, args, k + 1, "provider_group_guid")
    BY <1>3, GivenStill DEF Heard
  <2> QED
    BY <2>2, <2>3, <2>4 DEF Heard
<1>4. CASE b # Refuse(a) /\ arg.key = "provider_group_guid"
  <2>1. b = [a EXCEPT !.provider_group_guid = arg.guid] /\ a.provider_group_guid = None /\ arg.kind = "guid"
    BY <1>4 DEF parse_argument, IsGuid
  <2>2. /\ IsReading(b) /\ b.errors = {} /\ b.provider_group_guid = arg.guid
        /\ b.provider_name = a.provider_name /\ b.uuid = a.uuid
    BY <2>1 DEF IsReading
  <2>3. Gives(arg.guid, args, k + 1, "provider_group_guid")
    <3>1. arg.guid = Content(arg, "provider_group_guid") /\ KindOf("provider_group_guid") = "guid"
      BY DEF Content, KindOf
    <3> QED
      BY <1>4, <2>1, <3>1, GivenNow DEF Heard
  <2>4. Gives(a.uuid, args, k + 1, "guid") /\ Gives(a.provider_name, args, k + 1, "name")
    BY <1>4, GivenStill DEF Heard
  <2> QED
    BY <2>2, <2>3, <2>4 DEF Heard
<1>5. CASE b # Refuse(a) /\ arg.key # "guid" /\ arg.key # "name" /\ arg.key # "provider_group_guid"
  <2>1. b = a
    BY <1>5 DEF parse_argument
  <2>2. Heard(a, args, k + 1)
    BY <1>5, GivenStill DEF Heard
  <2> QED
    BY <2>1, <2>2
<1> QED
  BY <1>1, <1>2, <1>3, <1>4, <1>5

\* All the arguments of a trait.
LEMMA ArgumentsHeard ==
  ASSUME NEW t \in Traits, NEW p, p = parse(t.args)
  PROVE  /\ p.errors \subseteq {"provider attribute"}
         /\ p.errors = {} => Heard(p, t.args, Len(t.args))
<1>1. PICK args : args = t.args
  OBVIOUS
<1>2. args \in Seq(ToSet(args))
  BY <1>1, SyntaxAssumption DEF SyntaxAssumption, IsSequence
<1>3. PICK n \in Nat : n = Len(args) /\ DOMAIN args = 1..n
  BY <1>2
<1>4. \A i \in 1..n : /\ args[i].kind = "guid" => args[i].guid # None
                      /\ args[i].kind = "text" => args[i].text # None
  <2>1. \A arg \in ToSet(args) : /\ arg.kind = "guid" => arg.guid # None
                                 /\ arg.kind = "text" => arg.text # None
    BY <1>1, SyntaxAssumption, Zenon DEF SyntaxAssumption
  <2> QED
    BY <1>2, <1>3, <2>1
<1>5. PICK g : Arguing!Partials(g, Empty, args, n) /\ Arguing!Fold(Empty, args) = g[n]
  BY <1>3, Arguing!FoldSteps
<1> DEFINE P(k) == /\ IsReading(g[k]) /\ g[k].errors \subseteq {"provider attribute"}
                   /\ g[k].errors = {} => Heard(g[k], args, k)
           S == {k \in 0..n : P(k)}
<1>6. 0 \in S
  <2>1. g[0] = Empty
    BY <1>5 DEF Arguing!Partials
  <2>2. IsReading(Empty) /\ Empty.errors = {} /\ Heard(Empty, args, 0)
    BY DEF IsReading, Empty, Heard, Gives
  <2>3. P(0)
    BY <2>1, <2>2
  <2>4. 0 \in 0..n
    OBVIOUS
  <2> HIDE DEF P
  <2> QED
    BY <2>3, <2>4, Zenon
<1>7. ASSUME NEW k \in 0..n - 1, k \in S PROVE k + 1 \in S
  <2>1. PICK a, b, arg : a = g[k] /\ b = g[k + 1] /\ arg = args[k + 1]
    OBVIOUS
  <2>2. /\ IsReading(a) /\ a.errors \subseteq {"provider attribute"}
        /\ a.errors = {} => Heard(a, args, k)
    BY <1>7, <2>1
  <2>3. b = ReadArgument(a, arg) /\ k \in Nat /\ k + 1 \in 1..n
    BY <1>5, <2>1 DEF Arguing!Partials
  <2>4. (arg.kind = "guid" => arg.guid # None) /\ (arg.kind = "text" => arg.text # None)
    BY <1>4, <2>1, <2>3
  <2>5. /\ IsReading(b) /\ b.errors \subseteq {"provider attribute"}
        /\ b.errors = {} => Heard(b, args, k + 1)
    <3>1. CASE a.errors = {}
      <4>1. b = parse_argument(a, arg) /\ Heard(a, args, k) /\ IsReading(a)
        BY <2>2, <2>3, <3>1 DEF ReadArgument
      <4> QED
        BY <2>1, <2>3, <2>4, <3>1, <4>1, ArgumentStep
    <3>2. CASE a.errors # {}
      <4>1. b = a
        BY <2>3, <3>2 DEF ReadArgument
      <4> QED
        BY <2>2, <3>2, <4>1
    <3> QED
      BY <3>1, <3>2
  <2>6. P(k + 1)
    BY <2>1, <2>5
  <2>7. k + 1 \in 0..n
    OBVIOUS
  <2> HIDE DEF P
  <2> QED
    BY <2>6, <2>7, Zenon
<1>8. P(n)
  <2>1. 0..n \subseteq S
    <3> HIDE DEF S
    <3> QED
      BY <1>6, <1>7, Arguing!UpTo
  <2>2. n \in 0..n
    OBVIOUS
  <2> HIDE DEF P
  <2> QED
    BY <2>1, <2>2, Zenon
<1>9. PICK a : a = g[n]
  OBVIOUS
<1>10. p = IF a.errors = {} THEN a ELSE Refuse(Empty)
  BY <1>1, <1>5, <1>9, ArgumentsFolded
<1>11. Refuse(Empty).errors = {"provider attribute"}
  BY DEF Refuse, Empty
<1> QED
  BY <1>1, <1>3, <1>8, <1>9, <1>10, <1>11

-----------------------------------------------------------------------------
(* Types, descriptors and identities.  The second invariant says what the  *)
(* expansion has made of the trait so far, and what the program that runs  *)
(* has made of the expansion.                                              *)

Kinds == {"signature", "type", "mixed ids", "duplicate id", "too large",
          "attribute", "provider attribute", "name"}

\* What the absence of errors tells about the trait and the events made.
Clean ==
  /\ Attributes.errors = {} /\ ~NameTooLong(provider_name)
  /\ expansion.index = 0 => expansion.event_id_mappings = {}
  /\ expansion.event_ids_auto_generated => expansion.event_id_mappings = {}
  /\ \A i \in 1..expansion.index :
       LET a == parse_event_attributes(trait.methods[i].attrs)
       IN  expansion.events[i].attrs = a /\ a.errors = {}

Generated ==
  /\ Len(expansion.events) <= expansion.index
  /\ expansion.errors \subseteq Kinds
  /\ expansion.errors = {} => Clean

\* A provider is what EventRegister was given, and the traits it took.
Enrolled(p) == \E asked \in {None, PROVIDER_TRAITS}, taken \in {FALSE, TakesTraits(PROVIDER_TRAITS)} :
                 p = Registered(asked, taken)

\* An event is described by the method that was called.
Written(ev) ==
  /\ ev.of \in 1..expansion.index
  /\ LET e == expansion.events[ev.of]
         l == ev.options_level
     IN  ev.descriptor = WithLevel(WithLevel(EventDescriptor(e.attrs, e.id), l), l)
  /\ ev.provider = PROVIDER_METADATA

Faithful ==
  /\ Generated
  /\ phase \in {"expanding", "rejected", "built", "running", "panicked"}
  /\ phase \in {"built", "running", "panicked"} =>
       expansion.errors = {} /\ expansion.index = Len(trait.methods)
  /\ phase \notin {"running", "panicked"} => provider = None /\ event = None
  /\ provider # None => Enrolled(provider)
  /\ event # None => Written(event)

\* The errors that reading a trait may report.
LEMMA ReadsAreKinds ==
  ASSUME NEW t \in Traits
  PROVE  /\ parse(t.args).errors \subseteq {"provider attribute"}
         /\ \A i \in 1..Len(t.methods) :
              parse_event_attributes(t.methods[i].attrs).errors \subseteq {"attribute"}
<1>1. ASSUME NEW i \in 1..Len(t.methods)
      PROVE  parse_event_attributes(t.methods[i].attrs).errors \subseteq {"attribute"}
  <2>1. PICK a : a = parse_event_attributes(t.methods[i].attrs)
    OBVIOUS
  <2> QED
    BY <2>1, MethodReads
<1>2. PICK p : p = parse(t.args)
  OBVIOUS
<1> QED
  BY <1>1, <1>2, ArgumentsHeard

\* Before the first method there are only the errors of the arguments.
LEMMA InitFaithful == Init => Faithful
<1> SUFFICES ASSUME Init PROVE Faithful
  OBVIOUS
<1>1. /\ trait \in Traits /\ phase = "expanding" /\ expansion.index = 0
      /\ expansion.events = <<>> /\ expansion.event_id_mappings = {}
      /\ expansion.errors = Attributes.errors \cup (IF NameTooLong(provider_name) THEN {"name"} ELSE {})
      /\ provider = None /\ event = None
  BY DEF Init
<1>2. Attributes.errors \subseteq {"provider attribute"}
  BY <1>1, ReadsAreKinds DEF Attributes
<1>3. expansion.errors \subseteq Kinds
  BY <1>1, <1>2 DEF Kinds
<1>4. expansion.errors = {} => Clean
  BY <1>1 DEF Clean
<1>5. Len(expansion.events) <= expansion.index
  BY <1>1
<1> QED
  BY <1>1, <1>3, <1>4, <1>5 DEF Faithful, Generated

\* One method more.
LEMMA ExpandGenerated == ASSUME Inv, Faithful, Expand PROVE Generated'
<1> DEFINE b == expansion
           m == trait.methods[b.index + 1]
           a == parse_event_attributes(m.attrs)
           e == GeneratedEvent(b, m, a)
           n == b.index
<1>0. /\ trait' = trait /\ trait \in Traits /\ n \in Nat /\ n < Len(trait.methods)
      /\ Len(trait.methods) \in Nat /\ n < 65535 /\ n + 1 \in 1..Len(trait.methods)
  BY Lengths16 DEF Expand, Inv, Shape
<1>1. u16(n + 1) = n + 1
  BY <1>0 DEF u16
<1>2. PICK S : b.events \in Seq(S)
  BY DEF Inv, Shape
<1>3. b.events \in Seq(S \cup {e})
  BY <1>2
<1>4. /\ Len(Append(b.events, e)) = Len(b.events) + 1
      /\ Append(b.events, e)[Len(b.events) + 1] = e
      /\ \A i \in 1..Len(b.events) : Append(b.events, e)[i] = b.events[i]
      /\ Len(b.events) \in Nat
  BY <1>3, AppendProperties
<1>5. a.errors \subseteq Kinds
  <2>1. \A i \in 1..Len(trait.methods) :
          parse_event_attributes(trait.methods[i].attrs).errors \subseteq {"attribute"}
    <3>1. trait \in Traits
      BY <1>0
    <3> QED
      BY <3>1, ReadsAreKinds, Zenon
  <2>2. PICK i \in 1..Len(trait.methods) : i = n + 1
    BY <1>0
  <2>3. parse_event_attributes(trait.methods[i].attrs).errors \subseteq {"attribute"}
    BY <2>1, Zenon
  <2>4. a.errors \subseteq {"attribute"}
    BY <2>2, <2>3
  <2> QED
    BY <2>4 DEF Kinds
<1>6. FieldErrors(m) \subseteq Kinds
  BY DEF FieldErrors, Kinds
<1>7. Generated /\ b.errors \subseteq Kinds
  BY DEF Faithful, Generated
<1>10. Len(b.events) <= n
  BY DEF Faithful, Generated
<1>8. CASE m.oversized
  <2>1. expansion' = [b EXCEPT !.index = u16(@ + 1), !.errors = @ \cup FieldErrors(m) \cup {"too large"}]
    BY <1>8 DEF Expand, Expanded, TooLarge
  <2>2. expansion'.errors = b.errors \cup FieldErrors(m) \cup {"too large"}
    BY <2>1 DEF Inv, Shape
  <2>7. expansion'.index = n + 1 /\ expansion'.events = b.events
    BY <1>1, <2>1 DEF Inv, Shape
  <2>3. "too large" \in Kinds
    BY DEF Kinds
  <2> HIDE DEF m, a, e
  <2>4. Len(expansion'.events) <= expansion'.index
    BY <1>0, <1>4, <1>10, <2>7
  <2>5. expansion'.errors \subseteq Kinds /\ expansion'.errors # {}
    BY <1>6, <1>7, <2>2, <2>3
  <2> QED
    BY <2>4, <2>5, Zenon DEF Generated, Kinds
<1>9. CASE ~m.oversized
  <2>1. expansion' = [b EXCEPT
           !.index = u16(@ + 1),
           !.event_ids_auto_generated = AutoIds(b, a.event_id),
           !.event_id_mappings = IF a.event_id = None THEN @ ELSE @ \cup {a.event_id},
           !.errors = @ \cup FieldErrors(m) \cup a.errors \cup IdErrors(b, a.event_id),
           !.events = Append(@, e)]
    BY <1>9 DEF Expand, Expanded, ExpandedWith
  <2>2. /\ expansion'.index = n + 1 /\ expansion'.events = Append(b.events, e)
        /\ expansion'.event_ids_auto_generated = AutoIds(b, a.event_id)
        /\ expansion'.event_id_mappings = IF a.event_id = None THEN b.event_id_mappings
                                          ELSE b.event_id_mappings \cup {a.event_id}
        /\ expansion'.errors = b.errors \cup FieldErrors(m) \cup a.errors \cup IdErrors(b, a.event_id)
    BY <1>1, <2>1 DEF Inv, Shape
  <2>3. IdErrors(b, a.event_id) \subseteq Kinds
    BY DEF IdErrors, Kinds
  <2>4. e.attrs = a
    BY DEF GeneratedEvent
  <2>5. ASSUME expansion'.errors = {} PROVE Clean'
    <3>1. b.errors = {} /\ IdErrors(b, a.event_id) = {} /\ a.errors = {}
      BY <2>2, <2>5
    <3>2. AutoIds(b, a.event_id) <=> a.event_id = None
      BY <3>1 DEF IdErrors
    <3>3. Clean /\ Len(b.events) = n
      BY <1>7, <3>1 DEF Generated, Inv, IdsOK
    <3>4. Attributes' = Attributes /\ provider_name' = provider_name
      BY <1>0 DEF Attributes, provider_name
    <3>5. AutoIds(b, a.event_id) => expansion'.event_id_mappings = {}
      <4>1. CASE n = 0
        BY <2>2, <3>2, <3>3, <4>1 DEF Clean
      <4>2. CASE n # 0
        BY <2>2, <3>2, <3>3, <4>2 DEF AutoIds, Clean
      <4> QED
        BY <4>1, <4>2
    <3>6. ASSUME NEW i \in 1..n + 1
          PROVE  LET c == parse_event_attributes(trait.methods[i].attrs)
                 IN  expansion'.events[i].attrs = c /\ c.errors = {}
      <4>1. CASE i = n + 1
        BY <1>4, <2>2, <2>4, <3>1, <3>3, <4>1
      <4>2. CASE i \in 1..n
        <5>1. expansion'.events[i] = b.events[i]
          BY <1>4, <2>2, <3>3, <4>2
        <5> QED
          BY <3>3, <4>2, <5>1 DEF Clean
      <4> QED
        BY <1>0, <4>1, <4>2
    <3>7. expansion'.index # 0
      BY <1>0, <2>2
    <3> HIDE DEF b, m, a, e
    <3>8. Attributes'.errors = {} /\ ~NameTooLong(provider_name')
      BY <3>3, <3>4 DEF Clean
    <3>9. ASSUME NEW i \in 1..expansion'.index
          PROVE  LET c == parse_event_attributes(trait'.methods[i].attrs)
                 IN  expansion'.events[i].attrs = c /\ c.errors = {}
      <4>1. i \in 1..n + 1
        BY <2>2
      <4> HIDE DEF n
      <4>2. LET c == parse_event_attributes(trait.methods[i].attrs)
            IN  expansion'.events[i].attrs = c /\ c.errors = {}
        BY <3>6, <4>1, Zenon
      <4>3. trait' = trait
        BY <1>0
      <4> QED
        BY <4>2, <4>3
    <3>10. /\ expansion'.index = 0 => expansion'.event_id_mappings = {}
           /\ expansion'.event_ids_auto_generated => expansion'.event_id_mappings = {}
      BY <2>2, <3>5, <3>7
    <3> QED
      BY <3>8, <3>9, <3>10, Zenon DEF Clean
  <2> HIDE DEF m, a, e
  <2>6. Len(expansion'.events) <= expansion'.index
    BY <1>0, <1>4, <1>10, <2>2
  <2>7. expansion'.errors \subseteq Kinds
    BY <1>5, <1>6, <1>7, <2>2, <2>3 DEF Generated
  <2> QED
    BY <2>5, <2>6, <2>7 DEF Generated, Kinds
<1> QED
  BY <1>8, <1>9

\* A step that leaves the trait and its expansion alone.
LEMMA GeneratedStays ==
  ASSUME Generated, UNCHANGED <<trait, expansion>> PROVE Generated'
<1>1. Attributes' = Attributes /\ provider_name' = provider_name
  BY DEF Attributes, provider_name
<1>2. (Clean' <=> Clean)
  BY <1>1, Zenon DEF Clean
<1> QED
  BY <1>2, Zenon DEF Generated, Kinds

\* A step that leaves trait and expansion alone, and keeps the program's side.
LEMMA FaithfulStays ==
  ASSUME Faithful, UNCHANGED <<trait, expansion>>,
         phase' \in {phase, "rejected", "built", "running", "panicked"},
         phase' \in {"built", "running", "panicked"} =>
           expansion.errors = {} /\ expansion.index = Len(trait.methods),
         phase' \notin {"running", "panicked"} => provider' = None /\ event' = None,
         provider' = None \/ Enrolled(provider'), event' = None \/ Written(event')
  PROVE  Faithful'
<1>1. Generated'
  BY GeneratedStays DEF Faithful
<1>2. phase' \in {"expanding", "rejected", "built", "running", "panicked"}
  BY DEF Faithful
<1>3. provider' # None => Enrolled(provider)'
  <2>1. SUFFICES ASSUME provider' # None PROVE Enrolled(provider)'
    OBVIOUS
  <2>2. PICK p : p = provider'
    OBVIOUS
  <2>3. PICK asked \in {None, PROVIDER_TRAITS}, taken \in {FALSE, TakesTraits(PROVIDER_TRAITS)} :
          p = Registered(asked, taken)
    BY <2>1, <2>2 DEF Enrolled
  <2>4. PROVIDER_TRAITS' = PROVIDER_TRAITS /\ PROVIDER_GUID' = PROVIDER_GUID
    BY DEF PROVIDER_TRAITS, PROVIDER_GUID, Attributes, provider_name
  <2> QED
    BY <2>2, <2>3, <2>4, Zenon DEF Enrolled, Registered
<1>4. event' # None => Written(event)'
  <2>1. PROVIDER_METADATA' = PROVIDER_METADATA
    BY DEF PROVIDER_METADATA, Attributes, provider_name
  <2> QED
    BY <2>1, Zenon DEF Written
<1> QED
  BY <1>1, <1>2, <1>3, <1>4, Zenon DEF Faithful

\* Expand makes an event of a method, the constructors a provider, a call an
\* event; the others leave all three alone.
LEMMA NextFaithful == Inv /\ Faithful /\ [Next]_vars => Faithful'
<1> SUFFICES ASSUME Inv, Faithful, [Next]_vars PROVE Faithful'
  OBVIOUS
<1>0. /\ phase \in {"built", "running", "panicked"} =>
           expansion.errors = {} /\ expansion.index = Len(trait.methods)
      /\ phase \notin {"running", "panicked"} => provider = None /\ event = None
      /\ provider = None \/ Enrolled(provider)
      /\ event = None \/ Written(event)
  BY DEF Faithful
<1>1. CASE Expand
  <2>1. Generated'
    BY <1>1, ExpandGenerated
  <2>2. phase' = "expanding" /\ provider' = None /\ event' = None
    BY <1>0, <1>1 DEF Expand
  <2> QED
    BY <2>1, <2>2 DEF Faithful
<1>2. CASE Compile
  <2>1. /\ UNCHANGED <<trait, expansion, provider, event>> /\ phase = "expanding"
        /\ phase' \in {"rejected", "built"}
        /\ phase' = "built" => expansion.errors = {} /\ expansion.index = Len(trait.methods)
    BY <1>2 DEF Compile
  <2> QED
    BY <1>0, <2>1, FaithfulStays
<1>3. ASSUME NEW how, NEW registered, NEW result, NEW option,
             option = None \/ Enrolled(option), Construct(how, registered, result, option)
      PROVE  Faithful'
  <2>1. /\ UNCHANGED <<trait, expansion, event>> /\ phase = "built" /\ phase' = "running"
        /\ provider' = option
    BY <1>3 DEF Construct
  <2>2. provider' = None \/ Enrolled(provider')
    BY <1>3, <2>1
  <2> QED
    BY <1>0, <2>1, <2>2, FaithfulStays
<1>4. ASSUME NEW registered \in BOOLEAN, new(registered) PROVE Faithful'
  <2>1. PICK taken \in {FALSE, TakesTraits(PROVIDER_TRAITS)} :
          Construct("new", registered, "Ok",
                    IF registered THEN Registered(PROVIDER_TRAITS, taken) ELSE None)
    BY <1>4 DEF new
  <2>2. Enrolled(Registered(PROVIDER_TRAITS, taken))
    BY Zenon DEF Enrolled
  <2> QED
    BY <1>3, <2>1, <2>2
<1>5. ASSUME NEW registered \in BOOLEAN, new_err(registered) PROVE Faithful'
  <2>1. Construct("new_err", registered, IF registered THEN "Ok" ELSE "Err",
                  IF registered THEN Registered(None, FALSE) ELSE None)
    BY <1>5 DEF new_err
  <2>2. Enrolled(Registered(None, FALSE))
    BY Zenon DEF Enrolled
  <2> QED
    BY <1>3, <2>1, <2>2
<1>6. CASE null
  BY <1>3, <1>6 DEF null
<1>7. ASSUME NEW i \in DOMAIN expansion.events, NEW args, CallPanics(i, args) PROVE Faithful'
  <2>1. UNCHANGED <<trait, expansion, provider, event>> /\ phase = "running" /\ phase' = "panicked"
    BY <1>7 DEF CallPanics
  <2> QED
    BY <1>0, <2>1, FaithfulStays
<1>8. ASSUME NEW i \in DOMAIN expansion.events, NEW args, NEW level, Call(i, args, level)
      PROVE  Faithful'
  <2>1. UNCHANGED <<trait, expansion, provider, phase>> /\ phase = "running"
    BY <1>8 DEF Call
  <2>2. i \in 1..expansion.index
    <3>1. IdsOK(expansion, expansion.index)
      BY <1>0, <2>1 DEF Inv
    <3>2. PICK S : expansion.events \in Seq(S)
      BY DEF Inv, Shape
    <3> QED
      BY <3>1, <3>2 DEF IdsOK
  <2>3. event' = event \/ Written(event')
    <3>1. SUFFICES ASSUME event' # event PROVE Written(event')
      OBVIOUS
    <3>2. PICK e, payload, ev : /\ e = expansion.events[i] /\ payload = Payload(e.params, args)
                                /\ ev = event'
      OBVIOUS
    <3>3. ev = [of |-> i, args |-> args, options_level |-> level,
                descriptor |-> WithLevel(WithLevel(EventDescriptor(e.attrs, e.id), level), level),
                provider |-> PROVIDER_METADATA,
                metadata |-> e.metadata, payload |-> payload]
      BY <1>8, <3>1, <3>2 DEF Call
    <3>4. /\ ev.of = i /\ ev.options_level = level /\ ev.provider = PROVIDER_METADATA
          /\ ev.descriptor = WithLevel(WithLevel(EventDescriptor(e.attrs, e.id), level), level)
      BY <3>3
    <3> QED
      BY <2>2, <3>2, <3>4, Zenon DEF Written
  <2> QED
    BY <1>0, <2>1, <2>3, FaithfulStays
<1>9. CASE UNCHANGED vars
  BY <1>0, <1>9, FaithfulStays DEF vars
<1> QED
  BY <1>1, <1>2, <1>4, <1>5, <1>6, <1>7, <1>8, <1>9 DEF Next

\* The expansion counts every method once, reports only errors of the known
\* kinds, and keeps the ids given only where ids are given; a registered
\* provider has the traits it asked for or none, and an event that ETW
\* accepted is one of those generated.
THEOREM TypeCorrect == Spec => []TypeOK
<1>1. Inv /\ Faithful => TypeOK
  <2> SUFFICES ASSUME Inv, Faithful PROVE TypeOK
    OBVIOUS
  <2>1. /\ phase \in {"expanding", "rejected", "built", "running", "panicked"}
        /\ expansion.index \in 0..Len(trait.methods)
        /\ Len(expansion.events) <= expansion.index
    BY DEF Faithful, Generated, Inv, Shape
  <2>2. expansion.errors \subseteq Kinds
    BY DEF Faithful, Generated
  <2>3. expansion.event_id_mappings = {} \/ ~expansion.event_ids_auto_generated
         \/ expansion.errors # {}
    BY DEF Faithful, Generated, Clean
  <2>4. provider # None => provider.traits \in {None, provider.asked}
    <3>1. SUFFICES ASSUME provider # None PROVE provider.traits \in {None, provider.asked}
      OBVIOUS
    <3>2. PICK asked, taken : provider = Registered(asked, taken)
      BY <3>1, Zenon DEF Faithful, Enrolled
    <3>3. provider.traits = (IF taken THEN asked ELSE None) /\ provider.asked = asked
      BY <3>2, Zenon DEF Registered
    <3> QED
      BY <3>3, Zenon
  <2>5. event # None => event.of \in DOMAIN expansion.events
    <3>1. SUFFICES ASSUME event # None PROVE event.of \in DOMAIN expansion.events
      OBVIOUS
    <3>2. event.of \in 1..expansion.index /\ phase \in {"running", "panicked"}
      BY <3>1 DEF Faithful, Written
    <3>3. IdsOK(expansion, expansion.index)
      BY <3>2 DEF Faithful, Inv
    <3>4. PICK S : expansion.events \in Seq(S)
      BY DEF Inv, Shape
    <3> QED
      BY <3>2, <3>3, <3>4 DEF IdsOK
  <2> QED
    BY <2>1, <2>2, <2>3, <2>4, <2>5, Zenon DEF TypeOK, Kinds
<1> QED
  BY <1>1, InitInv, NextInv, InitFaithful, NextFaithful, PTL DEF Spec

\* The level of a descriptor overridden twice is the level of the override.
LEMMA LevelTwice ==
  ASSUME NEW a, NEW id, NEW level, NEW d,
         d = WithLevel(WithLevel(EventDescriptor(a, id), level), level)
  PROVE  /\ d.level = IF level = None THEN a.level.v ELSE level
         /\ d.opcode = a.opcode.v /\ d.task = a.task.v
         /\ d.keyword = IF a.keyword = None THEN 0 ELSE a.keyword.v
BY DEF WithLevel, EventDescriptor

\* Every event that ETW accepts has the level, opcode, task and keyword that
\* the attributes of its method say last, and the level of the caller's
\* options if they have one: for attributes of any number, with any metas.
THEOREM DescriptorsAreDeclared == Spec => []DescriptorAsDeclared
<1>1. Inv /\ Faithful => DescriptorAsDeclared
  <2> SUFFICES ASSUME Inv, Faithful, event # None
               PROVE  /\ event.descriptor.level   = LevelSaid
                      /\ event.descriptor.opcode  = Said("opcode", IntLit(0)).v
                      /\ event.descriptor.task    = Said("task", IntLit(0)).v
                      /\ event.descriptor.keyword = Said("keyword", IntLit(0)).v
    BY DEF DescriptorAsDeclared
  <2>1. Written(event) /\ phase \in {"running", "panicked"} /\ trait \in Traits
    BY DEF Faithful, Inv, Shape
  <2>2. Clean /\ expansion.index = Len(trait.methods)
    BY <2>1 DEF Faithful, Generated
  <2>3. PICK i \in 1..Len(trait.methods) : i = event.of
    BY <2>1, <2>2 DEF Written
  <2>4. PICK a : a = parse_event_attributes(trait.methods[i].attrs)
    OBVIOUS
  <2>5. expansion.events[i].attrs = a /\ a.errors = {}
    BY <2>2, <2>4 DEF Clean
  <2>6. PICK metas : metas = EventMetas(trait.methods[i].attrs)
    OBVIOUS
  <2>7. Says(a, metas)
    BY <2>1, <2>4, <2>5, <2>6, MethodReads
  <2>8. \A key, default : Said(key, default) = LastLit(metas, key, default)
    BY <2>3, <2>6, Zenon DEF Said, LastLit
  <2>9. PICK d, level, id : d = event.descriptor /\ level = event.options_level
                            /\ d = WithLevel(WithLevel(EventDescriptor(a, id), level), level)
    BY <2>1, <2>3, <2>5, Zenon DEF Written
  <2>10. /\ d.level = IF level = None THEN a.level.v ELSE level
         /\ d.opcode = a.opcode.v /\ d.task = a.task.v
         /\ d.keyword = IF a.keyword = None THEN 0 ELSE a.keyword.v
    BY <2>9, LevelTwice
  <2>11. d.opcode = Said("opcode", IntLit(0)).v /\ d.task = Said("task", IntLit(0)).v
    BY <2>7, <2>8, <2>10, Zenon DEF Says
  <2>12. d.keyword = Said("keyword", IntLit(0)).v
    <3>1. LastLit(metas, "keyword", IntLit(0)) = IF a.keyword = None THEN IntLit(0) ELSE a.keyword
      BY <2>7 DEF Says
    <3>2. IntLit(0).v = 0
      BY DEF IntLit
    <3> QED
      BY <2>8, <2>10, <3>1, <3>2
  <2>13. d.level = LevelSaid
    <3>1. PICK lit : lit = Said("level", StrLit("verbose"))
      OBVIOUS
    <3>2. a.level = AsLevel(lit)
      BY <2>7, <2>8, <3>1, Zenon DEF Says
    <3>3. a.level.v = IF lit.kind = "str" THEN LevelNames[lit.text] ELSE lit.v
      BY <3>2 DEF AsLevel, IntLit
    <3> QED
      BY <2>9, <2>10, <3>1, <3>3, Zenon DEF LevelSaid
  <2> QED
    BY <2>9, <2>11, <2>12, <2>13
<1> QED
  BY <1>1, InitInv, NextInv, InitFaithful, NextFaithful, PTL DEF Spec

-----------------------------------------------------------------------------
(* GUIDs: the bytes of a Uuid and the bytes in memory.                     *)

Byte   == 0..255
Octets == [1..16 -> Byte]

\* Where the i-th byte of the other form lies.
Place(i) == IF i <= 4 THEN 5 - i ELSE IF i <= 6 THEN 11 - i ELSE IF i <= 8 THEN 15 - i ELSE i

\* A part of a sequence of bytes.
LEMMA Part ==
  ASSUME NEW b, NEW m \in Nat, NEW n \in Nat, m <= n, \A i \in m..n : b[i] \in Byte,
         NEW s, s = SubSeq(b, m, n)
  PROVE  /\ s \in Seq(Byte) /\ Len(s) = n - m + 1
         /\ \A i \in 1..n - m + 1 : s[i] = b[m + i - 1]
BY SubSeqProperties

Reverses(S, r, s, k) ==
  r \in Seq(S) /\ Len(r) = k /\ \A i \in 1..k : r[i] = s[k - i + 1]

\* What Reverse returns.
LEMMA Reversed ==
  ASSUME NEW S, NEW k \in Nat, NEW s \in Seq(S), Len(s) = k
  PROVE  Reverses(S, Reverse(s), s, k)
<1>0. PICK r : r = Reverse(s)
  OBVIOUS
<1>1. r = [i \in 1..k |-> s[k - i + 1]]
  <2>1. Reverse(s) = [i \in 1..Len(s) |-> s[(Len(s) - i) + 1]]
    BY Zenon DEF Reverse
  <2> QED
    BY <1>0, <2>1
<1>2. ASSUME NEW i \in 1..k PROVE s[k - i + 1] \in S
  <2>1. PICK j : j = k - i + 1
    OBVIOUS
  <2>2. j \in 1..Len(s)
    BY <2>1
  <2> QED
    BY <2>1, <2>2
<1>3. Reverses(S, r, s, k)
  BY <1>1, <1>2 DEF Reverses
<1> QED
  BY <1>0, <1>3, Zenon

\* v is s, of length k, and then t, of length m.
Joins(S, v, s, t, k, m) ==
  /\ v \in Seq(S) /\ Len(v) = k + m
  /\ \A i \in 1..k + m : v[i] = IF i <= k THEN s[i] ELSE t[i - k]

\* What concatenation returns.
LEMMA Joined ==
  ASSUME NEW S, NEW k \in Nat, NEW m \in Nat,
         NEW s \in Seq(S), Len(s) = k, NEW t \in Seq(S), Len(t) = m
  PROVE  Joins(S, s \o t, s, t, k, m)
<1>1. PICK v : v = s \o t
  OBVIOUS
<1>2. Joins(S, v, s, t, k, m)
  BY <1>1, ConcatProperties DEF Joins
<1> QED
  BY <1>1, <1>2, Zenon

\* Sixteen bytes.
LEMMA AreOctets == ASSUME NEW s \in Seq(Byte), Len(s) = 16 PROVE s \in Octets
<1>1. s \in [1..Len(s) -> Byte]
  BY LenProperties
<1> QED
  BY <1>1, Zenon DEF Octets

\* Where each byte goes.
LEMMA Swapped ==
  ASSUME NEW b \in Octets
  PROVE  SwapFields(b) \in Octets /\ \A i \in 1..16 : SwapFields(b)[i] = b[Place(i)]
<1> DEFINE p1 == SubSeq(b, 1, 4)
           p2 == SubSeq(b, 5, 6)
           p3 == SubSeq(b, 7, 8)
           p4 == SubSeq(b, 9, 16)
           r  == Reverse(p1)
           s  == Reverse(p2)
           t  == Reverse(p3)
           w1 == r \o s
           w2 == w1 \o t
           v  == w2 \o p4
<1>0. \A i \in 1..16 : b[i] \in Byte
  BY DEF Octets
<1>1. p1 \in Seq(Byte) /\ Len(p1) = 4 /\ \A i \in 1..4 : p1[i] = b[i]
  BY <1>0, Part
<1>2. p2 \in Seq(Byte) /\ Len(p2) = 2 /\ \A i \in 1..2 : p2[i] = b[4 + i]
  BY <1>0, Part
<1>3. p3 \in Seq(Byte) /\ Len(p3) = 2 /\ \A i \in 1..2 : p3[i] = b[6 + i]
  BY <1>0, Part
<1>4. p4 \in Seq(Byte) /\ Len(p4) = 8 /\ \A i \in 1..8 : p4[i] = b[8 + i]
  BY <1>0, Part
<1> HIDE DEF p1, p2, p3, p4
<1>0a. 2 \in Nat /\ 4 \in Nat /\ 6 \in Nat /\ 8 \in Nat
  OBVIOUS
<1>5. r \in Seq(Byte) /\ Len(r) = 4 /\ \A i \in 1..4 : r[i] = p1[4 - i + 1]
  <2>1. Reverses(Byte, r, p1, 4)
    BY <1>0a, <1>1, Reversed, Zenon
  <2> HIDE DEF r
  <2> QED
    BY <2>1 DEF Reverses
<1>6. s \in Seq(Byte) /\ Len(s) = 2 /\ \A i \in 1..2 : s[i] = p2[2 - i + 1]
  <2>1. Reverses(Byte, s, p2, 2)
    BY <1>0a, <1>2, Reversed, Zenon
  <2> HIDE DEF s
  <2> QED
    BY <2>1 DEF Reverses
<1>7. t \in Seq(Byte) /\ Len(t) = 2 /\ \A i \in 1..2 : t[i] = p3[2 - i + 1]
  <2>1. Reverses(Byte, t, p3, 2)
    BY <1>0a, <1>3, Reversed, Zenon
  <2> HIDE DEF t
  <2> QED
    BY <2>1 DEF Reverses
<1> HIDE DEF r, s, t
<1>8. w1 \in Seq(Byte) /\ Len(w1) = 6 /\ \A i \in 1..6 : w1[i] = IF i <= 4 THEN r[i] ELSE s[i - 4]
  <2>1. Joins(Byte, w1, r, s, 4, 2)
    BY <1>0a, <1>5, <1>6, Joined, Zenon
  <2> HIDE DEF w1
  <2> QED
    BY <2>1 DEF Joins
<1> HIDE DEF w1
<1>9. w2 \in Seq(Byte) /\ Len(w2) = 8 /\ \A i \in 1..8 : w2[i] = IF i <= 6 THEN w1[i] ELSE t[i - 6]
  <2>1. Joins(Byte, w2, w1, t, 6, 2)
    BY <1>0a, <1>7, <1>8, Joined, Zenon
  <2> HIDE DEF w2
  <2> QED
    BY <2>1 DEF Joins
<1> HIDE DEF w2
<1>10. v \in Seq(Byte) /\ Len(v) = 16 /\ \A i \in 1..16 : v[i] = IF i <= 8 THEN w2[i] ELSE p4[i - 8]
  <2>1. Joins(Byte, v, w2, p4, 8, 8)
    BY <1>0a, <1>4, <1>9, Joined, Zenon
  <2> HIDE DEF v
  <2> QED
    BY <2>1 DEF Joins
<1> HIDE DEF v
<1>11. ASSUME NEW i \in 1..16 PROVE v[i] = b[Place(i)]
  <2>1. CASE i \in 1..4
    <3>1. v[i] = p1[5 - i]
      BY <1>5, <1>8, <1>9, <1>10, <2>1, SMTT(30)
    <3> QED
      BY <1>1, <2>1, <3>1 DEF Place
  <2>2. CASE i \in 5..6
    <3>1. v[i] = p2[7 - i]
      BY <1>6, <1>8, <1>9, <1>10, <2>2, SMTT(30)
    <3> QED
      BY <1>2, <2>2, <3>1 DEF Place
  <2>3. CASE i \in 7..8
    <3>1. v[i] = p3[9 - i]
      BY <1>7, <1>9, <1>10, <2>3
    <3> QED
      BY <1>3, <2>3, <3>1 DEF Place
  <2>4. CASE i \in 9..16
    BY <1>4, <1>10, <2>4 DEF Place
  <2> QED
    BY <2>1, <2>2, <2>3, <2>4
<1>12. v \in Octets
  BY <1>10, AreOctets
<1>13. SwapFields(b) = v
  BY Zenon DEF SwapFields, v, w2, w1, r, s, t, p1, p2, p3, p4
<1> QED
  BY <1>11, <1>12, <1>13

\* Going there twice leads back.
LEMMA Places == \A i \in 1..16 : Place(i) \in 1..16 /\ Place(Place(i)) = i
BY DEF Place

\* The two forms are each other's.
LEMMA SwapsBack == ASSUME NEW b \in Octets PROVE SwapFields(SwapFields(b)) = b
<1>1. PICK c, d : c = SwapFields(b) /\ d = SwapFields(c)
  OBVIOUS
<1>2. c \in Octets /\ \A i \in 1..16 : c[i] = b[Place(i)]
  BY <1>1, Swapped
<1>3. d \in Octets /\ \A i \in 1..16 : d[i] = c[Place(i)]
  BY <1>1, <1>2, Swapped
<1>4. \A i \in 1..16 : d[i] = b[i]
  BY <1>2, <1>3, Places
<1> QED
  BY <1>1, <1>3, <1>4 DEF Octets

\* The literal of a Uuid lies in memory as the other form of its bytes.
LEMMA LiteralInMemory == ASSUME NEW b \in Octets PROVE Memory(uuid_to_expr(b)) = SwapFields(b)
<1>1. /\ SubSeq(b, 1, 4) = <<b[1], b[2], b[3], b[4]>> /\ SubSeq(b, 5, 6) = <<b[5], b[6]>>
      /\ SubSeq(b, 7, 8) = <<b[7], b[8]>>
  <2>0. \A i \in 1..16 : b[i] \in Byte
    BY DEF Octets
  <2>1. ASSUME NEW s, s = SubSeq(b, 1, 4) PROVE s = <<b[1], b[2], b[3], b[4]>>
    <3>1. s \in Seq(Byte) /\ Len(s) = 4 /\ \A i \in 1..4 : s[i] = b[i]
      BY <2>0, <2>1, Part
    <3> QED
      BY <3>1
  <2>2. ASSUME NEW s, s = SubSeq(b, 5, 6) PROVE s = <<b[5], b[6]>>
    <3>1. s \in Seq(Byte) /\ Len(s) = 2 /\ \A i \in 1..2 : s[i] = b[4 + i]
      BY <2>0, <2>2, Part
    <3> QED
      BY <3>1
  <2>3. ASSUME NEW s, s = SubSeq(b, 7, 8) PROVE s = <<b[7], b[8]>>
    <3>1. s \in Seq(Byte) /\ Len(s) = 2 /\ \A i \in 1..2 : s[i] = b[6 + i]
      BY <2>0, <2>3, Part
    <3> QED
      BY <3>1
  <2> QED
    BY <2>1, <2>2, <2>3
<1>2. PICK g : g = uuid_to_expr(b)
  OBVIOUS
<1>3. /\ g.data1 = SubSeq(b, 1, 4) /\ g.data2 = SubSeq(b, 5, 6) /\ g.data3 = SubSeq(b, 7, 8)
      /\ g.data4 = SubSeq(b, 9, 16)
  BY <1>1, <1>2 DEF uuid_to_expr, guid
<1> QED
  BY <1>2, <1>3, Zenon DEF Memory, SwapFields

\* The version lands in the eighth byte of the hash, as .NET puts it there.
LEMMA VersionInMemory ==
  ASSUME NEW hash \in [1..20 -> Byte]
  PROVE  /\ etw_event_source_guid(hash) \in Octets
         /\ Memory(uuid_to_expr(etw_event_source_guid(hash))) = EventSourceGuid(hash)
<1>1. PICK b : b = SubSeq(hash, 1, 16)
  OBVIOUS
<1>2. b \in Octets
  <2>1. \A i \in 1..16 : hash[i] \in Byte
    OBVIOUS
  <2>2. b \in Seq(Byte) /\ Len(b) = 16
    BY <1>1, <2>1, Part
  <2> QED
    BY <2>2, AreOctets
<1>3. PICK c : c = SwapFields(b)
  OBVIOUS
<1>4. c \in Octets /\ \A i \in 1..16 : c[i] = b[Place(i)]
  BY <1>2, <1>3, Swapped
<1>5. PICK d : d = [c EXCEPT ![7] = (@ % 16) + 80]
  OBVIOUS
<1>6. /\ d \in Octets /\ d[7] = (c[7] % 16) + 80
      /\ \A i \in 1..16 : i # 7 => d[i] = c[i]
  <2>1. c[7] \in 0..255
    BY <1>4 DEF Octets, Byte
  <2>2. (c[7] % 16) + 80 \in Byte
    BY <2>1 DEF Byte
  <2> QED
    BY <1>4, <1>5, <2>2 DEF Octets
<1>7. PICK f : f = SwapFields(d)
  OBVIOUS
<1>8. f \in Octets /\ \A i \in 1..16 : f[i] = d[Place(i)]
  BY <1>6, <1>7, Swapped
<1>9. f = [b EXCEPT ![8] = (@ % 16) + 80]
  <2>1. ASSUME NEW i \in 1..16 PROVE f[i] = IF i = 8 THEN (b[8] % 16) + 80 ELSE b[i]
    <3>1. CASE i = 8
      <4>1. Place(8) = 7 /\ Place(7) = 8
        BY DEF Place
      <4> QED
        BY <1>4, <1>6, <1>8, <3>1, <4>1
    <3>2. CASE i # 8
      <4>1. Place(i) \in 1..16 /\ Place(i) # 7 /\ Place(Place(i)) = i
        BY <3>2 DEF Place
      <4> QED
        BY <1>4, <1>6, <1>8, <3>2, <4>1
    <3> QED
      BY <3>1, <3>2
  <2> QED
    BY <1>2, <1>8, <2>1 DEF Octets
<1>10. etw_event_source_guid(hash) = d
  BY <1>1, <1>3, <1>5, Zenon DEF etw_event_source_guid, with_version, from_bytes_le
<1>11. Memory(uuid_to_expr(d)) = f
  BY <1>6, <1>7, LiteralInMemory
<1>12. EventSourceGuid(hash) = f
  BY <1>1, <1>9, Zenon DEF EventSourceGuid
<1> QED
  BY <1>6, <1>10, <1>11, <1>12

\* A size below 64 KB is what its two bytes say.
LEMMA SizesFit == ASSUME NEW n \in Nat, n < 65536 PROVE SizeOf(Sized(n)) = n
<1>1. \A x, y \in Int : SizeOf(<<x, y>>) = x + 256 * y
  BY DEF SizeOf
<1>2. n = 256 * (n \div 256) + (n % 256) /\ n \div 256 \in 0..255
  OBVIOUS
<1>3. (n \div 256) % 256 = n \div 256
  BY <1>2
<1>4. PICK x \in Int, y \in Int : x = n % 256 /\ y = (n \div 256) % 256
  BY <1>3
<1>5. Sized(n) = <<x, y>>
  BY <1>4 DEF Sized
<1>6. SizeOf(Sized(n)) = x + 256 * y
  BY <1>1, <1>5
<1> QED
  BY <1>2, <1>3, <1>4, <1>6

-----------------------------------------------------------------------------
(* The identity of the provider.                                           *)

\* Of the arguments with a key, the first has what was heard of it.
Settles(about, v, args, key) ==
  /\ about = {} <=> v = None
  /\ about # {} => Content(args[Min(about)], key) = v

\* What was heard of a key is what its first argument says.
LEMMA Declares ==
  ASSUME NEW args, NEW n \in Nat, DOMAIN args = 1..n, NEW v, NEW key, Gives(v, args, n, key),
         NEW about, about = {i \in DOMAIN args : args[i].key = key}
  PROVE  Settles(about, v, args, key)
<1>1. CASE about = {}
  <2>1. \A i \in 1..n : args[i].key # key
    BY <1>1, Zenon
  <2>2. v = None
    BY <2>1 DEF Gives
  <2> QED
    BY <1>1, <2>2 DEF Settles
<1>2. CASE about # {}
  <2>1. about \in SUBSET Nat
    OBVIOUS
  <2>2. PICK k \in about : \A m \in about : k <= m
    BY <1>2, <2>1, Arguing!Least
  <2>3. Min(about) \in about
    BY <2>2, Zenon DEF Min
  <2>4. v = Content(args[Min(about)], key) /\ v # None
    BY <2>3, Zenon DEF Gives
  <2> QED
    BY <1>2, <2>4 DEF Settles
<1> QED
  BY <1>1, <1>2

\* The name and the GUIDs of a trait whose arguments are in order.
LEMMA DeclaredIs ==
  ASSUME trait \in Traits, Attributes.errors = {}
  PROVE  /\ Declared("guid", None) = Attributes.uuid
         /\ Declared("name", trait.ident) = provider_name
         /\ Declared("provider_group_guid", None) = Attributes.provider_group_guid
         /\ Attributes.uuid # None => Attributes.uuid \in Octets
         /\ Attributes.provider_group_guid # None => Attributes.provider_group_guid \in Octets
         /\ provider_name.len \in Nat
<1>1. PICK args, p : args = trait.args /\ p = Attributes
  OBVIOUS
<1>2. PICK n \in Nat : n = Len(args) /\ DOMAIN args = 1..n
  <2>1. args \in Seq(ToSet(args))
    BY <1>1, SyntaxAssumption DEF SyntaxAssumption, IsSequence
  <2> QED
    BY <2>1
<1>3. Heard(p, args, n)
  <2>1. p = parse(args) /\ p.errors = {}
    BY <1>1 DEF Attributes
  <2> QED
    BY <1>1, <1>2, <2>1, ArgumentsHeard
<1>4. \A key, x : Declared(key, x) = LET about == {i \in DOMAIN args : args[i].key = key}
                                     IN  IF about = {} THEN x ELSE Content(args[Min(about)], key)
  BY <1>1, Zenon DEF Declared, Content
<1>5. ASSUME NEW v, NEW key, NEW x, Gives(v, args, n, key)
      PROVE  Declared(key, x) = IF v = None THEN x ELSE v
  <2>1. PICK about : about = {i \in DOMAIN args : args[i].key = key}
    OBVIOUS
  <2>2. Declared(key, x) = IF about = {} THEN x ELSE Content(args[Min(about)], key)
    BY <1>4, <2>1, Zenon
  <2>3. Settles(about, v, args, key)
    BY <1>2, <1>5, <2>1, Declares
  <2> QED
    BY <2>2, <2>3 DEF Settles
<1>6. /\ Declared("guid", None) = p.uuid
      /\ Declared("provider_group_guid", None) = p.provider_group_guid
      /\ Declared("name", trait.ident) = IF p.provider_name = None THEN trait.ident ELSE p.provider_name
  BY <1>3, <1>5 DEF Heard
<1>7. \A arg \in ToSet(args) : /\ arg.kind = "guid" => arg.guid \in [1..16 -> 0..255]
                               /\ arg.kind = "text" => arg.text.len \in Nat
  BY <1>1, SyntaxAssumption, Zenon DEF SyntaxAssumption
<1>8. \A i \in 1..n : args[i] \in ToSet(args)
  BY <1>2, Zenon DEF ToSet
<1>9. ASSUME NEW v, NEW key, Gives(v, args, n, key), v # None
      PROVE  IF key = "name" THEN v.len \in Nat ELSE v \in Octets
  <2>1. PICK i \in 1..n : args[i].key = key
    BY <1>9 DEF Gives
  <2>2. v = Content(args[i], key) /\ args[i].kind = KindOf(key)
    BY <1>9, <2>1 DEF Gives
  <2>3. PICK arg : arg = args[i] /\ arg \in ToSet(args)
    BY <1>8
  <2> QED
    BY <1>7, <2>2, <2>3 DEF Content, KindOf, Octets, Byte
<1>10. /\ p.uuid # None => p.uuid \in Octets
       /\ p.provider_group_guid # None => p.provider_group_guid \in Octets
       /\ p.provider_name # None => p.provider_name.len \in Nat
  BY <1>3, <1>9 DEF Heard
<1>11. trait.ident.len \in Nat
  BY SyntaxAssumption DEF SyntaxAssumption
<1> QED
  BY <1>1, <1>6, <1>10, <1>11 DEF provider_name

\* Where the GUID is looked for, the provider has the one declared: that of
\* the attribute or the one that EventSource makes of the name.
LEMMA GuidDeclared ==
  ASSUME trait \in Traits, Attributes.errors = {}
  PROVE  Memory(PROVIDER_GUID)
           = IF Declared("guid", None) = None THEN EventSourceGuid(Sha1(provider_name))
             ELSE SwapFields(Declared("guid", None))
<1>1. PICK uuid : uuid = Attributes.uuid
  OBVIOUS
<1>2. Declared("guid", None) = uuid /\ (uuid # None => uuid \in Octets) /\ provider_name.len \in Nat
  BY <1>1, DeclaredIs
<1>3. CASE uuid = None
  <2>1. PICK hash : hash = Sha1(provider_name)
    OBVIOUS
  <2>2. hash \in [1..20 -> Byte]
    <3>1. PICK n \in Nat : n = provider_name.len
      BY <1>2
    <3>2. ASSUME NEW i \in 1..20 PROVE (n + 11 * i) % 256 \in Byte
      <4>1. PICK k \in Nat : k = n + 11 * i
        OBVIOUS
      <4>2. k % 256 \in 0..255
        OBVIOUS
      <4> QED
        BY <4>1, <4>2 DEF Byte
    <3>3. hash = [i \in 1..20 |-> (n + 11 * i) % 256]
      BY <2>1, <3>1, Zenon DEF Sha1
    <3> QED
      BY <3>2, <3>3
  <2>3. PROVIDER_GUID = uuid_to_expr(etw_event_source_guid(hash))
    BY <1>1, <1>3, <2>1, Zenon DEF PROVIDER_GUID
  <2>4. Memory(uuid_to_expr(etw_event_source_guid(hash))) = EventSourceGuid(hash)
    BY <2>2, VersionInMemory
  <2> QED
    BY <1>2, <1>3, <2>1, <2>3, <2>4, Zenon
<1>4. CASE uuid # None
  <2>1. PROVIDER_GUID = uuid_to_expr(uuid)
    BY <1>1, <1>4, Zenon DEF PROVIDER_GUID
  <2>2. Memory(uuid_to_expr(uuid)) = SwapFields(uuid)
    BY <1>2, <1>4, LiteralInMemory
  <2> QED
    BY <1>2, <1>4, <2>1, <2>2, Zenon
<1> QED
  BY <1>3, <1>4

\* The traits that ETW takes.
LEMMA TraitsDeclared ==
  ASSUME NEW name, NEW group, group # None => group \in Octets,
         NEW blob, blob = create_register_provider_traits(name, group), TakesTraits(blob)
  PROVE  /\ blob.name = name
         /\ IF group = None THEN blob.group = None ELSE TextOf(blob.group.guid) = group
         /\ SizeOf(blob.size) = 2 + name.len + 1 + (IF group = None THEN 0 ELSE 19)
<1>1. /\ blob.name = name /\ blob.length = TraitsLength(name, group)
      /\ blob.group = IF group = None THEN None ELSE GroupTrait(group)
  BY Zenon DEF create_register_provider_traits
<1>2. SizeOf(blob.size) = TraitsLength(name, group)
  BY <1>1 DEF TakesTraits
<1>3. 2 + 1 + 16 = 19
  OBVIOUS
<1>4. TraitsLength(name, group) = 2 + name.len + 1 + (IF group = None THEN 0 ELSE 19)
  BY <1>3, Zenon DEF TraitsLength
<1>5. group # None => TextOf(GroupTrait(group).guid) = group
  <2>1. GroupTrait(group).guid = SwapFields(group)
    BY Zenon DEF GroupTrait, to_bytes_le
  <2> QED
    BY <2>1, SwapsBack, Zenon DEF TextOf
<1> QED
  BY <1>1, <1>2, <1>4, <1>5, Zenon

\* The name in the metadata of the provider.
LEMMA MetadataIs ==
  ASSUME NEW name, NEW blob, blob = create_provider_metadata(name)
  PROVE  blob.name = name /\ blob.size = Sized(2 + name.len + 1)
BY DEF create_provider_metadata

\* ETW knows every provider by what its declaration says: the GUID of the
\* attribute or the GUID of the name, the name itself, and the group if the
\* traits were taken; its events carry the name.  For arguments of any number,
\* in any order, and names of any length.
THEOREM IdentitiesAreDeclared == Spec => []IdentityAsDeclared
<1>1. Inv /\ Faithful => IdentityAsDeclared
  <2> SUFFICES ASSUME Inv, Faithful PROVE IdentityAsDeclared
    OBVIOUS
  <2> DEFINE name  == Declared("name", trait.ident)
             group == Declared("provider_group_guid", None)
             sized == 2 + name.len + 1
  <2>1. trait \in Traits
    BY DEF Inv, Shape
  <2>2. ASSUME provider # None \/ event # None
        PROVE  Attributes.errors = {} /\ ~NameTooLong(provider_name)
    <3>1. phase \in {"running", "panicked"}
      BY <2>2 DEF Faithful
    <3> QED
      BY <3>1 DEF Faithful, Generated, Clean
  <2>3. ASSUME provider # None
        PROVE  provider.id = IF Declared("guid", None) = None THEN EventSourceGuid(Sha1(name))
                             ELSE SwapFields(Declared("guid", None))
    <3>1. Attributes.errors = {}
      BY <2>2, <2>3
    <3>2. name = provider_name
      BY <2>1, <3>1, DeclaredIs
    <3>3. provider.id = Memory(PROVIDER_GUID)
      <4>1. PICK asked, taken : provider = Registered(asked, taken)
        BY <2>3, Zenon DEF Faithful, Enrolled
      <4> QED
        BY <4>1, Zenon DEF Registered
    <3> HIDE DEF name
    <3> QED
      BY <2>1, <3>1, <3>2, <3>3, GuidDeclared, Zenon
  <2>4. ASSUME provider # None, provider.traits # None
        PROVE  LET taken == provider.traits
               IN  /\ taken.name = name
                   /\ IF group = None THEN taken.group = None
                      ELSE TextOf(taken.group.guid) = group
                   /\ SizeOf(taken.size) = 2 + name.len + 1 + (IF group = None THEN 0 ELSE 19)
    <3>1. Attributes.errors = {}
      BY <2>2, <2>4
    <3>2. /\ name = provider_name /\ group = Attributes.provider_group_guid
          /\ group # None => group \in Octets
      BY <2>1, <3>1, DeclaredIs, Zenon
    <3>3. provider.traits = PROVIDER_TRAITS /\ TakesTraits(PROVIDER_TRAITS)
      <4>1. PICK asked \in {None, PROVIDER_TRAITS}, taken \in {FALSE, TakesTraits(PROVIDER_TRAITS)} :
              provider = Registered(asked, taken)
        BY <2>4, Zenon DEF Faithful, Enrolled
      <4>2. provider.traits = IF taken THEN asked ELSE None
        BY <4>1, Zenon DEF Registered
      <4>3. taken /\ provider.traits = asked
        BY <2>4, <4>2, Zenon
      <4> QED
        BY <2>4, <4>1, <4>3, Zenon
    <3>4. PICK blob : blob = provider.traits
      OBVIOUS
    <3>5. blob = create_register_provider_traits(name, group) /\ TakesTraits(blob)
      BY <3>2, <3>3, <3>4, Zenon DEF PROVIDER_TRAITS
    <3> HIDE DEF name, group
    <3>6. /\ blob.name = name
          /\ IF group = None THEN blob.group = None ELSE TextOf(blob.group.guid) = group
          /\ SizeOf(blob.size) = 2 + name.len + 1 + (IF group = None THEN 0 ELSE 19)
      <4>1. PICK n, g : n = name /\ g = group
        OBVIOUS
      <4> QED
        BY <3>2, <3>5, <4>1, TraitsDeclared
    <3> QED
      BY <3>4, <3>6, Zenon
  <2>5. ASSUME event # None
        PROVE  event.provider.name = name /\ SizeOf(event.provider.size) = sized
    <3>1. Attributes.errors = {} /\ ~NameTooLong(provider_name)
      BY <2>2, <2>5
    <3>2. name = provider_name /\ provider_name.len \in Nat
      BY <2>1, <3>1, DeclaredIs, Zenon
    <3>3. PICK m : m = provider_name.len
      OBVIOUS
    <3>4. 2 + m + 1 \in Nat /\ 2 + m + 1 < 65536 /\ sized = 2 + m + 1
      BY <3>1, <3>2, <3>3 DEF NameTooLong
    <3>5. PICK blob : blob = event.provider /\ blob = create_provider_metadata(provider_name)
      BY <2>5, Zenon DEF Faithful, Written, PROVIDER_METADATA
    <3>6. blob.name = provider_name /\ blob.size = Sized(2 + provider_name.len + 1)
      BY <3>5, MetadataIs
    <3>7. SizeOf(Sized(2 + m + 1)) = 2 + m + 1
      BY <3>4, SizesFit
    <3>8. SizeOf(blob.size) = 2 + m + 1
      BY <3>3, <3>6, <3>7
    <3> HIDE DEF name, sized
    <3> QED
      BY <3>2, <3>4, <3>5, <3>6, <3>8
  <2> QED
    BY <2>3, <2>4, <2>5, Zenon DEF IdentityAsDeclared
<1> QED
  BY <1>1, InitInv, NextInv, InitFaithful, NextFaithful, PTL DEF Spec

-----------------------------------------------------------------------------
(* The table of types: what the metadata of a field say, and the items of  *)
(* the payload they announce.                                              *)

Words == {"usize", "isize"}
Odd   == {"ref_str", "u16str", "u16cstr", "osstr", "SocketAddrV4", "SocketAddrV6", "SocketAddr", "guid"}

LEMMA Names ==
  ASSUME NEW ty \in DOMAIN WellKnownTypes
  PROVE  ty \in {"bool", "u8", "i8", "u16", "i16", "u32", "i32", "u64", "i64", "f32", "f64", "usize",
                 "isize", "ref_str", "u16str", "u16cstr", "osstr", "guid", "SocketAddrV4",
                 "SocketAddrV6", "SocketAddr", "SystemTime", "FILETIME", "HRESULT", "WIN32ERROR",
                 "NTSTATUS"}
BY DEF WellKnownTypes

\* The types of fixed width.
LEMMA TypeOfValues ==
  ASSUME NEW ty \in DOMAIN WellKnownTypes \ Odd, NEW t, t = WellKnownTypes[ty]
  PROVE  t.in_expr \in DOMAIN Width /\ t.in_expr # "GUID"
BY Names DEF Odd, WellKnownTypes, Primitive, Word, Other, Width, Sizes1, Sizes2, Sizes4, Sizes8

LEMMA TypeOfElements ==
  ASSUME NEW ty \in DOMAIN WellKnownTypes \ Words, NEW t, t = WellKnownTypes[ty], t.primitive
  PROVE  t.in_expr \in DOMAIN Width /\ t.in_type = t.in_expr /\ t.in_expr # "GUID"
BY Names DEF Words, WellKnownTypes, Primitive, Word, Other, Width, Sizes1, Sizes2, Sizes4, Sizes8

LEMMA TypeOfTexts ==
  ASSUME NEW ty \in Texts \cup DOMAIN Sockets
  PROVE  ty \in DOMAIN WellKnownTypes /\ WellKnownTypes[ty].in_expr \in Counted /\ ty # "guid"
BY DEF Texts, Sockets, Counted, WellKnownTypes, Primitive, Word, Other

LEMMA TypeOfOthers ==
  /\ WellKnownTypes.guid.in_expr = "GUID" /\ WellKnownTypes.SystemTime.in_expr = "FILETIME"
  /\ "GUID" \in DOMAIN Width /\ Width["GUID"] = 16
  /\ "FILETIME" \in DOMAIN Width /\ Width["FILETIME"] = 8
BY DEF WellKnownTypes, Primitive, Word, Other, Width, Sizes1, Sizes2, Sizes4, Sizes8

LEMMA OddOnes == Odd = Texts \cup DOMAIN Sockets \cup {"guid"}
BY DEF Odd, Texts, Sockets

\* The formats of the table.
Natural(ty) ==
  CASE ty = "bool" -> OutFlag.BOOLEAN
    [] ty = "ref_str" -> OutFlag.UTF8
    [] ty \in DOMAIN Sockets -> OutFlag.SOCKETADDRESS
    [] ty \in {"HRESULT", "WIN32ERROR", "NTSTATUS"} -> OutFlag[ty]
    [] OTHER -> OutFlag.NULL

LEMMA FormatOf ==
  ASSUME NEW ty \in DOMAIN WellKnownTypes, NEW out, out = WellKnownTypes[ty].out_type
  PROVE  Natural(ty) = IF out = None THEN OutFlag.NULL ELSE out
<1>1. None \notin Nat
  BY GeneratedAssumption DEF GeneratedAssumption
<1> QED
  BY <1>1, Names DEF Natural, Sockets, WellKnownTypes, Primitive, Word, Other, OutFlag

Supported(p) == p.ty \in DOMAIN WellKnownTypes /\ (p.slice => WellKnownTypes[p.ty].primitive)

LEMMA OutTypeIs ==
  ASSUME NEW p, p.slice \in BOOLEAN, p.hex \in BOOLEAN, Supported(p), Decodable(p)
  PROVE  Displayed(p) = IF OutType(p) = None THEN OutFlag.NULL ELSE OutType(p)
<1>1. None \notin Nat
  BY GeneratedAssumption DEF GeneratedAssumption
<1>2. PICK ty, out : ty = p.ty /\ out = WellKnownTypes[p.ty].out_type
  OBVIOUS
<1>3. OutFlag.HEX = 4
  BY DEF OutFlag
<1>4. CASE p.hex
  <2>1. OutType(p) = OutFlag.HEX
    BY <1>2, <1>4 DEF OutType, Decodable
  <2>2. Displayed(p) = OutFlag.HEX
    BY <1>4 DEF Displayed
  <2> QED
    BY <1>1, <1>3, <2>1, <2>2
<1>5. CASE ~p.hex /\ p.slice
  <2>1. OutType(p) = None
    BY <1>5 DEF OutType
  <2>2. p.ty # "ref_str" /\ p.ty \notin DOMAIN Sockets /\ p.ty \notin {"HRESULT", "WIN32ERROR", "NTSTATUS"}
    BY <1>5 DEF Supported, Sockets, WellKnownTypes, Other
  <2>3. Displayed(p) = OutFlag.NULL
    BY <1>5, <2>2 DEF Displayed
  <2> QED
    BY <2>1, <2>3
<1>6. CASE ~p.hex /\ ~p.slice
  <2>1. OutType(p) = out
    BY <1>2, <1>6 DEF OutType
  <2>2. Displayed(p) = Natural(ty)
    BY <1>2, <1>6 DEF Displayed, Natural
  <2> QED
    BY <1>2, <2>1, <2>2, FormatOf DEF Supported
<1> QED
  BY <1>4, <1>5, <1>6

-----------------------------------------------------------------------------
(* The wire of a parameter and the argument given for it.                  *)

TypeOf(p)  == IF p.slice THEN WellKnownTypes[p.ty].in_type ELSE WellKnownTypes[p.ty].in_expr
Counting(p) == IF p.slice THEN {"VCOUNT"} ELSE {}
FlagsOf(p) == IF OutType(p) = None THEN Counting(p) ELSE Counting(p) \cup {"CHAIN"}
OutOf(p)   == IF OutType(p) = None THEN <<>> ELSE <<Out(OutType(p))>>

FieldWire(p, x) == Wire(p.name, In(TypeOf(p), FlagsOf(p)), OutOf(p), FieldData(p, x))

LEMMA FlagsAre ==
  ASSUME NEW p
  PROVE  /\ "CHAIN" \in FlagsOf(p) <=> OutType(p) # None
         /\ "VCOUNT" \in FlagsOf(p) <=> p.slice
BY DEF FlagsOf, Counting

LEMMA FieldTokens ==
  ASSUME NEW p, NEW x
  PROVE  Tokens(FieldWire(p, x)) = FieldMetadata(p) /\ FieldWire(p, x).items = FieldData(p, x)
<1>1. PICK name, in, items : name = p.name /\ in = In(TypeOf(p), FlagsOf(p)) /\ items = FieldData(p, x)
  OBVIOUS
<1>2. PICK w : w = FieldWire(p, x) /\ w.name = name /\ w.in = in /\ w.out = OutOf(p) /\ w.items = items
  BY <1>1, WireIs DEF FieldWire
<1>3. CASE OutType(p) = None
  <2>1. FieldMetadata(p) = <<Name(name), in>>
    BY <1>1, <1>3 DEF FieldMetadata, TypeOf, FlagsOf, Counting
  <2>2. Tokens(w) = <<Name(name), in>>
    BY <1>2, <1>3 DEF Tokens, OutOf
  <2> QED
    BY <1>1, <1>2, <2>1, <2>2
<1>4. CASE OutType(p) # None
  <2>1. PICK out : out = Out(OutType(p))
    OBVIOUS
  <2>2. FieldMetadata(p) = <<Name(name), in, out>>
    BY <1>1, <1>4, <2>1 DEF FieldMetadata, TypeOf, FlagsOf, Counting
  <2>3. w.out = <<out>>
    BY <1>2, <1>4, <2>1 DEF OutOf
  <2>4. Tokens(w) = <<Name(name), in, out>>
    <3>1. PICK a : a = Name(name)
      OBVIOUS
    <3>2. Tokens(w) = <<a, in>> \o <<out>>
      BY <1>2, <2>3, <3>1, Zenon DEF Tokens
    <3>3. <<a, in>> \o <<out>> = <<a, in, out>>
      BY SideBySide
    <3> QED
      BY <3>1, <3>2, <3>3
  <2> QED
    BY <1>1, <1>2, <2>2, <2>4
<1> QED
  BY <1>3, <1>4

\* Items, each with a size.
Sizable(items) == IsSequence(items) /\ \A i \in DOMAIN items : ItemSize(items[i]) \in Nat

LEMMA FieldWireIs ==
  ASSUME NEW p, NEW x, Sizable(FieldData(p, x)), NEW w, w = FieldWire(p, x)
  PROVE  /\ WireOK(w)
         /\ Desc(w) = FieldDesc(p.name, In(TypeOf(p), FlagsOf(p)),
                                IF OutType(p) = None THEN OutFlag.NULL ELSE OutType(p))
         /\ w.name = p.name /\ w.items = FieldData(p, x)
<1>1. PICK name, type, items, flags, o : /\ name = p.name /\ type = TypeOf(p) /\ items = FieldData(p, x)
                                         /\ flags = FlagsOf(p) /\ o = OutType(p)
  OBVIOUS
<1>2. IsSequence(items) /\ \A i \in DOMAIN items : ItemSize(items[i]) \in Nat
  BY <1>1 DEF Sizable
<1>3. CASE o = None
  <2>1. w = Wire(name, In(type, flags), <<>>, items) /\ "CHAIN" \notin flags
    BY <1>1, <1>3, FlagsAre DEF FieldWire, OutOf
  <2>2. /\ WireOK(w) /\ Desc(w) = FieldDesc(name, In(type, flags), OutFlag.NULL)
        /\ w.name = name /\ w.items = items
    BY <1>2, <2>1, PlainWire
  <2> QED
    BY <1>1, <1>3, <2>2
<1>4. CASE o # None
  <2>1. w = Wire(name, In(type, flags), <<Out(o)>>, items) /\ "CHAIN" \in flags
    BY <1>1, <1>4, FlagsAre DEF FieldWire, OutOf
  <2>2. /\ WireOK(w) /\ Desc(w) = FieldDesc(name, In(type, flags), o)
        /\ w.name = name /\ w.items = items
    BY <1>2, <2>1, ChainedWire
  <2> QED
    BY <1>1, <1>4, <2>2
<1> QED
  BY <1>3, <1>4

LEMMA ItemSizes ==
  \A v, n, width : /\ ItemSize(Count(n)) = 2 /\ ItemSize(Text(v, n)) = n
                   /\ ItemSize(Num(width, v)) = width /\ ItemSize(Items(v, width, n)) = n * width
BY DEF ItemSize, Count, Text, Num, Items

LEMMA WidthsAre == \A type \in DOMAIN Width : Width[type] \in Nat
BY DEF Width, Sizes1, Sizes2, Sizes4, Sizes8

LEMMA TwoItems ==
  ASSUME NEW a, NEW b, ItemSize(a) \in Nat, ItemSize(b) \in Nat
  PROVE  Sizable(<<a, b>>)
<1>1. PICK S, s : S = {a, b} /\ s = <<a, b>>
  OBVIOUS
<1>2. s \in Seq(S) /\ \A i \in DOMAIN s : s[i] = a \/ s[i] = b
  BY <1>1
<1>3. IsSequence(s)
  BY <1>2, SequenceIs
<1> QED
  BY <1>1, <1>2, <1>3 DEF Sizable

LEMMA NoItem == Sizable(<<>>)
<1>1. IsSequence(<<>>)
  <2>1. <<>> \in Seq({})
    OBVIOUS
  <2> QED
    BY <2>1, SequenceIs
<1> QED
  BY <1>1 DEF Sizable

\* A count and what is counted, if there is any.
LEMMA CountAndBytes ==
  ASSUME NEW a, NEW b, NEW items, items = <<a>> \o Bytes(b)
  PROVE  items = IF b.len = 0 THEN <<a>> ELSE <<a, b>>
<1>1. CASE b.len = 0
  <2>1. items = <<a>> \o <<>>
    BY <1>1 DEF Bytes
  <2> QED
    BY <1>1, <2>1, SideBySide
<1>2. CASE b.len # 0
  <2>1. items = <<a>> \o <<b>>
    BY <1>2 DEF Bytes
  <2> QED
    BY <1>2, <2>1, SideBySide
<1> QED
  BY <1>1, <1>2

\* What the consumer of an event shorter than 64 KB reads of a field: its
\* argument, unless it is a time that has no value.
Fits(items)  == \A i \in DOMAIN items : ItemSize(items[i]) < 65536
NoTime(p, x) == p.ty = "SystemTime" /\ ~x.ok
SeenAs(p, x) == Fits(FieldData(p, x)) /\ ~NoTime(p, x) => Reads(FieldWire(p, x), Shown(p, x).value)
Told(p, x)   == Sizable(FieldData(p, x)) /\ SeenAs(p, x)

LEMMA ShownIs ==
  ASSUME NEW p, NEW x
  PROVE  Shown(p, x).value = IF x.len = 0 \/ (p.ty = "osstr" /\ ~x.ok) THEN Nothing ELSE x.v
BY DEF Shown

LEMMA SliceTold ==
  ASSUME NEW p, NEW x, Supported(p), Decodable(p), p.slice, x.len \in Nat, x.ok
  PROVE  Told(p, x)
<1>1. PICK n, type, v : n = (IF x.len > 65535 THEN 65535 ELSE x.len) /\ type = WellKnownTypes[p.ty].in_expr /\ v = x.v
  OBVIOUS
<1>2. n \in Nat /\ (n = 0 <=> x.len = 0)
  BY <1>1
<1>3. type \in DOMAIN Width /\ TypeOf(p) = type /\ Width[type] \in Nat
  BY <1>1, TypeOfElements, WidthsAre DEF Supported, Decodable, Words, TypeOf
<1>4. PICK a, b, items : a = Count(n) /\ b = Items(v, Width[type], n) /\ items = FieldData(p, x)
  OBVIOUS
<1>5. b.len = n /\ ItemSize(a) = 2 /\ ItemSize(b) = n * Width[type]
  BY <1>4, ItemSizes DEF Items
<1>6. items = IF n = 0 THEN <<a>> ELSE <<a, b>>
  <2>1. items = <<a>> \o Bytes(b)
    <3>1. FieldData(p, x) = SliceData(p, x)
      BY DEF FieldData
    <3> QED
      BY <1>1, <1>4, <3>1, SMTT(30) DEF SliceData
  <2> QED
    BY <1>2, <1>5, <2>1, CountAndBytes
<1>7. Sizable(items)
  <2>1. ItemSize(a) \in Nat /\ ItemSize(b) \in Nat
    BY <1>2, <1>3, <1>5
  <2> QED
    BY <1>6, <2>1, OneItem, TwoItems DEF Sizable
<1>8. PICK w, name, o, flags : /\ w = FieldWire(p, x) /\ name = p.name /\ flags = FlagsOf(p)
                               /\ o = IF OutType(p) = None THEN OutFlag.NULL ELSE OutType(p)
  OBVIOUS
<1>9. Desc(w) = FieldDesc(name, In(type, flags), o) /\ w.items = items /\ "VCOUNT" \in flags
  BY <1>3, <1>4, <1>7, <1>8, FieldWireIs, FlagsAre
<1>10. Reads(w, Shown(p, x).value)
  <2>1. CASE n = 0
    <3>1. Reads(w, Nothing)
      BY <1>4, <1>6, <1>9, <2>1, EmptyReads
    <3> QED
      BY <1>2, <2>1, <3>1, ShownIs
  <2>2. CASE n # 0
    <3>1. w.items = <<Count(n), Items(v, Width[type], n)>>
      BY <1>4, <1>6, <1>9, <2>2
    <3>2. Reads(w, v)
      BY <1>3, <1>9, <2>2, <3>1, ArrayReads
    <3> QED
      BY <1>1, <1>2, <2>2, <3>2, ShownIs
  <2> QED
    BY <2>1, <2>2
<1> QED
  BY <1>4, <1>7, <1>8, <1>10 DEF Told, SeenAs

\* The cases of FieldData exclude each other.
LEMMA FieldDataIs ==
  ASSUME NEW p, NEW x, ~p.slice
  PROVE  /\ p.ty \in Texts => FieldData(p, x) = TextData(p, x)
         /\ p.ty \in DOMAIN Sockets => FieldData(p, x) = <<Count(x.len), Text(x.v, x.len)>>
         /\ p.ty = "SystemTime" => FieldData(p, x) = TimeData(x)
         /\ p.ty = "guid" => FieldData(p, x) = GuidData(x)
         /\ p.ty \notin Odd \cup {"SystemTime"} =>
              FieldData(p, x) = <<Num(Width[WellKnownTypes[p.ty].in_expr], x.v)>>
<1>1. /\ p.ty \in Texts => p.ty \notin DOMAIN Sockets
      /\ p.ty \in Texts \cup DOMAIN Sockets => p.ty # "SystemTime" /\ p.ty # "guid"
      /\ p.ty \notin Odd => p.ty \notin Texts /\ p.ty \notin DOMAIN Sockets /\ p.ty # "guid"
  BY DEF Texts, Sockets, Odd
<1>2. CASE p.ty \in Texts
  BY <1>1, <1>2, OddOnes DEF FieldData
<1>3. CASE p.ty \in DOMAIN Sockets
  BY <1>1, <1>3, OddOnes DEF FieldData
<1>4. CASE p.ty = "SystemTime"
  BY <1>1, <1>4 DEF FieldData
<1>5. CASE p.ty = "guid"
  BY <1>1, <1>5, OddOnes DEF FieldData
<1>6. CASE p.ty \notin Odd \cup {"SystemTime"}
  BY <1>1, <1>6 DEF FieldData
<1> QED
  BY <1>2, <1>3, <1>4, <1>5, <1>6, OddOnes

\* The count of a text that fits is its length in bytes.
LEMMA CountsFit ==
  ASSUME NEW ty \in Texts, NEW x, x.len \in Nat, x.ok \in BOOLEAN,
         NEW n, n = CountOf(ty, x), NEW m, m = x.len * UnitSize(ty)
  PROVE  /\ m \in Nat /\ (m = 0 <=> x.len = 0)
         /\ x.ok /\ m < 65536 => n = m
         /\ ~x.ok /\ ty = "osstr" => n = 0
<1>1. PICK l \in Nat : l = x.len
  OBVIOUS
<1>2. UnitSize(ty) = IF ty = "ref_str" THEN 1 ELSE 2
  BY DEF UnitSize
<1>3. m \in Nat /\ (m = 0 <=> x.len = 0)
  BY <1>1, <1>2
<1>4. \A k \in Nat : k < 65536 => u16(k) = k
  BY DEF u16
<1>5. ASSUME x.ok, m < 65536 PROVE n = m
  <2>1. CASE ty = "ref_str"
    <3>1. n = u16(l) /\ m = l
      BY <1>1, <1>2, <2>1 DEF CountOf
    <3> QED
      BY <1>4, <1>5, <3>1
  <2>2. CASE ty \in {"u16str", "u16cstr"}
    <3>1. m = l * 2
      BY <1>1, <1>2, <2>2
    <3>2. n = IF l * 2 > 65535 THEN 65535 ELSE l * 2
      BY <1>1, <2>2 DEF CountOf
    <3> QED
      BY <1>5, <3>1, <3>2
  <2>3. CASE ty = "osstr"
    <3>1. m = l * 2 /\ l < 65536 /\ l * 2 \in Nat
      BY <1>1, <1>2, <1>5, <2>3
    <3>2. n = u16(u16(l) * 2)
      BY <1>1, <1>5, <2>3 DEF CountOf
    <3>3. u16(l) = l /\ u16(l * 2) = l * 2
      BY <1>4, <1>5, <3>1
    <3> QED
      BY <3>1, <3>2, <3>3
  <2> QED
    BY <2>1, <2>2, <2>3 DEF Texts
<1>6. ~x.ok /\ ty = "osstr" => n = 0
  BY DEF CountOf
<1> QED
  BY <1>3, <1>5, <1>6

LEMMA TextTold ==
  ASSUME NEW p, NEW x, ~p.slice, p.ty \in Texts, x.len \in Nat, x.ok \in BOOLEAN,
         x.ok \/ p.ty = "osstr"
  PROVE  Told(p, x)
<1>1. PICK n, m, ty, v : n = CountOf(p.ty, x) /\ m = x.len * UnitSize(p.ty) /\ ty = p.ty /\ v = x.v
  OBVIOUS
<1>2. /\ m \in Nat /\ (m = 0 <=> x.len = 0)
      /\ x.ok /\ m < 65536 => n = m
      /\ ~x.ok => n = 0
  BY <1>1, CountsFit
<1>3. TypeOf(p) \in Counted /\ "VCOUNT" \notin FlagsOf(p)
  BY TypeOfTexts, FlagsAre DEF TypeOf
<1>4. PICK a, b, items : a = Count(n) /\ b = Text(v, m) /\ items = FieldData(p, x)
  OBVIOUS
<1>5. b.len = m /\ ItemSize(a) = 2 /\ ItemSize(b) = m
  BY <1>4, ItemSizes DEF Text
<1>6. items = IF ~x.ok \/ m = 0 THEN <<a>> ELSE <<a, b>>
  <2>1. items = <<a>> \o (IF x.ok THEN Bytes(b) ELSE <<>>)
    BY <1>1, <1>4, FieldDataIs DEF TextData
  <2>2. CASE x.ok
    <3>1. items = <<a>> \o Bytes(b)
      BY <2>1, <2>2
    <3>2. items = IF b.len = 0 THEN <<a>> ELSE <<a, b>>
      BY <3>1, CountAndBytes
    <3> QED
      BY <1>5, <2>2, <3>2
  <2>3. CASE ~x.ok
    <3>1. items = <<a>> \o <<>>
      BY <2>1, <2>3
    <3> QED
      BY <2>3, <3>1, SideBySide
  <2> QED
    BY <2>2, <2>3
<1>7. Sizable(items)
  <2>1. ItemSize(a) \in Nat /\ ItemSize(b) \in Nat
    BY <1>2, <1>5
  <2> QED
    BY <1>6, <2>1, OneItem, TwoItems DEF Sizable
<1>8. PICK w, name, o, flags, type : /\ w = FieldWire(p, x) /\ name = p.name /\ flags = FlagsOf(p)
                                     /\ type = TypeOf(p)
                                     /\ o = IF OutType(p) = None THEN OutFlag.NULL ELSE OutType(p)
  OBVIOUS
<1>9. Desc(w) = FieldDesc(name, In(type, flags), o) /\ w.items = items
      /\ "VCOUNT" \notin flags /\ type \in Counted
  BY <1>3, <1>4, <1>7, <1>8, FieldWireIs
<1>10. ASSUME Fits(items) PROVE Reads(w, Shown(p, x).value)
  <2>1. CASE ~x.ok \/ m = 0
    <3>1. n = 0
      BY <1>2, <2>1
    <3>2. w.items = <<Count(0)>>
      BY <1>4, <1>6, <1>9, <2>1, <3>1
    <3>3. Reads(w, Nothing)
      BY <1>9, <3>2, EmptyReads
    <3> QED
      BY <1>2, <2>1, <3>3, ShownIs
  <2>2. CASE x.ok /\ m # 0
    <3>1. items = <<a, b>>
      BY <1>6, <2>2
    <3>2. m < 65536
      <4>1. 2 \in DOMAIN items /\ items[2] = b
        BY <3>1
      <4> QED
        BY <1>5, <1>10, <4>1 DEF Fits
    <3>3. n = m
      BY <1>2, <2>2, <3>2
    <3>4. w.items = <<Count(m), Text(v, m)>>
      BY <1>4, <1>9, <3>1, <3>3
    <3>5. Reads(w, v)
      BY <1>9, <2>2, <3>4, CountedReads
    <3> QED
      BY <1>1, <1>2, <2>2, <3>5, ShownIs
  <2> QED
    BY <2>1, <2>2
<1> QED
  BY <1>4, <1>7, <1>8, <1>10 DEF Told, SeenAs

LEMMA SocketTold ==
  ASSUME NEW p, NEW x, ~p.slice, p.ty \in DOMAIN Sockets, x.len \in Sockets[p.ty]
  PROVE  Told(p, x)
<1>1. PICK n, v : n = x.len /\ v = x.v
  OBVIOUS
<1>2. n \in Nat /\ n # 0 /\ p.ty \notin Texts /\ p.ty # "osstr"
  BY <1>1 DEF Sockets, Texts
<1>3. TypeOf(p) \in Counted /\ "VCOUNT" \notin FlagsOf(p)
  BY TypeOfTexts, FlagsAre DEF TypeOf
<1>4. PICK a, b, items : a = Count(n) /\ b = Text(v, n) /\ items = FieldData(p, x)
  OBVIOUS
<1>5. items = <<a, b>>
  BY <1>1, <1>4, FieldDataIs
<1>6. Sizable(items)
  <2>1. ItemSize(a) \in Nat /\ ItemSize(b) \in Nat
    BY <1>2, <1>4, ItemSizes
  <2> QED
    BY <1>5, <2>1, TwoItems
<1>7. PICK w, name, o, flags, type : /\ w = FieldWire(p, x) /\ name = p.name /\ flags = FlagsOf(p)
                                     /\ type = TypeOf(p)
                                     /\ o = IF OutType(p) = None THEN OutFlag.NULL ELSE OutType(p)
  OBVIOUS
<1>8. Desc(w) = FieldDesc(name, In(type, flags), o) /\ w.items = <<Count(n), Text(v, n)>>
      /\ "VCOUNT" \notin flags /\ type \in Counted
  BY <1>3, <1>4, <1>5, <1>6, <1>7, FieldWireIs
<1>9. Reads(w, v)
  BY <1>2, <1>8, CountedReads
<1>10. Shown(p, x).value = v
  BY <1>1, <1>2, ShownIs
<1> QED
  BY <1>4, <1>6, <1>7, <1>9, <1>10 DEF Told, SeenAs

\* A number of the width of its type.
LEMMA NumTold ==
  ASSUME NEW p, NEW x, ~p.slice, TypeOf(p) \in DOMAIN Width, NEW v,
         FieldData(p, x) = <<Num(Width[TypeOf(p)], v)>>,
         Shown(p, x).value = IF TypeOf(p) = "GUID" THEN TextOf(v) ELSE v
  PROVE  Told(p, x)
<1>1. PICK w, name, o, flags, type : /\ w = FieldWire(p, x) /\ name = p.name /\ flags = FlagsOf(p)
                                     /\ type = TypeOf(p)
                                     /\ o = IF OutType(p) = None THEN OutFlag.NULL ELSE OutType(p)
  OBVIOUS
<1>2. PICK a, items : a = Num(Width[type], v) /\ items = FieldData(p, x) /\ items = <<a>>
  BY <1>1
<1>3. Sizable(items)
  <2>1. ItemSize(a) \in Nat
    BY <1>1, <1>2, ItemSizes, WidthsAre
  <2> QED
    BY <1>2, <2>1, OneItem DEF Sizable
<1>4. Desc(w) = FieldDesc(name, In(type, flags), o) /\ w.items = <<Num(Width[type], v)>>
      /\ "VCOUNT" \notin flags
  BY <1>1, <1>2, <1>3, FieldWireIs, FlagsAre
<1>5. Reads(w, IF type = "GUID" THEN TextOf(v) ELSE v)
  BY <1>1, <1>4, NumReads
<1> QED
  BY <1>1, <1>2, <1>3, <1>5 DEF Told, SeenAs

LEMMA TimeTold ==
  ASSUME NEW p, NEW x, ~p.slice, p.ty = "SystemTime", x.len = 1
  PROVE  Told(p, x)
<1>1. FieldData(p, x) = TimeData(x)
  BY FieldDataIs
<1>2. CASE x.ok
  <2>1. TypeOf(p) = "FILETIME"
    BY TypeOfOthers DEF TypeOf
  <2>2. FieldData(p, x) = <<Num(Width[TypeOf(p)], x.v)>>
    BY <1>1, <1>2, <2>1, TypeOfOthers DEF TimeData
  <2>3. Shown(p, x).value = x.v
    BY ShownIs
  <2> QED
    BY <2>1, <2>2, <2>3, NumTold, TypeOfOthers
<1>3. CASE ~x.ok
  BY <1>1, <1>3, NoItem DEF TimeData, Told, SeenAs, NoTime
<1> QED
  BY <1>2, <1>3

LEMMA OtherTold ==
  ASSUME NEW p, NEW x, ~p.slice, Supported(p), p.ty \notin Odd \cup {"SystemTime"}, x.len = 1
  PROVE  Told(p, x)
<1>1. TypeOf(p) = WellKnownTypes[p.ty].in_expr /\ p.ty # "osstr"
  BY DEF TypeOf, Odd
<1>2. TypeOf(p) \in DOMAIN Width /\ TypeOf(p) # "GUID"
  BY <1>1, TypeOfValues DEF Supported
<1>3. FieldData(p, x) = <<Num(Width[TypeOf(p)], x.v)>>
  BY <1>1, FieldDataIs
<1>4. Shown(p, x).value = x.v
  BY <1>1, ShownIs
<1> QED
  BY <1>2, <1>3, <1>4, NumTold

\* A Uuid by its parts, read from left to right.
LEMMA PartsOf ==
  ASSUME NEW b \in Octets
  PROVE  SubSeq(b, 1, 4) \o SubSeq(b, 5, 6) \o SubSeq(b, 7, 8) \o SubSeq(b, 9, 16) = b
<1> DEFINE p1 == SubSeq(b, 1, 4)
           p2 == SubSeq(b, 5, 6)
           p3 == SubSeq(b, 7, 8)
           p4 == SubSeq(b, 9, 16)
           w1 == p1 \o p2
           w2 == w1 \o p3
           v  == w2 \o p4
<1>0. \A i \in 1..16 : b[i] \in Byte
  BY DEF Octets
<1>1. p1 \in Seq(Byte) /\ Len(p1) = 4 /\ \A i \in 1..4 : p1[i] = b[i]
  BY <1>0, Part
<1>2. p2 \in Seq(Byte) /\ Len(p2) = 2 /\ \A i \in 1..2 : p2[i] = b[4 + i]
  BY <1>0, Part
<1>3. p3 \in Seq(Byte) /\ Len(p3) = 2 /\ \A i \in 1..2 : p3[i] = b[6 + i]
  BY <1>0, Part
<1>4. p4 \in Seq(Byte) /\ Len(p4) = 8 /\ \A i \in 1..8 : p4[i] = b[8 + i]
  BY <1>0, Part
<1> HIDE DEF p1, p2, p3, p4
<1>5. 2 \in Nat /\ 4 \in Nat /\ 6 \in Nat /\ 8 \in Nat
  OBVIOUS
<1>6. w1 \in Seq(Byte) /\ Len(w1) = 6 /\ \A i \in 1..6 : w1[i] = IF i <= 4 THEN p1[i] ELSE p2[i - 4]
  <2>1. Joins(Byte, w1, p1, p2, 4, 2)
    BY <1>1, <1>2, <1>5, Joined, Zenon
  <2> HIDE DEF w1
  <2> QED
    BY <2>1 DEF Joins
<1> HIDE DEF w1
<1>7. w2 \in Seq(Byte) /\ Len(w2) = 8 /\ \A i \in 1..8 : w2[i] = IF i <= 6 THEN w1[i] ELSE p3[i - 6]
  <2>1. Joins(Byte, w2, w1, p3, 6, 2)
    BY <1>3, <1>5, <1>6, Joined, Zenon
  <2> HIDE DEF w2
  <2> QED
    BY <2>1 DEF Joins
<1> HIDE DEF w2
<1>8. v \in Seq(Byte) /\ Len(v) = 16 /\ \A i \in 1..16 : v[i] = IF i <= 8 THEN w2[i] ELSE p4[i - 8]
  <2>1. Joins(Byte, v, w2, p4, 8, 8)
    BY <1>4, <1>5, <1>7, Joined, Zenon
  <2> HIDE DEF v
  <2> QED
    BY <2>1 DEF Joins
<1> HIDE DEF v
<1>9. ASSUME NEW i \in 1..16 PROVE v[i] = b[i]
  <2>1. CASE i \in 1..4
    BY <1>1, <1>6, <1>7, <1>8, <2>1
  <2>2. CASE i \in 5..6
    <3>1. v[i] = p2[i - 4] /\ i - 4 \in 1..2 /\ 4 + (i - 4) = i
      BY <1>6, <1>7, <1>8, <2>2
    <3> QED
      BY <1>2, <3>1
  <2>3. CASE i \in 7..8
    <3>1. v[i] = p3[i - 6] /\ i - 6 \in 1..2 /\ 6 + (i - 6) = i
      BY <1>7, <1>8, <2>3
    <3> QED
      BY <1>3, <3>1
  <2>4. CASE i \in 9..16
    <3>1. v[i] = p4[i - 8] /\ i - 8 \in 1..8 /\ 8 + (i - 8) = i
      BY <1>8, <2>4
    <3> QED
      BY <1>4, <3>1
  <2> QED
    BY <2>1, <2>2, <2>3, <2>4
<1>10. v \in Octets
  BY <1>8, AreOctets
<1>11. v = b
  BY <1>9, <1>10 DEF Octets
<1> QED
  BY <1>11, Zenon DEF v, w2, w1, p1, p2, p3, p4

\* However a program came by a GUID, its memory is the other form of the text.
LEMMA GuidInMemory ==
  ASSUME NEW b \in Octets
  PROVE  /\ Memory(uuid_to_expr(b)) = SwapFields(b)
         /\ Memory(FromUuid(b)) = SwapFields(b)
         /\ Memory(TryFromText(Display(FromUuid(b)))) = SwapFields(b)
         /\ Memory(FromWindows(FromUuid(b))) = SwapFields(b)
<1>1. PICK g : g = FromUuid(b)
  OBVIOUS
<1>2. /\ g.data1 = SubSeq(b, 1, 4) /\ g.data2 = SubSeq(b, 5, 6) /\ g.data3 = SubSeq(b, 7, 8)
      /\ g.data4 = SubSeq(b, 9, 16)
  BY <1>1 DEF FromUuid, guid
<1>3. Memory(g) = SwapFields(b)
  BY <1>2, Zenon DEF Memory, SwapFields
<1>4. Display(g) = b
  <2>1. Display(g) = SubSeq(b, 1, 4) \o SubSeq(b, 5, 6) \o SubSeq(b, 7, 8) \o SubSeq(b, 9, 16)
    BY <1>2, Zenon DEF Display
  <2> QED
    BY <2>1, PartsOf, Zenon
<1>5. TryFromText(Display(g)) = g
  BY <1>1, <1>4, Zenon DEF TryFromText
<1>6. FromWindows(g) = g
  BY <1>1, <1>2 DEF FromWindows, FromUuid
<1> QED
  BY <1>1, <1>3, <1>5, <1>6, LiteralInMemory, Zenon

LEMMA GuidTold ==
  ASSUME NEW p, NEW x, ~p.slice, p.ty = "guid", x.len = 1, x.v \in Octets,
         x.from \in {"literal", "uuid", "printed", "windows"}
  PROVE  Told(p, x)
<1>1. PICK b, v : b = x.v /\ v = SwapFields(b)
  OBVIOUS
<1>2. FieldData(p, x) = <<Num(16, v)>>
  <2>1. FieldData(p, x) = GuidData(x)
    BY FieldDataIs
  <2>2. CASE x.from = "literal"
    BY <1>1, <2>1, <2>2, GuidInMemory DEF GuidData
  <2>3. CASE x.from = "uuid"
    BY <1>1, <2>1, <2>3, GuidInMemory DEF GuidData
  <2>4. CASE x.from = "printed"
    BY <1>1, <2>1, <2>4, GuidInMemory DEF GuidData
  <2>5. CASE x.from = "windows"
    BY <1>1, <2>1, <2>5, GuidInMemory DEF GuidData
  <2> QED
    BY <2>2, <2>3, <2>4, <2>5
<1>3. TypeOf(p) = "GUID"
  BY TypeOfOthers DEF TypeOf
<1>4. Shown(p, x).value = TextOf(v)
  <2>1. Shown(p, x).value = b
    BY <1>1, ShownIs
  <2>2. SwapFields(v) = b
    BY <1>1, SwapsBack
  <2> QED
    BY <2>1, <2>2, Zenon DEF TextOf
<1> QED
  BY <1>2, <1>3, <1>4, NumTold, TypeOfOthers

\* Every argument a caller can pass for a parameter.
LEMMA ArgumentTold ==
  ASSUME NEW p, p.slice \in BOOLEAN, Supported(p), Decodable(p), NEW x, x \in Values(p)
  PROVE  Told(p, x)
<1>1. Lengths \subseteq Nat /\ Uuids \subseteq Octets
  BY GeneratedAssumption DEF GeneratedAssumption, Octets, Byte
<1>2. CASE p.slice
  <2>1. x \in [v : {p.name}, len : Lengths, ok : {TRUE}]
    BY <1>2 DEF Values
  <2> QED
    BY <1>1, <1>2, <2>1, SliceTold
<1>3. CASE ~p.slice /\ p.ty \in Texts
  <2>1. CASE p.ty = "osstr"
    <3>1. x \in [v : {p.name}, len : Lengths, ok : BOOLEAN]
      BY <1>3, <2>1 DEF Values, Texts, Sockets
    <3> QED
      BY <1>1, <1>3, <2>1, <3>1, TextTold
  <2>2. CASE p.ty # "osstr"
    <3>1. x \in [v : {p.name}, len : Lengths, ok : {TRUE}]
      BY <1>3, <2>2 DEF Values, Texts, Sockets
    <3> QED
      BY <1>1, <1>3, <3>1, TextTold
  <2> QED
    BY <2>1, <2>2
<1>4. CASE ~p.slice /\ p.ty \in DOMAIN Sockets
  <2>1. x \in [v : {p.name}, len : Sockets[p.ty], ok : {TRUE}]
    <3>1. p.ty # "osstr" /\ p.ty \notin Texts /\ p.ty # "SystemTime" /\ p.ty # "guid"
      BY <1>4 DEF Texts, Sockets
    <3> QED
      BY <1>4, <3>1 DEF Values
  <2> QED
    BY <1>4, <2>1, SocketTold
<1>5. CASE ~p.slice /\ p.ty = "SystemTime"
  <2>1. x \in [v : {p.name}, len : {1}, ok : BOOLEAN]
    BY <1>5 DEF Values, Texts, Sockets
  <2> QED
    BY <1>5, <2>1, TimeTold
<1>6. CASE ~p.slice /\ p.ty = "guid"
  <2>1. x \in [v : Uuids, len : {1}, ok : {TRUE}, from : {"literal", "uuid", "printed", "windows"}]
    BY <1>6 DEF Values, Texts, Sockets
  <2> QED
    BY <1>1, <1>6, <2>1, GuidTold
<1>7. CASE ~p.slice /\ p.ty \notin Odd \cup {"SystemTime"}
  <2>1. x \in [v : {p.name}, len : {1}, ok : {TRUE}]
    <3>1. p.ty # "osstr" /\ p.ty \notin Texts /\ p.ty \notin DOMAIN Sockets /\ p.ty # "guid"
      BY <1>7, OddOnes DEF Texts
    <3> QED
      BY <1>7, <3>1 DEF Values
  <2> QED
    BY <1>7, <2>1, OtherTold
<1> QED
  BY <1>2, <1>3, <1>4, <1>5, <1>6, <1>7, OddOnes

-----------------------------------------------------------------------------
(* The round trip.  The third invariant says what metadata and payload are *)
(* made of: the fields of the method, and of the arguments of the call.    *)

\* What was generated of the methods, if there were no errors.
Built ==
  expansion.errors = {} =>
    \A i \in 1..expansion.index :
      /\ expansion.events[i].params = trait.methods[i].params
      /\ expansion.events[i].metadata = EventMetadataOf(trait.methods[i])
      /\ FieldErrors(trait.methods[i]) = {}

\* What was handed to ETW.
Sent ==
  event # None =>
    LET e == expansion.events[event.of]
    IN  /\ event.metadata = e.metadata /\ event.args \in Arguments(e.params)
        /\ event.payload = Payload(e.params, event.args)
        /\ PayloadSize(event.payload) <= MaxPayload

LEMMA InitDelivered == Init => Built /\ Sent
BY DEF Init, Built, Sent

LEMMA NextBuilt == Inv /\ Built /\ [Next]_vars => Built'
<1> SUFFICES ASSUME Inv, Built, [Next]_vars PROVE Built'
  OBVIOUS
<1>1. CASE UNCHANGED <<trait, expansion>>
  BY <1>1 DEF Built
<1>2. CASE Expand
  <2> SUFFICES ASSUME expansion'.errors = {}, NEW i \in 1..expansion'.index
               PROVE  /\ expansion'.events[i].params = trait.methods[i].params
                      /\ expansion'.events[i].metadata = EventMetadataOf(trait.methods[i])
                      /\ FieldErrors(trait.methods[i]) = {}
    <3>1. trait' = trait
      BY <1>2 DEF Expand
    <3> QED
      BY <3>1 DEF Built
  <2>1. PICK b, m, n : b = expansion /\ n = b.index /\ m = trait.methods[n + 1]
    OBVIOUS
  <2>2. /\ n \in Nat /\ n < 65535 /\ u16(n + 1) = n + 1
    <3>1. trait \in Traits /\ n \in Nat /\ n < Len(trait.methods)
      BY <1>2, <2>1 DEF Expand, Inv, Shape
    <3>2. n \in Nat /\ n < 65535
      BY <3>1, Lengths16
    <3> QED
      BY <3>2 DEF u16
  <2>3. ~m.oversized
    <3>1. SUFFICES ASSUME m.oversized PROVE FALSE
      OBVIOUS
    <3>2. expansion' = [b EXCEPT !.index = u16(@ + 1), !.errors = @ \cup FieldErrors(m) \cup {"too large"}]
      BY <1>2, <2>1, <3>1 DEF Expand, Expanded, TooLarge
    <3>3. expansion'.errors = b.errors \cup FieldErrors(m) \cup {"too large"}
      BY <2>1, <3>2 DEF Inv, Shape
    <3> QED
      BY <3>3
  <2>4. PICK a, e : a = parse_event_attributes(m.attrs) /\ e = GeneratedEvent(b, m, a)
    OBVIOUS
  <2>5. expansion' = [b EXCEPT
           !.index = u16(@ + 1),
           !.event_ids_auto_generated = AutoIds(b, a.event_id),
           !.event_id_mappings = IF a.event_id = None THEN @ ELSE @ \cup {a.event_id},
           !.errors = @ \cup FieldErrors(m) \cup a.errors \cup IdErrors(b, a.event_id),
           !.events = Append(@, e)]
    BY <1>2, <2>1, <2>3, <2>4 DEF Expand, Expanded, ExpandedWith
  <2>6. /\ expansion'.index = n + 1 /\ expansion'.events = Append(b.events, e)
        /\ expansion'.errors = b.errors \cup FieldErrors(m) \cup a.errors \cup IdErrors(b, a.event_id)
    BY <2>1, <2>2, <2>5 DEF Inv, Shape
  <2>7. b.errors = {} /\ FieldErrors(m) = {}
    BY <2>6
  <2>8. Len(b.events) = n
    BY <2>1, <2>7 DEF Inv, IdsOK
  <2>9. PICK S : b.events \in Seq(S)
    BY <2>1 DEF Inv, Shape
  <2>10. IsSequence(b.events)
    BY <2>9, SequenceIs
  <2>11. /\ \A k \in 1..n : expansion'.events[k] = b.events[k]
         /\ expansion'.events[n + 1] = e
    BY <2>6, <2>8, <2>10, AppendIs
  <2>12. CASE i = n + 1
    <3>1. e.params = m.params /\ e.metadata = EventMetadataOf(m)
      BY <2>4 DEF GeneratedEvent
    <3> QED
      BY <2>1, <2>7, <2>11, <2>12, <3>1
  <2>13. CASE i \in 1..n
    BY <2>1, <2>7, <2>11, <2>13 DEF Built
  <2>14. i = n + 1 \/ i \in 1..n
    BY <2>2, <2>6
  <2> QED
    BY <2>12, <2>13, <2>14, Zenon
<1> QED
  BY <1>1, <1>2 DEF Next, Compile, new, new_err, null, Construct, CallPanics, Call, vars

LEMMA NextSent == Inv /\ Faithful /\ Sent /\ [Next]_vars => Sent'
<1> SUFFICES ASSUME Inv, Faithful, Sent, [Next]_vars PROVE Sent'
  OBVIOUS
<1>1. CASE UNCHANGED <<expansion, event>>
  BY <1>1 DEF Sent
<1>2. CASE Expand
  <2>1. event' = None
    BY <1>2 DEF Expand, Faithful
  <2> QED
    BY <2>1 DEF Sent
<1>3. ASSUME NEW i \in DOMAIN expansion.events, NEW args \in Arguments(expansion.events[i].params),
             NEW level, Call(i, args, level)
      PROVE  Sent'
  <2>1. expansion' = expansion
    BY <1>3 DEF Call
  <2>2. CASE event' = event
    BY <1>1, <2>1, <2>2
  <2>3. CASE event' # event
    <3>1. PICK e, payload, ev : /\ e = expansion.events[i] /\ payload = Payload(e.params, args)
                                /\ ev = event'
      OBVIOUS
    <3>2. /\ PayloadSize(payload) <= MaxPayload
          /\ ev = [of |-> i, args |-> args, options_level |-> level,
                   descriptor |-> WithLevel(WithLevel(EventDescriptor(e.attrs, e.id), level), level),
                   provider |-> PROVIDER_METADATA,
                   metadata |-> e.metadata, payload |-> payload]
      BY <1>3, <2>3, <3>1 DEF Call
    <3>3. ev.of = i /\ ev.args = args /\ ev.metadata = e.metadata /\ ev.payload = payload
      BY <3>2
    <3> QED
      BY <1>3, <2>1, <3>1, <3>2, <3>3 DEF Sent
  <2> QED
    BY <2>2, <2>3
<1>4. ASSUME Next, ~Expand, ~(UNCHANGED <<expansion, event>>)
      PROVE  \E i \in DOMAIN expansion.events, level \in OptionLevels :
               \E args \in Arguments(expansion.events[i].params) : Call(i, args, level)
  BY <1>4 DEF Next, Compile, new, new_err, null, Construct, CallPanics
<1> QED
  BY <1>1, <1>2, <1>3, <1>4 DEF vars

\* The parameters of a method are such as the decoder can tell.
Proper(params) ==
  /\ IsSequence(params)
  /\ \A k \in DOMAIN params : /\ params[k].slice \in BOOLEAN /\ params[k].hex \in BOOLEAN
                             /\ Supported(params[k]) /\ Decodable(params[k])

\* The payload of a call and the metadata of its event.
Calls(meta, data, params, args) ==
  /\ meta = FlattenSeq([k \in DOMAIN params |-> FieldMetadata(params[k])])
  /\ data = FlattenSeq([k \in DOMAIN params |-> FieldData(params[k], args[k])])
  /\ \A k \in DOMAIN params : args[k] \in Values(params[k])
  /\ PayloadSize(data) <= MaxPayload

FieldWires(params, args) == [k \in DOMAIN params |-> FieldWire(params[k], args[k])]
Givens(params, args)     == [k \in DOMAIN params |-> Shown(params[k], args[k])]

LEMMA CallCarries ==
  ASSUME NEW params, NEW args, NEW meta, NEW data, Proper(params), Calls(meta, data, params, args)
  PROVE  /\ IsSequence(FieldWires(params, args)) /\ Len(FieldWires(params, args)) = Len(params)
         /\ \A k \in DOMAIN params : FieldWires(params, args)[k] = FieldWire(params[k], args[k])
         /\ Carries(meta, data, FieldWires(params, args))
<1>1. PICK n \in Nat : n = Len(params) /\ DOMAIN params = 1..n
  BY SequenceParts DEF Proper
<1>2. PICK L : L = FieldWires(params, args) /\ L = [k \in 1..n |-> FieldWire(params[k], args[k])]
  BY <1>1 DEF FieldWires
<1>3. DOMAIN L = 1..n /\ L = [k \in 1..n |-> L[k]] /\ \A k \in 1..n : L[k] = FieldWire(params[k], args[k])
  BY <1>2
<1>4. IsSequence(L) /\ Len(L) = n
  BY <1>3, FunctionIsSequence
<1>5. ASSUME NEW k \in 1..n
      PROVE  WireOK(L[k]) /\ Tokens(L[k]) = FieldMetadata(params[k]) /\ L[k].items = FieldData(params[k], args[k])
  <2>1. PICK p, x : p = params[k] /\ x = args[k]
    OBVIOUS
  <2>2. p.slice \in BOOLEAN /\ Supported(p) /\ Decodable(p) /\ x \in Values(p) /\ L[k] = FieldWire(p, x)
    BY <1>1, <1>3, <2>1 DEF Proper, Calls
  <2>3. Sizable(FieldData(p, x))
    BY <2>2, ArgumentTold DEF Told
  <2> QED
    BY <2>1, <2>2, <2>3, FieldWireIs, FieldTokens
<1> DEFINE P == [k \in DOMAIN L |-> Tokens(L[k])]
           Q == [k \in DOMAIN L |-> L[k].items]
<1>6. Carries(FlattenSeq(P), FlattenSeq(Q), L)
  <2>1. \A k \in DOMAIN L : WireOK(L[k])
    BY <1>3, <1>5
  <2>2. P = [k \in DOMAIN L |-> Tokens(L[k])] /\ Q = [k \in DOMAIN L |-> L[k].items]
    OBVIOUS
  <2> HIDE DEF P, Q
  <2> QED
    BY <1>4, <2>1, <2>2, ConcatCarries
<1>7. P = [k \in DOMAIN params |-> FieldMetadata(params[k])]
  BY <1>1, <1>3, <1>5
<1>8. Q = [k \in DOMAIN params |-> FieldData(params[k], args[k])]
  BY <1>1, <1>3, <1>5
<1> HIDE DEF P, Q
<1>9. meta = FlattenSeq(P)
  BY <1>7 DEF Calls
<1>10. data = FlattenSeq(Q)
  BY <1>8 DEF Calls
<1> QED
  BY <1>1, <1>2, <1>3, <1>4, <1>6, <1>9, <1>10

\* What is told of the parameters before the first time without a value is
\* what is decoded.
LEMMA CallDecodes ==
  ASSUME NEW params, NEW args, NEW meta, NEW data, Proper(params), Calls(meta, data, params, args),
         NEW n \in 0..Len(params), \A k \in 1..n : ~NoTime(params[k], args[k])
  PROVE  ShownAs(Decode(meta, data), Givens(params, args), n)
<1>1. PICK l \in Nat : l = Len(params) /\ DOMAIN params = 1..l
  BY SequenceParts DEF Proper
<1>2. PICK L : L = FieldWires(params, args)
  OBVIOUS
<1>3. /\ IsSequence(L) /\ Len(L) = l /\ \A k \in 1..l : L[k] = FieldWire(params[k], args[k])
      /\ Carries(meta, data, L)
  BY <1>1, <1>2, CallCarries
<1>4. PICK E : E = Givens(params, args) /\ E = [k \in 1..l |-> Shown(params[k], args[k])]
  BY <1>1 DEF Givens
<1>5. IsSequence(E) /\ Len(E) = l
  <2>1. DOMAIN E = 1..l /\ E = [k \in 1..l |-> E[k]]
    BY <1>4
  <2> QED
    BY <2>1, FunctionIsSequence
<1>6. ASSUME NEW k \in 1..n PROVE Reads(L[k], E[k].value) /\ Seen(L[k], E[k].value) = E[k]
  <2>1. PICK p, x, w : p = params[k] /\ x = args[k] /\ w = L[k]
    OBVIOUS
  <2>2. k \in 1..l /\ k \in DOMAIN L /\ E[k] = Shown(p, x) /\ w = FieldWire(p, x) /\ ~NoTime(p, x)
    <3>1. k \in 1..l
      BY <1>1
    <3>2. DOMAIN L = 1..l
      BY <1>3, SequenceParts
    <3> QED
      BY <1>3, <1>4, <2>1, <3>1, <3>2
  <2>3. /\ p.slice \in BOOLEAN /\ p.hex \in BOOLEAN /\ Supported(p) /\ Decodable(p)
        /\ x \in Values(p)
    BY <1>1, <2>1, <2>2 DEF Proper, Calls
  <2>4. Sizable(FieldData(p, x)) /\ SeenAs(p, x)
    BY <2>3, ArgumentTold DEF Told
  <2>5. /\ Desc(w) = FieldDesc(p.name, In(TypeOf(p), FlagsOf(p)),
                                IF OutType(p) = None THEN OutFlag.NULL ELSE OutType(p))
        /\ w.name = p.name /\ w.items = FieldData(p, x)
    BY <2>2, <2>4, FieldWireIs
  <2>6. Fits(FieldData(p, x))
    <3>1. \A j \in DOMAIN w.items : /\ PayloadSize(data) \in Nat /\ ItemSize(w.items[j]) \in Nat
                                    /\ ItemSize(w.items[j]) <= PayloadSize(data)
      BY <1>3, <2>1, <2>2, WireFits
    <3>2. PayloadSize(data) <= MaxPayload /\ MaxPayload \in Nat /\ MaxPayload < 65536
      BY GeneratedAssumption DEF GeneratedAssumption, Calls
    <3>3. \A j \in DOMAIN w.items : ItemSize(w.items[j]) < 65536
      BY <3>1, <3>2
    <3> QED
      BY <2>5, <3>3 DEF Fits
  <2>7. Reads(w, E[k].value)
    BY <2>2, <2>4, <2>6 DEF SeenAs
  <2>8. Desc(w).out = Displayed(p)
    BY <2>3, <2>5, OutTypeIs DEF FieldDesc
  <2>9. Seen(w, E[k].value) = E[k]
    BY <2>2, <2>5, <2>8 DEF Seen, Shown
  <2> QED
    BY <2>1, <2>7, <2>9
<1>7. n \in 0..Len(E) /\ Len(E) = Len(L)
  BY <1>1, <1>3, <1>5
<1> QED
  BY <1>3, <1>4, <1>5, <1>6, <1>7, WiresShown

\* The parameters of every method of a trait whose parameters can be told.
LEMMA MethodProper ==
  ASSUME NEW t \in Traits, DecodableTrait(t), NEW i \in 1..Len(t.methods), NEW m, m = t.methods[i],
         FieldErrors(m) = {}
  PROVE  Proper(m.params)
<1>1. m \in ToSet(t.methods)
  <2>1. t.methods \in Seq(ToSet(t.methods))
    BY SyntaxAssumption DEF SyntaxAssumption, IsSequence
  <2> QED
    BY <2>1
<1>2. PICK params : params = m.params
  OBVIOUS
<1>3. /\ IsSequence(params)
      /\ \A p \in ToSet(params) : p.slice \in BOOLEAN /\ p.hex \in BOOLEAN
  BY <1>1, <1>2, SyntaxAssumption DEF SyntaxAssumption
<1>4. \A p \in ToSet(params) : Decodable(p)
  BY <1>1, <1>2 DEF DecodableTrait
<1>5. \A k \in DOMAIN params : params[k] \in ToSet(params)
  BY DEF ToSet
<1>6. \A k \in DOMAIN params : ~Unsupported(params[k])
  BY <1>2 DEF FieldErrors
<1>7. \A k \in DOMAIN params : Supported(params[k])
  BY <1>6 DEF Unsupported, Supported
<1> QED
  BY <1>2, <1>3, <1>4, <1>5, <1>7 DEF Proper

\* The parameters before the first time without a value.
FirstEarly(pairs) == SelectInSeq(pairs, LAMBDA x : x[1].ty = "SystemTime" /\ ~x[2].ok)

LEMMA FirstEarlyIs ==
  ASSUME NEW pairs, NEW l \in Nat, Len(pairs) = l, NEW early, early = FirstEarly(pairs),
         NEW n, n = IF early = 0 THEN l ELSE early - 1
  PROVE  /\ n \in 0..l /\ (early # 0 => n # l)
         /\ \A k \in 1..n : ~(pairs[k][1].ty = "SystemTime" /\ ~pairs[k][2].ok)
<1>1. PICK I : I = {k \in 1..l : pairs[k][1].ty = "SystemTime" /\ ~pairs[k][2].ok}
  OBVIOUS
<1>2. early = IF I # {} THEN Min(I) ELSE 0
  BY <1>1 DEF FirstEarly, SelectInSeq
<1>3. I \in SUBSET Nat /\ 0 \notin I
  BY <1>1
<1>4. CASE I = {}
  <2>1. early = 0 /\ n = l
    BY <1>2, <1>4
  <2> QED
    BY <1>1, <1>4, <2>1
<1>5. CASE I # {}
  <2>1. early \in I /\ \A y \in I : early <= y
    BY <1>2, <1>3, <1>5, MinIs
  <2>2. early \in 1..l /\ early # 0 /\ n = early - 1
    BY <1>1, <1>3, <2>1
  <2>3. \A k \in 1..n : k \in 1..l /\ ~(early <= k)
    BY <2>2
  <2>4. \A k \in 1..n : k \notin I
    BY <2>1, <2>3
  <2> QED
    BY <1>1, <2>2, <2>3, <2>4
<1> QED
  BY <1>4, <1>5

\* What the two are in the model.
LEMMA FieldsOfEvent ==
  ASSUME NEW m, FieldErrors(m) = {}, NEW params, params = m.params
  PROVE  EventMetadataOf(m) = FlattenSeq([k \in DOMAIN params |-> FieldMetadata(params[k])])
BY DEF EventMetadataOf, Concat

LEMMA FieldsOfCall ==
  ASSUME NEW params, NEW args
  PROVE  Payload(params, args) = FlattenSeq([k \in DOMAIN params |-> FieldData(params[k], args[k])])
BY DEF Payload, Concat

\* An event that was accepted decodes to the arguments of the call.
LEMMA SentIsTold ==
  ASSUME \A t \in Traits : DecodableTrait(t), Inv, Faithful, Built, Sent, event # None
  PROVE  RoundTrip
<1>1. /\ trait \in Traits /\ DecodableTrait(trait)
      /\ expansion.errors = {} /\ expansion.index = Len(trait.methods)
  <2>1. phase \in {"running", "panicked"}
    BY DEF Faithful
  <2> QED
    BY <2>1 DEF Inv, Shape, Faithful
<1>2. PICK i : i = event.of /\ i \in 1..Len(trait.methods)
  BY <1>1 DEF Faithful, Written
<1>3. PICK m, e, params, args, meta, data :
        /\ m = trait.methods[i] /\ e = expansion.events[i] /\ params = e.params
        /\ args = event.args /\ meta = event.metadata /\ data = event.payload
  OBVIOUS
<1>4. params = m.params /\ e.metadata = EventMetadataOf(m) /\ FieldErrors(m) = {}
  BY <1>1, <1>2, <1>3 DEF Built
<1>5. /\ meta = e.metadata /\ args \in Arguments(params) /\ data = Payload(params, args)
      /\ PayloadSize(data) <= MaxPayload
  BY <1>2, <1>3 DEF Sent
<1>6. Proper(params)
  BY <1>1, <1>2, <1>3, <1>4, MethodProper
<1>7. Calls(meta, data, params, args)
  <2>1. meta = FlattenSeq([k \in DOMAIN params |-> FieldMetadata(params[k])])
    BY <1>4, <1>5, FieldsOfEvent
  <2>2. data = FlattenSeq([k \in DOMAIN params |-> FieldData(params[k], args[k])])
    BY <1>5, FieldsOfCall
  <2>3. \A k \in DOMAIN params : args[k] \in Values(params[k])
    BY <1>5 DEF Arguments
  <2> QED
    BY <1>5, <2>1, <2>2, <2>3, Zenon DEF Calls
<1>8. PICK l \in Nat : l = Len(params) /\ DOMAIN params = 1..l
  BY <1>6, SequenceParts DEF Proper
<1>9. PICK pairs : pairs = [k \in DOMAIN params |-> <<params[k], args[k]>>]
  OBVIOUS
<1>10. Len(pairs) = l /\ \A k \in 1..l : pairs[k] = <<params[k], args[k]>>
  <2>1. DOMAIN pairs = 1..l /\ pairs = [k \in 1..l |-> pairs[k]]
    BY <1>8, <1>9
  <2>2. Len(pairs) = l
    BY <2>1, FunctionIsSequence
  <2> QED
    BY <1>8, <1>9, <2>2
<1>11. PICK early, n : early = FirstEarly(pairs) /\ n = IF early = 0 THEN l ELSE early - 1
  OBVIOUS
<1>12. /\ n \in 0..l /\ (early # 0 => n # l)
       /\ \A k \in 1..n : ~(pairs[k][1].ty = "SystemTime" /\ ~pairs[k][2].ok)
  BY <1>10, <1>11, FirstEarlyIs
<1>13. \A k \in 1..n : ~NoTime(params[k], args[k])
  <2>1. \A k \in 1..n : k \in 1..l
    BY <1>12
  <2> QED
    BY <1>10, <1>12, <2>1 DEF NoTime
<1>14. PICK given, shown : given = Givens(params, args) /\ shown = Decode(meta, data)
  OBVIOUS
<1>15. ShownAs(shown, given, n)
  BY <1>6, <1>7, <1>8, <1>12, <1>13, <1>14, CallDecodes
<1>16. given = [k \in DOMAIN params |-> Shown(params[k], args[k])] /\ Len(given) = l
  <2>1. given = [k \in DOMAIN params |-> Shown(params[k], args[k])]
    BY <1>14 DEF Givens
  <2>2. DOMAIN given = 1..l /\ given = [k \in 1..l |-> given[k]]
    BY <1>8, <2>1
  <2> QED
    BY <2>1, <2>2, FunctionIsSequence
<1>17. IF early = 0 THEN shown = given ELSE SubSeq(shown, 1, early - 1) = SubSeq(given, 1, early - 1)
  BY <1>11, <1>12, <1>15, <1>16 DEF ShownAs
<1> QED
  BY <1>2, <1>3, <1>9, <1>11, <1>14, <1>16, <1>17 DEF RoundTrip, FirstEarly

\* Whatever a trait declares, in types whose metadata tell them apart, and
\* whatever a program passes: an event ETW accepts decodes to the names,
\* formats and arguments of the call, up to the first time before 1970.  For
\* any number of parameters and lengths of texts and slices, counts that wrap
\* included; and for any GUIDs.
THEOREM GeneratedRoundTrip ==
  ASSUME \A t \in Traits : DecodableTrait(t)
  PROVE  Spec => []RoundTrip
<1>1. Inv /\ Faithful /\ Built /\ Sent => RoundTrip
  <2>1. CASE event = None
    BY <2>1 DEF RoundTrip
  <2>2. CASE event # None
    BY <2>2, SentIsTold
  <2> QED
    BY <2>1, <2>2
<1> QED
  BY <1>1, InitInv, NextInv, InitFaithful, NextFaithful, InitDelivered, NextBuilt, NextSent, PTL DEF Spec
=============================================================================
