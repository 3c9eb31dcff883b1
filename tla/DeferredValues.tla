--------------------------- MODULE DeferredValues ---------------------------
(***************************************************************************)
(* The values recorded on a span after its creation and kept until it      *)
(* closes: DeferredValues in win_etw_tracing/src/lib.rs.  A recorded value *)
(* is a record [field, value]; a `Vec<(Field, DeferredValue)>` is a        *)
(* sequence of them.                                                       *)
(***************************************************************************)
EXTENDS Naturals, Sequences, SequencesExt

\* The position of `field` in `values`, 0 if it is absent.
Position(values, field) == SelectInSeq(values, LAMBDA v : v.field = field)

\* Seeded fault: a value recorded again is not looked for.
update_Appends(values, new) == Append(values, new)

\* DeferredValues::update: the first entry of the field is overwritten in
\* place, whatever its type was; a new field goes to the end.
update(values, new) ==
  LET at == Position(values, new.field)
  IN  IF at # 0 THEN [values EXCEPT ![at] = new] ELSE Append(values, new)

\* Record::record on a DeferredValues: one update for each field of the call.
RecordAll(values, call) == FoldLeft(update, values, call)

-----------------------------------------------------------------------------
(* Reference: what a reader of the trace expects of a history of recorded  *)
(* values, said without any of the steps above.                            *)

FirstIndex(said, f) == CHOOSE i \in DOMAIN said :
  said[i].field = f /\ \A j \in DOMAIN said : said[j].field = f => i <= j
LastIndex(said, f) == CHOOSE i \in DOMAIN said :
  said[i].field = f /\ \A j \in DOMAIN said : said[j].field = f => j <= i
FieldsOf(said) == {said[i].field : i \in DOMAIN said}

\* Every field once, in the order of first mention, with the last value.
Summarises(values, said) ==
  /\ Len(values) = Cardinality(FieldsOf(said))
  /\ \A f \in FieldsOf(said) :
       \E i \in DOMAIN values : values[i] = said[LastIndex(said, f)]
  /\ \A i, j \in DOMAIN values :
       i < j => FirstIndex(said, values[i].field) < FirstIndex(said, values[j].field)
=============================================================================
