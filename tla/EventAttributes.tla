-------------------------- MODULE EventAttributes --------------------------
(***************************************************************************)
(* The #[event(...)] attributes of one event method, as                    *)
(* parse_event_attributes of win_etw_macros/src/lib.rs reads them, and the *)
(* event descriptor made of them.                                          *)
(*                                                                         *)
(* An attribute is [path, metas]; a meta is [key, lit]; a literal is a     *)
(* number, of kind "int", or a text, of kind "str".                        *)
(***************************************************************************)
EXTENDS Options, Naturals, SequencesExt

IntLit(n) == [kind |-> "int", v |-> n]
StrLit(s) == [kind |-> "str", text |-> s]

LevelNames == [critical |-> 1, error |-> 2, warn |-> 3, info |-> 4, verbose |-> 5]

Unset == [level |-> IntLit(LevelNames.verbose), opcode |-> IntLit(0), task |-> IntLit(0),
          keyword |-> None, event_id |-> None, errors |-> {}, failed |-> FALSE]

Fail(a) == [a EXCEPT !.errors = @ \cup {"attribute"}, !.failed = TRUE]

\* One meta.  Of level, opcode and task the last one counts; keyword and id
\* may be given once.
parse_event_meta(a, meta) ==
  LET lit == meta.lit  IN
  CASE meta.key = "level" /\ lit.kind = "str" ->
         IF lit.text \in DOMAIN LevelNames THEN [a EXCEPT !.level = IntLit(LevelNames[lit.text])] ELSE Fail(a)
    [] meta.key = "level" /\ lit.kind = "int" -> [a EXCEPT !.level = lit]
    [] meta.key = "opcode" -> [a EXCEPT !.opcode = lit]
    [] meta.key = "task"   -> [a EXCEPT !.task = lit]
    [] meta.key = "keyword" ->
         IF a.keyword # None THEN Fail(a) ELSE [a EXCEPT !.keyword = lit]
    [] meta.key = "id" ->
         IF a.event_id # None \/ lit.kind # "int" THEN Fail(a)
         ELSE IF lit.v > 65535 THEN Fail(a) ELSE [a EXCEPT !.event_id = lit.v]
    [] OTHER -> Fail(a)

\* The first error ends an attribute; the next attribute is read all the same.
parse_nested_meta(a, metas) ==
  [FoldLeft(LAMBDA b, meta : IF b.failed THEN b ELSE parse_event_meta(b, meta), a, metas)
     EXCEPT !.failed = FALSE]

\* Seeded fault: every #[event] attribute starts from the defaults.
parse_event_attributes_Afresh(attrs) ==
  FoldLeft(LAMBDA a, attr :
             CASE attr.path = "doc"   -> a
               [] attr.path = "event" ->
                    parse_nested_meta([Unset EXCEPT !.errors = a.errors, !.event_id = a.event_id],
                                      attr.metas)
               [] OTHER -> [a EXCEPT !.errors = @ \cup {"attribute"}],
           Unset, attrs)

parse_event_attributes(attrs) ==
  FoldLeft(LAMBDA a, attr :
             CASE attr.path = "doc"   -> a
               [] attr.path = "event" -> parse_nested_meta(a, attr.metas)
               [] OTHER -> [a EXCEPT !.errors = @ \cup {"attribute"}],
           Unset, attrs)

\* rustc (external) accepts the literals in the fields of EventDescriptor.
Typed(lit, largest) == lit.kind = "int" /\ lit.v <= largest
WellTyped(a) ==
  /\ Typed(a.level, 255) /\ Typed(a.opcode, 255) /\ Typed(a.task, 65535)
  /\ IF a.keyword = None THEN TRUE ELSE a.keyword.kind = "int"

EventDescriptor(a, id) ==
  [id |-> id, version |-> 0, channel |-> 11, level |-> a.level.v, opcode |-> a.opcode.v,
   task |-> a.task.v, keyword |-> IF a.keyword = None THEN 0 ELSE a.keyword.v]
=============================================================================
