------------------------- MODULE ProviderAttributes -------------------------
(***************************************************************************)
(* The arguments of #[trace_logging_provider(...)], and what the macro     *)
(* makes of them: the identity of the provider, its metadata and its       *)
(* traits (win_etw_macros/src/lib.rs).                                     *)
(*                                                                         *)
(* An argument is a `key = "<guid>"` or a `key = "<text>"`, of kind "guid" *)
(* or "text" and with that in a field; a `key = <something else>` or a     *)
(* lone `key`, of kind "other" or "path".  A text is [v, len].             *)
(***************************************************************************)
EXTENDS Options, Guids, SequencesExt

Empty == [uuid |-> None, provider_name |-> None, provider_group_guid |-> None, errors |-> {}]

Refuse(a) == [a EXCEPT !.errors = {"provider attribute"}]

IsGuid(arg) == arg.kind = "guid" /\ arg.guid # Nil

parse_argument(a, arg) ==
  CASE arg.kind = "path" -> IF arg.key = "static_mode" THEN a ELSE Refuse(a)
    [] arg.kind # "path" /\ arg.key = "guid" ->
         IF IsGuid(arg) /\ a.uuid = None THEN [a EXCEPT !.uuid = arg.guid] ELSE Refuse(a)
    [] arg.kind # "path" /\ arg.key = "name" ->
         IF arg.kind = "text" /\ a.provider_name = None
         THEN [a EXCEPT !.provider_name = arg.text] ELSE Refuse(a)
    [] arg.kind # "path" /\ arg.key = "provider_group_guid" ->
         IF IsGuid(arg) /\ a.provider_group_guid = None
         THEN [a EXCEPT !.provider_group_guid = arg.guid] ELSE Refuse(a)
    [] OTHER -> Refuse(a)

\* An error gives up all the arguments, but the expansion goes on.
parse(args) ==
  LET a == FoldLeft(LAMBDA b, arg : IF b.errors = {} THEN parse_argument(b, arg) ELSE b, Empty, args)
  IN  IF a.errors = {} THEN a ELSE Refuse(Empty)

-----------------------------------------------------------------------------
\* The size of a blob is stored in its first two bytes.
Sized(size) == <<size % 256, (size \div 256) % 256>>

NameTooLong(name) == 2 + name.len + 1 > 65535

create_provider_metadata(name) == [size |-> Sized(2 + name.len + 1), name |-> name]

\* A trait of type ETW_PROVIDER_TRAIT_TYPE_GROUP: size, type, GUID.
GroupTrait(group) == [size |-> Sized(2 + 1 + 16), type |-> 1, guid |-> to_bytes_le(group)]

TraitsLength(name, group) == 2 + name.len + 1 + (IF group = None THEN 0 ELSE 2 + 1 + 16)

\* Seeded fault: the GUID of the group is written in the order of its text.
create_register_provider_traits_BigEndian(name, group) ==
  [size |-> Sized(TraitsLength(name, group)), name |-> name,
   group |-> IF group = None THEN None ELSE [GroupTrait(group) EXCEPT !.guid = group],
   length |-> TraitsLength(name, group)]

\* The name, then the group if there is one.  A size of 65536 and more, which
\* a name that passed NameTooLong may reach with a group, wraps.
create_register_provider_traits(name, group) ==
  [size |-> Sized(TraitsLength(name, group)), name |-> name,
   group |-> IF group = None THEN None ELSE GroupTrait(group),
   length |-> TraitsLength(name, group)]

\* ETW (external) takes traits only if their size is the length it is given.
SizeOf(size)     == size[1] + 256 * size[2]
TakesTraits(blob) == SizeOf(blob.size) = blob.length
=============================================================================
