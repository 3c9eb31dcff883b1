------------------------ MODULE MCGeneratedProvider ------------------------
(* Instances of GeneratedProvider for TLC. *)
EXTENDS GeneratedProvider

P(n, ty)  == [name |-> n, ty |-> ty, slice |-> FALSE, hex |-> FALSE]
S(n, ty)  == [P(n, ty) EXCEPT !.slice = TRUE]
H(n, ty)  == [P(n, ty) EXCEPT !.hex = TRUE]

At(metas) == [path |-> "event", metas |-> metas]
On(attrs, ps) == [attrs |-> attrs, params |-> ps, malformed |-> FALSE, oversized |-> FALSE]
M(id, ps) ==
  On(IF id = None THEN <<>> ELSE <<At(<<[key |-> "id", lit |-> IntLit(id)]>>)>>, ps)

UuidA    == [i \in 1..16 |-> i]
UuidB    == [i \in 1..16 |-> 16 + i]
TwoUuids == {UuidA, UuidB}

Ident == [v |-> "ident", len |-> 9]
T(methods) == [ident |-> Ident, args |-> <<>>, methods |-> methods]

Scalars   == DOMAIN WellKnownTypes
IntTypes == {"u8", "u16", "u32", "u64", "i8", "i16", "i32", "i64", "usize", "isize"}
SliceOf   == {"bool", "u8", "u16", "u32", "u64", "i8", "i16", "i32", "i64", "f32", "f64"}

Params(n) == {P(n, ty) : ty \in Scalars} \cup {S(n, ty) : ty \in SliceOf}
             \cup {H(n, ty) : ty \in IntTypes} \cup {[S(n, "u16") EXCEPT !.hex = TRUE]}

\* One event with two fields of any types.
FieldTraits == {T(<<M(None, <<p, q>>)>>) : p \in Params("a"), q \in Params("b")}

\* Up to three methods, of which some are wrong.
IdMethods ==
  {M(id, <<>>) : id \in {None, 0, 1, 2}} \cup
  {[M(id, <<P("a", "String")>>) EXCEPT !.malformed = x, !.oversized = y] :
     id \in {None, 1}, x, y \in BOOLEAN}
IdTraits == {T(methods) : methods \in UNION {[1..n -> IdMethods] : n \in 0..3}}

\* One event with up to three metas, in one attribute or in several.
Metas ==
  {[key |-> "level", lit |-> lit] : lit \in {StrLit("warn"), StrLit("loud"), IntLit(0), IntLit(256)}}
  \cup {[key |-> "opcode",  lit |-> lit] : lit \in {IntLit(1), IntLit(256)}}
  \cup {[key |-> "task",    lit |-> lit] : lit \in {IntLit(65535), StrLit("1")}}
  \cup {[key |-> "keyword", lit |-> lit] : lit \in {IntLit(16), IntLit(32)}}
  \cup {[key |-> "id",      lit |-> lit] : lit \in {IntLit(7), IntLit(65536), StrLit("7")}}
  \cup {[key |-> "channel", lit |-> IntLit(11)]}
Doc   == [path |-> "doc",   metas |-> <<>>]
Stray == [path |-> "allow", metas |-> <<>>]
AttrLists ==
  {<<At(<<x, y, z>>)>> : x, y, z \in Metas} \cup {<<At(<<x, y>>), Doc, At(<<z>>)>> : x, y, z \in Metas}
  \cup {<<Stray, At(<<x>>)>> : x \in Metas}
AttrTraits == {T(<<On(attrs, <<>>)>>) : attrs \in AttrLists}

\* One event, and up to three arguments of the provider's attribute.
GuidArg(key, g)    == [key |-> key, kind |-> "guid", guid |-> g]
TextArg(key, len)  == [key |-> key, kind |-> "text", text |-> [v |-> "text", len |-> len]]
Arg(key, kind)     == [key |-> key, kind |-> kind]
Args ==
  {GuidArg(key, g) : key \in {"guid", "provider_group_guid"}, g \in {Nil, UuidA, UuidB}}
  \cup {TextArg("name", len) : len \in {0, 5, 65513, 65514, 65532, 65533}}
  \cup {TextArg("guid", 7), Arg("name", "other"), Arg("version", "other")}
  \cup {Arg(key, "path") : key \in {"static_mode", "guid"}}
ArgTraits == {[T(<<M(None, <<>>)>>) EXCEPT !.args = args] : args \in UNION {[1..n -> Args] : n \in 0..3}}

AllTraits  == FieldTraits \cup IdTraits \cup AttrTraits \cup ArgTraits
WordSlices == {T(<<M(None, <<S("a", ty), P("b", "u32")>>)>>) : ty \in {"usize", "isize"}}
Grouped    == {[T(<<>>) EXCEPT !.args = <<GuidArg("provider_group_guid", UuidA)>>]}

\* The traits of the main run are such as the round trip is proved for.
ASSUME AllDecodable == \A t \in AllTraits : DecodableTrait(t)

EdgeLengths  == {0, 1, 32767, 32768, 65533, 65534, 65535, 65536, 65537}
ShortLengths == {0, 2}
All          == {"new", "new_err", "null"}
Overrides    == {None, 2}
NoOverride   == {None}
=============================================================================
