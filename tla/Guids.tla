------------------------------- MODULE Guids -------------------------------
(***************************************************************************)
(* The forms a GUID takes in this repository (win_etw_provider/src/guid.rs *)
(* and the ends of win_etw_macros/src/lib.rs) and the conversions between  *)
(* them.                                                                   *)
(*                                                                         *)
(* A Uuid is the sequence of its 16 bytes in the order of the text.  The   *)
(* struct GUID has fields of 32, 16 and 16 bits, each written here as its  *)
(* bytes, the most significant first, and 8 single bytes.  In memory, on   *)
(* the little-endian machines Windows runs on, a field starts with its     *)
(* least significant byte.                                                 *)
(***************************************************************************)
EXTENDS Naturals, SequencesExt

Nil == [i \in 1..16 |-> 0]

\* guid!(data1, data2, data3, data4...)
guid(data1, data2, data3, data4) ==
  [data1 |-> data1, data2 |-> data2, data3 |-> data3, data4 |-> data4]

\* From<Uuid>: value.as_fields().
FromUuid(uuid) ==
  guid(SubSeq(uuid, 1, 4), SubSeq(uuid, 5, 6), SubSeq(uuid, 7, 8), SubSeq(uuid, 9, 16))

\* TryFrom<&str>: the text is parsed as a Uuid first.
TryFromText(text) == FromUuid(text)

\* From<windows_sys::core::GUID> and back: field by field.
FromWindows(g) == guid(g.data1, g.data2, g.data3, g.data4)

\* The literal the macro emits for a Uuid: bytes shifted into the fields.
uuid_to_expr(uuid) ==
  guid(<<uuid[1], uuid[2], uuid[3], uuid[4]>>, <<uuid[5], uuid[6]>>, <<uuid[7], uuid[8]>>,
       SubSeq(uuid, 9, 16))

\* Display for GUID: the fields in hexadecimal, from left to right.
Display(g) == g.data1 \o g.data2 \o g.data3 \o g.data4

\* The bytes ETW finds behind a *const GUID, and a descriptor of a &GUID.
Memory(g) == Reverse(g.data1) \o Reverse(g.data2) \o Reverse(g.data3) \o g.data4

\* Uuid::to_bytes_le and Builder::from_bytes_le: its own inverse.
SwapFields(b) ==
  Reverse(SubSeq(b, 1, 4)) \o Reverse(SubSeq(b, 5, 6)) \o Reverse(SubSeq(b, 7, 8))
    \o SubSeq(b, 9, 16)
to_bytes_le(uuid)    == SwapFields(uuid)
from_bytes_le(bytes) == SwapFields(bytes)

\* What a consumer that reads 16 bytes as a Windows GUID shows.
TextOf(bytes) == SwapFields(bytes)

\* Builder::with_version(Sha1): the high half of the seventh byte becomes 5.
with_version(uuid) == [uuid EXCEPT ![7] = (@ % 16) + 80]

\* The provider's GUID if none is given, from the SHA-1 of its name.
etw_event_source_guid(hash) == with_version(from_bytes_le(SubSeq(hash, 1, 16)))
=============================================================================
