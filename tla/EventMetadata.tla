--------------------------- MODULE EventMetadata ---------------------------
(***************************************************************************)
(* The self-describing event format that both producers of this repository *)
(* write, as win_etw_metadata/src/lib.rs documents it, and a decoder for   *)
(* it that knows nothing of the producers.                                 *)
(*                                                                         *)
(* Metadata is a sequence of tokens: a name with its terminator, an InFlag *)
(* byte (type and flags), an OutFlag byte.  A payload is a sequence of     *)
(* items: numbers of a width, texts and arrays of a length, terminators,   *)
(* counts.                                                                 *)
(*                                                                         *)
(* Two points are taken from the producers and not from that file.  Its    *)
(* comments give the counts of COUNTED_UNICODE_STRING (lines 132-134) and  *)
(* COUNTED_ANSI_STRING (138-140) "in WCHAR units (not bytes)"; both        *)
(* producers store bytes, and the decoder takes bytes.  And they say that  *)
(* a GUID has its fields "in big-endian form" (114-115), where the struct  *)
(* lies in memory as it is.  Nothing is shown here of a consumer that      *)
(* follows those comments.                                                 *)
(***************************************************************************)
EXTENDS Guids, SequencesExt

\* The OutFlag byte: how a field is displayed.
OutFlag == [NULL |-> 0, NOPRINT |-> 1, STRING |-> 2, BOOLEAN |-> 3, HEX |-> 4, PID |-> 5,
            TID |-> 6, PORT |-> 7, IPV4 |-> 8, IPV6 |-> 9, SOCKETADDRESS |-> 10, XML |-> 11,
            JSON |-> 12, WIN32ERROR |-> 13, NTSTATUS |-> 14, HRESULT |-> 15, FILETIME |-> 16,
            SIGNED |-> 17, UNSIGNED |-> 18, UTF8 |-> 35, PKCS7_WITH_TYPE_INFO |-> 36,
            DATETIME_UTC |-> 38]

Name(n)           == [k |-> "name", v |-> n]
In(type, flags)   == [k |-> "in", type |-> type, flags |-> flags]
Out(format)       == [k |-> "out", v |-> format]

Num(width, v)        == [k |-> "num", width |-> width, v |-> v]
Text(v, len)         == [k |-> "text", v |-> v, len |-> len]
Items(v, width, len) == [k |-> "items", v |-> v, width |-> width, len |-> len]
Count(n)             == [k |-> "count", n |-> n]
Nul                  == [k |-> "nul"]

\* The bytes of a payload.
ItemSize(item) ==
  CASE item.k = "count" -> 2
    [] item.k = "text"  -> item.len
    [] item.k = "num"   -> item.width
    [] item.k = "items" -> item.len * item.width
    [] item.k = "nul"   -> 1
AddItem(n, item)     == n + ItemSize(item)
PayloadSize(payload) == FoldLeft(AddItem, 0, payload)

\* What the program is made of, or makes, has an end.
IsSequence(s) == s \in Seq(ToSet(s))

\* A length stored in 16 bits.
u16(n) == n % 65536

Garbled == [k |-> "garbled"]
Nothing == [k |-> "nothing"]  \* what is shown of a text or array of length 0

Strings == {"ANSI_STRING"}
Counted == {"COUNTED_ANSI_STRING", "COUNTED_UNICODE_STRING", "BINARY"}

\* The bytes of one value of an InFlag type of fixed size.
Sizes1  == {"INT8", "UINT8"}
Sizes2  == {"INT16", "UINT16"}
Sizes4  == {"INT32", "UINT32", "FLOAT"}
Sizes8  == {"INT64", "UINT64", "DOUBLE", "FILETIME"}
Width ==
  [type \in Sizes1 \cup Sizes2 \cup Sizes4 \cup Sizes8 \cup {"GUID"} |->
     CASE type \in Sizes1 -> 1 [] type \in Sizes2 -> 2 [] type \in Sizes4 -> 4
       [] type \in Sizes8 -> 8 [] type = "GUID" -> 16]

-----------------------------------------------------------------------------
(* Metadata.  "A flag which indicates that this field metadata also        *)
(* includes an `OutFlag`.  The `OutFlag` byte immediately follows the      *)
(* `InFlag` byte."  An OutFlag byte found where a name should start is the *)
(* first character of that name.                                           *)

FieldDesc(name, in, out) == [name |-> name, type |-> in.type, flags |-> in.flags, out |-> out]

\* A field that begins at token i.
Glued(meta, i)   == meta[i].k = "out"
NameAt(meta, i)  == IF Glued(meta, i) THEN i + 1 ELSE i
Chained(meta, i) == "CHAIN" \in meta[NameAt(meta, i) + 1].flags
WellFormed(meta, i) ==
  LET at == NameAt(meta, i)
  IN  /\ at + 1 <= Len(meta) /\ meta[at].k = "name" /\ meta[at + 1].k = "in"
      /\ Chained(meta, i) => at + 2 <= Len(meta) /\ meta[at + 2].k = "out"
FieldAt(meta, i) ==
  FieldDesc(IF Glued(meta, i) THEN "(glued)" ELSE meta[i].v, meta[NameAt(meta, i) + 1],
            IF Chained(meta, i) THEN meta[NameAt(meta, i) + 2].v ELSE OutFlag.NULL)
After(meta, i) == NameAt(meta, i) + (IF Chained(meta, i) THEN 3 ELSE 2)

DecodeMetadata(meta) ==
  LET fields[i \in 1..Len(meta) + 1] ==
        IF i > Len(meta) THEN <<>>
        ELSE IF ~WellFormed(meta, i) THEN <<Garbled>>
        ELSE <<FieldAt(meta, i)>> \o fields[After(meta, i)]
  IN  fields[1]

-----------------------------------------------------------------------------
(* Payload.  The count of a counted type is in bytes, the count of an      *)
(* array in elements.                                                      *)

\* One field at position p: its value and the position after it.
ValueAt(field, payload, p) ==
  LET item(i) == IF i <= Len(payload) THEN payload[i] ELSE Garbled
      here == item(p)
      then == item(p + 1)
      read(v, size) == [v |-> v, next |-> p + size]
      array   == "VCOUNT" \in field.flags
      counted == array \/ field.type \in Counted
  IN  CASE counted /\ here.k = "count" /\ here.n = 0 -> read(Nothing, 1)
        [] array /\ here.k = "count" /\ here.n # 0 /\ then.k = "items" /\ here.n = then.len
             /\ field.type \in DOMAIN Width /\ then.width = Width[field.type] -> read(then.v, 2)
        [] counted /\ ~array /\ here.k = "count" /\ here.n # 0 /\ then.k = "text"
             /\ here.n = then.len -> read(then.v, 2)
        [] ~counted /\ field.type \in Strings /\ here.k = "text" /\ then.k = "nul" ->
             read(here.v, 2)
        [] ~counted /\ field.type \in DOMAIN Width /\ here.k = "num"
             /\ here.width = Width[field.type] ->
             read(IF field.type = "GUID" THEN TextOf(here.v) ELSE here.v, 1)
        [] OTHER -> read(Garbled, 1)

\* What a consumer displays: every field with its name and its value.  An
\* item that no field describes garbles the event.
Decode(meta, payload) ==
  LET fields == DecodeMetadata(meta)
      n == Len(fields)
      read(i, p) == IF fields[i] = Garbled THEN [v |-> Garbled, next |-> p]
                    ELSE ValueAt(fields[i], payload, p)
      at[i \in 1..n + 1] == IF i = 1 THEN 1 ELSE read(i - 1, at[i - 1]).next
      shown(i) == IF fields[i] = Garbled THEN Garbled
                  ELSE [name |-> fields[i].name, value |-> read(i, at[i]).v, out |-> fields[i].out]
  IN  [i \in 1..n |-> shown(i)] \o (IF at[n + 1] > Len(payload) THEN <<>> ELSE <<Garbled>>)
=============================================================================
