------------------------------ MODULE Msgpack -------------------------------
(***************************************************************************)
(* The encoding of configuration requests and of telemetry,                *)
(* src/src/rns/Msgpack.cpp, over bytes.                                    *)
(*                                                                         *)
(* A number is its big-endian bytes, an int64_t eight of them in two's     *)
(* complement: a cast to fewer bits drops leading bytes.  The place of a   *)
(* reader that has failed is any: nothing looks at it.  A definition that  *)
(* nothing uses is a slip that this code could have and does not.          *)
(***************************************************************************)
EXTENDS Naturals, Sequences

CONSTANT Narrowed(_)   \* the cast from double to float, on their bytes

Byte == 0 .. 255

-----------------------------------------------------------------------------
(* Writer *)

Be16(n) == <<n \div 256, n % 256>>

ArrayHeader(n) == IF n < 16 THEN <<144 + n>> ELSE <<220>> \o Be16(n)
MapHeader(n)   == IF n < 16 THEN <<128 + n>> ELSE <<222>> \o Be16(n)

Nil        == <<192>>
BoolVal(v) == IF v THEN <<195>> ELSE <<194>>

\* uint8, uint16 and uint32, by their bytes
Uint(bytes) ==
  <<CASE Len(bytes) = 1 -> 204 [] Len(bytes) = 2 -> 205 [] Len(bytes) = 4 -> 206>> \o bytes

Float32(bytes) == <<202>> \o bytes
Str(s) == (IF Len(s) < 32 THEN <<160 + Len(s)>> ELSE <<217, Len(s)>>) \o s
Bin(s) == <<196, Len(s)>> \o s

\* std::string of a char array: what precedes the first NUL.
CString(chars) ==
  SubSeq(chars, 1, CHOOSE n \in 0 .. Len(chars) :
                     /\ \A k \in 1 .. n : chars[k] # 0
                     /\ n < Len(chars) => chars[n + 1] = 0)

-----------------------------------------------------------------------------
(* Reader *)

\* peek_type, as the tags of each type; the other tags are of none.
TagsOf ==
  [nil   |-> {192},
   bool  |-> {194, 195},
   uint  |-> (0 .. 127) \cup (204 .. 207),
   int   |-> (224 .. 255) \cup (208 .. 211),
   float |-> {202, 203},
   str   |-> (160 .. 191) \cup {217, 218},
   bin   |-> {196, 197},
   array |-> (144 .. 159) \cup {220, 221},
   map   |-> (128 .. 143) \cup {222, 223}]

AllTags == UNION {TagsOf[t] : t \in DOMAIN TagsOf}

\* How many bytes of value or length follow a tag.
Width(tag) ==
  CASE tag \in {196, 204, 208, 217}           -> 1
    [] tag \in {197, 205, 209, 218, 220, 222} -> 2
    [] tag \in {202, 206, 210, 221, 223}      -> 4
    [] tag \in {203, 207, 211}                -> 8
    [] OTHER                                  -> 0

Reader(bytes) == [buf |-> bytes, off |-> 0, ok |-> TRUE]

AtEnd(r) == r.off = Len(r.buf)

\* need
Need(r, n) == r.ok /\ r.off + n <= Len(r.buf)

\* A read gives the reader afterwards, and a value if it succeeds.
Refused(r) == [reader |-> [r EXCEPT !.ok = FALSE], tag |-> 0, val |-> << >>]

\* The tag, which must be one of tags, and the bytes that belong to it.
ReadTag(r, tags) ==
  LET tag == r.buf[r.off + 1]
  IN  IF Need(r, 1) /\ tag \in tags /\ Need(r, 1 + Width(tag))
      THEN [reader |-> [r EXCEPT !.off = @ + 1 + Width(tag)],
            tag    |-> tag,
            val    |-> SubSeq(r.buf, r.off + 2, r.off + 1 + Width(tag))]
      ELSE Refused(r)

ReadNil(r) == ReadTag(r, TagsOf.nil)

AsBool(t)   == [t EXCEPT !.val = (t.tag = 195)]
ReadBool(r) == AsBool(ReadTag(r, TagsOf.bool))

\* A value in the tag itself is one byte.
Bytes(t) == IF t.val = << >> THEN <<t.tag>> ELSE t.val

Widened(bytes, fill) ==
  [i \in 1 .. 8 |-> IF i <= 8 - Len(bytes) THEN fill ELSE bytes[i + Len(bytes) - 8]]

AsUint(t)   == IF t.reader.ok THEN [t EXCEPT !.val = Widened(Bytes(t), 0)] ELSE t
ReadUint(r) == AsUint(ReadTag(r, TagsOf.uint))

ReadIntZeroExtended(r) == AsUint(ReadTag(r, TagsOf.uint \cup TagsOf.int))

Negative(t) == t.tag \in TagsOf.int /\ Bytes(t)[1] >= 128

AsInt(t) ==
  IF ~t.reader.ok \/ (t.tag = 207 /\ t.val[1] >= 128) THEN Refused(t.reader)
  ELSE [t EXCEPT !.val = Widened(Bytes(t), IF Negative(t) THEN 255 ELSE 0)]

\* read_int: either kind of integer, if an int64_t can hold it
ReadInt(r) == AsInt(ReadTag(r, TagsOf.uint \cup TagsOf.int))

AsFloat32(t)   == IF t.tag = 203 THEN [t EXCEPT !.val = Narrowed(t.val)] ELSE t
ReadFloat32(r) == AsFloat32(ReadTag(r, TagsOf.float))

\* A length or count.  One of more than 16 bits exceeds every buffer and stops
\* at some number that does.
Count(t, inTag) ==
  LET n[i \in 0 .. Len(t.val)] ==
        IF i = 0 THEN 0
        ELSE LET m == n[i - 1] IN IF m >= 65536 THEN m ELSE 256 * m + t.val[i]
  IN  IF t.val = << >> THEN t.tag % inTag ELSE n[Len(t.val)]

\* The n bytes that follow t.
Contents(t, n) ==
  IF Need(t.reader, n)
  THEN [t EXCEPT !.reader.off = @ + n,
                 !.val = SubSeq(t.reader.buf, t.reader.off + 1, t.reader.off + n)]
  ELSE Refused(t.reader)

AsContents(t) == IF t.reader.ok THEN Contents(t, Count(t, 32)) ELSE t
ReadStr(r)    == AsContents(ReadTag(r, TagsOf.str))
ReadBin(r)    == AsContents(ReadTag(r, TagsOf.bin))

AsHeader(t)        == IF t.reader.ok THEN [t EXCEPT !.val = Count(t, 16)] ELSE t
ReadArrayHeader(r) == AsHeader(ReadTag(r, TagsOf.array))
ReadMapHeader(r)   == AsHeader(ReadTag(r, TagsOf.map))

\* peek_type
TypeOf(r) ==
  IF AtEnd(r) \/ r.buf[r.off + 1] \notin AllTags THEN "invalid"
  ELSE CHOOSE t \in DOMAIN TagsOf : r.buf[r.off + 1] \in TagsOf[t]

ReadAny(r, type) ==
  CASE type = "nil"     -> ReadNil(r)
    [] type = "bool"    -> ReadBool(r)
    [] type = "uint"    -> ReadUint(r)
    [] type = "int"     -> ReadInt(r)
    [] type = "float"   -> ReadFloat32(r)
    [] type = "str"     -> ReadStr(r)
    [] type = "bin"     -> ReadBin(r)
    [] type = "array"   -> ReadArrayHeader(r)
    [] type = "map"     -> ReadMapHeader(r)
    [] type = "invalid" -> Refused(r)

\* How many values are inside the value t.
Inside(t) ==
  IF ~t.reader.ok THEN 0
  ELSE CASE t.tag \in TagsOf.array -> t.val
         [] t.tag \in TagsOf.map   -> 2 * t.val
         [] OTHER                  -> 0

PassOne(s, t) == [reader |-> t.reader, left |-> s.left - 1 + Inside(t)]

\* skip_value.  Its recursion reads the values in the order they stand in, as
\* long as some are left; each takes a byte at least.
SkipValue(r) ==
  LET after[k \in 0 .. Len(r.buf) + 1] ==
        IF k = 0 THEN [reader |-> r, left |-> 1]
        ELSE LET s == after[k - 1]
             IN  IF s.left = 0 \/ ~s.reader.ok THEN s
                 ELSE PassOne(s, ReadAny(s.reader, TypeOf(s.reader)))
  IN  after[Len(r.buf) + 1].reader
=============================================================================
