------------------------ MODULE SerialConsoleProofs -------------------------
(***************************************************************************)
(* Theorems about the configuration service over both of its ways, for any *)
(* requests, garbled or not, and any configuration; and about the encoding *)
(* they and the beacon rest on.                                            *)
(***************************************************************************)
EXTENDS SerialConsole, Integers, SequenceTheorems, WellFoundedInduction, TLAPS

-----------------------------------------------------------------------------
(* Recursion and induction on the numbers up to a bound *)

LEMMA Least ==
  ASSUME NEW T, T \subseteq Nat, T # {}
  PROVE  \E x \in T : \A y \in T : x <= y
<1> DEFINE R == {ss \in Nat \X Nat : ss[1] < ss[2]}
<1>1. IsWellFoundedOn(R, Nat)
  BY NatLessThanWellFounded DEF OpToRel
<1>2. \A x, y \in Nat : y < x => <<y, x>> \in R
  OBVIOUS
<1> HIDE DEF R
<1>3. PICK x \in T : \A y \in T : ~(<<y, x>> \in R)
  BY <1>1, WFMin
<1>4. \A y \in T : ~(y < x)
  BY <1>2, <1>3
<1> QED
  BY <1>3, <1>4

\* G is the set of numbers that have what is to be shown.
LEMMA UpTo ==
  ASSUME NEW n \in Nat, NEW G, 0 \in G,
         \A k \in 1 .. n : k - 1 \in G => k \in G
  PROVE  \A k \in 0 .. n : k \in G
<1> DEFINE T == {k \in 0 .. n : k \notin G}
<1>1. ASSUME T # {} PROVE FALSE
  <2>1. T \subseteq Nat
    OBVIOUS
  <2>2. PICK k \in T : \A j \in T : k <= j
    BY <1>1, <2>1, Least
  <2>3. k \in 1 .. n
    BY <2>2
  <2>4. k - 1 \in 0 .. n /\ k - 1 \notin T
    BY <2>2, <2>3
  <2> QED
    BY <2>2, <2>3, <2>4
<1> QED
  BY <1>1

\* The states that a function of k, the step, makes of a in n rounds.
IsRun(f, S, n, a, F) ==
  /\ f \in [0 .. n -> S]
  /\ f[0] = a
  /\ \A k \in 1 .. n : f[k] = F[k][f[k - 1]]

LEMMA RunExists ==
  ASSUME NEW S, NEW n \in Nat, NEW a \in S, NEW F \in [1 .. n -> [S -> S]]
  PROVE  \E f : IsRun(f, S, n, a, F)
<1> DEFINE G == {m \in 0 .. n : \E f : IsRun(f, S, m, a, F)}
<1>1. 0 \in G
  <2>1. IsRun([k \in 0 .. 0 |-> a], S, 0, a, F)
    BY DEF IsRun
  <2> QED
    BY <2>1
<1>2. ASSUME NEW m \in 1 .. n, m - 1 \in G
      PROVE  m \in G
  <2>1. PICK f : IsRun(f, S, m - 1, a, F)
    BY <1>2
  <2>2. f[m - 1] \in S /\ F[m][f[m - 1]] \in S
    BY <2>1 DEF IsRun
  <2> DEFINE g == [k \in 0 .. m |-> IF k = m THEN F[m][f[m - 1]] ELSE f[k]]
  <2>3. g \in [0 .. m -> S]
    BY <2>1, <2>2 DEF IsRun
  <2>4. g[0] = a
    BY <2>1 DEF IsRun
  <2>5. ASSUME NEW k \in 1 .. m
        PROVE  g[k] = F[k][g[k - 1]]
    <3>1. k - 1 \in 0 .. m - 1 /\ g[k - 1] = f[k - 1]
      OBVIOUS
    <3>2. CASE k = m
      BY <3>1, <3>2
    <3>3. CASE k # m
      BY <2>1, <3>1, <3>3 DEF IsRun
    <3> QED
      BY <3>2, <3>3
  <2>6. IsRun(g, S, m, a, F)
    BY <2>3, <2>4, <2>5 DEF IsRun
  <2> QED
    BY <2>6
<1> HIDE DEF G
<1>3. \A m \in 0 .. n : m \in G
  BY <1>1, <1>2, UpTo
<1> QED
  BY <1>3 DEF G

-----------------------------------------------------------------------------
(* Reading *)

\* The readers over some bytes.
Readers(bytes) == [buf : {bytes}, off : 0 .. Len(bytes), ok : BOOLEAN]

\* What a read of those bytes gives.
IsRead(t, bytes) ==
  /\ t = [reader |-> t.reader, tag |-> t.tag, val |-> t.val]
  /\ t.reader \in Readers(bytes)

\* A tag of tags, and its bytes.
IsTag(t, bytes, tags) ==
  /\ IsRead(t, bytes)
  /\ t.reader.ok => /\ t.tag \in tags \cap Byte
                    /\ t.val \in Seq(Byte) /\ Len(t.val) = Width(t.tag)

LEMMA ByteIsNat ==
  \A b \in Byte : b \in Nat /\ b < 256
BY DEF Byte

LEMMA WidthType ==
  \A tag \in Byte : Width(tag) \in {0, 1, 2, 4, 8}
BY DEF Width

LEMMA RefusedType ==
  ASSUME NEW bytes, NEW r \in Readers(bytes)
  PROVE  IsRead(Refused(r), bytes) /\ ~Refused(r).reader.ok
BY DEF Refused, IsRead, Readers

LEMMA SubSeqType ==
  ASSUME NEW s \in Seq(Byte), NEW i \in Nat \ {0}, NEW k \in Nat, i + k <= Len(s) + 1
  PROVE  /\ SubSeq(s, i, i + k - 1) \in Seq(Byte)
         /\ Len(SubSeq(s, i, i + k - 1)) = k
         /\ \A j \in 1 .. k : SubSeq(s, i, i + k - 1)[j] = s[i + j - 1]
<1> DEFINE m == i + k - 1
<1>1. \A j \in i .. m : s[j] \in Byte
  OBVIOUS
<1>2. /\ SubSeq(s, i, m) \in Seq(Byte)
      /\ Len(SubSeq(s, i, m)) = IF i <= m THEN m - i + 1 ELSE 0
      /\ \A j \in 1 .. m - i + 1 : SubSeq(s, i, m)[j] = s[i + j - 1]
  BY <1>1, SubSeqProperties
<1> QED
  BY <1>2

\* A char array as a string ends at the first NUL, or where the array does.
LEMMA CStringEnds ==
  ASSUME NEW s \in Seq(Byte)
  PROVE  /\ CString(s) \in Seq(Byte)
         /\ \E n \in 0 .. Len(s) : /\ CString(s) = SubSeq(s, 1, n)
                                   /\ \A k \in 1 .. n : s[k] # 0
                                   /\ n < Len(s) => s[n + 1] = 0
<1> DEFINE Ends(n) == (\A k \in 1 .. n : s[k] # 0) /\ (n < Len(s) => s[n + 1] = 0)
           T == {n \in 0 .. Len(s) : n < Len(s) => s[n + 1] = 0}
<1>1. T \subseteq Nat /\ Len(s) \in T
  OBVIOUS
<1>2. PICK n \in T : \A y \in T : n <= y
  BY <1>1, Least
<1>3. Ends(n)
  <2>1. ASSUME NEW k \in 1 .. n
        PROVE  s[k] # 0
    <3>1. n \in Nat /\ n <= Len(s)
      BY <1>2
    <3>2. PICK j \in 0 .. Len(s) : j = k - 1 /\ j + 1 = k /\ ~ (n <= j)
      BY <3>1
    <3>3. j \notin T
      BY <1>2, <3>2
    <3> QED
      BY <3>2, <3>3
  <2> QED
    BY <1>2, <2>1
<1> HIDE DEF Ends
<1>4. PICK m \in 0 .. Len(s) : m = (CHOOSE x \in 0 .. Len(s) : Ends(x)) /\ Ends(m)
  BY <1>2, <1>3
<1>5. CString(s) = SubSeq(s, 1, m)
  BY <1>4 DEF CString, Ends
<1>6. SubSeq(s, 1, m) \in Seq(Byte)
  <2>1. SubSeq(s, 1, 1 + m - 1) \in Seq(Byte)
    BY SubSeqType
  <2>2. 1 + m - 1 = m
    OBVIOUS
  <2> QED
    BY <2>1, <2>2
<1> QED
  BY <1>4, <1>5, <1>6 DEF Ends

LEMMA ReadTagType ==
  ASSUME NEW bytes \in Seq(Byte), NEW r \in Readers(bytes), NEW tags
  PROVE  IsTag(ReadTag(r, tags), bytes, tags)
<1> DEFINE tag == bytes[r.off + 1]
           w   == Width(tag)
<1>1. r.buf = bytes /\ r.off \in 0 .. Len(bytes) /\ Len(bytes) \in Nat
  BY DEF Readers
<1>2. CASE Need(r, 1) /\ tag \in tags /\ Need(r, 1 + w)
  <2>1. r.ok /\ r.off + 1 \in 1 .. Len(bytes) /\ tag \in Byte
    BY <1>1, <1>2 DEF Need
  <2>2. w \in Nat
    BY <2>1, WidthType
  <2> DEFINE val == SubSeq(bytes, r.off + 2, r.off + 1 + w)
             t   == [reader |-> [r EXCEPT !.off = @ + 1 + w], tag |-> tag, val |-> val]
  <2>3. ReadTag(r, tags) = t
    BY <1>1, <1>2 DEF ReadTag
  <2> HIDE DEF tag, w
  <2>4. r.off + 1 + w <= Len(bytes)
    BY <1>1, <1>2, <2>2 DEF Need
  <2>5. val \in Seq(Byte) /\ Len(val) = w
    <3>1. r.off + 2 \in Nat \ {0} /\ (r.off + 2) + w <= Len(bytes) + 1
      BY <1>1, <2>2, <2>4
    <3>2. (r.off + 2) + w - 1 = r.off + 1 + w
      BY <1>1, <2>2
    <3> HIDE DEF val
    <3>3. \A i \in Nat \ {0} : i + w <= Len(bytes) + 1 =>
            /\ SubSeq(bytes, i, i + w - 1) \in Seq(Byte)
            /\ Len(SubSeq(bytes, i, i + w - 1)) = w
      BY <2>2, SubSeqType
    <3> QED
      BY <3>1, <3>2, <3>3 DEF val
  <2> HIDE DEF val
  <2>6. t.reader \in Readers(bytes)
    BY <1>1, <2>2, <2>4 DEF Readers
  <2>7. /\ ReadTag(r, tags).reader = [r EXCEPT !.off = @ + 1 + w]
        /\ ReadTag(r, tags).tag = tag /\ ReadTag(r, tags).val = val
        /\ ReadTag(r, tags) = [reader |-> [r EXCEPT !.off = @ + 1 + w],
                              tag |-> tag, val |-> val]
    BY <2>3
  <2>8. IsRead(ReadTag(r, tags), bytes)
    BY <2>6, <2>7 DEF IsRead
  <2>9. tag \in tags \cap Byte
    BY <1>2, <2>1
  <2> QED
    BY <2>5, <2>7, <2>8, <2>9 DEF IsTag, w
<1>3. CASE ~(Need(r, 1) /\ tag \in tags /\ Need(r, 1 + w))
  <2>1. ReadTag(r, tags) = Refused(r)
    BY <1>1, <1>3 DEF ReadTag
  <2> QED
    BY <2>1, RefusedType DEF IsTag
<1> QED
  BY <1>2, <1>3

LEMMA CountType ==
  ASSUME NEW t, t.tag \in Nat, t.val \in Seq(Byte), NEW inTag \in Nat \ {0}
  PROVE  Count(t, inTag) \in Nat
<1>1. PICK v \in Seq(Byte) : v = t.val
  OBVIOUS
<1>2. PICK L \in Nat : L = Len(v)
  OBVIOUS
<1>3. \A k \in 1 .. L : v[k] \in Nat
  <2>1. \A k \in 1 .. L : v[k] \in Byte
    BY <1>2
  <2> QED
    BY <2>1, ByteIsNat
<1> DEFINE More(k, m) == IF m >= 65536 THEN m ELSE 256 * m + v[k]
           Is(n) == n = [i \in 0 .. L |-> IF i = 0 THEN 0 ELSE More(i, n[i - 1])]
           F == [k \in 1 .. L |-> [m \in Nat |-> More(k, m)]]
<1>4. \A k \in 1 .. L, m \in Nat : More(k, m) \in Nat
  BY <1>3
<1> HIDE DEF More
<1>5. F \in [1 .. L -> [Nat -> Nat]]
  BY <1>4
<1>6. \A k \in 1 .. L, m \in Nat : F[k][m] = More(k, m)
  OBVIOUS
<1> HIDE DEF F
<1>7. PICK f : IsRun(f, Nat, L, 0, F)
  BY <1>5, RunExists
<1>8. Is(f)
  <2>1. f = [i \in 0 .. L |-> f[i]] /\ \A i \in 0 .. L : f[i] \in Nat
    BY <1>7 DEF IsRun
  <2>2. ASSUME NEW k \in 1 .. L
        PROVE  f[k] = More(k, f[k - 1])
    <3>1. f[k] = F[k][f[k - 1]] /\ k - 1 \in 0 .. L
      BY <1>7 DEF IsRun
    <3> QED
      BY <1>6, <2>1, <3>1
  <2>3. f[0] = 0
    BY <1>7 DEF IsRun
  <2>4. \A i \in 0 .. L : i = 0 \/ i \in 1 .. L
    OBVIOUS
  <2>5. \A i \in 0 .. L : f[i] = IF i = 0 THEN 0 ELSE More(i, f[i - 1])
    BY <2>2, <2>3, <2>4
  <2> QED
    BY <2>1, <2>5
<1> DEFINE n == CHOOSE g : Is(g)
<1>9. Is(n)
  BY <1>8
<1>10. Count(t, inTag) = IF t.val = << >> THEN t.tag % inTag ELSE n[L]
  BY <1>1, <1>2 DEF Count, More
<1> HIDE DEF n
<1>11. \A i \in 0 .. L : n[i] = IF i = 0 THEN 0 ELSE More(i, n[i - 1])
  BY <1>9
<1> DEFINE G == {i \in 0 .. L : n[i] \in Nat}
<1>12. 0 \in G
  BY <1>11
<1>13. ASSUME NEW k \in 1 .. L, k - 1 \in G
       PROVE  k \in G
  <2>1. k \in 0 .. L /\ k # 0 /\ n[k - 1] \in Nat
    BY <1>13
  <2>2. n[k] = More(k, n[k - 1])
    BY <1>11, <2>1
  <2> QED
    BY <1>4, <2>1, <2>2
<1> HIDE DEF G
<1>14. \A k \in 0 .. L : k \in G
  BY <1>12, <1>13, UpTo
<1>15. n[L] \in Nat
  BY <1>14 DEF G
<1>16. t.tag % inTag \in Nat
  OBVIOUS
<1> QED
  BY <1>10, <1>15, <1>16

-----------------------------------------------------------------------------
(* What each read gives *)

\* The casts of floating-point numbers end in the four bytes of a float32.
CastsToFloat32 ==
  /\ \A d \in [1 .. 8 -> Byte] : Narrowed(d) \in [1 .. 4 -> Byte]
  /\ \A b \in [1 .. 4 -> Byte] : Degrees(b) \in [1 .. 4 -> Byte]

\* A read whose value, if it is the header of a map or an array, is a count.
IsValue(t, bytes) ==
  /\ IsRead(t, bytes)
  /\ t.reader.ok => /\ t.tag \in Byte
                    /\ t.tag \in TagsOf.array \cup TagsOf.map => t.val \in Nat

LEMMA SeqAsFunction ==
  ASSUME NEW s \in Seq(Byte)
  PROVE  s \in [1 .. Len(s) -> Byte]
OBVIOUS

LEMMA NotHeaders ==
  /\ TagsOf.nil   \cap (TagsOf.array \cup TagsOf.map) = {}
  /\ TagsOf.bool  \cap (TagsOf.array \cup TagsOf.map) = {}
  /\ TagsOf.float \cap (TagsOf.array \cup TagsOf.map) = {}
  /\ TagsOf.uint  \cap (TagsOf.array \cup TagsOf.map) = {}
  /\ TagsOf.int   \cap (TagsOf.array \cup TagsOf.map) = {}
  /\ TagsOf.str   \cap (TagsOf.array \cup TagsOf.map) = {}
  /\ TagsOf.bin   \cap (TagsOf.array \cup TagsOf.map) = {}
BY DEF TagsOf

LEMMA WidenedType ==
  ASSUME NEW s \in Seq(Byte), Len(s) \in 1 .. 8, NEW fill \in Byte
  PROVE  Widened(s, fill) \in [1 .. 8 -> Byte]
<1>1. PICK n \in 1 .. 8 : n = Len(s)
  OBVIOUS
<1>2. \A i \in 1 .. 8 : i <= 8 - n \/ i + n - 8 \in 1 .. n
  OBVIOUS
<1>3. \A j \in 1 .. n : s[j] \in Byte
  BY <1>1
<1> QED
  BY <1>1, <1>2, <1>3 DEF Widened

LEMMA BytesType ==
  ASSUME NEW bytes, NEW tags, NEW t, IsTag(t, bytes, tags), t.reader.ok
  PROVE  Bytes(t) \in Seq(Byte) /\ Len(Bytes(t)) \in {1, 2, 4, 8}
<1>1. /\ t.tag \in Byte /\ t.val \in Seq(Byte) /\ Len(t.val) = Width(t.tag)
      /\ Width(t.tag) \in {0, 1, 2, 4, 8}
  BY WidthType DEF IsTag
<1>2. CASE t.val = << >>
  BY <1>1, <1>2 DEF Bytes
<1>3. CASE t.val # << >>
  <2>1. PICK s \in Seq(Byte) : s = t.val
    BY <1>1
  <2>2. Len(s) # 0
    BY <1>3, <2>1
  <2> QED
    BY <1>1, <1>3, <2>1, <2>2 DEF Bytes
<1> QED
  BY <1>2, <1>3

LEMMA ReadBoolType ==
  ASSUME NEW bytes \in Seq(Byte), NEW r \in Readers(bytes)
  PROVE  /\ IsValue(ReadBool(r), bytes)
         /\ ReadBool(r).val \in BOOLEAN
<1> DEFINE t == ReadTag(r, TagsOf.bool)
<1>1. IsTag(t, bytes, TagsOf.bool)
  BY ReadTagType
<1> HIDE DEF t
<1>2. ReadBool(r) = [t EXCEPT !.val = (t.tag = 195)]
  BY DEF ReadBool, AsBool, t
<1>3. t.reader.ok => t.tag \notin TagsOf.array \cup TagsOf.map
  BY <1>1, NotHeaders DEF IsTag
<1> QED
  BY <1>1, <1>2, <1>3 DEF IsTag, IsValue, IsRead

LEMMA ReadNilType ==
  ASSUME NEW bytes \in Seq(Byte), NEW r \in Readers(bytes)
  PROVE  IsValue(ReadNil(r), bytes)
<1>1. IsTag(ReadNil(r), bytes, TagsOf.nil)
  BY ReadTagType DEF ReadNil
<1>2. ReadNil(r).reader.ok => ReadNil(r).tag \notin TagsOf.array \cup TagsOf.map
  BY <1>1, NotHeaders DEF IsTag
<1> QED
  BY <1>1, <1>2 DEF IsTag, IsValue

\* Eight bytes, with the tags that were asked for.
LEMMA AsUintType ==
  ASSUME NEW bytes \in Seq(Byte), NEW tags, NEW t, IsTag(t, bytes, tags)
  PROVE  /\ IsRead(AsUint(t), bytes)
         /\ AsUint(t).reader.ok => /\ AsUint(t).tag \in tags \cap Byte
                                   /\ AsUint(t).val \in [1 .. 8 -> Byte]
<1>1. CASE t.reader.ok
  <2>1. 0 \in Byte
    BY DEF Byte
  <2>2. Widened(Bytes(t), 0) \in [1 .. 8 -> Byte]
    BY <1>1, <2>1, BytesType, WidenedType
  <2>3. AsUint(t) = [t EXCEPT !.val = Widened(Bytes(t), 0)]
    BY <1>1 DEF AsUint
  <2> QED
    BY <2>2, <2>3 DEF IsTag, IsRead
<1>2. CASE ~t.reader.ok
  BY <1>2 DEF AsUint, IsTag
<1> QED
  BY <1>1, <1>2

LEMMA ReadUintType ==
  ASSUME NEW bytes \in Seq(Byte), NEW r \in Readers(bytes)
  PROVE  IsValue(ReadUint(r), bytes)
<1> DEFINE t == ReadTag(r, TagsOf.uint)
<1>1. IsTag(t, bytes, TagsOf.uint)
  BY ReadTagType
<1> HIDE DEF t
<1>2. ReadUint(r) = AsUint(t)
  BY DEF ReadUint, t
<1>3. /\ IsRead(AsUint(t), bytes)
      /\ AsUint(t).reader.ok => AsUint(t).tag \in TagsOf.uint \cap Byte
  BY <1>1, AsUintType
<1> QED
  BY <1>2, <1>3, NotHeaders DEF IsValue

LEMMA ReadIntType ==
  ASSUME NEW bytes \in Seq(Byte), NEW r \in Readers(bytes)
  PROVE  /\ IsValue(ReadInt(r), bytes)
         /\ ReadInt(r).reader.ok => ReadInt(r).val \in [1 .. 8 -> Byte]
<1> DEFINE tags == TagsOf.uint \cup TagsOf.int
           t    == ReadTag(r, tags)
<1>1. IsTag(t, bytes, tags)
  BY ReadTagType
<1>2. tags \cap (TagsOf.array \cup TagsOf.map) = {}
  BY NotHeaders
<1> HIDE DEF tags, t
<1>3. ReadInt(r) = AsInt(t)
  BY DEF ReadInt, t, tags
<1>4. CASE ~t.reader.ok \/ (t.tag = 207 /\ t.val[1] >= 128)
  <2>1. AsInt(t) = Refused(t.reader)
    BY <1>4 DEF AsInt
  <2>2. t.reader \in Readers(bytes)
    BY <1>1 DEF IsTag, IsRead
  <2> QED
    BY <1>3, <2>1, <2>2, RefusedType DEF IsValue
<1>5. CASE ~(~t.reader.ok \/ (t.tag = 207 /\ t.val[1] >= 128))
  <2> DEFINE fill == IF Negative(t) THEN 255 ELSE 0
  <2>1. fill \in Byte
    BY DEF Byte
  <2> HIDE DEF fill
  <2>2. Widened(Bytes(t), fill) \in [1 .. 8 -> Byte]
    BY <1>1, <1>5, <2>1, BytesType, WidenedType
  <2>3. AsInt(t) = [t EXCEPT !.val = Widened(Bytes(t), fill)]
    BY <1>5 DEF AsInt, fill
  <2> QED
    BY <1>1, <1>2, <1>3, <2>2, <2>3 DEF IsTag, IsRead, IsValue
<1> QED
  BY <1>4, <1>5

LEMMA ReadFloat32Type ==
  ASSUME CastsToFloat32, NEW bytes \in Seq(Byte), NEW r \in Readers(bytes)
  PROVE  /\ IsValue(ReadFloat32(r), bytes)
         /\ ReadFloat32(r).reader.ok => ReadFloat32(r).val \in [1 .. 4 -> Byte]
<1> DEFINE t == ReadTag(r, TagsOf.float)
<1>1. IsTag(t, bytes, TagsOf.float)
  BY ReadTagType
<1> HIDE DEF t
<1>2. ReadFloat32(r) = IF t.tag = 203 THEN [t EXCEPT !.val = Narrowed(t.val)] ELSE t
  BY DEF ReadFloat32, AsFloat32, t
<1>3. IsValue(ReadFloat32(r), bytes)
  <2>1. /\ IsRead(ReadFloat32(r), bytes)
        /\ ReadFloat32(r).reader = t.reader /\ ReadFloat32(r).tag = t.tag
    BY <1>1, <1>2 DEF IsTag, IsRead
  <2>2. t.reader.ok => t.tag \in Byte /\ t.tag \notin TagsOf.array \cup TagsOf.map
    BY <1>1, NotHeaders DEF IsTag
  <2> QED
    BY <2>1, <2>2 DEF IsValue
<1>4. CASE t.reader.ok
  <2>1. t.tag \in {202, 203} /\ t.val \in Seq(Byte) /\ Len(t.val) = Width(t.tag)
    BY <1>1, <1>4 DEF IsTag, TagsOf
  <2>2. CASE t.tag = 202
    <3>1. Len(t.val) = 4
      BY <2>1, <2>2 DEF Width
    <3>2. t.val \in [1 .. 4 -> Byte]
      BY <2>1, <3>1, SeqAsFunction
    <3> QED
      BY <1>2, <1>3, <2>2, <3>2
  <2>3. CASE t.tag = 203
    <3>1. Len(t.val) = 8
      BY <2>1, <2>3 DEF Width
    <3>4. t.val \in [1 .. 8 -> Byte]
      BY <2>1, <3>1, SeqAsFunction
    <3>2. Narrowed(t.val) \in [1 .. 4 -> Byte]
      BY <3>4 DEF CastsToFloat32
    <3>3. ReadFloat32(r).val = Narrowed(t.val)
      BY <1>1, <1>2, <2>3 DEF IsTag, IsRead
    <3> QED
      BY <1>3, <3>2, <3>3
  <2> QED
    BY <2>1, <2>2, <2>3
<1>5. CASE ~t.reader.ok
  <2>1. ReadFloat32(r).reader = t.reader
    BY <1>1, <1>2 DEF IsTag, IsRead
  <2> QED
    BY <1>3, <1>5, <2>1
<1> QED
  BY <1>4, <1>5

\* A string or a blob.
LEMMA AsContentsType ==
  ASSUME NEW bytes \in Seq(Byte), NEW tags, NEW t, IsTag(t, bytes, tags),
         tags \cap (TagsOf.array \cup TagsOf.map) = {}
  PROVE  /\ IsValue(AsContents(t), bytes)
         /\ AsContents(t).reader.ok => AsContents(t).val \in Seq(Byte)
<1> DEFINE n == Count(t, 32)
           off == t.reader.off
<1>1. t.reader \in Readers(bytes)
  BY DEF IsTag, IsRead
<1>2. CASE t.reader.ok /\ Need(t.reader, n)
  <2>1. n \in Nat
    <3>1. t.tag \in Nat /\ t.val \in Seq(Byte)
      BY <1>2, ByteIsNat DEF IsTag
    <3> QED
      BY <3>1, CountType
  <2> HIDE DEF n
  <2>2. off \in Nat /\ off + n <= Len(bytes) /\ t.reader.buf = bytes /\ Len(bytes) \in Nat
    BY <1>1, <1>2, <2>1 DEF Need, Readers
  <2>3. SubSeq(bytes, off + 1, off + n) \in Seq(Byte)
    <3>1. off + 1 \in Nat \ {0} /\ (off + 1) + n <= Len(bytes) + 1
      BY <2>1, <2>2
    <3>2. (off + 1) + n - 1 = off + n
      BY <2>1, <2>2
    <3>3. SubSeq(bytes, off + 1, (off + 1) + n - 1) \in Seq(Byte)
      BY <2>1, <3>1, SubSeqType
    <3> QED
      BY <3>2, <3>3
  <2>4. AsContents(t) = [t EXCEPT !.reader.off = @ + n,
                                  !.val = SubSeq(t.reader.buf, off + 1, off + n)]
    BY <1>2 DEF AsContents, Contents, n
  <2>5. /\ AsContents(t).val = SubSeq(bytes, off + 1, off + n)
        /\ AsContents(t).tag = t.tag
        /\ AsContents(t).reader = [t.reader EXCEPT !.off = @ + n]
        /\ AsContents(t) = [reader |-> AsContents(t).reader, tag |-> AsContents(t).tag,
                            val |-> AsContents(t).val]
    BY <2>2, <2>4 DEF IsTag, IsRead
  <2>6. [t.reader EXCEPT !.off = @ + n] \in Readers(bytes)
    BY <1>1, <2>1, <2>2 DEF Readers
  <2>7. t.tag \in Byte /\ t.tag \notin TagsOf.array \cup TagsOf.map
    BY <1>2 DEF IsTag
  <2> QED
    BY <2>3, <2>5, <2>6, <2>7 DEF IsValue, IsRead
<1>3. CASE t.reader.ok /\ ~Need(t.reader, n)
  <2>1. AsContents(t) = Refused(t.reader)
    BY <1>3 DEF AsContents, Contents
  <2> QED
    BY <1>1, <2>1, RefusedType DEF IsValue
<1>4. CASE ~t.reader.ok
  BY <1>4 DEF AsContents, IsTag, IsValue
<1> QED
  BY <1>2, <1>3, <1>4

LEMMA ReadStrType ==
  ASSUME NEW bytes \in Seq(Byte), NEW r \in Readers(bytes)
  PROVE  /\ IsValue(ReadStr(r), bytes) /\ IsValue(ReadBin(r), bytes)
         /\ ReadStr(r).reader.ok => ReadStr(r).val \in Seq(Byte)
BY ReadTagType, AsContentsType, NotHeaders DEF ReadStr, ReadBin

LEMMA AsHeaderType ==
  ASSUME NEW bytes \in Seq(Byte), NEW tags, NEW t, IsTag(t, bytes, tags)
  PROVE  /\ IsValue(AsHeader(t), bytes)
         /\ AsHeader(t).reader.ok => AsHeader(t).val \in Nat
<1>1. CASE t.reader.ok
  <2>1. t.tag \in Nat /\ t.tag \in Byte /\ t.val \in Seq(Byte)
    BY <1>1, ByteIsNat DEF IsTag
  <2>2. Count(t, 16) \in Nat
    BY <2>1, CountType
  <2>3. AsHeader(t) = [t EXCEPT !.val = Count(t, 16)]
    BY <1>1 DEF AsHeader
  <2> QED
    BY <2>1, <2>2, <2>3 DEF IsTag, IsRead, IsValue
<1>2. CASE ~t.reader.ok
  BY <1>2 DEF AsHeader, IsTag, IsValue
<1> QED
  BY <1>1, <1>2

LEMMA ReadHeaderType ==
  ASSUME NEW bytes \in Seq(Byte), NEW r \in Readers(bytes)
  PROVE  /\ IsValue(ReadMapHeader(r), bytes) /\ IsValue(ReadArrayHeader(r), bytes)
         /\ ReadMapHeader(r).reader.ok => ReadMapHeader(r).val \in Nat
BY ReadTagType, AsHeaderType DEF ReadMapHeader, ReadArrayHeader

\* A value of any type; the readers of nothing refuse.
LEMMA ReadAnyType ==
  ASSUME CastsToFloat32, NEW bytes \in Seq(Byte), NEW r \in Readers(bytes)
  PROVE  IsValue(ReadAny(r, TypeOf(r)), bytes)
<1>1. TypeOf(r) \in {"nil", "bool", "uint", "int", "float", "str", "bin", "array", "map",
                     "invalid"}
  <2>1. CASE AtEnd(r) \/ r.buf[r.off + 1] \notin AllTags
    BY <2>1 DEF TypeOf
  <2>2. CASE ~(AtEnd(r) \/ r.buf[r.off + 1] \notin AllTags)
    <3> DEFINE tag == r.buf[r.off + 1]
    <3>1. \E type \in DOMAIN TagsOf : tag \in TagsOf[type]
      BY <2>2 DEF AllTags
    <3>2. TypeOf(r) = CHOOSE type \in DOMAIN TagsOf : tag \in TagsOf[type]
      BY <2>2 DEF TypeOf
    <3>3. TypeOf(r) \in DOMAIN TagsOf
      BY <3>1, <3>2
    <3> QED
      BY <3>3 DEF TagsOf
  <2> QED
    BY <2>1, <2>2
<1>2. IsValue(Refused(r), bytes)
  BY RefusedType DEF IsValue
<1> QED
  BY <1>1, <1>2, ReadNilType, ReadBoolType, ReadUintType, ReadIntType, ReadFloat32Type,
     ReadStrType, ReadHeaderType DEF ReadAny

-----------------------------------------------------------------------------
(* Skipping a value *)

Skips(bytes) == [reader : Readers(bytes), left : Nat]

SkipStep(s) ==
  IF s.left = 0 \/ ~s.reader.ok THEN s
  ELSE PassOne(s, ReadAny(s.reader, TypeOf(s.reader)))

\* The rounds of SkipValue.
SkipsFrom(after, r) ==
  /\ after[0] = [reader |-> r, left |-> 1]
  /\ \A k \in 1 .. Len(r.buf) + 1 : after[k] = SkipStep(after[k - 1])

LEMMA InsideType ==
  ASSUME NEW bytes, NEW t, IsValue(t, bytes)
  PROVE  Inside(t) \in Nat
<1>1. t.reader.ok /\ t.tag \in TagsOf.array \cup TagsOf.map => t.val \in Nat /\ 2 * t.val \in Nat
  BY DEF IsValue
<1> QED
  BY <1>1 DEF Inside

LEMMA SkipStepType ==
  ASSUME CastsToFloat32, NEW bytes \in Seq(Byte), NEW s \in Skips(bytes)
  PROVE  SkipStep(s) \in Skips(bytes)
<1> DEFINE t == ReadAny(s.reader, TypeOf(s.reader))
<1>1. s.reader \in Readers(bytes) /\ s.left \in Nat
  BY DEF Skips
<1>2. IsValue(t, bytes)
  BY <1>1, ReadAnyType
<1> HIDE DEF t
<1>3. t.reader \in Readers(bytes) /\ Inside(t) \in Nat
  BY <1>2, InsideType DEF IsValue, IsRead
<1>4. CASE s.left = 0 \/ ~s.reader.ok
  BY <1>4 DEF SkipStep
<1>5. CASE ~(s.left = 0 \/ ~s.reader.ok)
  <2>1. SkipStep(s) = [reader |-> t.reader, left |-> s.left - 1 + Inside(t)]
    BY <1>5 DEF SkipStep, PassOne, t
  <2>2. s.left - 1 + Inside(t) \in Nat
    BY <1>1, <1>3, <1>5
  <2> QED
    BY <1>3, <2>1, <2>2 DEF Skips
<1> QED
  BY <1>4, <1>5

LEMMA SkipRuns ==
  ASSUME CastsToFloat32, NEW bytes \in Seq(Byte), NEW r \in Readers(bytes)
  PROVE  \E after : /\ SkipsFrom(after, r)
                    /\ SkipValue(r) = after[Len(bytes) + 1].reader
<1> DEFINE n == Len(bytes) + 1
           a == [reader |-> r, left |-> 1]
           F == [k \in 1 .. n |-> [s \in Skips(bytes) |-> SkipStep(s)]]
           Is(after) == after = [k \in 0 .. n |-> IF k = 0 THEN a ELSE SkipStep(after[k - 1])]
<1>1. n \in Nat /\ r.buf = bytes
  BY DEF Readers
<1>2. a \in Skips(bytes)
  BY DEF Skips
<1>3. F \in [1 .. n -> [Skips(bytes) -> Skips(bytes)]]
  BY SkipStepType
<1>4. \A k \in 1 .. n, s \in Skips(bytes) : F[k][s] = SkipStep(s)
  OBVIOUS
<1> HIDE DEF n, F, a
<1>5. PICK f : IsRun(f, Skips(bytes), n, a, F)
  BY <1>1, <1>2, <1>3, RunExists
<1>6. Is(f)
  <2>1. f = [k \in 0 .. n |-> f[k]] /\ \A k \in 0 .. n : f[k] \in Skips(bytes)
    BY <1>5 DEF IsRun
  <2>2. ASSUME NEW k \in 1 .. n
        PROVE  f[k] = SkipStep(f[k - 1])
    <3>1. f[k] = F[k][f[k - 1]] /\ k - 1 \in 0 .. n
      BY <1>1, <1>5 DEF IsRun
    <3> QED
      BY <1>4, <2>1, <3>1
  <2>3. \A k \in 0 .. n : k = 0 \/ k \in 1 .. n
    BY <1>1
  <2>4. \A k \in 0 .. n : f[k] = IF k = 0 THEN a ELSE SkipStep(f[k - 1])
    BY <1>5, <2>2, <2>3 DEF IsRun
  <2> QED
    BY <2>1, <2>4
<1> DEFINE after == CHOOSE g : Is(g)
<1>7. Is(after)
  BY <1>6
<1>8. SkipValue(r) = after[n].reader
  BY <1>1 DEF SkipValue, SkipStep, n, a
<1> HIDE DEF after
<1>9. after[0] = a /\ \A k \in 1 .. n : after[k] = SkipStep(after[k - 1])
  <2>1. \A k \in 0 .. n : after[k] = IF k = 0 THEN a ELSE SkipStep(after[k - 1])
    BY <1>7
  <2>2. 0 \in 0 .. n /\ \A k \in 1 .. n : k \in 0 .. n /\ k # 0
    BY <1>1
  <2> QED
    BY <2>1, <2>2
<1> QED
  BY <1>1, <1>8, <1>9 DEF SkipsFrom, n, a

LEMMA SkipValueType ==
  ASSUME CastsToFloat32, NEW bytes \in Seq(Byte), NEW r \in Readers(bytes)
  PROVE  SkipValue(r) \in Readers(bytes)
<1>1. PICK after : SkipsFrom(after, r) /\ SkipValue(r) = after[Len(bytes) + 1].reader
  BY SkipRuns
<1> DEFINE n == Len(bytes) + 1
           G == {k \in 0 .. n : after[k] \in Skips(bytes)}
<1>2. n \in Nat /\ r.buf = bytes
  BY DEF Readers
<1> HIDE DEF n
<1>3. 0 \in G
  BY <1>1, <1>2 DEF SkipsFrom, Skips
<1>4. ASSUME NEW k \in 1 .. n, k - 1 \in G
      PROVE  k \in G
  BY <1>1, <1>2, <1>4, SkipStepType DEF SkipsFrom, n
<1> HIDE DEF G
<1>5. \A k \in 0 .. n : k \in G
  BY <1>2, <1>3, <1>4, UpTo
<1>6. after[n] \in Skips(bytes)
  BY <1>2, <1>5 DEF G
<1> QED
  BY <1>1, <1>6 DEF Skips, n

-----------------------------------------------------------------------------
(* Configurations *)

Configs == {c \in [Fields -> Seq(Byte)] : IsConfig(c)}

\* What applying the fields of a request has reached.
Settings(bytes) == [reader : Readers(bytes), cfg : Configs, applied : Nat]

LEMMA IntFieldsAre ==
  /\ DOMAIN IntWidth \subseteq Fields
  /\ \A f \in DOMAIN IntWidth : IntWidth[f] \in {1, 4}
  /\ "batt_mult" \in Fields /\ "batt_mult" \notin DOMAIN IntWidth
  /\ "display_name" \in Fields /\ "display_name" \notin DOMAIN IntWidth
  /\ Fields = DOMAIN IntWidth \cup {"batt_mult", "display_name"}
BY DEF IntWidth, Fields

LEMMA BytesAreSeq ==
  ASSUME NEW n \in Nat, NEW v \in [1 .. n -> Byte]
  PROVE  v \in Seq(Byte) /\ Len(v) = n
OBVIOUS

LEMMA ConfigIsSet ==
  ASSUME NEW c
  PROVE  IsConfig(c) <=> c \in Configs
<1> SUFFICES ASSUME IsConfig(c)
             PROVE  c \in [Fields -> Seq(Byte)]
  BY DEF Configs
<1>1. \A f \in DOMAIN IntWidth : c[f] \in Seq(Byte)
  <2> SUFFICES ASSUME NEW f \in DOMAIN IntWidth
               PROVE  c[f] \in Seq(Byte)
    OBVIOUS
  <2>1. PICK n \in Nat : n = IntWidth[f]
    BY IntFieldsAre
  <2>2. c[f] \in [1 .. n -> Byte]
    BY <2>1 DEF IsConfig
  <2> QED
    BY <2>2, BytesAreSeq
<1>2. c["batt_mult"] \in Seq(Byte) /\ c["display_name"] \in Seq(Byte)
  BY BytesAreSeq DEF IsConfig
<1>3. \A f \in Fields : c[f] \in Seq(Byte)
  BY <1>1, <1>2, IntFieldsAre
<1> QED
  BY <1>3 DEF IsConfig

LEMMA CastType ==
  ASSUME NEW v \in [1 .. 8 -> Byte], NEW w \in {1, 4}
  PROVE  Cast(v, w) \in [1 .. w -> Byte]
<1>1. v \in Seq(Byte) /\ Len(v) = 8
  BY BytesAreSeq
<1>2. CASE w = 1
  <2>1. SubSeq(v, 8, 8 + 1 - 1) \in Seq(Byte) /\ Len(SubSeq(v, 8, 8 + 1 - 1)) = 1
    BY <1>1, SubSeqType
  <2>2. Cast(v, w) = SubSeq(v, 8, 8 + 1 - 1)
    BY <1>2 DEF Cast
  <2> QED
    BY <1>2, <2>1, <2>2, SeqAsFunction
<1>3. CASE w = 4
  <2>1. SubSeq(v, 5, 5 + 4 - 1) \in Seq(Byte) /\ Len(SubSeq(v, 5, 5 + 4 - 1)) = 4
    BY <1>1, SubSeqType
  <2>2. Cast(v, w) = SubSeq(v, 5, 5 + 4 - 1)
    BY <1>3 DEF Cast
  <2> QED
    BY <1>3, <2>1, <2>2, SeqAsFunction
<1> QED
  BY <1>2, <1>3

LEMMA NameMaxType == NameMax \in Nat /\ NameMax <= 255
BY SerialConsoleAssumption

LEMMA ShortenedType ==
  ASSUME NEW s \in Seq(Byte)
  PROVE  Shortened(s) \in Seq(Byte) /\ Len(Shortened(s)) <= NameMax
<1> DEFINE k == IF Len(s) < NameMax THEN Len(s) ELSE NameMax
<1>1. k \in Nat /\ k <= NameMax /\ 1 + k <= Len(s) + 1 /\ 1 + k - 1 = k
  BY NameMaxType
<1>2. Shortened(s) = SubSeq(s, 1, 1 + k - 1)
  BY <1>1 DEF Shortened
<1> HIDE DEF k
<1>3. SubSeq(s, 1, 1 + k - 1) \in Seq(Byte) /\ Len(SubSeq(s, 1, 1 + k - 1)) = k
  BY <1>1, SubSeqType
<1> QED
  BY <1>1, <1>2, <1>3

\* The value of a field, as read.
IsFieldValue(f, v) ==
  /\ f \in DOMAIN IntWidth => v \in [1 .. 8 -> Byte]
  /\ f = "batt_mult" => v \in [1 .. 4 -> Byte]
  /\ f = "display_name" => v \in Seq(Byte)

LEMMA AssignedType ==
  ASSUME NEW c \in Configs, NEW f \in Fields, NEW v, IsFieldValue(f, v)
  PROVE  Assigned(c, f, v) \in Configs
<1>1. IsConfig(c) /\ c \in [Fields -> Seq(Byte)]
  BY DEF Configs
<1> DEFINE d == Assigned(c, f, v)
<1>2. CASE f \in DOMAIN IntWidth
  <2>1. d = [c EXCEPT ![f] = Cast(v, IntWidth[f])]
    BY <1>2 DEF Assigned
  <2>2. Cast(v, IntWidth[f]) \in [1 .. IntWidth[f] -> Byte]
    BY <1>2, IntFieldsAre, CastType DEF IsFieldValue
  <2> HIDE DEF d
  <2>3. DOMAIN d = Fields /\ d = [g \in Fields |-> d[g]]
    BY <1>1, <2>1
  <2>4. d[f] = Cast(v, IntWidth[f]) /\ \A g \in Fields \ {f} : d[g] = c[g]
    BY <1>1, <2>1
  <2>5. \A g \in DOMAIN IntWidth : d[g] \in [1 .. IntWidth[g] -> Byte]
    BY <1>1, <2>2, <2>4, IntFieldsAre DEF IsConfig
  <2>6. d.batt_mult = c.batt_mult /\ d.display_name = c.display_name
    BY <1>2, <2>4, IntFieldsAre
  <2>7. IsConfig(d)
    BY <1>1, <2>3, <2>5, <2>6 DEF IsConfig
  <2> QED
    BY <2>7, ConfigIsSet DEF d
<1>3. CASE f \in {"batt_mult", "display_name"}
  <2> DEFINE x == IF f = "batt_mult" THEN v ELSE Shortened(v)
  <2>1. d = [c EXCEPT ![f] = x]
    BY <1>3, IntFieldsAre DEF Assigned
  <2>2. /\ f = "batt_mult" => x \in [1 .. 4 -> Byte]
        /\ f = "display_name" => x \in Seq(Byte) /\ Len(x) <= NameMax
    BY <1>3, ShortenedType DEF IsFieldValue
  <2> HIDE DEF d, x
  <2>3. DOMAIN d = Fields /\ d = [g \in Fields |-> d[g]]
    BY <1>1, <2>1
  <2>4. d[f] = x /\ \A g \in Fields \ {f} : d[g] = c[g]
    BY <1>1, <2>1
  <2>5. \A g \in DOMAIN IntWidth : d[g] \in [1 .. IntWidth[g] -> Byte]
    BY <1>1, <1>3, <2>4, IntFieldsAre DEF IsConfig
  <2>6. /\ d.batt_mult \in [1 .. 4 -> Byte]
        /\ d.display_name \in Seq(Byte) /\ Len(d.display_name) <= NameMax
    BY <1>1, <1>3, <2>2, <2>4, IntFieldsAre DEF IsConfig
  <2>7. IsConfig(d)
    BY <2>3, <2>5, <2>6 DEF IsConfig
  <2> QED
    BY <2>7, ConfigIsSet DEF d
<1> QED
  BY <1>2, <1>3, IntFieldsAre

LEMMA ReadFieldType ==
  ASSUME CastsToFloat32, NEW bytes \in Seq(Byte), NEW r \in Readers(bytes), NEW f \in Fields
  PROVE  /\ ReadField(r, f).reader \in Readers(bytes)
         /\ ReadField(r, f).reader.ok => IsFieldValue(f, ReadField(r, f).val)
<1>1. CASE f \in DOMAIN IntWidth
  <2>1. ReadField(r, f) = ReadInt(r)
    BY <1>1 DEF ReadField
  <2> QED
    BY <1>1, <2>1, ReadIntType, IntFieldsAre DEF IsValue, IsRead, IsFieldValue
<1>2. CASE f = "batt_mult"
  <2>1. ReadField(r, f) = ReadFloat32(r)
    BY <1>2, IntFieldsAre DEF ReadField
  <2> QED
    BY <1>2, <2>1, ReadFloat32Type, IntFieldsAre DEF IsValue, IsRead, IsFieldValue
<1>3. CASE f = "display_name"
  <2>1. ReadField(r, f) = ReadStr(r)
    BY <1>3, IntFieldsAre DEF ReadField
  <2> QED
    BY <1>3, <2>1, ReadStrType, IntFieldsAre DEF IsValue, IsRead, IsFieldValue
<1> QED
  BY <1>1, <1>2, <1>3, IntFieldsAre

LEMMA ApplyPairType ==
  ASSUME CastsToFloat32, NEW bytes \in Seq(Byte), NEW s \in Settings(bytes)
  PROVE  ApplyPair(s) \in Settings(bytes)
<1> DEFINE key == ReadStr(s.reader)
<1>1. s.reader \in Readers(bytes) /\ s.cfg \in Configs /\ s.applied \in Nat
  BY DEF Settings
<1>2. key.reader \in Readers(bytes)
  BY <1>1, ReadStrType DEF IsValue, IsRead
<1>3. ApplyPair(s) = ApplyKey(s, key)
  BY DEF ApplyPair
<1> HIDE DEF key
<1>4. CASE ~key.reader.ok
  BY <1>1, <1>2, <1>3, <1>4 DEF ApplyKey, Settings
<1>5. CASE key.reader.ok /\ FieldNamed(key.val) = {}
  <2>1. SkipValue(key.reader) \in Readers(bytes)
    BY <1>2, SkipValueType
  <2> QED
    BY <1>1, <1>3, <1>5, <2>1 DEF ApplyKey, Settings
<1>6. CASE key.reader.ok /\ FieldNamed(key.val) # {}
  <2> DEFINE f == CHOOSE g \in FieldNamed(key.val) : TRUE
             v == ReadField(key.reader, f)
  <2>1. f \in Fields
    BY <1>6 DEF FieldNamed
  <2>2. ApplyPair(s) = ApplyField(s, f, v)
    BY <1>3, <1>6 DEF ApplyKey
  <2> HIDE DEF f
  <2>3. v.reader \in Readers(bytes) /\ (v.reader.ok => IsFieldValue(f, v.val))
    BY <1>2, <2>1, ReadFieldType
  <2> HIDE DEF v
  <2>4. v.reader.ok => Assigned(s.cfg, f, v.val) \in Configs
    BY <1>1, <2>1, <2>3, AssignedType
  <2> QED
    BY <1>1, <2>2, <2>3, <2>4 DEF ApplyField, Settings
<1> QED
  BY <1>4, <1>5, <1>6

LEMMA ApplySetFieldsType ==
  ASSUME CastsToFloat32, NEW bytes \in Seq(Byte), NEW r \in Readers(bytes),
         NEW c \in Configs, NEW pairs \in Nat
  PROVE  ApplySetFields(r, c, pairs) \in Settings(bytes)
<1> DEFINE n == IF pairs <= Len(r.buf) THEN pairs ELSE Len(r.buf) + 1
           a == [reader |-> r, cfg |-> c, applied |-> 0]
           Step(s) == IF s.reader.ok THEN ApplyPair(s) ELSE s
           F == [k \in 1 .. n |-> [s \in Settings(bytes) |-> Step(s)]]
           Is(after) == after = [k \in 0 .. n |-> IF k = 0 THEN a ELSE Step(after[k - 1])]
<1>1. n \in Nat
  BY DEF Readers
<1>2. a \in Settings(bytes)
  BY DEF Settings
<1>3. \A s \in Settings(bytes) : Step(s) \in Settings(bytes)
  BY ApplyPairType
<1> DEFINE after == CHOOSE g : Is(g)
<1>4. ApplySetFields(r, c, pairs) = after[n]
  BY DEF ApplySetFields
<1> HIDE DEF n, a, Step
<1>5. F \in [1 .. n -> [Settings(bytes) -> Settings(bytes)]]
  BY <1>3
<1>6. \A k \in 1 .. n, s \in Settings(bytes) : F[k][s] = Step(s)
  OBVIOUS
<1> HIDE DEF F
<1>7. PICK f : IsRun(f, Settings(bytes), n, a, F)
  BY <1>1, <1>2, <1>5, RunExists
<1>8. Is(f)
  <2>1. f = [k \in 0 .. n |-> f[k]] /\ \A k \in 0 .. n : f[k] \in Settings(bytes)
    BY <1>7 DEF IsRun
  <2>2. ASSUME NEW k \in 1 .. n
        PROVE  f[k] = Step(f[k - 1])
    <3>1. f[k] = F[k][f[k - 1]] /\ k - 1 \in 0 .. n
      BY <1>1, <1>7 DEF IsRun
    <3> QED
      BY <1>6, <2>1, <3>1
  <2>3. \A k \in 0 .. n : k = 0 \/ k \in 1 .. n
    BY <1>1
  <2>4. \A k \in 0 .. n : f[k] = IF k = 0 THEN a ELSE Step(f[k - 1])
    BY <1>7, <2>2, <2>3 DEF IsRun
  <2> QED
    BY <2>1, <2>4
<1>9. Is(after)
  BY <1>8
<1> HIDE DEF after
<1> DEFINE G == {k \in 0 .. n : after[k] \in Settings(bytes)}
<1>10. \A k \in 0 .. n : after[k] = IF k = 0 THEN a ELSE Step(after[k - 1])
  BY <1>9
<1>11. 0 \in G
  BY <1>1, <1>2, <1>10
<1>12. ASSUME NEW k \in 1 .. n, k - 1 \in G
       PROVE  k \in G
  <2>1. k \in 0 .. n /\ k # 0 /\ after[k - 1] \in Settings(bytes)
    BY <1>1, <1>12
  <2>2. after[k] = Step(after[k - 1])
    BY <1>10, <2>1
  <2> QED
    BY <1>3, <2>1, <2>2
<1> HIDE DEF G
<1>13. \A k \in 0 .. n : k \in G
  BY <1>1, <1>11, <1>12, UpTo
<1>14. after[n] \in Settings(bytes)
  BY <1>1, <1>13 DEF G
<1> QED
  BY <1>4, <1>14

-----------------------------------------------------------------------------
(* One request *)

\* The answers of the dispatcher, where c is the configuration it had.
IsReply(resp, c) ==
  \/ \E w \in Words : resp = ErrorResponse(w)
  \/ resp = HandlePing
  \/ resp = HandleGetConfig(c)
  \/ resp = MapHeader(1) \o OkTrue
  \/ \E n \in Nat : resp = MapHeader(2) \o OkTrue \o Word("set") \o Uint(Be16(n))

LEMMA WordsAre ==
  /\ {"ok", "err", "set", "identity_hash", "version", Version} \subseteq Words
  /\ {"expected_map", "empty_map", "expected_key", "cmd_first", "cmd_string",
      "unknown_command", "malformed", "commit_failed"} \subseteq Words
  /\ Fields \subseteq Words
BY DEF Words

LEMMA SetConfigType ==
  ASSUME NEW bytes, NEW c, NEW s \in Settings(bytes)
  PROVE  SetConfig(s).cfg \in Configs /\ IsReply(SetConfig(s).resp, c)
<1>1. s.cfg \in Configs /\ s.applied \in Nat
  BY DEF Settings
<1>2. SetConfig(s).cfg = s.cfg /\ SetConfig(s).resp = HandleSetConfig(s)
  BY DEF SetConfig, Reply
<1>3. CASE s.reader.ok
  <2>1. HandleSetConfig(s) = MapHeader(2) \o OkTrue \o Word("set") \o Uint(Be16(s.applied))
    BY <1>3 DEF HandleSetConfig
  <2> QED
    BY <1>1, <1>2, <2>1 DEF IsReply
<1>4. CASE ~s.reader.ok
  <2>1. HandleSetConfig(s) = ErrorResponse("malformed")
    BY <1>4 DEF HandleSetConfig
  <2> QED
    BY <1>1, <1>2, <2>1, WordsAre DEF IsReply
<1> QED
  BY <1>3, <1>4

LEMMA CommitType ==
  ASSUME NEW c, NEW saves
  PROVE  IsReply(HandleCommit(saves), c)
BY WordsAre DEF HandleCommit, IsReply

LEMMA PerformType ==
  ASSUME CastsToFloat32, NEW bytes \in Seq(Byte), NEW cmd, cmd.reader \in Readers(bytes),
         NEW pairs \in Nat \ {0}, NEW c \in Configs, NEW saves
  PROVE  /\ Perform(cmd, pairs, c, saves).cfg \in Configs
         /\ IsReply(Perform(cmd, pairs, c, saves).resp, c)
<1> DEFINE done == Perform(cmd, pairs, c, saves)
           set  == ApplySetFields(cmd.reader, c, pairs - 1)
<1>1. set \in Settings(bytes)
  BY ApplySetFieldsType
<1> HIDE DEF set
<1>2. SetConfig(set).cfg \in Configs /\ IsReply(SetConfig(set).resp, c)
  BY <1>1, SetConfigType
<1>3. /\ IsReply(ErrorResponse("cmd_string"), c) /\ IsReply(ErrorResponse("unknown_command"), c)
      /\ IsReply(HandlePing, c) /\ IsReply(HandleGetConfig(c), c)
      /\ IsReply(HandleCommit(saves), c)
  BY WordsAre, CommitType DEF IsReply
<1>4. \/ \E resp \in {ErrorResponse("cmd_string"), ErrorResponse("unknown_command"), HandlePing,
                      HandleGetConfig(c)} : done = Reply(resp, c)
      \/ done = [Reply(HandleCommit(saves), c) EXCEPT !.commits = TRUE]
      \/ done = SetConfig(set)
  BY Zenon DEF Perform, set
<1> QED
  BY <1>2, <1>3, <1>4 DEF Reply

\* Whatever the bytes of a request, the configuration stays one, and the
\* answer is one of the dispatcher's.
LEMMA HandleRequestType ==
  ASSUME CastsToFloat32, NEW request \in Seq(Byte), NEW c \in Configs, NEW saves
  PROVE  /\ HandleRequest(request, c, saves).cfg \in Configs
         /\ IsReply(HandleRequest(request, c, saves).resp, c)
<1> DEFINE map  == ReadMapHeader(Reader(request))
           key  == ReadStr(map.reader)
           cmd  == ReadStr(key.reader)
           done == HandleRequest(request, c, saves)
<1>1. Reader(request) \in Readers(request)
  BY DEF Reader, Readers
<1>2. map.reader \in Readers(request) /\ (map.reader.ok => map.val \in Nat)
  BY <1>1, ReadHeaderType DEF IsValue, IsRead
<1> HIDE DEF map
<1>3. key.reader \in Readers(request)
  BY <1>2, ReadStrType DEF IsValue, IsRead
<1> HIDE DEF key
<1>4. cmd.reader \in Readers(request)
  BY <1>3, ReadStrType DEF IsValue, IsRead
<1> HIDE DEF cmd
<1>5. CASE \E w \in {"expected_map", "empty_map", "expected_key", "cmd_first"} :
             done = Reply(ErrorResponse(w), c)
  BY <1>5, WordsAre DEF IsReply, Reply
<1>6. CASE /\ map.reader.ok /\ map.val # 0
           /\ done = Perform(cmd, map.val, c, saves)
  <2>1. map.val \in Nat \ {0}
    BY <1>2, <1>6
  <2> QED
    BY <1>4, <1>6, <2>1, PerformType
<1>7. \/ \E w \in {"expected_map", "empty_map", "expected_key", "cmd_first"} :
           done = Reply(ErrorResponse(w), c)
      \/ /\ map.reader.ok /\ map.val # 0
         /\ done = Perform(cmd, map.val, c, saves)
  BY Zenon DEF HandleRequest, TopLevel, FirstKey, map, key, cmd
<1> QED
  BY <1>5, <1>6, <1>7

-----------------------------------------------------------------------------
(* Types *)

\* What the host was sent last: an answer of the dispatcher, framed on the line.
AnswerInv ==
  \/ output.by = "none"
  \/ \E c \in Configs : \E resp :
       /\ IsReply(resp, c)
       /\ \/ output = [by |-> "serial", bytes |-> Framed(resp)]
          \/ output = [by |-> "ble", bytes |-> resp]

TypeInv ==
  /\ TypeOK
  /\ line \in Seq(Byte) /\ buf \in Seq(Byte)
  /\ state = "len_lo" => expected <= 65280
  /\ AnswerInv

LEMMA LengthsAre ==
  MaxFrameLen \in Nat /\ MaxFrameLen <= 65535 /\ Noise \subseteq Byte /\ Cut \subseteq Nat
BY SerialConsoleAssumption

LEMMA RequestsAre ==
  \A r \in Request : Encoded(r) \in Seq(Byte) /\ Len(Encoded(r)) <= 65535
BY SerialConsoleAssumption

LEMMA Be16Type ==
  ASSUME NEW n \in Nat, n <= 65535
  PROVE  Be16(n) \in Seq(Byte)
<1>1. n \div 256 \in Byte /\ n % 256 \in Byte
  BY DEF Byte
<1> QED
  BY <1>1 DEF Be16

LEMMA DispatchType ==
  ASSUME CastsToFloat32, NEW request \in Seq(Byte), NEW by \in {"serial", "ble"},
         IsConfig(cfg), Dispatch(request, by)
  PROVE  IsConfig(cfg)' /\ AnswerInv'
<1>1. PICK saves \in BOOLEAN : \E done \in {HandleRequest(request, cfg, saves)} :
        /\ cfg' = done.cfg
        /\ output' = [by |-> by, bytes |-> IF by = "serial" THEN Framed(done.resp) ELSE done.resp]
  BY Zenon DEF Dispatch
<1> DEFINE done == HandleRequest(request, cfg, saves)
<1>2. /\ cfg' = done.cfg
      /\ output' = [by |-> by, bytes |-> IF by = "serial" THEN Framed(done.resp) ELSE done.resp]
  BY <1>1
<1>3. cfg \in Configs
  BY ConfigIsSet
<1>4. done.cfg \in Configs /\ IsReply(done.resp, cfg)
  BY <1>3, HandleRequestType
<1> HIDE DEF done
<1>5. IsConfig(cfg')
  BY <1>2, <1>4, ConfigIsSet
<1>6. AnswerInv'
  <2>1. \/ output' = [by |-> "serial", bytes |-> Framed(done.resp)]
        \/ output' = [by |-> "ble", bytes |-> done.resp]
    BY <1>2
  <2> QED
    BY <1>3, <1>4, <2>1 DEF AnswerInv
<1> QED
  BY <1>5, <1>6

LEMMA TypeInit == Init => TypeInv
BY SerialConsoleAssumption, EmptySeq DEF Init, TypeInv, TypeOK, AnswerInv

\* The byte that is taken of the line.
LEMMA Taken ==
  ASSUME line \in Seq(Byte), NEW s, Next1(s)
  PROVE  Head(line) \in Byte /\ Head(line) \in Nat /\ Head(line) <= 255 /\ line' \in Seq(Byte)
<1>1. line # << >> /\ line' = Tail(line)
  BY DEF Next1
<1>2. Head(line) \in Byte /\ Tail(line) \in Seq(Byte)
  BY <1>1, HeadTailProperties
<1> QED
  BY <1>1, <1>2, ByteIsNat

LEMMA ResetType ==
  ASSUME Reset, line' \in Seq(Byte), IsConfig(cfg)', AnswerInv'
  PROVE  TypeInv'
BY EmptySeq DEF Reset, TypeInv, TypeOK

LEMMA TypeStep ==
  ASSUME CastsToFloat32, TypeInv, [Next]_vars
  PROVE  TypeInv'
<1>1. /\ state \in {"len_hi", "len_lo", "payload"}
      /\ expected \in Nat /\ expected <= 65535
      /\ state = "payload" => Len(buf) < expected /\ expected <= MaxFrameLen
      /\ IsConfig(cfg) /\ line \in Seq(Byte) /\ buf \in Seq(Byte)
      /\ state = "len_lo" => expected <= 65280
      /\ AnswerInv
  BY DEF TypeInv, TypeOK
<1>a. IsConfig(cfg)
  BY <1>1
<1>2. ASSUME NEW r \in Request, Ask(r)
      PROVE  TypeInv'
  <2>1. Be16(Len(Encoded(r))) \in Seq(Byte) /\ Encoded(r) \in Seq(Byte)
    BY RequestsAre, Be16Type
  <2>2. line' = line \o Be16(Len(Encoded(r))) \o Encoded(r)
    BY <1>2 DEF Ask
  <2>3. line' \in Seq(Byte)
    BY <1>1, <2>1, <2>2
  <2> QED
    BY <1>1, <1>2, <2>3 DEF Ask, console, TypeInv, TypeOK, AnswerInv
<1>3. CASE Disturb
  <2>1. line' \in Seq(Byte)
    <3>1. CASE line # << >> /\ line' = Tail(line)
      BY <1>1, <3>1, HeadTailProperties
    <3>2. CASE \E b \in Noise : line' = <<b>> \o line
      <4>1. PICK b \in Byte : line' = <<b>> \o line
        BY <3>2, LengthsAre
      <4> QED
        BY <1>1, <4>1
    <3> QED
      BY <1>3, <3>1, <3>2 DEF Disturb
  <2> QED
    BY <1>1, <1>3, <2>1 DEF Disturb, console, TypeInv, TypeOK, AnswerInv
<1>4. CASE LenHi
  <2>1. Head(line) \in Nat /\ Head(line) <= 255 /\ line' \in Seq(Byte)
    BY <1>1, <1>4, Taken DEF LenHi
  <2>2. expected' = 256 * Head(line) /\ state' = "len_lo"
    BY <1>4 DEF LenHi
  <2>3. expected' \in Nat /\ expected' <= 65280
    BY <2>1, <2>2
  <2> QED
    BY <1>1, <1>4, <2>1, <2>2, <2>3 DEF LenHi, TypeInv, TypeOK, AnswerInv
<1>5. CASE LenLo
  <2>1. Head(line) \in Nat /\ Head(line) <= 255 /\ line' \in Seq(Byte)
    BY <1>1, <1>5, Taken DEF LenLo
  <2>2. UNCHANGED <<cfg, output>>
    BY <1>5 DEF LenLo
  <2>3. CASE Reset
    BY <1>1, <2>1, <2>2, <2>3, ResetType DEF AnswerInv
  <2>4. CASE ~Reset
    <3>1. /\ ~(expected + Head(line) = 0 \/ expected + Head(line) > MaxFrameLen)
          /\ expected' = expected + Head(line) /\ state' = "payload" /\ buf' = << >>
      BY <1>5, <2>4 DEF LenLo
    <3>2. Len(buf') < expected' /\ expected' <= MaxFrameLen /\ expected' \in Nat /\ expected' <= 65535
      BY <1>1, <2>1, <3>1, LengthsAre
    <3> QED
      BY <1>1, <2>1, <2>2, <3>1, <3>2, EmptySeq DEF TypeInv, TypeOK, AnswerInv
  <2> QED
    BY <2>3, <2>4
<1>6. CASE Payload
  <2>1. Head(line) \in Byte /\ line' \in Seq(Byte) /\ state = "payload"
    BY <1>1, <1>6, Taken DEF Payload, Next1
  <2>2. Append(buf, Head(line)) \in Seq(Byte) /\ Len(Append(buf, Head(line))) = Len(buf) + 1
    BY <1>1, <2>1, AppendProperties
  <2>3. CASE Len(buf) + 1 < expected
    <3>1. buf' = Append(buf, Head(line)) /\ UNCHANGED <<state, expected, cfg, output>>
      BY <1>6, <2>3 DEF Payload
    <3> QED
      BY <1>1, <2>1, <2>2, <2>3, <3>1 DEF TypeInv, TypeOK, AnswerInv
  <2>4. CASE ~(Len(buf) + 1 < expected)
    <3>1. Dispatch(Append(buf, Head(line)), "serial") /\ Reset
      BY <1>6, <2>4 DEF Payload
    <3>2. IsConfig(cfg)' /\ AnswerInv'
      BY Zenon, <1>a, <2>2, <3>1, DispatchType
    <3> QED
      BY <2>1, <3>1, <3>2, ResetType
  <2> QED
    BY <2>3, <2>4
<1>7. CASE OnRequestWrite
  <2>1. PICK r \in Request : \E n \in Cut \cup {Len(Encoded(r))} :
          n <= Len(Encoded(r)) /\ Dispatch(SubSeq(Encoded(r), 1, n), "ble")
    BY <1>7 DEF OnRequestWrite
  <2>2. PICK n \in Cut \cup {Len(Encoded(r))} :
          n <= Len(Encoded(r)) /\ Dispatch(SubSeq(Encoded(r), 1, n), "ble")
    BY <2>1
  <2>3. Encoded(r) \in Seq(Byte) /\ n \in Nat /\ n <= Len(Encoded(r))
    BY <2>2, RequestsAre, LengthsAre
  <2>4. SubSeq(Encoded(r), 1, n) \in Seq(Byte)
    <3>1. 1 + n <= Len(Encoded(r)) + 1 /\ 1 + n - 1 = n
      BY <2>3
    <3>2. SubSeq(Encoded(r), 1, 1 + n - 1) \in Seq(Byte)
      BY <2>3, <3>1, SubSeqType
    <3> QED
      BY <3>1, <3>2
  <2>5. IsConfig(cfg)' /\ AnswerInv'
    BY Zenon, <1>a, <2>2, <2>4, DispatchType
  <2> QED
    BY <1>1, <1>7, <2>5 DEF OnRequestWrite, console, TypeInv, TypeOK
<1>8. CASE UNCHANGED vars
  BY <1>1, <1>8 DEF vars, console, TypeInv, TypeOK, AnswerInv
<1> QED
  BY <1>2, <1>3, <1>4, <1>5, <1>6, <1>7, <1>8 DEF Next, Tick

LEMMA TypeHolds ==
  ASSUME CastsToFloat32
  PROVE  Spec => []TypeInv
BY TypeInit, TypeStep, PTL DEF Spec

\* Whatever is said to it, over either way, the console never takes more of a
\* frame than it has room for, and every field of the configuration keeps its
\* width (SerialConsole.cpp:45-83, ConfigProtocol.cpp:65-117).
THEOREM TypeCorrect ==
  ASSUME CastsToFloat32
  PROVE  Spec => []TypeOK
<1>1. TypeInv => TypeOK
  BY DEF TypeInv
<1> QED
  BY <1>1, TypeHolds, PTL


-----------------------------------------------------------------------------
(* What the writer makes, the reader reads *)

\* A reader in the midst of some bytes, and the bytes that stand there.
Place(bytes, off) == [buf |-> bytes, off |-> off, ok |-> TRUE]

IsAt(bytes, off, s) ==
  /\ off + Len(s) <= Len(bytes)
  /\ \A j \in 1 .. Len(s) : bytes[off + j] = s[j]

\* A value that holds no others, from off to end.
ScalarAt(bytes, off, end) ==
  LET t == ReadAny(Place(bytes, off), TypeOf(Place(bytes, off)))
  IN  t.reader = Place(bytes, end) /\ Inside(t) = 0

IsItem(s) ==
  /\ s \in Seq(Nat) /\ s # << >>
  /\ \A bytes \in Seq(Nat), off \in Nat :
       IsAt(bytes, off, s) => ScalarAt(bytes, off, off + Len(s))

LEMMA ReaderMoved ==
  ASSUME NEW buf0, NEW off, NEW ok, NEW end
  PROVE  [[buf |-> buf0, off |-> off, ok |-> ok] EXCEPT !.off = end]
           = [buf |-> buf0, off |-> end, ok |-> ok]
<1> DEFINE r == [[buf |-> buf0, off |-> off, ok |-> ok] EXCEPT !.off = end]
<1>1. r.buf = buf0 /\ r.off = end /\ r.ok = ok
  OBVIOUS
<1>2. r = [buf |-> r.buf, off |-> r.off, ok |-> r.ok]
  OBVIOUS
<1> QED
  BY <1>1, <1>2

LEMMA PlaceMoved ==
  ASSUME NEW bytes, NEW off, NEW end
  PROVE  [Place(bytes, off) EXCEPT !.off = end] = Place(bytes, end)
<1>1. PICK ok : ok = TRUE
  OBVIOUS
<1>2. \A e : Place(bytes, e) = [buf |-> bytes, off |-> e, ok |-> ok]
  BY <1>1 DEF Place
<1>3. [[buf |-> bytes, off |-> off, ok |-> ok] EXCEPT !.off = end]
        = [buf |-> bytes, off |-> end, ok |-> ok]
  BY ReaderMoved
<1> QED
  BY <1>2, <1>3

\* What a tag tells of the type.
LEMMA TypeIsRead ==
  ASSUME NEW bytes \in Seq(Nat), NEW off \in Nat, NEW type \in DOMAIN TagsOf,
         off < Len(bytes), bytes[off + 1] \in TagsOf[type],
         \A x \in DOMAIN TagsOf : bytes[off + 1] \in TagsOf[x] => x = type
  PROVE  TypeOf(Place(bytes, off)) = type
<1> DEFINE r == Place(bytes, off)
<1>1. r.buf = bytes /\ r.off = off
  BY DEF Place
<1>2. ~AtEnd(r)
  BY <1>1 DEF AtEnd
<1>3. bytes[off + 1] \in AllTags
  BY DEF AllTags
<1> HIDE DEF r
<1>4. TypeOf(r) = CHOOSE x \in DOMAIN TagsOf : bytes[off + 1] \in TagsOf[x]
  BY <1>1, <1>2, <1>3 DEF TypeOf
<1> QED
  BY <1>4 DEF r

LEMMA TagsAre ==
  /\ DOMAIN TagsOf = {"nil", "bool", "uint", "int", "float", "str", "bin", "array", "map"}
  /\ \A t : t \in TagsOf["nil"]   <=> t = 192
  /\ \A t : t \in TagsOf["bool"]  <=> t \in {194, 195}
  /\ \A t : t \in TagsOf["uint"]  <=> t \in Nat /\ (t <= 127 \/ (204 <= t /\ t <= 207))
  /\ \A t : t \in TagsOf["int"]   <=> t \in Nat /\ ((224 <= t /\ t <= 255) \/ (208 <= t /\ t <= 211))
  /\ \A t : t \in TagsOf["float"] <=> t \in {202, 203}
  /\ \A t : t \in TagsOf["str"]   <=> t \in Nat /\ ((160 <= t /\ t <= 191) \/ t = 217 \/ t = 218)
  /\ \A t : t \in TagsOf["bin"]   <=> t \in {196, 197}
  /\ \A t : t \in TagsOf["array"] <=> t \in Nat /\ ((144 <= t /\ t <= 159) \/ t = 220 \/ t = 221)
  /\ \A t : t \in TagsOf["map"]   <=> t \in Nat /\ ((128 <= t /\ t <= 143) \/ t = 222 \/ t = 223)
BY DEF TagsOf

LEMMA TagsTell ==
  ASSUME NEW type \in DOMAIN TagsOf, NEW t \in TagsOf[type],
         NEW x \in DOMAIN TagsOf, t \in TagsOf[x]
  PROVE  x = type
BY TagsAre

LEMMA CountOfOne ==
  ASSUME NEW t, NEW n \in Nat, t.val = <<n>>, NEW inTag
  PROVE  Count(t, inTag) = n
<1> DEFINE Is(f) == f = [i \in 0 .. 1 |->
                           IF i = 0 THEN 0
                           ELSE LET m == f[i - 1]
                                IN  IF m >= 65536 THEN m ELSE 256 * m + t.val[i]]
           g == [i \in 0 .. 1 |-> IF i = 0 THEN 0 ELSE n]
<1>1. Is(g)
  OBVIOUS
<1> DEFINE f == CHOOSE h : Is(h)
<1>2. Is(f)
  BY <1>1
<1>3. Count(t, inTag) = f[1]
  BY DEF Count
<1> HIDE DEF f
<1>4. f[0] = 0
  BY <1>2
<1>5. f[1] = n
  BY <1>2, <1>4
<1> QED
  BY <1>3, <1>5

LEMMA AtParts ==
  ASSUME NEW bytes \in Seq(Nat), NEW off \in Nat, NEW a \in Seq(Nat), NEW b \in Seq(Nat),
         IsAt(bytes, off, a \o b)
  PROVE  IsAt(bytes, off, a) /\ IsAt(bytes, off + Len(a), b) /\ off + Len(a) \in Nat
<1>1. Len(a \o b) = Len(a) + Len(b)
  OBVIOUS
<1>2. \A j \in 1 .. Len(a) : j \in 1 .. Len(a \o b) /\ (a \o b)[j] = a[j]
  OBVIOUS
<1>3. \A j \in 1 .. Len(b) : Len(a) + j \in 1 .. Len(a \o b) /\ (a \o b)[Len(a) + j] = b[j]
  OBVIOUS
<1>4. IsAt(bytes, off, a)
  BY <1>1, <1>2 DEF IsAt
<1>5. IsAt(bytes, off + Len(a), b)
  <2>1. \A j \in 1 .. Len(b) : bytes[off + (Len(a) + j)] = b[j]
    BY <1>3 DEF IsAt
  <2>2. \A j \in 1 .. Len(b) : (off + Len(a)) + j = off + (Len(a) + j)
    OBVIOUS
  <2> QED
    BY <1>1, <2>1, <2>2 DEF IsAt
<1> QED
  BY <1>4, <1>5

LEMMA SliceIs ==
  ASSUME NEW bytes \in Seq(Nat), NEW off \in Nat, NEW v \in Seq(Nat), IsAt(bytes, off, v)
  PROVE  SubSeq(bytes, off + 1, off + Len(v)) = v
<1> DEFINE s == SubSeq(bytes, off + 1, off + Len(v))
<1>1. PICK n \in Nat : n = Len(v)
  OBVIOUS
<1>2. off + n <= Len(bytes) /\ \A j \in 1 .. n : bytes[off + j] = v[j]
  BY <1>1 DEF IsAt
<1>3. \A i \in off + 1 .. off + n : bytes[i] \in Nat
  BY <1>2
<1>4. /\ s \in Seq(Nat) /\ Len(s) = n
      /\ \A j \in 1 .. n : s[j] = bytes[off + j]
  <2>1. /\ s \in Seq(Nat)
        /\ Len(s) = IF off + 1 <= off + n THEN (off + n) - (off + 1) + 1 ELSE 0
        /\ \A j \in 1 .. (off + n) - (off + 1) + 1 : s[j] = bytes[(off + 1) + j - 1]
    BY <1>1, <1>3, SubSeqProperties
  <2>2. \A j \in 1 .. n : (off + 1) + j - 1 = off + j
    OBVIOUS
  <2> QED
    BY <2>1, <2>2
<1> HIDE DEF s
<1>5. s = v
  BY <1>1, <1>2, <1>4, SeqEqual
<1> QED
  BY <1>5 DEF s

LEMMA HeadOf ==
  ASSUME NEW tag \in Nat, NEW v \in Seq(Nat)
  PROVE  /\ <<tag>> \o v \in Seq(Nat) /\ Len(<<tag>> \o v) = 1 + Len(v)
         /\ <<tag>> \o v # << >> /\ (<<tag>> \o v)[1] = tag
OBVIOUS

\* A tag with the bytes that belong to it.
TagAt(bytes, off, tag, v) ==
  off + 1 + Len(v) <= Len(bytes) /\ bytes[off + 1] = tag /\ IsAt(bytes, off + 1, v)

LEMMA AtTag ==
  ASSUME NEW bytes \in Seq(Nat), NEW off \in Nat, NEW tag \in Nat, NEW v \in Seq(Nat),
         IsAt(bytes, off, <<tag>> \o v)
  PROVE  TagAt(bytes, off, tag, v)
<1>1. <<tag>> \in Seq(Nat) /\ Len(<<tag>>) = 1 /\ <<tag>>[1] = tag
  OBVIOUS
<1>2. IsAt(bytes, off, <<tag>>) /\ IsAt(bytes, off + 1, v)
  BY <1>1, AtParts
<1> QED
  BY <1>1, <1>2 DEF IsAt, TagAt

LEMMA TagThen ==
  ASSUME NEW bytes \in Seq(Nat), NEW off \in Nat, NEW tags, NEW tag \in tags, NEW v \in Seq(Nat),
         Width(tag) = Len(v), TagAt(bytes, off, tag, v)
  PROVE  ReadTag(Place(bytes, off), tags) =
           [reader |-> Place(bytes, off + 1 + Len(v)), tag |-> tag, val |-> v]
<1> DEFINE r == Place(bytes, off)
<1>1. r.buf = bytes /\ r.off = off /\ r.ok
  BY DEF Place
<1>2. PICK w \in Nat : w = Len(v)
  OBVIOUS
<1>3. off + 1 + w <= Len(bytes) /\ bytes[off + 1] = tag /\ IsAt(bytes, off + 1, v)
  BY <1>2 DEF TagAt
<1>4. \A end : [r EXCEPT !.off = end] = Place(bytes, end)
  BY PlaceMoved
<1> HIDE DEF r
<1>5. Need(r, 1) /\ Need(r, 1 + w) /\ r.buf[r.off + 1] = tag
  BY <1>1, <1>3 DEF Need
<1>6. SubSeq(bytes, off + 2, off + 1 + w) = v
  <2>1. SubSeq(bytes, (off + 1) + 1, (off + 1) + w) = v
    BY SMTT(30), <1>2, <1>3, SliceIs
  <2>2. (off + 1) + 1 = off + 2 /\ (off + 1) + w = off + 1 + w
    OBVIOUS
  <2> QED
    BY <2>1, <2>2
<1>7. ReadTag(r, tags) = [reader |-> [r EXCEPT !.off = off + 1 + w], tag |-> tag,
                         val |-> SubSeq(bytes, off + 2, off + 1 + w)]
  BY <1>1, <1>2, <1>5 DEF ReadTag
<1> QED
  BY <1>2, <1>4, <1>6, <1>7 DEF r

LEMMA InsideNone ==
  ASSUME NEW t, t.tag \notin TagsOf.array, t.tag \notin TagsOf.map
  PROVE  Inside(t) = 0
BY DEF Inside

LEMMA HoldNone ==
  ASSUME NEW type \in {"nil", "bool", "uint", "float", "str", "bin"}, NEW tag \in TagsOf[type]
  PROVE  tag \notin TagsOf["array"] /\ tag \notin TagsOf["map"]
BY TagsAre

\* The type of the value that stands at a place.
LEMMA TypeAt ==
  ASSUME NEW bytes \in Seq(Nat), NEW off \in Nat, NEW type \in DOMAIN TagsOf,
         NEW s \in Seq(Nat), s # << >>, s[1] \in TagsOf[type], IsAt(bytes, off, s)
  PROVE  TypeOf(Place(bytes, off)) = type
<1>1. off < Len(bytes) /\ bytes[off + 1] = s[1]
  BY DEF IsAt
<1>2. \A x \in DOMAIN TagsOf : s[1] \in TagsOf[x] => x = type
  BY TagsTell
<1> QED
  BY <1>1, <1>2, TypeIsRead

\* Values of fixed width.
LEMMA PlainItem ==
  ASSUME NEW tag \in Nat, NEW v \in Seq(Nat), NEW type \in {"nil", "bool", "uint", "float"},
         tag \in TagsOf[type], tag # 203, Width(tag) = Len(v)
  PROVE  IsItem(<<tag>> \o v)
<1> DEFINE s == <<tag>> \o v
<1>1. s \in Seq(Nat) /\ s # << >> /\ s[1] = tag /\ Len(s) = 1 + Len(v)
  BY HeadOf
<1>2. ASSUME NEW bytes \in Seq(Nat), NEW off \in Nat, IsAt(bytes, off, s)
      PROVE  ScalarAt(bytes, off, off + Len(s))
  <2> DEFINE r == Place(bytes, off)
             t == [reader |-> Place(bytes, off + 1 + Len(v)), tag |-> tag, val |-> v]
  <2>1. ReadTag(r, TagsOf[type]) = t
    <3>1. TagAt(bytes, off, tag, v)
      BY <1>2, AtTag
    <3>2. PICK tags : tags = TagsOf[type] /\ tag \in tags
      OBVIOUS
    <3>3. ReadTag(Place(bytes, off), tags) =
            [reader |-> Place(bytes, off + 1 + Len(v)), tag |-> tag, val |-> v]
      BY <3>1, <3>2, TagThen
    <3> QED
      BY <3>2, <3>3
  <2>2. TypeOf(r) = type
    <3>1. type \in DOMAIN TagsOf
      BY TagsAre
    <3> HIDE DEF s
    <3> QED
      BY <1>1, <1>2, <3>1, TypeAt
  <2>3. off + 1 + Len(v) = off + Len(s)
    BY <1>1
  <2>4. t.reader = Place(bytes, off + Len(s)) /\ t.tag = tag
    BY <2>3
  <2> HIDE DEF r, s
  <2>5. /\ ReadAny(r, type).reader = t.reader
        /\ ReadAny(r, type).tag = tag
    <3>1. CASE type = "nil"
      BY <2>1, <3>1 DEF ReadAny, ReadNil
    <3>2. CASE type = "bool"
      <4>1. ReadAny(r, type) = [t EXCEPT !.val = (t.tag = 195)]
        BY <2>1, <3>2 DEF ReadAny, ReadBool, AsBool
      <4> QED
        BY <4>1
    <3>3. CASE type = "uint"
      <4>1. ReadAny(r, type) = IF t.reader.ok THEN [t EXCEPT !.val = Widened(Bytes(t), 0)] ELSE t
        BY <2>1, <3>3 DEF ReadAny, ReadUint, AsUint
      <4> QED
        BY <4>1
    <3>4. CASE type = "float"
      BY <2>1, <3>4 DEF ReadAny, ReadFloat32, AsFloat32
    <3> QED
      BY <3>1, <3>2, <3>3, <3>4
  <2>6. Inside(ReadAny(r, type)) = 0
    BY <2>5, HoldNone, InsideNone
  <2> QED
    BY <2>2, <2>4, <2>5, <2>6 DEF ScalarAt, r
<1> HIDE DEF s
<1>3. IsItem(s)
  BY <1>1, <1>2 DEF IsItem
<1> QED
  BY <1>3 DEF s

LEMMA ReadMoved ==
  ASSUME NEW t, t = [reader |-> t.reader, tag |-> t.tag, val |-> t.val], NEW n, NEW x
  PROVE  [t EXCEPT !.reader.off = @ + n, !.val = x]
           = [reader |-> [t.reader EXCEPT !.off = @ + n], tag |-> t.tag, val |-> x]
<1>1. PICK u : u = [t EXCEPT !.reader.off = @ + n, !.val = x]
  OBVIOUS
<1>2. u.reader = [t.reader EXCEPT !.off = @ + n] /\ u.tag = t.tag /\ u.val = x
  BY <1>1
<1>3. u = [reader |-> u.reader, tag |-> u.tag, val |-> u.val]
  BY <1>1
<1> QED
  BY <1>1, <1>2, <1>3

\* The contents of a string or a blob, after its length.
LEMMA ContentsThen ==
  ASSUME NEW bytes \in Seq(Nat), NEW off \in Nat, NEW t, NEW body \in Seq(Nat),
         t = [reader |-> t.reader, tag |-> t.tag, val |-> t.val],
         t.reader = Place(bytes, off), Count(t, 32) = Len(body), IsAt(bytes, off, body)
  PROVE  AsContents(t) =
           [reader |-> Place(bytes, off + Len(body)), tag |-> t.tag, val |-> body]
<1> DEFINE r == Place(bytes, off)
<1>1. r.buf = bytes /\ r.off = off /\ r.ok
  BY DEF Place
<1>2. PICK n \in Nat : n = Len(body)
  OBVIOUS
<1>3. \A end : [r EXCEPT !.off = end] = Place(bytes, end)
  BY PlaceMoved
<1>4. t.reader = r
  OBVIOUS
<1> HIDE DEF r
<1>5. Need(r, n)
  BY <1>1, <1>2 DEF Need, IsAt
<1>6. SubSeq(bytes, off + 1, off + n) = body
  BY <1>2, SliceIs
<1>7. AsContents(t) = [t EXCEPT !.reader.off = @ + n, !.val = SubSeq(bytes, off + 1, off + n)]
  BY <1>1, <1>2, <1>4, <1>5 DEF AsContents, Contents
<1>8. AsContents(t) = [reader |-> [r EXCEPT !.off = @ + n], tag |-> t.tag,
                      val |-> SubSeq(bytes, off + 1, off + n)]
  BY <1>4, <1>7, ReadMoved
<1>9. [r EXCEPT !.off = @ + n] = Place(bytes, off + n)
  BY <1>1, <1>3
<1> QED
  BY <1>2, <1>6, <1>8, <1>9 DEF r

\* What follows the tag of a string or a blob is read as it was written.
LEMMA TextThen ==
  ASSUME NEW bytes \in Seq(Nat), NEW off \in Nat, NEW tags, NEW tag \in Nat, tag \in tags,
         NEW v \in Seq(Nat), Width(tag) = Len(v), NEW body \in Seq(Nat),
         NEW t, t = [reader |-> Place(bytes, off + 1 + Len(v)), tag |-> tag, val |-> v],
         Count(t, 32) = Len(body), IsAt(bytes, off, (<<tag>> \o v) \o body)
  PROVE  AsContents(ReadTag(Place(bytes, off), tags)) =
           [reader |-> Place(bytes, off + Len((<<tag>> \o v) \o body)), tag |-> tag,
            val |-> body]
<1> DEFINE h == <<tag>> \o v
           o == off + 1 + Len(v)
<1>1. h \in Seq(Nat) /\ Len(h) = 1 + Len(v) /\ Len(h \o body) = 1 + Len(v) + Len(body)
  BY HeadOf
<1>2. IsAt(bytes, off, h) /\ IsAt(bytes, off + (1 + Len(v)), body)
  <2> HIDE DEF h
  <2>1. IsAt(bytes, off, h) /\ IsAt(bytes, off + Len(h), body)
    BY <1>1, AtParts DEF h
  <2> QED
    BY <1>1, <2>1
<1>3. TagAt(bytes, off, tag, v)
  BY <1>2, AtTag
<1>4. o \in Nat /\ o = off + (1 + Len(v)) /\ off + Len(h \o body) = o + Len(body)
  BY <1>1
<1>5. ReadTag(Place(bytes, off), tags) = t
  BY <1>3, TagThen
<1> HIDE DEF h
<1>6. /\ t = [reader |-> t.reader, tag |-> t.tag, val |-> t.val]
      /\ t.reader = Place(bytes, o) /\ t.tag = tag
  OBVIOUS
<1> HIDE DEF o
<1>7. IsAt(bytes, o, body)
  BY <1>2, <1>4
<1>8. AsContents(t) = [reader |-> Place(bytes, o + Len(body)), tag |-> t.tag, val |-> body]
  BY ZenonT(40), <1>4, <1>6, <1>7, ContentsThen
<1> QED
  BY <1>4, <1>5, <1>6, <1>8 DEF h

\* Str, and its first byte.
LEMMA StrThen ==
  ASSUME NEW bytes \in Seq(Nat), NEW off \in Nat, NEW s \in Seq(Nat), IsAt(bytes, off, Str(s))
  PROVE  /\ ReadStr(Place(bytes, off)) =
              [reader |-> Place(bytes, off + Len(Str(s))), tag |-> Str(s)[1], val |-> s]
         /\ TypeOf(Place(bytes, off)) = "str"
<1>1. PICK n \in Nat : n = Len(s)
  OBVIOUS
<1> DEFINE tag == IF n < 32 THEN 160 + n ELSE 217
           v   == IF n < 32 THEN << >> ELSE <<n>>
<1>2. tag \in Nat /\ v \in Seq(Nat) /\ Width(tag) = Len(v)
  <2>1. CASE n < 32
    <3>1. Width(160 + n) = 0
      BY SMTT(30), <2>1 DEF Width
    <3> QED
      BY <2>1, <3>1
  <2>2. CASE ~(n < 32)
    BY <2>2 DEF Width
  <2> QED
    BY <2>1, <2>2
<1>3. tag \in TagsOf["str"]
  <2>1. CASE n < 32
    <3>1. 160 + n \in Nat /\ 160 + n \in TagsOf["str"]
      BY <2>1, TagsAre
    <3> QED
      BY <2>1, <3>1
  <2>2. CASE ~(n < 32)
    BY <2>2, TagsAre
  <2> QED
    BY <2>1, <2>2
<1>4. Str(s) = (<<tag>> \o v) \o s
  BY <1>1 DEF Str
<1>5. ASSUME NEW t, t.tag = tag, t.val = v
      PROVE  Count(t, 32) = n
  <2>1. CASE n < 32
    <3>1. (160 + n) % 32 = n
      BY <2>1
    <3> QED
      BY <1>5, <2>1, <3>1 DEF Count
  <2>2. CASE ~(n < 32)
    BY SMTT(30), <1>5, <2>2, CountOfOne
  <2> QED
    BY <2>1, <2>2
<1> HIDE DEF tag, v
<1>6. PICK t : t = [reader |-> Place(bytes, off + 1 + Len(v)), tag |-> tag, val |-> v]
  OBVIOUS
<1>7. Str(s) \in Seq(Nat) /\ Str(s) # << >> /\ Str(s)[1] = tag
  <2>1. <<tag>> \o v \in Seq(Nat) /\ Len(<<tag>> \o v) = 1 + Len(v) /\ (<<tag>> \o v)[1] = tag
    BY <1>2, HeadOf
  <2> QED
    BY <1>2, <1>4, <2>1
<1>8. AsContents(ReadTag(Place(bytes, off), TagsOf.str)) =
        [reader |-> Place(bytes, off + Len(Str(s))), tag |-> tag, val |-> s]
  <2>1. t.tag = tag /\ t.val = v
    BY <1>6
  <2>2. Count(t, 32) = Len(s)
    BY <1>1, <1>5, <2>1
  <2>3. IsAt(bytes, off, (<<tag>> \o v) \o s)
    BY <1>4
  <2>4. AsContents(ReadTag(Place(bytes, off), TagsOf.str)) =
          [reader |-> Place(bytes, off + Len((<<tag>> \o v) \o s)), tag |-> tag, val |-> s]
    BY <1>2, <1>3, <1>6, <2>2, <2>3, TextThen
  <2> QED
    BY <1>4, <2>4
<1>9. TypeOf(Place(bytes, off)) = "str"
  BY <1>3, <1>7, TagsAre, TypeAt
<1> QED
  BY <1>7, <1>8, <1>9 DEF ReadStr

LEMMA StrItem ==
  ASSUME NEW s \in Seq(Nat)
  PROVE  IsItem(Str(s))
<1>1. Str(s) \in Seq(Nat) /\ Str(s) # << >> /\ Str(s)[1] \in TagsOf["str"]
  <2>1. CASE Len(s) < 32
    <3>1. Str(s) = <<160 + Len(s)>> \o s
      BY <2>1 DEF Str
    <3>2. 160 + Len(s) \in Nat /\ 160 + Len(s) \in TagsOf["str"]
      BY <2>1, TagsAre
    <3> QED
      BY <3>1, <3>2, HeadOf
  <2>2. CASE ~(Len(s) < 32)
    <3>1. Str(s) = <<217, Len(s)>> \o s
      BY <2>2 DEF Str
    <3>2. <<217, Len(s)>> \in Seq(Nat) /\ <<217, Len(s)>> # << >> /\ <<217, Len(s)>>[1] = 217
      OBVIOUS
    <3>3. 217 \in TagsOf["str"]
      BY TagsAre
    <3> QED
      BY <3>1, <3>2, <3>3
  <2> QED
    BY <2>1, <2>2
<1>2. ASSUME NEW bytes \in Seq(Nat), NEW off \in Nat, IsAt(bytes, off, Str(s))
      PROVE  ScalarAt(bytes, off, off + Len(Str(s)))
  <2> DEFINE r == Place(bytes, off)
             t == [reader |-> Place(bytes, off + Len(Str(s))), tag |-> Str(s)[1], val |-> s]
  <2>1. ReadStr(r) = t /\ TypeOf(r) = "str"
    BY <1>2, StrThen
  <2> HIDE DEF r
  <2>2. ReadAny(r, "str") = t
    BY <2>1 DEF ReadAny
  <2>3. Inside(t) = 0
    <3>1. t.tag = Str(s)[1]
      OBVIOUS
    <3> HIDE DEF t
    <3> QED
      BY <1>1, <3>1, HoldNone, InsideNone
  <2> QED
    BY <2>1, <2>2, <2>3 DEF ScalarAt, r
<1> QED
  BY <1>1, <1>2 DEF IsItem

LEMMA BinItem ==
  ASSUME NEW s \in Seq(Nat)
  PROVE  IsItem(Bin(s))
<1>1. PICK tag \in Nat : tag = 196
  OBVIOUS
<1>2. PICK n \in Nat : n = Len(s)
  OBVIOUS
<1>3. PICK v \in Seq(Nat) : v = <<n>>
  <2>1. <<n>> \in Seq(Nat)
    OBVIOUS
  <2> QED
    BY <2>1
<1>4. tag \in TagsOf["bin"] /\ "bin" \in DOMAIN TagsOf
  BY <1>1, TagsAre
<1>5. Len(v) = 1 /\ Width(tag) = Len(v)
  BY <1>1, <1>3 DEF Width
<1>6. PICK b : b = (<<tag>> \o v) \o s
  OBVIOUS
<1>7. Bin(s) = b
  BY <1>1, <1>2, <1>3, <1>6 DEF Bin
<1>8. b \in Seq(Nat) /\ b # << >> /\ b[1] = tag
  <2>1. <<tag>> \o v \in Seq(Nat) /\ Len(<<tag>> \o v) = 1 + Len(v) /\ (<<tag>> \o v)[1] = tag
    BY HeadOf
  <2> QED
    BY <1>6, <2>1
<1>9. ASSUME NEW bytes \in Seq(Nat), NEW off \in Nat, IsAt(bytes, off, b)
      PROVE  ScalarAt(bytes, off, off + Len(b))
  <2> DEFINE r == Place(bytes, off)
  <2>1. PICK t : t = [reader |-> Place(bytes, off + 1 + Len(v)), tag |-> tag, val |-> v]
    OBVIOUS
  <2>2. Count(t, 32) = Len(s)
    <3>1. t.val = <<n>>
      BY <1>3, <2>1
    <3>2. Count(t, 32) = n
      BY <3>1, CountOfOne
    <3> QED
      BY <1>2, <3>2
  <2>3. PICK u : u = [reader |-> Place(bytes, off + Len(b)), tag |-> tag, val |-> s]
    OBVIOUS
  <2>4. AsContents(ReadTag(r, TagsOf["bin"])) = u
    <3>1. IsAt(bytes, off, (<<tag>> \o v) \o s)
      BY <1>6, <1>9
    <3>2. PICK tags : tags = TagsOf["bin"]
      OBVIOUS
    <3>3. tag \in tags /\ Width(tag) = Len(v)
      BY <1>4, <1>5, <3>2
    <3>4. AsContents(ReadTag(Place(bytes, off), tags)) =
            [reader |-> Place(bytes, off + Len((<<tag>> \o v) \o s)), tag |-> tag, val |-> s]
      BY <2>1, <2>2, <3>1, <3>3, TextThen
    <3> QED
      BY <1>6, <2>3, <3>2, <3>4
  <2>5. TypeOf(r) = "bin"
    BY <1>4, <1>8, <1>9, TypeAt
  <2> HIDE DEF r
  <2>6. ReadAny(r, "bin") = u
    BY <2>4 DEF ReadAny, ReadBin
  <2>7. u.reader = Place(bytes, off + Len(b)) /\ u.tag = tag
    BY <2>3
  <2>8. Inside(u) = 0
    BY <1>4, <2>7, HoldNone, InsideNone
  <2> QED
    BY <2>5, <2>6, <2>7, <2>8 DEF ScalarAt, r
<1>10. IsItem(b)
  BY <1>8, <1>9 DEF IsItem
<1> QED
  BY <1>7, <1>10

LEMMA UintItem ==
  ASSUME NEW v \in Seq(Nat), Len(v) \in {1, 2, 4}
  PROVE  IsItem(Uint(v)) /\ Uint(v) = <<Uint(v)[1]>> \o v
         /\ Uint(v)[1] \in TagsOf["uint"] /\ Width(Uint(v)[1]) = Len(v)
<1> DEFINE tag == CASE Len(v) = 1 -> 204 [] Len(v) = 2 -> 205 [] Len(v) = 4 -> 206
<1>1. Uint(v) = <<tag>> \o v
  BY DEF Uint
<1>2. PICK n \in {1, 2, 4} : n = Len(v)
  OBVIOUS
<1>3. tag \in {204, 205, 206} /\ (n = 1 => tag = 204) /\ (n = 2 => tag = 205) /\ (n = 4 => tag = 206)
  BY <1>2
<1> HIDE DEF tag
<1>4. tag \in Nat /\ tag \in TagsOf["uint"] /\ tag # 203 /\ Width(tag) = Len(v)
  <2>1. tag \in Nat /\ tag # 203
    BY <1>3
  <2>2. tag \in TagsOf["uint"]
    BY <1>3, TagsAre
  <2>3. Width(tag) = n
    <3>1. CASE n = 1
      BY <1>3, <3>1 DEF Width
    <3>2. CASE n = 2
      BY <1>3, <3>2 DEF Width
    <3>3. CASE n = 4
      BY <1>3, <3>3 DEF Width
    <3> QED
      BY <3>1, <3>2, <3>3
  <2> QED
    BY <1>2, <2>1, <2>2, <2>3
<1>5. IsItem(<<tag>> \o v)
  BY <1>4, PlainItem
<1>6. (<<tag>> \o v)[1] = tag
  BY <1>4, HeadOf
<1> QED
  BY <1>1, <1>4, <1>5, <1>6

LEMMA FloatItem ==
  ASSUME NEW v \in Seq(Nat), Len(v) = 4
  PROVE  IsItem(Float32(v))
<1>1. PICK tag \in Nat : tag = 202
  OBVIOUS
<1>2. tag \in TagsOf["float"] /\ tag # 203 /\ Width(tag) = Len(v)
  BY <1>1, TagsAre DEF Width
<1>3. IsItem(<<tag>> \o v)
  BY <1>2, PlainItem
<1> QED
  BY <1>1, <1>3 DEF Float32

LEMMA NilItem == IsItem(Nil)
<1>1. PICK tag \in Nat : tag = 192
  OBVIOUS
<1>2. << >> \in Seq(Nat) /\ Len(<< >>) = 0 /\ <<tag>> \o << >> = <<tag>>
  BY <1>1
<1>3. tag \in TagsOf["nil"] /\ tag # 203 /\ Width(tag) = 0
  BY <1>1, TagsAre DEF Width
<1>4. IsItem(<<tag>> \o << >>)
  BY <1>2, <1>3, PlainItem
<1> QED
  BY <1>1, <1>2, <1>4 DEF Nil

LEMMA BoolItem ==
  ASSUME NEW b \in BOOLEAN
  PROVE  IsItem(BoolVal(b))
<1> DEFINE tag == IF b THEN 195 ELSE 194
<1>1. << >> \in Seq(Nat) /\ Len(<< >>) = 0
  OBVIOUS
<1>2. tag \in Nat /\ tag # 203 /\ tag \in TagsOf["bool"]
  BY TagsAre
<1>3. Width(tag) = 0
  BY DEF Width
<1>4. BoolVal(b) = <<tag>>
  BY DEF BoolVal
<1> HIDE DEF tag
<1>5. IsItem(<<tag>> \o << >>)
  BY <1>1, <1>2, <1>3, PlainItem
<1>6. <<tag>> \o << >> = <<tag>>
  BY <1>2
<1> QED
  BY <1>4, <1>5, <1>6

-----------------------------------------------------------------------------
(* Values one after the other *)

\* From a to b there are n values.
Walks(bytes, a, n, b) ==
  \E offs \in [0 .. n -> Nat] :
    /\ offs[0] = a /\ offs[n] = b
    /\ \A i \in 1 .. n : ScalarAt(bytes, offs[i - 1], offs[i])

AreItems(s, n) ==
  /\ s \in Seq(Nat) /\ n <= Len(s)
  /\ \A bytes \in Seq(Nat), off \in Nat :
       IsAt(bytes, off, s) => Walks(bytes, off, n, off + Len(s))

LEMMA NoItems == AreItems(<< >>, 0)
<1>1. << >> \in Seq(Nat) /\ Len(<< >>) = 0
  OBVIOUS
<1>2. ASSUME NEW bytes \in Seq(Nat), NEW off \in Nat
      PROVE  Walks(bytes, off, 0, off)
  <2>1. PICK offs : offs = [i \in 0 .. 0 |-> off]
    OBVIOUS
  <2>2. offs \in [0 .. 0 -> Nat] /\ offs[0] = off
    BY <2>1
  <2> QED
    BY <2>2 DEF Walks
<1> QED
  BY <1>1, <1>2 DEF AreItems

LEMMA OneItem ==
  ASSUME NEW s, IsItem(s)
  PROVE  AreItems(s, 1)
<1>1. s \in Seq(Nat) /\ 1 <= Len(s)
  BY DEF IsItem
<1>2. ASSUME NEW bytes \in Seq(Nat), NEW off \in Nat, IsAt(bytes, off, s)
      PROVE  Walks(bytes, off, 1, off + Len(s))
  <2>1. PICK offs : offs = [i \in 0 .. 1 |-> IF i = 0 THEN off ELSE off + Len(s)]
    OBVIOUS
  <2>2. offs \in [0 .. 1 -> Nat] /\ offs[0] = off /\ offs[1] = off + Len(s)
    BY <1>1, <2>1
  <2>3. ScalarAt(bytes, off, off + Len(s))
    BY <1>2 DEF IsItem
  <2>4. \A i \in 1 .. 1 : ScalarAt(bytes, offs[i - 1], offs[i])
    BY <2>2, <2>3
  <2> QED
    BY <2>2, <2>4 DEF Walks
<1> QED
  BY <1>1, <1>2 DEF AreItems

LEMMA WalksJoin ==
  ASSUME NEW bytes, NEW a, NEW m \in Nat, NEW b, NEW n \in Nat, NEW c,
         Walks(bytes, a, m, b), Walks(bytes, b, n, c)
  PROVE  Walks(bytes, a, m + n, c)
<1>1. PICK f \in [0 .. m -> Nat] : /\ f[0] = a /\ f[m] = b
                                  /\ \A i \in 1 .. m : ScalarAt(bytes, f[i - 1], f[i])
  BY DEF Walks
<1>2. PICK g \in [0 .. n -> Nat] : /\ g[0] = b /\ g[n] = c
                                  /\ \A i \in 1 .. n : ScalarAt(bytes, g[i - 1], g[i])
  BY DEF Walks
<1>3. PICK h : h = [i \in 0 .. m + n |-> IF i <= m THEN f[i] ELSE g[i - m]]
  OBVIOUS
<1>4. \A i \in 0 .. m : h[i] = f[i]
  BY <1>3
<1>5. \A i \in 0 .. n : h[m + i] = g[i]
  <2> SUFFICES ASSUME NEW i \in 0 .. n
               PROVE  h[m + i] = g[i]
    OBVIOUS
  <2>1. CASE i = 0
    BY <1>1, <1>2, <1>4, <2>1
  <2>2. CASE i # 0
    <3>1. m + i \in 0 .. m + n /\ ~(m + i <= m) /\ (m + i) - m = i
      BY <2>2
    <3> QED
      BY <1>3, <3>1
  <2> QED
    BY <2>1, <2>2
<1>6. h \in [0 .. m + n -> Nat]
  <2>1. \A i \in 0 .. m + n : i \in 0 .. m \/ i - m \in 0 .. n
    OBVIOUS
  <2> QED
    BY <1>3, <2>1
<1>7. h[0] = a /\ h[m + n] = c
  BY <1>1, <1>2, <1>4, <1>5
<1>8. ASSUME NEW i \in 1 .. m + n
      PROVE  ScalarAt(bytes, h[i - 1], h[i])
  <2>1. CASE i <= m
    <3>1. i \in 1 .. m /\ i \in 0 .. m /\ i - 1 \in 0 .. m
      BY <2>1
    <3> QED
      BY <1>1, <1>4, <3>1
  <2>2. CASE ~(i <= m)
    <3>1. PICK j \in 1 .. n : i = m + j
      <4>1. i - m \in 1 .. n /\ i = m + (i - m)
        BY <2>2
      <4> QED
        BY <4>1
    <3>2. i - 1 = m + (j - 1) /\ j \in 0 .. n /\ j - 1 \in 0 .. n
      BY <3>1
    <3>3. h[i] = g[j] /\ h[i - 1] = g[j - 1]
      BY <1>5, <3>1, <3>2
    <3> QED
      BY <1>2, <3>3
  <2> QED
    BY <2>1, <2>2
<1> QED
  BY <1>6, <1>7, <1>8 DEF Walks

LEMMA ItemsJoin ==
  ASSUME NEW s, NEW m \in Nat, AreItems(s, m), NEW t, NEW n \in Nat, AreItems(t, n)
  PROVE  AreItems(s \o t, m + n)
<1>1. s \in Seq(Nat) /\ t \in Seq(Nat) /\ m <= Len(s) /\ n <= Len(t)
  BY DEF AreItems
<1>2. s \o t \in Seq(Nat) /\ Len(s \o t) = Len(s) + Len(t) /\ m + n <= Len(s \o t)
  BY <1>1
<1>3. ASSUME NEW bytes \in Seq(Nat), NEW off \in Nat, IsAt(bytes, off, s \o t)
      PROVE  Walks(bytes, off, m + n, off + Len(s \o t))
  <2>1. IsAt(bytes, off, s) /\ IsAt(bytes, off + Len(s), t) /\ off + Len(s) \in Nat
    BY <1>1, <1>3, AtParts
  <2>2. Walks(bytes, off, m, off + Len(s))
    BY <2>1 DEF AreItems
  <2>3. Walks(bytes, off + Len(s), n, (off + Len(s)) + Len(t))
    BY <2>1 DEF AreItems
  <2>4. (off + Len(s)) + Len(t) = off + Len(s \o t)
    BY <1>1, <1>2
  <2> QED
    BY <2>2, <2>3, <2>4, WalksJoin
<1> QED
  BY <1>2, <1>3 DEF AreItems

LEMMA OneMore ==
  ASSUME NEW s, NEW n \in Nat, AreItems(s, n), NEW t, IsItem(t)
  PROVE  AreItems(s \o t, n + 1)
BY OneItem, ItemsJoin

\* The rounds of SkipValue are known once some satisfy its recursion.
LEMMA SkipGives ==
  ASSUME NEW bytes \in Seq(Nat), NEW r, r.buf = bytes, NEW g,
         g[0] = [reader |-> r, left |-> 1],
         \A k \in 1 .. Len(bytes) + 1 : g[k] = SkipStep(g[k - 1])
  PROVE  SkipValue(r) = g[Len(bytes) + 1].reader
<1> DEFINE a == [reader |-> r, left |-> 1]
<1>1. PICK n \in Nat : n = Len(bytes) + 1
  OBVIOUS
<1> DEFINE Is(f) == f = [k \in 0 .. n |-> IF k = 0 THEN a ELSE SkipStep(f[k - 1])]
<1>2. PICK h : h = [k \in 0 .. n |-> g[k]]
  OBVIOUS
<1> HIDE DEF a
<1>3. Is(h)
  <2>1. ASSUME NEW k \in 0 .. n
        PROVE  h[k] = IF k = 0 THEN a ELSE SkipStep(h[k - 1])
    <3>1. CASE k = 0
      BY <1>2, <3>1 DEF a
    <3>2. CASE k # 0
      <4>1. k \in 1 .. n /\ k - 1 \in 0 .. n
        BY <3>2
      <4> QED
        BY <1>1, <1>2, <3>2, <4>1
    <3> QED
      BY <3>1, <3>2
  <2> QED
    BY <1>2, <2>1
<1> DEFINE after == CHOOSE f : Is(f)
<1>4. Is(after)
  BY <1>3
<1>5. SkipValue(r) = after[n].reader
  BY <1>1 DEF SkipValue, SkipStep, a
<1> HIDE DEF after
<1>6. \A k \in 0 .. n : after[k] = IF k = 0 THEN a ELSE SkipStep(after[k - 1])
  BY <1>4
<1> DEFINE G == {k \in 0 .. n : after[k] = g[k]}
<1>7. 0 \in G
  BY <1>6 DEF a
<1>8. ASSUME NEW k \in 1 .. n, k - 1 \in G
      PROVE  k \in G
  <2>1. k \in 0 .. n /\ k # 0 /\ after[k - 1] = g[k - 1]
    BY <1>8
  <2>2. after[k] = SkipStep(after[k - 1]) /\ g[k] = SkipStep(g[k - 1])
    BY <1>1, <1>6, <2>1
  <2> QED
    BY <2>1, <2>2
<1> HIDE DEF G
<1>9. \A k \in 0 .. n : k \in G
  BY <1>7, <1>8, UpTo
<1>10. after[n] = g[n]
  BY <1>9 DEF G
<1> QED
  BY <1>1, <1>5, <1>10

\* A single value is skipped to its end.
LEMMA SkipOne ==
  ASSUME NEW bytes \in Seq(Nat), NEW off \in Nat, NEW end, ScalarAt(bytes, off, end)
  PROVE  SkipValue(Place(bytes, off)) = Place(bytes, end)
<1> DEFINE r == Place(bytes, off)
           e == Place(bytes, end)
<1>1. r.buf = bytes /\ r.ok
  BY DEF Place
<1>2. ReadAny(r, TypeOf(r)).reader = e /\ Inside(ReadAny(r, TypeOf(r))) = 0
  BY DEF ScalarAt
<1> HIDE DEF r, e
<1>3. PICK s0 : s0 = [reader |-> r, left |-> 1]
  OBVIOUS
<1>4. PICK s1 : s1 = [reader |-> e, left |-> 0]
  OBVIOUS
<1>5. SkipStep(s0) = s1
  BY <1>1, <1>2, <1>3, <1>4 DEF SkipStep, PassOne
<1>6. SkipStep(s1) = s1
  BY <1>4 DEF SkipStep
<1>7. PICK g : g = [k \in 0 .. Len(bytes) + 1 |-> IF k = 0 THEN s0 ELSE s1]
  OBVIOUS
<1>8. g[0] = s0 /\ \A k \in 1 .. Len(bytes) + 1 : g[k] = s1
  BY <1>7
<1>9. ASSUME NEW k \in 1 .. Len(bytes) + 1
      PROVE  g[k] = SkipStep(g[k - 1])
  <2>1. CASE k = 1
    BY <1>5, <1>8, <2>1
  <2>2. CASE k # 1
    <3>1. k - 1 \in 1 .. Len(bytes) + 1
      BY <2>2
    <3> QED
      BY <1>6, <1>8, <3>1
  <2> QED
    BY <2>1, <2>2
<1>10. SkipValue(r) = g[Len(bytes) + 1].reader
  BY <1>1, <1>3, <1>8, <1>9, SkipGives
<1>11. g[Len(bytes) + 1].reader = e
  BY <1>4, <1>8
<1> QED
  BY <1>10, <1>11 DEF r, e

\* The header of a few values.
LEMMA HeaderThen ==
  ASSUME NEW bytes \in Seq(Nat), NEW off \in Nat, NEW tags, NEW tag \in tags, tag \in Nat,
         NEW v \in Seq(Nat), Width(tag) = Len(v), IsAt(bytes, off, <<tag>> \o v),
         NEW t, t = [reader |-> Place(bytes, off + 1 + Len(v)), tag |-> tag, val |-> v]
  PROVE  AsHeader(ReadTag(Place(bytes, off), tags)) = [t EXCEPT !.val = Count(t, 16)]
<1>1. ReadTag(Place(bytes, off), tags) = t
  BY AtTag, TagThen
<1>2. t.reader.ok
  BY DEF Place
<1> QED
  BY <1>1, <1>2 DEF AsHeader

LEMMA HeaderWidths ==
  ASSUME NEW n \in Nat, n < 16
  PROVE  Width(128 + n) = 0 /\ Width(144 + n) = 0
<1>1. PICK tag \in Nat : tag = 128 + n
  OBVIOUS
<1>2. Width(tag) = 0
  BY <1>1 DEF Width
<1>3. PICK other \in Nat : other = 144 + n
  OBVIOUS
<1>4. Width(other) = 0
  BY <1>3 DEF Width
<1> QED
  BY <1>1, <1>2, <1>3, <1>4

LEMMA MapIsRead ==
  ASSUME NEW bytes \in Seq(Nat), NEW n \in Nat, n < 16, IsAt(bytes, 0, MapHeader(n))
  PROVE  /\ ReadMapHeader(Place(bytes, 0)) =
              [reader |-> Place(bytes, 1), tag |-> 128 + n, val |-> n]
         /\ 128 + n \in TagsOf["map"] /\ TypeOf(Place(bytes, 0)) = "map"
<1>1. PICK tag \in Nat : tag = 128 + n
  OBVIOUS
<1>2. tag \in TagsOf["map"]
  BY <1>1, TagsAre
<1>3. tag % 16 = n
  <2>1. (128 + n) % 16 = n
    OBVIOUS
  <2> QED
    BY <1>1, <2>1
<1>4. PICK v \in Seq(Nat) : v = << >>
  <2>1. << >> \in Seq(Nat)
    OBVIOUS
  <2> QED
    BY <2>1
<1>5. Width(tag) = Len(v)
  <2>1. Width(128 + n) = 0
    BY HeaderWidths
  <2> QED
    BY <1>1, <1>4, <2>1
<1>6. PICK off \in Nat : off = 0
  OBVIOUS
<1>7. IsAt(bytes, off, <<tag>> \o v)
  <2>1. MapHeader(n) = <<tag>> /\ <<tag>> \o v = <<tag>>
    BY <1>1, <1>4 DEF MapHeader
  <2> QED
    BY <1>6, <2>1
<1>8. PICK t : t = [reader |-> Place(bytes, off + 1 + Len(v)), tag |-> tag, val |-> v]
  OBVIOUS
<1>9. AsHeader(ReadTag(Place(bytes, off), TagsOf["map"])) = [t EXCEPT !.val = Count(t, 16)]
  <2>1. PICK tags : tags = TagsOf["map"]
    OBVIOUS
  <2>2. tag \in tags
    BY <1>2, <2>1
  <2>3. AsHeader(ReadTag(Place(bytes, off), tags)) = [t EXCEPT !.val = Count(t, 16)]
    BY <1>5, <1>7, <1>8, <2>2, HeaderThen
  <2> QED
    BY <2>1, <2>3
<1>10. Count(t, 16) = n
  <2>1. t.val = << >> /\ t.tag = tag
    BY <1>4, <1>8
  <2> QED
    BY <1>3, <2>1 DEF Count
<1>11. off + 1 + Len(v) = 1
  BY <1>4, <1>6
<1>12. [t EXCEPT !.val = n] = [reader |-> Place(bytes, 1), tag |-> tag, val |-> n]
  BY <1>8, <1>11
<1>13. TypeOf(Place(bytes, off)) = "map"
  <2>1. <<tag>> \o v \in Seq(Nat) /\ <<tag>> \o v # << >> /\ (<<tag>> \o v)[1] = tag
    BY HeadOf
  <2>2. "map" \in DOMAIN TagsOf
    BY TagsAre
  <2> QED
    BY <1>2, <1>7, <2>1, <2>2, TypeAt
<1> QED
  BY <1>1, <1>2, <1>6, <1>9, <1>10, <1>12, <1>13 DEF ReadMapHeader

LEMMA ArrayIsRead ==
  ASSUME NEW bytes \in Seq(Nat), NEW n \in Nat, n < 16, IsAt(bytes, 0, ArrayHeader(n))
  PROVE  /\ ReadArrayHeader(Place(bytes, 0)) =
              [reader |-> Place(bytes, 1), tag |-> 144 + n, val |-> n]
         /\ 144 + n \in TagsOf["array"] /\ TypeOf(Place(bytes, 0)) = "array"
<1>1. PICK tag \in Nat : tag = 144 + n
  OBVIOUS
<1>2. tag \in TagsOf["array"]
  BY <1>1, TagsAre
<1>3. tag % 16 = n
  <2>1. (144 + n) % 16 = n
    OBVIOUS
  <2> QED
    BY <1>1, <2>1
<1>4. PICK v \in Seq(Nat) : v = << >>
  <2>1. << >> \in Seq(Nat)
    OBVIOUS
  <2> QED
    BY <2>1
<1>5. Width(tag) = Len(v)
  <2>1. Width(144 + n) = 0
    BY HeaderWidths
  <2> QED
    BY <1>1, <1>4, <2>1
<1>6. PICK off \in Nat : off = 0
  OBVIOUS
<1>7. IsAt(bytes, off, <<tag>> \o v)
  <2>1. ArrayHeader(n) = <<tag>> /\ <<tag>> \o v = <<tag>>
    BY <1>1, <1>4 DEF ArrayHeader
  <2> QED
    BY <1>6, <2>1
<1>8. PICK t : t = [reader |-> Place(bytes, off + 1 + Len(v)), tag |-> tag, val |-> v]
  OBVIOUS
<1>9. AsHeader(ReadTag(Place(bytes, off), TagsOf["array"])) = [t EXCEPT !.val = Count(t, 16)]
  <2>1. PICK tags : tags = TagsOf["array"]
    OBVIOUS
  <2>2. tag \in tags
    BY <1>2, <2>1
  <2>3. AsHeader(ReadTag(Place(bytes, off), tags)) = [t EXCEPT !.val = Count(t, 16)]
    BY <1>5, <1>7, <1>8, <2>2, HeaderThen
  <2> QED
    BY <2>1, <2>3
<1>10. Count(t, 16) = n
  <2>1. t.val = << >> /\ t.tag = tag
    BY <1>4, <1>8
  <2> QED
    BY <1>3, <2>1 DEF Count
<1>11. off + 1 + Len(v) = 1
  BY <1>4, <1>6
<1>12. [t EXCEPT !.val = n] = [reader |-> Place(bytes, 1), tag |-> tag, val |-> n]
  BY <1>8, <1>11
<1>13. TypeOf(Place(bytes, off)) = "array"
  <2>1. <<tag>> \o v \in Seq(Nat) /\ <<tag>> \o v # << >> /\ (<<tag>> \o v)[1] = tag
    BY HeadOf
  <2>2. "array" \in DOMAIN TagsOf
    BY TagsAre
  <2> QED
    BY <1>2, <1>7, <2>1, <2>2, TypeAt
<1> QED
  BY <1>1, <1>2, <1>6, <1>9, <1>10, <1>12, <1>13 DEF ReadArrayHeader

LEMMA MapsAreNot ==
  ASSUME NEW tag \in TagsOf["map"]
  PROVE  tag \notin TagsOf["array"]
BY TagsAre

\* A map of n pairs is skipped to its end.
LEMMA SkipMap ==
  ASSUME NEW n \in Nat, n < 16, NEW s, AreItems(s, 2 * n),
         NEW bytes, bytes = MapHeader(n) \o s
  PROVE  /\ bytes \in Seq(Nat)
         /\ IsAt(bytes, 0, MapHeader(n)) /\ IsAt(bytes, 1, s)
         /\ SkipValue(Place(bytes, 0)) = Place(bytes, Len(bytes))
<1>1. s \in Seq(Nat) /\ 2 * n <= Len(s)
  BY DEF AreItems
<1>2. MapHeader(n) = <<128 + n>> /\ <<128 + n>> \in Seq(Nat) /\ Len(<<128 + n>>) = 1
  BY DEF MapHeader
<1>3. bytes \in Seq(Nat) /\ Len(bytes) = 1 + Len(s)
  BY <1>1, <1>2
<1>4. IsAt(bytes, 0, bytes)
  BY <1>3 DEF IsAt
<1>5. IsAt(bytes, 0, MapHeader(n)) /\ IsAt(bytes, 1, s)
  <2>1. PICK h \in Seq(Nat) : h = MapHeader(n) /\ Len(h) = 1
    BY <1>2
  <2>2. IsAt(bytes, 0, h \o s)
    BY <1>4, <2>1
  <2>3. IsAt(bytes, 0, h) /\ IsAt(bytes, 0 + Len(h), s)
    BY <1>1, <1>3, <2>2, AtParts
  <2> QED
    BY <2>1, <2>3
<1>6. PICK N \in Nat : N = 2 * n
  OBVIOUS
<1>7. Walks(bytes, 1, N, Len(bytes))
  <2>1. Walks(bytes, 1, N, 1 + Len(s))
    BY <1>3, <1>5, <1>6 DEF AreItems
  <2> QED
    BY <1>3, <2>1
<1>8. PICK f \in [0 .. N -> Nat] : /\ f[0] = 1 /\ f[N] = Len(bytes)
                                  /\ \A i \in 1 .. N : ScalarAt(bytes, f[i - 1], f[i])
  BY <1>7 DEF Walks
<1> DEFINE r == Place(bytes, 0)
<1>9. r.buf = bytes /\ r.ok /\ \A off : Place(bytes, off).ok
  BY DEF Place
<1>10. PICK t : t = ReadMapHeader(r)
  OBVIOUS
<1>11. t.reader = Place(bytes, 1) /\ Inside(t) = N /\ ReadAny(r, TypeOf(r)) = t
  <2>1. t = [reader |-> Place(bytes, 1), tag |-> 128 + n, val |-> n]
        /\ 128 + n \in TagsOf["map"] /\ TypeOf(r) = "map"
    BY <1>3, <1>5, <1>10, MapIsRead
  <2>2. t.reader = Place(bytes, 1) /\ t.tag = 128 + n /\ t.val = n
    BY <2>1
  <2>3. 128 + n \notin TagsOf["array"]
    BY <2>1, MapsAreNot
  <2> HIDE DEF r
  <2>4. ReadAny(r, "map") = t
    BY <1>10 DEF ReadAny
  <2>5. Inside(t) = N
    BY <1>6, <1>9, <2>1, <2>2, <2>3 DEF Inside
  <2> QED
    BY <2>1, <2>2, <2>4, <2>5
<1> HIDE DEF r
<1>12. PICK s0 : s0 = [reader |-> r, left |-> 1]
  OBVIOUS
<1>13. PICK mid : mid = [k \in 0 .. N |-> [reader |-> Place(bytes, f[k]), left |-> N - k]]
  OBVIOUS
<1>14. SkipStep(s0) = mid[0]
  <2>1. SkipStep(s0) = [reader |-> t.reader, left |-> 1 - 1 + Inside(t)]
    BY <1>9, <1>11, <1>12 DEF SkipStep, PassOne
  <2>2. mid[0] = [reader |-> Place(bytes, 1), left |-> N - 0]
    BY <1>8, <1>13
  <2> QED
    BY <1>11, <2>1, <2>2
<1>15. ASSUME NEW k \in 1 .. N
       PROVE  SkipStep(mid[k - 1]) = mid[k]
  <2>1. k - 1 \in 0 .. N /\ k \in 0 .. N /\ N - (k - 1) # 0 /\ N - (k - 1) - 1 + 0 = N - k
    OBVIOUS
  <2>2. PICK m : m = mid[k - 1]
    OBVIOUS
  <2>3. m.reader = Place(bytes, f[k - 1]) /\ m.left = N - (k - 1)
    BY <1>13, <2>1, <2>2
  <2>4. PICK u : u = ReadAny(m.reader, TypeOf(m.reader))
    OBVIOUS
  <2>5. u.reader = Place(bytes, f[k]) /\ Inside(u) = 0
    BY <1>8, <2>3, <2>4 DEF ScalarAt
  <2>6. SkipStep(m) = [reader |-> u.reader, left |-> m.left - 1 + Inside(u)]
    BY <1>9, <2>1, <2>3, <2>4 DEF SkipStep, PassOne
  <2>7. mid[k] = [reader |-> Place(bytes, f[k]), left |-> N - k]
    BY <1>13, <2>1
  <2> QED
    BY <2>1, <2>2, <2>3, <2>5, <2>6, <2>7
<1>16. SkipStep(mid[N]) = mid[N] /\ mid[N].reader = Place(bytes, Len(bytes))
  <2>1. mid[N].left = 0 /\ mid[N].reader = Place(bytes, f[N])
    BY <1>13
  <2> QED
    BY <1>8, <2>1 DEF SkipStep
<1>17. PICK L \in Nat : L = Len(bytes)
  BY <1>3
<1>18. L >= N + 1
  BY <1>1, <1>3, <1>6, <1>17
<1>19. PICK g : g = [k \in 0 .. L + 1 |-> IF k = 0 THEN s0
                                         ELSE IF k <= N + 1 THEN mid[k - 1] ELSE mid[N]]
  OBVIOUS
<1>20. ASSUME NEW k \in 1 .. L + 1
       PROVE  g[k] = SkipStep(g[k - 1])
  <2>1. k \in 0 .. L + 1 /\ k - 1 \in 0 .. L + 1
    OBVIOUS
  <2>2. CASE k = 1
    <3>1. g[1] = mid[0] /\ g[0] = s0
      BY <1>19
    <3> QED
      BY <1>14, <2>2, <3>1
  <2>3. CASE k > 1 /\ k <= N + 1
    <3>1. PICK j \in 1 .. N : j = k - 1
      BY <2>3
    <3>2. g[k] = mid[j] /\ g[k - 1] = mid[j - 1]
      BY <1>19, <2>1, <2>3, <3>1
    <3> QED
      BY <1>15, <3>2
  <2>4. CASE k > N + 1
    <3>1. g[k] = mid[N]
      BY <1>19, <2>1, <2>4
    <3>2. g[k - 1] = mid[N]
      BY <1>19, <2>1, <2>4
    <3> QED
      BY <1>16, <3>1, <3>2
  <2> QED
    BY <2>2, <2>3, <2>4
<1>21. SkipValue(r) = g[L + 1].reader
  <2>1. g[0] = [reader |-> r, left |-> 1]
    BY <1>12, <1>19
  <2> QED
    BY <1>3, <1>9, <1>17, <1>20, <2>1, SkipGives
<1>22. g[L + 1] = mid[N]
  BY <1>18, <1>19
<1> QED
  BY <1>3, <1>5, <1>16, <1>21, <1>22 DEF r

-----------------------------------------------------------------------------
(* The answers *)

\* An answer under way: a map of n pairs that starts with "ok", and k values.
Begun(resp, n, k) ==
  \E b \in BOOLEAN, rest \in Seq(Nat) :
    AreItems(rest, k) /\ resp = MapHeader(n) \o ((Word("ok") \o BoolVal(b)) \o rest)

LEMMA Regrouped ==
  ASSUME NEW a \in Seq(Nat), NEW b \in Seq(Nat), NEW c \in Seq(Nat)
  PROVE  (a \o b) \o c = a \o (b \o c)
BY ConcatAssociative

LEMMA WordItem ==
  ASSUME NEW w \in Words
  PROVE  <<WireName[w]>> \in Seq(Nat) /\ IsItem(Word(w))
<1>1. WireName[w] \in Nat
  <2>1. \A x \in Words : WireName[x] \in Byte
    BY SerialConsoleAssumption
  <2> QED
    BY <2>1, ByteIsNat
<1>2. PICK s \in Seq(Nat) : s = <<WireName[w]>>
  <2>1. <<WireName[w]>> \in Seq(Nat)
    BY <1>1
  <2> QED
    BY <2>1
<1>3. IsItem(Str(s))
  BY StrItem
<1> QED
  BY <1>2, <1>3 DEF Word

LEMMA HeaderIsSeq ==
  ASSUME NEW n \in Nat, n < 16
  PROVE  MapHeader(n) \in Seq(Nat)
BY DEF MapHeader

LEMMA OkIsSeq ==
  ASSUME NEW b \in BOOLEAN
  PROVE  Word("ok") \in Seq(Nat) /\ BoolVal(b) \in Seq(Nat) /\ Word("ok") \o BoolVal(b) \in Seq(Nat)
<1>1. IsItem(Word("ok")) /\ IsItem(BoolVal(b))
  BY WordItem, BoolItem, WordsAre
<1> QED
  BY <1>1 DEF IsItem

LEMMA Begins ==
  ASSUME NEW n \in Nat, n < 16, NEW b \in BOOLEAN
  PROVE  Begun(MapHeader(n) \o (Word("ok") \o BoolVal(b)), n, 0)
<1>1. PICK s \in Seq(Nat) : s = Word("ok") \o BoolVal(b)
  BY OkIsSeq
<1>2. s \o << >> = s
  OBVIOUS
<1>3. MapHeader(n) \o s = MapHeader(n) \o (s \o << >>)
  BY <1>2
<1> QED
  BY <1>1, <1>3, NoItems, EmptySeq DEF Begun

LEMMA BeginsWithout ==
  ASSUME NEW n \in Nat, n < 16, NEW b \in BOOLEAN
  PROVE  Begun(MapHeader(n) \o Word("ok") \o BoolVal(b), n, 0)
<1>1. PICK h \in Seq(Nat) : h = MapHeader(n)
  BY HeaderIsSeq
<1>2. (h \o Word("ok")) \o BoolVal(b) = h \o (Word("ok") \o BoolVal(b))
  BY SMTT(30), OkIsSeq, Regrouped
<1> QED
  BY <1>1, <1>2, Begins

LEMMA Continues ==
  ASSUME NEW resp, NEW n \in Nat, n < 16, NEW k \in Nat, Begun(resp, n, k),
         NEW t, NEW m \in Nat, AreItems(t, m)
  PROVE  Begun(resp \o t, n, k + m)
<1>1. PICK b \in BOOLEAN, rest \in Seq(Nat) :
        AreItems(rest, k) /\ resp = MapHeader(n) \o ((Word("ok") \o BoolVal(b)) \o rest)
  BY DEF Begun
<1>2. PICK h \in Seq(Nat) : h = MapHeader(n)
  BY HeaderIsSeq
<1>3. PICK ok \in Seq(Nat) : ok = Word("ok") \o BoolVal(b)
  BY OkIsSeq
<1>4. rest \in Seq(Nat) /\ t \in Seq(Nat)
  BY <1>1 DEF AreItems
<1>5. ok \o rest \in Seq(Nat)
  BY <1>4
<1>6. (h \o (ok \o rest)) \o t = h \o ((ok \o rest) \o t)
  <2>1. PICK s \in Seq(Nat) : s = ok \o rest
    BY <1>5
  <2>2. (h \o s) \o t = h \o (s \o t)
    BY ZenonT(40), <1>4, Regrouped
  <2> QED
    BY <2>1, <2>2
<1>7. (ok \o rest) \o t = ok \o (rest \o t)
  BY <1>4, Regrouped
<1>8. AreItems(rest \o t, k + m) /\ rest \o t \in Seq(Nat)
  BY <1>1, <1>4, ItemsJoin
<1>9. resp \o t = MapHeader(n) \o ((Word("ok") \o BoolVal(b)) \o (rest \o t))
  BY <1>1, <1>2, <1>3, <1>6, <1>7
<1> QED
  BY <1>8, <1>9 DEF Begun

LEMMA OneMoreSaid ==
  ASSUME NEW resp, NEW n \in Nat, n < 16, NEW k \in Nat, Begun(resp, n, k), NEW t, IsItem(t)
  PROVE  Begun(resp \o t, n, k + 1)
BY OneItem, Continues

\* What the host makes of an answer.
Decodes(resp) ==
  LET pairs == ReadMapHeader(Reader(resp))
      key   == ReadStr(pairs.reader)
      all   == SkipValue(Reader(resp))
  IN  /\ key.reader.ok /\ key.val = <<WireName["ok"]>>
      /\ ReadBool(key.reader).reader.ok
      /\ all.ok /\ AtEnd(all)

LEMMA BoolIsRead ==
  ASSUME NEW bytes \in Seq(Nat), NEW off \in Nat, NEW b \in BOOLEAN, IsAt(bytes, off, BoolVal(b))
  PROVE  ReadBool(Place(bytes, off)).reader.ok
<1> DEFINE r == Place(bytes, off)
<1>1. PICK tag \in Nat : tag = IF b THEN 195 ELSE 194
  OBVIOUS
<1>2. tag \in TagsOf["bool"] /\ "bool" \in DOMAIN TagsOf
  BY <1>1, TagsAre
<1>3. PICK s \in Seq(Nat) : s = BoolVal(b) /\ s # << >> /\ s[1] = tag
  <2>1. <<tag>> \in Seq(Nat) /\ <<tag>> # << >> /\ <<tag>>[1] = tag /\ BoolVal(b) = <<tag>>
    BY <1>1 DEF BoolVal
  <2> QED
    BY <2>1
<1>4. TypeOf(r) = "bool"
  BY <1>2, <1>3, TypeAt
<1>5. PICK end : ScalarAt(bytes, off, end)
  BY BoolItem DEF IsItem
<1> HIDE DEF r
<1>6. ReadAny(r, "bool") = ReadBool(r)
  BY DEF ReadAny
<1>7. ReadBool(r).reader = Place(bytes, end)
  BY <1>4, <1>5, <1>6 DEF ScalarAt, r
<1> QED
  BY <1>7 DEF r, Place

LEMMA AllIsDecoded ==
  ASSUME NEW resp, NEW n \in Nat, 1 <= n, n < 16, Begun(resp, n, 2 * n - 2)
  PROVE  Decodes(resp)
<1>1. PICK b \in BOOLEAN, rest \in Seq(Nat) :
        /\ AreItems(rest, 2 * n - 2)
        /\ resp = MapHeader(n) \o ((Word("ok") \o BoolVal(b)) \o rest)
  BY DEF Begun
<1>2. PICK ok \in Seq(Nat) : ok = Word("ok")
  BY OkIsSeq
<1>3. PICK bool \in Seq(Nat) : bool = BoolVal(b)
  BY OkIsSeq
<1>4. ok \o bool \in Seq(Nat) /\ rest \in Seq(Nat)
  BY <1>1 DEF AreItems
<1>5. AreItems((ok \o bool) \o rest, 2 * n)
  <2>1. AreItems(ok, 1) /\ IsItem(bool)
    BY <1>2, <1>3, WordItem, WordsAre, BoolItem, OneItem
  <2>2. AreItems(ok \o bool, 1 + 1)
    BY <2>1, OneMore
  <2>3. 1 + 1 \in Nat /\ 2 * n - 2 \in Nat /\ (1 + 1) + (2 * n - 2) = 2 * n
    OBVIOUS
  <2>4. AreItems((ok \o bool) \o rest, (1 + 1) + (2 * n - 2))
    BY <1>1, <2>2, <2>3, ItemsJoin
  <2> QED
    BY <2>3, <2>4
<1>6. PICK s : s = (ok \o bool) \o rest
  OBVIOUS
<1>7. /\ resp \in Seq(Nat)
      /\ IsAt(resp, 0, MapHeader(n)) /\ IsAt(resp, 1, s)
      /\ SkipValue(Place(resp, 0)) = Place(resp, Len(resp))
  <2>1. AreItems(s, 2 * n) /\ resp = MapHeader(n) \o s
    BY <1>1, <1>2, <1>3, <1>5, <1>6
  <2> QED
    BY <2>1, SkipMap
<1>8. ReadMapHeader(Place(resp, 0)).reader = Place(resp, 1)
  BY <1>7, MapIsRead
<1>9. PICK one \in Nat : one = 1
  OBVIOUS
<1>10. IsAt(resp, one, ok) /\ IsAt(resp, one + Len(ok), bool) /\ one + Len(ok) \in Nat
  <2>1. IsAt(resp, one, ok \o bool)
    BY <1>4, <1>6, <1>7, <1>9, AtParts
  <2> QED
    BY <1>7, <2>1, AtParts
<1>11. PICK w \in Seq(Nat) : w = <<WireName["ok"]>>
  BY WordItem, WordsAre
<1>12. ok = Str(w)
  BY <1>2, <1>11 DEF Word
<1>13. /\ ReadStr(Place(resp, one)).reader = Place(resp, one + Len(ok))
       /\ ReadStr(Place(resp, one)).val = w
  <2>1. ReadStr(Place(resp, one)) =
          [reader |-> Place(resp, one + Len(Str(w))), tag |-> Str(w)[1], val |-> w]
    BY ZenonT(40), <1>7, <1>10, <1>12, StrThen
  <2> QED
    BY <1>12, <2>1
<1>14. ReadBool(Place(resp, one + Len(ok))).reader.ok
  BY <1>3, <1>7, <1>10, BoolIsRead
<1>15. \A off : Place(resp, off).ok /\ Place(resp, off).off = off /\ Place(resp, off).buf = resp
  BY DEF Place
<1>16. Reader(resp) = Place(resp, 0)
  BY DEF Reader, Place
<1> QED
  BY <1>7, <1>8, <1>9, <1>11, <1>13, <1>14, <1>15, <1>16 DEF Decodes, AtEnd

LEMMA BytesAreNat ==
  ASSUME NEW s \in Seq(Byte)
  PROVE  s \in Seq(Nat)
<1>1. \A i \in 1 .. Len(s) : s[i] \in Nat
  BY ByteIsNat
<1> QED
  BY <1>1, SeqAsFunction

LEMMA IntFieldsListed ==
  /\ Len(IntFields) = 8
  /\ \A i \in 1 .. 8 : IntFields[i] \in DOMAIN IntWidth /\ IntFields[i] \in Words
BY WordsAre DEF IntFields, IntWidth, Fields

LEMMA BeginsOk ==
  ASSUME NEW n \in Nat, n < 16
  PROVE  Begun(MapHeader(n) \o OkTrue, n, 0)
<1>1. PICK b \in BOOLEAN : b = TRUE
  OBVIOUS
<1>2. Begun(MapHeader(n) \o (Word("ok") \o BoolVal(b)), n, 0)
  BY Begins
<1> QED
  BY <1>1, <1>2 DEF OkTrue

LEMMA BeginsRefusal ==
  ASSUME NEW n \in Nat, n < 16
  PROVE  Begun(MapHeader(n) \o Word("ok") \o BoolVal(FALSE), n, 0)
<1>1. PICK b \in BOOLEAN : b = FALSE
  OBVIOUS
<1>2. Begun(MapHeader(n) \o Word("ok") \o BoolVal(b), n, 0)
  BY BeginsWithout
<1> QED
  BY <1>1, <1>2

LEMMA FourMoreSaid ==
  ASSUME NEW r, Begun(r, 11, 16),
         NEW s, IsItem(s), NEW t, IsItem(t), NEW u, IsItem(u), NEW v, IsItem(v)
  PROVE  Begun(r \o s \o t \o u \o v, 11, 20)
<1>1. PICK n \in Nat : n = 11 /\ n < 16
  OBVIOUS
<1>2. PICK k \in Nat : k = 16
  OBVIOUS
<1>3. PICK l \in Nat : l = k + 1
  OBVIOUS
<1>4. PICK m \in Nat : m = l + 1
  OBVIOUS
<1>5. PICK o \in Nat : o = m + 1
  OBVIOUS
<1>6. Begun(r \o s, n, l)
  BY <1>1, <1>2, <1>3, OneMoreSaid
<1>7. Begun(r \o s \o t, n, m)
  BY <1>1, <1>4, <1>6, OneMoreSaid
<1>8. Begun(r \o s \o t \o u, n, o)
  BY <1>1, <1>5, <1>7, OneMoreSaid
<1>9. Begun(r \o s \o t \o u \o v, n, o + 1)
  BY <1>1, <1>8, OneMoreSaid
<1>10. o + 1 = 20
  BY <1>2, <1>3, <1>4, <1>5
<1> QED
  BY <1>1, <1>9, <1>10

LEMMA OutgoingType ==
  ASSUME NEW c \in Configs, NEW f \in DOMAIN IntWidth
  PROVE  Outgoing(c, f) \in Seq(Nat) /\ Len(Outgoing(c, f)) \in {1, 2, 4}
<1>1. PICK n \in {1, 4} : n = IntWidth[f]
  BY IntFieldsAre
<1>2. c[f] \in [1 .. n -> Byte]
  BY <1>1 DEF Configs, IsConfig
<1>3. c[f] \in Seq(Byte) /\ Len(c[f]) = n
  BY <1>2, BytesAreSeq
<1>4. PICK fill \in Byte : fill = IF c[f][1] >= 128 THEN 255 ELSE 0
  BY DEF Byte
<1>5. PICK w \in [1 .. 8 -> Byte] : w = Widened(c[f], fill)
  <2>1. PICK s \in Seq(Byte) : s = c[f] /\ Len(s) = n
    BY <1>3
  <2>2. Len(s) \in 1 .. 8
    BY <2>1
  <2>3. Widened(s, fill) \in [1 .. 8 -> Byte]
    BY <2>2, WidenedType
  <2> QED
    BY <2>1, <2>3
<1>6. w \in Seq(Byte) /\ Len(w) = 8
  BY BytesAreSeq
<1>7. SubSeq(w, 5, 5 + 4 - 1) \in Seq(Byte) /\ Len(SubSeq(w, 5, 5 + 4 - 1)) = 4
  BY <1>6, SubSeqType
<1>8. CASE f = "txp_dbm"
  <2>1. Outgoing(c, f) = SubSeq(w, 5, 5 + 4 - 1)
    BY <1>4, <1>5, <1>8 DEF Outgoing
  <2> QED
    BY <1>7, <2>1, BytesAreNat
<1>9. CASE f # "txp_dbm"
  <2>1. f # "display_name"
    BY IntFieldsAre
  <2>2. Outgoing(c, f) = c[f]
    BY <1>9, <2>1 DEF Outgoing
  <2> QED
    BY <1>3, <2>2, BytesAreNat
<1> QED
  BY <1>8, <1>9

LEMMA PairOfInt ==
  ASSUME NEW c \in Configs, NEW i \in 1 .. 8
  PROVE  IsItem(Word(IntFields[i])) /\ IsItem(Uint(Outgoing(c, IntFields[i])))
<1>1. IntFields[i] \in DOMAIN IntWidth /\ IntFields[i] \in Words
  BY IntFieldsListed
<1> QED
  BY <1>1, WordItem, OutgoingType, UintItem

\* The integer fields of an answer, a key and a value each.
LEMMA GetConfigBegins ==
  ASSUME NEW c \in Configs
  PROVE  Begun(HandleGetConfig(c), 11, 20)
<1> DEFINE K(i) == Word(IntFields[i])
           V(i) == Uint(Outgoing(c, IntFields[i]))
           Is(f) == f = [i \in 0 .. Len(IntFields) |->
                           IF i = 0 THEN << >> ELSE f[i - 1] \o K(i) \o V(i)]
           F == [i \in 1 .. 8 |-> [s \in Seq(Nat) |-> s \o K(i) \o V(i)]]
           ints == CHOOSE f : Is(f)
<1>1. HandleGetConfig(c) = MapHeader(11) \o OkTrue \o ints[8] \o Word("batt_mult")
                             \o Float32(c.batt_mult) \o Word("display_name")
                             \o Str(Outgoing(c, "display_name"))
  BY IntFieldsListed DEF HandleGetConfig
<1>2. \A i \in 1 .. 8 : IsItem(K(i)) /\ IsItem(V(i))
  BY PairOfInt
<1> HIDE DEF K, V
<1>3. \A i \in 1 .. 8 : K(i) \in Seq(Nat) /\ V(i) \in Seq(Nat)
  BY <1>2 DEF IsItem
<1>4. F \in [1 .. 8 -> [Seq(Nat) -> Seq(Nat)]]
  BY <1>3
<1>5. \A i \in 1 .. 8, s \in Seq(Nat) : F[i][s] = s \o K(i) \o V(i)
  OBVIOUS
<1> HIDE DEF F
<1>6. PICK e \in Seq(Nat) : e = << >>
  <2>1. << >> \in Seq(Nat)
    OBVIOUS
  <2> QED
    BY <2>1
<1>7. PICK n \in Nat : n = 8
  OBVIOUS
<1>8. PICK f : IsRun(f, Seq(Nat), n, e, F)
  BY <1>4, <1>7, RunExists
<1>9. Is(f)
  <2>1. f = [i \in 0 .. n |-> f[i]] /\ \A i \in 0 .. n : f[i] \in Seq(Nat)
    BY <1>8 DEF IsRun
  <2>2. ASSUME NEW i \in 1 .. n
        PROVE  f[i] = f[i - 1] \o K(i) \o V(i)
    <3>1. f[i] = F[i][f[i - 1]] /\ i - 1 \in 0 .. n
      BY <1>8 DEF IsRun
    <3> QED
      BY <1>5, <1>7, <2>1, <3>1
  <2>3. \A i \in 0 .. n : i = 0 \/ i \in 1 .. n
    OBVIOUS
  <2>4. f[0] = e
    BY <1>8 DEF IsRun
  <2>5. \A i \in 0 .. n : f[i] = IF i = 0 THEN << >> ELSE f[i - 1] \o K(i) \o V(i)
    BY <1>6, <2>2, <2>3, <2>4
  <2> QED
    BY <1>7, <2>1, <2>5, IntFieldsListed
<1>10. Is(ints)
  BY <1>9
<1> HIDE DEF ints
<1>11. \A i \in 0 .. 8 : ints[i] = IF i = 0 THEN << >> ELSE ints[i - 1] \o K(i) \o V(i)
  BY <1>10, IntFieldsListed
<1> DEFINE G == {i \in 0 .. n : AreItems(ints[i], 2 * i)}
<1>12. 0 \in G
  BY <1>11, NoItems
<1>13. ASSUME NEW i \in 1 .. n, i - 1 \in G
       PROVE  i \in G
  <2>1. i \in 0 .. n /\ i \in 1 .. 8 /\ i # 0 /\ i \in 0 .. 8
    BY <1>7
  <2>2. PICK m \in Nat : m = 2 * (i - 1)
    OBVIOUS
  <2>3. AreItems(ints[i - 1], m)
    BY <1>13, <2>2
  <2>4. PICK s : s = ints[i - 1] \o K(i)
    OBVIOUS
  <2>5. PICK k \in Nat : k = m + 1
    OBVIOUS
  <2>6. AreItems(s, k)
    BY <1>2, <2>1, <2>3, <2>4, <2>5, OneMore
  <2>7. AreItems(s \o V(i), k + 1)
    BY <1>2, <2>1, <2>6, OneMore
  <2>8. k + 1 = 2 * i
    BY <2>2, <2>5
  <2>9. ints[i] = s \o V(i)
    BY <1>11, <2>1, <2>4
  <2> QED
    BY <2>1, <2>7, <2>8, <2>9
<1> HIDE DEF G
<1>14. 8 \in G
  <2>1. \A i \in 0 .. n : i \in G
    BY <1>12, <1>13, UpTo
  <2> QED
    BY <1>7, <2>1
<1>15. AreItems(ints[8], 16)
  BY <1>14 DEF G
<1>16. PICK r0 : r0 = MapHeader(11) \o OkTrue
  OBVIOUS
<1>17. Begun(r0, 11, 0)
  BY <1>16, BeginsOk
<1>18. PICK r1 : r1 = r0 \o ints[8]
  OBVIOUS
<1>19. Begun(r1, 11, 16)
  <2>1. PICK m \in Nat : m = 16
    OBVIOUS
  <2>2. PICK h \in Nat : h = 11 /\ h < 16
    OBVIOUS
  <2>3. PICK k \in Nat : k = 0
    OBVIOUS
  <2>4. AreItems(ints[8], m) /\ Begun(r0, h, k)
    BY <1>15, <1>17, <2>1, <2>2, <2>3
  <2>5. Begun(r0 \o ints[8], h, k + m)
    BY <2>2, <2>4, Continues
  <2>6. k + m = 16
    BY <2>1, <2>3
  <2> QED
    BY <1>18, <2>2, <2>5, <2>6
<1>20. IsItem(Word("batt_mult")) /\ IsItem(Word("display_name"))
  <2>1. "batt_mult" \in Words /\ "display_name" \in Words
    BY WordsAre, IntFieldsAre
  <2> QED
    BY <2>1, WordItem
<1>21. IsItem(Float32(c.batt_mult))
  <2>1. c.batt_mult \in [1 .. 4 -> Byte]
    BY DEF Configs, IsConfig
  <2> QED
    BY <2>1, BytesAreSeq, BytesAreNat, FloatItem
<1>22. IsItem(Str(Outgoing(c, "display_name")))
  <2>1. c.display_name \in Seq(Byte)
    BY DEF Configs, IsConfig
  <2>2. CString(c.display_name) \in Seq(Byte)
    BY <2>1, CStringEnds
  <2>3. Outgoing(c, "display_name") = CString(c.display_name)
    BY DEF Outgoing
  <2> QED
    BY <2>2, <2>3, BytesAreNat, StrItem
<1>23. Begun(r1 \o Word("batt_mult") \o Float32(c.batt_mult) \o Word("display_name")
               \o Str(Outgoing(c, "display_name")), 11, 20)
  BY <1>19, <1>20, <1>21, <1>22, FourMoreSaid
<1> QED
  BY <1>1, <1>16, <1>18, <1>23

LEMMA ErrorBegins ==
  ASSUME NEW w \in Words
  PROVE  Begun(ErrorResponse(w), 2, 2)
<1>1. PICK r : r = MapHeader(2) \o Word("ok") \o BoolVal(FALSE)
  OBVIOUS
<1>2. Begun(r, 2, 0)
  <2>1. PICK n \in Nat : n = 2 /\ n < 16
    OBVIOUS
  <2>2. Begun(MapHeader(n) \o Word("ok") \o BoolVal(FALSE), n, 0)
    BY <2>1, BeginsRefusal
  <2> QED
    BY <1>1, <2>1, <2>2
<1>3. IsItem(Word("err")) /\ IsItem(Word(w))
  BY WordItem, WordsAre
<1>4. Begun(r \o Word("err"), 2, 1)
  BY <1>2, <1>3, OneMoreSaid
<1>5. Begun(r \o Word("err") \o Word(w), 2, 2)
  BY <1>3, <1>4, OneMoreSaid
<1> QED
  BY <1>1, <1>5 DEF ErrorResponse

LEMMA PingBegins == Begun(HandlePing, 3, 4)
<1>1. PICK r : r = MapHeader(3) \o OkTrue
  OBVIOUS
<1>2. Begun(r, 3, 0)
  BY <1>1, BeginsOk
<1>3. IsItem(Word("identity_hash")) /\ IsItem(Word("version")) /\ IsItem(Word(Version))
  BY WordItem, WordsAre
<1>4. IsItem(Bin(IdentityHash))
  <2>1. IdentityHash \in Seq(Byte)
    BY SerialConsoleAssumption
  <2> QED
    BY <2>1, BytesAreNat, BinItem
<1>5. Begun(r \o Word("identity_hash"), 3, 1)
  BY <1>2, <1>3, OneMoreSaid
<1>6. Begun(r \o Word("identity_hash") \o Bin(IdentityHash), 3, 2)
  BY <1>4, <1>5, OneMoreSaid
<1>7. Begun(r \o Word("identity_hash") \o Bin(IdentityHash) \o Word("version"), 3, 3)
  BY <1>3, <1>6, OneMoreSaid
<1>8. Begun(r \o Word("identity_hash") \o Bin(IdentityHash) \o Word("version")
              \o Word(Version), 3, 4)
  BY <1>3, <1>7, OneMoreSaid
<1> QED
  BY <1>1, <1>8 DEF HandlePing

LEMMA SetBegins ==
  ASSUME NEW n \in Nat
  PROVE  Begun(MapHeader(2) \o OkTrue \o Word("set") \o Uint(Be16(n)), 2, 2)
<1>1. PICK r : r = MapHeader(2) \o OkTrue
  OBVIOUS
<1>2. Begun(r, 2, 0)
  BY <1>1, BeginsOk
<1>3. IsItem(Word("set"))
  BY WordItem, WordsAre
<1>4. IsItem(Uint(Be16(n)))
  <2>1. Be16(n) \in Seq(Nat) /\ Len(Be16(n)) = 2
    BY DEF Be16
  <2> QED
    BY <2>1, UintItem
<1>5. Begun(r \o Word("set"), 2, 1)
  BY <1>2, <1>3, OneMoreSaid
<1>6. Begun(r \o Word("set") \o Uint(Be16(n)), 2, 2)
  BY <1>4, <1>5, OneMoreSaid
<1> QED
  BY <1>1, <1>6

LEMMA RepliesAreDecoded ==
  ASSUME NEW c \in Configs, NEW resp, IsReply(resp, c)
  PROVE  Decodes(resp) /\ resp \in Seq(Nat)
<1>1. \E n \in Nat : 1 <= n /\ n < 16 /\ Begun(resp, n, 2 * n - 2)
  <2>1. CASE \E w \in Words : resp = ErrorResponse(w)
    <3>1. Begun(resp, 2, 2 * 2 - 2)
      BY <2>1, ErrorBegins
    <3> QED
      BY <3>1
  <2>2. CASE resp = HandlePing
    <3>1. Begun(resp, 3, 2 * 3 - 2)
      BY <2>2, PingBegins
    <3> QED
      BY <3>1
  <2>3. CASE resp = HandleGetConfig(c)
    <3>1. Begun(resp, 11, 2 * 11 - 2)
      BY <2>3, GetConfigBegins
    <3> QED
      BY <3>1
  <2>4. CASE resp = MapHeader(1) \o OkTrue
    <3>1. Begun(resp, 1, 2 * 1 - 2)
      BY <2>4, BeginsOk
    <3> QED
      BY <3>1
  <2>5. CASE \E n \in Nat : resp = MapHeader(2) \o OkTrue \o Word("set") \o Uint(Be16(n))
    <3>1. Begun(resp, 2, 2 * 2 - 2)
      BY <2>5, SetBegins
    <3> QED
      BY <3>1
  <2> QED
    BY <2>1, <2>2, <2>3, <2>4, <2>5 DEF IsReply
<1>2. PICK n \in Nat : 1 <= n /\ n < 16 /\ Begun(resp, n, 2 * n - 2)
  BY <1>1
<1>3. Decodes(resp)
  BY <1>2, AllIsDecoded
<1>4. PICK b \in BOOLEAN, rest \in Seq(Nat) :
        /\ rest \in Seq(Nat)
        /\ resp = MapHeader(n) \o ((Word("ok") \o BoolVal(b)) \o rest)
  BY <1>2 DEF Begun, AreItems
<1>5. (Word("ok") \o BoolVal(b)) \in Seq(Nat) /\ MapHeader(n) \in Seq(Nat)
  BY <1>2, OkIsSeq, HeaderIsSeq
<1> QED
  BY <1>3, <1>4, <1>5

LEMMA FramedParts ==
  ASSUME NEW resp \in Seq(Nat)
  PROVE  /\ SubSeq(Framed(resp), 3, Len(Framed(resp))) = resp
         /\ SubSeq(Framed(resp), 1, 2) = Be16(Len(resp))
<1>1. PICK h \in Seq(Nat) : h = Be16(Len(resp)) /\ Len(h) = 2
  <2>1. PICK n \in Nat : n = Len(resp)
    OBVIOUS
  <2>2. Be16(n) \in Seq(Nat) /\ Len(Be16(n)) = 2
    BY DEF Be16
  <2> QED
    BY <2>1, <2>2
<1>2. PICK f \in Seq(Nat) : f = h \o resp /\ Len(f) = Len(h) + Len(resp)
  <2>1. h \o resp \in Seq(Nat) /\ Len(h \o resp) = Len(h) + Len(resp)
    OBVIOUS
  <2> QED
    BY <2>1
<1>3. Len(f) = 2 + Len(resp)
  BY <1>1, <1>2
<1>4. IsAt(f, 0, f)
  BY DEF IsAt
<1>5. IsAt(f, 0, h) /\ IsAt(f, 2, resp)
  <2>1. PICK off \in Nat : off = 0
    OBVIOUS
  <2>2. IsAt(f, off, h \o resp)
    BY <1>2, <1>4, <2>1
  <2>3. IsAt(f, off, h) /\ IsAt(f, off + Len(h), resp)
    BY <1>1, <2>2, AtParts
  <2> QED
    BY <1>1, <2>1, <2>3
<1>6. SubSeq(f, 0 + 1, 0 + Len(h)) = h
  BY <1>5, SliceIs
<1>7. SubSeq(f, 2 + 1, 2 + Len(resp)) = resp
  BY <1>5, SliceIs
<1>8. 0 + 1 = 1 /\ 0 + Len(h) = 2 /\ 2 + 1 = 3 /\ 2 + Len(resp) = Len(f)
  BY <1>1, <1>3
<1>9. SubSeq(f, 1, 2) = h /\ SubSeq(f, 3, Len(f)) = resp
  BY <1>6, <1>7, <1>8
<1> QED
  BY <1>1, <1>2, <1>9 DEF Framed

LEMMA AnswersAreDecoded ==
  ASSUME AnswerInv
  PROVE  AnswersDecode
<1> SUFFICES ASSUME output.by # "none"
             PROVE  /\ Decodes(Answer)
                    /\ output.by = "serial" => SubSeq(output.bytes, 1, 2) = Be16(Len(Answer))
  BY DEF AnswersDecode, Decodes
<1>0. PICK c \in Configs :
        \E resp : /\ IsReply(resp, c)
                  /\ \/ output = [by |-> "serial", bytes |-> Framed(resp)]
                     \/ output = [by |-> "ble", bytes |-> resp]
  BY DEF AnswerInv
<1>1. PICK resp :
        /\ IsReply(resp, c)
        /\ \/ output = [by |-> "serial", bytes |-> Framed(resp)]
           \/ output = [by |-> "ble", bytes |-> resp]
  BY <1>0
<1>2. Decodes(resp) /\ resp \in Seq(Nat)
  BY <1>1, RepliesAreDecoded
<1>3. CASE output = [by |-> "serial", bytes |-> Framed(resp)]
  <2>1. output.by = "serial" /\ output.bytes = Framed(resp)
    BY <1>3
  <2>2. Answer = resp
    BY <1>2, <2>1, FramedParts DEF Answer
  <2> QED
    BY <1>2, <2>1, <2>2, FramedParts
<1>4. CASE output = [by |-> "ble", bytes |-> resp]
  <2>1. output.by = "ble" /\ output.bytes = resp
    BY <1>4
  <2>2. Answer = resp
    BY <2>1 DEF Answer
  <2> QED
    BY <1>2, <2>1, <2>2
<1> QED
  BY <1>1, <1>3, <1>4

\* However garbled a request was, its answer is one map with "ok" first, which
\* a host can decode and which ends where the frame says
\* (ConfigProtocol.cpp:27-191, SerialConsole.cpp:32-41).
THEOREM AnswersCanBeDecoded ==
  ASSUME CastsToFloat32
  PROVE  Spec => []AnswersDecode
<1>1. TypeInv => AnswersDecode
  BY AnswersAreDecoded DEF TypeInv
<1> QED
  BY <1>1, TypeHolds, PTL

-----------------------------------------------------------------------------
(* The beacon *)

\* An array under way, x, of which the elements t[1] to t[k] start at o[1] to
\* o[k], and the next at o[k + 1].
IsLaid(o, x, t, k) ==
  /\ x \in Seq(Nat) /\ IsAt(x, 0, ArrayHeader(9))
  /\ \A i \in 1 .. k + 1 : o[i] \in Nat
  /\ o[1] = 1 /\ o[k + 1] = Len(x)
  /\ \A i \in 1 .. k :
       t[i] \in Seq(Nat) /\ IsAt(x, o[i], t[i]) /\ o[i + 1] = o[i] + Len(t[i])

Laid(x, t, k) == \E o : IsLaid(o, x, t, k)

LEMMA StillAt ==
  ASSUME NEW x \in Seq(Nat), NEW y \in Seq(Nat), NEW off \in Nat, NEW s \in Seq(Nat),
         IsAt(x, off, s)
  PROVE  IsAt(x \o y, off, s)
<1>1. Len(x \o y) = Len(x) + Len(y) /\ \A i \in 1 .. Len(x) : (x \o y)[i] = x[i]
  OBVIOUS
<1>2. off + Len(s) <= Len(x) /\ \A j \in 1 .. Len(s) : x[off + j] = s[j]
  BY DEF IsAt
<1>3. ASSUME NEW j \in 1 .. Len(s)
      PROVE  (x \o y)[off + j] = s[j]
  <2>1. off + j \in 1 .. Len(x)
    BY <1>2
  <2> QED
    BY <1>1, <1>2, <2>1
<1>4. off + Len(s) <= Len(x \o y)
  BY <1>1, <1>2
<1> QED
  BY <1>3, <1>4 DEF IsAt

LEMMA AtItsEnd ==
  ASSUME NEW x \in Seq(Nat), NEW y \in Seq(Nat)
  PROVE  /\ x \o y \in Seq(Nat) /\ Len(x \o y) = Len(x) + Len(y)
         /\ IsAt(x \o y, Len(x), y)
<1>1. x \o y \in Seq(Nat) /\ Len(x \o y) = Len(x) + Len(y)
  OBVIOUS
<1>2. \A j \in 1 .. Len(y) : (x \o y)[Len(x) + j] = y[j]
  OBVIOUS
<1> QED
  BY <1>1, <1>2 DEF IsAt

LEMMA HeaderLength == Len(ArrayHeader(9)) = 1 /\ ArrayHeader(9) \in Seq(Nat)
<1>1. ArrayHeader(9) = <<153>>
  BY DEF ArrayHeader
<1>2. <<153>> \in Seq(Nat) /\ Len(<<153>>) = 1
  OBVIOUS
<1> QED
  BY <1>1, <1>2

LEMMA HeaderIsLaid ==
  ASSUME NEW t
  PROVE  Laid(ArrayHeader(9), t, 0)
<1>1. PICK o : o = [i \in 1 .. 1 |-> 1]
  OBVIOUS
<1>2. o[1] = 1
  BY <1>1
<1>3. PICK x \in Seq(Nat) : x = ArrayHeader(9) /\ Len(x) = 1
  BY HeaderLength
<1>4. IsAt(x, 0, x)
  BY DEF IsAt
<1>5. PICK k \in Nat : k = 0
  OBVIOUS
<1>6. o[k + 1] = 1 /\ \A i \in 1 .. k + 1 : i = 1
  BY <1>2, <1>5
<1>7. \A i \in 1 .. k : FALSE
  BY <1>5
<1>8. IsLaid(o, x, t, k)
  BY <1>2, <1>3, <1>4, <1>6, <1>7 DEF IsLaid
<1> QED
  BY <1>3, <1>5, <1>8 DEF Laid

LEMMA OneMoreLaid ==
  ASSUME NEW x, NEW t, NEW k \in Nat, Laid(x, t, k), NEW n, n = k + 1, t[n] \in Seq(Nat)
  PROVE  Laid(x \o t[n], t, n)
<1>1. PICK o : IsLaid(o, x, t, k)
  BY DEF Laid
<1>2. PICK y \in Seq(Nat) : y = t[n]
  OBVIOUS
<1>3. x \in Seq(Nat) /\ \A i \in 1 .. n : o[i] \in Nat
  BY <1>1 DEF IsLaid
<1>4. x \o y \in Seq(Nat) /\ Len(x \o y) = Len(x) + Len(y) /\ IsAt(x \o y, Len(x), y)
  BY <1>3, AtItsEnd
<1>5. PICK p : p = [i \in 1 .. n + 1 |-> IF i = n + 1 THEN Len(x \o y) ELSE o[i]]
  OBVIOUS
<1>6. p[n + 1] = Len(x \o y) /\ \A i \in 1 .. n : p[i] = o[i]
  BY <1>5
<1>7. IsAt(x \o y, 0, ArrayHeader(9))
  <2>1. IsAt(x, 0, ArrayHeader(9)) /\ ArrayHeader(9) \in Seq(Nat)
    BY <1>1, HeaderLength DEF IsLaid
  <2> QED
    BY <1>3, <2>1, StillAt
<1>8. \A i \in 1 .. n + 1 : p[i] \in Nat
  <2>1. \A i \in 1 .. n + 1 : i = n + 1 \/ i \in 1 .. n
    OBVIOUS
  <2> QED
    BY <1>3, <1>4, <1>6, <2>1
<1>9. p[1] = 1 /\ o[n] = Len(x) /\ p[n] = Len(x)
  <2>1. 1 \in 1 .. n /\ n \in 1 .. n
    OBVIOUS
  <2> QED
    BY <1>1, <1>6, <2>1 DEF IsLaid
<1>10. ASSUME NEW i \in 1 .. n
       PROVE  /\ t[i] \in Seq(Nat) /\ IsAt(x \o y, p[i], t[i])
              /\ p[i + 1] = p[i] + Len(t[i])
  <2>1. CASE i = n
    <3>1. p[i + 1] = Len(x \o y) /\ p[i] = Len(x) /\ t[i] = y
      BY <1>2, <1>6, <1>9, <2>1
    <3> QED
      BY <1>4, <3>1
  <2>2. CASE i # n
    <3>1. i \in 1 .. k /\ i \in 1 .. n /\ i + 1 \in 1 .. n
      BY <2>2
    <3>2. p[i] = o[i] /\ p[i + 1] = o[i + 1] /\ o[i] \in Nat /\ o[i + 1] \in Nat
      BY <1>3, <1>6, <3>1
    <3>3. t[i] \in Seq(Nat) /\ IsAt(x, o[i], t[i]) /\ o[i + 1] = o[i] + Len(t[i])
      BY <1>1, <3>1 DEF IsLaid
    <3>4. IsAt(x \o y, o[i], t[i])
      BY <1>3, <3>2, <3>3, StillAt
    <3> QED
      BY <3>2, <3>3, <3>4
  <2> QED
    BY <2>1, <2>2
<1>11. IsLaid(p, x \o y, t, n)
  BY <1>4, <1>6, <1>7, <1>8, <1>9, <1>10 DEF IsLaid
<1> QED
  BY <1>2, <1>11 DEF Laid

\* An array of nine elements, the first two of them written together.
LEMMA NineAreLaid ==
  ASSUME NEW t, \A i \in 1 .. 9 : t[i] \in Seq(Nat)
  PROVE  Laid(ArrayHeader(9) \o (t[1] \o t[2]) \o t[3] \o t[4] \o t[5] \o t[6] \o t[7] \o t[8]
                \o t[9], t, 9)
<1>1. PICK h \in Seq(Nat) : h = ArrayHeader(9)
  BY HeaderLength
<1>2. PICK x1 : x1 = h \o t[1]
  OBVIOUS
<1>3. Laid(x1, t, 1)
  <2>1. Laid(h, t, 0)
    BY <1>1, HeaderIsLaid
  <2> QED
    BY <1>2, <2>1, OneMoreLaid
<1>4. PICK x2 : x2 = x1 \o t[2]
  OBVIOUS
<1>5. Laid(x2, t, 2)
  BY <1>3, <1>4, OneMoreLaid
<1>6. PICK x3 : x3 = x2 \o t[3]
  OBVIOUS
<1>7. Laid(x3, t, 3)
  BY <1>5, <1>6, OneMoreLaid
<1>8. PICK x4 : x4 = x3 \o t[4]
  OBVIOUS
<1>9. Laid(x4, t, 4)
  BY <1>7, <1>8, OneMoreLaid
<1>10. PICK x5 : x5 = x4 \o t[5]
  OBVIOUS
<1>11. Laid(x5, t, 5)
  BY <1>9, <1>10, OneMoreLaid
<1>12. PICK x6 : x6 = x5 \o t[6]
  OBVIOUS
<1>13. Laid(x6, t, 6)
  BY <1>11, <1>12, OneMoreLaid
<1>14. PICK x7 : x7 = x6 \o t[7]
  OBVIOUS
<1>15. Laid(x7, t, 7)
  BY <1>13, <1>14, OneMoreLaid
<1>16. PICK x8 : x8 = x7 \o t[8]
  OBVIOUS
<1>17. Laid(x8, t, 8)
  BY <1>15, <1>16, OneMoreLaid
<1>18. Laid(x8 \o t[9], t, 9)
  BY <1>17, OneMoreLaid
<1>19. h \o (t[1] \o t[2]) = x2
  <2>1. t[1] \in Seq(Nat) /\ t[2] \in Seq(Nat)
    OBVIOUS
  <2> QED
    BY <1>2, <1>4, <2>1, Regrouped
<1> QED
  BY <1>1, <1>6, <1>8, <1>10, <1>12, <1>14, <1>16, <1>18, <1>19

\* The places of the elements are known once some satisfy their recursion.
LEMMA FromGives ==
  ASSUME NEW a, NEW g, g[1] = a, \A i \in 1 .. 8 : g[i + 1] = SkipValue(g[i]),
         NEW f, f = CHOOSE h : h = [i \in 1 .. 9 |-> IF i = 1 THEN a ELSE SkipValue(h[i - 1])]
  PROVE  \A i \in 1 .. 9 : f[i] = g[i]
<1> DEFINE Is(h) == h = [i \in 1 .. 9 |-> IF i = 1 THEN a ELSE SkipValue(h[i - 1])]
<1>1. PICK h : h = [i \in 1 .. 9 |-> g[i]]
  OBVIOUS
<1>2. Is(h)
  <2>1. ASSUME NEW i \in 1 .. 9
        PROVE  h[i] = IF i = 1 THEN a ELSE SkipValue(h[i - 1])
    <3>1. CASE i = 1
      BY <1>1, <3>1
    <3>2. CASE i # 1
      <4>1. i - 1 \in 1 .. 8 /\ i - 1 \in 1 .. 9 /\ (i - 1) + 1 = i
        BY <3>2
      <4> QED
        BY <1>1, <3>2, <4>1
    <3> QED
      BY <3>1, <3>2
  <2> QED
    BY <1>1, <2>1
<1>3. Is(f)
  BY <1>2
<1>4. \A i \in 1 .. 9 : f[i] = IF i = 1 THEN a ELSE SkipValue(f[i - 1])
  BY <1>3
<1>5. PICK n \in Nat : n = 8
  OBVIOUS
<1> DEFINE G == {k \in 0 .. n : f[k + 1] = g[k + 1]}
<1>6. 0 \in G
  <2>1. f[1] = g[1]
    BY <1>4
  <2> QED
    BY <2>1
<1>7. ASSUME NEW k \in 1 .. n, k - 1 \in G
      PROVE  k \in G
  <2>1. f[k] = g[k]
    BY <1>7
  <2>2. k + 1 \in 1 .. 9 /\ k + 1 # 1 /\ (k + 1) - 1 = k /\ k \in 1 .. 8 /\ k \in 0 .. n
    BY <1>5
  <2>3. f[k + 1] = SkipValue(f[k]) /\ g[k + 1] = SkipValue(g[k])
    BY <1>4, <2>2
  <2> QED
    BY <2>1, <2>2, <2>3
<1> HIDE DEF G
<1>8. \A k \in 0 .. n : k \in G
  BY <1>6, <1>7, UpTo
<1> SUFFICES ASSUME NEW i \in 1 .. 9
             PROVE  f[i] = g[i]
  OBVIOUS
<1>9. i - 1 \in 0 .. n /\ (i - 1) + 1 = i
  BY <1>5
<1> QED
  BY <1>8, <1>9 DEF G

LEMMA NotEmpty ==
  ASSUME NEW v \in Seq(Nat), Len(v) \in {1, 2, 4}
  PROVE  v # << >>
OBVIOUS

\* An element of each kind, as it is read.
LEMMA UintThen ==
  ASSUME NEW bytes \in Seq(Nat), NEW off \in Nat, NEW v \in Seq(Nat), Len(v) \in {1, 2, 4},
         IsAt(bytes, off, Uint(v))
  PROVE  ReadUint(Place(bytes, off)).val = Widened(v, 0)
<1>1. PICK tag : tag = Uint(v)[1]
  OBVIOUS
<1>2. Uint(v) = <<tag>> \o v /\ tag \in TagsOf["uint"] /\ Width(tag) = Len(v)
  BY <1>1, UintItem
<1>3. tag \in Nat
  BY <1>2, TagsAre
<1>4. PICK tags : tags = TagsOf["uint"]
  OBVIOUS
<1>5. PICK t : t = [reader |-> Place(bytes, off + 1 + Len(v)), tag |-> tag, val |-> v]
  OBVIOUS
<1>6. ReadTag(Place(bytes, off), tags) = t
  <2>1. tag \in tags /\ IsAt(bytes, off, <<tag>> \o v)
    BY <1>2, <1>4
  <2> QED
    BY <1>2, <1>3, <1>5, <2>1, AtTag, TagThen
<1>7. t.reader.ok /\ t.val = v
  BY <1>5 DEF Place
<1>8. Bytes(t) = v
  <2>1. v # << >>
    BY NotEmpty
  <2> QED
    BY <1>7, <2>1 DEF Bytes
<1>9. AsUint(t) = [t EXCEPT !.val = Widened(v, 0)]
  BY <1>7, <1>8 DEF AsUint
<1>10. AsUint(t).val = Widened(v, 0)
  BY <1>5, <1>9
<1> QED
  BY <1>4, <1>6, <1>10 DEF ReadUint

LEMMA FloatAt ==
  ASSUME NEW bytes \in Seq(Nat), NEW off \in Nat, NEW v \in Seq(Nat),
         IsAt(bytes, off, Float32(v))
  PROVE  TypeOf(Place(bytes, off)) = "float"
<1>1. PICK tag \in Nat : tag = 202
  OBVIOUS
<1>2. PICK s : s = <<tag>> \o v
  OBVIOUS
<1>3. s \in Seq(Nat) /\ s # << >> /\ s[1] = tag
  BY <1>2, HeadOf
<1>4. Float32(v) = s
  BY <1>1, <1>2 DEF Float32
<1>5. tag \in TagsOf["float"] /\ "float" \in DOMAIN TagsOf
  BY <1>1, TagsAre
<1>6. IsAt(bytes, off, s)
  BY <1>4
<1> QED
  BY <1>3, <1>5, <1>6, TypeAt

LEMMA FloatThen ==
  ASSUME NEW bytes \in Seq(Nat), NEW off \in Nat, NEW v \in Seq(Nat), Width(202) = Len(v),
         IsAt(bytes, off, Float32(v))
  PROVE  ReadFloat32(Place(bytes, off)).val = v
<1>1. PICK tag \in Nat : tag = 202
  OBVIOUS
<1>2. IsAt(bytes, off, <<tag>> \o v)
  BY <1>1 DEF Float32
<1>3. PICK tags : tags = TagsOf["float"]
  OBVIOUS
<1>4. tag \in tags /\ Width(tag) = Len(v)
  BY <1>1, <1>3, TagsAre
<1>5. PICK t : t = [reader |-> Place(bytes, off + 1 + Len(v)), tag |-> tag, val |-> v]
  OBVIOUS
<1>6. ReadTag(Place(bytes, off), tags) = t
  BY <1>2, <1>4, <1>5, AtTag, TagThen
<1>7. AsFloat32(t) = t
  BY <1>1, <1>5 DEF AsFloat32
<1> QED
  BY <1>3, <1>5, <1>6, <1>7 DEF ReadFloat32

LEMMA NilAt ==
  ASSUME NEW bytes \in Seq(Nat), NEW off \in Nat, IsAt(bytes, off, Nil)
  PROVE  TypeOf(Place(bytes, off)) = "nil"
<1>1. PICK tag \in Nat : tag = 192
  OBVIOUS
<1>2. PICK s \in Seq(Nat) : s = Nil /\ s # << >> /\ s[1] = tag
  <2>1. <<tag>> \in Seq(Nat) /\ <<tag>> # << >> /\ <<tag>>[1] = tag
    OBVIOUS
  <2>2. Nil = <<tag>>
    BY <1>1 DEF Nil
  <2> QED
    BY <2>1, <2>2
<1>3. tag \in TagsOf["nil"] /\ "nil" \in DOMAIN TagsOf
  BY <1>1, TagsAre
<1> QED
  BY <1>2, <1>3, TypeAt

LEMMA CountsType ==
  ASSUME NEW k \in 1 .. 6
  PROVE  Counts[k] \in Seq(Nat) /\ Len(Counts[k]) \in {1, 2, 4}
<1>1. CASE k \in 1 .. 2
  <2>1. Counts[k] \in [1 .. 2 -> Byte]
    BY <1>1, SerialConsoleAssumption
  <2> QED
    BY <2>1, BytesAreSeq, BytesAreNat
<1>2. CASE k \in 3 .. 6
  <2>1. Counts[k] \in [1 .. 4 -> Byte]
    BY <1>2, SerialConsoleAssumption
  <2> QED
    BY <2>1, BytesAreSeq, BytesAreNat
<1> QED
  BY <1>1, <1>2

\* The elements of the beacon of a configuration.
Position(c) ==
  IF c.lat_udeg # Unset \/ c.lon_udeg # Unset
  THEN <<Float32(Degrees(c.lat_udeg)), Float32(Degrees(c.lon_udeg))>>
  ELSE <<Nil, Nil>>

Elements(c) ==
  [i \in 1 .. 9 |-> CASE i \in 1 .. 2 -> Position(c)[i]
                      [] i \in 3 .. 8 -> Uint(Counts[i - 2])
                      [] i = 9        -> Str(CString(c.display_name))]

LEMMA PositionType ==
  ASSUME CastsToFloat32, NEW c \in Configs, NEW i \in 1 .. 2
  PROVE  IF c.lat_udeg # Unset \/ c.lon_udeg # Unset
         THEN \E v \in Seq(Nat) : /\ v = Degrees(Coordinates(c)[i]) /\ Len(v) = 4
                                  /\ Position(c)[i] = Float32(v)
         ELSE Position(c)[i] = Nil
<1>1. c.lat_udeg \in [1 .. 4 -> Byte] /\ c.lon_udeg \in [1 .. 4 -> Byte]
  <2>1. \A f \in DOMAIN IntWidth : c[f] \in [1 .. IntWidth[f] -> Byte]
    BY DEF Configs, IsConfig
  <2>2. /\ "lat_udeg" \in DOMAIN IntWidth /\ IntWidth["lat_udeg"] = 4
        /\ "lon_udeg" \in DOMAIN IntWidth /\ IntWidth["lon_udeg"] = 4
    BY DEF IntWidth
  <2> QED
    BY <2>1, <2>2
<1>2. Degrees(c.lat_udeg) \in [1 .. 4 -> Byte] /\ Degrees(c.lon_udeg) \in [1 .. 4 -> Byte]
  BY <1>1 DEF CastsToFloat32
<1>3. PICK lat \in Seq(Nat) : lat = Degrees(c.lat_udeg) /\ Len(lat) = 4
  BY <1>2, BytesAreSeq, BytesAreNat
<1>4. PICK lon \in Seq(Nat) : lon = Degrees(c.lon_udeg) /\ Len(lon) = 4
  BY <1>2, BytesAreSeq, BytesAreNat
<1>5. i = 1 \/ i = 2
  OBVIOUS
<1>6. CASE c.lat_udeg # Unset \/ c.lon_udeg # Unset
  <2>1. Position(c) = <<Float32(lat), Float32(lon)>>
    BY <1>3, <1>4, <1>6 DEF Position
  <2>2. Position(c)[1] = Float32(lat) /\ Position(c)[2] = Float32(lon)
    BY <2>1
  <2>3. Coordinates(c)[1] = c.lat_udeg /\ Coordinates(c)[2] = c.lon_udeg
    BY DEF Coordinates
  <2> QED
    BY <1>3, <1>4, <1>5, <1>6, <2>2, <2>3
<1>7. CASE ~(c.lat_udeg # Unset \/ c.lon_udeg # Unset)
  <2>1. Position(c)[1] = Nil /\ Position(c)[2] = Nil
    BY <1>7 DEF Position
  <2> QED
    BY <1>5, <1>7, <2>1
<1> QED
  BY <1>6, <1>7

LEMMA ElementsAre ==
  ASSUME NEW c
  PROVE  /\ \A i \in 1 .. 2 : Elements(c)[i] = Position(c)[i]
         /\ \A i \in 3 .. 8 : Elements(c)[i] = Uint(Counts[i - 2])
         /\ Elements(c)[9] = Str(CString(c.display_name))
BY DEF Elements

LEMMA ElementsAreItems ==
  ASSUME CastsToFloat32, NEW c \in Configs, NEW i \in 1 .. 9
  PROVE  Elements(c)[i] \in Seq(Nat) /\ IsItem(Elements(c)[i])
<1>1. PICK t : t = Elements(c)
  OBVIOUS
<1>2. /\ \A k \in 1 .. 2 : t[k] = Position(c)[k]
      /\ \A k \in 3 .. 8 : t[k] = Uint(Counts[k - 2])
      /\ t[9] = Str(CString(c.display_name))
  BY <1>1, ElementsAre
<1>3. IsItem(t[i])
  <2>1. CASE i \in 1 .. 2
    <3>1. t[i] = Position(c)[i]
      BY <1>2, <2>1
    <3>2. t[i] = Nil \/ \E v \in Seq(Nat) : Len(v) = 4 /\ t[i] = Float32(v)
      BY <2>1, <3>1, PositionType
    <3> QED
      BY <3>2, NilItem, FloatItem
  <2>2. CASE i \in 3 .. 8
    <3>1. i - 2 \in 1 .. 6 /\ t[i] = Uint(Counts[i - 2])
      BY <1>2, <2>2
    <3> QED
      BY <3>1, CountsType, UintItem
  <2>3. CASE i = 9
    <3>1. CString(c.display_name) \in Seq(Nat)
      BY BytesAreNat, CStringEnds DEF Configs, IsConfig
    <3> QED
      BY <1>2, <2>3, <3>1, StrItem
  <2> QED
    BY <2>1, <2>2, <2>3
<1> QED
  BY <1>1, <1>3 DEF IsItem

\* The bytes of the beacon are those elements, in that order.
LEMMA BeaconIsLaid ==
  ASSUME CastsToFloat32, NEW c \in Configs
  PROVE  Laid(Encode(Snapshot(c, Counts)), Elements(c), 9)
<1>1. PICK t : t = Elements(c)
  OBVIOUS
<1>2. \A i \in 1 .. 9 : t[i] \in Seq(Nat)
  BY <1>1, ElementsAreItems
<1>3. PICK s : s = Snapshot(c, Counts)
  OBVIOUS
<1>4. /\ s.have_position <=> (c.lat_udeg # Unset \/ c.lon_udeg # Unset)
      /\ s.lat = Degrees(c.lat_udeg) /\ s.lon = Degrees(c.lon_udeg)
      /\ s.counts = Counts /\ s.name = CString(c.display_name)
  BY <1>3 DEF Snapshot
<1>5. (IF s.have_position THEN Float32(s.lat) \o Float32(s.lon) ELSE Nil \o Nil) = t[1] \o t[2]
  <2>1. t[1] = Position(c)[1] /\ t[2] = Position(c)[2]
    <3>1. \A i \in 1 .. 2 : t[i] = Position(c)[i]
      BY <1>1, ElementsAre
    <3> QED
      BY <3>1
  <2>2. CASE s.have_position
    <3>1. Position(c) = <<Float32(s.lat), Float32(s.lon)>>
      BY <1>4, <2>2 DEF Position
    <3>2. Position(c)[1] = Float32(s.lat) /\ Position(c)[2] = Float32(s.lon)
      BY <3>1
    <3> QED
      BY <2>1, <2>2, <3>2
  <2>3. CASE ~s.have_position
    <3>1. Position(c) = <<Nil, Nil>>
      BY <1>4, <2>3 DEF Position
    <3>2. Position(c)[1] = Nil /\ Position(c)[2] = Nil
      BY <3>1
    <3> QED
      BY <2>1, <2>3, <3>2
  <2> QED
    BY <2>2, <2>3
<1>6. /\ t[3] = Uint(s.counts[1]) /\ t[4] = Uint(s.counts[2]) /\ t[5] = Uint(s.counts[3])
      /\ t[6] = Uint(s.counts[4]) /\ t[7] = Uint(s.counts[5]) /\ t[8] = Uint(s.counts[6])
      /\ t[9] = Str(s.name)
  <2>1. \A i \in 3 .. 8 : t[i] = Uint(Counts[i - 2])
    BY <1>1, ElementsAre
  <2>2. t[9] = Str(CString(c.display_name))
    BY <1>1, ElementsAre
  <2> QED
    BY <1>4, <2>1, <2>2
<1>7. Encode(s) = ArrayHeader(9) \o (t[1] \o t[2]) \o t[3] \o t[4] \o t[5] \o t[6] \o t[7]
                    \o t[8] \o t[9]
  BY <1>5, <1>6 DEF Encode
<1> QED
  BY <1>1, <1>2, <1>3, <1>7, NineAreLaid

\* What stands at the start of each element of the beacon.
Takes(c, bytes, o) ==
  /\ bytes \in Seq(Nat) /\ IsAt(bytes, 0, ArrayHeader(9))
  /\ o[1] = 1 /\ o[10] = Len(bytes)
  /\ \A i \in 1 .. 9 :
       /\ o[i] \in Nat /\ IsAt(bytes, o[i], Elements(c)[i])
       /\ SkipValue(Place(bytes, o[i])) = Place(bytes, o[i + 1])
  /\ o[10] = o[9] + Len(Elements(c)[9])

LEMMA BeaconTakes ==
  ASSUME CastsToFloat32, NEW c \in Configs
  PROVE  \E o : Takes(c, Encode(Snapshot(c, Counts)), o)
<1>1. PICK bytes : bytes = Encode(Snapshot(c, Counts))
  OBVIOUS
<1>2. PICK t : t = Elements(c)
  OBVIOUS
<1>3. PICK o : IsLaid(o, bytes, t, 9)
  BY <1>1, <1>2, BeaconIsLaid DEF Laid
<1>4. PICK n \in Nat : n = 9
  OBVIOUS
<1>5. /\ bytes \in Seq(Nat) /\ IsAt(bytes, 0, ArrayHeader(9))
      /\ \A i \in 1 .. n + 1 : o[i] \in Nat
      /\ o[1] = 1 /\ o[n + 1] = Len(bytes)
      /\ \A i \in 1 .. n :
           t[i] \in Seq(Nat) /\ IsAt(bytes, o[i], t[i]) /\ o[i + 1] = o[i] + Len(t[i])
  BY <1>3, <1>4 DEF IsLaid
<1>6. ASSUME NEW i \in 1 .. n
      PROVE  SkipValue(Place(bytes, o[i])) = Place(bytes, o[i + 1])
  <2>1. IsItem(t[i])
    BY <1>2, <1>4, ElementsAreItems
  <2>2. i \in 1 .. n + 1 /\ o[i] \in Nat /\ IsAt(bytes, o[i], t[i])
    BY <1>5
  <2>3. ScalarAt(bytes, o[i], o[i] + Len(t[i]))
    BY <1>5, <2>1, <2>2 DEF IsItem
  <2>4. SkipValue(Place(bytes, o[i])) = Place(bytes, o[i] + Len(t[i]))
    BY <1>5, <2>2, <2>3, SkipOne
  <2> QED
    BY <1>5, <2>4
<1>7. o[10] = Len(bytes) /\ o[10] = o[9] + Len(t[9]) /\ \A i \in 1 .. 9 : i \in 1 .. n + 1
  BY <1>4, <1>5
<1>8. Takes(c, bytes, o)
  BY <1>2, <1>4, <1>5, <1>6, <1>7 DEF Takes
<1> QED
  BY <1>1, <1>8

LEMMA BeaconHasItsShape ==
  ASSUME CastsToFloat32, cfg \in Configs
  PROVE  BeaconKeepsItsShape
<1>1. PICK bytes : bytes = Encode(Snapshot(cfg, Counts))
  OBVIOUS
<1>2. PICK o : Takes(cfg, bytes, o)
  BY <1>1, BeaconTakes
<1>3. /\ bytes \in Seq(Nat) /\ IsAt(bytes, 0, ArrayHeader(9))
      /\ o[1] = 1 /\ o[10] = Len(bytes)
      /\ \A i \in 1 .. 9 : /\ o[i] \in Nat /\ IsAt(bytes, o[i], Elements(cfg)[i])
                           /\ SkipValue(Place(bytes, o[i])) = Place(bytes, o[i + 1])
      /\ o[10] = o[9] + Len(Elements(cfg)[9])
  BY <1>2 DEF Takes
<1>4. ReadArrayHeader(Reader(bytes)).reader = Place(bytes, 1)
      /\ ReadArrayHeader(Reader(bytes)).val = 9
  <2>1. Reader(bytes) = Place(bytes, 0)
    BY DEF Reader, Place
  <2>2. PICK n \in Nat : n = 9 /\ n < 16
    OBVIOUS
  <2>3. ReadArrayHeader(Place(bytes, 0)) = [reader |-> Place(bytes, 1), tag |-> 144 + n, val |-> n]
    BY <1>3, <2>2, ArrayIsRead
  <2> QED
    BY <2>1, <2>2, <2>3
<1>5. \A i \in 1 .. 9 : Element(bytes, i) = Place(bytes, o[i])
  <2>1. PICK a : a = ReadArrayHeader(Reader(bytes)).reader
    OBVIOUS
  <2>2. PICK f : f = CHOOSE h : h = [i \in 1 .. 9 |-> IF i = 1 THEN a ELSE SkipValue(h[i - 1])]
    OBVIOUS
  <2>3. \A i \in 1 .. 9 : Element(bytes, i) = f[i]
    BY <2>1, <2>2 DEF Element
  <2>4. PICK g : g = [i \in 1 .. 9 |-> Place(bytes, o[i])]
    OBVIOUS
  <2>5. g[1] = a
    BY <1>3, <1>4, <2>1, <2>4
  <2>6. ASSUME NEW i \in 1 .. 8
        PROVE  g[i + 1] = SkipValue(g[i])
    <3>1. i \in 1 .. 9 /\ i + 1 \in 1 .. 9
      OBVIOUS
    <3>2. g[i + 1] = Place(bytes, o[i + 1]) /\ g[i] = Place(bytes, o[i])
      BY <2>4, <3>1
    <3> QED
      BY <1>3, <3>1, <3>2
  <2>7. \A i \in 1 .. 9 : f[i] = g[i]
    BY <2>2, <2>5, <2>6, FromGives
  <2> QED
    BY <2>3, <2>4, <2>7
<1>6. Beacon = bytes
  BY <1>1 DEF Beacon
<1>7. ASSUME NEW i \in 1 .. 2
      PROVE  LET place == Coordinates(cfg)
             IN  /\ TypeOf(Element(bytes, i)) \in {"float", "nil"}
                 /\ place = <<Unset, Unset>> => TypeOf(Element(bytes, i)) = "nil"
                 /\ (\A k \in 1 .. 2 : place[k] # Unset) =>
                      ReadFloat32(Element(bytes, i)).val = Degrees(place[i])
  <2>1. Element(bytes, i) = Place(bytes, o[i]) /\ o[i] \in Nat
        /\ IsAt(bytes, o[i], Position(cfg)[i])
    <3>1. \A k \in 1 .. 2 : Elements(cfg)[k] = Position(cfg)[k]
      BY ElementsAre
    <3>2. i \in 1 .. 9 /\ Elements(cfg)[i] = Position(cfg)[i]
      BY <3>1
    <3> QED
      BY <1>3, <1>5, <3>2
  <2>2. Coordinates(cfg)[1] = cfg.lat_udeg /\ Coordinates(cfg)[2] = cfg.lon_udeg
    BY DEF Coordinates
  <2>3. Coordinates(cfg) = <<Unset, Unset>> => cfg.lat_udeg = Unset /\ cfg.lon_udeg = Unset
    BY <2>2
  <2>4. CASE cfg.lat_udeg # Unset \/ cfg.lon_udeg # Unset
    <3>1. PICK v \in Seq(Nat) : /\ v = Degrees(Coordinates(cfg)[i]) /\ Len(v) = 4
                               /\ Position(cfg)[i] = Float32(v)
      BY <2>4, PositionType
    <3>2. TypeOf(Place(bytes, o[i])) = "float"
      BY <1>3, <2>1, <3>1, FloatAt
    <3>3. ReadFloat32(Place(bytes, o[i])).val = v
      <4>1. Width(202) = Len(v)
        BY <3>1 DEF Width
      <4>2. IsAt(bytes, o[i], Float32(v)) /\ bytes \in Seq(Nat)
        BY <1>3, <2>1, <3>1
      <4> QED
        BY <2>1, <3>1, <4>1, <4>2, FloatThen
    <3> QED
      BY <2>1, <2>3, <2>4, <3>1, <3>2, <3>3
  <2>5. CASE ~(cfg.lat_udeg # Unset \/ cfg.lon_udeg # Unset)
    <3>1. Position(cfg)[i] = Nil
      BY <2>5, PositionType
    <3>2. TypeOf(Place(bytes, o[i])) = "nil"
      BY <1>3, <2>1, <3>1, NilAt
    <3> QED
      BY <2>1, <2>2, <2>5, <3>2
  <2> QED
    BY <2>4, <2>5
<1>8. ASSUME NEW i \in 3 .. 8
      PROVE  ReadUint(Element(bytes, i)).val = Widened(Counts[i - 2], 0)
  <2>1. Element(bytes, i) = Place(bytes, o[i]) /\ o[i] \in Nat
        /\ IsAt(bytes, o[i], Uint(Counts[i - 2]))
    <3>1. \A k \in 3 .. 8 : Elements(cfg)[k] = Uint(Counts[k - 2])
      BY ElementsAre
    <3>2. i \in 1 .. 9 /\ Elements(cfg)[i] = Uint(Counts[i - 2])
      BY <3>1
    <3> QED
      BY <1>3, <1>5, <3>2
  <2>2. PICK v \in Seq(Nat) : v = Counts[i - 2] /\ Len(v) \in {1, 2, 4}
    <3>1. i - 2 \in 1 .. 6
      OBVIOUS
    <3> QED
      BY <3>1, CountsType
  <2>3. ReadUint(Place(bytes, o[i])).val = Widened(v, 0)
    BY <1>3, <2>1, <2>2, UintThen
  <2> QED
    BY <2>1, <2>2, <2>3
<1> DEFINE name == ReadStr(Element(bytes, 9))
<1>9. name.val = CString(cfg.display_name) /\ AtEnd(name.reader)
  <2>1. PICK s \in Seq(Nat) : s = CString(cfg.display_name)
    BY BytesAreNat, CStringEnds DEF Configs, IsConfig
  <2>2. Element(bytes, 9) = Place(bytes, o[9]) /\ o[9] \in Nat /\ IsAt(bytes, o[9], Str(s))
        /\ o[9] + Len(Str(s)) = Len(bytes)
    <3>1. 9 \in 1 .. 9 /\ Elements(cfg)[9] = Str(s)
      BY <2>1, ElementsAre
    <3>2. o[10] = o[9] + Len(Str(s)) /\ o[10] = Len(bytes)
      BY <1>3, <3>1
    <3> QED
      BY <1>3, <1>5, <3>1, <3>2
  <2>3. ReadStr(Place(bytes, o[9])) =
          [reader |-> Place(bytes, o[9] + Len(Str(s))), tag |-> Str(s)[1], val |-> s]
    BY <1>3, <2>2, StrThen
  <2>4. name.val = s /\ name.reader = Place(bytes, Len(bytes))
    BY <2>2, <2>3
  <2>5. AtEnd(Place(bytes, Len(bytes)))
    BY DEF AtEnd, Place
  <2> QED
    BY <2>1, <2>4, <2>5
<1>10. \E n \in 0 .. Len(cfg.display_name) :
         /\ name.val = SubSeq(cfg.display_name, 1, n)
         /\ \A k \in 1 .. n : cfg.display_name[k] # 0
         /\ n < Len(cfg.display_name) => cfg.display_name[n + 1] = 0
  <2>1. cfg.display_name \in Seq(Byte)
    BY DEF Configs, IsConfig
  <2>2. PICK s \in Seq(Byte) : s = cfg.display_name
    BY <2>1
  <2>3. PICK x : x = name.val
    OBVIOUS
  <2>4. x = CString(s)
    BY <1>9, <2>2, <2>3
  <2>5. PICK n \in 0 .. Len(s) :
          /\ x = SubSeq(s, 1, n)
          /\ \A k \in 1 .. n : s[k] # 0
          /\ n < Len(s) => s[n + 1] = 0
    BY <2>4, CStringEnds
  <2>6. /\ n \in 0 .. Len(cfg.display_name)
        /\ \A k \in 1 .. n : cfg.display_name[k] # 0
        /\ n < Len(cfg.display_name) => cfg.display_name[n + 1] = 0
    BY <2>2, <2>5
  <2>7. name.val = SubSeq(cfg.display_name, 1, n)
    BY <2>2, <2>3, <2>5
  <2> QED
    BY <2>6, <2>7
<1> QED
  BY <1>4, <1>6, <1>7, <1>8, <1>9, <1>10 DEF BeaconKeepsItsShape

\* Whatever the operator configures, the beacon is an array of nine elements
\* (Telemetry.cpp:7-25, main.cpp:86-126): latitude and longitude are each a
\* float or nil, nil while both are unset and the floats of the configured ones
\* once both are set, a lone write since the last commit aside as the property
\* says; the counters are in their places, the name is the configured one up
\* to its first NUL, and nothing follows it.
THEOREM BeaconIsStable ==
  ASSUME CastsToFloat32
  PROVE  Spec => []BeaconKeepsItsShape
<1>1. TypeInv => BeaconKeepsItsShape
  BY ConfigIsSet, BeaconHasItsShape DEF TypeInv, TypeOK
<1> QED
  BY <1>1, TypeHolds, PTL

-----------------------------------------------------------------------------
(* The frames on the line *)

FrameOf(r) == Be16(Len(Encoded(r))) \o Encoded(r)

\* On an undisturbed line every length is taken for a length, and what is
\* dispatched is the request of the first frame waiting, to the byte.
FramesArrive ==
  [][damages = 0 =>
       /\ LenLo => state' = "payload"
       /\ Payload /\ state' = "len_hi" =>
            waiting # << >> /\ Append(buf, Head(line)) = Encoded(Head(waiting))]_vars

\* The bytes s are the frames of the requests w: the i-th from o[i - 1] to o[i].
AreSplit(o, s, w) ==
  /\ o[0] = 0 /\ o[Len(w)] = Len(s)
  /\ \A i \in 0 .. Len(w) : o[i] \in Nat
  /\ \A i, k \in 0 .. Len(w) : i <= k => o[i] <= o[k]
  /\ \A i \in 1 .. Len(w) : /\ IsAt(s, o[i - 1], FrameOf(w[i]))
                            /\ o[i] = o[i - 1] + Len(FrameOf(w[i]))

AreFrames(s, w) == \E o : AreSplit(o, s, w)

\* What was taken of the frame that is being read.
Started ==
  CASE state = "len_hi"  -> << >>
    [] state = "len_lo"  -> <<expected \div 256>>
    [] state = "payload" -> Be16(expected) \o buf

LineInv ==
  /\ waiting \in Seq(Request) /\ damages \in Nat
  /\ state = "len_lo" => expected % 256 = 0
  /\ damages = 0 => AreFrames(Started \o line, waiting)

LEMMA FrameType ==
  ASSUME NEW r \in Request
  PROVE  /\ FrameOf(r) \in Seq(Nat) /\ Len(FrameOf(r)) = 2 + Len(Encoded(r))
         /\ FrameOf(r)[1] = Len(Encoded(r)) \div 256
         /\ FrameOf(r)[2] = Len(Encoded(r)) % 256
         /\ \A j \in 1 .. Len(Encoded(r)) : FrameOf(r)[2 + j] = Encoded(r)[j]
<1>1. Encoded(r) \in Seq(Nat) /\ Len(Encoded(r)) \in Nat
  BY RequestsAre, BytesAreSeq, BytesAreNat
<1> DEFINE hi == Len(Encoded(r)) \div 256
           lo == Len(Encoded(r)) % 256
<1>2. hi \in Nat /\ lo \in Nat
  BY <1>1
<1>3. FrameOf(r) = <<hi, lo>> \o Encoded(r)
  BY DEF FrameOf, Be16
<1> HIDE DEF hi, lo
<1>4. /\ <<hi, lo>> \o Encoded(r) \in Seq(Nat)
      /\ Len(<<hi, lo>> \o Encoded(r)) = 2 + Len(Encoded(r))
      /\ (<<hi, lo>> \o Encoded(r))[1] = hi /\ (<<hi, lo>> \o Encoded(r))[2] = lo
      /\ \A j \in 1 .. Len(Encoded(r)) : (<<hi, lo>> \o Encoded(r))[2 + j] = Encoded(r)[j]
  BY <1>1, <1>2
<1> QED
  BY <1>3, <1>4 DEF hi, lo

LEMMA NoFrames == AreFrames(<< >>, << >>)
<1>1. AreSplit([i \in 0 .. 0 |-> 0], << >>, << >>)
  BY DEF AreSplit
<1> QED
  BY <1>1 DEF AreFrames

LEMMA OneMoreFrame ==
  ASSUME NEW s \in Seq(Nat), NEW w \in Seq(Request), NEW r \in Request, AreFrames(s, w)
  PROVE  AreFrames(s \o FrameOf(r), Append(w, r))
<1>1. PICK o : AreSplit(o, s, w)
  BY DEF AreFrames
<1>2. PICK f \in Seq(Nat) : f = FrameOf(r)
  BY FrameType
<1>3. PICK n \in Nat : n = Len(w)
  OBVIOUS
<1>4. PICK v \in Seq(Request) : v = Append(w, r)
  BY AppendProperties
<1>5. Len(v) = n + 1 /\ v[n + 1] = r /\ \A i \in 1 .. n : v[i] = w[i]
  BY <1>3, <1>4, AppendProperties
<1> DEFINE p == [i \in 0 .. n + 1 |-> IF i <= n THEN o[i] ELSE Len(s) + Len(f)]
<1>6. /\ p[0] = 0 /\ p[n] = Len(s) /\ p[n + 1] = Len(s) + Len(f)
      /\ \A i \in 0 .. n : p[i] = o[i]
  BY <1>1, <1>3 DEF AreSplit
<1> HIDE DEF p
<1>7. /\ s \o f \in Seq(Nat) /\ Len(s \o f) = Len(s) + Len(f)
      /\ IsAt(s \o f, Len(s), f)
  BY AtItsEnd
<1>8. ASSUME NEW i \in 0 .. n + 1
      PROVE  p[i] \in Nat
  <2>1. CASE i \in 0 .. n
    BY <1>1, <1>3, <1>6, <2>1 DEF AreSplit
  <2>2. CASE i = n + 1
    BY <1>6, <2>2
  <2> QED
    BY <2>1, <2>2
<1>9. ASSUME NEW i \in 0 .. n + 1, NEW k \in 0 .. n + 1, i <= k
      PROVE  p[i] <= p[k]
  <2>1. \A m \in 0 .. n : o[m] \in Nat /\ o[m] <= Len(s)
    BY SMTT(30), <1>1, <1>3 DEF AreSplit
  <2>2. CASE k \in 0 .. n
    <3>1. i \in 0 .. n
      BY <1>9, <2>2
    <3> QED
      BY <1>1, <1>3, <1>6, <1>9, <2>2, <3>1 DEF AreSplit
  <2>3. CASE k = n + 1 /\ i \in 0 .. n
    BY SMTT(30), <1>6, <2>1, <2>3
  <2>4. CASE k = n + 1 /\ i = n + 1
    BY <1>6, <2>4
  <2> QED
    BY <1>9, <2>2, <2>3, <2>4
<1>10. ASSUME NEW i \in 1 .. n + 1
       PROVE  IsAt(s \o f, p[i - 1], FrameOf(v[i])) /\ p[i] = p[i - 1] + Len(FrameOf(v[i]))
  <2>1. CASE i \in 1 .. n
    <3>1. i - 1 \in 0 .. n /\ i \in 0 .. n
      BY <2>1
    <3>2. IsAt(s, o[i - 1], FrameOf(w[i])) /\ o[i] = o[i - 1] + Len(FrameOf(w[i])) /\ o[i - 1] \in Nat
      BY <1>1, <1>3, <2>1, <3>1 DEF AreSplit
    <3>3. FrameOf(w[i]) \in Seq(Nat)
      BY <1>3, <2>1, FrameType
    <3>4. IsAt(s \o f, o[i - 1], FrameOf(w[i]))
      BY <3>2, <3>3, StillAt
    <3> QED
      BY <1>5, <1>6, <2>1, <3>1, <3>2, <3>4
  <2>2. CASE i = n + 1
    <3>1. p[i - 1] = Len(s) /\ p[i] = Len(s) + Len(f) /\ v[i] = r
      BY <1>5, <1>6, <2>2
    <3>2. FrameOf(v[i]) = f
      BY <1>2, <3>1
    <3> QED
      BY <1>7, <3>1, <3>2
  <2> QED
    BY <2>1, <2>2
<1>11. AreSplit(p, s \o f, v)
  BY <1>5, <1>6, <1>7, <1>8, <1>9, <1>10 DEF AreSplit
<1> QED
  BY <1>2, <1>4, <1>11 DEF AreFrames

\* The first frame is at the front.
LEMMA FirstFrame ==
  ASSUME NEW s \in Seq(Nat), NEW w \in Seq(Request), AreFrames(s, w), s # << >>
  PROVE  w # << >> /\ Head(w) \in Request /\ IsAt(s, 0, FrameOf(Head(w)))
<1>1. PICK o : AreSplit(o, s, w)
  BY DEF AreFrames
<1>2. Len(s) # 0
  OBVIOUS
<1>3. Len(w) # 0
  BY <1>1, <1>2 DEF AreSplit
<1>4. w # << >> /\ Head(w) = w[1] /\ 1 \in 1 .. Len(w) /\ w[1] \in Request
  BY <1>3
<1>5. IsAt(s, o[1 - 1], FrameOf(w[1])) /\ o[0] = 0
  BY <1>1, <1>4 DEF AreSplit
<1> QED
  BY <1>4, <1>5

\* Behind it are the others.
LEMMA FirstServed ==
  ASSUME NEW s \in Seq(Nat), NEW t \in Seq(Nat), NEW w \in Seq(Request), w # << >>,
         AreFrames(s \o t, w), Len(s) = Len(FrameOf(Head(w)))
  PROVE  AreFrames(t, Tail(w))
<1>1. PICK o : AreSplit(o, s \o t, w)
  BY SMTT(30) DEF AreFrames
<1>2. PICK n \in Nat : n + 1 = Len(w)
  <2>1. Len(w) \in Nat /\ Len(w) # 0
    OBVIOUS
  <2>2. Len(w) - 1 \in Nat /\ (Len(w) - 1) + 1 = Len(w)
    BY <2>1
  <2> QED
    BY <2>2
<1>3. Head(w) = w[1] /\ \A i \in 1 .. Len(w) : w[i] \in Request
  OBVIOUS
<1>4. PICK v \in Seq(Request) : v = Tail(w)
  BY HeadTailProperties
<1>5. Len(v) = n /\ \A i \in 1 .. n : v[i] = w[i + 1]
  BY <1>2, <1>4, HeadTailProperties
<1>6. PICK m \in Nat : m = Len(s)
  OBVIOUS
<1>7. Len(s \o t) = m + Len(t) /\ \A j \in 1 .. Len(t) : (s \o t)[m + j] = t[j]
  <2>1. Len(s \o t) = Len(s) + Len(t) /\ \A j \in 1 .. Len(t) : (s \o t)[Len(s) + j] = t[j]
    OBVIOUS
  <2> QED
    BY <1>6, <2>1
<1>8. o[0] = 0 /\ o[n + 1] = m + Len(t) /\ o[1] = m
  <2>1. 1 \in 1 .. Len(w)
    BY <1>2
  <2>2. o[1] = o[1 - 1] + Len(FrameOf(w[1])) /\ o[0] = 0
    BY <1>1, <2>1 DEF AreSplit
  <2> QED
    BY <1>1, <1>2, <1>3, <1>6, <1>7, <2>2 DEF AreSplit
<1>9. \A i \in 0 .. n : o[i + 1] \in Nat /\ m <= o[i + 1]
  <2> SUFFICES ASSUME NEW i \in 0 .. n
               PROVE  o[i + 1] \in Nat /\ m <= o[i + 1]
    OBVIOUS
  <2>1. 1 \in 0 .. Len(w) /\ i + 1 \in 0 .. Len(w) /\ 1 <= i + 1
    BY <1>2
  <2> QED
    BY <1>1, <1>8, <2>1 DEF AreSplit
<1> DEFINE p == [i \in 0 .. n |-> o[i + 1] - m]
<1>10. p[0] = 0 /\ p[n] = Len(t) /\ \A i \in 0 .. n : p[i] = o[i + 1] - m
  <2>1. 0 \in 0 .. n /\ n \in 0 .. n
    OBVIOUS
  <2> QED
    BY <1>8, <2>1
<1> HIDE DEF p
<1>11. ASSUME NEW i \in 0 .. n
       PROVE  p[i] \in Nat
  <2>1. o[i + 1] \in Nat /\ m <= o[i + 1] /\ p[i] = o[i + 1] - m
    BY <1>9, <1>10
  <2> QED
    BY <2>1
<1>12. ASSUME NEW i \in 0 .. n, NEW k \in 0 .. n, i <= k
       PROVE  p[i] <= p[k]
  <2>1. i + 1 \in 0 .. Len(w) /\ k + 1 \in 0 .. Len(w) /\ i + 1 <= k + 1
    BY <1>2, <1>12
  <2>2. o[i + 1] <= o[k + 1]
    BY <1>1, <2>1 DEF AreSplit
  <2> QED
    BY <1>9, <1>10, <2>2
<1>13. ASSUME NEW i \in 1 .. n
       PROVE  IsAt(t, p[i - 1], FrameOf(v[i])) /\ p[i] = p[i - 1] + Len(FrameOf(v[i]))
  <2>1. i + 1 \in 1 .. Len(w) /\ i \in 0 .. n /\ i - 1 \in 0 .. n
    BY <1>2
  <2>2. IsAt(s \o t, o[(i + 1) - 1], FrameOf(w[i + 1]))
        /\ o[i + 1] = o[(i + 1) - 1] + Len(FrameOf(w[i + 1]))
    BY <1>1, <2>1 DEF AreSplit
  <2>3. (i + 1) - 1 = i /\ (i - 1) + 1 = i
    OBVIOUS
  <2>4. PICK f \in Seq(Nat) : f = FrameOf(v[i])
    BY <1>3, <1>5, <2>1, FrameType
  <2>5. IsAt(s \o t, o[i], f) /\ o[i + 1] = o[i] + Len(f)
    BY <1>5, <2>2, <2>3, <2>4
  <2>6. p[i - 1] = o[i] - m /\ p[i] = o[i + 1] - m /\ o[i] \in Nat /\ m <= o[i] /\ p[i - 1] \in Nat
    BY <1>9, <1>10, <1>11, <2>1, <2>3
  <2>7. p[i - 1] + Len(f) <= Len(t)
    <3>1. o[i] + Len(f) <= m + Len(t)
      BY <1>7, <2>5 DEF IsAt
    <3> QED
      BY <2>6, <3>1
  <2>8. ASSUME NEW j \in 1 .. Len(f)
        PROVE  t[p[i - 1] + j] = f[j]
    <3>1. p[i - 1] + j \in 1 .. Len(t) /\ m + (p[i - 1] + j) = o[i] + j
      <4>1. PICK a \in Nat : a = p[i - 1]
        BY <2>6
      <4>2. PICK b \in Nat : b = o[i]
        BY <2>6
      <4>0. Len(f) \in Nat /\ Len(t) \in Nat
        OBVIOUS
      <4>3. a = b - m /\ a + Len(f) <= Len(t) /\ Len(f) \in Nat /\ Len(t) \in Nat
        BY <2>6, <2>7, <4>0, <4>1, <4>2
      <4>4. j \in Nat /\ 1 <= j /\ j <= Len(f)
        BY <4>3
      <4>5. a + j \in 1 .. Len(t) /\ m + (a + j) = b + j
        BY <4>3, <4>4
      <4> QED
        BY <4>1, <4>2, <4>5
    <3>2. (s \o t)[o[i] + j] = f[j]
      BY <2>5 DEF IsAt
    <3> QED
      BY <1>7, <3>1, <3>2
  <2> QED
    BY <2>4, <2>5, <2>6, <2>7, <2>8 DEF IsAt
<1>14. AreSplit(p, t, v)
  BY <1>5, <1>10, <1>11, <1>12, <1>13 DEF AreSplit
<1> QED
  BY <1>4, <1>14 DEF AreFrames

\* A step that takes nothing, or moves a byte from the line to what was taken.
LEMMA LineKept ==
  ASSUME LineInv, UNCHANGED <<damages, waiting>>, state' = "len_lo" => expected' % 256 = 0,
         (Started \o line)' = Started \o line
  PROVE  LineInv'
BY DEF LineInv

\* The numbers of a length of two bytes.
LEMMA HighAndLow ==
  ASSUME NEW n \in Nat, NEW e \in Nat, NEW b \in Nat, b <= 255, e % 256 = 0,
         e \div 256 = n \div 256, b = n % 256
  PROVE  e + b = n
OBVIOUS

LEMMA HighOf ==
  ASSUME NEW b \in Nat
  PROVE  (256 * b) \div 256 = b /\ (256 * b) % 256 = 0
OBVIOUS

LEMMA LowAndHigh ==
  ASSUME NEW e \in Nat, NEW b \in Nat, b <= 255, e % 256 = 0
  PROVE  (e + b) \div 256 = e \div 256 /\ (e + b) % 256 = b
OBVIOUS

\* The start of what was taken and what is left, byte by byte.
LEMMA TwoBytes ==
  ASSUME NEW a \in Nat, NEW t \in Seq(Nat), NEW s \in Seq(Nat), t # << >>,
         IsAt(<<a>> \o t, 0, s), Len(s) >= 2
  PROVE  a = s[1] /\ Head(t) = s[2]
<1>1. Len(t) \in Nat /\ Len(t) >= 1 /\ Head(t) = t[1]
  OBVIOUS
<1>2. /\ (<<a>> \o t)[1] = a /\ (<<a>> \o t)[2] = t[1]
  BY <1>1
<1>3. \A j \in 1 .. Len(s) : (<<a>> \o t)[j] = s[j]
  BY DEF IsAt
<1> QED
  BY <1>1, <1>2, <1>3

LEMMA PushedLast ==
  ASSUME NEW s \in Seq(Nat), NEW h \in Nat
  PROVE  Append(s, h) = s \o <<h>>
OBVIOUS

LEMMA Pushed ==
  ASSUME NEW s \in Seq(Nat), NEW u \in Seq(Nat), NEW h \in Nat
  PROVE  s \o (<<h>> \o u) = Append(s, h) \o u
<1>1. Append(s, h) = s \o <<h>>
  BY PushedLast
<1>2. s \o (<<h>> \o u) = (s \o <<h>>) \o u
  BY SMTT(30)
<1> QED
  BY <1>1, <1>2

LEMMA PushedBehind ==
  ASSUME NEW g \in Seq(Nat), NEW s \in Seq(Nat), NEW h \in Nat
  PROVE  Append(g \o s, h) = g \o Append(s, h)
<1>0. PICK x \in Seq(Nat) : x = g \o s
  <2>1. g \o s \in Seq(Nat)
    OBVIOUS
  <2> QED
    BY <2>1
<1>1. Append(s, h) = s \o <<h>> /\ Append(x, h) = x \o <<h>>
  BY Zenon, PushedLast
<1>2. (g \o s) \o <<h>> = g \o (s \o <<h>>)
  OBVIOUS
<1> QED
  BY <1>0, <1>1, <1>2

LEMMA Moved ==
  ASSUME NEW t \in Seq(Nat), t # << >>, NEW s \in Seq(Nat)
  PROVE  /\ t = <<Head(t)>> \o Tail(t)
         /\ s \o t = Append(s, Head(t)) \o Tail(t)
<1>1. PICK h \in Nat : h = Head(t)
  OBVIOUS
<1>2. PICK u \in Seq(Nat) : u = Tail(t)
  BY HeadTailProperties
<1>3. t = <<h>> \o u
  BY <1>1, <1>2
<1>4. s \o (<<h>> \o u) = Append(s, h) \o u
  BY Pushed
<1> QED
  BY <1>1, <1>2, <1>3, <1>4

LEMMA SameAt ==
  ASSUME NEW x \in Seq(Nat), NEW off \in Nat, NEW u \in Seq(Nat), NEW v \in Seq(Nat),
         IsAt(x, off, u), IsAt(x, off, v), Len(u) = Len(v)
  PROVE  u = v
<1>1. ASSUME NEW j \in 1 .. Len(u)
      PROVE  u[j] = v[j]
  <2>1. x[off + j] = u[j] /\ x[off + j] = v[j]
    BY DEF IsAt
  <2> QED
    BY <2>1
<1> QED
  BY <1>1, SeqEqual

LEMMA AtItsStart ==
  ASSUME NEW x \in Seq(Nat)
  PROVE  IsAt(x, 0, x)
BY DEF IsAt

LEMMA PartsOf ==
  ASSUME NEW z \in Seq(Nat), NEW b \in Seq(Nat), NEW t \in Seq(Nat),
         NEW g \in Seq(Nat), NEW q \in Seq(Nat), IsAt(z \o b \o t, 0, g \o q), Len(z) = Len(g)
  PROVE  z = g /\ (Len(b) = Len(q) => b = q)
<1>1. PICK c \in Seq(Nat) : c = z \o b
  BY AtItsEnd
<1>2. PICK y \in Seq(Nat) : y = c \o t
  BY AtItsEnd
<1>3. IsAt(c, Len(z), b) /\ IsAt(c, 0, z)
  BY <1>1, AtItsEnd, AtItsStart, StillAt
<1>4. IsAt(y, Len(z), b) /\ IsAt(y, 0, z)
  <2>1. Len(z) \in Nat
    OBVIOUS
  <2> QED
    BY <1>2, <1>3, <2>1, StillAt
<1>5. IsAt(y, 0, g) /\ IsAt(y, 0 + Len(g), q)
  BY <1>1, <1>2, AtParts
<1>6. z = g
  BY <1>4, <1>5, SameAt
<1>7. Len(g) \in Nat /\ 0 + Len(g) = Len(z)
  OBVIOUS
<1>8. Len(b) = Len(q) => b = q
  BY <1>4, <1>5, <1>7, SameAt
<1> QED
  BY <1>6, <1>8

\* The length is all there, and the request up to its last byte.
LEMMA WholeFrame ==
  ASSUME NEW r \in Request, NEW n \in Nat, n <= 65535, NEW b \in Seq(Nat), NEW t \in Seq(Nat),
         IsAt(Be16(n) \o b \o t, 0, FrameOf(r))
  PROVE  /\ n = Len(Encoded(r))
         /\ Len(b) = n => b = Encoded(r) /\ Len(Be16(n) \o b) = Len(FrameOf(r))
<1>1. PICK q \in Seq(Nat) : q = Encoded(r)
  BY RequestsAre, BytesAreNat
<1>2. PICK m \in Nat : m = Len(q)
  OBVIOUS
<1>3. m <= 65535
  BY <1>1, <1>2, RequestsAre
<1>4. PICK z \in Seq(Nat) : z = Be16(n)
  BY Be16Type, BytesAreNat
<1>5. PICK g \in Seq(Nat) : g = Be16(m)
  BY <1>3, Be16Type, BytesAreNat
<1>6. /\ Len(z) = 2 /\ z[1] = n \div 256 /\ z[2] = n % 256
      /\ Len(g) = 2 /\ g[1] = m \div 256 /\ g[2] = m % 256
  BY <1>4, <1>5 DEF Be16
<1>7. FrameOf(r) = g \o q
  BY <1>1, <1>2, <1>5 DEF FrameOf
<1>8. z = g /\ (Len(b) = Len(q) => b = q)
  <2>1. IsAt(z \o b \o t, 0, g \o q)
    BY <1>4, <1>7
  <2> QED
    BY <1>6, <2>1, PartsOf
<1>9. n = m
  BY <1>6, <1>8
<1>10. Len(z \o b) = Len(z) + Len(b) /\ Len(g \o q) = Len(g) + Len(q)
  BY AtItsEnd
<1> QED
  BY <1>1, <1>2, <1>4, <1>6, <1>7, <1>8, <1>9, <1>10

LEMMA LineInit == Init => LineInv
<1>1. ASSUME Init
      PROVE  Started \o line = << >> /\ waiting = << >> /\ damages = 0 /\ state # "len_lo"
  BY <1>1 DEF Init, Started
<1> QED
  BY <1>1, NoFrames, EmptySeq DEF LineInv

LEMMA TypesAre ==
  ASSUME TypeInv
  PROVE  /\ state \in {"len_hi", "len_lo", "payload"}
         /\ expected \in Nat /\ expected <= 65535
         /\ state = "payload" => Len(buf) < expected /\ expected <= MaxFrameLen
         /\ line \in Seq(Nat) /\ buf \in Seq(Nat)
         /\ line # << >> => Head(line) \in Nat /\ Head(line) <= 255 /\ Tail(line) \in Seq(Nat)
<1>1. line \in Seq(Byte) /\ buf \in Seq(Byte)
  BY DEF TypeInv
<1>2. line # << >> => Head(line) \in Byte
  BY <1>1, HeadTailProperties
<1>3. line \in Seq(Nat) /\ buf \in Seq(Nat)
  BY Zenon, <1>1, BytesAreNat
<1> QED
  BY <1>2, <1>3, HeadTailProperties, ByteIsNat DEF TypeInv, TypeOK

LEMMA StartedType ==
  ASSUME TypeInv
  PROVE  Started \in Seq(Nat)
<1>1. CASE state = "len_hi"
  BY <1>1, EmptySeq DEF Started
<1>2. CASE state = "len_lo"
  <2>1. Started = <<expected \div 256>>
    BY <1>2 DEF Started
  <2>2. expected \div 256 \in Nat
    BY TypesAre
  <2> QED
    BY <2>1, <2>2
<1>3. CASE state = "payload"
  <2>1. Started = Be16(expected) \o buf
    BY <1>3 DEF Started
  <2>2. Be16(expected) \in Seq(Nat)
    BY TypesAre, Be16Type, BytesAreNat
  <2> QED
    BY <2>1, <2>2, TypesAre
<1> QED
  BY <1>1, <1>2, <1>3, TypesAre

\* The frame that is being read is the first one waiting.
LEMMA FrameInHand ==
  ASSUME TypeInv, LineInv, damages = 0, Started \o line # << >>
  PROVE  /\ waiting # << >> /\ Head(waiting) \in Request
         /\ IsAt(Started \o line, 0, FrameOf(Head(waiting)))
<1>1. PICK s \in Seq(Nat) : s = Started \o line
  <2>1. Started \o line \in Seq(Nat)
    BY StartedType, TypesAre
  <2> QED
    BY <2>1
<1>2. AreFrames(s, waiting) /\ waiting \in Seq(Request)
  BY <1>1 DEF LineInv
<1> QED
  BY <1>1, <1>2, FirstFrame

\* The second byte of a length completes that of the first request waiting.
LEMMA LengthInHand ==
  ASSUME RequestsFit, TypeInv, LineInv, damages = 0, LenLo
  PROVE  /\ expected' = expected + Head(line) /\ state' = "payload" /\ buf' = << >>
<1>1. state = "len_lo" /\ line # << >>
  BY DEF LenLo, Next1
<1>2. PICK a \in Nat : a = expected \div 256
  BY TypesAre
<1>3. Started = <<a>>
  BY <1>1, <1>2 DEF Started
<1>4. PICK t \in Seq(Nat) : t = line
  <2>1. line \in Seq(Nat)
    BY TypesAre
  <2> QED
    BY <2>1
<1>5. <<a>> \o t # << >>
  OBVIOUS
<1>6. Head(waiting) \in Request /\ IsAt(<<a>> \o t, 0, FrameOf(Head(waiting)))
  BY <1>3, <1>4, <1>5, FrameInHand
<1>7. PICK r \in Request : r = Head(waiting)
  BY <1>6
<1>8. PICK n \in Nat : n = Len(Encoded(r))
  BY RequestsAre
<1>9. /\ FrameOf(r) \in Seq(Nat) /\ Len(FrameOf(r)) >= 2
      /\ FrameOf(r)[1] = n \div 256 /\ FrameOf(r)[2] = n % 256
  BY <1>8, FrameType
<1>10. a = n \div 256 /\ Head(t) = n % 256
  BY <1>1, <1>4, <1>6, <1>7, <1>9, TwoBytes
<1>11. expected + Head(line) = n
  <2>1. expected \in Nat /\ expected % 256 = 0 /\ Head(line) \in Nat /\ Head(line) <= 255
    BY <1>1, TypesAre DEF LineInv
  <2> QED
    BY <1>2, <1>4, <1>10, <2>1, HighAndLow
<1>12. 1 <= n /\ n <= MaxFrameLen
  BY <1>8 DEF RequestsFit
<1>13. ~(expected + Head(line) = 0 \/ expected + Head(line) > MaxFrameLen)
  BY <1>11, <1>12, LengthsAre
<1> QED
  BY <1>13 DEF LenLo

\* The last byte completes that request, and the others are behind it.
LEMMA RequestInHand ==
  ASSUME TypeInv, LineInv, damages = 0, Payload, ~(Len(buf) + 1 < expected)
  PROVE  /\ waiting # << >> /\ Append(buf, Head(line)) = Encoded(Head(waiting))
         /\ AreFrames(Tail(line), Tail(waiting))
<1>1. state = "payload" /\ line # << >>
  BY DEF Payload, Next1
<1>2. PICK e \in Nat : e = expected
  BY TypesAre
<1>3. e <= 65535 /\ Len(buf) < e /\ ~(Len(buf) + 1 < e)
  BY <1>1, <1>2, TypesAre
<1>4. PICK b \in Seq(Nat) : b = Append(buf, Head(line))
  <2>1. Append(buf, Head(line)) \in Seq(Nat)
    BY <1>1, TypesAre, AppendProperties
  <2> QED
    BY <2>1
<1>5. PICK t \in Seq(Nat) : t = Tail(line)
  <2>1. Tail(line) \in Seq(Nat)
    BY <1>1, TypesAre
  <2> QED
    BY <2>1
<1>6. Len(b) = e
  <2>1. Len(b) = Len(buf) + 1 /\ Len(buf) \in Nat
    BY <1>1, <1>4, TypesAre, AppendProperties
  <2> QED
    BY <1>3, <2>1
<1>7. PICK g \in Seq(Nat) : g = Be16(e)
  <2>1. Be16(e) \in Seq(Nat)
    BY <1>3, Be16Type, BytesAreNat
  <2> QED
    BY <2>1
<1>8. Started \o line = g \o b \o t
  <2>1. PICK c \in Seq(Nat) : c = g \o buf
    <3>1. g \o buf \in Seq(Nat)
      BY TypesAre
    <3> QED
      BY <3>1
  <2>2. Started = c
    BY <1>1, <1>2, <1>7, <2>1 DEF Started
  <2>3. c \o line = Append(c, Head(line)) \o Tail(line)
    <3>1. line \in Seq(Nat) /\ line # << >>
      BY <1>1, TypesAre
    <3> QED
      BY <3>1, Moved
  <2>4. Append(c, Head(line)) = g \o Append(buf, Head(line))
    <3>1. PICK d \in Seq(Nat) : d = buf
      <4>1. buf \in Seq(Nat)
        BY TypesAre
      <4> QED
        BY <4>1
    <3>2. PICK h \in Nat : h = Head(line)
      BY <1>1, TypesAre
    <3>3. Append(g \o d, h) = g \o Append(d, h)
      BY PushedBehind
    <3> QED
      BY <2>1, <3>1, <3>2, <3>3
  <2> QED
    BY <1>4, <1>5, <2>2, <2>3, <2>4
<1>9. Len(b) \in Nat /\ Len(b) # 0
  BY <1>3, <1>6
<1>10. g \o b \o t # << >>
  BY <1>9
<1>11. /\ waiting # << >> /\ Head(waiting) \in Request
       /\ IsAt(g \o b \o t, 0, FrameOf(Head(waiting)))
  BY <1>8, <1>10, FrameInHand
<1>12. b = Encoded(Head(waiting)) /\ Len(g \o b) = Len(FrameOf(Head(waiting)))
  BY <1>3, <1>6, <1>7, <1>11, WholeFrame
<1>13. AreFrames(g \o b \o t, waiting) /\ waiting \in Seq(Request)
  BY <1>8 DEF LineInv
<1>14. PICK x \in Seq(Nat) : x = g \o b
  <2>1. g \o b \in Seq(Nat)
    OBVIOUS
  <2> QED
    BY <2>1
<1>15. AreFrames(t, Tail(waiting))
  BY <1>11, <1>12, <1>13, <1>14, FirstServed
<1> QED
  BY <1>4, <1>5, <1>11, <1>12, <1>15

LEMMA LineStep ==
  ASSUME RequestsFit, TypeInv, LineInv, [Next]_vars
  PROVE  LineInv'
<1>1. /\ waiting \in Seq(Request) /\ damages \in Nat
      /\ state = "len_lo" => expected % 256 = 0
      /\ damages = 0 => AreFrames(Started \o line, waiting)
  BY DEF LineInv
<1>2. ASSUME NEW r \in Request, Ask(r)
      PROVE  LineInv'
  <2>1. /\ line' = line \o Be16(Len(Encoded(r))) \o Encoded(r) /\ waiting' = Append(waiting, r)
        /\ UNCHANGED <<state, expected, buf, damages>>
    BY <1>2 DEF Ask, console
  <2>2. waiting' \in Seq(Request)
    BY <1>1, <2>1, AppendProperties
  <2>3. ASSUME damages = 0
        PROVE  AreFrames((Started \o line)', waiting')
    <3>1. PICK s \in Seq(Nat) : s = Started
      <4>1. Started \in Seq(Nat)
        BY StartedType
      <4> QED
        BY <4>1
    <3>2. PICK f \in Seq(Nat) : f = FrameOf(r)
      BY FrameType
    <3>3. PICK t \in Seq(Nat) : t = line
      <4>1. line \in Seq(Nat)
        BY TypesAre
      <4> QED
        BY <4>1
    <3>4. line' = t \o f
      <4>1. PICK g \in Seq(Nat) : g = Be16(Len(Encoded(r)))
        <5>1. Be16(Len(Encoded(r))) \in Seq(Nat)
          BY RequestsAre, Be16Type, BytesAreNat
        <5> QED
          BY <5>1
      <4>2. PICK q \in Seq(Nat) : q = Encoded(r)
        <5>1. Encoded(r) \in Seq(Nat)
          BY RequestsAre, BytesAreNat
        <5> QED
          BY <5>1
      <4>3. t \o g \o q = t \o (g \o q)
        OBVIOUS
      <4> QED
        BY <2>1, <3>2, <3>3, <4>1, <4>2, <4>3 DEF FrameOf
    <3>5. Started' = s
      BY <2>1, <3>1 DEF Started
    <3>6. s \o (t \o f) = s \o t \o f
      OBVIOUS
    <3>7. PICK x \in Seq(Nat) : x = s \o t
      <4>1. s \o t \in Seq(Nat)
        OBVIOUS
      <4> QED
        BY <4>1
    <3>8. AreFrames(x, waiting)
      BY <1>1, <2>3, <3>1, <3>3, <3>7
    <3>9. AreFrames(x \o f, Append(waiting, r))
      BY <1>1, <3>2, <3>8, OneMoreFrame
    <3> QED
      BY <2>1, <3>4, <3>5, <3>6, <3>7, <3>9
  <2> QED
    BY <1>1, <2>1, <2>2, <2>3 DEF LineInv
<1>3. CASE Disturb
  <2>1. /\ damages' = damages + 1
        /\ UNCHANGED <<state, expected, waiting>>
    BY <1>3 DEF Disturb, console
  <2>2. damages' \in Nat /\ damages' # 0
    BY <1>1, <2>1
  <2> QED
    BY <1>1, <2>1, <2>2 DEF LineInv
<1>4. CASE LenHi
  <2>1. /\ state = "len_hi" /\ line # << >> /\ line' = Tail(line)
        /\ expected' = 256 * Head(line) /\ state' = "len_lo"
        /\ UNCHANGED <<damages, waiting>>
    BY <1>4 DEF LenHi, Next1, bounds
  <2>2. Head(line) \in Nat /\ line \in Seq(Nat)
    BY <2>1, TypesAre
  <2>3. expected' % 256 = 0 /\ expected' \div 256 = Head(line)
    BY <2>1, <2>2, HighOf
  <2>4. Started = << >> /\ Started' = <<Head(line)>>
    BY <2>1, <2>3 DEF Started
  <2>5. << >> \o line = line /\ line = <<Head(line)>> \o Tail(line)
    BY <2>1, <2>2, Moved
  <2> QED
    BY <2>1, <2>3, <2>4, <2>5, LineKept
<1>5. CASE LenLo
  <2>1. /\ state = "len_lo" /\ line # << >> /\ line' = Tail(line)
        /\ UNCHANGED <<damages, waiting>>
    BY <1>5 DEF LenLo, Next1, bounds
  <2>2. CASE damages = 0
    <3>1. expected' = expected + Head(line) /\ state' = "payload" /\ buf' = << >>
      BY <1>5, <2>2, LengthInHand
    <3>2. PICK h \in Nat : h = Head(line)
      BY <2>1, TypesAre
    <3>3. PICK e \in Nat : e = expected
      BY TypesAre
    <3>4. h <= 255 /\ e % 256 = 0
      BY <1>1, <2>1, <3>2, <3>3, TypesAre
    <3>5. (e + h) \div 256 = e \div 256 /\ (e + h) % 256 = h
      BY <3>4, LowAndHigh
    <3>6. PICK a \in Nat : a = e \div 256
      OBVIOUS
    <3>7. Started = <<a>> /\ Started' = <<a, h>> \o << >>
      BY <2>1, <3>1, <3>2, <3>3, <3>5, <3>6 DEF Started, Be16
    <3>8. PICK t \in Seq(Nat) : t = Tail(line)
      <4>1. Tail(line) \in Seq(Nat)
        BY <2>1, TypesAre
      <4> QED
        BY <4>1
    <3>9. line = <<h>> \o t
      BY <2>1, <3>2, <3>8, TypesAre, Moved
    <3>10. <<a>> \o (<<h>> \o t) = <<a, h>> \o << >> \o t
      OBVIOUS
    <3>11. (Started \o line)' = Started \o line
      BY <2>1, <3>7, <3>8, <3>9, <3>10
    <3> QED
      BY <2>1, <3>1, <3>11, LineKept
  <2>3. CASE damages # 0
    <3>1. state' # "len_lo"
      BY <1>5 DEF LenLo, Reset
    <3> QED
      BY <1>1, <2>1, <2>3, <3>1 DEF LineInv
  <2> QED
    BY <2>2, <2>3
<1>6. CASE Payload
  <2>1. state = "payload" /\ line # << >> /\ line' = Tail(line) /\ damages' = damages
    BY <1>6 DEF Payload, Next1, bounds
  <2>2. CASE Len(buf) + 1 < expected
    <3>1. buf' = Append(buf, Head(line)) /\ UNCHANGED <<state, expected, waiting>>
      BY <1>6, <2>2 DEF Payload
    <3>2. PICK h \in Nat : h = Head(line)
      BY <2>1, TypesAre
    <3>3. PICK g \in Seq(Nat) : g = Be16(expected)
      <4>1. Be16(expected) \in Seq(Nat)
        BY TypesAre, Be16Type, BytesAreNat
      <4> QED
        BY <4>1
    <3>4. PICK b \in Seq(Nat) : b = buf
      <4>1. buf \in Seq(Nat)
        BY TypesAre
      <4> QED
        BY <4>1
    <3>5. PICK t \in Seq(Nat) : t = Tail(line)
      <4>1. Tail(line) \in Seq(Nat)
        BY <2>1, TypesAre
      <4> QED
        BY <4>1
    <3>6. Started = g \o b /\ Started' = g \o Append(b, h)
      BY <2>1, <3>1, <3>2, <3>3, <3>4 DEF Started
    <3>7. line = <<h>> \o t
      BY <2>1, <3>2, <3>5, TypesAre, Moved
    <3>8. g \o b \o (<<h>> \o t) = g \o Append(b, h) \o t
      <4>1. PICK x \in Seq(Nat) : x = g \o b
        <5>1. g \o b \in Seq(Nat)
          OBVIOUS
        <5> QED
          BY <5>1
      <4>2. x \o (<<h>> \o t) = Append(x, h) \o t
        BY Pushed
      <4> QED
        BY <4>1, <4>2, PushedBehind
    <3>9. (Started \o line)' = Started \o line
      BY <2>1, <3>5, <3>6, <3>7, <3>8
    <3> QED
      BY <2>1, <3>1, <3>9, LineKept
  <2>3. CASE ~(Len(buf) + 1 < expected)
    <3>1. Reset /\ waiting' = IF damages = 0 THEN Tail(waiting) ELSE waiting
      BY <1>6, <2>3 DEF Payload
    <3>2. state' = "len_hi"
      BY <3>1 DEF Reset
    <3>3. CASE damages = 0
      <4>1. waiting # << >> /\ AreFrames(Tail(line), Tail(waiting))
        BY <1>6, <2>3, <3>3, RequestInHand
      <4>2. Tail(waiting) \in Seq(Request)
        BY <1>1, <4>1, HeadTailProperties
      <4>3. (Started \o line)' = Tail(line)
        <5>1. PICK t \in Seq(Nat) : t = Tail(line)
          <6>1. Tail(line) \in Seq(Nat)
            BY <2>1, TypesAre
          <6> QED
            BY <6>1
        <5>2. << >> \o t = t
          OBVIOUS
        <5> QED
          BY <2>1, <3>2, <5>1, <5>2 DEF Started
      <4> QED
        BY <1>1, <2>1, <3>1, <3>2, <3>3, <4>1, <4>2, <4>3 DEF LineInv
    <3>4. CASE damages # 0
      BY <1>1, <2>1, <3>1, <3>2, <3>4 DEF LineInv
    <3> QED
      BY <3>3, <3>4
  <2> QED
    BY <2>2, <2>3
<1>7. CASE OnRequestWrite
  <2>1. UNCHANGED <<line, state, expected, buf, damages, waiting>>
    BY <1>7 DEF OnRequestWrite, console
  <2> QED
    BY <1>1, <2>1 DEF LineInv, Started
<1>8. CASE UNCHANGED vars
  BY <1>1, <1>8 DEF vars, console, bounds, LineInv, Started
<1> QED
  BY <1>2, <1>3, <1>4, <1>5, <1>6, <1>7, <1>8 DEF Next, Tick

\* However many frames are on the line, and wherever the console is in one of
\* them: as long as the line is not disturbed no length is refused, and what
\* the dispatcher is given is what the next host sent (SerialConsole.cpp:45-83).
THEOREM FramesArriveInOrder ==
  ASSUME CastsToFloat32, RequestsFit
  PROVE  Spec => FramesArrive
<1> DEFINE Arrives ==
             damages = 0 =>
               /\ LenLo => state' = "payload"
               /\ Payload /\ state' = "len_hi" =>
                    waiting # << >> /\ Append(buf, Head(line)) = Encoded(Head(waiting))
<1>1. TypeInv /\ LineInv => [Arrives]_vars
  <2> SUFFICES ASSUME TypeInv, LineInv, damages = 0
               PROVE  /\ LenLo => state' = "payload"
                      /\ Payload /\ state' = "len_hi" =>
                           /\ waiting # << >>
                           /\ Append(buf, Head(line)) = Encoded(Head(waiting))
    OBVIOUS
  <2>1. ASSUME Payload, state' = "len_hi"
        PROVE  waiting # << >> /\ Append(buf, Head(line)) = Encoded(Head(waiting))
    <3>1. ~(Len(buf) + 1 < expected)
      BY <2>1 DEF Payload, Next1
    <3> QED
      BY <2>1, <3>1, RequestInHand
  <2> QED
    BY <2>1, LengthInHand
<1>2. TypeInv /\ LineInv /\ [Next]_vars => LineInv'
  BY LineStep
<1>3. Spec => []TypeInv
  BY TypeHolds
<1>4. Spec => [](TypeInv /\ LineInv)
  BY LineInit, <1>2, <1>3, PTL DEF Spec
<1> QED
  BY <1>1, <1>4, PTL DEF FramesArrive
=============================================================================
