-------------------------- MODULE InterfaceProofs ---------------------------
(***************************************************************************)
(* Theorems about Interface, for any frames, bitrate, cap, queue limit and *)
(* window.                                                                 *)
(***************************************************************************)
EXTENDS Interface, SequenceTheorems, WellFoundedInduction, TLAPS

USE InterfaceAssumption

\* Induction, in the form the sums and the loop below need it: what some
\* number lacks, a least number lacks.
LEMMA Least ==
  ASSUME NEW T, T \subseteq Nat, T # {}
  PROVE  \E x \in T : \A y \in T : x <= y
<1> DEFINE R == {ss \in Nat \X Nat : ss[1] < ss[2]}
<1>1. IsWellFoundedOn(R, Nat)
  BY NatLessThanWellFounded DEF OpToRel
<1>2. \A x, y \in Nat : y < x => <<y, x>> \in R
  OBVIOUS
<1> HIDE DEF R
<1>3. PICK x \in T : \A y \in T : ~(<<y, x>> \in R)
  BY <1>1, WFMin
<1>4. \A y \in T : ~(y < x)
  BY <1>2, <1>3
<1>5. \A y \in T : x <= y
  BY <1>3, <1>4
<1> QED
  BY <1>5

-----------------------------------------------------------------------------
(* The airtime of a log *)

\* The function that AirtimeIn adds up with.
SumOf(log, s) ==
  s = [k \in 0 .. Len(log) |-> IF k = 0 THEN 0 ELSE s[k - 1] + log[k].airtime]

LEMMA SumValues ==
  ASSUME NEW log \in Seq(Emissions), NEW s, SumOf(log, s)
  PROVE  /\ s[0] = 0
         /\ \A k \in 1 .. Len(log) : s[k] = s[k - 1] + log[k].airtime
         /\ \A k \in 0 .. Len(log) : s[k] \in Nat
<1>1. Len(log) \in Nat /\ \A k \in 1 .. Len(log) : log[k].airtime \in Nat
  <2>1. \A k \in 1 .. Len(log) : log[k] \in Emissions
    OBVIOUS
  <2> QED
    BY <2>1 DEF Emissions
<1>2. \A k \in 0 .. Len(log) : s[k] = IF k = 0 THEN 0 ELSE s[k - 1] + log[k].airtime
  BY DEF SumOf
<1>3. s[0] = 0 /\ \A k \in 1 .. Len(log) : s[k] = s[k - 1] + log[k].airtime
  BY <1>1, <1>2
<1> DEFINE T == {k \in 0 .. Len(log) : s[k] \notin Nat}
<1>4. ASSUME T # {} PROVE FALSE
  <2>1. T \subseteq Nat
    OBVIOUS
  <2>2. PICK k \in T : \A j \in T : k <= j
    BY <1>4, <2>1, Least
  <2>3. k \in 1 .. Len(log)
    BY <1>1, <1>3, <2>2
  <2>4. k - 1 \in 0 .. Len(log) /\ k - 1 \notin T
    BY <1>1, <2>2, <2>3
  <2>5. s[k] \in Nat
    BY <1>1, <1>3, <2>3, <2>4
  <2> QED
    BY <2>2, <2>5
<1> QED
  BY <1>3, <1>4

LEMMA SumUnique ==
  ASSUME NEW log \in Seq(Emissions), NEW s, NEW t, SumOf(log, s), SumOf(log, t)
  PROVE  s = t
<1> DEFINE T == {k \in 0 .. Len(log) : s[k] # t[k]}
<1>1. Len(log) \in Nat
  OBVIOUS
<1>2. /\ s[0] = t[0]
      /\ \A k \in 1 .. Len(log) : s[k] = s[k - 1] + log[k].airtime
                                  /\ t[k] = t[k - 1] + log[k].airtime
  BY SumValues
<1>3. ASSUME T # {} PROVE FALSE
  <2>1. T \subseteq Nat
    OBVIOUS
  <2>2. PICK k \in T : \A j \in T : k <= j
    BY <1>3, <2>1, Least
  <2>3. k \in 1 .. Len(log)
    BY <1>1, <1>2, <2>2
  <2>4. k - 1 \in 0 .. Len(log) /\ k - 1 \notin T
    BY <1>1, <2>2, <2>3
  <2>5. s[k] = t[k]
    BY <1>2, <2>3, <2>4
  <2> QED
    BY <2>2, <2>5
<1>4. \A k \in 0 .. Len(log) : s[k] = t[k]
  BY <1>3
<1>5. /\ s = [k \in 0 .. Len(log) |-> s[k]]
      /\ t = [k \in 0 .. Len(log) |-> t[k]]
  BY DEF SumOf
<1> QED
  BY <1>4, <1>5

LEMMA SumExists ==
  ASSUME NEW log \in Seq(Emissions)
  PROVE  \E s : SumOf(log, s)
<1> DEFINE Sums(n, s) ==
             s = [k \in 0 .. n |-> IF k = 0 THEN 0 ELSE s[k - 1] + log[k].airtime]
           T == {n \in 0 .. Len(log) : ~ \E s : Sums(n, s)}
<1>1. Len(log) \in Nat
  OBVIOUS
<1>2. ASSUME T # {} PROVE FALSE
  <2>1. T \subseteq Nat
    OBVIOUS
  <2>2. PICK n \in T : \A j \in T : n <= j
    BY <1>2, <2>1, Least
  <2>3. CASE n = 0
    <3>1. Sums(0, [k \in 0 .. 0 |-> 0])
      OBVIOUS
    <3> QED
      BY <2>2, <2>3, <3>1
  <2>4. CASE n # 0
    <3>1. n - 1 \in 0 .. Len(log) /\ n - 1 \notin T /\ n \in 1 .. Len(log)
      BY <1>1, <2>2, <2>4
    <3>2. PICK s : Sums(n - 1, s)
      BY <3>1
    <3> DEFINE t == [k \in 0 .. n |-> IF k = n THEN s[n - 1] + log[n].airtime ELSE s[k]]
    <3>3. \A k \in 0 .. n : t[k] = IF k = 0 THEN 0 ELSE t[k - 1] + log[k].airtime
      <4>1. \A k \in 0 .. n - 1 : s[k] = IF k = 0 THEN 0 ELSE s[k - 1] + log[k].airtime
        BY <3>2
      <4>2. \A k \in 0 .. n : k - 1 # n /\ (k # 0 => k - 1 \in 0 .. n - 1)
        BY <3>1
      <4> QED
        BY <3>1, <4>1, <4>2
    <3>4. Sums(n, t)
      BY <3>3
    <3> QED
      BY <2>2, <3>4
  <2> QED
    BY <2>3, <2>4
<1>3. Len(log) \notin T
  BY <1>2
<1>4. \E s : Sums(Len(log), s)
  BY <1>1, <1>3
<1> QED
  BY <1>4 DEF SumOf

LEMMA AirtimeIsSum ==
  ASSUME NEW log \in Seq(Emissions), NEW s, SumOf(log, s)
  PROVE  AirtimeIn(log) = s[Len(log)]
<1> DEFINE u == CHOOSE t : SumOf(log, t)
<1>1. SumOf(log, u)
  BY SumExists
<1>2. u = s
  BY <1>1, SumUnique
<1>3. AirtimeIn(log) = u[Len(log)]
  BY DEF AirtimeIn, SumOf
<1> QED
  BY <1>2, <1>3

LEMMA AirtimeType ==
  ASSUME NEW log \in Seq(Emissions)
  PROVE  AirtimeIn(log) \in Nat
<1>1. PICK s : SumOf(log, s)
  BY SumExists
<1> QED
  BY <1>1, AirtimeIsSum, SumValues, LenProperties

LEMMA AirtimeOfNothing ==
  AirtimeIn(<< >>) = 0
<1>1. << >> \in Seq(Emissions) /\ Len(<< >>) = 0
  BY EmptySeq
<1> DEFINE s == [k \in 0 .. 0 |-> 0]
<1>2. SumOf(<< >>, s)
  BY <1>1 DEF SumOf
<1>3. AirtimeIn(<< >>) = s[0]
  BY <1>1, <1>2, AirtimeIsSum
<1> QED
  BY <1>3

\* An emission adds its airtime.
LEMMA AirtimeOfAppend ==
  ASSUME NEW log \in Seq(Emissions), NEW e \in Emissions
  PROVE  AirtimeIn(Append(log, e)) = AirtimeIn(log) + e.airtime
<1> DEFINE more == Append(log, e)
           n    == Len(log)
<1>1. /\ more \in Seq(Emissions) /\ Len(more) = n + 1 /\ n \in Nat
      /\ \A k \in 1 .. n : more[k] = log[k]
      /\ more[n + 1] = e
  BY AppendProperties, LenProperties
<1> HIDE DEF more
<1>2. PICK s : SumOf(more, s)
  BY <1>1, SumExists
<1>3. /\ s[0] = 0
      /\ \A k \in 1 .. n + 1 : s[k] = s[k - 1] + more[k].airtime
  BY <1>1, <1>2, SumValues
<1> DEFINE t == [k \in 0 .. n |-> s[k]]
<1>4. SumOf(log, t)
  <2>1. \A k \in 0 .. n : t[k] = IF k = 0 THEN 0 ELSE t[k - 1] + log[k].airtime
    <3>1. \A k \in 1 .. n : k \in 1 .. n + 1 /\ k - 1 \in 0 .. n /\ more[k] = log[k]
      BY <1>1
    <3> QED
      BY <1>1, <1>3, <3>1
  <2> QED
    BY <2>1 DEF SumOf
<1>5. AirtimeIn(log) = s[n]
  <2>1. AirtimeIn(log) = t[n]
    BY <1>4, AirtimeIsSum
  <2> QED
    BY <1>1, <2>1
<1>6. AirtimeIn(more) = s[n + 1]
  BY <1>1, <1>2, AirtimeIsSum
<1>7. s[n + 1] = s[n] + e.airtime
  <2>1. n + 1 \in 1 .. n + 1 /\ (n + 1) - 1 = n
    BY <1>1
  <2> QED
    BY <1>1, <1>3, <2>1
<1> QED
  BY <1>5, <1>6, <1>7 DEF more

\* Logs that differ in the ages only take the same airtime.
LEMMA AirtimeIgnoresAge ==
  ASSUME NEW log \in Seq(Emissions), NEW other \in Seq(Emissions),
         Len(other) = Len(log),
         \A k \in 1 .. Len(log) : other[k].airtime = log[k].airtime
  PROVE  AirtimeIn(other) = AirtimeIn(log)
<1>1. PICK s : SumOf(log, s)
  BY SumExists
<1>2. SumOf(other, s)
  <2>1. \A k \in 0 .. Len(log) :
          (IF k = 0 THEN 0 ELSE s[k - 1] + other[k].airtime)
            = (IF k = 0 THEN 0 ELSE s[k - 1] + log[k].airtime)
    <3>1. \A k \in 0 .. Len(log) : k # 0 => k \in 1 .. Len(log)
      BY LenProperties
    <3> QED
      BY <3>1
  <2> QED
    BY <1>1, <2>1 DEF SumOf
<1> QED
  BY <1>1, <1>2, AirtimeIsSum

\* What is left of a log takes no more airtime than the log.
LEMMA AirtimeOfRest ==
  ASSUME NEW log \in Seq(Emissions), NEW m \in 1 .. Len(log) + 1
  PROVE  AirtimeIn(SubSeq(log, m, Len(log))) <= AirtimeIn(log)
<1> DEFINE n    == Len(log)
           rest == SubSeq(log, m, n)
<1>1. /\ n \in Nat /\ m \in 1 .. n + 1
      /\ rest \in Seq(Emissions) /\ Len(rest) = n - m + 1
      /\ \A k \in 1 .. n - m + 1 : rest[k] = log[m + k - 1]
  <2>1. n \in Nat /\ m \in 1 .. n + 1
    BY LenProperties
  <2>2. \A k \in m .. n : log[k] \in Emissions
    BY <2>1, ElementOfSeq
  <2> QED
    BY <2>1, <2>2, SubSeqProperties
<1> HIDE DEF rest
<1>2. PICK s : SumOf(log, s)
  BY SumExists
<1>3. /\ \A k \in 1 .. n : s[k] = s[k - 1] + log[k].airtime
      /\ \A k \in 0 .. n : s[k] \in Nat
      /\ \A k \in 1 .. n : log[k].airtime \in Nat
  <2>1. \A k \in 1 .. n : log[k] \in Emissions
    BY ElementOfSeq
  <2> QED
    BY <1>2, <2>1, SumValues DEF Emissions
<1> DEFINE t == [k \in 0 .. n - m + 1 |-> s[m - 1 + k] - s[m - 1]]
<1>4. SumOf(rest, t)
  <2>1. \A k \in 0 .. n - m + 1 : m - 1 + k \in 0 .. n /\ m - 1 \in 0 .. n
    BY <1>1
  <2>2. \A k \in 1 .. n - m + 1 : /\ k - 1 \in 0 .. n - m + 1 /\ m - 1 + k \in 1 .. n
                                 /\ (m - 1 + k) - 1 = m - 1 + (k - 1)
                                 /\ m - 1 + k = m + k - 1
    BY <1>1
  <2>3. t[0] = 0
    BY <1>1, <1>3, <2>1
  <2>4. ASSUME NEW k \in 1 .. n - m + 1
        PROVE  t[k] = t[k - 1] + rest[k].airtime
    <3>1. s[m - 1 + k] = s[m - 1 + (k - 1)] + rest[k].airtime
      BY <1>1, <1>3, <2>2
    <3>2. /\ s[m - 1] \in Nat /\ s[m - 1 + (k - 1)] \in Nat
          /\ rest[k].airtime \in Nat
      BY <1>1, <1>3, <2>1, <2>2
    <3>3. /\ t[k] = s[m - 1 + k] - s[m - 1]
          /\ t[k - 1] = s[m - 1 + (k - 1)] - s[m - 1]
      BY <1>1, <2>2
    <3> HIDE DEF t
    <3> QED
      BY <3>1, <3>2, <3>3
  <2>5. \A k \in 0 .. n - m + 1 : t[k] = IF k = 0 THEN 0 ELSE t[k - 1] + rest[k].airtime
    <3>1. \A k \in 0 .. n - m + 1 : k # 0 => k \in 1 .. n - m + 1
      BY <1>1
    <3> HIDE DEF t
    <3> QED
      BY <2>3, <2>4, <3>1
  <2> QED
    BY <1>1, <2>5 DEF SumOf
<1>5. AirtimeIn(rest) = t[n - m + 1]
  BY <1>1, <1>4, AirtimeIsSum
<1>6. AirtimeIn(log) = s[n] /\ s[n] \in Nat /\ s[m - 1] \in Nat
  BY <1>1, <1>2, <1>3, AirtimeIsSum
<1>7. t[n - m + 1] = s[n] - s[m - 1]
  <2>1. m - 1 + (n - m + 1) = n /\ n - m + 1 \in 0 .. n - m + 1
    BY <1>1
  <2> QED
    BY <2>1
<1>8. AirtimeIn(rest) <= AirtimeIn(log)
  BY <1>5, <1>6, <1>7
<1> QED
  BY <1>8 DEF rest

-----------------------------------------------------------------------------
(* What is left of a log *)

\* Where the part of a log begins that Since keeps.
FirstSince(log, age, m) ==
  /\ m \in 1 .. Len(log) + 1
  /\ \A j \in 1 .. m - 1 : log[j].age > age
  /\ m <= Len(log) => log[m].age <= age

LEMMA FirstExists ==
  ASSUME NEW log \in Seq(Emissions), NEW age \in Int
  PROVE  \E m : FirstSince(log, age, m)
<1> DEFINE T == {k \in 1 .. Len(log) : log[k].age <= age}
<1>1. Len(log) \in Nat /\ \A k \in 1 .. Len(log) : log[k].age \in Int
  <2>1. \A k \in 1 .. Len(log) : log[k] \in Emissions
    BY ElementOfSeq
  <2> QED
    BY <2>1, LenProperties DEF Emissions
<1>2. CASE T = {}
  <2>1. \A j \in 1 .. Len(log) : log[j].age > age
    BY <1>1, <1>2
  <2>2. FirstSince(log, age, Len(log) + 1)
    BY <1>1, <2>1 DEF FirstSince
  <2> QED
    BY <2>2
<1>3. CASE T # {}
  <2>1. T \subseteq Nat
    OBVIOUS
  <2>2. PICK m \in T : \A j \in T : m <= j
    BY <1>3, <2>1, Least
  <2>3. \A j \in 1 .. m - 1 : j \in 1 .. Len(log) /\ j \notin T
    BY <1>1, <2>2
  <2>4. FirstSince(log, age, m)
    BY <1>1, <2>2, <2>3 DEF FirstSince
  <2> QED
    BY <2>4
<1> QED
  BY <1>2, <1>3

LEMMA FirstUnique ==
  ASSUME NEW log \in Seq(Emissions), NEW age \in Int,
         NEW m, NEW k, FirstSince(log, age, m), FirstSince(log, age, k)
  PROVE  m = k
<1>1. Len(log) \in Nat /\ \A j \in 1 .. Len(log) : log[j].age \in Int
  <2>1. \A j \in 1 .. Len(log) : log[j] \in Emissions
    BY ElementOfSeq
  <2> QED
    BY <2>1, LenProperties DEF Emissions
<1>2. m \in 1 .. Len(log) + 1 /\ k \in 1 .. Len(log) + 1
  BY DEF FirstSince
<1>3. ~(m < k)
  <2>1. SUFFICES ASSUME m < k PROVE FALSE
    OBVIOUS
  <2>2. m \in 1 .. k - 1 /\ m <= Len(log) /\ m \in 1 .. Len(log)
    BY <1>1, <1>2, <2>1
  <2>3. log[m].age > age /\ log[m].age <= age
    BY <2>2 DEF FirstSince
  <2> QED
    BY <1>1, <2>2, <2>3
<1>4. ~(k < m)
  <2>1. SUFFICES ASSUME k < m PROVE FALSE
    OBVIOUS
  <2>2. k \in 1 .. m - 1 /\ k <= Len(log) /\ k \in 1 .. Len(log)
    BY <1>1, <1>2, <2>1
  <2>3. log[k].age > age /\ log[k].age <= age
    BY <2>2 DEF FirstSince
  <2> QED
    BY <1>1, <2>2, <2>3
<1> QED
  BY <1>1, <1>2, <1>3, <1>4

\* Since is what stands from that place on.
LEMMA SinceIsRest ==
  ASSUME NEW log \in Seq(Emissions), NEW age \in Int, NEW m,
         FirstSince(log, age, m)
  PROVE  /\ Since(log, age) = SubSeq(log, m, Len(log))
         /\ Since(log, age) \in Seq(Emissions)
         /\ Len(Since(log, age)) = Len(log) - m + 1
         /\ \A k \in 1 .. Len(log) - m + 1 : Since(log, age)[k] = log[m + k - 1]
<1> DEFINE first == CHOOSE k \in 1 .. Len(log) + 1 :
                      /\ \A j \in 1 .. k - 1 : log[j].age > age
                      /\ k <= Len(log) => log[k].age <= age
<1>1. FirstSince(log, age, first)
  <2>1. \E k \in 1 .. Len(log) + 1 : /\ \A j \in 1 .. k - 1 : log[j].age > age
                                     /\ k <= Len(log) => log[k].age <= age
    BY FirstExists DEF FirstSince
  <2> QED
    BY <2>1 DEF FirstSince
<1>2. first = m
  <2> HIDE DEF first
  <2> QED
    BY <1>1, FirstUnique
<1>3. Since(log, age) = SubSeq(log, first, Len(log))
  BY DEF Since
<1> HIDE DEF first
<1>4. Since(log, age) = SubSeq(log, m, Len(log))
  BY <1>2, <1>3
<1>5. Len(log) \in Nat /\ m \in 1 .. Len(log) + 1
  BY LenProperties DEF FirstSince
<1>6. \A k \in m .. Len(log) : log[k] \in Emissions
  BY <1>5, ElementOfSeq
<1>7. /\ SubSeq(log, m, Len(log)) \in Seq(Emissions)
      /\ Len(SubSeq(log, m, Len(log))) = Len(log) - m + 1
      /\ \A k \in 1 .. Len(log) - m + 1 : SubSeq(log, m, Len(log))[k] = log[m + k - 1]
  BY <1>5, <1>6, SubSeqProperties
<1> QED
  BY <1>4, <1>7

\* Nothing goes from a log whose first emission is young enough.
LEMMA SinceOfYoung ==
  ASSUME NEW log \in Seq(Emissions), NEW age \in Int,
         Len(log) > 0 => log[1].age <= age
  PROVE  Since(log, age) = log
<1>1. Len(log) \in Nat
  BY LenProperties
<1>2. FirstSince(log, age, 1)
  BY <1>1 DEF FirstSince
<1>3. Since(log, age) = SubSeq(log, 1, Len(log))
  BY <1>2, SinceIsRest
<1> QED
  BY <1>3, SubSeqFull

LEMMA SinceOfNothing ==
  ASSUME NEW age \in Int
  PROVE  Since(<< >>, age) = << >>
<1>1. << >> \in Seq(Emissions) /\ ~(Len(<< >>) > 0)
  BY EmptySeq
<1> QED
  BY <1>1, SinceOfYoung

\* Taking older emissions off a log first makes no difference.
LEMMA SinceOfRest ==
  ASSUME NEW log \in Seq(Emissions), NEW age \in Int, NEW m \in 1 .. Len(log) + 1,
         \A j \in 1 .. m - 1 : log[j].age > age
  PROVE  Since(SubSeq(log, m, Len(log)), age) = Since(log, age)
<1> DEFINE n    == Len(log)
           rest == SubSeq(log, m, n)
<1>1. /\ n \in Nat /\ m \in 1 .. n + 1
      /\ rest \in Seq(Emissions) /\ Len(rest) = n - m + 1
      /\ \A j \in 1 .. n - m + 1 : rest[j] = log[m + j - 1]
  <2>1. n \in Nat /\ m \in 1 .. n + 1
    BY LenProperties
  <2>2. \A j \in m .. n : log[j] \in Emissions
    BY <2>1, ElementOfSeq
  <2> QED
    BY <2>1, <2>2, SubSeqProperties
<1> HIDE DEF rest
<1>2. PICK k : FirstSince(log, age, k)
  BY FirstExists
<1>3. k \in 1 .. n + 1 /\ k >= m
  <2>1. k \in 1 .. n + 1 /\ (k <= n => log[k].age <= age)
    BY <1>2 DEF FirstSince
  <2>2. SUFFICES ASSUME k < m PROVE FALSE
    BY <1>1, <2>1
  <2>3. k \in 1 .. m - 1 /\ k \in 1 .. n
    BY <1>1, <2>1, <2>2
  <2>4. log[k].age > age /\ log[k].age <= age
    BY <1>1, <2>1, <2>3
  <2>5. log[k] \in Emissions
    BY <2>3, ElementOfSeq
  <2> QED
    BY <2>4, <2>5 DEF Emissions
<1> DEFINE i == k - m + 1
<1>4. FirstSince(rest, age, i)
  <2>1. i \in 1 .. Len(rest) + 1
    BY <1>1, <1>3
  <2>2. ASSUME NEW j \in 1 .. i - 1
        PROVE  rest[j].age > age
    <3>1. /\ j \in 1 .. n - m + 1 /\ m + j - 1 \in 1 .. k - 1
      BY <1>1, <1>3
    <3>2. log[m + j - 1].age > age
      BY <1>2, <3>1 DEF FirstSince
    <3> QED
      BY <1>1, <3>1, <3>2
  <2>3. ASSUME i <= Len(rest)
        PROVE  rest[i].age <= age
    <3>1. i \in 1 .. n - m + 1 /\ m + i - 1 = k /\ k <= n
      BY <1>1, <1>3, <2>3
    <3>2. log[k].age <= age
      BY <1>2, <3>1 DEF FirstSince
    <3> QED
      BY <1>1, <3>1, <3>2
  <2> QED
    BY <2>1, <2>2, <2>3 DEF FirstSince
<1>5. /\ Since(log, age) \in Seq(Emissions)
      /\ Len(Since(log, age)) = n - k + 1
      /\ \A j \in 1 .. n - k + 1 : Since(log, age)[j] = log[k + j - 1]
  BY <1>2, SinceIsRest
<1>6. /\ Since(rest, age) \in Seq(Emissions)
      /\ Len(Since(rest, age)) = n - m + 1 - i + 1
      /\ \A j \in 1 .. n - m + 1 - i + 1 : Since(rest, age)[j] = rest[i + j - 1]
  <2> HIDE DEF i
  <2>1. /\ Since(rest, age) \in Seq(Emissions)
        /\ Len(Since(rest, age)) = Len(rest) - i + 1
        /\ \A j \in 1 .. Len(rest) - i + 1 : Since(rest, age)[j] = rest[i + j - 1]
    <3>1. rest \in Seq(Emissions)
      BY <1>1
    <3> QED
      BY <1>4, <3>1, SinceIsRest
  <2>2. i \in Int /\ Len(rest) - i + 1 = n - m + 1 - i + 1
    BY <1>1, <1>3 DEF i
  <2> QED
    BY <2>1, <2>2
<1>7. n - m + 1 - i + 1 = n - k + 1
  BY <1>1, <1>3
<1>8. ASSUME NEW j \in 1 .. n - k + 1
      PROVE  Since(rest, age)[j] = Since(log, age)[j]
  <2>1. /\ i + j - 1 \in 1 .. n - m + 1
        /\ m + (i + j - 1) - 1 = k + j - 1
    BY <1>1, <1>3
  <2>2. rest[i + j - 1] = log[k + j - 1]
    BY <1>1, <2>1
  <2> QED
    BY <1>5, <1>6, <1>7, <2>2
<1>9. Since(rest, age) = Since(log, age)
  <2> HIDE DEF i
  <2> QED
    BY <1>5, <1>6, <1>7, <1>8, SeqEqual
<1> QED
  BY <1>9 DEF rest

LEMMA PrunedType ==
  ASSUME NEW log \in Seq(Emissions)
  PROVE  /\ Pruned(log) \in Seq(Emissions)
         /\ Len(Pruned(log)) > 0 => Pruned(log)[1].age <= Window
         /\ Pruned(Pruned(log)) = Pruned(log)
<1>1. PICK m : FirstSince(log, Window, m)
  BY FirstExists
<1>2. /\ Pruned(log) \in Seq(Emissions)
      /\ Len(Pruned(log)) = Len(log) - m + 1
      /\ \A k \in 1 .. Len(log) - m + 1 : Pruned(log)[k] = log[m + k - 1]
  BY <1>1, SinceIsRest DEF Pruned
<1>3. ASSUME Len(Pruned(log)) > 0
      PROVE  Pruned(log)[1].age <= Window
  <2>1. m \in 1 .. Len(log) + 1 /\ Len(log) \in Nat
    BY <1>1, LenProperties DEF FirstSince
  <2>2. 1 \in 1 .. Len(log) - m + 1 /\ m + 1 - 1 = m /\ m <= Len(log)
    BY <1>2, <1>3, <2>1
  <2>3. Pruned(log)[1] = log[m]
    BY <1>2, <2>2
  <2> QED
    BY <1>1, <2>2, <2>3 DEF FirstSince
<1>4. Pruned(Pruned(log)) = Pruned(log)
  BY <1>2, <1>3, SinceOfYoung DEF Pruned
<1> QED
  BY <1>2, <1>3, <1>4

\* What was just sent stays behind what the prune left.
LEMMA PrunedAppend ==
  ASSUME NEW log \in Seq(Emissions), NEW e \in Emissions, e.age = 0
  PROVE  Pruned(Append(Pruned(log), e)) = Append(Pruned(log), e)
<1> DEFINE old  == Pruned(log)
           more == Append(old, e)
<1>1. old \in Seq(Emissions) /\ (Len(old) > 0 => old[1].age <= Window)
  BY PrunedType
<1> HIDE DEF old
<1>2. /\ more \in Seq(Emissions) /\ Len(more) = Len(old) + 1 /\ Len(old) \in Nat
      /\ \A k \in 1 .. Len(old) : more[k] = old[k]
      /\ more[Len(old) + 1] = e
  BY <1>1, AppendProperties, LenProperties
<1>3. more[1].age <= Window
  <2>1. CASE Len(old) = 0
    BY <1>2, <2>1
  <2>2. CASE Len(old) > 0
    BY <1>1, <1>2, <2>2
  <2> QED
    BY <1>2, <2>1, <2>2
<1>4. Pruned(more) = more
  <2> HIDE DEF more
  <2> QED
    BY <1>2, <1>3, SinceOfYoung DEF Pruned
<1> QED
  BY <1>4 DEF old

-----------------------------------------------------------------------------
(* A millisecond passes *)

Older(log) == [k \in DOMAIN log |-> Aged(log[k])]

LEMMA OlderType ==
  ASSUME NEW log \in Seq(Emissions)
  PROVE  /\ Older(log) \in Seq(Emissions) /\ Len(Older(log)) = Len(log)
         /\ \A k \in 1 .. Len(log) : /\ Older(log)[k] = Aged(log[k])
                                     /\ Older(log)[k].airtime = log[k].airtime
                                     /\ log[k].age > Window => Older(log)[k].age > Window
<1>1. \A e \in Emissions : /\ Aged(e) \in Emissions /\ Aged(e).airtime = e.airtime
                           /\ e.age > Window => Aged(e).age > Window
  BY DEF Aged, Emissions
<1>2. DOMAIN log = 1 .. Len(log) /\ Len(log) \in Nat
      /\ \A k \in 1 .. Len(log) : log[k] \in Emissions
  BY LenProperties, ElementOfSeq
<1>3. /\ Older(log) = [k \in 1 .. Len(log) |-> Aged(log[k])]
      /\ \A k \in 1 .. Len(log) : Older(log)[k] = Aged(log[k]) /\ Aged(log[k]) \in Emissions
  BY <1>1, <1>2 DEF Older
<1>4. Older(log) \in Seq(Emissions) /\ Len(Older(log)) = Len(log)
  BY <1>2, <1>3
<1> QED
  BY <1>1, <1>2, <1>3, <1>4

\* What a prune leaves later does not depend on whether one came before.
LEMMA PrunedOlder ==
  ASSUME NEW log \in Seq(Emissions)
  PROVE  Pruned(Older(log)) = Pruned(Older(Pruned(log)))
<1> DEFINE n == Len(log)
<1>1. PICK m : FirstSince(log, Window, m)
  BY FirstExists
<1>2. m \in 1 .. n + 1 /\ n \in Nat
  BY <1>1, LenProperties DEF FirstSince
<1>3. /\ Pruned(log) \in Seq(Emissions) /\ Len(Pruned(log)) = n - m + 1
      /\ \A k \in 1 .. n - m + 1 : Pruned(log)[k] = log[m + k - 1]
  BY <1>1, SinceIsRest DEF Pruned
<1>4. /\ Older(log) \in Seq(Emissions) /\ Len(Older(log)) = n
      /\ \A k \in 1 .. n : Older(log)[k] = Aged(log[k])
      /\ \A k \in 1 .. n : log[k].age > Window => Older(log)[k].age > Window
  BY OlderType
<1>5. /\ Older(Pruned(log)) \in Seq(Emissions) /\ Len(Older(Pruned(log))) = n - m + 1
      /\ \A k \in 1 .. n - m + 1 : Older(Pruned(log))[k] = Aged(Pruned(log)[k])
  BY <1>3, OlderType
<1> DEFINE rest == SubSeq(Older(log), m, n)
<1>6. /\ rest \in Seq(Emissions) /\ Len(rest) = n - m + 1
      /\ \A k \in 1 .. n - m + 1 : rest[k] = Older(log)[m + k - 1]
  <2>1. \A k \in m .. n : Older(log)[k] \in Emissions
    BY <1>2, <1>4, ElementOfSeq
  <2> QED
    BY <1>2, <2>1, SubSeqProperties
<1>7. ASSUME NEW k \in 1 .. n - m + 1
      PROVE  Older(Pruned(log))[k] = rest[k]
  <2>1. m + k - 1 \in 1 .. n
    BY <1>2
  <2> HIDE DEF rest
  <2> QED
    BY <1>3, <1>4, <1>5, <1>6, <2>1
<1>8. Older(Pruned(log)) = rest
  <2> HIDE DEF rest
  <2> QED
    BY <1>5, <1>6, <1>7, SeqEqual
<1>9. \A j \in 1 .. m - 1 : Older(log)[j].age > Window
  <2>1. \A j \in 1 .. m - 1 : j \in 1 .. n /\ log[j].age > Window
    BY <1>1, <1>2 DEF FirstSince
  <2> QED
    BY <1>4, <2>1
<1>10. Since(rest, Window) = Since(Older(log), Window)
  BY <1>2, <1>4, <1>9, SinceOfRest
<1> QED
  BY <1>8, <1>10 DEF Pruned

-----------------------------------------------------------------------------
(* The queue *)

LEMMA AirtimeOfType ==
  /\ \A f \in Frame : AirtimeOf(f) \in Nat
  /\ WindowCap \in Nat
<1>1. ASSUME NEW f \in Frame PROVE AirtimeOf(f) \in Nat
  <2>1. f.size * 8000 \in Nat
    OBVIOUS
  <2>2. ASSUME NEW a \in Nat, NEW b \in Nat, b > 0
        PROVE  a \div b \in Nat
    BY <2>2
  <2> QED
    BY <2>1, <2>2 DEF AirtimeOf
<1>2. WindowCap \in Nat
  <2>1. CapPct * Window \in Nat
    OBVIOUS
  <2>2. \A a \in Nat : a \div 100 \in Nat
    OBVIOUS
  <2> QED
    BY <2>1, <2>2 DEF WindowCap
<1> QED
  BY <1>1, <1>2

\* The pick is the first of the announces with the fewest hops.
LEMMA PickFirstOfNearest ==
  ASSUME NEW q \in Seq(Frame), q # << >>
  PROVE  /\ Pick(q) \in 1 .. Len(q)
         /\ \A j \in 1 .. Len(q) : q[Pick(q)].hops <= q[j].hops
         /\ \A j \in 1 .. Pick(q) - 1 : q[Pick(q)].hops < q[j].hops
<1>1. /\ Len(q) \in Nat /\ Len(q) # 0 /\ DOMAIN q = 1 .. Len(q)
      /\ \A j \in 1 .. Len(q) : q[j].hops \in Nat
  <2>1. \A j \in 1 .. Len(q) : q[j] \in Frame
    BY ElementOfSeq
  <2>2. Len(q) \in Nat /\ Len(q) # 0 /\ DOMAIN q = 1 .. Len(q)
    <3>1. \A r \in Seq(Frame) : r # << >> => Len(r) \in Nat \ {0}
      BY EmptySeq
    <3> QED
      BY <3>1, LenProperties
  <2>3. \A f \in Frame : f.hops \in Nat
    <3>1. \A f \in Frame : f.hops \in 0 .. 255
      OBVIOUS
    <3>2. \A h \in 0 .. 255 : h \in Nat
      OBVIOUS
    <3> QED
      BY <3>1, <3>2
  <2> QED
    BY <2>1, <2>2, <2>3
<1> DEFINE H == {q[j].hops : j \in 1 .. Len(q)}
<1>2. PICK h \in H : \A g \in H : h <= g
  <2>1. H \subseteq Nat
    BY <1>1
  <2>2. q[1].hops \in H
    BY <1>1
  <2> HIDE DEF H
  <2> QED
    BY <2>1, <2>2, Least
<1> DEFINE K == {j \in 1 .. Len(q) : q[j].hops = h}
<1>3. PICK k \in K : \A j \in K : k <= j
  <2>1. K \subseteq Nat
    OBVIOUS
  <2>2. K # {}
    BY <1>2
  <2> HIDE DEF K
  <2> QED
    BY <2>1, <2>2, Least
<1>4. \A j \in 1 .. Len(q) : q[k].hops <= q[j].hops
  BY <1>2, <1>3
<1>5. \A j \in 1 .. k - 1 : q[k].hops < q[j].hops
  <2>1. \A j \in 1 .. k - 1 : j \in 1 .. Len(q) /\ j \notin K
    BY <1>1, <1>3
  <2>2. \A j \in 1 .. k - 1 : q[j].hops # h /\ q[k].hops <= q[j].hops
    BY <1>4, <2>1
  <2>3. k \in 1 .. Len(q) /\ q[k].hops = h
    BY <1>3
  <2> QED
    BY <1>1, <2>1, <2>2, <2>3
<1>6. \E m \in DOMAIN q : /\ \A j \in DOMAIN q : q[m].hops <= q[j].hops
                          /\ \A j \in 1 .. m - 1 : q[m].hops < q[j].hops
  BY <1>1, <1>3, <1>4, <1>5
<1> QED
  BY <1>1, <1>6 DEF Pick

LEMMA RemovedType ==
  ASSUME NEW q \in Seq(Frame), NEW k \in 1 .. Len(q)
  PROVE  /\ RemoveAt(q, k) \in Seq(Frame)
         /\ RemoveAt(q, k) = SubSeq(q, 1, k - 1) \o SubSeq(q, k + 1, Len(q))
         /\ SubSeq(q, 1, k - 1) \in Seq(Frame) /\ SubSeq(q, k + 1, Len(q)) \in Seq(Frame)
         /\ Len(RemoveAt(q, k)) = Len(q) - 1
         /\ \A j \in 1 .. Len(q) - 1 :
              RemoveAt(q, k)[j] = IF j < k THEN q[j] ELSE q[j + 1]
<1> DEFINE n == Len(q)
           u == SubSeq(q, 1, k - 1)
           v == SubSeq(q, k + 1, n)
<1>1. n \in Nat /\ \A j \in 1 .. n : q[j] \in Frame
  BY LenProperties, ElementOfSeq
<1>2. /\ u \in Seq(Frame) /\ Len(u) = k - 1
      /\ \A j \in 1 .. k - 1 : u[j] = q[j]
  <2>1. \A j \in 1 .. k - 1 : q[j] \in Frame
    BY <1>1
  <2> QED
    BY <1>1, <2>1, SubSeqProperties
<1>3. /\ v \in Seq(Frame) /\ Len(v) = n - k
      /\ \A j \in 1 .. n - k : v[j] = q[k + j]
  <2>1. \A j \in k + 1 .. n : q[j] \in Frame
    BY <1>1
  <2>2. /\ v \in Seq(Frame)
        /\ Len(v) = IF k + 1 <= n THEN n - (k + 1) + 1 ELSE 0
        /\ \A j \in 1 .. n - (k + 1) + 1 : v[j] = q[k + 1 + j - 1]
    BY <1>1, <2>1, SubSeqProperties
  <2> HIDE DEF v
  <2> QED
    BY <1>1, <2>2
<1> HIDE DEF u, v
<1>4. /\ u \o v \in Seq(Frame) /\ Len(u \o v) = n - 1
      /\ \A j \in 1 .. n - 1 : (u \o v)[j] = IF j <= k - 1 THEN u[j] ELSE v[j - (k - 1)]
  <2>1. /\ u \o v \in Seq(Frame) /\ Len(u \o v) = Len(u) + Len(v)
        /\ \A j \in 1 .. Len(u) + Len(v) :
             (u \o v)[j] = IF j <= Len(u) THEN u[j] ELSE v[j - Len(u)]
    BY <1>2, <1>3, ConcatProperties
  <2>2. Len(u) + Len(v) = n - 1
    BY <1>1, <1>2, <1>3
  <2> QED
    BY <1>2, <2>1, <2>2
<1>5. \A j \in 1 .. n - 1 : (u \o v)[j] = IF j < k THEN q[j] ELSE q[j + 1]
  <2>1. ASSUME NEW j \in 1 .. n - 1
        PROVE  (u \o v)[j] = IF j < k THEN q[j] ELSE q[j + 1]
    <3>1. CASE j < k
      BY <1>1, <1>2, <1>4, <3>1
    <3>2. CASE ~(j < k)
      <4>1. j - (k - 1) \in 1 .. n - k /\ k + (j - (k - 1)) = j + 1 /\ ~(j <= k - 1)
        BY <1>1, <3>2
      <4> QED
        BY <1>3, <1>4, <3>2, <4>1
    <3> QED
      BY <3>1, <3>2
  <2> QED
    BY <2>1
<1>6. RemoveAt(q, k) = u \o v
  BY DEF RemoveAt, u, v
<1> QED
  BY <1>2, <1>3, <1>4, <1>5, <1>6 DEF u, v

\* The emissions that a tick adds to the ledger.
News(sent) == [k \in DOMAIN sent |-> [age |-> 0, airtime |-> AirtimeOf(sent[k])]]

LEMMA NewsType ==
  ASSUME NEW sent \in Seq(Frame)
  PROVE  News(sent) \in Seq(Emissions)
<1>1. \A f \in Frame : [age |-> 0, airtime |-> AirtimeOf(f)] \in Emissions
  BY AirtimeOfType DEF Emissions
<1>2. DOMAIN sent = 1 .. Len(sent) /\ Len(sent) \in Nat
      /\ \A k \in 1 .. Len(sent) : sent[k] \in Frame
  BY LenProperties, ElementOfSeq
<1> QED
  BY <1>1, <1>2 DEF News

LEMMA NewsOfAppend ==
  ASSUME NEW sent \in Seq(Frame), NEW f \in Frame
  PROVE  News(Append(sent, f))
           = Append(News(sent), [age |-> 0, airtime |-> AirtimeOf(f)])
<1> DEFINE n    == Len(sent)
           e    == [age |-> 0, airtime |-> AirtimeOf(f)]
           more == Append(sent, f)
<1>1. /\ more \in Seq(Frame) /\ DOMAIN more = 1 .. n + 1 /\ n \in Nat
      /\ DOMAIN sent = 1 .. n
      /\ \A k \in 1 .. n : more[k] = sent[k]
      /\ more[n + 1] = f
  BY AppendProperties, LenProperties
<1> HIDE DEF more
<1>2. e \in Emissions
  BY AirtimeOfType DEF Emissions
<1>3. /\ News(more) \in Seq(Emissions) /\ News(sent) \in Seq(Emissions)
      /\ News(more) = [k \in 1 .. n + 1 |-> [age |-> 0, airtime |-> AirtimeOf(more[k])]]
      /\ News(sent) = [k \in 1 .. n |-> [age |-> 0, airtime |-> AirtimeOf(sent[k])]]
  BY <1>1, NewsType DEF News
<1>4. Len(News(more)) = n + 1 /\ Len(News(sent)) = n
  BY <1>1, <1>3
<1>5. /\ Append(News(sent), e) \in Seq(Emissions)
      /\ Len(Append(News(sent), e)) = n + 1
      /\ \A k \in 1 .. n : Append(News(sent), e)[k] = News(sent)[k]
      /\ Append(News(sent), e)[n + 1] = e
  <2> HIDE DEF e
  <2> QED
    BY <1>2, <1>3, <1>4, AppendProperties
<1>6. ASSUME NEW k \in 1 .. n + 1
      PROVE  News(more)[k] = Append(News(sent), e)[k]
  <2>1. CASE k = n + 1
    BY <1>1, <1>3, <1>5, <2>1
  <2>2. CASE k \in 1 .. n
    <3>1. News(more)[k] = News(sent)[k]
      BY <1>1, <1>3, <2>2
    <3> QED
      BY <1>5, <2>2, <3>1
  <2>3. k = n + 1 \/ k \in 1 .. n
    BY <1>1
  <2> HIDE DEF e
  <2> QED
    BY <2>1, <2>2, <2>3
<1>7. News(more) = Append(News(sent), e)
  <2> HIDE DEF e
  <2> QED
    BY <1>3, <1>4, <1>5, <1>6, SeqEqual
<1> QED
  BY <1>7 DEF more

-----------------------------------------------------------------------------
(* The loop of tick() *)

\* What one round leaves of a nonempty queue whose pick fits, and of others.
Fits(s) == s.queue # << >> /\ BudgetAllows(Pruned(s.emits), s.queue[Pick(s.queue)])

LoopStates == [queue : Seq(Frame), emits : Seq(Emissions), aired : Seq(Frame)]

LEMMA RoundCases ==
  ASSUME NEW s \in LoopStates
  PROVE  /\ s.queue = << >> => Round(s) = s
         /\ s.queue # << >> /\ ~Fits(s) =>
              /\ Round(s).queue = s.queue /\ Round(s).aired = s.aired
              /\ Round(s).emits = Pruned(s.emits)
         /\ Fits(s) =>
              /\ Round(s).queue = RemoveAt(s.queue, Pick(s.queue))
              /\ Round(s).emits =
                   Append(Pruned(s.emits),
                          [age |-> 0, airtime |-> AirtimeOf(s.queue[Pick(s.queue)])])
              /\ Round(s).aired = Append(s.aired, s.queue[Pick(s.queue)])
         /\ Round(s) \in LoopStates
<1>1. /\ s.queue \in Seq(Frame) /\ s.emits \in Seq(Emissions) /\ s.aired \in Seq(Frame)
      /\ s = [queue |-> s.queue, emits |-> s.emits, aired |-> s.aired]
  BY DEF LoopStates
<1>2. Pruned(s.emits) \in Seq(Emissions)
  BY <1>1, PrunedType
<1>3. CASE s.queue = << >>
  <2>1. Round(s) = s
    BY <1>3 DEF Round
  <2> QED
    BY <1>3, <2>1 DEF Fits
<1>4. CASE s.queue # << >> /\ ~Fits(s)
  <2>1. Round(s) = [s EXCEPT !.emits = Pruned(s.emits)]
    BY <1>4 DEF Round, Fits
  <2>2. Round(s) = [queue |-> s.queue, emits |-> Pruned(s.emits), aired |-> s.aired]
    BY <1>1, <2>1
  <2>3. Round(s) \in LoopStates
    BY <1>1, <1>2, <2>2 DEF LoopStates
  <2> QED
    BY <1>4, <2>2, <2>3
<1>5. CASE Fits(s)
  <2> DEFINE k == Pick(s.queue)
             e == [age |-> 0, airtime |-> AirtimeOf(s.queue[k])]
  <2>1. Round(s) = [queue |-> RemoveAt(s.queue, k),
                    emits |-> Append(Pruned(s.emits), e),
                    aired |-> Append(s.aired, s.queue[k])]
    BY <1>5 DEF Round, Fits
  <2>2. s.queue # << >> /\ k \in 1 .. Len(s.queue)
    BY <1>1, <1>5, PickFirstOfNearest DEF Fits
  <2>3. s.queue[k] \in Frame /\ e \in Emissions
    <3>1. s.queue[k] \in Frame
      BY <1>1, <2>2, ElementOfSeq
    <3> QED
      BY <3>1, AirtimeOfType DEF Emissions
  <2>4. RemoveAt(s.queue, k) \in Seq(Frame)
    BY <1>1, <2>2, RemovedType
  <2>5. Append(Pruned(s.emits), e) \in Seq(Emissions)
    BY <1>2, <2>3, AppendProperties
  <2>6. Append(s.aired, s.queue[k]) \in Seq(Frame)
    BY <1>1, <2>3, AppendProperties
  <2> HIDE DEF e, k
  <2>7. Round(s) \in LoopStates
    BY <2>1, <2>4, <2>5, <2>6 DEF LoopStates
  <2>8. /\ Round(s).queue = RemoveAt(s.queue, k)
        /\ Round(s).emits = Append(Pruned(s.emits), e)
        /\ Round(s).aired = Append(s.aired, s.queue[k])
    BY <2>1
  <2>9. s.queue # << >> /\ Fits(s)
    BY <1>5, <2>2
  <2> QED
    BY <2>7, <2>8, <2>9 DEF e, k
<1> QED
  BY <1>3, <1>4, <1>5

Start == [queue |-> queue, emits |-> emits, aired |-> << >>]

RoundAll(states) == {Round(s) : s \in states}

\* The function that Drained follows the rounds with.
RoundsOf(n, after) ==
  after = [k \in 0 .. n |-> IF k = 0 THEN {Start} ELSE RoundAll(after[k - 1])]

LEMMA RoundsExist ==
  ASSUME NEW m \in Nat
  PROVE  \E after : RoundsOf(m, after)
<1> DEFINE T == {n \in 0 .. m : ~ \E after : RoundsOf(n, after)}
<1>1. ASSUME T # {} PROVE FALSE
  <2>1. T \subseteq Nat
    OBVIOUS
  <2>2. PICK n \in T : \A j \in T : n <= j
    BY <1>1, <2>1, Least
  <2>3. CASE n = 0
    <3>1. RoundsOf(0, [k \in 0 .. 0 |-> {Start}])
      BY DEF RoundsOf
    <3> QED
      BY <2>2, <2>3, <3>1
  <2>4. CASE n # 0
    <3>1. n - 1 \in 0 .. m /\ n - 1 \notin T /\ n \in 1 .. m
      BY <2>2, <2>4
    <3>2. PICK a : RoundsOf(n - 1, a)
      BY <3>1
    <3> DEFINE b == [k \in 0 .. n |-> IF k = n THEN RoundAll(a[n - 1]) ELSE a[k]]
    <3>3. \A k \in 0 .. n : b[k] = IF k = 0 THEN {Start} ELSE RoundAll(b[k - 1])
      <4>1. \A k \in 0 .. n - 1 :
              a[k] = IF k = 0 THEN {Start} ELSE RoundAll(a[k - 1])
        BY <3>2 DEF RoundsOf
      <4>2. \A k \in 0 .. n : k - 1 # n /\ (k # 0 => k - 1 \in 0 .. n - 1)
        BY <3>1
      <4>3. ASSUME NEW k \in 0 .. n - 1
            PROVE  b[k] = IF k = 0 THEN {Start} ELSE RoundAll(b[k - 1])
        <5>1. b[k] = a[k] /\ (k # 0 => b[k - 1] = a[k - 1])
          BY <3>1, <4>2
        <5> HIDE DEF b
        <5> QED
          BY <4>1, <5>1
      <4>4. b[n] = RoundAll(b[n - 1])
        <5>1. b[n] = RoundAll(a[n - 1]) /\ b[n - 1] = a[n - 1]
          BY <3>1
        <5> HIDE DEF b
        <5> QED
          BY <5>1
      <4>5. n # 0 /\ \A k \in 0 .. n : k = n \/ k \in 0 .. n - 1
        BY <3>1
      <4> HIDE DEF b, T
      <4>6. ASSUME NEW k \in 0 .. n
            PROVE  b[k] = IF k = 0 THEN {Start} ELSE RoundAll(b[k - 1])
        <5>1. CASE k = n
          BY <4>4, <4>5, <5>1
        <5>2. CASE k \in 0 .. n - 1
          BY <4>3, <5>2
        <5> QED
          BY <4>5, <5>1, <5>2
      <4> QED
        BY <4>6
    <3>4. RoundsOf(n, b)
      BY <3>3 DEF RoundsOf
    <3> QED
      BY <2>2, <3>4
  <2> QED
    BY <2>3, <2>4
<1>2. m \notin T /\ m \in 0 .. m
  BY <1>1
<1> QED
  BY <1>2

\* What holds before the first round and is kept by every round holds at the
\* end of a tick.
LEMMA DrainedIn ==
  ASSUME queue \in Seq(Frame), NEW STATE T, Start \in T, \A s \in T : Round(s) \in T
  PROVE  Drained \subseteq T
<1> DEFINE m == Len(queue)
           a == CHOOSE after : RoundsOf(m, after)
<1>1. m \in Nat
  BY LenProperties
<1>2. RoundsOf(m, a)
  BY <1>1, RoundsExist
<1>3. Drained = a[m]
  BY DEF Drained, RoundsOf, RoundAll, Start
<1> HIDE DEF a
<1>4. \A k \in 0 .. m : a[k] = IF k = 0 THEN {Start} ELSE RoundAll(a[k - 1])
  BY <1>2 DEF RoundsOf
<1> DEFINE B == {k \in 0 .. m : ~(a[k] \subseteq T)}
<1>5. ASSUME B # {} PROVE FALSE
  <2>1. B \subseteq Nat
    OBVIOUS
  <2>2. PICK k \in B : \A j \in B : k <= j
    BY <1>5, <2>1, Least
  <2>3. a[0] \subseteq T
    <3>1. a[0] = {Start}
      BY <1>1, <1>4
    <3> QED
      BY <3>1
  <2>4. k \in 1 .. m /\ k - 1 \in 0 .. m /\ k - 1 \notin B
    BY <1>1, <2>2, <2>3
  <2>5. a[k - 1] \subseteq T /\ a[k] = RoundAll(a[k - 1])
    BY <1>4, <2>4
  <2>6. a[k] \subseteq T
    BY <2>5 DEF RoundAll
  <2> QED
    BY <2>2, <2>6
<1>6. m \notin B /\ m \in 0 .. m
  BY <1>1, <1>5
<1> QED
  BY <1>3, <1>6

-----------------------------------------------------------------------------
(* Type correctness *)

LEMMA TypeInit ==
  Init => TypeOK
<1>1. << >> \in Seq(Frame) /\ << >> \in Seq(Emissions) /\ Len(<< >>) = 0
  BY EmptySeq
<1> QED
  BY <1>1 DEF Init, TypeOK

LEMMA QueueAnnounceType ==
  ASSUME TypeOK, NEW f \in Frame, QueueAnnounce(f)
  PROVE  TypeOK'
<1>1. queue' \in Seq(Frame) /\ Len(queue') <= QueueMax
  <2>1. queue \in Seq(Frame) /\ Len(queue) \in Nat /\ Len(queue) <= QueueMax
    BY LenProperties DEF TypeOK
  <2>2. Append(queue, f) \in Seq(Frame) /\ Len(Append(queue, f)) = Len(queue) + 1
    BY <2>1, AppendProperties
  <2>3. CASE Len(queue) >= QueueMax
    BY <2>1, <2>3 DEF QueueAnnounce
  <2>4. CASE ~(Len(queue) >= QueueMax)
    <3>1. queue' = Append(queue, f)
      BY <2>4 DEF QueueAnnounce
    <3> QED
      BY <2>1, <2>2, <2>4, <3>1
  <2> QED
    BY <2>3, <2>4
<1>2. aired' \in Seq(Frame)
  BY EmptySeq DEF QueueAnnounce
<1> QED
  BY <1>1, <1>2 DEF TypeOK, QueueAnnounce

LEMMA TickType ==
  ASSUME TypeOK, Tick
  PROVE  TypeOK'
<1> DEFINE T == {s \in LoopStates : Len(s.queue) <= QueueMax}
<1>1. Start \in T
  <2>1. << >> \in Seq(Frame)
    BY EmptySeq
  <2> QED
    BY <2>1 DEF TypeOK, Start, LoopStates
<1>2. ASSUME NEW s \in T PROVE Round(s) \in T
  <2>1. Round(s) \in LoopStates
    BY RoundCases
  <2>2. CASE Fits(s)
    <3>1. s.queue \in Seq(Frame) /\ Pick(s.queue) \in 1 .. Len(s.queue)
      BY <2>2, PickFirstOfNearest DEF Fits, LoopStates
    <3>2. Len(Round(s).queue) = Len(s.queue) - 1
      <4>1. Round(s).queue = RemoveAt(s.queue, Pick(s.queue))
        BY <2>2, RoundCases
      <4>2. Len(RemoveAt(s.queue, Pick(s.queue))) = Len(s.queue) - 1
        BY <3>1, RemovedType
      <4> QED
        BY <4>1, <4>2
    <3> QED
      BY <2>1, <3>1, <3>2, LenProperties
  <2>3. CASE ~Fits(s)
    <3>1. Round(s).queue = s.queue
      BY <2>3, RoundCases
    <3> QED
      BY <2>1, <3>1
  <2> QED
    BY <2>2, <2>3
<1>3. Drained \subseteq T
  <2>1. queue \in Seq(Frame)
    BY DEF TypeOK
  <2> HIDE DEF T
  <2> QED
    BY <1>1, <1>2, <2>1, DrainedIn
<1>4. PICK end \in Drained : /\ queue' = end.queue /\ emits' = end.emits
                             /\ aired' = end.aired
                             /\ ledger' = ledger \o News(end.aired)
  BY DEF Tick, News
<1>5. end \in LoopStates /\ Len(end.queue) <= QueueMax
  BY <1>3
<1>6. ledger \in Seq(Emissions) /\ News(end.aired) \in Seq(Emissions)
  BY <1>5, NewsType DEF TypeOK, LoopStates
<1>7. ledger \o News(end.aired) \in Seq(Emissions)
  BY <1>6, ConcatProperties
<1> QED
  BY <1>4, <1>5, <1>7 DEF TypeOK, LoopStates

LEMMA NextType ==
  TypeOK /\ [Next]_vars => TypeOK'
<1> SUFFICES ASSUME TypeOK, [Next]_vars PROVE TypeOK'
  OBVIOUS
<1>1. ASSUME NEW f \in Frame, QueueAnnounce(f) PROVE TypeOK'
  BY <1>1, QueueAnnounceType
<1>2. CASE ReadAirtime
  <2>1. Pruned(emits) \in Seq(Emissions) /\ << >> \in Seq(Frame)
    BY PrunedType, EmptySeq DEF TypeOK
  <2> QED
    BY <1>2, <2>1 DEF TypeOK, ReadAirtime
<1>3. CASE Tick
  BY <1>3, TickType
<1>4. CASE Elapse
  <2>1. emits \in Seq(Emissions) /\ ledger \in Seq(Emissions) /\ << >> \in Seq(Frame)
    BY EmptySeq DEF TypeOK
  <2>2. Older(emits) \in Seq(Emissions) /\ Pruned(Older(ledger)) \in Seq(Emissions)
    BY <2>1, OlderType, PrunedType
  <2>3. emits' = Older(emits) /\ ledger' = Pruned(Older(ledger))
    BY <1>4 DEF Elapse, Older, Pruned
  <2> QED
    BY <1>4, <2>1, <2>2, <2>3 DEF TypeOK, Elapse
<1>5. CASE UNCHANGED vars
  BY <1>5 DEF TypeOK, vars
<1> QED
  BY <1>1, <1>2, <1>3, <1>4, <1>5 DEF Next

\* The queue holds announces and stays within its limit, and both records of
\* past emissions are sequences of emissions.
THEOREM TypeCorrect == Spec => []TypeOK
<1>1. Init => TypeOK
  BY TypeInit
<1>2. TypeOK /\ [Next]_vars => TypeOK'
  BY NextType
<1> QED
  BY <1>1, <1>2, PTL DEF Spec

-----------------------------------------------------------------------------
(* The cap *)

LEMMA AppendToConcat ==
  ASSUME NEW u \in Seq(Emissions), NEW v \in Seq(Emissions), NEW e \in Emissions
  PROVE  Append(u \o v, e) = u \o Append(v, e)
<1>1. u \o v \in Seq(Emissions) /\ <<e>> \in Seq(Emissions)
  BY ConcatProperties
<1>2. Append(u \o v, e) = (u \o v) \o <<e>>
  BY <1>1, AppendIsConcat
<1>3. Append(v, e) = v \o <<e>>
  BY AppendIsConcat
<1>4. (u \o v) \o <<e>> = u \o (v \o <<e>>)
  BY <1>1, ConcatAssociative
<1> QED
  BY <1>2, <1>3, <1>4

\* What the loop of tick() keeps true between two rounds: the log accounts for
\* the window before the tick and what the tick has sent so far, and both
\* together are within the cap.
Accounted(s) ==
  /\ Pruned(s.emits) = ledger \o News(s.aired)
  /\ AirtimeIn(ledger \o News(s.aired)) <= WindowCap

LEMMA RoundAccounts ==
  ASSUME TypeOK, NEW s \in LoopStates, Accounted(s)
  PROVE  Accounted(Round(s))
<1>1. /\ s.emits \in Seq(Emissions) /\ s.aired \in Seq(Frame) /\ s.queue \in Seq(Frame)
      /\ ledger \in Seq(Emissions)
  BY DEF LoopStates, TypeOK
<1>2. CASE s.queue = << >>
  <2>1. Round(s) = s
    BY <1>2, RoundCases
  <2> QED
    BY <2>1
<1>3. CASE s.queue # << >> /\ ~Fits(s)
  <2>1. Round(s).emits = Pruned(s.emits) /\ Round(s).aired = s.aired
    BY <1>3, RoundCases
  <2>2. Pruned(Pruned(s.emits)) = Pruned(s.emits)
    BY <1>1, PrunedType
  <2> QED
    BY <2>1, <2>2 DEF Accounted
<1>4. CASE Fits(s)
  <2> DEFINE log == Pruned(s.emits)
             f   == s.queue[Pick(s.queue)]
             e   == [age |-> 0, airtime |-> AirtimeOf(f)]
  <2>1. log \in Seq(Emissions) /\ f \in Frame /\ News(s.aired) \in Seq(Emissions)
    <3>1. Pick(s.queue) \in 1 .. Len(s.queue)
      BY <1>1, <1>4, PickFirstOfNearest DEF Fits
    <3> QED
      BY <1>1, <3>1, PrunedType, NewsType, ElementOfSeq
  <2>2. e \in Emissions /\ e.age = 0 /\ e.airtime = AirtimeOf(f)
    BY <2>1, AirtimeOfType DEF Emissions
  <2>3. /\ Round(s).emits = Append(log, e)
        /\ Round(s).aired = Append(s.aired, f)
    BY <1>4, RoundCases
  <2>4. log = ledger \o News(s.aired)
    BY DEF Accounted
  <2>5. AirtimeIn(log) + AirtimeOf(f) <= WindowCap
    BY <1>4 DEF Fits, BudgetAllows
  <2>6. Pruned(Append(log, e)) = Append(log, e)
    <3> HIDE DEF e
    <3> QED
      BY <1>1, <2>2, PrunedAppend
  <2>7. Append(log, e) = ledger \o News(Append(s.aired, f))
    <3>1. News(Append(s.aired, f)) = Append(News(s.aired), e)
      BY <1>1, <2>1, NewsOfAppend
    <3> HIDE DEF e, f, log
    <3>2. Append(ledger \o News(s.aired), e) = ledger \o Append(News(s.aired), e)
      BY <1>1, <2>1, <2>2, AppendToConcat
    <3> QED
      BY <2>4, <3>1, <3>2
  <2>8. AirtimeIn(Append(log, e)) <= WindowCap
    <3> HIDE DEF e, f, log
    <3>1. AirtimeIn(Append(log, e)) = AirtimeIn(log) + e.airtime
      BY <2>1, <2>2, AirtimeOfAppend
    <3> QED
      BY <2>2, <2>5, <3>1
  <2> HIDE DEF e, f, log
  <2> QED
    BY <2>3, <2>6, <2>7, <2>8 DEF Accounted
<1> QED
  BY <1>2, <1>3, <1>4

\* Both properties of the accounts need each other: the budget is worked out
\* from the log, and the log is right about the window before the tick.
AccountInv == TypeOK /\ LogIsLedger /\ CapHolds

LEMMA TickAccounts ==
  ASSUME AccountInv, Tick
  PROVE  LogIsLedger' /\ CapHolds'
<1> DEFINE T == {s \in LoopStates : Accounted(s)}
<1>1. TypeOK /\ Pruned(emits) = ledger /\ AirtimeIn(ledger) <= WindowCap
  BY DEF AccountInv, LogIsLedger, CapHolds
<1>2. /\ queue \in Seq(Frame) /\ emits \in Seq(Emissions) /\ ledger \in Seq(Emissions)
  BY <1>1 DEF TypeOK
<1>3. Start \in T
  <2>1. << >> \in Seq(Frame) /\ Start \in LoopStates
    BY <1>2, EmptySeq DEF Start, LoopStates
  <2>2. News(<< >>) = << >>
    <3>1. News(<< >>) \in Seq(Emissions) /\ DOMAIN News(<< >>) = DOMAIN << >>
      BY <2>1, NewsType DEF News
    <3> QED
      BY <3>1
  <2>3. ledger \o << >> = ledger
    BY <1>2, ConcatEmptySeq
  <2>4. Start.emits = emits /\ Start.aired = << >>
    BY DEF Start
  <2> QED
    BY <1>1, <2>1, <2>2, <2>3, <2>4 DEF Accounted
<1>4. ASSUME NEW s \in T PROVE Round(s) \in T
  BY <1>1, RoundCases, RoundAccounts
<1>5. Drained \subseteq T
  <2> HIDE DEF T
  <2> QED
    BY <1>2, <1>3, <1>4, DrainedIn
<1>6. PICK end \in Drained : /\ queue' = end.queue /\ emits' = end.emits
                             /\ aired' = end.aired
                             /\ ledger' = ledger \o News(end.aired)
  BY DEF Tick, News
<1>7. Accounted(end)
  BY <1>5
<1>8. Pruned(emits') = ledger' /\ AirtimeIn(ledger') <= WindowCap
  BY <1>6, <1>7 DEF Accounted
<1> QED
  BY <1>8 DEF LogIsLedger, CapHolds

LEMMA ElapseAccounts ==
  ASSUME AccountInv, Elapse
  PROVE  LogIsLedger' /\ CapHolds'
<1>1. /\ emits \in Seq(Emissions) /\ ledger \in Seq(Emissions)
      /\ Pruned(emits) = ledger /\ AirtimeIn(ledger) <= WindowCap
  BY DEF AccountInv, TypeOK, LogIsLedger, CapHolds
<1>2. emits' = Older(emits) /\ ledger' = Pruned(Older(ledger))
  BY DEF Elapse, Older, Pruned
<1>3. Pruned(Older(emits)) = Pruned(Older(ledger))
  BY <1>1, PrunedOlder
<1> DEFINE old == Older(ledger)
<1>4. /\ old \in Seq(Emissions) /\ Len(old) = Len(ledger)
      /\ \A k \in 1 .. Len(ledger) : old[k].airtime = ledger[k].airtime
  BY <1>1, OlderType
<1> HIDE DEF old
<1>5. AirtimeIn(old) = AirtimeIn(ledger)
  BY <1>1, <1>4, AirtimeIgnoresAge
<1>6. PICK m : FirstSince(old, Window, m)
  BY <1>4, FirstExists
<1>7. Pruned(old) = SubSeq(old, m, Len(old)) /\ m \in 1 .. Len(old) + 1
  <2>1. Pruned(old) = SubSeq(old, m, Len(old))
    BY <1>4, <1>6, SinceIsRest DEF Pruned
  <2> QED
    BY <1>6, <2>1 DEF FirstSince
<1>8. AirtimeIn(Pruned(old)) <= AirtimeIn(old)
  BY <1>4, <1>7, AirtimeOfRest
<1>9. AirtimeIn(Pruned(old)) \in Nat /\ AirtimeIn(old) \in Nat /\ WindowCap \in Nat
  BY <1>4, AirtimeType, PrunedType, AirtimeOfType
<1>10. Pruned(emits') = ledger' /\ ledger' = Pruned(old)
  BY <1>2, <1>3 DEF old
<1>11. AirtimeIn(ledger') <= WindowCap
  BY <1>1, <1>5, <1>8, <1>9, <1>10
<1> QED
  BY <1>10, <1>11 DEF LogIsLedger, CapHolds

LEMMA AccountInit ==
  Init => AccountInv
<1> SUFFICES ASSUME Init PROVE AccountInv
  OBVIOUS
<1>1. emits = << >> /\ ledger = << >> /\ WindowCap >= 0
  BY AirtimeOfType DEF Init
<1>2. Pruned(<< >>) = << >>
  BY SinceOfNothing DEF Pruned
<1> QED
  BY <1>1, <1>2, AirtimeOfNothing, TypeInit DEF AccountInv, LogIsLedger, CapHolds

LEMMA AccountNext ==
  AccountInv /\ [Next]_vars => AccountInv'
<1> SUFFICES ASSUME AccountInv, [Next]_vars PROVE AccountInv'
  OBVIOUS
<1>1. TypeOK'
  BY NextType DEF AccountInv
<1>2. ASSUME NEW f \in Frame, QueueAnnounce(f) PROVE LogIsLedger' /\ CapHolds'
  BY <1>2 DEF AccountInv, LogIsLedger, CapHolds, QueueAnnounce
<1>3. ASSUME ReadAirtime PROVE LogIsLedger' /\ CapHolds'
  <2>1. Pruned(Pruned(emits)) = Pruned(emits)
    BY PrunedType DEF AccountInv, TypeOK
  <2> QED
    BY <1>3, <2>1 DEF AccountInv, LogIsLedger, CapHolds, ReadAirtime
<1>4. ASSUME Tick PROVE LogIsLedger' /\ CapHolds'
  BY <1>4, TickAccounts
<1>5. ASSUME Elapse PROVE LogIsLedger' /\ CapHolds'
  BY <1>5, ElapseAccounts
<1>6. ASSUME UNCHANGED vars PROVE LogIsLedger' /\ CapHolds'
  BY <1>6 DEF AccountInv, LogIsLedger, CapHolds, vars
<1>7. LogIsLedger' /\ CapHolds'
  BY <1>2, <1>3, <1>4, <1>5, <1>6 DEF Next
<1> QED
  BY <1>1, <1>7 DEF AccountInv

LEMMA Accounting == Spec => []AccountInv
<1>1. Init => AccountInv
  BY AccountInit
<1>2. AccountInv /\ [Next]_vars => AccountInv'
  BY AccountNext
<1> QED
  BY <1>1, <1>2, PTL DEF Spec

\* In no window do announces take more airtime than the cap, however many of
\* them one tick puts out and whenever the log is pruned
\* (Interface.cpp:34-51, 53-70).
THEOREM CapIsHeld == Spec => []CapHolds
<1>1. AccountInv => CapHolds
  BY DEF AccountInv
<1> QED
  BY <1>1, Accounting, PTL

\* After a prune the log accounts for every emission of the window and for
\* nothing else (Interface.cpp:34-41).
THEOREM LogIsExact == Spec => []LogIsLedger
<1>1. AccountInv => LogIsLedger
  BY DEF AccountInv
<1> QED
  BY <1>1, Accounting, PTL

-----------------------------------------------------------------------------
(* The announces of a queue that are so many hops away *)

\* One more announce on the way through the queue.
Filtered(seq, f, hops) == IF f.hops = hops THEN Append(seq, f) ELSE seq

\* The function that OfHops collects them with, for the first m announces.
FilterUpTo(q, hops, m, of) ==
  of = [n \in 0 .. m |-> IF n = 0 THEN << >> ELSE Filtered(of[n - 1], q[n], hops)]

FilterOf(q, hops, of) == FilterUpTo(q, hops, Len(q), of)

\* Collecting goes through what was collected before.
LEMMA FilteredBehind ==
  ASSUME NEW a \in Seq(Frame), NEW b \in Seq(Frame), NEW f \in Frame, NEW hops
  PROVE  Filtered(a \o b, f, hops) = a \o Filtered(b, f, hops)
<1>1. <<f>> \in Seq(Frame) /\ a \o b \in Seq(Frame)
  BY ConcatProperties
<1>2. Append(a \o b, f) = (a \o b) \o <<f>> /\ Append(b, f) = b \o <<f>>
  BY <1>1, AppendIsConcat
<1>3. (a \o b) \o <<f>> = a \o (b \o <<f>>)
  BY <1>1, ConcatAssociative
<1> QED
  BY <1>2, <1>3 DEF Filtered

LEMMA FilterExists ==
  ASSUME NEW q \in Seq(Frame), NEW hops
  PROVE  \E of : FilterOf(q, hops, of)
<1> DEFINE T == {n \in 0 .. Len(q) : ~ \E of : FilterUpTo(q, hops, n, of)}
<1>1. Len(q) \in Nat
  BY LenProperties
<1>2. ASSUME T # {} PROVE FALSE
  <2>1. T \subseteq Nat
    OBVIOUS
  <2>2. PICK n \in T : \A j \in T : n <= j
    BY <1>2, <2>1, Least
  <2>3. CASE n = 0
    <3>1. FilterUpTo(q, hops, 0, [k \in 0 .. 0 |-> << >>])
      BY DEF FilterUpTo
    <3> QED
      BY <2>2, <2>3, <3>1
  <2>4. CASE n # 0
    <3>1. n - 1 \in 0 .. Len(q) /\ n - 1 \notin T /\ n \in 1 .. Len(q)
      <4>1. n \in 0 .. Len(q)
        BY <2>2
      <4> HIDE DEF T
      <4> QED
        BY <1>1, <2>2, <2>4, <4>1
    <3>2. PICK a : FilterUpTo(q, hops, n - 1, a)
      BY <3>1
    <3> DEFINE b == [k \in 0 .. n |-> IF k = n THEN Filtered(a[n - 1], q[n], hops) ELSE a[k]]
    <3>3. \A k \in 0 .. n : b[k] = IF k = 0 THEN << >> ELSE Filtered(b[k - 1], q[k], hops)
      <4>1. \A k \in 0 .. n - 1 :
              a[k] = IF k = 0 THEN << >> ELSE Filtered(a[k - 1], q[k], hops)
        BY <3>2 DEF FilterUpTo
      <4>2. \A k \in 0 .. n : k - 1 # n /\ (k # 0 => k - 1 \in 0 .. n - 1)
        BY <3>1
      <4> QED
        BY <3>1, <4>1, <4>2
    <3>4. FilterUpTo(q, hops, n, b)
      BY <3>3 DEF FilterUpTo
    <3> QED
      BY <2>2, <3>4
  <2> QED
    BY <2>3, <2>4
<1>3. Len(q) \notin T
  BY <1>2
<1>4. \E of : FilterUpTo(q, hops, Len(q), of)
  BY <1>1, <1>3
<1> QED
  BY <1>4 DEF FilterOf

LEMMA FilterValues ==
  ASSUME NEW q \in Seq(Frame), NEW hops, NEW of, FilterOf(q, hops, of)
  PROVE  /\ of[0] = << >>
         /\ \A n \in 1 .. Len(q) : of[n] = Filtered(of[n - 1], q[n], hops)
         /\ \A n \in 0 .. Len(q) : of[n] \in Seq(Frame)
<1>1. Len(q) \in Nat /\ \A n \in 1 .. Len(q) : q[n] \in Frame
  BY LenProperties, ElementOfSeq
<1>2. \A n \in 0 .. Len(q) :
        of[n] = IF n = 0 THEN << >> ELSE Filtered(of[n - 1], q[n], hops)
  BY DEF FilterOf, FilterUpTo
<1>3. of[0] = << >> /\ \A n \in 1 .. Len(q) : of[n] = Filtered(of[n - 1], q[n], hops)
  BY <1>1, <1>2
<1> DEFINE T == {n \in 0 .. Len(q) : of[n] \notin Seq(Frame)}
<1>4. ASSUME T # {} PROVE FALSE
  <2>1. T \subseteq Nat
    OBVIOUS
  <2>2. PICK n \in T : \A j \in T : n <= j
    BY <1>4, <2>1, Least
  <2>3. n \in 1 .. Len(q)
    <3>1. << >> \in Seq(Frame)
      BY EmptySeq
    <3>2. n # 0
      BY <1>3, <2>2, <3>1
    <3> QED
      BY <1>1, <2>2, <3>2
  <2>4. n - 1 \in 0 .. Len(q) /\ n - 1 \notin T
    BY <1>1, <2>2, <2>3
  <2>5. of[n - 1] \in Seq(Frame) /\ q[n] \in Frame
    BY <1>1, <2>3, <2>4
  <2>6. of[n] \in Seq(Frame)
    <3>1. Append(of[n - 1], q[n]) \in Seq(Frame)
      BY <2>5, AppendProperties
    <3>2. of[n] = Filtered(of[n - 1], q[n], hops)
      BY <1>3, <2>3
    <3> QED
      BY <2>5, <3>1, <3>2 DEF Filtered
  <2> QED
    BY <2>2, <2>6
<1> QED
  BY <1>3, <1>4

LEMMA FilterUnique ==
  ASSUME NEW q \in Seq(Frame), NEW hops, NEW a, NEW b,
         FilterOf(q, hops, a), FilterOf(q, hops, b)
  PROVE  a = b
<1> DEFINE T == {n \in 0 .. Len(q) : a[n] # b[n]}
<1>1. Len(q) \in Nat
  BY LenProperties
<1>2. /\ a[0] = b[0]
      /\ \A n \in 1 .. Len(q) : a[n] = Filtered(a[n - 1], q[n], hops)
                                /\ b[n] = Filtered(b[n - 1], q[n], hops)
  BY FilterValues
<1>3. ASSUME T # {} PROVE FALSE
  <2>1. T \subseteq Nat
    OBVIOUS
  <2>2. PICK n \in T : \A j \in T : n <= j
    BY <1>3, <2>1, Least
  <2>3. n \in 1 .. Len(q)
    BY <1>1, <1>2, <2>2
  <2>4. n - 1 \in 0 .. Len(q) /\ n - 1 \notin T
    BY <1>1, <2>2, <2>3
  <2>5. a[n] = b[n]
    BY <1>2, <2>3, <2>4
  <2> QED
    BY <2>2, <2>5
<1>4. \A n \in 0 .. Len(q) : a[n] = b[n]
  BY <1>3
<1>5. /\ a = [n \in 0 .. Len(q) |-> a[n]]
      /\ b = [n \in 0 .. Len(q) |-> b[n]]
  BY DEF FilterOf, FilterUpTo
<1> QED
  BY <1>4, <1>5

LEMMA OfHopsIsFilter ==
  ASSUME NEW q \in Seq(Frame), NEW hops, NEW of, FilterOf(q, hops, of)
  PROVE  OfHops(q, hops) = of[Len(q)]
<1> DEFINE u == CHOOSE t : FilterOf(q, hops, t)
<1>1. FilterOf(q, hops, u)
  BY FilterExists
<1>2. u = of
  <2> HIDE DEF u
  <2> QED
    BY <1>1, FilterUnique
<1>3. OfHops(q, hops) = u[Len(q)]
  BY DEF OfHops, FilterOf, FilterUpTo, Filtered
<1> QED
  BY <1>2, <1>3

LEMMA OfHopsType ==
  ASSUME NEW q \in Seq(Frame), NEW hops
  PROVE  OfHops(q, hops) \in Seq(Frame)
<1>1. PICK of : FilterOf(q, hops, of)
  BY FilterExists
<1>2. OfHops(q, hops) = of[Len(q)] /\ Len(q) \in 0 .. Len(q)
  BY <1>1, OfHopsIsFilter, LenProperties
<1> QED
  BY <1>1, <1>2, FilterValues

LEMMA OfHopsOfNothing ==
  ASSUME NEW hops
  PROVE  OfHops(<< >>, hops) = << >>
<1>1. << >> \in Seq(Frame) /\ Len(<< >>) = 0
  BY EmptySeq
<1>2. PICK of : FilterOf(<< >>, hops, of)
  BY <1>1, FilterExists
<1>3. of[0] = << >>
  BY <1>1, <1>2, FilterValues
<1>4. OfHops(<< >>, hops) = of[0]
  BY <1>1, <1>2, OfHopsIsFilter
<1> QED
  BY <1>3, <1>4

LEMMA OfHopsOfAppend ==
  ASSUME NEW q \in Seq(Frame), NEW f \in Frame, NEW hops
  PROVE  OfHops(Append(q, f), hops) = Filtered(OfHops(q, hops), f, hops)
<1> DEFINE more == Append(q, f)
           n    == Len(q)
<1>1. /\ more \in Seq(Frame) /\ Len(more) = n + 1 /\ n \in Nat
      /\ \A k \in 1 .. n : more[k] = q[k]
      /\ more[n + 1] = f
  BY AppendProperties, LenProperties
<1> HIDE DEF more
<1>2. PICK of : FilterOf(more, hops, of)
  BY <1>1, FilterExists
<1>3. /\ of[0] = << >>
      /\ \A k \in 1 .. n + 1 : of[k] = Filtered(of[k - 1], more[k], hops)
  BY <1>1, <1>2, FilterValues
<1> DEFINE less == [k \in 0 .. n |-> of[k]]
<1>4. FilterOf(q, hops, less)
  <2>1. ASSUME NEW k \in 0 .. n
        PROVE  less[k] = IF k = 0 THEN << >> ELSE Filtered(less[k - 1], q[k], hops)
    <3>1. CASE k = 0
      BY <1>3, <3>1
    <3>2. CASE k # 0
      <4>1. k \in 1 .. n + 1 /\ k \in 1 .. n /\ k - 1 \in 0 .. n
        BY <1>1, <3>2
      <4>2. less[k] = of[k] /\ less[k - 1] = of[k - 1] /\ more[k] = q[k]
        BY <1>1, <4>1
      <4> HIDE DEF less
      <4> QED
        BY <1>3, <3>2, <4>1, <4>2
    <3> QED
      BY <3>1, <3>2
  <2> QED
    BY <2>1 DEF FilterOf, FilterUpTo
<1>5. OfHops(q, hops) = of[n]
  <2>1. OfHops(q, hops) = less[n]
    BY <1>4, OfHopsIsFilter
  <2> QED
    BY <1>1, <2>1
<1>6. OfHops(more, hops) = of[n + 1]
  BY <1>1, <1>2, OfHopsIsFilter
<1>7. of[n + 1] = Filtered(of[n], f, hops)
  <2>1. n + 1 \in 1 .. n + 1 /\ (n + 1) - 1 = n
    BY <1>1
  <2> QED
    BY <1>1, <1>3, <2>1
<1> QED
  BY <1>5, <1>6, <1>7 DEF more

\* What is collected from two queues in a row is collected from each.
Splits(p, r, hops) == OfHops(p \o r, hops) = OfHops(p, hops) \o OfHops(r, hops)

LEMMA SplitsAppend ==
  ASSUME NEW p \in Seq(Frame), NEW r \in Seq(Frame), NEW f \in Frame, NEW hops,
         Splits(p, r, hops)
  PROVE  Splits(p, Append(r, f), hops)
<1>1. <<f>> \in Seq(Frame) /\ p \o r \in Seq(Frame)
  BY ConcatProperties
<1>2. p \o Append(r, f) = Append(p \o r, f)
  <2>1. Append(r, f) = r \o <<f>>
    BY AppendIsConcat
  <2>2. Append(p \o r, f) = (p \o r) \o <<f>>
    BY <1>1, AppendIsConcat
  <2>3. (p \o r) \o <<f>> = p \o (r \o <<f>>)
    BY <1>1, ConcatAssociative
  <2> QED
    BY <2>1, <2>2, <2>3
<1>3. OfHops(Append(p \o r, f), hops) = Filtered(OfHops(p \o r, hops), f, hops)
  BY <1>1, OfHopsOfAppend
<1>4. OfHops(Append(r, f), hops) = Filtered(OfHops(r, hops), f, hops)
  BY OfHopsOfAppend
<1>5. OfHops(p, hops) \in Seq(Frame) /\ OfHops(r, hops) \in Seq(Frame)
  BY OfHopsType
<1>6. Filtered(OfHops(p, hops) \o OfHops(r, hops), f, hops)
        = OfHops(p, hops) \o Filtered(OfHops(r, hops), f, hops)
  BY <1>5, FilteredBehind
<1>7. OfHops(p \o r, hops) = OfHops(p, hops) \o OfHops(r, hops)
  BY DEF Splits
<1>8. OfHops(p \o Append(r, f), hops)
        = OfHops(p, hops) \o OfHops(Append(r, f), hops)
  BY <1>2, <1>3, <1>4, <1>6, <1>7
<1> QED
  BY <1>8 DEF Splits

LEMMA OfHopsOfConcat ==
  ASSUME NEW p \in Seq(Frame), NEW r \in Seq(Frame), NEW hops
  PROVE  OfHops(p \o r, hops) = OfHops(p, hops) \o OfHops(r, hops)
<1> DEFINE T == {n \in Nat : \E t \in Seq(Frame) : Len(t) = n /\ ~Splits(p, t, hops)}
<1>1. Splits(p, << >>, hops)
  <2>1. p \o << >> = p /\ OfHops(p, hops) \o << >> = OfHops(p, hops)
    BY OfHopsType, ConcatEmptySeq
  <2> QED
    BY <2>1, OfHopsOfNothing DEF Splits
<1>2. ASSUME NEW t \in Seq(Frame), NEW f \in Frame, Splits(p, t, hops)
      PROVE  Splits(p, Append(t, f), hops)
  BY <1>2, SplitsAppend
<1>3. ASSUME T # {} PROVE FALSE
  <2>1. T \subseteq Nat
    OBVIOUS
  <2>2. PICK n \in T : \A j \in T : n <= j
    BY <1>3, <2>1, Least
  <2>3. PICK t \in Seq(Frame) : Len(t) = n /\ ~Splits(p, t, hops)
    BY <2>2
  <2>4. PICK q \in Seq(Frame), f \in Frame : t = Append(q, f)
    BY <1>1, <2>3, SequenceEmptyOrAppend
  <2>5. Len(q) \in Nat /\ n = Len(q) + 1
    <3>1. Len(Append(q, f)) = Len(q) + 1
      BY <2>4, AppendProperties
    <3> QED
      BY <2>3, <2>4, <3>1, LenProperties
  <2>6. Len(q) \notin T
    <3> HIDE DEF T
    <3> QED
      BY <2>1, <2>2, <2>5
  <2>7. Splits(p, q, hops)
    BY <2>5, <2>6
  <2> QED
    BY <1>2, <2>3, <2>4, <2>7
<1>4. Len(r) \in Nat /\ Len(r) \notin T
  <2> HIDE DEF T
  <2> QED
    BY <1>3, LenProperties
<1>5. Splits(p, r, hops)
  BY <1>4
<1> QED
  BY <1>5 DEF Splits

\* Nothing is collected where nobody is so many hops away.
LEMMA OfHopsOfOthers ==
  ASSUME NEW q \in Seq(Frame), NEW hops, \A k \in 1 .. Len(q) : q[k].hops # hops
  PROVE  OfHops(q, hops) = << >>
<1>1. PICK of : FilterOf(q, hops, of)
  BY FilterExists
<1>2. Len(q) \in Nat
  BY LenProperties
<1>3. of[0] = << >> /\ \A n \in 1 .. Len(q) : of[n] = of[n - 1]
  BY <1>1, FilterValues DEF Filtered
<1> DEFINE T == {n \in 0 .. Len(q) : of[n] # << >>}
<1>4. ASSUME T # {} PROVE FALSE
  <2>1. T \subseteq Nat
    OBVIOUS
  <2>2. PICK n \in T : \A j \in T : n <= j
    BY <1>4, <2>1, Least
  <2>3. n \in 1 .. Len(q)
    BY <1>2, <1>3, <2>2
  <2>4. n - 1 \in 0 .. Len(q) /\ n - 1 \notin T
    BY <1>2, <2>2, <2>3
  <2> QED
    BY <1>3, <2>2, <2>3, <2>4
<1>5. of[Len(q)] = << >>
  BY <1>2, <1>4
<1> QED
  BY <1>1, <1>5, OfHopsIsFilter

-----------------------------------------------------------------------------
(* The order in which announces go out *)

\* What the loop of tick() keeps true of order between two rounds: what it has
\* sent is in order of distance and no farther than what is left, and the
\* announces of each distance, the sent ones first, are those of the queue.
InOrder(s) ==
  /\ \A k \in 1 .. Len(s.aired) : \A j \in 1 .. Len(s.queue) :
       s.aired[k].hops <= s.queue[j].hops
  /\ \A k \in 1 .. Len(s.aired) : \A j \in 1 .. k - 1 :
       s.aired[j].hops <= s.aired[k].hops
  /\ \A f \in Frame :
       OfHops(s.aired, f.hops) \o OfHops(s.queue, f.hops) = OfHops(queue, f.hops)

\* The pick is the first of its distance: taking it out of the queue takes it
\* off the front of the announces of that distance, and touches no other.
LEMMA PickIsFront ==
  ASSUME NEW q \in Seq(Frame), q # << >>, NEW hops
  PROVE  OfHops(q, hops) =
           IF q[Pick(q)].hops = hops THEN <<q[Pick(q)]>> \o OfHops(RemoveAt(q, Pick(q)), hops)
                                     ELSE OfHops(RemoveAt(q, Pick(q)), hops)
<1> DEFINE n == Len(q)
           k == Pick(q)
           f == q[k]
           u == SubSeq(q, 1, k - 1)
           v == SubSeq(q, k + 1, n)
<1>1. /\ n \in Nat /\ k \in 1 .. n /\ f \in Frame
      /\ \A j \in 1 .. k - 1 : f.hops < q[j].hops
      /\ \A j \in 1 .. n : q[j] \in Frame /\ q[j].hops \in Nat
  <2>1. /\ k \in 1 .. n /\ \A j \in 1 .. k - 1 : f.hops < q[j].hops
    BY PickFirstOfNearest
  <2>2. n \in Nat /\ \A j \in 1 .. n : q[j] \in Frame
    BY LenProperties, ElementOfSeq
  <2>3. \A g \in Frame : g.hops \in Nat
    <3>1. \A g \in Frame : g.hops \in 0 .. 255
      OBVIOUS
    <3>2. \A h \in 0 .. 255 : h \in Nat
      OBVIOUS
    <3> QED
      BY <3>1, <3>2
  <2> HIDE DEF k
  <2> QED
    BY <2>1, <2>2, <2>3
<1> HIDE DEF k
<1>2. /\ u \in Seq(Frame) /\ v \in Seq(Frame) /\ RemoveAt(q, k) = u \o v
  BY <1>1, RemovedType
<1>3. Len(u) = k - 1 /\ \A j \in 1 .. k - 1 : u[j] = q[j]
  <2>1. \A j \in 1 .. k - 1 : q[j] \in Frame
    BY <1>1
  <2>2. /\ Len(u) = IF 1 <= k - 1 THEN k - 1 - 1 + 1 ELSE 0
        /\ \A j \in 1 .. k - 1 - 1 + 1 : u[j] = q[1 + j - 1]
    BY <1>1, <2>1, SubSeqProperties
  <2> HIDE DEF u
  <2> QED
    BY <1>1, <2>2
<1>4. Append(u, f) \in Seq(Frame) /\ q = Append(u, f) \o v
  <2>1. q = SubSeq(q, 1, n)
    BY SubSeqFull
  <2>2. SubSeq(q, 1, k) \o v = SubSeq(q, 1, n)
    BY <1>1, ConcatAdjacentSubSeq
  <2>3. SubSeq(q, 1, k) = u \o <<q[k]>>
    BY <1>1, SubSeqRecursiveSecond
  <2>4. Append(u, f) \in Seq(Frame) /\ Append(u, f) = u \o <<f>>
    <3> HIDE DEF f, u
    <3> QED
      BY <1>1, <1>2, AppendProperties, AppendIsConcat
  <2> QED
    BY <2>1, <2>2, <2>3, <2>4
<1> HIDE DEF f, u, v
<1>5. OfHops(q, hops) = Filtered(OfHops(u, hops), f, hops) \o OfHops(v, hops)
  <2>1. OfHops(Append(u, f) \o v, hops) = OfHops(Append(u, f), hops) \o OfHops(v, hops)
    BY <1>2, <1>4, OfHopsOfConcat
  <2>2. OfHops(Append(u, f), hops) = Filtered(OfHops(u, hops), f, hops)
    BY <1>1, <1>2, OfHopsOfAppend
  <2> QED
    BY <1>4, <2>1, <2>2
<1>6. OfHops(u \o v, hops) = OfHops(u, hops) \o OfHops(v, hops)
  BY <1>2, OfHopsOfConcat
<1>7. OfHops(v, hops) \in Seq(Frame) /\ <<f>> \in Seq(Frame)
  BY <1>1, <1>2, OfHopsType
<1>8. CASE f.hops = hops
  <2>1. \A j \in 1 .. Len(u) : u[j].hops # hops
    BY <1>1, <1>3, <1>8 DEF f
  <2>2. OfHops(u, hops) = << >>
    BY <1>2, <2>1, OfHopsOfOthers
  <2>3. << >> \o OfHops(v, hops) = OfHops(v, hops)
    BY <1>7, ConcatEmptySeq
  <2>4. Append(<< >>, f) = <<f>>
    OBVIOUS
  <2>5. OfHops(q, hops) = <<f>> \o OfHops(v, hops)
    BY <1>5, <1>8, <2>2, <2>4 DEF Filtered
  <2>6. OfHops(RemoveAt(q, k), hops) = OfHops(v, hops)
    BY <1>2, <1>6, <2>2, <2>3
  <2> QED
    BY <1>8, <2>5, <2>6 DEF f, k
<1>9. CASE f.hops # hops
  <2>1. OfHops(q, hops) = OfHops(RemoveAt(q, k), hops)
    BY <1>2, <1>5, <1>6, <1>9 DEF Filtered
  <2> QED
    BY <1>9, <2>1 DEF f, k
<1> QED
  BY <1>8, <1>9

LEMMA RoundInOrder ==
  ASSUME TypeOK, NEW s \in LoopStates, InOrder(s)
  PROVE  InOrder(Round(s))
<1>1. CASE ~Fits(s)
  <2>1. Round(s).queue = s.queue /\ Round(s).aired = s.aired
    BY <1>1, RoundCases
  <2> QED
    BY <2>1 DEF InOrder
<1>2. CASE Fits(s)
  <2> DEFINE q == s.queue
             a == s.aired
             k == Pick(s.queue)
             f == s.queue[k]
             r == RemoveAt(s.queue, k)
             b == Append(s.aired, f)
  <2>1. q \in Seq(Frame) /\ a \in Seq(Frame) /\ q # << >>
    BY <1>2 DEF LoopStates, Fits
  <2>2. /\ k \in 1 .. Len(q) /\ f \in Frame /\ Len(q) \in Nat
        /\ \A j \in 1 .. Len(q) : f.hops <= q[j].hops
    <3>1. k \in 1 .. Len(q) /\ \A j \in 1 .. Len(q) : f.hops <= q[j].hops
      BY <2>1, PickFirstOfNearest
    <3> QED
      BY <2>1, <3>1, ElementOfSeq, LenProperties
  <2>3. /\ r \in Seq(Frame) /\ Len(r) = Len(q) - 1
        /\ \A j \in 1 .. Len(r) : \E i \in 1 .. Len(q) : r[j] = q[i]
    <3>1. /\ r \in Seq(Frame) /\ Len(r) = Len(q) - 1
          /\ \A j \in 1 .. Len(q) - 1 : r[j] = IF j < k THEN q[j] ELSE q[j + 1]
      BY <2>1, <2>2, RemovedType
    <3>2. \A j \in 1 .. Len(q) - 1 : j \in 1 .. Len(q) /\ j + 1 \in 1 .. Len(q)
      BY <2>2
    <3> HIDE DEF r, q
    <3> QED
      BY <3>1, <3>2
  <2>4. /\ b \in Seq(Frame) /\ Len(b) = Len(a) + 1 /\ Len(a) \in Nat
        /\ \A j \in 1 .. Len(a) : b[j] = a[j]
        /\ b[Len(a) + 1] = f
    BY <2>1, <2>2, AppendProperties, LenProperties
  <2>5. /\ Round(s).queue = r /\ Round(s).aired = b
    BY <1>2, RoundCases
  <2>6. /\ \A i \in 1 .. Len(a) : \A j \in 1 .. Len(q) : a[i].hops <= q[j].hops
        /\ \A i \in 1 .. Len(a) : \A j \in 1 .. i - 1 : a[j].hops <= a[i].hops
        /\ \A g \in Frame : OfHops(a, g.hops) \o OfHops(q, g.hops) = OfHops(queue, g.hops)
    BY DEF InOrder
  <2>7. \A i \in 1 .. Len(a) : a[i].hops <= f.hops
    BY <2>2, <2>6
  <2>8. \A i \in 1 .. Len(a) + 1 : i = Len(a) + 1 \/ i \in 1 .. Len(a)
    BY <2>4
  <2>9. \A i \in 1 .. Len(b) : \A j \in 1 .. Len(r) : b[i].hops <= r[j].hops
    <3> HIDE DEF q, a, r, b, f
    <3>1. \A i \in 1 .. Len(b) : \A j \in 1 .. Len(q) : b[i].hops <= q[j].hops
      BY <2>2, <2>4, <2>6, <2>8
    <3> QED
      BY <2>3, <3>1
  <2>10. \A i \in 1 .. Len(b) : \A j \in 1 .. i - 1 : b[j].hops <= b[i].hops
    <3> HIDE DEF q, a, r, b, f
    <3>1. \A i \in 1 .. Len(b) : \A j \in 1 .. i - 1 : j \in 1 .. Len(a)
      BY <2>4
    <3> QED
      BY <2>4, <2>6, <2>7, <2>8, <3>1
  <2>11. ASSUME NEW g \in Frame
         PROVE  OfHops(b, g.hops) \o OfHops(r, g.hops) = OfHops(queue, g.hops)
    <3> DEFINE A == OfHops(a, g.hops)
               R == OfHops(r, g.hops)
    <3>1. A \in Seq(Frame) /\ R \in Seq(Frame) /\ <<f>> \in Seq(Frame)
      <4> HIDE DEF q, a, r, b, f
      <4> QED
        BY <2>1, <2>2, <2>3, OfHopsType
    <3>2. OfHops(b, g.hops) = Filtered(A, f, g.hops)
      BY <2>1, <2>2, OfHopsOfAppend
    <3>3. OfHops(q, g.hops) = IF f.hops = g.hops THEN <<f>> \o R ELSE R
      BY <2>1, PickIsFront
    <3>4. A \o OfHops(q, g.hops) = OfHops(queue, g.hops)
      BY <2>6
    <3>5. Append(A, f) = A \o <<f>> /\ (A \o <<f>>) \o R = A \o (<<f>> \o R)
      <4> HIDE DEF A, R, f
      <4>1. f \in Frame
        BY <2>2
      <4>2. Append(A, f) = A \o <<f>>
        BY <3>1, <4>1, AppendIsConcat
      <4> QED
        BY <3>1, <4>2, ConcatAssociative
    <3> HIDE DEF A, R, f, q, b
    <3> QED
      BY <3>2, <3>3, <3>4, <3>5 DEF Filtered, R
  <2> HIDE DEF q, a, k, f, r, b
  <2> QED
    BY <2>5, <2>9, <2>10, <2>11 DEF InOrder
<1> QED
  BY <1>1, <1>2

LEMMA TickInOrder ==
  ASSUME TypeOK, Tick
  PROVE  /\ \A k \in DOMAIN aired' :
              /\ \A j \in DOMAIN queue' : aired'[k].hops <= queue'[j].hops
              /\ \A j \in 1 .. k - 1 : aired'[j].hops <= aired'[k].hops
         /\ \A f \in Frame :
              OfHops(aired', f.hops) \o OfHops(queue', f.hops) = OfHops(queue, f.hops)
<1> DEFINE T == {s \in LoopStates : InOrder(s)}
<1>1. queue \in Seq(Frame) /\ emits \in Seq(Emissions)
  BY DEF TypeOK
<1>2. Start \in T
  <2>1. << >> \in Seq(Frame) /\ Start \in LoopStates /\ Len(<< >>) = 0
    BY <1>1, EmptySeq DEF Start, LoopStates
  <2>2. Start.queue = queue /\ Start.aired = << >>
    BY DEF Start
  <2>3. \A f \in Frame :
          OfHops(<< >>, f.hops) \o OfHops(queue, f.hops) = OfHops(queue, f.hops)
    <3>1. ASSUME NEW f \in Frame
          PROVE  OfHops(<< >>, f.hops) \o OfHops(queue, f.hops) = OfHops(queue, f.hops)
      <4>1. OfHops(<< >>, f.hops) = << >> /\ OfHops(queue, f.hops) \in Seq(Frame)
        BY <1>1, OfHopsOfNothing, OfHopsType
      <4> QED
        BY <4>1, ConcatEmptySeq
    <3> QED
      BY <3>1
  <2>4. InOrder(Start)
    BY <2>1, <2>2, <2>3 DEF InOrder
  <2> QED
    BY <2>1, <2>4
<1>3. ASSUME NEW s \in T PROVE Round(s) \in T
  BY RoundCases, RoundInOrder
<1>4. Drained \subseteq T
  <2> HIDE DEF T
  <2> QED
    BY <1>1, <1>2, <1>3, DrainedIn
<1>5. PICK end \in Drained : queue' = end.queue /\ aired' = end.aired
  BY DEF Tick
<1>6. InOrder(end) /\ end.queue \in Seq(Frame) /\ end.aired \in Seq(Frame)
  BY <1>4 DEF LoopStates
<1>7. DOMAIN end.queue = 1 .. Len(end.queue) /\ DOMAIN end.aired = 1 .. Len(end.aired)
  BY <1>6, LenProperties
<1> QED
  BY <1>5, <1>6, <1>7 DEF InOrder

\* Announces go out by distance, and among equals in the order of arrival; a
\* tick loses none of them (Interface.cpp:57-68).
THEOREM NoneOvertakes == Spec => NoOvertaking
<1> DEFINE Ordered ==
      aired' # << >> =>
        /\ \A k \in DOMAIN aired' :
             /\ \A j \in DOMAIN queue' : aired'[k].hops <= queue'[j].hops
             /\ \A j \in 1 .. k - 1 : aired'[j].hops <= aired'[k].hops
        /\ \A f \in Frame :
             OfHops(aired', f.hops) \o OfHops(queue', f.hops) = OfHops(queue, f.hops)
<1>1. TypeOK /\ [Next]_vars => [Ordered]_vars
  <2> SUFFICES ASSUME TypeOK, Next PROVE Ordered
    OBVIOUS
  <2>1. CASE Tick
    BY <2>1, TickInOrder
  <2>2. CASE \E f \in Frame : QueueAnnounce(f)
    BY <2>2 DEF QueueAnnounce
  <2>3. CASE ReadAirtime
    BY <2>3 DEF ReadAirtime
  <2>4. CASE Elapse
    BY <2>4 DEF Elapse
  <2> QED
    BY <2>1, <2>2, <2>3, <2>4 DEF Next
<1>2. Spec => [][Ordered]_vars
  <2> HIDE DEF Ordered
  <2> QED
    BY <1>1, TypeCorrect, PTL DEF Spec
<1> QED
  BY <1>2 DEF NoOvertaking
=============================================================================
