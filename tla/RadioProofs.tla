---------------------------- MODULE RadioProofs -----------------------------
(***************************************************************************)
(* Theorems about Radio, for any neighbours, packets and nibbles, and any  *)
(* losses, damage and interleaving of frames.                              *)
(***************************************************************************)
EXTENDS Radio, SequenceTheorems, TLAPS

\* What transmit() keeps of a packet's length in its frames.
WellMade(f) ==
  /\ f.part = "first" => f.len = FrameMax
  /\ f.part = "second" => FrameMax + f.len <= MaxPayload

\* The frames that n has still to send are of its latest transmission: all of
\* them, or the last one.
QueueOK(n) ==
  LET q == queue[n]
  IN  q # << >> =>
        /\ \A k \in 1 .. Len(q) : /\ q[k].pkt = [from |-> n, nth |-> started[n]]
                                  /\ WellMade(q[k])
        /\ \/ Len(q) = 1 /\ q[1].part \in {"whole", "second"}
           \/ /\ Len(q) = 2 /\ q[1].part = "first" /\ q[2].part = "second"
              /\ q[1].seq = q[2].seq

\* Frame f has been sent: what is left to send of its packet comes after it.
Sent(f) ==
  LET n == f.pkt.from
      q == queue[n]
  IN  /\ f.pkt.nth <= started[n]
      /\ WellMade(f)
      /\ f.pkt.nth = started[n] /\ q # << >> =>
           f.part = "first" /\ Len(q) = 1 /\ q[1].part = "second" /\ q[1].seq = f.seq

\* A frame that follows another one of the same packet completes it.
Follows(f, g) == f.pkt = g.pkt => f.part = "first" /\ g.part = "second" /\ f.seq = g.seq

\* The frames that are on their way, unread, or kept for their other half.
AirInv ==
  /\ \A n \in Node : QueueOK(n)
  /\ chip \in Frames => Sent(chip)
  /\ split # NoHalf => IsSplit(split.frame) /\ Sent(split.frame)
  /\ split # NoHalf /\ chip \in Frames => Follows(split.frame, chip)

Inv == TypeOK /\ AirInv

-----------------------------------------------------------------------------
(* Types *)

LEMMA ShortSeqs ==
  /\ << >> \in Seq(Frames) /\ << >> \in Seq(Reading) /\ Len(<< >>) = 0
  /\ \A x \in Reading : <<x>> \in Seq(Reading) /\ Len(<<x>>) = 1
  /\ \A x, y \in Reading : <<x, y>> \in Seq(Reading) /\ Len(<<x, y>>) = 2
<1>1. << >> \in Seq(Frames) /\ << >> \in Seq(Reading)
  OBVIOUS
<1>2. Len(<< >>) = 0
  OBVIOUS
<1> QED
  BY <1>1, <1>2

LEMMA FramesFit ==
  ASSUME NEW p \in Transmission, NEW s \in SeqNo, LengthOf(p) \in Nat
  PROVE  FramesOf(p, s) \in Seq(Frames)
<1> USE RadioAssumption
<1>1. CASE LengthOf(p) > MaxPayload
  BY <1>1 DEF FramesOf
<1>2. CASE LengthOf(p) <= FrameMax
  <2>1. Piece(p, "whole", s, LengthOf(p)) \in Frames
    BY <1>2 DEF Piece, Frames
  <2> HIDE DEF Piece
  <2> QED
    BY <1>1, <1>2, <2>1 DEF FramesOf
<1>3. CASE LengthOf(p) > FrameMax /\ LengthOf(p) <= MaxPayload
  <2>1. Piece(p, "first", s, FrameMax) \in Frames
    BY DEF Piece, Frames
  <2>2. LengthOf(p) - FrameMax \in 0 .. FrameMax
    BY <1>3
  <2>3. Piece(p, "second", s, LengthOf(p) - FrameMax) \in Frames
    BY <2>2 DEF Piece, Frames
  <2>4. FramesOf(p, s) = << Piece(p, "first", s, FrameMax),
                            Piece(p, "second", s, LengthOf(p) - FrameMax) >>
    BY <1>3 DEF FramesOf
  <2> QED
    BY <2>1, <2>3, <2>4
<1> QED
  BY <1>1, <1>2, <1>3

LEMMA LengthsAreNat ==
  ASSUME NEW n \in Node, NEW k \in Nat, 0 < k, k <= Len(Program[n])
  PROVE  LengthOf([from |-> n, nth |-> k]) \in Nat
<1>1. Program[n] \in Seq(Nat)
  BY RadioAssumption
<1> QED
  BY <1>1 DEF LengthOf

LEMMA HeldHalfOK == TypeOK => HeldHalf \in {split, NoHalf} /\ HeldHalf \in Reading \cup {NoHalf}
BY DEF TypeOK, HeldHalf

LEMMA TypeStep == TypeOK /\ [Next]_vars => TypeOK'
<1> SUFFICES ASSUME TypeOK, [Next]_vars
             PROVE  TypeOK'
  OBVIOUS
<1> USE DEF TypeOK
<1>1. ASSUME NEW n \in Node, Transmit(n)
      PROVE  TypeOK'
  <2>1. started' \in [Node -> Nat]
    BY <1>1 DEF Transmit
  <2>2. PICK s \in SeqNo :
          queue' = [queue EXCEPT ![n] = FramesOf([from |-> n, nth |-> started'[n]], s)]
    BY <1>1 DEF Transmit
  <2>3. started'[n] \in Nat /\ 0 < started'[n] /\ started'[n] <= Len(Program[n])
    <3>1. started'[n] = started[n] + 1 /\ started[n] < Len(Program[n]) /\ started[n] \in Nat
      BY <1>1 DEF Transmit
    <3>2. Len(Program[n]) \in Nat
      BY RadioAssumption
    <3> QED
      BY <3>1, <3>2
  <2>4. [from |-> n, nth |-> started'[n]] \in Transmission
    BY <2>3 DEF Transmission
  <2>5. FramesOf([from |-> n, nth |-> started'[n]], s) \in Seq(Frames)
    BY <2>3, <2>4, LengthsAreNat, FramesFit
  <2>6. queue' \in [Node -> Seq(Frames)]
    BY <2>2, <2>5
  <2> QED
    BY <1>1, <2>1, <2>6 DEF Transmit
<1>2. ASSUME NEW n \in Node, TransmitFails(n)
      PROVE  TypeOK'
  BY <1>2 DEF TransmitFails
<1>3. ASSUME NEW n \in Node, queue[n] # << >>
      PROVE  Tail(queue[n]) \in Seq(Frames) /\ Head(queue[n]) \in Frames
  <2>1. queue[n] \in Seq(Frames)
    OBVIOUS
  <2> QED
    BY <1>3, <2>1
<1>4. ASSUME NEW n \in Node, FrameArrives(n)
      PROVE  TypeOK'
  BY <1>3, <1>4 DEF FrameArrives
<1>5. ASSUME NEW n \in Node, FrameMissed(n)
      PROVE  TypeOK'
  BY <1>3, <1>5 DEF FrameMissed
<1>6. CASE ReadPending
  <2>1. UNCHANGED <<now, started, queue, mode>> /\ rxFlag' = FALSE /\ chip' = NoFrame
    BY <1>6 DEF ReadPending
  <2> DEFINE r == [frame |-> chip, at |-> now]
  <2>2. chip \in Frames => r \in Reading
    BY DEF Reading
  <2>3. split' \in Reading \cup {NoHalf}
    BY <1>6, <2>2, HeldHalfOK
       DEF ReadPending, ReadNothing, ReadWhole, ReadSecondHalf, ReadFirstHalf, HalfAfter
  <2>4. got' \in Seq(Reading) /\ Len(got') <= 2
    <3>1. CASE ReadNothing \/ ReadFirstHalf
      <4>1. got' = << >>
        BY <3>1 DEF ReadNothing, ReadFirstHalf
      <4> QED
        BY <4>1, ShortSeqs
    <3>2. CASE ReadWhole
      <4>1. r \in Reading /\ got' = <<r>>
        BY <2>2, <3>2 DEF ReadWhole
      <4> HIDE DEF r
      <4> QED
        BY <4>1, ShortSeqs
    <3>3. CASE ReadSecondHalf
      <4>1. HeldHalf \in Reading /\ r \in Reading
        BY <2>2, <3>3, HeldHalfOK DEF ReadSecondHalf, Joins
      <4>2. got' = << >> \/ got' = << HeldHalf, r >>
        BY <3>3 DEF ReadSecondHalf
      <4> HIDE DEF r
      <4>3. CASE got' = << >>
        BY <4>3, ShortSeqs
      <4>4. CASE got' = << HeldHalf, r >>
        BY <4>1, <4>4
      <4> QED
        BY <4>2, <4>3, <4>4
    <3> QED
      BY <1>6, <3>1, <3>2, <3>3 DEF ReadPending
  <2>5. reads' \in Seq(Reading)
    <3>1. reads' = reads \/ (r \in Reading /\ reads' = Append(reads, r))
      BY <1>6, <2>2 DEF ReadPending, ReadNothing, ReadWhole, ReadSecondHalf, ReadFirstHalf
    <3>2. reads \in Seq(Reading)
      BY DEF TypeOK
    <3> HIDE DEF r
    <3>3. CASE reads' = reads
      BY <3>2, <3>3
    <3>4. CASE r \in Reading /\ reads' = Append(reads, r)
      BY <3>2, <3>4, AppendProperties
    <3> QED
      BY <3>1, <3>3, <3>4
  <2> QED
    BY <2>1, <2>3, <2>4, <2>5
<1>7. CASE StartSending \/ Rearm \/ ClearFlag
  BY <1>7 DEF StartSending, Rearm, ClearFlag
<1>8. CASE Elapse
  BY <1>8 DEF Elapse
<1>9. CASE UNCHANGED vars
  BY <1>9 DEF vars
<1> QED
  BY <1>1, <1>2, <1>4, <1>5, <1>6, <1>7, <1>8, <1>9 DEF Next

\* Every frame fits the air with its header (Radio.cpp:385-401), and every
\* packet that is returned is of one frame or two.
THEOREM TypeCorrect == Spec => []TypeOK
<1>1. Init => TypeOK
  <2> SUFFICES ASSUME Init
               PROVE  TypeOK
    OBVIOUS
  <2>1. got \in Seq(Reading) /\ Len(got) <= 2 /\ reads \in Seq(Reading)
    BY ShortSeqs DEF Init
  <2>2. queue \in [Node -> Seq(Frames)] /\ started \in [Node -> Nat]
    BY ShortSeqs DEF Init
  <2> QED
    BY <2>1, <2>2 DEF Init, TypeOK
<1> QED
  BY <1>1, TypeStep, PTL DEF Spec

LEMMA TypesHold == Spec => []TypeOK
BY TypeCorrect

\* The two halves of what is returned were read within the timeout of each
\* other (Radio.cpp:190-195), although it is only looked at when one is read.
THEOREM HalvesInTime == Spec => []JoinedInTime
<1>1. Init => JoinedInTime
  <2>1. Init => Len(got) = 0
    BY ShortSeqs DEF Init
  <2> QED
    BY <2>1 DEF JoinedInTime
<1>2. TypeOK /\ JoinedInTime /\ [Next]_vars => JoinedInTime'
  <2> SUFFICES ASSUME TypeOK, JoinedInTime, [Next]_vars
               PROVE  JoinedInTime'
    OBVIOUS
  <2>1. CASE got' = got
    BY <2>1 DEF JoinedInTime
  <2>2. CASE ReadPending
    <3> SUFFICES ASSUME Len(got') = 2
                 PROVE  got'[2].at - got'[1].at <= SplitTimeout
      BY DEF JoinedInTime
    <3>1. CASE got' = << >>
      BY <3>1, ShortSeqs
    <3>2. CASE got' = << [frame |-> chip, at |-> now] >>
      BY <3>2
    <3>3. CASE ReadSecondHalf /\ got' = << HeldHalf, [frame |-> chip, at |-> now] >>
      <4>1. HeldHalf = split /\ split # NoHalf /\ ~(now - split.at > SplitTimeout)
        BY <3>3 DEF ReadSecondHalf, Joins, HeldHalf
      <4>2. split.at \in Nat /\ now \in Nat
        BY <4>1 DEF TypeOK, Reading
      <4>3. got'[1] = split /\ got'[2].at = now
        BY <3>3, <4>1
      <4>4. now - split.at <= SplitTimeout
        BY <4>1, <4>2, RadioAssumption
      <4> QED
        BY <4>3, <4>4
    <3> QED
      BY <2>2, <3>1, <3>2, <3>3
         DEF ReadPending, ReadNothing, ReadWhole, ReadSecondHalf, ReadFirstHalf
  <2>3. CASE ~ReadPending
    BY <2>1, <2>3 DEF Next, vars, Transmit, TransmitFails, FrameArrives, FrameMissed,
                      StartSending, Rearm, ClearFlag, Elapse
  <2> QED
    BY <2>2, <2>3
<1> QED
  BY <1>1, <1>2, TypesHold, PTL DEF Spec

-----------------------------------------------------------------------------
(* The frames of a packet, in their order *)

LEMMA TailOf ==
  ASSUME NEW q \in Seq(Frames), q # << >>
  PROVE  /\ Head(q) = q[1] /\ Head(q) \in Frames /\ Tail(q) \in Seq(Frames)
         /\ Len(Tail(q)) = Len(q) - 1
         /\ Len(q) = 1 => Tail(q) = << >>
         /\ Len(q) = 2 => Tail(q) # << >> /\ Tail(q)[1] = q[2]
<1>1. Len(q) \in Nat /\ Len(q) > 0
  OBVIOUS
<1>2. Head(q) = q[1] /\ Head(q) \in Frames /\ Tail(q) \in Seq(Frames)
  BY <1>1
<1>3. Len(Tail(q)) = Len(q) - 1
  BY <1>1
<1>4. \A k \in 1 .. Len(q) - 1 : Tail(q)[k] = q[k + 1]
  BY <1>1
<1> DEFINE t == Tail(q)
<1>5. t \in Seq(Frames) /\ Len(t) = Len(q) - 1 /\ Len(q) \in Nat
  BY <1>1, <1>2, <1>3
<1>6. Len(q) = 2 => t[1] = q[2]
  BY <1>4
<1> HIDE DEF t
<1>7. Len(q) = 1 => t = << >>
  BY <1>5, EmptySeq
<1>8. Len(q) = 2 => t # << >>
  <2>1. t = << >> => Len(t) = 0
    BY ShortSeqs
  <2> QED
    BY <1>5, <2>1
<1> QED
  BY <1>2, <1>3, <1>6, <1>7, <1>8 DEF t

\* Node n sends a frame, or gives up.
Shortens(n) ==
  /\ queue[n] # << >>
  /\ queue' = [queue EXCEPT ![n] = << >>] \/ queue' = [queue EXCEPT ![n] = Tail(@)]
  /\ started' = started

LEMMA ShortenedQueue ==
  ASSUME TypeOK, \A m \in Node : QueueOK(m), NEW n \in Node, Shortens(n)
  PROVE  /\ \A m \in Node : QueueOK(m)'
         /\ \A f \in Frames : Sent(f) => Sent(f)'
<1> DEFINE q == queue[n]
<1>1. q \in Seq(Frames) /\ q # << >>
  BY DEF TypeOK, Shortens
<1>2. QueueOK(n)
  OBVIOUS
<1>3. Len(q) \in {1, 2}
  BY <1>1, <1>2 DEF QueueOK
<1>4. queue'[n] = << >> \/ (queue'[n] = Tail(q) /\ Len(q) = 2)
  BY <1>1, <1>3, TailOf DEF Shortens, TypeOK
<1>5. \A m \in Node \ {n} : queue'[m] = queue[m]
  BY DEF Shortens, TypeOK
<1>6. QueueOK(n)'
  <2>1. CASE queue'[n] = << >>
    BY <2>1 DEF QueueOK
  <2>2. CASE queue'[n] = Tail(q) /\ Len(q) = 2
    <3>1. Len(Tail(q)) = 1 /\ Tail(q)[1] = q[2]
      BY <1>1, <2>2, TailOf
    <3>2. q[2].pkt = [from |-> n, nth |-> started[n]] /\ WellMade(q[2]) /\ q[2].part = "second"
      BY <1>1, <1>2, <2>2 DEF QueueOK
    <3>3. Len(queue'[n]) = 1 /\ queue'[n][1] = q[2] /\ started'[n] = started[n]
      BY <2>2, <3>1 DEF Shortens
    <3> HIDE DEF q
    <3>4. \A k \in 1 .. Len(queue'[n]) :
            queue'[n][k].pkt = [from |-> n, nth |-> started'[n]] /\ WellMade(queue'[n][k])
      BY <3>2, <3>3
    <3> QED
      BY <3>2, <3>3, <3>4 DEF QueueOK, WellMade
  <2> QED
    BY <1>4, <2>1, <2>2
<1>7. \A m \in Node \ {n} : QueueOK(m)'
  BY <1>5 DEF QueueOK, Shortens, WellMade
<1>8. ASSUME NEW f \in Frames, Sent(f)
      PROVE  Sent(f)'
  <2>1. f.pkt.from \in Node
    BY DEF Frames, Transmission
  <2>2. CASE f.pkt.from = n
    <3>1. f.pkt.nth = started[n] => queue'[n] = << >>
      <4>1. f.pkt.nth = started[n] => Len(q) = 1
        BY <1>1, <1>8, <2>2 DEF Sent
      <4> HIDE DEF q
      <4> QED
        BY <1>4, <4>1
    <3> QED
      BY <1>8, <2>2, <3>1 DEF Sent, Shortens, WellMade
  <2>3. CASE f.pkt.from # n
    BY <1>5, <1>8, <2>1, <2>3 DEF Sent, Shortens, WellMade
  <2> QED
    BY <2>2, <2>3
<1> QED
  BY <1>6, <1>7, <1>8

\* The frame that leaves has been sent, and follows what was sent before it.
LEMMA NextFrame ==
  ASSUME TypeOK, \A m \in Node : QueueOK(m), NEW n \in Node, queue[n] # << >>,
         queue' = [queue EXCEPT ![n] = Tail(@)], started' = started,
         NEW h, h = Head(queue[n])
  PROVE  /\ Sent(h)'
         /\ \A f \in Frames : IsSplit(f) /\ Sent(f) => Follows(f, h)
<1> DEFINE q == queue[n]
           t == Tail(q)
<1>1. q \in Seq(Frames) /\ q # << >>
  BY DEF TypeOK
<1>2. h = q[1] /\ h \in Frames
  BY <1>1, TailOf
<1>3. Len(q) \in {1, 2} /\ h.pkt = [from |-> n, nth |-> started[n]] /\ WellMade(h)
  BY <1>1, <1>2 DEF QueueOK
<1>4. h.pkt.from = n /\ h.pkt.nth = started[n]
  BY <1>3
<1>5. queue'[n] = t
  BY DEF TypeOK
<1>6. h.pkt.nth <= started'[n]
  BY <1>4 DEF TypeOK
<1>7. Len(q) = 1 => t = << >>
  BY <1>1, TailOf
<1>8. Len(q) = 2 => h.part = "first" /\ Len(t) = 1 /\ t[1].part = "second" /\ t[1].seq = h.seq
  <2> SUFFICES ASSUME Len(q) = 2
               PROVE  h.part = "first" /\ Len(t) = 1 /\ t[1].part = "second" /\ t[1].seq = h.seq
    OBVIOUS
  <2>1. q[1].part = "first" /\ q[2].part = "second" /\ q[1].seq = q[2].seq
    <3>1. QueueOK(n) /\ ~(Len(q) = 1)
      OBVIOUS
    <3> QED
      BY <1>1, <3>1 DEF QueueOK
  <2>2. Len(t) = 1 /\ t[1] = q[2]
    BY <1>1, TailOf
  <2> HIDE DEF q, t
  <2> QED
    BY <1>2, <2>1, <2>2
<1>9. ASSUME NEW f \in Frames, IsSplit(f), Sent(f), f.pkt = h.pkt
      PROVE  f.part = "first" /\ h.part = "second" /\ f.seq = h.seq
  BY <1>1, <1>2, <1>4, <1>9 DEF Sent
<1> HIDE DEF q, t
<1>10. Sent(h)'
  BY <1>3, <1>4, <1>5, <1>6, <1>7, <1>8 DEF Sent, WellMade
<1> QED
  BY <1>9, <1>10 DEF Follows

LEMMA FramesInOrder ==
  ASSUME NEW p \in Transmission, NEW s \in SeqNo, LengthOf(p) \in Nat,
         NEW q, q = FramesOf(p, s), q # << >>
  PROVE  /\ Len(q) \in {1, 2}
         /\ \A k \in 1 .. Len(q) : q[k].pkt = p /\ WellMade(q[k])
         /\ \/ Len(q) = 1 /\ q[1].part \in {"whole", "second"}
            \/ Len(q) = 2 /\ q[1].part = "first" /\ q[2].part = "second" /\ q[1].seq = q[2].seq
<1> USE RadioAssumption
<1>1. CASE LengthOf(p) <= FrameMax
  <2>1. q = << Piece(p, "whole", s, LengthOf(p)) >>
    BY <1>1 DEF FramesOf
  <2>2. Len(q) = 1 /\ q[1] = Piece(p, "whole", s, LengthOf(p))
    BY <2>1
  <2>3. q[1].pkt = p /\ q[1].part = "whole"
    BY <2>2 DEF Piece
  <2>4. WellMade(q[1])
    BY <2>3 DEF WellMade
  <2> QED
    BY <2>2, <2>3, <2>4
<1>2. CASE LengthOf(p) > FrameMax
  <2>1. LengthOf(p) <= MaxPayload
    BY DEF FramesOf
  <2>2. q = << Piece(p, "first", s, FrameMax), Piece(p, "second", s, LengthOf(p) - FrameMax) >>
    BY <1>2, <2>1 DEF FramesOf
  <2>3. Len(q) = 2 /\ q[1] = Piece(p, "first", s, FrameMax)
        /\ q[2] = Piece(p, "second", s, LengthOf(p) - FrameMax)
    BY <2>2
  <2>4. /\ q[1].pkt = p /\ q[1].part = "first" /\ q[1].seq = s /\ q[1].len = FrameMax
        /\ q[2].pkt = p /\ q[2].part = "second" /\ q[2].seq = s
        /\ q[2].len = LengthOf(p) - FrameMax
    BY <2>3 DEF Piece
  <2>5. WellMade(q[1]) /\ WellMade(q[2])
    BY <2>1, <2>4 DEF WellMade
  <2> QED
    BY <2>3, <2>4, <2>5
<1> QED
  BY <1>1, <1>2

\* What was read keeps its place while nothing is sent.
LEMMA AirKept ==
  ASSUME UNCHANGED <<queue, started>>
  PROVE  /\ \A n \in Node : QueueOK(n) => QueueOK(n)'
         /\ \A f : Sent(f) => Sent(f)'
BY DEF QueueOK, Sent, WellMade

LEMMA AirStep == TypeOK /\ AirInv /\ [Next]_vars => AirInv'
<1> SUFFICES ASSUME TypeOK, AirInv, [Next]_vars
             PROVE  AirInv'
  OBVIOUS
<1>1. split # NoHalf => split.frame \in Frames
  BY DEF TypeOK, Reading
<1>2. ASSUME \A n \in Node : QueueOK(n)', \A f \in Frames : Sent(f) => Sent(f)',
             split' = split, chip' = chip \/ chip' \notin Frames
      PROVE  AirInv'
  BY <1>1, <1>2 DEF AirInv
<1>3. ASSUME NEW n \in Node, Transmit(n)
      PROVE  AirInv'
  <2>1. started[n] \in Nat /\ started'[n] = started[n] + 1 /\ started'[n] <= Len(Program[n])
    <3>1. Len(Program[n]) \in Nat
      BY RadioAssumption
    <3> QED
      BY <1>3, <3>1 DEF Transmit, TypeOK
  <2>2. \A m \in Node \ {n} : started'[m] = started[m] /\ queue'[m] = queue[m]
    BY <1>3 DEF Transmit, TypeOK
  <2>3. QueueOK(n)'
    <3> DEFINE p == [from |-> n, nth |-> started'[n]]
    <3>1. PICK s \in SeqNo : queue'[n] = FramesOf(p, s)
      BY <1>3 DEF Transmit, TypeOK
    <3>2. LengthOf(p) \in Nat /\ p \in Transmission
      BY <2>1, LengthsAreNat DEF Transmission
    <3> HIDE DEF p
    <3>3. queue'[n] # << >> =>
            /\ \A k \in 1 .. Len(queue'[n]) : queue'[n][k].pkt = p /\ WellMade(queue'[n][k])
            /\ \/ Len(queue'[n]) = 1 /\ queue'[n][1].part \in {"whole", "second"}
               \/ /\ Len(queue'[n]) = 2 /\ queue'[n][1].part = "first"
                  /\ queue'[n][2].part = "second" /\ queue'[n][1].seq = queue'[n][2].seq
      BY <3>1, <3>2, FramesInOrder
    <3> QED
      BY <3>3 DEF p, QueueOK, WellMade
  <2>4. \A m \in Node \ {n} : QueueOK(m)'
    BY <2>2 DEF AirInv, QueueOK, WellMade
  <2>5. ASSUME NEW f \in Frames, Sent(f)
        PROVE  Sent(f)'
    <3>1. f.pkt.from \in Node /\ f.pkt.nth \in Nat
      BY DEF Frames, Transmission
    <3>2. CASE f.pkt.from = n
      <4>1. f.pkt.nth <= started[n] /\ WellMade(f)
        BY <2>5, <3>2 DEF Sent
      <4>2. f.pkt.nth < started'[n]
        BY <2>1, <3>1, <4>1
      <4> QED
        BY <2>1, <3>1, <3>2, <4>1, <4>2 DEF Sent, WellMade
    <3>3. CASE f.pkt.from # n
      BY <2>2, <2>5, <3>1, <3>3 DEF Sent, WellMade
    <3> QED
      BY <3>2, <3>3
  <2> QED
    BY <1>2, <1>3, <2>3, <2>4, <2>5 DEF Transmit
<1>4. ASSUME NEW n \in Node, TransmitFails(n) \/ FrameMissed(n)
      PROVE  AirInv'
  BY <1>2, <1>4, ShortenedQueue DEF TransmitFails, FrameMissed, Shortens, AirInv
<1>5. ASSUME NEW n \in Node, FrameArrives(n)
      PROVE  AirInv'
  <2> DEFINE h == Head(queue[n])
  <2>1. /\ queue[n] # << >> /\ queue' = [queue EXCEPT ![n] = Tail(@)]
        /\ started' = started /\ split' = split /\ chip' \in {h, Damaged}
    BY <1>5 DEF FrameArrives
  <2>2. (\A m \in Node : QueueOK(m)') /\ \A f \in Frames : Sent(f) => Sent(f)'
    BY <2>1, ShortenedQueue DEF Shortens, AirInv
  <2>3. CASE chip' = Damaged
    BY <1>2, <2>1, <2>2, <2>3, MarksAssumption
  <2>4. CASE chip' = h
    <3>1. PICK g : g = h
      OBVIOUS
    <3>2. Sent(g)' /\ \A f \in Frames : IsSplit(f) /\ Sent(f) => Follows(f, g)
      BY <2>1, <3>1, NextFrame DEF AirInv
    <3>3. chip' \in Frames => Sent(chip)'
      BY <2>4, <3>1, <3>2 DEF Sent
    <3>4. split' # NoHalf => IsSplit(split'.frame) /\ Sent(split.frame)'
      BY <1>1, <2>1, <2>2 DEF AirInv
    <3>5. split' # NoHalf /\ chip' \in Frames => Follows(split'.frame, chip')
      BY <1>1, <2>1, <2>4, <3>1, <3>2 DEF AirInv
    <3> QED
      BY <2>2, <3>3, <3>4, <3>5 DEF AirInv, Follows, IsSplit
  <2> QED
    BY <2>1, <2>3, <2>4
<1>6. CASE ReadPending
  <2>1. UNCHANGED <<queue, started>> /\ chip' = NoFrame /\ chip' \notin Frames
    BY <1>6, MarksAssumption DEF ReadPending
  <2>2. \/ split' \in {split, NoHalf}
        \/ chip \in Frames /\ IsSplit(chip) /\ split' = [frame |-> chip, at |-> now]
    BY <1>6 DEF ReadPending, ReadNothing, ReadWhole, ReadSecondHalf, ReadFirstHalf, HeldHalf,
                HalfAfter
  <2>3. split' # NoHalf => IsSplit(split'.frame) /\ Sent(split'.frame)
    BY <2>2 DEF AirInv
  <2>4. split' # NoHalf => IsSplit(split.frame)' /\ Sent(split.frame)'
    BY <2>1, <2>3 DEF Sent, WellMade, IsSplit
  <2> QED
    BY <2>1, <2>4, AirKept DEF AirInv
<1>7. CASE StartSending \/ Rearm \/ ClearFlag \/ Elapse \/ UNCHANGED vars
  <2>1. UNCHANGED <<queue, started, split>> /\ (chip' = chip \/ chip' \notin Frames)
    BY <1>7, MarksAssumption DEF StartSending, Rearm, ClearFlag, Elapse, vars
  <2> QED
    BY <1>2, <2>1, AirKept DEF AirInv
<1> QED
  BY <1>3, <1>4, <1>5, <1>6, <1>7 DEF Next

LEMMA AirHolds == Spec => []AirInv
<1>1. Init => AirInv
  BY MarksAssumption DEF Init, AirInv, QueueOK
<1> QED
  BY <1>1, TypesHold, AirStep, PTL DEF Spec

-----------------------------------------------------------------------------
(* What read_pending() returns *)

\* Two halves that join are of one packet, in order, or of two that clash.
LEMMA JoinedHalves ==
  ASSUME TypeOK, AirInv, ReadSecondHalf
  PROVE  /\ HeldHalf = split /\ split \in Reading /\ chip \in Frames
         /\ now - split.at <= SplitTimeout
         /\ split.frame.seq = chip.seq
         /\ Follows(split.frame, chip)
<1>1. HeldHalf # NoHalf /\ HeldHalf.frame.seq = chip.seq /\ chip \in Frames
  BY DEF ReadSecondHalf, Joins
<1>2. HeldHalf = split /\ split # NoHalf /\ ~(now - split.at > SplitTimeout)
  BY <1>1 DEF HeldHalf
<1>3. split \in Reading /\ split.at \in Nat /\ now \in Nat
  BY <1>2 DEF TypeOK, Reading
<1>4. now - split.at <= SplitTimeout
  BY <1>2, <1>3, RadioAssumption
<1> QED
  BY <1>1, <1>2, <1>3, <1>4 DEF AirInv

\* Whatever is lost, damaged or interleaved, what is returned is a packet as a
\* neighbour sent it, or of two that drew the same nibble (Radio.cpp:243-316).
THEOREM PacketsAreWhole == Spec => []WholeUnlessClash
<1>1. Init => WholeUnlessClash
  BY DEF Init, WholeUnlessClash
<1>2. TypeOK /\ AirInv /\ WholeUnlessClash /\ [Next]_vars => WholeUnlessClash'
  <2> SUFFICES ASSUME TypeOK, AirInv, WholeUnlessClash, [Next]_vars
               PROVE  WholeUnlessClash'
    OBVIOUS
  <2>1. CASE got' = got
    BY <2>1 DEF WholeUnlessClash, Complete, Clash
  <2>2. CASE got' = << >>
    BY <2>2 DEF WholeUnlessClash
  <2>3. CASE ReadWhole
    <3> DEFINE r == [frame |-> chip, at |-> now]
    <3>1. got' = <<r>> /\ r.frame.part = "whole"
      BY <2>3 DEF ReadWhole, IsSplit
    <3> HIDE DEF r
    <3>2. Len(got') = 1 /\ got'[1] = r /\ DOMAIN got' = {1}
      BY <3>1
    <3>3. Complete(got')
      BY <3>1, <3>2 DEF Complete
    <3> QED
      BY <3>3 DEF WholeUnlessClash, Complete, Clash
  <2>4. CASE ReadSecondHalf /\ got' # << >>
    <3> DEFINE r == [frame |-> chip, at |-> now]
    <3>1. got' = <<split, r>> /\ r.frame = chip
      BY <2>4, JoinedHalves DEF ReadSecondHalf
    <3>2. split.frame.seq = chip.seq /\ Follows(split.frame, chip)
      BY <2>4, JoinedHalves
    <3> HIDE DEF r
    <3>3. Len(got') = 2 /\ got'[1] = split /\ got'[2] = r /\ DOMAIN got' = {1, 2}
      BY <3>1
    <3>4. Complete(got') \/ Clash(got')
      BY <3>1, <3>2, <3>3 DEF Complete, Clash, Follows
    <3> QED
      BY <3>4 DEF WholeUnlessClash, Complete, Clash
  <2>5. CASE ~ReadPending
    BY <2>1, <2>5 DEF Next, vars, Transmit, TransmitFails, FrameArrives, FrameMissed,
                      StartSending, Rearm, ClearFlag, Elapse
  <2> QED
    BY <2>2, <2>3, <2>4, <2>5 DEF ReadPending, ReadNothing, ReadFirstHalf
<1> QED
  BY <1>1, <1>2, TypesHold, AirHolds, PTL DEF Spec

-----------------------------------------------------------------------------
(* The half that waits *)

LastRead == reads[Len(reads)]

\* The half that waits is the split frame read last, which waits unless it
\* joined the one before it or has been there for too long.
WaitInv ==
  /\ split # NoHalf => reads # << >> /\ split = LastRead
  /\ reads # << >> /\ ~SameSeqBefore(Len(reads)) =>
       split = LastRead \/ (split = NoHalf /\ now - LastRead.at > SplitTimeout)

LEMMA OneMore ==
  ASSUME reads \in Seq(Reading), NEW r \in Reading, reads' = Append(reads, r)
  PROVE  /\ Len(reads) \in Nat /\ Len(reads') = Len(reads) + 1
         /\ reads'[Len(reads')] = r /\ reads' # << >>
         /\ \A k \in 1 .. Len(reads) : reads'[k] = reads[k]
         /\ reads # << >> => Len(reads) > 0 /\ LastRead \in Reading
<1>1. Len(reads) \in Nat /\ Len(reads') = Len(reads) + 1 /\ reads' \in Seq(Reading)
  OBVIOUS
<1>2. reads'[Len(reads')] = r /\ \A k \in 1 .. Len(reads) : reads'[k] = reads[k]
  BY <1>1
<1>3. reads' # << >>
  BY <1>1, ShortSeqs
<1>4. reads # << >> => Len(reads) > 0
  BY <1>1, EmptySeq
<1>5. reads # << >> => LastRead \in Reading
  BY <1>1, <1>4 DEF LastRead
<1> QED
  BY <1>1, <1>2, <1>3, <1>4, <1>5

LEMMA WaitStep == TypeOK /\ AirInv /\ WaitInv /\ [Next]_vars => WaitInv'
<1> SUFFICES ASSUME TypeOK, AirInv, WaitInv, [Next]_vars
             PROVE  WaitInv'
  OBVIOUS
<1>1. now \in Nat /\ reads \in Seq(Reading) /\ SplitTimeout \in Nat
  BY RadioAssumption DEF TypeOK
<1>2. reads # << >> => LastRead \in Reading /\ LastRead.at \in Nat
  <2>1. reads # << >> => Len(reads) \in Nat \ {0}
    BY <1>1, EmptySeq
  <2>2. reads # << >> => LastRead \in Reading
    BY <1>1, <2>1 DEF LastRead
  <2> QED
    BY <2>2 DEF Reading
<1>3. CASE reads' = reads /\ split' = split /\ now' \in {now, now + 1}
  <2>1. LastRead' = LastRead /\ (SameSeqBefore(Len(reads))' <=> SameSeqBefore(Len(reads)))
    BY <1>3 DEF LastRead, SameSeqBefore
  <2>2. reads # << >> /\ now - LastRead.at > SplitTimeout => now' - LastRead.at > SplitTimeout
    BY <1>1, <1>2, <1>3
  <2> QED
    BY <1>3, <2>1, <2>2 DEF WaitInv
<1>4. CASE ReadPending
  <2> DEFINE r == [frame |-> chip, at |-> now]
  <2>1. now' = now
    BY <1>4 DEF ReadPending
  <2>2. CASE ReadNothing \/ ReadWhole
    <3>1. reads' = reads /\ split' = HeldHalf
      BY <2>2 DEF ReadNothing, ReadWhole
    <3>2. \/ split' = split
          \/ split # NoHalf /\ now - split.at > SplitTimeout /\ split' = NoHalf
      BY <3>1 DEF HeldHalf
    <3>3. LastRead' = LastRead /\ (SameSeqBefore(Len(reads))' <=> SameSeqBefore(Len(reads)))
      BY <3>1 DEF LastRead, SameSeqBefore
    <3> QED
      BY <2>1, <3>1, <3>2, <3>3 DEF WaitInv
  <2>3. CASE ReadFirstHalf
    <3>1. r \in Reading /\ reads' = Append(reads, r) /\ split' = r
      BY <1>1, <2>3 DEF ReadFirstHalf, HalfAfter, Reading
    <3> HIDE DEF r
    <3>2. reads' # << >> /\ LastRead' = r
      BY <1>1, <3>1, OneMore DEF LastRead
    <3> QED
      BY <3>1, <3>2 DEF WaitInv
  <2>4. CASE ReadSecondHalf
    <3>1. r \in Reading /\ reads' = Append(reads, r) /\ split' = NoHalf
          /\ r.frame = chip /\ r.at = now
      BY <1>1, <2>4 DEF ReadSecondHalf, Reading
    <3>2. split \in Reading /\ now - split.at <= SplitTimeout /\ split.frame.seq = chip.seq
      BY <2>4, JoinedHalves
    <3>3. reads # << >> /\ split = LastRead
      BY <3>2, MarksAssumption DEF WaitInv
    <3> HIDE DEF r
    <3>4. /\ Len(reads) \in Nat /\ Len(reads) > 0 /\ Len(reads') = Len(reads) + 1
          /\ reads'[Len(reads')] = r /\ reads'[Len(reads') - 1] = split
      BY <1>1, <3>1, <3>3, OneMore DEF LastRead
    <3>5. SameSeqBefore(Len(reads))'
      BY <3>1, <3>2, <3>4 DEF SameSeqBefore
    <3> QED
      BY <3>1, <3>5 DEF WaitInv
  <2> QED
    BY <1>4, <2>2, <2>3, <2>4 DEF ReadPending
<1>5. CASE ~ReadPending
  BY <1>3, <1>5 DEF Next, vars, Transmit, TransmitFails, FrameArrives, FrameMissed,
                    StartSending, Rearm, ClearFlag, Elapse
<1> QED
  BY <1>4, <1>5

LEMMA WaitHolds == Spec => []WaitInv
<1>1. Init => WaitInv
  BY DEF Init, WaitInv
<1> QED
  BY <1>1, TypesHold, AirHolds, WaitStep, PTL DEF Spec

\* Two halves of a packet, read one after the other in time, are returned
\* joined, whatever half was lost before them, unless the split frame read
\* before them has their nibble (Radio.cpp:243-295).
THEOREM CleanPairsJoin == Spec => CleanPairReturned
<1>1. TypeOK /\ AirInv /\ WaitInv /\ [Next]_vars =>
        [(Len(reads') > Len(reads) /\ CleanPair(Len(reads))') =>
           Len(got') = 2 /\ Complete(got')]_vars
  <2> SUFFICES ASSUME TypeOK, AirInv, WaitInv, [Next]_vars,
                      Len(reads') > Len(reads), CleanPair(Len(reads))'
               PROVE  Len(got') = 2 /\ Complete(got')
    OBVIOUS
  <2> DEFINE r == [frame |-> chip, at |-> now]
  <2>1. now \in Nat /\ reads \in Seq(Reading) /\ SplitTimeout \in Nat /\ Len(reads) \in Nat
    BY RadioAssumption DEF TypeOK
  <2>2. reads' # reads
    BY <2>1
  <2>3. ReadPending
    BY <2>2 DEF Next, vars, Transmit, TransmitFails, FrameArrives, FrameMissed,
                StartSending, Rearm, ClearFlag, Elapse
  <2>4. ReadFirstHalf \/ ReadSecondHalf
    BY <2>2, <2>3 DEF ReadPending, ReadNothing, ReadWhole
  <2>5. /\ reads' = Append(reads, r) /\ r \in Reading
        /\ r.frame = chip /\ r.at = now /\ chip \in Frames /\ IsSplit(chip)
    BY <2>1, <2>4 DEF ReadFirstHalf, ReadSecondHalf, Reading
  <2> HIDE DEF r
  <2>6. /\ Len(reads') = Len(reads) + 1 /\ reads'[Len(reads')] = r
        /\ \A k \in 1 .. Len(reads) : reads'[k] = reads[k]
    BY <2>1, <2>5, OneMore
  <2>7. /\ Len(reads) > 0
        /\ LastRead.frame.pkt = chip.pkt
        /\ now - LastRead.at <= SplitTimeout
        /\ ~SameSeqBefore(Len(reads))
    <3>1. Len(reads') > 1
      BY DEF CleanPair
    <3>2. Len(reads) > 0 /\ Len(reads') - 1 = Len(reads) /\ reads'[Len(reads)] = LastRead
      <4>1. Len(reads) > 0 /\ Len(reads') - 1 = Len(reads)
        BY <2>1, <2>6, <3>1
      <4>2. Len(reads) \in 1 .. Len(reads)
        BY <2>1, <4>1
      <4>3. reads'[Len(reads)] = reads[Len(reads)]
        BY <2>6, <4>2
      <4> QED
        BY <4>1, <4>3 DEF LastRead
    <3>3. LastRead.frame.pkt = chip.pkt /\ now - LastRead.at <= SplitTimeout
      <4>1. /\ reads'[Len(reads') - 1].frame.pkt = reads'[Len(reads')].frame.pkt
            /\ reads'[Len(reads')].at - reads'[Len(reads') - 1].at <= SplitTimeout
        BY DEF CleanPair
      <4>2. reads'[Len(reads') - 1] = LastRead /\ reads'[Len(reads')] = r
        BY <2>6, <3>2
      <4> QED
        BY <2>5, <4>1, <4>2
    <3>4. \A k \in 1 .. Len(reads) : SameSeqBefore(k)' <=> SameSeqBefore(k)
      BY <2>1, <2>6 DEF SameSeqBefore
    <3>5. ~SameSeqBefore(Len(reads))
      <4>1. PICK k \in 1 .. Len(reads) : k = Len(reads)
        BY <2>1, <3>2
      <4>2. ~SameSeqBefore(k)'
        BY <3>2, <4>1 DEF CleanPair, SameSeqBefore
      <4> QED
        BY <3>4, <4>1, <4>2
    <3> QED
      BY <3>2, <3>3, <3>5
  <2>8. LastRead \in Reading /\ LastRead.at \in Nat /\ reads # << >>
    <3>1. LastRead \in Reading
      BY <2>1, <2>7 DEF LastRead
    <3> QED
      BY <2>7, <3>1, ShortSeqs DEF Reading
  <2>9. split = LastRead /\ split # NoHalf
    BY <2>1, <2>7, <2>8, MarksAssumption DEF WaitInv
  <2>10. HeldHalf = split
    BY <2>1, <2>7, <2>8, <2>9 DEF HeldHalf
  <2>11. Follows(split.frame, chip) /\ split.frame.pkt = chip.pkt
    BY <2>5, <2>7, <2>9 DEF AirInv
  <2>12. Joins(chip)
    BY <2>9, <2>10, <2>11 DEF Joins, Follows
  <2>13. ReadSecondHalf
    BY <2>4, <2>12 DEF ReadFirstHalf
  <2>14. ~(HeldHalf.frame.len + chip.len > MaxPayload)
    <3>1. split.frame \in Frames /\ WellMade(split.frame) /\ WellMade(chip)
      BY <2>5, <2>8, <2>9 DEF AirInv, Sent, Reading
    <3>2. split.frame.len = FrameMax /\ FrameMax + chip.len <= MaxPayload
      BY <2>11, <3>1 DEF Follows, WellMade
    <3>3. chip.len \in Nat /\ FrameMax \in Nat /\ MaxPayload \in Nat
      BY <2>5, RadioAssumption DEF Frames
    <3> QED
      BY <2>10, <3>2, <3>3
  <2>15. got' = <<split, r>>
    BY <2>10, <2>13, <2>14 DEF ReadSecondHalf, r
  <2>16. Len(got') = 2 /\ got'[1] = split /\ got'[2] = r /\ DOMAIN got' = {1, 2}
    BY <2>15
  <2> QED
    BY <2>5, <2>11, <2>16 DEF Complete, Follows
<1> QED
  BY <1>1, TypesHold, AirHolds, WaitHolds, PTL DEF Spec, CleanPairReturned
=============================================================================
