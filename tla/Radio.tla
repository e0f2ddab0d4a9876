-------------------------------- MODULE Radio --------------------------------
(***************************************************************************)
(* Packets over LoRa frames, src/src/Radio.cpp: transmit() splits a long   *)
(* packet into two frames and read_pending() joins what it hears.  Some    *)
(* neighbours run transmit(); we run the loop, which reads a frame when    *)
(* the interrupt has flagged one and transmits now and then.  Frames get   *)
(* lost, or arrive damaged; those of several neighbours interleave.        *)
(*                                                                         *)
(* The chip and RadioLib are external: they keep the latest frame, raise   *)
(* the interrupt when one is complete, and hear nothing while sending.     *)
(* The uncommented definitions that no other uses are slips this code      *)
(* could have made (see "Mutants" in the README).                          *)
(***************************************************************************)
EXTENDS Naturals, Sequences

CONSTANTS
  Node,          \* the neighbours within earshot
  Program,       \* the lengths of the packets each of them transmits
  SeqNo,         \* the values of the random sequence nibble
  FrameMax,      \* 254: SINGLE_MTU - 1, what one frame carries
  MaxPayload,    \* 508
  SplitTimeout,  \* 500 ms
  NoFrame, Damaged, NoHalf,
  MaxTime        \* bound: the clock stops here

ASSUME RadioAssumption ==
  /\ \A n \in Node : Program[n] \in Seq(Nat)
  /\ FrameMax \in Nat /\ MaxPayload \in Nat /\ SplitTimeout \in Nat /\ MaxTime \in Nat
  /\ MaxPayload <= 2 * FrameMax   \* what two frames carry

VARIABLES
  now,        \* millis()
  started,    \* how many packets each neighbour has begun
  queue,      \* the frames each neighbour's transmit() has still to send
  mode,       \* our chip: "rx"; "tx" while it sends; "rearmed" when it listens
              \* again and transmit() has not returned
  chip,       \* the frame received and not read
  rxFlag,     \* s_rx_flag, set by the interrupt
  split,      \* s_split_*: the half waiting for the other one, or NoHalf
  got,        \* what the latest read_pending() returned, piece by piece
  reads       \* history: the split frames read so far

vars == <<now, started, queue, mode, chip, rxFlag, split, got, reads>>

Transmission == [from : Node, nth : Nat]

Frames == [pkt : Transmission, part : {"whole", "first", "second"},
           seq : SeqNo, len : 0 .. FrameMax]

\* A frame and when it was read.
Reading == [frame : Frames, at : Nat]

ASSUME MarksAssumption ==
  NoFrame \notin Frames /\ Damaged \notin Frames /\ NoHalf \notin Reading

LengthOf(p) == Program[p.from][p.nth]

Piece(p, part, s, len) == [pkt |-> p, part |-> part, seq |-> s, len |-> len]

FramesOffByOne(p, s) ==
  IF LengthOf(p) > MaxPayload THEN << >>
  ELSE IF LengthOf(p) <= FrameMax + 1 THEN << Piece(p, "whole", s, LengthOf(p)) >>
  ELSE << Piece(p, "first", s, FrameMax), Piece(p, "second", s, LengthOf(p) - FrameMax) >>

\* What transmit() puts on the air: nothing of a packet that is too long, one
\* frame, or two with the same header.
FramesOf(p, s) ==
  IF LengthOf(p) > MaxPayload THEN << >>
  ELSE IF LengthOf(p) <= FrameMax THEN << Piece(p, "whole", s, LengthOf(p)) >>
  ELSE << Piece(p, "first", s, FrameMax), Piece(p, "second", s, LengthOf(p) - FrameMax) >>

-----------------------------------------------------------------------------
(* The neighbours *)

Transmit(n) ==
  /\ queue[n] = << >>
  /\ started[n] < Len(Program[n])
  /\ started' = [started EXCEPT ![n] = @ + 1]
  /\ \E s \in SeqNo :
       queue' = [queue EXCEPT ![n] = FramesOf([from |-> n, nth |-> started'[n]], s)]
  /\ UNCHANGED <<now, mode, chip, rxFlag, split, got, reads>>

Listening == mode \in {"rx", "rearmed"}

\* A frame of n ends.  The interrupt sets the flag whatever the loop is doing;
\* a frame that was not read is overwritten.
FrameArrives(n) ==
  /\ queue[n] # << >>
  /\ queue' = [queue EXCEPT ![n] = Tail(@)]
  /\ Listening
  /\ chip' \in {Head(queue[n]), Damaged}
  /\ rxFlag' = TRUE
  /\ UNCHANGED <<now, started, mode, split, got, reads>>

FrameMissed(n) ==
  /\ queue[n] # << >>
  /\ queue' = [queue EXCEPT ![n] = Tail(@)]
  /\ UNCHANGED <<now, started, mode, chip, rxFlag, split, got, reads>>

\* The chip refuses a frame: transmit() does not try the other one.
TransmitFails(n) ==
  /\ queue[n] # << >>
  /\ queue' = [queue EXCEPT ![n] = << >>]
  /\ UNCHANGED <<now, started, mode, chip, rxFlag, split, got, reads>>

-----------------------------------------------------------------------------
(* read_pending() *)

HeldForEver == split

\* The half that is not too old.
HeldHalf ==
  IF split # NoHalf /\ now - split.at > SplitTimeout THEN NoHalf ELSE split

IsSplit(f) == f.part # "whole"

JoinsAnything(f) == HeldHalf # NoHalf

Joins(f) == HeldHalf # NoHalf /\ HeldHalf.frame.seq = f.seq

\* A damaged frame is read and dropped.
ReadNothing ==
  /\ chip \notin Frames
  /\ split' = HeldHalf
  /\ got' = << >>
  /\ UNCHANGED reads

ReadWhole ==
  /\ chip \in Frames /\ ~IsSplit(chip)
  /\ split' = HeldHalf
  /\ got' = << [frame |-> chip, at |-> now] >>
  /\ UNCHANGED reads

ReadSecondHalf ==
  /\ chip \in Frames /\ IsSplit(chip)
  /\ Joins(chip)
  /\ split' = NoHalf
  /\ got' = IF HeldHalf.frame.len + chip.len > MaxPayload
              THEN << >>
              ELSE << HeldHalf, [frame |-> chip, at |-> now] >>
  /\ reads' = Append(reads, [frame |-> chip, at |-> now])

HalfAfterKeepingFirst(f) == IF HeldHalf = NoHalf THEN [frame |-> f, at |-> now] ELSE HeldHalf

\* A half of another packet replaces the one that waits.
HalfAfter(f) == [frame |-> f, at |-> now]

ReadFirstHalf ==
  /\ chip \in Frames /\ IsSplit(chip)
  /\ ~Joins(chip)
  /\ split' = HalfAfter(chip)
  /\ got' = << >>
  /\ reads' = Append(reads, [frame |-> chip, at |-> now])

\* The loop calls read_pending() only if the flag is set.
ReadPending ==
  /\ mode = "rx"
  /\ rxFlag
  /\ rxFlag' = FALSE
  /\ chip' = NoFrame
  /\ ReadNothing \/ ReadWhole \/ ReadSecondHalf \/ ReadFirstHalf
  /\ UNCHANGED <<now, started, queue, mode>>

-----------------------------------------------------------------------------
(* Our own transmit().  Between the two frames of a long packet it listens  *)
(* for a millisecond; what it may hear then it discards like the rest.      *)

\* Standby.  A frame that has not been read is overwritten.
StartSending ==
  /\ mode = "rx"
  /\ mode' = "tx"
  /\ chip' = NoFrame
  /\ UNCHANGED <<now, started, queue, rxFlag, split, got, reads>>

\* The interrupt line may glitch on the way from sending to listening.
Rearm ==
  /\ mode = "tx"
  /\ mode' = "rearmed"
  /\ rxFlag' \in {rxFlag, TRUE}
  /\ UNCHANGED <<now, started, queue, chip, split, got, reads>>

\* The last statement of transmit().  Another task (the BLE service, say) may
\* run between the two for longer than a frame takes.
ClearFlag ==
  /\ mode = "rearmed"
  /\ mode' = "rx"
  /\ rxFlag' = FALSE
  /\ UNCHANGED <<now, started, queue, chip, split, got, reads>>

Elapse ==
  /\ now < MaxTime
  /\ now' = now + 1
  /\ UNCHANGED <<started, queue, mode, chip, rxFlag, split, got, reads>>

-----------------------------------------------------------------------------

Init ==
  /\ now = 0
  /\ started = [n \in Node |-> 0]
  /\ queue = [n \in Node |-> << >>]
  /\ mode = "rx"
  /\ chip = NoFrame /\ rxFlag = FALSE
  /\ split = NoHalf
  /\ got = << >> /\ reads = << >>

Next ==
  \/ \E n \in Node : \/ Transmit(n) \/ TransmitFails(n)
                     \/ FrameArrives(n) \/ FrameMissed(n)
  \/ ReadPending
  \/ StartSending \/ Rearm \/ ClearFlag
  \/ Elapse

Spec == Init /\ [][Next]_vars

-----------------------------------------------------------------------------
(* Properties *)

\* Types.  Every frame fits the 255 bytes of LoRa with its header.
TypeOK ==
  /\ now \in Nat
  /\ started \in [Node -> Nat]
  /\ queue \in [Node -> Seq(Frames)]
  /\ mode \in {"rx", "tx", "rearmed"}
  /\ chip \in Frames \cup {NoFrame, Damaged}
  /\ rxFlag \in BOOLEAN
  /\ split \in Reading \cup {NoHalf}
  /\ got \in Seq(Reading) /\ Len(got) <= 2
  /\ reads \in Seq(Reading)

Complete(pieces) ==
  LET p == pieces[1].frame.pkt
  IN  \A k \in DOMAIN pieces :
        /\ pieces[k].frame.pkt = p
        /\ pieces[k].frame.part = IF Len(pieces) = 1 THEN "whole"
                                  ELSE IF k = 1 THEN "first" ELSE "second"

\* Two transmissions that drew the same nibble: the format cannot tell.
Clash(pieces) ==
  /\ Len(pieces) = 2
  /\ pieces[1].frame.pkt # pieces[2].frame.pkt
  /\ pieces[1].frame.seq = pieces[2].frame.seq

\* Whatever is lost, damaged or interleaved, read_pending() returns packets
\* as a neighbour sent them, pieces in order, each read once; a mixture of two
\* only if they drew the same sequence nibble (Radio.cpp:243-316).
WholeUnlessClash == got # << >> => Complete(got) \/ Clash(got)

\* The two halves of what is returned were read within the timeout of each
\* other, even if no frame came in between to let the first one expire
\* (Radio.cpp:190-195).
JoinedInTime == Len(got) = 2 => got[2].at - got[1].at <= SplitTimeout

SameSeqBefore(k) ==
  k > 1 /\ reads[k - 1].frame.seq = reads[k].frame.seq
        /\ reads[k].at - reads[k - 1].at <= SplitTimeout

CleanPair(k) ==
  /\ k > 1
  /\ reads[k - 1].frame.pkt = reads[k].frame.pkt
  /\ reads[k].at - reads[k - 1].at <= SplitTimeout
  /\ ~SameSeqBefore(k - 1)

\* A half that lost its other half costs no packet but its own: two halves
\* read one after the other in time are returned joined, unless the split
\* frame read before them has their nibble too (Radio.cpp:243-295).
CleanPairReturned ==
  [][(Len(reads') > Len(reads) /\ CleanPair(Len(reads))') =>
       Len(got') = 2 /\ Complete(got')]_vars
=============================================================================
