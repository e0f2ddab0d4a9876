--------------------------- MODULE SerialConsole ----------------------------
(***************************************************************************)
(* The serial console, src/src/SerialConsole.cpp, and the BLE service,     *)
(* src/src/Ble.cpp: the two ways by which requests reach the dispatcher of *)
(* ConfigProtocol.tla.  On the line a frame is a length of two bytes and a *)
(* request; over BLE a write is a request.                                 *)
(*                                                                         *)
(* A step is one byte of the line or one whole request: what the callback  *)
(* may do in the middle of a request of the loop is in Configuration.tla.  *)
(***************************************************************************)
EXTENDS ConfigProtocol, Telemetry, TLC

CONSTANTS
  Request,            \* what hosts ask: [cmd, fields], see ConfigService.tla
  Encoded(_),         \* the bytes of a request, by the host's library
  Unknown, Faulty,    \* values of fields, see ConfigService.tla
  MaxFrameLen,        \* MAX_FRAME_LEN
  Defaults,           \* the configuration at the start
  Noise,              \* bytes a disturbed line may add
  Counts,             \* the counters of the node, for its beacon
  Cut,                \* after how many bytes a BLE write may be cut short
  MaxAsked, MaxEvents   \* bounds: frames; BLE writes and disturbances together

\* Every field has its width.
IsConfig(c) ==
  /\ DOMAIN c = Fields
  /\ c = [f \in Fields |-> c[f]]
  /\ \A f \in DOMAIN IntWidth : c[f] \in [1 .. IntWidth[f] -> Byte]
  /\ c.batt_mult \in [1 .. 4 -> Byte]
  /\ c.display_name \in Seq(Byte) /\ Len(c.display_name) <= NameMax

\* The words and names of the protocol, each a byte on the wire.
Words == Fields \cup {"ok", "err", "set", "cmd", "ping", "get_config", "commit", "set_config",
                      "identity_hash", "version", "expected_map", "empty_map", "expected_key",
                      "cmd_first", "cmd_string", "unknown_command", "malformed",
                      "commit_failed", Version}

ASSUME SerialConsoleAssumption ==
  /\ MaxFrameLen \in Nat \ {0} /\ MaxFrameLen <= 65535 /\ MaxAsked \in Nat /\ MaxEvents \in Nat
  /\ \A r \in Request : Encoded(r) \in Seq(Byte) /\ Len(Encoded(r)) <= 65535
  /\ Noise \subseteq Byte /\ Cut \subseteq Nat
  /\ NameMax \in 0 .. 255 /\ IsConfig(Defaults)
  /\ \A w \in Words : WireName[w] \in Byte
  /\ IdentityHash \in Seq(Byte) /\ Len(IdentityHash) <= 255
  /\ \A k \in 1 .. 2 : Counts[k] \in [1 .. 2 -> Byte]
  /\ \A k \in 3 .. 6 : Counts[k] \in [1 .. 4 -> Byte]

VARIABLES
  line,       \* bytes on their way
  state,      \* s_state
  expected,   \* s_expected
  buf,        \* the first s_received bytes of s_buf
  cfg,        \* g_cfg
  output,     \* the latest answer: [by, bytes]
  saved,      \* the configuration last handed to the save callback
  asked, written, damages,   \* how many frames, writes and disturbances so far
  (* what only the properties look at *)
  heard,      \* the latest answer, decoded
  waiting     \* the requests whose frames are on the line

console == <<state, expected, buf>>
bounds  == <<asked, written, damages>>
vars    == <<line, console, cfg, output, saved, bounds, heard, waiting>>

-----------------------------------------------------------------------------
(* The hosts *)

ValueTold(r, tag) ==
  IF tag \in TagsOf.bool THEN ReadBool(r)
  ELSE IF tag \in TagsOf.str THEN ReadStr(r)
  ELSE IF tag \in TagsOf.bin THEN ReadBin(r)
  ELSE ReadTag(r, AllTags)

WordOf(name) == CHOOSE w \in DOMAIN WireName : name.val = <<WireName[w]>>

PairTold(s, name, v) == [reader |-> v.reader, told |-> s.told @@ (WordOf(name) :> v.val)]

ReadPair(s, name) ==
  PairTold(s, name, ValueTold(name.reader, name.reader.buf[name.reader.off + 1]))

PairsTold(map) ==
  LET after[k \in 0 .. map.val] ==
        IF k = 0 THEN [reader |-> map.reader, told |-> << >>]
        ELSE LET s == after[k - 1] IN ReadPair(s, ReadStr(s.reader))
  IN  after[map.val].told

Verdict(told) == IF told["ok"] THEN told ELSE [ok |-> FALSE]

\* The pairs of an answer as the host decodes them; of a refusal only that.
Told(resp) == Verdict(PairsTold(ReadMapHeader(Reader(resp))))

\* A host puts a frame on the line.
Ask(r) ==
  /\ asked < MaxAsked
  /\ asked' = asked + 1
  /\ line' = line \o Be16(Len(Encoded(r))) \o Encoded(r)
  /\ waiting' = Append(waiting, r)
  /\ UNCHANGED <<console, cfg, output, saved, written, damages, heard>>

\* The line loses a byte or gains one.
Disturb ==
  /\ written + damages < MaxEvents
  /\ damages' = damages + 1
  /\ \/ line # << >> /\ line' = Tail(line)
     \/ \E b \in Noise : line' = <<b>> \o line
  /\ UNCHANGED <<console, cfg, output, saved, asked, written, heard, waiting>>

-----------------------------------------------------------------------------
(* src/src/SerialConsole.cpp *)

Reset == state' = "len_hi" /\ expected' = 0 /\ buf' = << >>

\* send_response
Framed(resp) == Be16(Len(resp)) \o resp

\* handle_request, and the answer on its way back: over BLE as it is
Dispatch(request, by) ==
  \E saves \in BOOLEAN : \E done \in {HandleRequest(request, cfg, saves)} :
    /\ cfg' = done.cfg
    /\ saved' = IF done.commits THEN cfg ELSE saved
    /\ output' = [by |-> by, bytes |-> IF by = "serial" THEN Framed(done.resp) ELSE done.resp]
    /\ heard' = Told(done.resp)

Next1(s) == state = s /\ line # << >> /\ line' = Tail(line)

LenHi ==
  /\ Next1("len_hi")
  /\ expected' = 256 * Head(line)
  /\ state' = "len_lo"
  /\ UNCHANGED <<buf, cfg, output, saved, bounds, heard, waiting>>

LenLoUnbounded ==
  /\ Next1("len_lo")
  /\ IF expected + Head(line) = 0 THEN Reset
     ELSE /\ expected' = expected + Head(line)
          /\ state' = "payload"
          /\ buf' = << >>
  /\ UNCHANGED <<cfg, output, saved, bounds, heard, waiting>>

\* An implausible length is dropped; what follows it is read as a length.
LenLo ==
  /\ Next1("len_lo")
  /\ IF expected + Head(line) = 0 \/ expected + Head(line) > MaxFrameLen THEN Reset
     ELSE /\ expected' = expected + Head(line)
          /\ state' = "payload"
          /\ buf' = << >>
  /\ UNCHANGED <<cfg, output, saved, bounds, heard, waiting>>

\* On an undisturbed line the frame is that of the first request waiting.
Payload ==
  /\ Next1("payload")
  /\ IF Len(buf) + 1 < expected
       THEN /\ buf' = Append(buf, Head(line))
            /\ UNCHANGED <<state, expected, cfg, output, saved, heard, waiting>>
       ELSE /\ Dispatch(Append(buf, Head(line)), "serial")
            /\ Reset
            /\ waiting' = IF damages = 0 THEN Tail(waiting) ELSE waiting
  /\ UNCHANGED bounds

\* tick() takes every byte there is, in order.
Tick == LenHi \/ LenLo \/ Payload

-----------------------------------------------------------------------------
(* src/src/Ble.cpp *)

\* on_request_write: a whole request, or one that was cut short.
OnRequestWrite ==
  /\ written + damages < MaxEvents
  /\ written' = written + 1
  /\ \E r \in Request : \E n \in Cut \cup {Len(Encoded(r))} :
       n <= Len(Encoded(r)) /\ Dispatch(SubSeq(Encoded(r), 1, n), "ble")
  /\ UNCHANGED <<line, console, asked, damages, waiting>>

-----------------------------------------------------------------------------

Init ==
  /\ line = << >> /\ state = "len_hi" /\ expected = 0 /\ buf = << >>
  /\ cfg = Defaults
  /\ output = [by |-> "none", bytes |-> << >>]
  /\ saved = << >> /\ heard = << >>
  /\ asked = 0 /\ written = 0 /\ damages = 0
  /\ waiting = << >>

Next == (\E r \in Request : Ask(r)) \/ Disturb \/ Tick \/ OnRequestWrite

Spec == Init /\ [][Next]_vars

-----------------------------------------------------------------------------
(* Properties *)

\* What hosts send is a request that the console has room for.
RequestsFit == \A r \in Request : 1 <= Len(Encoded(r)) /\ Len(Encoded(r)) <= MaxFrameLen

\* Types.  What is read of a frame fits s_buf, whatever length it claims.
TypeOK ==
  /\ state \in {"len_hi", "len_lo", "payload"}
  /\ expected \in Nat /\ expected <= 65535
  /\ state = "payload" => Len(buf) < expected /\ expected <= MaxFrameLen
  /\ IsConfig(cfg)

Answer ==
  IF output.by = "serial" THEN SubSeq(output.bytes, 3, Len(output.bytes)) ELSE output.bytes

\* However garbled a request was, the host can decode the answer: one map,
\* with "ok" first, that ends where the frame says (ConfigProtocol.cpp:27-191,
\* ConfigProtocol.h:73-75, SerialConsole.cpp:32-41).
AnswersDecode ==
  output.by # "none" =>
    LET pairs == ReadMapHeader(Reader(Answer))
        key   == ReadStr(pairs.reader)
        all   == SkipValue(Reader(Answer))
    IN  /\ key.reader.ok /\ key.val = <<WireName["ok"]>>
        /\ ReadBool(key.reader).reader.ok
        /\ all.ok /\ AtEnd(all)
        /\ output.by = "serial" => SubSeq(output.bytes, 1, 2) = Be16(Len(Answer))

Beacon == Encode(Snapshot(cfg, Counts))

\* A peer's reader at the i-th of nine elements.
Element(bytes, i) ==
  LET from[k \in 1 .. 9] == IF k = 1 THEN ReadArrayHeader(Reader(bytes)).reader
                            ELSE SkipValue(from[k - 1])
  IN  from[i]

Coordinates(c) == <<c.lat_udeg, c.lon_udeg>>

Committed == IF saved = << >> THEN Defaults ELSE saved

\* "Field stability is the contract" (main.cpp:86-89): whatever the operator
\* configures, a peer that takes the elements of the beacon by their index
\* finds a latitude and a longitude, each a float or nil, the counters, and the
\* name up to its first NUL, last (Telemetry.cpp:7-25, main.cpp:90-126).  The
\* floats are the position if that is committed and neither part of it is 0,
\* and the nils stand for a position that is not set.
BeaconKeepsItsShape ==
  LET name    == ReadStr(Element(Beacon, 9))
      place   == Coordinates(cfg)
      settled == Coordinates(Committed) = place
  IN  /\ ReadArrayHeader(Reader(Beacon)).val = 9
      /\ \A i \in 1 .. 2 :
           /\ TypeOf(Element(Beacon, i)) \in {"float", "nil"}
           /\ settled /\ place = <<Unset, Unset>> => TypeOf(Element(Beacon, i)) = "nil"
           /\ settled /\ (\A k \in 1 .. 2 : place[k] # Unset) =>
                ReadFloat32(Element(Beacon, i)).val = Degrees(place[i])
      /\ \A i \in 3 .. 8 : ReadUint(Element(Beacon, i)).val = Widened(Counts[i - 2], 0)
      /\ \E n \in 0 .. Len(cfg.display_name) :
           /\ name.val = SubSeq(cfg.display_name, 1, n)
           /\ \A k \in 1 .. n : cfg.display_name[k] # 0
           /\ n < Len(cfg.display_name) => cfg.display_name[n + 1] = 0
      /\ AtEnd(name.reader)

Service == INSTANCE ConfigService WITH
  Config  <- {Defaults},
  Ping    <- [ok |-> TRUE, identity_hash |-> IdentityHash, version |-> <<WireName[Version]>>],
  Shown   <- LAMBDA c : [f \in Fields \cup {"ok"} |->
                           IF f = "ok" THEN TRUE ELSE Outgoing(c, f)],
  Counted <- LAMBDA n : [ok |-> TRUE, set |-> Be16(n)],
  staged  <- cfg,
  answer  <- heard

\* As long as the line is not disturbed, the bytes amount to requests served
\* in order, each once, by their fields alone, with the BLE writes in between
\* (SerialConsole.cpp:45-83, ConfigProtocol.cpp, rns/Msgpack.cpp).
ServesRequests == Service!Init /\ [][Service!Next \/ damages' > 0]_(Service!serviceVars)
=============================================================================
