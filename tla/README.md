# Reticulum LoRa transport: a TLA+ verification project

The repository is the firmware of a LoRa relay ("transport node") of a
Reticulum mesh: it hears packets, decides what to forward, rebroadcasts
announces, answers path requests, and carries links between two ends.  This
directory holds TLA+ models of its protocol logic, TLC configurations that
check them on small instances, and TLAPS proofs of the facts that matter most.

Paths below are relative to the repository; `rns/` stands for `src/rns/`.

## The system

| Component | State | Operations | Talks to |
|---|---|---|---|
| `rns/Transport` | clock of the last call, five tables, two dedup rings, blackholed identities, scheduled announces | `inbound`, `tick`, `blackhole_identity`, `unblackhole_identity` | calls the tables and the interfaces |
| `rns/tables/PathTable`, `ReverseTable`, `LinkTable`, `AnnounceTable` | maps with expiry times; a window of announce blobs per destination | put, get, evict, pop due | called by Transport |
| `rns/tables/PacketHashList` | an ordered sequence and a set of hashes | `insert`, `contains`, `purge_if_over_cap` | called by Transport, twice (packets, request tags) |
| `rns/Packet` | none | parsing, header conversions, the hashable part | called by Transport |
| `rns/Identity`, `rns/Destination` | keys | `validate_announce`, `build_announce` | called by Transport |
| `rns/Interface` | queue of announces, log of emissions | `queue_announce`, `transmit_now`, `tick` | called by Transport, calls the radio through `LoRaInterface` |
| `Radio` | the half of a split packet, the receive flag | `transmit`, `read_pending`, the interrupt | the loop, the SX1262 |
| `main` | one of each of the above, the configuration | `setup`, `loop` | everything |
| `ConfigProtocol`, `ConfigStore`, `Storage` | the configuration in memory and in flash | get, set, commit | serial console, BLE |
| `SerialConsole`, `Ble` | receive buffer; a second task | `tick`; a write callback | ConfigProtocol |
| `Telemetry`, `Battery`, `Led`, `rns/Msgpack`, `rns/Crypto`, `rns/Bytes` | little or none | pure functions, pin I/O | |

What is hard in it, and what makes each part correct:

- **Order and repetition of packets.**  LoRa is a shared medium: each packet is
  heard several times, by several paths, early and late.  Correct means: copies
  are recognised however the ring is purged; a late or repeated announce never
  spoils a route; a receipt follows its DATA home; a key once bound stays bound.
- **What the next node does with what we send.**  A rewritten announce must
  still validate there, and a route we advertise must be one we can serve.
- **State used without looking at its age.**  The handlers trust the tables;
  only `tick()` evicts.  Correct in the firmware because of the order in `loop()`.
- **Links** are a protocol of three parties; traffic may cross only a proven
  link, between its two sides.
- **The airtime cap** must hold in every window although several announces leave
  in one tick, and must not starve an announce.
- **Split packets**: halves lost, interleaved, late; an interrupt against the
  main loop.
- **Several relays** that reboot, forget and overhear one another: DATA must
  neither circulate nor be dropped while every relay on its way has a route.
- **Configuration**: a second task in the middle of the loop, a file removed and
  written anew, power loss between any two of these, requests with faults in the middle.
- **A serial line** without delimiters, and hosts that choose how to encode a number.
- **32-bit milliseconds** widened to 64 bits, and emission times that restart
  with the node.

`PROJECT.json` lists these hazards one by one at their lines, with the
properties that would notice each of them.

## Modules

| Module | Models | Notes |
|---|---|---|
| `Tables` | the operations all tables share | functions from keys to entries |
| `Packet` | `Packet`, `validate_announce`, link ids, MTU clamping | a packet is a record of header fields and a structured body |
| `HashRing` | the data structure of `PacketHashList` | operators only, used by `Transport` as well |
| `PacketHashList` | the ring on its own, with a log of all it accepted | |
| `Transport` | `Transport` with its tables | one action per handler outcome; `Inbound`, `Tick`, `Elapse`, blackholing |
| `LinkRelay` | *abstract*: what a relay promises the two ends of a link | |
| `TransportLinks` | the refinement mapping from `Transport` to `LinkRelay` | |
| `RelayLoop` | `loop()` around `Transport` | |
| `Interface` | the announce queue and the airtime cap | |
| `Radio` | split frames, reassembly, the receive flag | |
| `ClockWrap` | `RelayLoop` on a clock that wraps | extends `RelayLoop` |
| `Mesh` | two relays, an origin, a client and the channel between them | two instances of `Transport` |
| `Configuration` | `Storage`, `ConfigStore`, `setup()`, the two tasks | power loss between any two flash operations |
| `ConfigCell` | *abstract*: what the flash promises of a configuration | `Configuration` implements it |
| `Msgpack` | the writer and the reader, over bytes | operators only |
| `ConfigProtocol` | the dispatcher of requests: request bytes to answer bytes | operators only |
| `Telemetry` | the beacon's payload | operators only |
| `SerialConsole` | the console, byte by byte, and the BLE write callback | |
| `ConfigService` | *abstract*: what requests do, without bytes | `SerialConsole` implements it |
| `MCTransport`, `MCRelayLoop`, `MCInterface`, `MCRadio`, `MCClockWrap`, `MCMesh`, `MCConfiguration`, `MCSerialConsole` | constants, packets and requests for TLC | |
| `TransportProofs` (with those of `Packet`, `TransportLinks` and `RelayLoop`), `HashRingProofs`, `PacketHashListProofs`, `InterfaceProofs`, `RadioProofs`, `ConfigurationProofs`, `MeshProofs`, `SerialConsoleProofs` | theorems and proofs | |

### Transport

The variables are the members of the class; `out` is what the latest call
handed to interfaces, with its `TxKind`.  A call of `inbound()` runs to
completion, so it is one step.  The packet is counted one hop further
(`Bumped`, saturating), its hash is looked up and recorded, and `Handle` offers
the handler that the dispatch chain selects, with one action per outcome:
`AcceptAnnounce` / `RejectAnnounce`, `ForwardData` / `LeaveData`, and so on; the
`Leave...` actions are the early returns, which keep every table but still
record the hash.  `DropDuplicate` is the early return before the dispatch.
`Tick` is all of `tick()`: it drains the announce table, emits the scheduled
announces that are due, and then evicts and purges.

Abstractions: hashes are injective (a hash is the hashed content, a link id the
content it hashes); a signature states who signed; an emission time is a small
number; the fields of entries that nothing reads, the statistics and the
observers are left out.  What reaches `inbound()` is a set `Wire` of packets
that parse; one that does not parse changes nothing.  `out` is the only trace
of an emission: `Interface`, which receives it, is checked on its own.

### RelayLoop

`loop()` reads the clock once, calls `tick()` and then `inbound()` at most
once with the same reading, on its one interface.  `phase` says which of the two
is next, and `Delay` lets the time pass before the next reading.

### Interface

An emission is kept with its age and not its time, which keeps the states
finite without a bound on the clock: the code compares times with the
present only.  `ledger` is a history variable with every emission of the
window, against which the log the code keeps and prunes is judged.  `Since` is
the find and erase of the prune: the log is cut before its first young emission.
A tick is rounds of its loop, each a function (`Round`) of what the one before it left.
`WindowCap` is an integer, where the code multiplies floats and truncates: at the
defaults both are the same number, and other caps may differ by a millisecond.

### Radio

Neighbours run `transmit()`; we run the loop, which calls `read_pending()` when
the interrupt has set the flag, and sometimes transmit ourselves.  The chip is
external: it keeps the latest frame, and while it sends it hears nothing.
A frame ends with us (`FrameArrives`, perhaps damaged) or is missed.
Our own transmission is the three steps that an interrupt can come between:
`StartSending`, `Rearm` (`startReceive()`) and `ClearFlag` (the last
assignment).  Pieces carry the transmission they belong to, so that the
properties can say what belongs together.
Left out: the branches that no frame of 255 bytes can reach (a frame over 512
bytes, a half that does not fit its buffer), the millisecond of listening between our
own two frames, and a frame that completes within the reading of another.

### ClockWrap

`RelayLoop` with the delay replaced by one whose counter goes back to zero.
`MaxTime` is the last reading before the wrap.  `ticked` makes every reading
be ticked on, so that what the run shows is not a deadline stepped over.

### Mesh

Two instances of `Transport`, `A` and `B`, each in the order of the firmware's
loop: `TickedA` says that a packet is heard only when `tick()` has run at this
reading.  A station's `inbox` holds what it can still hear; it takes packets in
any order, late or never.  `Hears` says who hears whom.  A reboot puts a relay's
tables back to `Init`.  The ends are external: they send the packets of `Script`
once each, and the origin answers DATA.  The announce cap is left out.

### Configuration

A file is the sequence of records written to it, since opening for writing
appends; a reader takes the first.  Saving is four steps (`Compare`, `Remove`, `Open`, `Write`) of
one of two tasks.  The callback's task has the higher priority, but the flash driver makes
it wait, so each task may do anything between two operations of the other: the
model lets them interleave freely.  `CommitLoop` and `CopyRest` are
the two halves of `Config to_write = cfg`, between which the callback may
change the configuration; the callback's own copy waits for nothing and is one step.
`PowerLoss` may come anywhere; of a write under way it leaves nothing, a damaged record
or all.  The configuration is two fields: the
frequency stands for all numbers, the name is what boot treats specially.

Any operation may fail, up to `MaxFaults` in all, and what the code does then is in the model:

- the mount, and each read at boot;
- the read for comparison, after which `save()` replaces the file (`unread` remembers who does);
- the remove, whose result `save_file` ignores: the old record stays, the new one
  is appended to it and reported saved;
- the open and the write, which `save_file` reports; a write may leave a part;
- the close, whose result it ignores: what was written is not there, and is reported saved.

A key appended to a part of one makes 64 bytes of neither, which
`load_or_generate_identity` takes for a key: `Spliced`.

Some properties hold only without certain failures, and history variables say which have happened.
`overlapped`: a task saved in the middle of a save of the other.  `ignored`: a remove or close of the
configuration failed unnoticed, and no remove has mended it since.  `lapse`: a key was not removed,
written or read when it should have been.

### SerialConsole, ConfigProtocol, Msgpack

These are over real bytes, because here the encoding is what can go wrong.
Names and words of the protocol are one byte each.  A request is answered by
`HandleRequest`, a function from the request, the configuration and the result of
the save callback; `SerialConsole` surrounds it with the state machine of the
frame and with the BLE callback.  `ServesRequests` maps this to `ConfigService`, in
which a request is a command with fields and not a string of bytes: the host
encodes (`Encoded`) and decodes (`Told`), both external.

A name is an array of bytes, which a request may store with a NUL in it; where the code makes a string
of it, for `get_config` and for the beacon, it ends at the first NUL (`CString`).  The beacon is built
from the configuration in memory (`src/main.cpp:93`).  `Committed` is the one last given to the save callback, or the
defaults before that.  `BeaconKeepsItsShape` says what a reader may rely on: latitude and longitude are
each a float or nil; both nil when both are unset, and the configured values when neither is
0, as long as they are the committed ones.  With one part at 0, or with a position set and not committed,
the documents promise something else than the code does, see *Observations*; the property claims neither.

## What is checked

| Run | Module | What it shows |
|---|---|---|
| `Routes` | `MCTransport` | Six announces of one destination: from its originator and through a relay, late, twice in a second, at the hop limit, unsigned, and by a rival key; two interfaces, expiry, blackholing, a ring of two.  `HeldAnnouncesValidate`, `PendingEchoRecognised`, `AdvertisedIsRelayable`, `RouteWorsensOnlyForNews`, `KeyBindingStable`, `BlackholeFreezesRoutes`, and the types. |
| `Traffic` | `MCTransport` | Announces, DATA through us and its receipt, path requests, scheduled announces.  `AnswersAreHonoured`, `ReceiptNotRedirected`. |
| `Links` | `MCTransport` | Requests (one clamped by another relay), proofs by the right and a wrong key, traffic, closing, both timeouts.  `LinkPromise`: `Transport` implements `LinkRelay`. |
| `Loop` | `MCRelayLoop` | Every table in use.  `FreshWhenUsed`, `EchoRecognised`, `NoPendingDisplaced`, and, under fairness, `PendingIsRebroadcast`. |
| `PacketHashList` | `PacketHashList` | All orders of inserts and purges.  `LookupAgreesWithAge`, `KeepsNewest`, `RecentRemembered`. |
| `AnnounceCap` | `MCInterface` | `CapHolds`, `LogIsLedger`, `NoOvertaking`, and, under fairness, `NearestGoesOut` and `FullQueueDrains`: a queue that refuses announces has room again. |
| `Reassembly` | `MCRadio` | `WholeUnlessClash`, `JoinedInTime`, `CleanPairReturned`. |
| `Configuration` | `MCConfiguration` | `ComesUpAsSaved`, `NameIsOwn`, `KeyWrittenOnce`, `NoNeedlessErase` and the types; `ImplementsCell`: the file implements `ConfigCell`. |
| `Console` | `MCSerialConsole` | `ServesRequests`: bytes on the line and over BLE implement `ConfigService`; `AnswersDecode` whatever was asked; `BeaconKeepsItsShape` whatever was configured. |
| `Mesh` | `MCMesh` | `ForwardedOnce`, and, under fairness, `DeliveredAndAcknowledged`, with the stations in a line. |
| `ClockWrap`, `Overheard` | `MCClockWrap`, `MCMesh` | violations, see *Findings* |

### Bounds

- `MaxTime` 3 or 4 with timeouts of 1 or 2: entries can be made, refreshed,
  expire, and be made again.  Links and radio stop at 2: there each timeout can
  expire before, between and after the other events, once.  The code only
  compares times, so larger values repeat the same orders of events.
- `Wire`: six or seven packets per run.  Each is heard once per memory of the
  ring; with a ring of two (`Routes`, `Loop`) they are forgotten and
  heard again, with one of 20 (`Traffic`, `Links`) never.
- Two interfaces, because "another interface than the first" is what the
  receipts and links turn on.  They are interchangeable, and `Routes`,
  `Traffic` and `Links` use that as a symmetry (they check safety only).
  `Loop` has one, as the firmware.
- `MaxRandomBlobs` 2: the window of blobs overflows.
- `PacketHashList`: a cap of 3, eight inserts out of five hashes: purges of a
  ring at its cap, just over it, and well over it.
- `AnnounceCap`: a queue of 3, a window of 3 ms at 1 byte per ms; the frames fill the cap
  exactly or not.
- `Reassembly`: two neighbours, five packets (one that just fits a frame, one
  too long), two values of the sequence nibble, so that clashes and
  differences both happen; a timeout of 1.

- `Configuration`: three power-ups, so that what the second boot leaves is
  read by a third; one failing operation besides any power loss; three keys, one per boot, which noise
  makes interchangeable (a symmetry; the run checks no liveness), and the spliced one, which
  takes a power loss in a write of the key and a remove that fails at the next boot.
  Two frequencies, so that there is an older configuration to come up.
- `Console`: two frames, the shortest way to have one follow another in the
  same state machine, and one event besides: a BLE write cut at every third byte
  (every byte reaches the same states), or one byte lost or added anywhere.  The six requests use every tag that a
  number, string or nested value of another firmware brings, both signs and a fault in the middle.
  `MaxFrameLen` is 48 instead of 1024, just above the longest request.
- `Mesh`: one announce, one path request and one DATA packet; one loss or reboot; three
  readings of the clock and lifetimes of one, so that routes expire and are learned anew.
- `ClockWrap`: five readings before the wrap, periods of one and two.

The runs on `Radio`, `Configuration`, `SerialConsole` and `Mesh` may stop, when the
environment has said everything and the bounds are reached; deadlock is not checked
there.

### Fairness

- `RelayLoop`: weak fairness of `LoopTick` and of the poll that follows it.
  `loop()` is called for ever by the Arduino core and does not block.  No
  fairness of packet arrival, nor of the clock, is assumed.
- `Interface`: weak fairness of `Tick`, which the loop calls, and of
  `Elapse`: time passes.

- `Mesh`: weak fairness of both relays' `Tick`, of `Hear` and of `Answer`: the
  loops run, and what is not lost arrives.  Nothing makes an end speak or the clock move.
- `ClockWrap`: weak fairness of the loop's two halves, and strong fairness of
  `WrappingDelay`: an iteration takes time, although its delay is disabled in
  the other half of each iteration.

The other specifications have none, and only safety is checked of them.

### Mutants

Beside some definitions stands a slip that the code could have had: the hop
count that wraps (`BumpedUnsaturated`), a purge that empties the ring
(`PurgeAll`), a link that carries traffic unproven (`LinkDataUnproven`).  They
are the definitions without a comment that no other definition uses.  For each
property at least one of them, put in the place of the definition it stands
before, makes TLC find the property violated; `PROJECT.json` says which.  So every
property is sensitive to a plausible bug in the code it is about.

## Findings

1. `ClockWrap`.  `loop()` (`src/main.cpp:298`) widens `millis()` to 64 bits and
   `Transport` compares it with absolute deadlines.  When the 32-bit counter
   wraps, after some seven weeks, the deadlines of the scheduled announces lie
   beyond every later reading: the alive announce and the beacon stop until a
   reboot, which contradicts `src/main.cpp:47` and `docs/telemetry.md:26`.  For the same
   reason routes, receipts and links made before the wrap do not expire, and
   `Interface` does not prune its log of emissions.
2. `Overheard`.  `inbound()` records the hash of every packet it hears
   (`rns/Transport.cpp:204`) before the handler looks at the transport_id, which the hash
   does not cover.  In the run's topology relay A hears the client too: it hears
   the client's DATA for relay B, leaves it, and drops B's copy, addressed to A,
   as a duplicate.  Every relay had a route and nothing was lost on the air.  `README.md:17` promises
   path-aware forwarding, and a test
   (`test/native/test_transport/test_transport.cpp:596`) that a packet for another relay is ignored.
   In `Mesh`, where A does not hear the client, the same property holds.

### Observations without a run

- `rns/tables/AnnounceTable.h:6` says a due announce is queued on every
  interface *except* the one it came from; `drive_announce_rebroadcast`
  (`rns/Transport.cpp:161`) queues it on every interface, as its own comment
  says it must on a shared medium.  `PendingEchoRecognised` shows that the echoes are recognised.
- `rns/tables/LinkTable.h:60` says validated links are kept until closed or stale.  A
  LINKREQUEST that another relay clamped has another dedup hash and the same link id; if it
  comes back through us, `rns/Transport.cpp:610` puts an unvalidated entry over
  the validated one.  It takes a routing loop.  `LinkRelay` allows a reset by a
  request, and by nothing else.
- `src/Radio.cpp:420` says clearing the receive flag after `startReceive()` loses
  no packet.  One that arrives between the two statements waits unread.
  The gap is short, unless the loop is preempted in it, as the BLE callback can.
- `rns/Packet.h:74` says the conversion to HEADER_2 clears the context flag, which
  the code rightly keeps (`HeldAnnouncesValidate` fails without it); and a link's clamped request is
  an exception to `rns/Packet.h:120`.
- `SerialConsole.h:11` says a bogus length resets the console, which then waits
  for the next valid frame.  It reads the next two bytes as a length, whatever they are.  After
  one lost or added byte the following frames are misread, until chance
  aligns them again; `AnswersDecode` and `TypeOK` hold meanwhile.
- A save of one task in the middle of a save of the other can leave a file of
  both records.  Both are reported done, and the next boot loads the one that was
  written first.  `ComesUpAsSaved` and `NoNeedlessErase` exclude
  this case (`overlapped`); `ImplementsCell` covers it.
- `save_file` ignores what `InternalFS.remove` returns (`src/Storage.cpp:39`).
  When it fails, the open appends, the write succeeds, and true is returned; the next boot
  loads the older configuration, which still comes first.  `src/Storage.h:40` promises to replace "any
  existing file" and `src/ConfigStore.h:29` "false on I/O error".  So does a close that fails: success is
  reported and nothing is there.  `ComesUpAsSaved` and `NoNeedlessErase` name this case
  (`ignored`): without that condition TLC finds both violated.
- For the identity file the same failures leave the node with an identity that the next
  boot does not have: it draws another, or takes the bytes of two records for a key.
  `KeyWrittenOnce` and `NameIsOwn` name them (`lapse`).
- If the read for comparison fails or is short (`src/ConfigStore.cpp:61`), `save()`
  removes and writes again what is there, although `docs/transport_node_programming.md:305` says that
  repeated commits of one configuration burn "no flash cycles".  `NoNeedlessErase` excuses
  it (`unread`).
- `make_telemetry_snapshot()` (`src/main.cpp:93`) sends both parts of a position if one of
  them is not 0: a node on the equator, or with a longitude only, sends 0.0 as its latitude.
  `docs/transport_node_programming.md:252` says of a latitude of 0 that the "beacon
  emits nil lat", and `src/Config.h:51` "0 = not set"; the comment at `src/main.cpp:92` agrees with the code.
- The beacon takes the position from the configuration in memory, where `set_config` changes
  it at once; `docs/telemetry.md:211` says it "will not change without a config commit".
- Two relays can come to route to a destination through one another, when the
  route of one expires and it learns the other's from a path response.  The destination, even one
  that is gone, then stays advertised as long as clients ask.  DATA does not circulate: `ForwardedOnce`.
- A configuration that cannot be read at boot is replaced: the defaults have no
  name, so the name is stamped and the defaults are saved over the file.
- A receipt or a link proof first heard on the wrong interface is recorded too
  and so becomes a duplicate when it comes on the right one.  The entry survives, as the
  comment at `rns/Transport.cpp:409` says; the packet does not.

## What is proved

For every value of the constants that meets the ASSUMEs, checked by TLAPS.  Every
invariant and every action property that a passing run checks is a theorem, and so are two
of the three refinements; liveness and the refinement `ServesRequests` are left to TLC.

**Transport** (`TransportProofs`).

- `TypeCorrect`: `Spec => []TypeOK`.  One lemma per
  handler (`AcceptAnnounceType`, ...) shows that it keeps the five tables typed
  (`TablesOK`); `TypeStep` adds what `inbound()`, `tick()` and the clock do besides.
- `HeldAnnouncesCorrect`: everything held for a path response or a
  rebroadcast validates, under the bound key, and names us.  Inductive with
  `TypeOK`; `RelayFormValid` shows that conversion disturbs nothing that the
  signature covers.
- `KeysStayBound`, `BlackholeFreezes`, `RoutesWorsenForNews`, `ReceiptsStay`: action
  properties.  `RouteStep` says what a step can do to a route: nothing, remove it,
  or write it from an acceptable announce; `ReceiptStep` the same of receipts.
- `PendingEchoCorrect`: `PendingEchoRecognised`, for a ring of *any* size,
  even 0.  It is not inductive alone: a purge could take the hash of an
  announce that a tick leaves in the table.  It never leaves one, since every
  entry is due as soon as it is made (`WaitingIsDue`), and `Tick` drains
  before it purges; `EchoInv` is the conjunction.
- `AdvertisedCorrect`, `AnswersHonoured`: under `OriginatorsOnly` (only an originator
  sends a HEADER_1 announce), every route held can be forwarded on, and so every
  path response is served.  The runs' packets meet it.
- `HashSurvivesRewrites`, `LinkIdSurvivesClamp`: the dedup hash
  is the same after every header rewrite, and the link id after clamping.

**Links** (`TransportProofs`).  `LinksKeepPromise`: `Spec => LinkPromise`, the refinement
of `LinkRelay`, for any packets and interfaces.  A step of `Transport` is a request, a proof or
traffic passed on (one lemma each), or at most forgets links (`ForgetsKept`).  It needs
`LinksGrounded`: the proof check looks a link's key up in the map of known
destinations, and every link in the table has one there, because a link is made only
over a route and every route's destination is known (`HeldAnnouncesValidate`).

**The loop** (`TransportProofs`).

- `LoopImplementsTransport`: the firmware's loop is a
  behaviour of `Transport`, so all of the above holds in it.
- `LoopFreshWhenUsed`: inductive as it stands, because the clock only moves
  before the tick that evicts.
- `LoopNoPendingDisplaced`: after a tick the announce table is empty
  (`DrainedBeforeReceive`), at most one packet is handled before the next.
- `LoopEchoRecognised`: `LoopEchoInv` adds that the one announce that waits has the newest
  hash of the ring (`IsNewest`), which the purge of the tick that sends it keeps.

**The ring** (`PacketHashListProofs`, on the lemmas of `HashRingProofs`).  `RingTypeCorrect`,
`LookupCorrect`, `NewestAreKept`, `RecentAreRemembered`: set and
sequence agree, what is held is the newest part of what was accepted, and the newest
ceil((cap+1)/2) hashes are always remembered.  `IInv` joins the first three with
`EnoughHeld`: a ring holds everything, or at least the guaranteed number.

**The airtime cap** (`InterfaceProofs`).

- `TypeCorrect`, and `CapIsHeld` with `LogIsExact`.  Neither of the two is inductive: the budget is
  worked out from the log, so the cap needs the log to be right, and a round adds to the log
  only what the cap allows.  `AccountInv` is their conjunction.  Within a tick, `Accounted(s)` holds
  after each round: log and ledger agree and fit the cap *then*, however many
  rounds there are.  The lemmas on `Since` say that pruning early, late, twice or
  not at all leaves the same window.
- `NoneOvertakes`: `InOrder(s)` holds after each round: what was sent is no farther than what
  is left, and sent and left together are, at every distance, the queue as it was.
  `PickIsFront` is the heart of it: of its distance the pick is the first.

**Reassembly** (`RadioProofs`).

- `TypeCorrect` and `HalvesInTime`, inductive on `TypeOK`.
- `PacketsAreWhole`: with `AirInv`, which says what can be in the chip and in the buffer: frames
  that were sent, and a frame that follows the half of its own packet is the other
  half (`Follows`).  So a second half that is not of the same packet has met a nibble
  drawn twice, which is the clash that is excused.
- `CleanPairsJoin`: with `WaitInv`: the half that waits is the split frame read last, unless
  that joined the one before or has been there too long.

**Configuration** (`ConfigurationProofs`).

- `TypeCorrect`: `TypeInv` says besides what each file can hold and where each save can stand.
- `FlashIsACell`: `Spec => ImplementsCell`, the refinement of `ConfigCell`, with both tasks and power
  loss between any two flash operations.
- `NamesAreOwn`, `KeysStay`: `NameInv`, for as long as no key failed to be removed,
  written or read (`~lapse`): whatever holds an automatic name, the flash, the
  memory or a save under way, the flash holds its key too, unless that key is still being saved.
- `SavedComesUp`, `NoErasureForNothing`: `SavedInv`, for as long as the two tasks have not
  saved in the middle of one another (`~overlapped`): one save writes at most (`OneWrites`), and,
  unless a failure was ignored (`~ignored`), what was reported saved is on the flash until a save
  removes it (`SavesRight`).  `SavedOn` is a step of a save, `SavedAside` any other.

TLC finds each of these four properties violated when one of its conditions is left out.

**Mesh** (`MeshProofs`).  `NoDataForwardedTwice`: no relay sends DATA of one content on twice between two
reboots, for any script, radio, losses and schedules.  A relay's ring stops a copy only as long as it holds the
hash, so the theorem is about rings that are large enough for all that is ever spoken of
(`NothingForgotten`; the code's default is a million, `rns/tables/PacketHashList.h:24`); a purge in between would let a late copy through.  `IInv` is the conjunction of

- `OnAir`: whatever an inbox holds has the content of something in the script, however it was rewritten
  and relayed; so there are no hashes but those of `Hashes`;
- `Held`: what the relays hold and will send, the announces in their tables, has such content too;
- `Recording`: the rings hold hashes of `Hashes` only, none twice, and so are never over the cap that
  `NothingForgotten` gives them;
- `Remembered`: the hash of all DATA a relay has forwarded since it booted is in its ring.

**The console** (`SerialConsoleProofs`).

- `TypeCorrect`: whatever comes over the line or over BLE, a frame fits its buffer and each field of the
  configuration keeps its width.  Each read of `Msgpack` has a lemma (`ReadStrType`, `SkipValueType`, ...): of any
  bytes it makes a reader that is in them and a value of its type, or is refused.
- `AnswersCanBeDecoded`: `AnswersDecode`, for every configuration and every request, sound or garbled.
  The other half of the encoding: what the writer makes, the reader reads, wherever in a buffer it stands
  (`IsAt`).  `IsItem(s)` says that the bytes `s` are one value to `skip_value`, `AreItems(s, n)` that
  they are `n`; each writer makes one (`StrItem`, `UintItem`, ...), and `ItemsJoin` puts them
  together.  `Begun(resp, n, k)` is an answer under way: the header of a map of `n` pairs, "ok", and `k` values
  in all.  The answers are built by adding to it until nothing is missing, and `AllIsDecoded` then reads
  them to their end.
- `BeaconIsStable`: `BeaconKeepsItsShape`, for every configuration that requests can bring about.
  `IsLaid` says at which byte each of the nine elements starts; from there each is read back for what it
  is: a float by `FloatThen`, a nil by `NilAt`, a counter by `UintThen`, the name by `StrThen`, cut where
  `CStringEnds` says.
- `FramesArriveInOrder`: the framing half of `ServesRequests`, for any number of frames on the line.
  As long as no byte was lost or added no length is refused, and what the dispatcher is given is what the
  host sent first of those that wait, to the byte.  `LineInv`: what was taken of the frame at hand and what is
  still on the line are together the frames of the requests that wait (`AreFrames`), wherever in a frame the
  console is.

### Assumptions

Each module names its assumptions on the constants, and TLC evaluates them in every run.
They give types and signs.  Those that say more:

- `MarksAssumption` (`Radio`, `Configuration`): the values that mark an absent file or half are
  not files or halves.
- `RadioAssumption`: `MaxPayload <= 2 * FrameMax`; it is 508 and 254 (`src/Radio.cpp:40`).
- `ConfigurationAssumption`: `OperatorName \cap Key = {}`; a name in the model is what it was made from, and
  an operator's is made from no key.  An operator who types the
  automatic name of another node is left out.
- `SerialConsoleAssumption`: a length of two bytes can state `MaxFrameLen` (it is 1024,
  `src/SerialConsole.cpp:15`), a name or word of the protocol is one byte in the model, and each field of the
  defaults has its width.
- Four are hypotheses of theorems, not ASSUMEs: `OriginatorsOnly` of two; `NothingForgotten` of
  `NoDataForwardedTwice`; `CastsToFloat32` of the console's (a cast from double to float has four bytes);
  `RequestsFit` of `FramesArriveInOrder` (hosts send requests that are not empty and not longer than the
  buffer).  The constants of the runs meet them; `MCMesh` and `MCSerialConsole` have TLC evaluate
  `NothingForgotten` and `RequestsFit`.

### Induction over data

The sums of airtimes and the rounds of a tick are recursive functions on
the numbers up to a length.  `Least` (`InterfaceProofs`) is the induction on them: a set of
numbers that is not empty has a least one, from the well-foundedness of `<` on the naturals.
A fact about all prefixes, or about the state after every round (`DrainedIn`),
follows by looking at the least that would fail it.  `SerialConsoleProofs` does the same for the reader, which skips
values and applies fields in rounds: `UpTo` is the induction on the numbers up to a bound, and
`RunExists` shows that a function defined by recursion on them exists and is what its equation says.

### Only model-checked

- Liveness: `PendingIsRebroadcast`, `NearestGoesOut`, `FullQueueDrains`,
  `DeliveredAndAcknowledged`.  The provers used do not reach fairness and ENABLED.
- `ServesRequests` of `SerialConsole`, as a whole.  It says besides the framing that each single request is
  carried out by its fields, in whatever form a host encodes them and wherever a BLE write cuts it, and that
  the host decodes the values of each answer.  The theorems show that every request is
  answered decodably and what the dispatcher is given; that the values are the right ones is TLC's part.

## Not modelled

- The SX1262 and RadioLib, Bluefruit, LittleFS: external.  `Radio` and `Configuration`
  state what they assume of them.
- The bring-up of the radio (`radio::init_hardware`, `begin`, `start_rx`) and the
  advertising of `ble::init`: they run once, before the loop.
- `Battery`, `Led`, the board headers: pins and constants.
- `Crypto`, `Bytes`, and the CRC of a configuration: the models take hashes and signatures as ideal,
  and every damage as noticed.
- Statistics and observers: nothing reads them back but the beacon, where they
  are any numbers.
- Exceptions of the `Msgpack` writer on sizes no caller reaches.
- A full announce queue in the midst of a mesh: `Interface` is checked alone.
- A configuration change while the radio recovers (`src/Radio.cpp:331`).

## Plan

All of it is done but the last.

1. `Transport` with `Packet`, `Tables`, `HashRing`: routes, traffic, links.
2. `PacketHashList` alone; `LinkRelay` and the refinement.
3. `RelayLoop`: what the order in `loop()` gives.
4. `Interface`: the cap.
5. `Radio`: reassembly and the flag.
6. `Mesh`: two relays, reboots, lost and late packets.
7. `ClockWrap`: the 32-bit clock.
8. `Configuration` with `ConfigCell`; `SerialConsole`, `ConfigProtocol`, `Msgpack`, `Telemetry` with
   `ConfigService`.
9. Proofs of every safety property of one component, and the refinements of `LinkRelay` and
   `ConfigCell`.
10. Proofs about two relays together (`Mesh`) and about the encoding (`SerialConsole`).
11. Left: `ServesRequests` as a theorem, which takes the reading of every form a host may give to a
    number and the decoding of each answer to its values.
