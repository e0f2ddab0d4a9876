--------------------------- MODULE Configuration ----------------------------
(***************************************************************************)
(* What a node keeps on its flash, the identity and the configuration, and *)
(* the two tasks that use it: the Arduino loop (boot and serial console,   *)
(* src/src/main.cpp) and the BLE write callback (src/src/Ble.cpp).  The    *)
(* callback's task has the higher priority, but waits while the flash      *)
(* works: either task may do anything between two operations on the flash  *)
(* of the other.  Power may go between any two of them as well, and each   *)
(* may fail.                                                               *)
(*                                                                         *)
(* A file is the sequence of what was written to it: opening for writing   *)
(* appends (Storage.cpp:39-41).  A configuration is two of its fields.     *)
(* The automatic name of a node is written as the key it is made from.     *)
(***************************************************************************)
EXTENDS Naturals, Sequences

CONSTANTS
  Freq, DefaultFreq,   \* values of freq_hz, which stands for the radio fields
  OperatorName,        \* display names an operator gives
  NoName,              \* the empty display name
  Key,                 \* private keys
  Spliced,             \* the key that a cut record and the next one make together
  NoKey,
  NoFile,              \* the file does not exist
  Damaged,             \* contents that are too short, or whose CRC is wrong
  OldVersion,          \* a configuration of another version of the schema
  MaxBoots, MaxFaults  \* bounds: power-ups, and operations that go wrong

ASSUME ConfigurationAssumption ==
  /\ DefaultFreq \in Freq
  /\ Spliced \in Key /\ NoName \notin Key /\ NoKey \notin Key
  /\ OperatorName \cap Key = {}   \* an operator gives no automatic name
  /\ MaxBoots \in Nat /\ MaxFaults \in Nat

VARIABLES
  mounted,   \* s_mounted
  flash,     \* the files, by path
  cfg,       \* g_cfg, the copy in memory that requests change
  identity,  \* the identity in use
  pc,        \* how far setup() is; "serving" in loop()
  io,        \* the save in progress, by task
  boots, faults, drawn,   \* power-ups, failures and keys drawn so far
  (* what only the properties look at *)
  stored,      \* the configuration last reported saved, while no save touches it
  overlapped,  \* one task saved in the middle of a save of the other
  ignored,     \* a failure that save_file ignores: of a remove, mended by the
               \* next one that succeeds, or of a close
  unread,      \* the tasks that are saving over what they could not read
  lapse        \* a key was not written, replaced or read when it should have been

excuses == <<overlapped, ignored, lapse>>

vars == <<mounted, flash, cfg, identity, pc, io, boots, faults, drawn, stored,
          unread, excuses>>

Task   == {"loop", "ble"}
Path   == {"config", "identity"}
Name   == OperatorName \cup Key \cup {NoName}
Config == [freq : Freq, name : Name]
NoConfig == NoFile

DefaultConfig == [freq |-> DefaultFreq, name |-> NoName]

\* The marks are told apart from what a file may hold.
ASSUME MarksAssumption ==
  /\ \A mark \in {NoFile, Damaged, OldVersion} : mark \notin Config \cup Key
  /\ NoFile \notin {Damaged, OldVersion}
  /\ NoFile \notin Seq(Config \cup Key \cup {Damaged, OldVersion})

Idle == [step |-> "idle", path |-> "config", content |-> NoConfig]

\* The steps of a save that touch the file.
Writing == {"remove", "open", "write"}

-----------------------------------------------------------------------------
(* src/src/Storage.cpp and src/src/ConfigStore.cpp: reading *)

\* exists and load_file into a buffer of the right size: what the first
\* record of the file says.  A damaged record spoils what follows it.
Content(files, p) ==
  IF files[p] \in {NoFile, << >>} THEN NoFile ELSE Head(files[p])

LoadableAnyVersion(files) == Content(files, "config")

\* config_store::load: length, version and CRC must be right.
Loadable(files) ==
  LET c == Content(files, "config")
  IN  IF c \in {Damaged, OldVersion} THEN NoConfig ELSE c

HeldKey(files) ==
  LET k == Content(files, "identity")
  IN  IF k \in {Damaged, NoFile} THEN NoKey ELSE k

Mishap == faults < MaxFaults /\ faults' = faults + 1

-----------------------------------------------------------------------------
(* src/src/Storage.cpp and src/src/ConfigStore.cpp: writing *)

At(t, step) == io[t].step = step

Continue(t, step) == io' = [io EXCEPT ![t].step = step]

Finish(t) == io' = [io EXCEPT ![t] = Idle] /\ unread' = unread \ {t}

Memory == <<mounted, cfg, identity, pc, boots, drawn>>

NeverSame(t) == FALSE

\* config_store::save finds on the flash what it would write there.
SameContent(t) == Content(flash, "config") = io[t].content

\* The diff before the write; a file that cannot be read is replaced.  Without
\* a file system there is nothing to compare with and save_file fails.
Compare(t) ==
  /\ At(t, "compare")
  /\ \/ /\ mounted /\ SameContent(t)
        /\ stored' = io[t].content
        /\ Finish(t)
        /\ UNCHANGED <<faults, excuses>>
     \/ /\ mounted
        /\ \/ /\ ~SameContent(t)
              /\ UNCHANGED <<faults, unread>>
           \/ Mishap /\ unread' = unread \cup {t}
        /\ Continue(t, "remove")
        /\ overlapped' = (overlapped \/ \E u \in Task \ {t} : io[u].step \in Writing)
        /\ UNCHANGED <<stored, ignored, lapse>>
     \/ /\ ~mounted
        /\ Finish(t)
        /\ UNCHANGED <<stored, faults, excuses>>
  /\ UNCHANGED <<Memory, flash>>

\* What an operation on the file at p means for the properties, once it has
\* failed and save_file has not noticed.
Ignored(p) == ignored' = (ignored \/ p = "config") /\ lapse' = (lapse \/ p = "identity")

KeepOldFile(t) ==
  /\ At(t, "remove")
  /\ stored' = IF io[t].path = "config" THEN NoConfig ELSE stored
  /\ Continue(t, "open")
  /\ UNCHANGED <<Memory, flash, faults, unread, excuses>>

\* save_file removes the file first, if there is one, and does not ask
\* whether that worked.
Remove(t) ==
  /\ At(t, "remove")
  /\ \/ /\ flash' = [flash EXCEPT ![io[t].path] = NoFile]
        /\ ignored' = (ignored /\ io[t].path # "config")
        /\ UNCHANGED <<faults, lapse>>
     \/ /\ flash[io[t].path] # NoFile /\ Mishap
        /\ Ignored(io[t].path)
        /\ UNCHANGED flash
  /\ stored' = IF io[t].path = "config" THEN NoConfig ELSE stored
  /\ Continue(t, "open")
  /\ UNCHANGED <<Memory, overlapped, unread>>

\* Opening creates the file; it may fail, and save_file with it.
Open(t) ==
  /\ At(t, "open")
  /\ \/ /\ flash' = [flash EXCEPT ![io[t].path] = IF @ = NoFile THEN << >> ELSE @]
        /\ Continue(t, "write")
        /\ UNCHANGED <<faults, unread, lapse>>
     \/ /\ Mishap
        /\ Finish(t)
        /\ lapse' = (lapse \/ io[t].path = "identity")
        /\ UNCHANGED flash
  /\ UNCHANGED <<Memory, stored, overlapped, ignored>>

Appended(p, c) == [flash EXCEPT ![p] = IF @ = NoFile THEN <<c>> ELSE Append(@, c)]

Reported(t) == stored' = IF io[t].path = "config" THEN io[t].content ELSE stored

WriteCurrent(t) ==
  /\ At(t, "write")
  /\ flash' = Appended(io[t].path, IF io[t].path = "config" THEN cfg ELSE io[t].content)
  /\ Reported(t)
  /\ Finish(t)
  /\ UNCHANGED <<Memory, faults, excuses>>

\* Writing adds to the file, whole, in part or not at all; what was written
\* whole is lost if closing fails, which save_file does not ask about.
Write(t) ==
  /\ At(t, "write")
  /\ \/ /\ flash' = Appended(io[t].path, io[t].content)
        /\ Reported(t)
        /\ UNCHANGED <<faults, ignored, lapse>>
     \/ /\ Mishap
        /\ flash' \in {flash, Appended(io[t].path, Damaged)}
        /\ lapse' = (lapse \/ io[t].path = "identity")
        /\ UNCHANGED <<stored, ignored>>
     \/ /\ Mishap
        /\ Reported(t)
        /\ Ignored(io[t].path)
        /\ UNCHANGED flash
  /\ Finish(t)
  /\ UNCHANGED <<Memory, overlapped>>

Saving(t) == Compare(t) \/ Remove(t) \/ Open(t) \/ Write(t)

-----------------------------------------------------------------------------
(* src/src/main.cpp: setup() *)

InSetup(place) == pc = place /\ io["loop"].step = "idle"

\* The static variables have their initial values; the mount may fail.
PowerOn ==
  /\ pc = "off" /\ boots < MaxBoots
  /\ boots' = boots + 1
  /\ cfg' = DefaultConfig
  /\ pc' = "loadConfig"
  /\ \/ mounted' = TRUE /\ UNCHANGED faults
     \/ mounted' = FALSE /\ Mishap
  /\ UNCHANGED <<flash, identity, io, drawn, stored, unread, excuses>>

\* config_store::load, or else the defaults; the file may be unreadable.
LoadConfig ==
  /\ InSetup("loadConfig")
  /\ \/ /\ mounted /\ Loadable(flash) # NoConfig
        /\ cfg' = Loadable(flash)
        /\ UNCHANGED faults
     \/ /\ ~mounted \/ Loadable(flash) = NoConfig
        /\ UNCHANGED <<cfg, faults>>
     \/ /\ mounted /\ Mishap
        /\ UNCHANGED cfg
  /\ pc' = "loadIdentity"
  /\ UNCHANGED <<mounted, flash, identity, io, boots, drawn, stored, unread, excuses>>

\* A key of its own at each draw: 64 bytes of noise do not repeat.
Draw == \E k \in Key \ (drawn \cup {Spliced}) : identity' = k /\ drawn' = drawn \cup {k}

DrawUnsaved == Draw /\ UNCHANGED io

\* Generate, and save_file at once.
DrawAndSave ==
  /\ Draw
  /\ io' = IF mounted THEN [io EXCEPT !["loop"] = [step    |-> "remove",
                                                   path    |-> "identity",
                                                   content |-> identity']]
           ELSE io

LoadIdentityUnlessFresh ==
  /\ InSetup("loadIdentity")
  /\ \/ /\ mounted /\ HeldKey(flash) # NoKey /\ Loadable(flash) # NoConfig
        /\ identity' = HeldKey(flash)
        /\ UNCHANGED <<io, drawn>>
     \/ /\ ~mounted \/ HeldKey(flash) = NoKey \/ Loadable(flash) = NoConfig
        /\ DrawAndSave
  /\ pc' = "stampName"
  /\ UNCHANGED <<mounted, flash, cfg, boots, faults, stored, unread, excuses>>

\* The file has 64 bytes to read, and not of one key.
SplicedKey(file) == file # NoFile /\ Len(file) > 1 /\ Head(file) = Damaged

\* load_or_generate_identity.  A key that cannot be read is replaced; any 64
\* bytes are a key.
LoadIdentity ==
  /\ InSetup("loadIdentity")
  /\ \/ /\ mounted /\ HeldKey(flash) # NoKey
        /\ identity' = HeldKey(flash)
        /\ UNCHANGED <<io, faults, drawn, lapse>>
     \/ /\ mounted /\ SplicedKey(flash.identity)
        /\ identity' = Spliced
        /\ UNCHANGED <<io, faults, drawn, lapse>>
     \/ /\ ~mounted \/ HeldKey(flash) = NoKey
        /\ DrawAndSave
        /\ UNCHANGED <<faults, lapse>>
     \/ /\ mounted /\ Mishap
        /\ DrawAndSave
        /\ lapse' = TRUE
  /\ pc' = "stampName"
  /\ UNCHANGED <<mounted, flash, cfg, boots, stored, overlapped, ignored, unread>>

\* A node without a name is named after its identity, and the name saved.
StampName ==
  /\ InSetup("stampName")
  /\ IF cfg.name = NoName
       THEN /\ cfg' = [cfg EXCEPT !.name = identity]
            /\ io' = [io EXCEPT !["loop"] = [step |-> "compare", path |-> "config",
                                             content |-> cfg']]
       ELSE UNCHANGED <<cfg, io>>
  /\ pc' = "startBle"
  /\ UNCHANGED <<mounted, flash, identity, boots, faults, drawn, stored, unread, excuses>>

\* ble::init comes last: from here on requests are served.
StartBle ==
  /\ InSetup("startBle")
  /\ pc' = "serving"
  /\ UNCHANGED <<mounted, flash, cfg, identity, io, boots, faults, drawn,
                 stored, unread, excuses>>

-----------------------------------------------------------------------------
(* src/src/ConfigProtocol.cpp: requests, from either task *)

Serves(t) == pc = "serving" /\ At(t, "idle")

\* apply_set_fields assigns the fields one by one.
SetField(t) ==
  /\ Serves(t)
  /\ \/ \E f \in Freq : cfg' = [cfg EXCEPT !.freq = f]
     \/ \E n \in OperatorName \cup {NoName} : cfg' = [cfg EXCEPT !.name = n]
  /\ UNCHANGED <<mounted, flash, identity, pc, io, boots, faults, drawn,
                 stored, unread, excuses>>

\* handle_commit by the callback: it copies the configuration in one go.
CommitBle ==
  /\ Serves("ble")
  /\ io' = [io EXCEPT !["ble"] = [step |-> "compare", path |-> "config", content |-> cfg]]
  /\ UNCHANGED <<Memory, flash, faults, stored, unread, excuses>>

\* handle_commit by the loop: the callback may come between the fields.
CommitLoop ==
  /\ Serves("loop")
  /\ io' = [io EXCEPT !["loop"] = [step |-> "copy", path |-> "config", content |-> cfg]]
  /\ UNCHANGED <<Memory, flash, faults, stored, unread, excuses>>

CopyRest ==
  /\ At("loop", "copy")
  /\ io' = [io EXCEPT !["loop"].step = "compare", !["loop"].content.name = cfg.name]
  /\ UNCHANGED <<Memory, flash, faults, stored, unread, excuses>>

-----------------------------------------------------------------------------
(* The environment *)

\* Power goes: the memory is lost.  Of a write that was under way, nothing,
\* a part or all may be on the flash.
PowerLoss ==
  /\ pc # "off"
  /\ \/ UNCHANGED flash
     \/ \E t \in Task : /\ io[t].step = "write"
                        /\ \E c \in {Damaged, io[t].content} :
                             flash' = Appended(io[t].path, c)
  /\ pc' = "off"
  /\ mounted' = FALSE
  /\ cfg' = DefaultConfig
  /\ identity' = NoKey
  /\ io' = [t \in Task |-> Idle]
  /\ unread' = {}
  /\ UNCHANGED <<boots, faults, drawn, stored, excuses>>

-----------------------------------------------------------------------------

\* A new node, or one that ran a firmware with another configuration.
Init ==
  /\ flash \in {[config |-> c, identity |-> NoFile] : c \in {NoFile, <<OldVersion>>}}
  /\ mounted = FALSE
  /\ cfg = DefaultConfig
  /\ identity = NoKey
  /\ pc = "off"
  /\ io = [t \in Task |-> Idle]
  /\ boots = 0 /\ faults = 0 /\ drawn = {}
  /\ stored = NoConfig
  /\ overlapped = FALSE /\ ignored = FALSE /\ unread = {} /\ lapse = FALSE

Next ==
  \/ PowerOn \/ LoadConfig \/ LoadIdentity \/ StampName \/ StartBle
  \/ \E t \in Task : SetField(t) \/ Saving(t)
  \/ CommitBle \/ CommitLoop \/ CopyRest
  \/ PowerLoss

Spec == Init /\ [][Next]_vars

-----------------------------------------------------------------------------
(* Properties *)

\* Types.  Whatever is on the flash, the memory holds a configuration, and
\* from load_or_generate_identity on an identity.
TypeOK ==
  /\ cfg \in Config
  /\ identity \in Key \cup {NoKey}
  /\ pc \in {"stampName", "startBle", "serving"} => identity # NoKey
  /\ \A t \in Task : io[t].content \in Config \cup Key \cup {NoConfig}
  /\ flash.config \in {NoFile} \cup Seq(Config \cup {Damaged, OldVersion})
  /\ flash.identity \in {NoFile} \cup Seq(Key \cup {Damaged})

\* A commit that was reported done is what the node comes up with, whatever
\* cut the power, until another save starts to write; unless the two tasks
\* saved in the middle of one another, or save_file ignored a failure
\* (ConfigStore.cpp:34-73, Storage.cpp:34-45).
ComesUpAsSaved ==
  [][pc = "loadConfig" /\ pc' = "loadIdentity" /\ mounted /\ faults' = faults
       /\ stored # NoConfig /\ ~overlapped /\ ~ignored
     => cfg' = stored]_vars

\* Saving what the flash already holds costs no erase: after a successful
\* commit the file is not touched again for the same configuration ("skips the
\* flash op if the new bytes match", ConfigStore.h:27-28), unless it could not be
\* read for comparison.
NoNeedlessErase ==
  [][flash'.config # flash.config /\ stored # NoConfig /\ ~overlapped /\ ~ignored
     => \E t \in Task : io[t].step = "remove" /\ (io[t].content # stored \/ t \in unread)]_vars

\* "The priv only gets written ONCE per device lifetime" (main.cpp:66-67): a key
\* on the flash stays, unless a file operation on it failed.
KeyWrittenOnce ==
  [][HeldKey(flash) # NoKey /\ ~lapse => flash'.identity = flash.identity]_vars

\* An automatic name is that of the identity in use, over all power losses:
\* the key is on the flash before the name made from it (main.cpp:163-197).
NameIsOwn ==
  pc = "serving" /\ cfg.name \in Key /\ ~lapse => cfg.name = identity

Cell == INSTANCE ConfigCell WITH
  Writer <- Task, Value <- Config, None <- NoConfig,
  value <- Loadable(flash),
  writing <- [t \in Task |->
                IF io[t].path = "config" /\ io[t].step \notin {"idle", "copy"}
                THEN io[t].content ELSE NoConfig]

\* What a boot would load is a cell that holds what somebody saved, or
\* nothing while somebody saves: never a mixture, never an older value.
ImplementsCell == Cell!Spec
=============================================================================
