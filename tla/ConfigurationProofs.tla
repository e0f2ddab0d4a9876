------------------------ MODULE ConfigurationProofs -------------------------
(***************************************************************************)
(* Theorems about Configuration, for any number of boots and failures, any *)
(* keys and any fields.                                                    *)
(***************************************************************************)
EXTENDS Configuration, SequenceTheorems, TLAPS

USE ConfigurationAssumption, MarksAssumption

Steps == {"idle", "copy", "compare", "remove", "open", "write"}
Places == {"off", "loadConfig", "loadIdentity", "stampName", "startBle", "serving"}
ConfigFiles == {NoFile} \cup Seq(Config \cup {Damaged, OldVersion})
KeyFiles    == {NoFile} \cup Seq(Key \cup {Damaged})

\* A save in progress is of a configuration or, by the loop in setup(), of a key.
IoOK(t) ==
  /\ io[t] \in [step : Steps, path : Path, content : Config \cup Key \cup {NoConfig}]
  /\ io[t].step # "idle" =>
       \/ /\ pc \in {"startBle", "serving"}
          /\ io[t].path = "config" /\ io[t].content \in Config
       \/ /\ t = "loop" /\ pc = "stampName"
          /\ io[t].path = "identity" /\ io[t].content \in Key
          /\ io[t].step \in {"remove", "open", "write"}

MemoryOK ==
  /\ cfg \in Config
  /\ identity \in Key \cup {NoKey}
  /\ pc \in Places
  /\ pc \in {"stampName", "startBle", "serving"} => identity \in Key

TasksOK ==
  /\ DOMAIN io = Task
  /\ \A t \in Task : IoOK(t)
  /\ pc # "serving" => io["ble"].step = "idle"

FlashOK ==
  /\ flash = [config |-> flash.config, identity |-> flash.identity]
  /\ flash.config \in ConfigFiles
  /\ flash.identity \in KeyFiles

\* Types, as an induction needs them.
TypeInv == MemoryOK /\ TasksOK /\ FlashOK

-----------------------------------------------------------------------------
(* What a boot makes of a file *)

\* The configuration and the key that a file's first record gives.
ConfigIn(f) ==
  IF f \in {NoFile, << >>} THEN NoConfig
  ELSE IF Head(f) \in {Damaged, OldVersion} THEN NoConfig ELSE Head(f)

KeyIn(f) ==
  IF f \in {NoFile, << >>} THEN NoKey
  ELSE IF Head(f) = Damaged THEN NoKey ELSE Head(f)

Added(f, c) == IF f = NoFile THEN <<c>> ELSE Append(f, c)

LEMMA ReadFile ==
  ASSUME NEW files, files.config \in ConfigFiles, files.identity \in KeyFiles
  PROVE  /\ Loadable(files) = ConfigIn(files.config)
         /\ HeldKey(files) = KeyIn(files.identity)
         /\ Loadable(files) \in Config \cup {NoConfig}
         /\ HeldKey(files) \in Key \cup {NoKey}
<1>1. Loadable(files) = ConfigIn(files.config)
  BY DEF Loadable, Content, ConfigIn, NoConfig
<1>2. ASSUME files.identity \notin {NoFile, << >>}
      PROVE  Head(files.identity) \in Key \cup {Damaged}
  BY <1>2 DEF KeyFiles
<1>3. HeldKey(files) = KeyIn(files.identity)
  BY <1>2 DEF HeldKey, Content, KeyIn
<1>4. ASSUME files.config \notin {NoFile, << >>}
      PROVE  Head(files.config) \in Config \cup {Damaged, OldVersion}
  BY <1>4 DEF ConfigFiles
<1> QED
  BY <1>1, <1>2, <1>3, <1>4 DEF ConfigIn, KeyIn

LEMMA NoFileIsNoSequence ==
  /\ \A s \in Seq(Config \cup {Damaged, OldVersion}) : s # NoFile
  /\ \A s \in Seq(Key \cup {Damaged}) : s # NoFile
<1> DEFINE All == Config \cup Key \cup {Damaged, OldVersion}
<1>1. ASSUME NEW S, S \subseteq All, NEW s \in Seq(S)
      PROVE  s \in Seq(All)
  <2>1. Len(s) \in Nat /\ \A k \in 1 .. Len(s) : s[k] \in All
    BY <1>1
  <2>2. s = [k \in 1 .. Len(s) |-> s[k]]
    OBVIOUS
  <2> QED
    BY <2>1, <2>2, SeqDef
<1> QED
  BY <1>1

LEMMA AddFirst ==
  ASSUME NEW S, NEW f \in {NoFile} \cup Seq(S), NEW c \in S,
         \A s \in Seq(S) : s # NoFile
  PROVE  /\ Added(f, c) \in Seq(S) /\ Added(f, c) \notin {NoFile, << >>}
         /\ Head(Added(f, c)) = IF f \notin {NoFile, << >>} THEN Head(f) ELSE c
<1>1. CASE f = NoFile
  <2>1. Added(f, c) = <<c>> /\ <<c>> \in Seq(S) /\ <<c>> # << >> /\ Head(<<c>>) = c
    BY <1>1 DEF Added
  <2> QED
    BY <1>1, <2>1
<1>2. CASE f # NoFile
  <2>1. f \in Seq(S) /\ Added(f, c) = Append(f, c)
    BY <1>2 DEF Added
  <2>2. /\ Append(f, c) \in Seq(S) /\ Append(f, c) # << >>
        /\ Head(Append(f, c)) = IF f # << >> THEN Head(f) ELSE c
    <3>1. f = << >> \/ Len(f) \in Nat \ {0}
      BY <2>1
    <3>2. CASE f = << >>
      BY <3>2
    <3>3. CASE Len(f) \in Nat \ {0}
      BY <2>1, <3>3
    <3> QED
      BY <3>1, <3>2, <3>3
  <2> QED
    BY <1>2, <2>1, <2>2
<1> QED
  BY <1>1, <1>2

\* Adding a record to a file decides what is read only if it was empty.
LEMMA AddToFile ==
  /\ \A f \in ConfigFiles, c \in Config \cup {Damaged} :
       /\ Added(f, c) \in ConfigFiles
       /\ Added(f, c) \notin {NoFile, << >>}
       /\ ConfigIn(Added(f, c)) = IF f \notin {NoFile, << >>} THEN ConfigIn(f)
                                  ELSE IF c = Damaged THEN NoConfig ELSE c
  /\ \A f \in KeyFiles, c \in Key \cup {Damaged} :
       /\ Added(f, c) \in KeyFiles
       /\ KeyIn(Added(f, c)) = IF f \notin {NoFile, << >>} THEN KeyIn(f)
                               ELSE IF c = Damaged THEN NoKey ELSE c
<1>1. ASSUME NEW f \in ConfigFiles, NEW c \in Config \cup {Damaged}
      PROVE  /\ Added(f, c) \in ConfigFiles
             /\ Added(f, c) \notin {NoFile, << >>}
             /\ ConfigIn(Added(f, c)) = IF f \notin {NoFile, << >>} THEN ConfigIn(f)
                                        ELSE IF c = Damaged THEN NoConfig ELSE c
  <2>1. /\ Added(f, c) \in Seq(Config \cup {Damaged, OldVersion})
        /\ Added(f, c) \notin {NoFile, << >>}
        /\ Head(Added(f, c)) = IF f \notin {NoFile, << >>} THEN Head(f) ELSE c
    <3> DEFINE S == Config \cup {Damaged, OldVersion}
    <3>1. f \in {NoFile} \cup Seq(S) /\ c \in S /\ \A s \in Seq(S) : s # NoFile
      BY NoFileIsNoSequence DEF ConfigFiles
    <3> HIDE DEF S
    <3>2. /\ Added(f, c) \in Seq(S) /\ Added(f, c) \notin {NoFile, << >>}
          /\ Head(Added(f, c)) = IF f \notin {NoFile, << >>} THEN Head(f) ELSE c
      BY <3>1, AddFirst
    <3> QED
      BY <3>2 DEF S
  <2>2. c = Damaged \/ c \notin {Damaged, OldVersion}
    OBVIOUS
  <2>3. Added(f, c) \in ConfigFiles
    BY <2>1 DEF ConfigFiles
  <2>4. ConfigIn(Added(f, c)) = LET h == Head(Added(f, c))
                               IN  IF h \in {Damaged, OldVersion} THEN NoConfig ELSE h
    BY <2>1 DEF ConfigIn
  <2> QED
    BY <2>1, <2>2, <2>3, <2>4 DEF ConfigIn
<1>2. ASSUME NEW f \in KeyFiles, NEW c \in Key \cup {Damaged}
      PROVE  /\ Added(f, c) \in KeyFiles
             /\ KeyIn(Added(f, c)) = IF f \notin {NoFile, << >>} THEN KeyIn(f)
                                     ELSE IF c = Damaged THEN NoKey ELSE c
  <2>1. /\ Added(f, c) \in Seq(Key \cup {Damaged})
        /\ Added(f, c) \notin {NoFile, << >>}
        /\ Head(Added(f, c)) = IF f \notin {NoFile, << >>} THEN Head(f) ELSE c
    <3> DEFINE S == Key \cup {Damaged}
    <3>1. f \in {NoFile} \cup Seq(S) /\ c \in S /\ \A s \in Seq(S) : s # NoFile
      BY NoFileIsNoSequence DEF KeyFiles
    <3> HIDE DEF S
    <3>2. /\ Added(f, c) \in Seq(S) /\ Added(f, c) \notin {NoFile, << >>}
          /\ Head(Added(f, c)) = IF f \notin {NoFile, << >>} THEN Head(f) ELSE c
      BY <3>1, AddFirst
    <3> QED
      BY <3>2 DEF S
  <2>2. Added(f, c) \in KeyFiles
    BY <2>1 DEF KeyFiles
  <2>3. KeyIn(Added(f, c)) = LET h == Head(Added(f, c))
                             IN  IF h = Damaged THEN NoKey ELSE h
    BY <2>1 DEF KeyIn
  <2> QED
    BY <2>1, <2>2, <2>3 DEF KeyIn
<1> QED
  BY <1>1, <1>2

-----------------------------------------------------------------------------
(* What one step does to a file and to a task *)

\* The file at p becomes f, and the other one stays.
Puts(p, f) ==
  /\ flash'.config = IF p = "config" THEN f ELSE flash.config
  /\ flash'.identity = IF p = "identity" THEN f ELSE flash.identity

LEMMA SetFile ==
  ASSUME FlashOK, NEW p \in Path, NEW f, flash' = [flash EXCEPT ![p] = f],
         f \in IF p = "config" THEN ConfigFiles ELSE KeyFiles
  PROVE  FlashOK' /\ Puts(p, f)
<1>1. flash' = [config   |-> IF p = "config" THEN f ELSE flash.config,
                identity |-> IF p = "identity" THEN f ELSE flash.identity]
  BY DEF FlashOK, Path
<1>2. Puts(p, f)
  BY <1>1 DEF Puts
<1>3. flash'.config \in ConfigFiles /\ flash'.identity \in KeyFiles
  BY <1>2 DEF Puts, FlashOK, Path
<1> QED
  BY <1>1, <1>2, <1>3 DEF FlashOK, Puts

LEMMA AppendFile ==
  ASSUME FlashOK, NEW p \in Path, NEW c, flash' = Appended(p, c),
         c \in IF p = "config" THEN Config \cup {Damaged} ELSE Key \cup {Damaged}
  PROVE  FlashOK' /\ Puts(p, Added(flash[p], c))
<1>1. flash' = [flash EXCEPT ![p] = Added(flash[p], c)]
  BY DEF Appended, Added, FlashOK, Path
<1>2. Added(flash[p], c) \in IF p = "config" THEN ConfigFiles ELSE KeyFiles
  BY AddToFile DEF FlashOK, Path
<1> HIDE DEF Added
<1> QED
  BY <1>1, <1>2, SetFile

\* Task t has the save r in progress, and the other one what it had.
Turns(t, r) ==
  /\ DOMAIN io' = Task
  /\ io'[t] = r
  /\ \A u \in Task \ {t} : io'[u] = io[u]

LEMMA SetTask ==
  ASSUME TasksOK, NEW t \in Task, NEW r, io' = [io EXCEPT ![t] = r]
  PROVE  Turns(t, r)
BY DEF TasksOK, Turns

LEMMA ContinueTask ==
  ASSUME TasksOK, NEW t \in Task, NEW s, Continue(t, s)
  PROVE  Turns(t, [step |-> s, path |-> io[t].path, content |-> io[t].content])
<1>1. io[t] = [step |-> io[t].step, path |-> io[t].path, content |-> io[t].content]
  BY DEF TasksOK, IoOK
<1> QED
  BY <1>1 DEF TasksOK, Turns, Continue

LEMMA FinishTask ==
  ASSUME TasksOK, NEW t \in Task, Finish(t)
  PROVE  Turns(t, Idle)
BY SetTask DEF Finish

LEMMA IdleOK == /\ Idle.step = "idle" /\ Idle.path = "config" /\ Idle.content = NoConfig
                /\ Idle \in [step : Steps, path : Path, content : Config \cup Key \cup {NoConfig}]
BY DEF Idle, Steps, Path

\* A save goes on where the task had one.
LEMMA TasksAfterSaving ==
  ASSUME TypeInv, NEW t \in Task, pc' = pc, io[t].step # "idle",
         \/ \E s \in {"remove", "open", "write"} : Continue(t, s)
         \/ Finish(t)
  PROVE  TasksOK'
<1>1. TasksOK
  BY DEF TypeInv
<1>2. pc = "serving" \/ t = "loop"
  BY DEF TypeInv, TasksOK, Task
<1>3. ASSUME NEW s \in {"remove", "open", "write"}, Continue(t, s)
      PROVE  TasksOK'
  <2>1. Turns(t, [step |-> s, path |-> io[t].path, content |-> io[t].content])
    BY <1>1, <1>3, ContinueTask
  <2>2. io'[t].step = s /\ io'[t].path = io[t].path /\ io'[t].content = io[t].content
    BY <2>1 DEF Turns
  <2>3. io'[t] \in [step : Steps, path : Path, content : Config \cup Key \cup {NoConfig}]
    BY <1>1, <2>1 DEF Turns, TasksOK, IoOK, Steps
  <2>4. IoOK(t)'
    BY <1>1, <2>2, <2>3 DEF TasksOK, IoOK
  <2>5. \A u \in Task \ {t} : IoOK(u)'
    BY <1>1, <2>1 DEF Turns, TasksOK, IoOK
  <2>6. pc' # "serving" => io'["ble"].step = "idle"
    BY <1>1, <1>2, <2>1 DEF Turns, TasksOK, Task
  <2> QED
    BY <2>1, <2>4, <2>5, <2>6 DEF Turns, TasksOK
<1>4. ASSUME Finish(t)
      PROVE  TasksOK'
  <2>1. Turns(t, Idle)
    BY <1>1, <1>4, FinishTask
  <2>2. IoOK(t)'
    BY <2>1, IdleOK DEF Turns, IoOK
  <2>3. \A u \in Task \ {t} : IoOK(u)'
    BY <1>1, <2>1 DEF Turns, TasksOK, IoOK
  <2>4. pc' # "serving" => io'["ble"].step = "idle"
    BY <1>1, <1>2, <2>1, IdleOK DEF Turns, TasksOK, Task
  <2> QED
    BY <2>1, <2>2, <2>3, <2>4 DEF Turns, TasksOK
<1> QED
  BY <1>3, <1>4

-----------------------------------------------------------------------------
(* Types *)

LEMMA NewSaveOK ==
  ASSUME TasksOK, NEW t \in Task, NEW s \in {"copy", "compare"}, NEW c \in Config,
         pc' = "serving" \/ (pc' = "startBle" /\ t = "loop"),
         pc' = pc \/ pc # "serving",
         io["loop"].step = "idle" \/ pc' = pc,
         Turns(t, [step |-> s, path |-> "config", content |-> c])
  PROVE  TasksOK'
<1>1. io'[t] \in [step : Steps, path : Path, content : Config \cup Key \cup {NoConfig}]
  BY DEF Turns, Steps, Path
<1>2. IoOK(t)'
  BY <1>1 DEF Turns, IoOK
<1>3. \A u \in Task \ {t} : IoOK(u)'
  BY DEF Turns, TasksOK, IoOK, Task
<1>4. pc' # "serving" => io'["ble"].step = "idle"
  BY DEF Turns, TasksOK, Task
<1> QED
  BY <1>2, <1>3, <1>4 DEF Turns, TasksOK

LEMMA TypeStep == TypeInv /\ [Next]_vars => TypeInv'
<1> SUFFICES ASSUME TypeInv, [Next]_vars
             PROVE  TypeInv'
  OBVIOUS
<1> USE DEF TypeInv
<1>1. FlashOK /\ flash' = flash => FlashOK'
  BY DEF FlashOK
<1>2. ASSUME io["loop"].step = "idle" \/ pc' = pc, io' = io,
             pc # "serving" \/ pc' = pc
      PROVE  TasksOK'
  BY <1>2 DEF TasksOK, IoOK, Task
<1>3. CASE PowerOn
  <2>1. MemoryOK'
    BY <1>3 DEF PowerOn, MemoryOK, Places, DefaultConfig, Config, Name
  <2>2. TasksOK'
    BY <1>3 DEF PowerOn, TasksOK, IoOK, Task
  <2> QED
    BY <1>1, <1>3, <2>1, <2>2 DEF PowerOn
<1>4. CASE LoadConfig
  <2>1. cfg' \in Config
    <3>1. Loadable(flash) \in Config \cup {NoConfig}
      BY ReadFile DEF FlashOK
    <3> QED
      BY <1>4, <3>1 DEF LoadConfig, MemoryOK
  <2>2. MemoryOK'
    BY <1>4, <2>1 DEF LoadConfig, MemoryOK, Places
  <2> QED
    BY <1>1, <1>2, <1>4, <2>2 DEF LoadConfig, InSetup
<1>5. CASE LoadIdentity
  <2>1. HeldKey(flash) \in Key \cup {NoKey}
    BY ReadFile DEF FlashOK
  <2>2. identity' \in Key
    BY <1>5, <2>1 DEF LoadIdentity, DrawAndSave, Draw
  <2>3. MemoryOK'
    BY <1>5, <2>2 DEF LoadIdentity, MemoryOK, Places
  <2>4. CASE io' = io
    BY <1>1, <1>2, <1>5, <2>3, <2>4 DEF LoadIdentity, InSetup
  <2>5. CASE io' # io
    <3>1. Turns("loop", [step |-> "remove", path |-> "identity", content |-> identity'])
      <4>1. io' = [io EXCEPT !["loop"] = [step |-> "remove", path |-> "identity",
                                          content |-> identity']]
        BY <1>5, <2>5 DEF LoadIdentity, DrawAndSave
      <4> QED
        BY <4>1, SetTask DEF Task
    <3>2. io'["loop"] \in [step : Steps, path : Path, content : Config \cup Key \cup {NoConfig}]
      BY <2>2, <3>1 DEF Turns, Steps, Path
    <3>3. IoOK("loop")'
      BY <1>5, <2>2, <3>1, <3>2 DEF LoadIdentity, Turns, IoOK
    <3>4. IoOK("ble")' /\ io'["ble"].step = "idle"
      BY <1>5, <3>1 DEF LoadIdentity, InSetup, Turns, TasksOK, IoOK, Task
    <3> QED
      BY <1>1, <1>5, <2>3, <3>1, <3>3, <3>4 DEF LoadIdentity, Turns, TasksOK, Task
  <2> QED
    BY <2>4, <2>5
<1>6. CASE StampName
  <2>1. cfg' \in Config
    BY <1>6 DEF StampName, InSetup, MemoryOK, Config, Name
  <2>2. MemoryOK'
    BY <1>6, <2>1 DEF StampName, InSetup, MemoryOK, Places
  <2>3. TasksOK'
    <3>1. CASE io' = io
      BY <1>2, <1>6, <3>1 DEF StampName, InSetup
    <3>2. CASE io' # io
      <4>1. Turns("loop", [step |-> "compare", path |-> "config", content |-> cfg'])
        BY <1>6, <3>2, SetTask DEF StampName, Task
      <4> QED
        BY <1>6, <2>1, <4>1, NewSaveOK DEF StampName, InSetup, Task
    <3> QED
      BY <3>1, <3>2
  <2> QED
    BY <1>1, <1>6, <2>2, <2>3 DEF StampName
<1>7. CASE StartBle
  <2>1. MemoryOK'
    BY <1>7 DEF StartBle, InSetup, MemoryOK, Places
  <2> QED
    BY <1>1, <1>2, <1>7, <2>1 DEF StartBle, InSetup
<1>8. ASSUME NEW t \in Task, SetField(t)
      PROVE  TypeInv'
  <2>1. cfg' \in Config
    BY <1>8 DEF SetField, MemoryOK, Config, Name
  <2>2. MemoryOK'
    BY <1>8, <2>1 DEF SetField, MemoryOK
  <2> QED
    BY <1>1, <1>2, <1>8, <2>2 DEF SetField
<1>9. ASSUME NEW t \in Task, Saving(t)
      PROVE  TypeInv'
  <2>1. pc' = pc /\ MemoryOK'
    BY <1>9 DEF Saving, Compare, Remove, Open, Write, Memory, MemoryOK
  <2>2. io[t].step # "idle"
    BY <1>9 DEF Saving, Compare, Remove, Open, Write, At
  <2>3. TasksOK'
    <3>1. Finish(t) \/ \E s \in {"remove", "open", "write"} : Continue(t, s)
      BY <1>9 DEF Saving, Compare, Remove, Open, Write
    <3> QED
      BY <2>1, <2>2, <3>1, TasksAfterSaving
  <2>4. /\ io[t].path \in Path
        /\ io[t].content \in IF io[t].path = "config" THEN Config \cup {Damaged}
                             ELSE Key \cup {Damaged}
    BY <2>2 DEF TasksOK, IoOK, Path
  <2>5. FlashOK'
    <3>1. CASE Compare(t)
      BY <1>1, <3>1 DEF Compare
    <3>2. CASE Remove(t)
      <4>1. NoFile \in IF io[t].path = "config" THEN ConfigFiles ELSE KeyFiles
        BY DEF ConfigFiles, KeyFiles
      <4> QED
        BY <1>1, <2>4, <3>2, <4>1, SetFile DEF Remove
    <3>3. CASE Open(t)
      <4> DEFINE f == IF flash[io[t].path] = NoFile THEN << >> ELSE flash[io[t].path]
      <4>1. f \in IF io[t].path = "config" THEN ConfigFiles ELSE KeyFiles
        <5>1. << >> \in ConfigFiles /\ << >> \in KeyFiles
          BY DEF ConfigFiles, KeyFiles
        <5>2. CASE io[t].path = "config"
          BY <5>1, <5>2 DEF FlashOK
        <5>3. CASE io[t].path = "identity"
          BY <5>1, <5>3 DEF FlashOK
        <5> QED
          BY <2>4, <5>2, <5>3 DEF Path
      <4>2. flash' = flash \/ flash' = [flash EXCEPT ![io[t].path] = f]
        BY <2>4, <3>3 DEF Open, FlashOK, Path
      <4> HIDE DEF f
      <4> QED
        BY <1>1, <2>4, <4>1, <4>2, SetFile
    <3>4. CASE Write(t)
      <4>1. ASSUME NEW c \in {Damaged, io[t].content}, flash' = Appended(io[t].path, c)
            PROVE  FlashOK'
        BY <2>4, <4>1, AppendFile
      <4> QED
        BY <1>1, <3>4, <4>1 DEF Write
    <3> QED
      BY <1>9, <3>1, <3>2, <3>3, <3>4 DEF Saving
  <2> QED
    BY <2>1, <2>3, <2>5
<1>10. CASE CommitBle
  <2>1. Turns("ble", [step |-> "compare", path |-> "config", content |-> cfg])
    BY <1>10, SetTask DEF CommitBle, Task
  <2>2. TasksOK'
    <3>1. pc = "serving" /\ pc' = "serving" /\ cfg \in Config
      BY <1>10 DEF CommitBle, Serves, Memory, MemoryOK
    <3> QED
      BY <2>1, <3>1, NewSaveOK DEF Task
  <2> QED
    BY <1>1, <1>10, <2>2 DEF CommitBle, Memory, MemoryOK
<1>11. CASE CommitLoop
  <2>1. Turns("loop", [step |-> "copy", path |-> "config", content |-> cfg])
    BY <1>11, SetTask DEF CommitLoop, Task
  <2>2. TasksOK'
    <3>1. pc = "serving" /\ pc' = "serving" /\ cfg \in Config
      BY <1>11 DEF CommitLoop, Serves, Memory, MemoryOK
    <3> QED
      BY <2>1, <3>1, NewSaveOK DEF Task
  <2> QED
    BY <1>1, <1>11, <2>2 DEF CommitLoop, Memory, MemoryOK
<1>12. CASE CopyRest
  <2> DEFINE c == [io["loop"].content EXCEPT !.name = cfg.name]
  <2>1. /\ io["loop"].path = "config" /\ io["loop"].content \in Config
        /\ pc \in {"startBle", "serving"} /\ pc' = pc
    BY <1>12 DEF CopyRest, At, Memory, TasksOK, IoOK, Task
  <2>2. c \in Config
    BY <2>1 DEF MemoryOK, Config
  <2>3. Turns("loop", [step |-> "compare", path |-> "config", content |-> c])
    BY <1>12, <2>1 DEF CopyRest, Turns, TasksOK, IoOK, Task
  <2> HIDE DEF c
  <2>4. TasksOK'
    BY <2>1, <2>2, <2>3, NewSaveOK DEF Task
  <2> QED
    BY <1>1, <1>12, <2>4 DEF CopyRest, Memory, MemoryOK
<1>13. CASE PowerLoss
  <2>1. MemoryOK'
    BY <1>13 DEF PowerLoss, MemoryOK, Places, DefaultConfig, Config, Name
  <2>2. TasksOK'
    BY <1>13, IdleOK DEF PowerLoss, TasksOK, IoOK, Task
  <2>3. ASSUME NEW t \in Task, io[t].step = "write",
               NEW c \in {Damaged, io[t].content}, flash' = Appended(io[t].path, c)
        PROVE  FlashOK'
    <3>1. /\ io[t].path \in Path
          /\ c \in IF io[t].path = "config" THEN Config \cup {Damaged}
                   ELSE Key \cup {Damaged}
      BY <2>3 DEF TasksOK, IoOK, Path
    <3> QED
      BY <2>3, <3>1, AppendFile
  <2>4. FlashOK'
    BY <1>1, <1>13, <2>3 DEF PowerLoss
  <2> QED
    BY <2>1, <2>2, <2>4
<1>14. CASE UNCHANGED vars
  BY <1>1, <1>2, <1>14 DEF vars, MemoryOK
<1> QED
  BY <1>3, <1>4, <1>5, <1>6, <1>7, <1>8, <1>9, <1>10, <1>11, <1>12, <1>13, <1>14 DEF Next

\* What is read from a new or an outdated file is nothing.
LEMMA TypeInit == Init => TypeInv
<1> SUFFICES ASSUME Init
             PROVE  TypeInv
  OBVIOUS
<1>1. MemoryOK
  BY DEF Init, MemoryOK, Places, DefaultConfig, Config, Name
<1>2. TasksOK
  BY IdleOK DEF Init, TasksOK, IoOK, Task
<1>3. <<OldVersion>> \in Seq(Config \cup {Damaged, OldVersion})
  OBVIOUS
<1>4. FlashOK
  <2>1. PICK c \in {NoFile, <<OldVersion>>} : flash = [config |-> c, identity |-> NoFile]
    BY DEF Init
  <2>2. flash.config = c /\ flash.identity = NoFile
    BY <2>1
  <2> QED
    BY <1>3, <2>1, <2>2 DEF FlashOK, ConfigFiles, KeyFiles
<1> QED
  BY <1>1, <1>2, <1>4 DEF TypeInv

LEMMA TypesHold == Spec => []TypeInv
BY TypeInit, TypeStep, PTL DEF Spec

\* Whatever is on the flash, the memory holds a configuration, and from
\* load_or_generate_identity on an identity (main.cpp:68-108).
THEOREM TypeCorrect == Spec => []TypeOK
<1>1. TypeInv => TypeOK
  BY DEF TypeInv, MemoryOK, TasksOK, IoOK, FlashOK, ConfigFiles, KeyFiles, TypeOK
<1> QED
  BY <1>1, TypesHold, PTL

-----------------------------------------------------------------------------
(* The cell of ConfigCell *)

WritingBy(r) == IF r.path = "config" /\ r.step \notin {"idle", "copy"}
                THEN r.content ELSE NoConfig

writingNow == [t \in Task |-> WritingBy(io[t])]

cellNow == <<Loadable(flash), writingNow>>

LEMMA NoConfigIsNone == NoConfig \notin Config /\ WritingBy(Idle) = NoConfig
BY IdleOK DEF NoConfig, WritingBy

LEMMA WritingTurns ==
  ASSUME NEW t \in Task, NEW r, Turns(t, r)
  PROVE  writingNow' = [writingNow EXCEPT ![t] = WritingBy(r)]
<1>1. writingNow' = [u \in Task |-> WritingBy(io'[u])]
  BY DEF writingNow
<1>2. \A u \in Task : WritingBy(io'[u]) = IF u = t THEN WritingBy(r) ELSE WritingBy(io[u])
  BY DEF Turns
<1> HIDE DEF WritingBy
<1> QED
  BY <1>1, <1>2 DEF writingNow

\* What the two files say after a step on one of them.
LEMMA LoadableAfter ==
  ASSUME TypeInv, TypeInv'
  PROVE  /\ Loadable(flash) = ConfigIn(flash.config)
         /\ Loadable(flash)' = ConfigIn(flash'.config)
         /\ HeldKey(flash) = KeyIn(flash.identity)
         /\ HeldKey(flash)' = KeyIn(flash'.identity)
<1>1. FlashOK /\ FlashOK'
  BY DEF TypeInv
<1>2. flash'.config \in ConfigFiles /\ flash'.identity \in KeyFiles
  BY <1>1 DEF FlashOK
<1>3. Loadable(flash') = ConfigIn(flash'.config) /\ HeldKey(flash') = KeyIn(flash'.identity)
  BY <1>2, ReadFile
<1>4. Loadable(flash)' = Loadable(flash') /\ HeldKey(flash)' = HeldKey(flash')
  BY DEF Loadable, HeldKey, Content
<1> QED
  BY <1>1, <1>3, <1>4, ReadFile DEF FlashOK

\* A record that is added to the configuration, whole or damaged.
LEMMA ConfigWritten ==
  ASSUME TypeInv, TypeInv', NEW c \in Config \cup {Damaged}, flash' = Appended("config", c)
  PROVE  /\ Loadable(flash)' = IF flash.config \notin {NoFile, << >>} THEN Loadable(flash)
                               ELSE IF c = Damaged THEN NoConfig ELSE c
         /\ flash.config \in {NoFile, << >>} => Loadable(flash) = NoConfig
         /\ flash'.config \notin {NoFile, << >>}
         /\ HeldKey(flash)' = HeldKey(flash)
<1>1. FlashOK
  BY DEF TypeInv
<1>2. c \in IF "config" = "config" THEN Config \cup {Damaged} ELSE Key \cup {Damaged}
  OBVIOUS
<1>3. Puts("config", Added(flash["config"], c))
  BY <1>1, <1>2, AppendFile DEF Path
<1>4. flash'.config = Added(flash.config, c) /\ flash'.identity = flash.identity
  BY <1>3 DEF Puts
<1>5. flash.config \in {NoFile, << >>} => ConfigIn(flash.config) = NoConfig
  BY DEF ConfigIn
<1>6. flash.config \in ConfigFiles
  BY <1>1 DEF FlashOK
<1> HIDE DEF Added
<1> QED
  BY <1>4, <1>5, <1>6, AddToFile, LoadableAfter

LEMMA CellBegins ==
  ASSUME NEW t \in Task, WritingBy(io[t]) = NoConfig, NEW v \in Config,
         writingNow' = [writingNow EXCEPT ![t] = v], Loadable(flash)' = Loadable(flash)
  PROVE  Cell!Next
<1>1. Cell!Begin(t)
  BY DEF Cell!Begin, writingNow, WritingBy
<1> QED
  BY <1>1 DEF Cell!Next

LEMMA CellEnds ==
  ASSUME NEW t \in Task, WritingBy(io[t]) # NoConfig,
         writingNow' = [writingNow EXCEPT ![t] = NoConfig],
         Loadable(flash)' \in {WritingBy(io[t]), Loadable(flash)}
  PROVE  Cell!Next
<1>1. Cell!End(t)
  BY DEF Cell!End, writingNow, WritingBy
<1> QED
  BY <1>1 DEF Cell!Next

LEMMA CellRests ==
  ASSUME TypeInv, writingNow' = writingNow, Loadable(flash)' = Loadable(flash)
  PROVE  [Cell!Next]_Cell!cellVars
BY DEF Cell!cellVars, writingNow, WritingBy

\* One step of Configuration is one of the cell, or none.
LEMMA CellStep == TypeInv /\ TypeInv' /\ [Next]_vars => [Cell!Next]_Cell!cellVars
<1> SUFFICES ASSUME TypeInv, TypeInv', [Next]_vars
             PROVE  [Cell!Next]_Cell!cellVars
  OBVIOUS
<1>1. /\ Loadable(flash) = ConfigIn(flash.config)
      /\ Loadable(flash)' = ConfigIn(flash'.config)
  BY LoadableAfter
<1>2. TasksOK /\ FlashOK
  BY DEF TypeInv
<1>3. ASSUME flash' = flash, io' = io
      PROVE  [Cell!Next]_Cell!cellVars
  BY <1>1, <1>3, CellRests DEF writingNow
<1>4. CASE PowerOn \/ LoadConfig \/ StartBle \/ UNCHANGED vars
  BY <1>3, <1>4 DEF PowerOn, LoadConfig, StartBle, vars
<1>5. ASSUME NEW t \in Task, SetField(t)
      PROVE  [Cell!Next]_Cell!cellVars
  BY <1>3, <1>5 DEF SetField
<1>6. CASE LoadIdentity
  <2>1. CASE io' = io
    BY <1>3, <1>6, <2>1 DEF LoadIdentity
  <2>2. CASE io' # io
    <3> DEFINE r == [step |-> "remove", path |-> "identity", content |-> identity']
    <3>1. io' = [io EXCEPT !["loop"] = r]
      BY <1>6, <2>2 DEF LoadIdentity, DrawAndSave
    <3>2. WritingBy(r) = NoConfig /\ WritingBy(io["loop"]) = NoConfig
      BY <1>6 DEF LoadIdentity, InSetup, WritingBy
    <3> HIDE DEF r
    <3>3. writingNow' = writingNow
      BY <1>2, <3>1, <3>2 DEF writingNow, TasksOK, Task
    <3> QED
      BY <1>1, <1>6, <3>3, CellRests DEF LoadIdentity
  <2> QED
    BY <2>1, <2>2
<1>7. CASE StampName
  <2>1. CASE io' = io
    BY <1>3, <1>7, <2>1 DEF StampName
  <2>2. CASE io' # io
    <3> DEFINE r == [step |-> "compare", path |-> "config", content |-> cfg']
    <3>1. io' = [io EXCEPT !["loop"] = r]
      BY <1>7, <2>2 DEF StampName
    <3>2. WritingBy(r) = cfg' /\ cfg' \in Config /\ WritingBy(io["loop"]) = NoConfig
      BY <1>7 DEF StampName, InSetup, WritingBy, TypeInv, MemoryOK
    <3> HIDE DEF r
    <3>3. writingNow' = [writingNow EXCEPT !["loop"] = cfg']
      <4>1. Turns("loop", r)
        BY <1>2, <3>1, SetTask DEF Task
      <4> QED
        BY <3>2, <4>1, WritingTurns DEF Task
    <3> QED
      BY <1>1, <1>7, <3>2, <3>3, CellBegins DEF StampName, Task
  <2> QED
    BY <2>1, <2>2
<1>8. CASE CommitBle
  <2> DEFINE r == [step |-> "compare", path |-> "config", content |-> cfg]
  <2>1. Turns("ble", r)
    BY <1>2, <1>8, SetTask DEF CommitBle, Task
  <2>2. WritingBy(r) = cfg /\ cfg \in Config /\ WritingBy(io["ble"]) = NoConfig
    BY <1>8 DEF CommitBle, Serves, At, WritingBy, TypeInv, MemoryOK
  <2> HIDE DEF r
  <2>3. writingNow' = [writingNow EXCEPT !["ble"] = cfg]
    BY <2>1, <2>2, WritingTurns DEF Task
  <2> QED
    BY <1>1, <1>8, <2>2, <2>3, CellBegins DEF CommitBle, Task
<1>9. CASE CommitLoop
  <2> DEFINE r == [step |-> "copy", path |-> "config", content |-> cfg]
  <2>1. io' = [io EXCEPT !["loop"] = r]
    BY <1>9 DEF CommitLoop
  <2>2. WritingBy(r) = NoConfig /\ WritingBy(io["loop"]) = NoConfig
    BY <1>9 DEF CommitLoop, Serves, At, WritingBy
  <2> HIDE DEF r
  <2>3. writingNow' = writingNow
    BY <1>2, <2>1, <2>2 DEF writingNow, TasksOK, Task
  <2> QED
    BY <1>1, <1>9, <2>3, CellRests DEF CommitLoop
<1>10. CASE CopyRest
  <2> DEFINE c == [io["loop"].content EXCEPT !.name = cfg.name]
             r == [step |-> "compare", path |-> "config", content |-> c]
  <2>1. io["loop"].path = "config" /\ io["loop"].content \in Config
    BY <1>2, <1>10 DEF CopyRest, At, TasksOK, IoOK, Task
  <2>2. c \in Config
    BY <2>1 DEF TypeInv, MemoryOK, Config
  <2>3. Turns("loop", r)
    BY <1>2, <1>10, <2>1 DEF CopyRest, Turns, TasksOK, IoOK, Task
  <2>4. WritingBy(r) = c /\ WritingBy(io["loop"]) = NoConfig
    BY <1>10 DEF CopyRest, At, WritingBy
  <2> HIDE DEF c, r
  <2>5. writingNow' = [writingNow EXCEPT !["loop"] = c]
    BY <2>3, <2>4, WritingTurns DEF Task
  <2> QED
    BY <1>1, <1>10, <2>2, <2>4, <2>5, CellBegins DEF CopyRest, Task
<1>11. ASSUME NEW t \in Task, Saving(t)
       PROVE  [Cell!Next]_Cell!cellVars
  <2>1. io[t].step \in {"compare", "remove", "open", "write"} /\ io[t].path \in Path
    BY <1>2, <1>11 DEF Saving, Compare, Remove, Open, Write, At, TasksOK, IoOK
  <2>2. ASSUME NEW s \in {"remove", "open", "write"}, Continue(t, s)
        PROVE  writingNow' = writingNow
    <3> DEFINE r == [step |-> s, path |-> io[t].path, content |-> io[t].content]
    <3>1. Turns(t, r)
      BY <1>2, <2>2, ContinueTask
    <3>2. WritingBy(r) = WritingBy(io[t])
      BY <2>1 DEF WritingBy
    <3> HIDE DEF r
    <3> QED
      BY <3>1, <3>2, WritingTurns DEF writingNow
  <2>3. ASSUME Finish(t)
        PROVE  writingNow' = [writingNow EXCEPT ![t] = NoConfig]
    BY <1>2, <2>3, FinishTask, WritingTurns, NoConfigIsNone
  <2>4. CASE io[t].path = "config"
    <3>1. WritingBy(io[t]) = io[t].content /\ io[t].content \in Config
      BY <1>2, <2>1, <2>4 DEF WritingBy, TasksOK, IoOK
    <3>2. WritingBy(io[t]) # NoConfig
      BY <3>1, NoConfigIsNone
    <3>3. CASE Compare(t)
      BY <1>1, <2>2, <2>3, <3>2, <3>3, CellEnds, CellRests DEF Compare
    <3>4. CASE Remove(t)
      <4>1. writingNow' = writingNow
        BY <2>2, <3>4 DEF Remove
      <4>2. CASE flash' = flash
        BY <1>1, <4>1, <4>2, CellRests
      <4>3. CASE flash' # flash
        <5>1. flash'.config = NoFile
          BY <1>2, <2>4, <3>4, <4>3 DEF Remove, FlashOK
        <5>2. Loadable(flash)' = NoConfig
          BY <1>1, <5>1 DEF ConfigIn
        <5>3. Cell!Clear(t)
          BY <3>2, <4>1, <5>2 DEF Cell!Clear, writingNow, WritingBy
        <5> QED
          BY <5>3 DEF Cell!Next
      <4> QED
        BY <4>2, <4>3
    <3>5. CASE Open(t)
      <4>1. CASE Continue(t, "write")
        <5>1. \/ flash'.config = flash.config
              \/ flash'.config = << >> /\ flash.config = NoFile
          BY <1>2, <2>4, <3>5 DEF Open, FlashOK
        <5>2. Loadable(flash)' = Loadable(flash)
          BY <1>1, <5>1 DEF ConfigIn
        <5> QED
          BY <2>2, <4>1, <5>2, CellRests
      <4>2. CASE Finish(t) /\ UNCHANGED flash
        BY <1>1, <2>3, <3>2, <4>2, CellEnds
      <4> QED
        BY <3>5, <4>1, <4>2 DEF Open
    <3>6. CASE Write(t)
      <4>1. ASSUME NEW c \in {Damaged, io[t].content}, flash' = Appended("config", c)
            PROVE  Loadable(flash)' \in {WritingBy(io[t]), Loadable(flash)}
        BY <3>1, <4>1, ConfigWritten
      <4>2. Loadable(flash)' \in {WritingBy(io[t]), Loadable(flash)}
        BY <1>1, <2>4, <3>6, <4>1 DEF Write
      <4>3. Finish(t)
        BY <3>6 DEF Write
      <4> QED
        BY <2>3, <3>2, <4>2, <4>3, CellEnds
    <3> QED
      BY <1>11, <3>3, <3>4, <3>5, <3>6 DEF Saving
  <2>5. CASE io[t].path = "identity"
    <3>1. flash'.config = flash.config
      BY <1>2, <1>11, <2>5 DEF Saving, Compare, Remove, Open, Write, Appended, FlashOK
    <3>2. WritingBy(io[t]) = NoConfig
      BY <2>5 DEF WritingBy
    <3>3. writingNow' = writingNow
      <4>1. CASE Finish(t)
        BY <2>3, <3>2, <4>1 DEF writingNow
      <4>2. CASE ~Finish(t)
        BY <1>11, <2>2, <4>2 DEF Saving, Compare, Remove, Open, Write
      <4> QED
        BY <4>1, <4>2
    <3> QED
      BY <1>1, <3>1, <3>3, CellRests
  <2> QED
    BY <2>1, <2>4, <2>5 DEF Path
<1>12. CASE PowerLoss
  <2>1. writingNow' = [t \in Task |-> NoConfig]
    BY <1>12, NoConfigIsNone DEF PowerLoss, writingNow
  <2>2. \/ Loadable(flash)' = Loadable(flash)
        \/ \E t \in Task : WritingBy(io[t]) # NoConfig /\ Loadable(flash)' = WritingBy(io[t])
    <3>1. CASE UNCHANGED flash
      BY <1>1, <3>1
    <3>2. ASSUME NEW t \in Task, io[t].step = "write",
                 NEW c \in {Damaged, io[t].content}, flash' = Appended(io[t].path, c)
          PROVE  \/ Loadable(flash)' = Loadable(flash)
                 \/ /\ WritingBy(io[t]) # NoConfig
                    /\ Loadable(flash)' = WritingBy(io[t])
      <4>1. CASE io[t].path = "identity"
        BY <1>1, <1>2, <3>2, <4>1 DEF Appended, FlashOK
      <4>2. CASE io[t].path = "config"
        <5>1. WritingBy(io[t]) = io[t].content /\ io[t].content \in Config
          BY <1>2, <3>2, <4>2 DEF WritingBy, TasksOK, IoOK
        <5> QED
          BY <3>2, <4>2, <5>1, ConfigWritten, NoConfigIsNone
      <4> QED
        BY <1>2, <3>2, <4>1, <4>2 DEF TasksOK, IoOK, Path
    <3> QED
      BY <1>12, <3>1, <3>2 DEF PowerLoss
  <2>3. Cell!Cut
    BY <2>1, <2>2 DEF Cell!Cut, writingNow, WritingBy
  <2> QED
    BY <2>3 DEF Cell!Next
<1> QED
  BY <1>4, <1>5, <1>6, <1>7, <1>8, <1>9, <1>10, <1>11, <1>12 DEF Next

\* What a boot would load is a cell that holds what somebody saved, or nothing
\* while somebody saves (ConfigStore.cpp:34-73, Storage.cpp:34-45), for any
\* number of failures and of times the power goes.
THEOREM FlashIsACell == Spec => ImplementsCell
<1>1. Init => Cell!Init
  BY IdleOK DEF Init, Cell!Init, Loadable, Content, NoConfig
<1> QED
  BY <1>1, TypesHold, CellStep, PTL DEF Spec, ImplementsCell, Cell!Spec

-----------------------------------------------------------------------------
(* Keys and the names made from them *)

HasKeyName(c) == c \in Config /\ c.name \in Key

SavesKey == io["loop"].step # "idle" /\ io["loop"].path = "identity"

SavesConfig(t) == io[t].step # "idle" /\ io[t].path = "config"

\* A name made from a key is, on the flash, in memory and in a save that is on
\* its way, made from the key on the flash.
NameOnFlash == HasKeyName(Loadable(flash)) => HeldKey(flash) = Loadable(flash).name

NameInMemory ==
  HasKeyName(cfg) =>
    IF mounted THEN HeldKey(flash) = cfg.name
    ELSE cfg.name = identity /\ pc \in {"startBle", "serving"}

NameSaved ==
  \A t \in Task : SavesConfig(t) =>
    /\ io[t].step \in {"remove", "open", "write"} => mounted
    /\ mounted /\ HasKeyName(io[t].content) => HeldKey(flash) = io[t].content.name

\* A key is written only where there is none.
KeySaved ==
  SavesKey =>
    /\ mounted /\ HeldKey(flash) = NoKey /\ io["loop"].content = identity
    /\ io["loop"].step = "open" => flash.identity = NoFile
    /\ io["loop"].step = "write" => flash.identity = << >>

KeyInUse ==
  mounted /\ pc \in {"stampName", "startBle", "serving"} =>
    HeldKey(flash) = identity \/ SavesKey

\* No second record is ever put behind a key, or behind what is left of one.
OneKey == flash.identity \in {NoFile, << >>} \cup {<<k>> : k \in Key \cup {Damaged}}

NameInv ==
  ~lapse => NameOnFlash /\ NameInMemory /\ NameSaved /\ KeySaved /\ KeyInUse /\ OneKey

LEMMA LapseStays == [Next]_vars /\ ~lapse' => ~lapse
<1> SUFFICES ASSUME [Next]_vars, lapse
             PROVE  lapse'
  OBVIOUS
<1>1. ASSUME NEW t \in Task, Saving(t)
      PROVE  lapse'
  <2>1. CASE Compare(t) \/ Remove(t)
    BY <2>1 DEF Compare, Remove, Ignored, excuses
  <2>2. CASE Open(t)
    BY <2>2 DEF Open
  <2>3. CASE Write(t)
    BY <2>3 DEF Write, Ignored
  <2> QED
    BY <1>1, <2>1, <2>2, <2>3 DEF Saving
<1>2. CASE LoadIdentity
  BY <1>2 DEF LoadIdentity
<1>3. CASE ~LoadIdentity /\ ~\E t \in Task : Saving(t)
  BY <1>3 DEF Next, vars, excuses, PowerOn, LoadConfig, StampName, StartBle, SetField,
              CommitBle, CommitLoop, CopyRest, PowerLoss
<1> QED
  BY <1>1, <1>2, <1>3

\* Only saving, and the loss of power in the middle of it, changes a file.
LEMMA FlashMoves ==
  [Next]_vars => \/ flash' = flash
                 \/ \E t \in Task : Remove(t) \/ Open(t)
                 \/ \E t \in Task : /\ io[t].step = "write"
                                    /\ \E c \in {Damaged, io[t].content} :
                                         flash' = Appended(io[t].path, c)
<1> SUFFICES ASSUME [Next]_vars
             PROVE  \/ flash' = flash
                    \/ \E t \in Task : Remove(t) \/ Open(t)
                    \/ \E t \in Task : /\ io[t].step = "write"
                                       /\ \E c \in {Damaged, io[t].content} :
                                            flash' = Appended(io[t].path, c)
  OBVIOUS
<1>1. ASSUME NEW t \in Task, Write(t), flash' # flash
      PROVE  /\ io[t].step = "write"
             /\ \E c \in {Damaged, io[t].content} : flash' = Appended(io[t].path, c)
  BY <1>1 DEF Write, At
<1>2. CASE \E t \in Task : Saving(t)
  BY <1>1, <1>2 DEF Saving, Compare
<1>3. CASE PowerLoss
  BY <1>3 DEF PowerLoss
<1>4. CASE ~PowerLoss /\ ~\E t \in Task : Saving(t)
  BY <1>4 DEF Next, vars, PowerOn, LoadConfig, LoadIdentity, StampName, StartBle, SetField,
              CommitBle, CommitLoop, CopyRest
<1> QED
  BY <1>2, <1>3, <1>4

LEMMA KeyWritten ==
  ASSUME TypeInv, TypeInv', NEW c \in Key \cup {Damaged}, flash' = Appended("identity", c)
  PROVE  /\ HeldKey(flash)' = IF flash.identity \notin {NoFile, << >>} THEN HeldKey(flash)
                              ELSE IF c = Damaged THEN NoKey ELSE c
         /\ Loadable(flash)' = Loadable(flash)
<1>1. FlashOK
  BY DEF TypeInv
<1>2. c \in IF "identity" = "config" THEN Config \cup {Damaged} ELSE Key \cup {Damaged}
  OBVIOUS
<1>3. Puts("identity", Added(flash["identity"], c))
  BY <1>1, <1>2, AppendFile DEF Path
<1>4. flash'.identity = Added(flash.identity, c) /\ flash'.config = flash.config
  BY <1>3 DEF Puts
<1>5. flash.identity \in KeyFiles
  BY <1>1 DEF FlashOK
<1> HIDE DEF Added
<1> QED
  BY <1>4, <1>5, AddToFile, LoadableAfter

\* What a step on the files does to what they say.
LEMMA FilesStep ==
  ASSUME TypeInv, TypeInv', [Next]_vars, KeySaved
  PROVE  /\ flash'.identity = flash.identity \/ SavesKey
         /\ HeldKey(flash)' = HeldKey(flash) \/ SavesKey
         /\ \/ Loadable(flash)' \in {Loadable(flash), NoConfig}
            \/ \E t \in Task : /\ SavesConfig(t) /\ io[t].step = "write"
                               /\ Loadable(flash)' = io[t].content
<1>1. TasksOK /\ FlashOK
  BY DEF TypeInv
<1>2. /\ Loadable(flash) = ConfigIn(flash.config) /\ Loadable(flash)' = ConfigIn(flash'.config)
      /\ HeldKey(flash) = KeyIn(flash.identity) /\ HeldKey(flash)' = KeyIn(flash'.identity)
  BY LoadableAfter
<1>3. CASE flash' = flash
  BY <1>2, <1>3
<1>4. ASSUME NEW t \in Task, Remove(t) \/ Open(t)
      PROVE  /\ flash'.identity = flash.identity \/ SavesKey
             /\ flash'.config \in {flash.config, NoFile, << >>}
  <2>1. /\ io[t].step # "idle"
        /\ io[t].path = "config" \/ (io[t].path = "identity" /\ t = "loop")
    BY <1>1, <1>4 DEF Remove, Open, At, TasksOK, IoOK
  <2> DEFINE p == io[t].path
  <2>2. \/ flash' = flash
        \/ flash' = [flash EXCEPT ![p] = NoFile]
        \/ flash[p] = NoFile /\ flash' = [flash EXCEPT ![p] = << >>]
    <3>1. CASE Remove(t)
      BY <3>1 DEF Remove
    <3>2. CASE Open(t)
      <4>1. p \in DOMAIN flash
        BY <1>1, <2>1 DEF FlashOK
      <4>2. CASE flash[p] = NoFile
        BY <3>2, <4>2 DEF Open
      <4>3. CASE flash[p] # NoFile
        BY <1>1, <2>1, <3>2, <4>1, <4>3 DEF Open, FlashOK
      <4> QED
        BY <4>2, <4>3
    <3> QED
      BY <1>4, <3>1, <3>2
  <2>3. CASE p = "config"
    <3>1. CASE flash' = [flash EXCEPT !["config"] = NoFile]
      BY <1>1, <3>1 DEF FlashOK
    <3>2. CASE flash["config"] = NoFile /\ flash' = [flash EXCEPT !["config"] = << >>]
      BY <1>1, <3>2 DEF FlashOK
    <3> HIDE DEF p
    <3> QED
      BY <2>2, <2>3, <3>1, <3>2
  <2>4. CASE p = "identity"
    <3>1. SavesKey
      BY <2>1, <2>4 DEF SavesKey
    <3>2. flash'.config = flash.config
      BY <1>1, <2>2, <2>4 DEF FlashOK
    <3> QED
      BY <3>1, <3>2
  <2> QED
    BY <2>1, <2>3, <2>4
<1>5. ASSUME NEW t \in Task, io[t].step = "write",
             NEW c \in {Damaged, io[t].content}, flash' = Appended(io[t].path, c)
      PROVE  /\ flash'.identity = flash.identity \/ SavesKey
             /\ HeldKey(flash)' = HeldKey(flash) \/ SavesKey
             /\ Loadable(flash)' \in {Loadable(flash), NoConfig, io[t].content}
             /\ SavesConfig(t) \/ Loadable(flash)' = Loadable(flash)
  <2>1. CASE io[t].path = "config"
    <3>1. io[t].content \in Config
      BY <1>1, <1>5, <2>1 DEF TasksOK, IoOK
    <3>2. flash'.identity = flash.identity
      BY <1>1, <1>5, <2>1 DEF Appended, FlashOK
    <3> QED
      BY <1>5, <2>1, <3>1, <3>2, ConfigWritten DEF SavesConfig
  <2>2. CASE io[t].path = "identity"
    <3>1. io[t].content \in Key /\ t = "loop"
      BY <1>1, <1>5, <2>2 DEF TasksOK, IoOK
    <3> QED
      BY <1>5, <2>2, <3>1, KeyWritten DEF SavesKey
  <2> QED
    BY <1>1, <1>5, <2>1, <2>2 DEF TasksOK, IoOK, Path
<1>6. ASSUME NEW t \in Task, Remove(t) \/ Open(t)
      PROVE  Loadable(flash)' \in {Loadable(flash), NoConfig}
  BY <1>2, <1>4, <1>6 DEF ConfigIn
<1>7. CASE \E t \in Task : Remove(t) \/ Open(t)
  BY <1>2, <1>4, <1>6, <1>7
<1>8. CASE \E t \in Task : /\ io[t].step = "write"
                           /\ \E c \in {Damaged, io[t].content} :
                                flash' = Appended(io[t].path, c)
  BY <1>5, <1>8
<1> QED
  BY <1>3, <1>7, <1>8, FlashMoves

LEMMA OneKeyStep ==
  ASSUME TypeInv, KeySaved, OneKey, [Next]_vars
  PROVE  OneKey'
<1>1. TasksOK /\ FlashOK
  BY DEF TypeInv
<1>2. ASSUME NEW t \in Task, Remove(t) \/ Open(t)
      PROVE  flash'.identity \in {flash.identity, NoFile, << >>}
  <2>1. io[t].path \in Path
    BY <1>1, <1>2 DEF Remove, Open, At, TasksOK, IoOK
  <2>2. CASE io[t].path = "config"
    BY <1>1, <1>2, <2>2 DEF Remove, Open, FlashOK
  <2>3. CASE io[t].path = "identity"
    BY <1>1, <1>2, <2>3 DEF Remove, Open, FlashOK
  <2> QED
    BY <2>1, <2>2, <2>3 DEF Path
<1>3. ASSUME NEW t \in Task, io[t].step = "write",
             NEW c \in {Damaged, io[t].content}, flash' = Appended(io[t].path, c)
      PROVE  OneKey'
  <2>1. CASE io[t].path = "config"
    BY <1>1, <1>3, <2>1 DEF Appended, FlashOK, OneKey
  <2>2. CASE io[t].path = "identity"
    <3>1. flash.identity = << >> /\ c \in Key \cup {Damaged}
      BY <1>1, <1>3, <2>2 DEF TasksOK, IoOK, KeySaved, SavesKey
    <3>2. flash'.identity = Append(<< >>, c)
      <4>1. flash.identity # NoFile
        <5>1. << >> \in Seq(Key \cup {Damaged})
          OBVIOUS
        <5> QED
          BY <3>1, <5>1, NoFileIsNoSequence
      <4> QED
        BY <1>1, <1>3, <2>2, <3>1, <4>1 DEF Appended, FlashOK
    <3>3. flash'.identity = <<c>>
      BY <3>2
    <3> QED
      BY <3>1, <3>3 DEF OneKey
  <2> QED
    BY <1>1, <1>3, <2>1, <2>2 DEF TasksOK, IoOK, Path
<1> QED
  BY <1>2, <1>3, FlashMoves DEF OneKey

LEMMA NothingSpliced == OneKey => ~SplicedKey(flash.identity)
<1>1. ASSUME NEW k, flash.identity = <<k>>
      PROVE  ~SplicedKey(flash.identity)
  <2>1. Len(flash.identity) = 1
    BY <1>1
  <2> QED
    BY <2>1 DEF SplicedKey
<1>2. CASE flash.identity = << >>
  <2>1. Len(flash.identity) = 0
    BY <1>2
  <2> QED
    BY <2>1 DEF SplicedKey
<1>3. CASE flash.identity = NoFile
  BY <1>3 DEF SplicedKey
<1> QED
  BY <1>1, <1>2, <1>3 DEF OneKey

LEMMA NameStep == TypeInv /\ TypeInv' /\ NameInv /\ [Next]_vars => NameInv'
<1> SUFFICES ASSUME TypeInv, TypeInv', NameInv, [Next]_vars, ~lapse'
             PROVE  (NameOnFlash /\ NameInMemory /\ NameSaved /\ KeySaved /\ KeyInUse)'
  <2>1. NameInv => (~lapse => KeySaved /\ OneKey)
    BY DEF NameInv
  <2> QED
    BY <2>1, LapseStays, OneKeyStep DEF NameInv
<1>1. NameOnFlash /\ NameInMemory /\ NameSaved /\ KeySaved /\ KeyInUse /\ OneKey
  BY LapseStays DEF NameInv
<1>2. MemoryOK /\ TasksOK /\ FlashOK /\ MemoryOK' /\ TasksOK'
  BY DEF TypeInv
<1>3. ASSUME HeldKey(flash) # NoKey
      PROVE  HeldKey(flash)' = HeldKey(flash)
  BY <1>1, <1>3, FilesStep DEF KeySaved
<1>4. flash' = flash => HeldKey(flash)' = HeldKey(flash)
  BY DEF HeldKey, Content
<1>5. NameOnFlash'
  <2> SUFFICES ASSUME HasKeyName(Loadable(flash)')
               PROVE  HeldKey(flash)' = Loadable(flash)'.name
    BY DEF NameOnFlash, HasKeyName
  <2>1. Loadable(flash)' # NoConfig /\ Loadable(flash)'.name # NoKey
    BY NoConfigIsNone DEF HasKeyName
  <2>2. CASE Loadable(flash)' = Loadable(flash)
    BY <1>1, <1>3, <2>1, <2>2 DEF NameOnFlash
  <2>3. ASSUME NEW t \in Task, SavesConfig(t), io[t].step = "write",
               Loadable(flash)' = io[t].content
        PROVE  HeldKey(flash)' = Loadable(flash)'.name
    BY <1>1, <1>3, <2>1, <2>3 DEF NameSaved
  <2> QED
    BY <1>1, <2>1, <2>2, <2>3, FilesStep
<1>6. CASE UNCHANGED vars
  BY <1>1, <1>4, <1>5, <1>6 DEF vars, NameInMemory, NameSaved, KeySaved, KeyInUse, SavesKey,
                                SavesConfig
<1>7. CASE PowerOn
  <2>1. io["loop"].step = "idle" /\ io["ble"].step = "idle" /\ io' = io
    BY <1>2, <1>7 DEF PowerOn, TasksOK, IoOK, Task
  <2>2. ~HasKeyName(cfg)' /\ pc' = "loadConfig"
    BY <1>7 DEF PowerOn, HasKeyName, DefaultConfig
  <2> QED
    BY <1>5, <2>1, <2>2 DEF NameInMemory, NameSaved, KeySaved, KeyInUse, SavesKey, SavesConfig, Task
<1>8. CASE LoadConfig
  <2>1. io["loop"].step = "idle" /\ io["ble"].step = "idle" /\ io' = io /\ flash' = flash
        /\ mounted' = mounted /\ pc = "loadConfig" /\ pc' = "loadIdentity"
    BY <1>2, <1>8 DEF LoadConfig, InSetup, TasksOK
  <2>2. NameInMemory'
    BY <1>1, <1>4, <1>8, <2>1 DEF LoadConfig, NameInMemory, NameOnFlash, HasKeyName
  <2> QED
    BY <1>5, <2>1, <2>2 DEF NameSaved, KeySaved, KeyInUse, SavesKey, SavesConfig, Task
<1>9. CASE LoadIdentity
  <2>1. /\ io["loop"].step = "idle" /\ io["ble"].step = "idle"
        /\ pc = "loadIdentity" /\ pc' = "stampName"
        /\ UNCHANGED <<mounted, flash, cfg>>
    BY <1>2, <1>9 DEF LoadIdentity, InSetup, TasksOK
  <2>2. NameInMemory'
    BY <1>1, <1>4, <2>1 DEF NameInMemory, HasKeyName
  <2>3. CASE mounted /\ HeldKey(flash) # NoKey /\ identity' = HeldKey(flash) /\ io' = io
    BY <1>4, <1>5, <2>1, <2>2, <2>3
       DEF NameSaved, KeySaved, KeyInUse, SavesKey, SavesConfig, Task
  <2>4. CASE (~mounted \/ HeldKey(flash) = NoKey) /\ DrawAndSave
    <3>1. CASE mounted
      <4>1. Turns("loop", [step |-> "remove", path |-> "identity", content |-> identity'])
        <5>1. io' = [io EXCEPT !["loop"] = [step |-> "remove", path |-> "identity",
                                            content |-> identity']]
          BY <2>4, <3>1 DEF DrawAndSave
        <5> QED
          BY <1>2, <5>1, SetTask DEF Task
      <4>2. io'["loop"].step = "remove" /\ io'["loop"].path = "identity"
            /\ io'["loop"].content = identity' /\ io'["ble"].step = "idle"
        BY <2>1, <4>1 DEF Turns, Task
      <4> QED
        BY <1>4, <1>5, <2>1, <2>2, <2>4, <3>1, <4>2
           DEF NameSaved, KeySaved, KeyInUse, SavesKey, SavesConfig, Task
    <3>2. CASE ~mounted
      <4>1. io' = io
        BY <2>4, <3>2 DEF DrawAndSave
      <4> QED
        BY <1>5, <2>1, <2>2, <3>2, <4>1
           DEF NameSaved, KeySaved, KeyInUse, SavesKey, SavesConfig, Task
    <3> QED
      BY <3>1, <3>2
  <2> QED
    BY <1>1, <1>9, <2>3, <2>4, NothingSpliced DEF LoadIdentity
<1>10. CASE StampName
  <2>1. /\ io["loop"].step = "idle" /\ io["ble"].step = "idle"
        /\ pc = "stampName" /\ pc' = "startBle"
        /\ UNCHANGED <<mounted, flash, identity>>
    BY <1>2, <1>10 DEF StampName, InSetup, TasksOK
  <2>2. mounted => HeldKey(flash) = identity
    BY <1>1, <2>1 DEF KeyInUse, SavesKey
  <2>3. HeldKey(flash)' = HeldKey(flash)
    BY <1>4, <2>1
  <2>4. CASE cfg' = cfg /\ io' = io
    BY <1>1, <1>5, <2>1, <2>2, <2>3, <2>4
       DEF NameInMemory, NameSaved, KeySaved, KeyInUse, SavesKey, SavesConfig, Task, HasKeyName
  <2>5. CASE /\ cfg' = [cfg EXCEPT !.name = identity]
             /\ io' = [io EXCEPT !["loop"] = [step |-> "compare", path |-> "config",
                                              content |-> cfg']]
    <3>1. cfg'.name = identity
      BY <1>2, <2>5 DEF MemoryOK, Config
    <3>2. Turns("loop", [step |-> "compare", path |-> "config", content |-> cfg'])
      BY <1>2, <2>5, SetTask DEF Task
    <3>3. io'["loop"].step = "compare" /\ io'["loop"].path = "config"
          /\ io'["loop"].content = cfg' /\ io'["ble"].step = "idle"
      BY <2>1, <3>2 DEF Turns, Task
    <3> QED
      BY <1>5, <2>1, <2>2, <2>3, <3>1, <3>3
         DEF NameInMemory, NameSaved, KeySaved, KeyInUse, SavesKey, SavesConfig, Task
  <2> QED
    BY <1>10, <2>4, <2>5 DEF StampName
<1>11. CASE StartBle
  BY <1>1, <1>4, <1>5, <1>11 DEF StartBle, InSetup, NameInMemory, NameSaved, KeySaved, KeyInUse,
                                 SavesKey, SavesConfig, HasKeyName
<1>12. ASSUME NEW t \in Task, SetField(t)
       PROVE  (NameInMemory /\ NameSaved /\ KeySaved /\ KeyInUse)'
  <2>1. HasKeyName(cfg') => HasKeyName(cfg) /\ cfg'.name = cfg.name
    BY <1>2, <1>12 DEF SetField, HasKeyName, MemoryOK, Config
  <2>2. UNCHANGED <<mounted, flash, identity, pc, io>>
    BY <1>12 DEF SetField
  <2>3. NameInMemory'
    BY <1>1, <1>4, <2>1, <2>2 DEF NameInMemory, HasKeyName
  <2> QED
    BY <1>1, <1>4, <2>2, <2>3 DEF NameSaved, KeySaved, KeyInUse, SavesKey, SavesConfig
<1>13. CASE CommitBle
  <2>1. UNCHANGED <<mounted, flash, identity, pc, cfg>>
    BY <1>13 DEF CommitBle, Memory
  <2>2. Turns("ble", [step |-> "compare", path |-> "config", content |-> cfg])
    BY <1>2, <1>13, SetTask DEF CommitBle, Task
  <2>3. io'["loop"] = io["loop"] /\ io'["ble"].step = "compare" /\ io'["ble"].content = cfg
    BY <2>2 DEF Turns, Task
  <2> QED
    BY <1>1, <1>4, <1>5, <2>1, <2>3
       DEF NameInMemory, NameSaved, KeySaved, KeyInUse, SavesKey, SavesConfig, HasKeyName, Task
<1>14. CASE CommitLoop
  <2>1. UNCHANGED <<mounted, flash, identity, pc, cfg>> /\ ~SavesKey
    BY <1>14 DEF CommitLoop, Serves, At, SavesKey, Memory
  <2>2. Turns("loop", [step |-> "copy", path |-> "config", content |-> cfg])
    BY <1>2, <1>14, SetTask DEF CommitLoop, Task
  <2>3. io'["ble"] = io["ble"] /\ io'["loop"].step = "copy" /\ io'["loop"].path = "config"
        /\ io'["loop"].content = cfg
    BY <2>2 DEF Turns, Task
  <2> QED
    BY <1>1, <1>4, <1>5, <2>1, <2>3
       DEF NameInMemory, NameSaved, KeySaved, KeyInUse, SavesKey, SavesConfig, HasKeyName, Task
<1>15. CASE CopyRest
  <2>1. UNCHANGED <<mounted, flash, identity, pc, cfg>> /\ ~SavesKey
    BY <1>2, <1>15 DEF CopyRest, At, TasksOK, IoOK, SavesKey, Memory, Task
  <2>2. io["loop"].content \in Config
    BY <1>2, <1>15 DEF CopyRest, At, TasksOK, IoOK, Task
  <2>3. io'["ble"] = io["ble"] /\ io'["loop"].step = "compare" /\ io'["loop"].path = "config"
    BY <1>2, <1>15 DEF CopyRest, At, TasksOK, IoOK, Task
  <2>4. io'["loop"].content.name = cfg.name
    <3>1. io'["loop"].content = [io["loop"].content EXCEPT !.name = cfg.name]
      BY <1>2, <1>15 DEF CopyRest, TasksOK, IoOK, Task
    <3> QED
      BY <2>2, <3>1 DEF Config
  <2>5. HasKeyName(io'["loop"].content) => HasKeyName(cfg)
    BY <1>2, <2>4 DEF HasKeyName, MemoryOK
  <2> QED
    BY <1>1, <1>4, <1>5, <2>1, <2>3, <2>4, <2>5
       DEF NameInMemory, NameSaved, KeySaved, KeyInUse, SavesKey, SavesConfig, HasKeyName, Task
<1>16. CASE PowerLoss
  <2>1. /\ mounted' = FALSE /\ ~HasKeyName(cfg')
        /\ \A t \in Task : io'[t].step = "idle"
    BY <1>16, IdleOK DEF PowerLoss, HasKeyName, DefaultConfig
  <2> QED
    BY <1>5, <2>1 DEF NameInMemory, NameSaved, KeySaved, KeyInUse, SavesKey, SavesConfig,
                      HasKeyName, Task
<1>17. ASSUME NEW t \in Task, Saving(t)
       PROVE  (NameInMemory /\ NameSaved /\ KeySaved /\ KeyInUse)'
  <2>1. UNCHANGED <<mounted, cfg, identity, pc>>
    BY <1>17 DEF Saving, Compare, Remove, Open, Write, Memory
  <2>2. NameInMemory'
    <3> SUFFICES ASSUME HasKeyName(cfg)
                 PROVE  IF mounted THEN HeldKey(flash)' = cfg.name
                        ELSE cfg.name = identity /\ pc \in {"startBle", "serving"}
      BY <2>1 DEF NameInMemory, HasKeyName
    <3> QED
      BY <1>1, <1>3 DEF NameInMemory, HasKeyName
  <2>3. CASE SavesConfig(t)
    <3>1. HeldKey(flash)' = HeldKey(flash)
      <4>1. flash'.identity = flash.identity
        BY <1>2, <1>17, <2>3
           DEF Saving, Compare, Remove, Open, Write, Appended, FlashOK, SavesConfig
      <4> QED
        BY <4>1, LoadableAfter
    <3>2. /\ io'[t].step # "idle" => /\ io'[t].path = "config" /\ mounted
                                     /\ io'[t].content = io[t].content
          /\ \A u \in Task \ {t} : io'[u] = io[u]
      <4>1. ASSUME NEW s \in {"remove", "open", "write"}, Continue(t, s)
            PROVE  /\ io'[t].path = "config" /\ io'[t].content = io[t].content
                   /\ \A u \in Task \ {t} : io'[u] = io[u]
        <5>1. Turns(t, [step |-> s, path |-> io[t].path, content |-> io[t].content])
          BY <1>2, <4>1, ContinueTask
        <5> QED
          BY <2>3, <5>1 DEF Turns, SavesConfig
      <4>2. ASSUME Finish(t)
            PROVE  /\ io'[t].step = "idle"
                   /\ \A u \in Task \ {t} : io'[u] = io[u]
        BY <1>2, <4>2, FinishTask, IdleOK DEF Turns
      <4>3. Finish(t) \/ (mounted /\ \E s \in {"remove", "open", "write"} : Continue(t, s))
        BY <1>1, <1>17, <2>3 DEF Saving, Compare, Remove, Open, Write, At, NameSaved
      <4> QED
        BY <4>1, <4>2, <4>3
    <3>3. SavesKey' <=> SavesKey
      BY <2>3, <3>2 DEF SavesKey, SavesConfig, Task
    <3>4. SavesKey => flash'.identity = flash.identity /\ io'["loop"] = io["loop"]
      BY <1>2, <1>17, <2>3, <3>2 DEF Saving, Compare, Remove, Open, Write, Appended, FlashOK,
                                     SavesConfig, SavesKey, Task
    <3>5. NameSaved'
      <4>1. ASSUME NEW u \in Task, SavesConfig(u)'
            PROVE  /\ io'[u].step \in {"remove", "open", "write"} => mounted
                   /\ mounted /\ HasKeyName(io'[u].content) =>
                        HeldKey(flash) = io'[u].content.name
        BY <1>1, <2>3, <3>2, <4>1 DEF NameSaved, SavesConfig
      <4> QED
        BY <2>1, <3>1, <4>1 DEF NameSaved, HasKeyName
    <3>6. KeySaved' /\ KeyInUse'
      BY <1>1, <2>1, <3>1, <3>3, <3>4 DEF KeySaved, KeyInUse
    <3> QED
      BY <2>2, <3>5, <3>6
  <2>4. CASE ~SavesConfig(t)
    <3>1. /\ t = "loop" /\ pc = "stampName" /\ io["ble"].step = "idle"
          /\ SavesKey /\ io["loop"].step \in {"remove", "open", "write"}
          /\ io["loop"].content \in Key
      BY <1>2, <1>17, <2>4 DEF Saving, Compare, Remove, Open, Write, At, TasksOK, IoOK,
                               SavesConfig, SavesKey, Path
    <3>2. /\ mounted /\ HeldKey(flash) = NoKey /\ io["loop"].content = identity
          /\ io["loop"].step = "open" => flash.identity = NoFile
          /\ io["loop"].step = "write" => flash.identity = << >>
      BY <1>1, <3>1 DEF KeySaved
    <3>3. ASSUME NEW s \in {"remove", "open", "write"}, Continue("loop", s)
          PROVE  /\ io'["loop"].step = s /\ io'["loop"].path = "identity"
                 /\ io'["loop"].content = identity /\ io'["ble"].step = "idle"
      <4>1. Turns("loop", [step |-> s, path |-> io["loop"].path, content |-> io["loop"].content])
        BY <1>2, <3>3, ContinueTask DEF Task
      <4> QED
        BY <3>1, <3>2, <4>1 DEF Turns, SavesKey, Task
    <3>4. Finish("loop") => io'["loop"].step = "idle" /\ io'["ble"].step = "idle"
      BY <1>2, <3>1, FinishTask, IdleOK DEF Turns, Task
    <3>5. /\ HeldKey(flash) = KeyIn(flash.identity)
          /\ HeldKey(flash)' = KeyIn(flash'.identity)
      BY LoadableAfter
    <3>6. CASE Remove("loop")
      <4>1. flash'.identity = NoFile
        BY <1>2, <3>1, <3>6 DEF Remove, Ignored, FlashOK, SavesKey
      <4>2. HeldKey(flash)' = NoKey
        BY <3>5, <4>1 DEF KeyIn
      <4> QED
        BY <2>1, <2>2, <3>2, <3>3, <3>6, <4>1, <4>2
           DEF Remove, NameSaved, KeySaved, KeyInUse, SavesKey, SavesConfig, Task
    <3>7. CASE Open("loop")
      <4>1. Continue("loop", "write")
        BY <3>1, <3>7 DEF Open, SavesKey
      <4>2. flash'.identity = << >>
        BY <1>2, <3>1, <3>2, <3>7 DEF Open, At, FlashOK, SavesKey
      <4>3. HeldKey(flash)' = NoKey
        BY <3>5, <4>2 DEF KeyIn
      <4> QED
        BY <2>1, <2>2, <3>2, <3>3, <4>1, <4>2, <4>3
           DEF NameSaved, KeySaved, KeyInUse, SavesKey, SavesConfig, Task
    <3>8. CASE Write("loop")
      <4>1. flash' = Appended("identity", identity) /\ Finish("loop")
        BY <3>1, <3>2, <3>8 DEF Write, Ignored, SavesKey
      <4>2. flash.identity = << >>
        BY <3>2, <3>8 DEF Write, At
      <4>3. HeldKey(flash)' = identity
        BY <3>1, <3>2, <4>1, <4>2, KeyWritten
      <4> QED
        BY <2>1, <2>2, <3>4, <4>1, <4>3
           DEF NameSaved, KeySaved, KeyInUse, SavesKey, SavesConfig, Task
    <3> QED
      BY <1>17, <3>1, <3>6, <3>7, <3>8 DEF Saving, Compare, At
  <2> QED
    BY <2>3, <2>4
<1> QED
  BY <1>5, <1>6, <1>7, <1>8, <1>9, <1>10, <1>11, <1>12, <1>13, <1>14, <1>15, <1>16, <1>17 DEF Next

LEMMA NamesHold == Spec => []NameInv
<1>1. Init => NameInv
  <2> SUFFICES ASSUME Init
               PROVE  NameInv
    OBVIOUS
  <2>1. flash.config \in {NoFile, <<OldVersion>>}
    BY DEF Init
  <2>2. Loadable(flash) = NoConfig
    BY <2>1 DEF Loadable, Content, NoConfig
  <2> QED
    BY <2>2, IdleOK, NoConfigIsNone
       DEF Init, NameInv, NameOnFlash, NameInMemory, NameSaved, KeySaved, KeyInUse, OneKey,
           HasKeyName, SavesKey, SavesConfig, DefaultConfig, Task
<1> QED
  BY <1>1, TypesHold, NameStep, PTL DEF Spec

\* An automatic name is that of the identity in use (main.cpp:163-197), however
\* often the power goes, unless a key could not be written, replaced or read.
THEOREM NamesAreOwn == Spec => []NameIsOwn
<1>1. TypeInv /\ NameInv => NameIsOwn
  BY DEF TypeInv, MemoryOK, TasksOK, IoOK, NameInv, NameInMemory, KeyInUse, HasKeyName, SavesKey,
         NameIsOwn, Task
<1> QED
  BY <1>1, TypesHold, NamesHold, PTL

\* A key on the flash stays as it is ("the priv only gets written ONCE per
\* device lifetime", main.cpp:66-67), unless it could not be written, replaced or
\* read.
THEOREM KeysStay == Spec => KeyWrittenOnce
<1>1. TypeInv /\ TypeInv' /\ NameInv /\ [Next]_vars =>
        [HeldKey(flash) # NoKey /\ ~lapse => flash'.identity = flash.identity]_vars
  BY FilesStep DEF NameInv, KeySaved
<1> QED
  BY <1>1, TypesHold, NamesHold, PTL DEF Spec, KeyWrittenOnce

-----------------------------------------------------------------------------
(* What was saved *)

\* The tasks write one after the other.
OneWrites == ~(io["loop"].step \in Writing /\ io["ble"].step \in Writing)

\* What was reported saved is what a boot would load.
StoredIsHeld == stored # NoConfig => Loadable(flash) = stored

\* A save that is about to touch the file has something else to write than the
\* file holds, or could not read it; one that has touched it has taken back
\* what was reported, and writes to an empty file.
SaveFrom(t) ==
  io[t].path = "config" =>
    /\ io[t].step = "remove" => io[t].content # Loadable(flash) \/ t \in unread
    /\ io[t].step \in {"open", "write"} => stored = NoConfig
    /\ io[t].step = "open" => flash.config = NoFile
    /\ io[t].step = "write" => flash.config = << >>

SavesRight == StoredIsHeld /\ \A t \in Task : SaveFrom(t)

SavedInv == ~overlapped => OneWrites /\ (~ignored => SavesRight)

\* What a step of a save leaves of the tasks.
LEMMA SavingTurns ==
  ASSUME TasksOK, NEW t \in Task, Saving(t)
  PROVE  /\ io[t].step # "idle"
         /\ \A u \in Task \ {t} : io'[u] = io[u]
         /\ \/ io'[t].step = "idle"
            \/ /\ io'[t].step \in Writing
               /\ io'[t].path = io[t].path /\ io'[t].content = io[t].content
<1>1. io[t].step # "idle"
  BY DEF Saving, Compare, Remove, Open, Write, At
<1>2. ASSUME NEW s \in Writing, Continue(t, s)
      PROVE  /\ \A u \in Task \ {t} : io'[u] = io[u]
             /\ io'[t].step = s /\ io'[t].path = io[t].path /\ io'[t].content = io[t].content
  <2>1. Turns(t, [step |-> s, path |-> io[t].path, content |-> io[t].content])
    BY <1>2, ContinueTask
  <2> QED
    BY <2>1 DEF Turns
<1>3. ASSUME Finish(t)
      PROVE  io'[t].step = "idle" /\ \A u \in Task \ {t} : io'[u] = io[u]
  BY <1>3, FinishTask, IdleOK DEF Turns
<1>4. Finish(t) \/ \E s \in Writing : Continue(t, s)
  BY DEF Saving, Compare, Remove, Open, Write, Writing
<1> QED
  BY <1>1, <1>2, <1>3, <1>4

\* Who writes after a step wrote before it, or has just compared.
LEMMA WritesNext ==
  ASSUME TypeInv, [Next]_vars, NEW t \in Task, io'[t].step \in Writing
  PROVE  io[t].step \in Writing \/ Compare(t) \/ (LoadIdentity /\ t = "loop")
<1>1. TasksOK
  BY DEF TypeInv
<1>2. ASSUME NEW u \in Task, Saving(u)
      PROVE  io[t].step \in Writing \/ Compare(t)
  <2>1. CASE u = t
    BY <1>2, <2>1 DEF Saving, Remove, Open, Write, At, Writing
  <2>2. CASE u # t
    BY <1>1, <1>2, <2>2, SavingTurns
  <2> QED
    BY <2>1, <2>2
<1>3. CASE LoadIdentity
  BY <1>1, <1>3 DEF LoadIdentity, DrawAndSave, TasksOK, Task
<1>4. CASE PowerLoss
  BY <1>4, IdleOK DEF PowerLoss, Writing
<1>5. CASE CopyRest
  BY <1>1, <1>5 DEF CopyRest, TasksOK, IoOK, Task, Writing
<1>6. CASE CommitBle \/ CommitLoop \/ StampName
  <2>1. PICK u \in Task, s \in {"copy", "compare"} :
          \E c : io' = io \/ io' = [io EXCEPT ![u] = [step |-> s, path |-> "config", content |-> c]]
    BY <1>6 DEF CommitBle, CommitLoop, StampName, Task
  <2>2. CASE io' = io
    BY <2>2
  <2>3. ASSUME NEW c, io' = [io EXCEPT ![u] = [step |-> s, path |-> "config", content |-> c]]
        PROVE  io[t].step \in Writing
    <3>1. Turns(u, [step |-> s, path |-> "config", content |-> c])
      BY <1>1, <2>3, SetTask
    <3> QED
      BY <3>1 DEF Turns, Writing
  <2> QED
    BY <2>1, <2>2, <2>3
<1>7. CASE PowerOn \/ LoadConfig \/ StartBle \/ (\E u \in Task : SetField(u)) \/ UNCHANGED vars
  BY <1>7 DEF PowerOn, LoadConfig, StartBle, SetField, vars
<1> QED
  BY <1>2, <1>3, <1>4, <1>5, <1>6, <1>7 DEF Next

\* The marks of an overlap and of an ignored failure stay; only a removal of
\* the file takes the second one away.
LEMMA OverlapStays ==
  [Next]_vars => /\ overlapped => overlapped'
                 /\ \/ ignored => ignored'
                    \/ \E t \in Task : Remove(t) /\ io[t].path = "config"
<1> SUFFICES ASSUME [Next]_vars
             PROVE  /\ overlapped => overlapped'
                    /\ \/ ignored => ignored'
                       \/ \E t \in Task : Remove(t) /\ io[t].path = "config"
  OBVIOUS
<1>1. ASSUME NEW t \in Task, Saving(t)
      PROVE  /\ overlapped => overlapped'
             /\ (ignored => ignored') \/ (Remove(t) /\ io[t].path = "config")
  <2>1. CASE Compare(t)
    <3>1. CASE UNCHANGED excuses
      BY <3>1 DEF excuses
    <3>2. ASSUME overlapped' = (overlapped \/ \E u \in Task \ {t} : io[u].step \in Writing),
                 ignored' = ignored
          PROVE  (overlapped => overlapped') /\ (ignored => ignored')
      BY <3>2
    <3> QED
      BY <2>1, <3>1, <3>2 DEF Compare
  <2>2. CASE Remove(t)
    BY <2>2 DEF Remove, Ignored
  <2>3. CASE Open(t)
    BY <2>3 DEF Open
  <2>4. CASE Write(t)
    <3>1. overlapped' = overlapped
      BY <2>4 DEF Write
    <3>2. ignored' = ignored \/ Ignored(io[t].path)
      BY <2>4 DEF Write
    <3>3. ignored => ignored'
      BY <3>2 DEF Ignored
    <3> QED
      BY <3>1, <3>3
  <2> QED
    BY <1>1, <2>1, <2>2, <2>3, <2>4 DEF Saving
<1>2. CASE ~\E t \in Task : Saving(t)
  BY <1>2 DEF Next, vars, excuses, PowerOn, LoadConfig, LoadIdentity, StampName, StartBle,
              SetField, CommitBle, CommitLoop, CopyRest, PowerLoss
<1> QED
  BY <1>1, <1>2

LEMMA OneWritesStep == TypeInv /\ OneWrites /\ [Next]_vars /\ ~overlapped' => OneWrites'
<1> SUFFICES ASSUME TypeInv, OneWrites, [Next]_vars, ~overlapped',
                    \A t \in Task : io'[t].step \in Writing
             PROVE  FALSE
  BY DEF OneWrites, Task
<1>1. TasksOK
  BY DEF TypeInv
<1>2. ASSUME NEW t \in Task, Compare(t)
      PROVE  FALSE
  <2>1. PICK u \in Task \ {t} : TRUE
    BY DEF Task
  <2>2. io[u].step \in Writing
    BY <1>1, <1>2, <2>1, SavingTurns DEF Saving
  <2>3. Finish(t) => io'[t].step = "idle"
    BY <1>1, FinishTask, IdleOK DEF Turns
  <2>4. ~Finish(t)
    BY <2>3 DEF Writing
  <2> QED
    BY <1>2, <2>1, <2>2, <2>4 DEF Compare
<1>3. CASE LoadIdentity
  <2>1. io["ble"].step = "idle"
    BY <1>1, <1>3 DEF LoadIdentity, InSetup, TasksOK
  <2> QED
    BY <1>2, <2>1, WritesNext DEF Task, Writing
<1>4. CASE ~LoadIdentity
  BY <1>2, <1>4, WritesNext DEF OneWrites, Task
<1> QED
  BY <1>3, <1>4

\* A step that leaves the file alone, and starts no save of it.
LEMMA SavedKept ==
  ASSUME SavesRight, flash'.config = flash.config, Loadable(flash)' = Loadable(flash),
         stored' = stored,
         \A t \in Task : io'[t].step \in Writing /\ io'[t].path = "config" =>
                           io'[t] = io[t] /\ (t \in unread => t \in unread')
  PROVE  SavesRight'
<1>1. StoredIsHeld'
  BY DEF StoredIsHeld, SavesRight, NoConfig
<1>2. ASSUME NEW t \in Task
      PROVE  SaveFrom(t)'
  BY DEF SaveFrom, SavesRight, Writing, NoConfig
<1> QED
  BY <1>1, <1>2 DEF SavesRight

\* A step that is none of a save.
LEMMA SavedAside ==
  ASSUME TypeInv, TypeInv', SavesRight, [Next]_vars, ~\E t \in Task : Saving(t)
  PROVE  SavesRight'
<1>1. MemoryOK /\ TasksOK /\ FlashOK
  BY DEF TypeInv
<1>2. Loadable(flash) = ConfigIn(flash.config) /\ Loadable(flash)' = ConfigIn(flash'.config)
  BY LoadableAfter
<1>3. ASSUME flash' = flash, stored' = stored, unread' = unread,
             \A t \in Task : io'[t].step \in Writing /\ io'[t].path = "config" => io'[t] = io[t]
      PROVE  SavesRight'
  BY <1>2, <1>3, SavedKept
<1>4. CASE PowerOn \/ LoadConfig \/ StartBle \/ (\E t \in Task : SetField(t)) \/ UNCHANGED vars
  <2>1. flash' = flash /\ stored' = stored /\ unread' = unread /\ io' = io
    BY <1>4 DEF PowerOn, LoadConfig, StartBle, SetField, vars
  <2> QED
    BY <1>3, <2>1
<1>5. CASE LoadIdentity
  <2>1. flash' = flash /\ stored' = stored /\ unread' = unread
    BY <1>5 DEF LoadIdentity
  <2>2. \/ io' = io
        \/ io' = [io EXCEPT !["loop"] = [step |-> "remove", path |-> "identity",
                                         content |-> identity']]
    BY <1>5 DEF LoadIdentity, DrawAndSave
  <2>3. io'["ble"] = io["ble"] /\ (io'["loop"] = io["loop"] \/ io'["loop"].path = "identity")
    BY <1>1, <2>2 DEF TasksOK, Task
  <2> QED
    BY <1>3, <2>1, <2>3 DEF Task
<1>6. CASE StampName \/ CommitBle \/ CommitLoop
  <2>1. flash' = flash /\ stored' = stored /\ unread' = unread
    BY <1>6 DEF StampName, CommitBle, CommitLoop
  <2>2. PICK u \in Task, s \in {"copy", "compare"} :
          \E c : io' = io \/ io' = [io EXCEPT ![u] = [step |-> s, path |-> "config", content |-> c]]
    BY <1>6 DEF CommitBle, CommitLoop, StampName, Task
  <2>3. \A t \in Task : io'[t] = io[t] \/ io'[t].step \notin Writing
    <3>1. ASSUME NEW c, io' = [io EXCEPT ![u] = [step |-> s, path |-> "config", content |-> c]]
          PROVE  \A t \in Task : io'[t] = io[t] \/ io'[t].step \notin Writing
      <4>1. Turns(u, [step |-> s, path |-> "config", content |-> c])
        BY <1>1, <3>1, SetTask
      <4> QED
        BY <4>1 DEF Turns, Writing
    <3> QED
      BY <2>2, <3>1
  <2> QED
    BY <1>3, <2>1, <2>3
<1>7. CASE CopyRest
  <2>1. flash' = flash /\ stored' = stored /\ unread' = unread
    BY <1>7 DEF CopyRest
  <2>2. io'["loop"].step = "compare" /\ io'["ble"] = io["ble"]
    BY <1>1, <1>7 DEF CopyRest, At, TasksOK, IoOK, Task
  <2> QED
    BY <1>3, <2>1, <2>2 DEF Task, Writing
<1>8. CASE PowerLoss
  <2>1. stored' = stored /\ \A t \in Task : io'[t].step = "idle"
    BY <1>8, IdleOK DEF PowerLoss
  <2>2. \A t \in Task : SaveFrom(t)'
    BY <2>1 DEF SaveFrom
  <2>3. ASSUME NEW t \in Task, io[t].step = "write",
               NEW c \in {Damaged, io[t].content}, flash' = Appended(io[t].path, c)
        PROVE  stored = NoConfig \/ Loadable(flash)' = Loadable(flash)
    <3>1. CASE io[t].path = "config"
      BY <2>3, <3>1 DEF SavesRight, SaveFrom
    <3>2. CASE io[t].path = "identity"
      <4>1. io[t].content \in Key
        BY <1>1, <2>3, <3>2 DEF TasksOK, IoOK
      <4> QED
        BY <2>3, <3>2, <4>1, KeyWritten
    <3> QED
      BY <1>1, <2>3, <3>1, <3>2 DEF TasksOK, IoOK, Path
  <2>4. StoredIsHeld'
    <3>1. CASE flash' = flash
      BY <1>2, <2>1, <3>1 DEF SavesRight, StoredIsHeld, NoConfig
    <3>2. CASE stored = NoConfig \/ Loadable(flash)' = Loadable(flash)
      BY <2>1, <3>2 DEF SavesRight, StoredIsHeld, NoConfig
    <3> QED
      BY <1>8, <2>3, <3>1, <3>2 DEF PowerLoss
  <2> QED
    BY <2>2, <2>4 DEF SavesRight
<1> QED
  BY <1>4, <1>5, <1>6, <1>7, <1>8 DEF Next

\* A save finds on the flash what it would write exactly if a boot would load it.
LEMMA SameIsLoadable ==
  ASSUME NEW t \in Task, io[t].content \in Config
  PROVE  SameContent(t) <=> Loadable(flash) = io[t].content
<1>1. Content(flash, "config") = io[t].content =>
        Content(flash, "config") \notin {Damaged, OldVersion}
  OBVIOUS
<1>2. NoConfig # io[t].content
  BY NoConfigIsNone
<1> QED
  BY <1>1, <1>2 DEF SameContent, Loadable

\* The configuration's file is removed: whatever failed before is mended.
LEMMA SavedAfresh ==
  ASSUME TypeInv, TypeInv', OneWrites, NEW t \in Task, Remove(t), io[t].path = "config",
         ~ignored'
  PROVE  SavesRight'
<1>1. TasksOK /\ FlashOK
  BY DEF TypeInv
<1>2. flash'.config = NoFile /\ stored' = NoConfig
  BY <1>1 DEF Remove, Ignored, FlashOK
<1>3. Loadable(flash)' = NoConfig
  BY <1>2, LoadableAfter DEF ConfigIn
<1>4. io'[t].step = "open" /\ \A u \in Task \ {t} : io'[u] = io[u]
  <2>1. Turns(t, [step |-> "open", path |-> io[t].path, content |-> io[t].content])
    BY <1>1, ContinueTask DEF Remove
  <2> QED
    BY <2>1 DEF Turns
<1>5. \A u \in Task \ {t} : io[u].step \notin Writing
  BY DEF OneWrites, Remove, At, Task, Writing
<1> QED
  BY <1>2, <1>3, <1>4, <1>5 DEF SavesRight, StoredIsHeld, SaveFrom, NoConfig, Writing

\* A step of a save, with no failure ignored.
LEMMA SavedOn ==
  ASSUME TypeInv, TypeInv', OneWrites, SavesRight, NEW t \in Task, Saving(t),
         ~overlapped', ~ignored'
  PROVE  SavesRight'
<1>1. TasksOK /\ FlashOK
  BY DEF TypeInv
<1>2. StoredIsHeld /\ SaveFrom(t) /\ \A u \in Task : SaveFrom(u)
  BY DEF SavesRight
<1>3. Loadable(flash) = ConfigIn(flash.config) /\ Loadable(flash)' = ConfigIn(flash'.config)
  BY LoadableAfter
<1>4. /\ \A u \in Task \ {t} : io'[u] = io[u]
      /\ \/ io'[t].step = "idle"
         \/ /\ io'[t].step \in Writing
            /\ io'[t].path = io[t].path /\ io'[t].content = io[t].content
  BY <1>1, SavingTurns
<1>5. CASE Compare(t)
  <2>1. io[t].path = "config" /\ io[t].content \in Config
    BY <1>1, <1>5 DEF Compare, At, TasksOK, IoOK
  <2>2. SameContent(t) <=> Loadable(flash) = io[t].content
    BY <2>1, SameIsLoadable
  <2>3. flash' = flash /\ Loadable(flash)' = Loadable(flash)
    BY <1>3, <1>5 DEF Compare
  <2>4. StoredIsHeld'
    BY <1>2, <1>5, <2>2, <2>3 DEF Compare, StoredIsHeld, NoConfig
  <2>5. SaveFrom(t)'
    <3>1. CASE Continue(t, "remove") /\ (~SameContent(t) \/ t \in unread')
      <4>1. Turns(t, [step |-> "remove", path |-> io[t].path, content |-> io[t].content])
        BY <1>1, <3>1, ContinueTask
      <4>2. io'[t].step = "remove" /\ io'[t].content = io[t].content
        BY <4>1 DEF Turns
      <4> QED
        BY <2>2, <2>3, <3>1, <4>2 DEF SaveFrom
    <3>2. CASE Finish(t)
      <4>1. io'[t].step = "idle"
        BY <1>1, <3>2, FinishTask, IdleOK DEF Turns
      <4> QED
        BY <4>1 DEF SaveFrom
    <3> QED
      BY <1>5, <3>1, <3>2 DEF Compare
  <2>6. ASSUME NEW u \in Task \ {t}
        PROVE  SaveFrom(u)'
    <3>1. u \in unread => u \in unread'
      BY <1>5 DEF Compare, Finish
    <3>2. stored' = stored \/ (stored' = io[t].content /\ Loadable(flash) = io[t].content)
      BY <1>5, <2>2 DEF Compare
    <3>3. SaveFrom(u) /\ io'[u] = io[u]
      BY <1>2, <1>4
    <3>4. CASE io[u].step \in {"open", "write"} /\ io[u].path = "config"
      <4>1. flash.config \in {NoFile, << >>}
        BY <3>3, <3>4 DEF SaveFrom
      <4>2. Loadable(flash) = NoConfig
        BY <1>3, <4>1 DEF ConfigIn
      <4>3. stored' = stored
        BY <2>1, <3>2, <4>2, NoConfigIsNone
      <4> QED
        BY <2>3, <3>3, <3>4, <4>3 DEF SaveFrom, NoConfig
    <3>5. CASE ~(io[u].step \in {"open", "write"} /\ io[u].path = "config")
      BY <2>3, <3>1, <3>3, <3>5 DEF SaveFrom
    <3> QED
      BY <3>4, <3>5
  <2> QED
    BY <2>4, <2>5, <2>6 DEF SavesRight
<1>6. CASE ~Compare(t)
  <2>1. io[t].step \in Writing
    BY <1>6 DEF Saving, Remove, Open, Write, At, Writing
  <2>2. \A u \in Task \ {t} : SaveFrom(u)'
    BY <1>4, <2>1 DEF OneWrites, SaveFrom, Task, Writing
  <2>3. CASE io[t].path = "identity"
    <3>1. flash'.config = flash.config
      BY <1>1, <1>6, <2>3 DEF Saving, Remove, Open, Write, Appended, FlashOK
    <3>2. stored' = stored
      BY <1>6, <2>3 DEF Saving, Remove, Open, Write, Reported
    <3>3. SaveFrom(t)'
      BY <1>4, <2>3 DEF SaveFrom
    <3>4. StoredIsHeld'
      BY <1>2, <1>3, <3>1, <3>2 DEF StoredIsHeld, NoConfig
    <3> QED
      BY <2>2, <3>3, <3>4 DEF SavesRight
  <2>4. CASE Remove(t) /\ io[t].path = "config"
    BY <2>4, SavedAfresh
  <2>5. CASE Open(t) /\ io[t].path = "config"
    <3>1. stored = NoConfig /\ stored' = stored /\ flash.config = NoFile
      BY <1>2, <2>5 DEF Open, At, SaveFrom
    <3>2. CASE flash' = [flash EXCEPT !["config"] = << >>] /\ Continue(t, "write")
      <4>1. flash'.config = << >>
        BY <1>1, <3>2 DEF FlashOK
      <4>2. Turns(t, [step |-> "write", path |-> io[t].path, content |-> io[t].content])
        BY <1>1, <3>2, ContinueTask
      <4>3. io'[t].step = "write"
        BY <4>2 DEF Turns
      <4> QED
        BY <2>2, <3>1, <4>1, <4>3 DEF SavesRight, StoredIsHeld, SaveFrom, NoConfig
    <3>3. CASE Finish(t)
      <4>1. io'[t].step = "idle"
        BY <1>1, <3>3, FinishTask, IdleOK DEF Turns
      <4> QED
        BY <2>2, <3>1, <4>1 DEF SavesRight, StoredIsHeld, SaveFrom, NoConfig
    <3> QED
      BY <1>1, <2>5, <3>1, <3>2, <3>3 DEF Open, FlashOK
  <2>6. CASE Write(t) /\ io[t].path = "config"
    <3>1. stored = NoConfig /\ flash.config = << >> /\ io[t].content \in Config
      BY <1>1, <1>2, <2>6 DEF Write, At, SaveFrom, TasksOK, IoOK
    <3>2. \/ stored' = NoConfig
          \/ stored' = io[t].content /\ flash' = Appended("config", io[t].content)
      BY <2>6, <3>1 DEF Write, Reported, Ignored
    <3>3. io[t].content # Damaged
      BY <3>1
    <3>4. StoredIsHeld'
      BY <3>1, <3>2, <3>3, ConfigWritten DEF StoredIsHeld, NoConfig
    <3>5. io'[t].step = "idle"
      BY <1>1, <2>6, FinishTask, IdleOK DEF Write, Turns
    <3> QED
      BY <2>2, <3>4, <3>5 DEF SavesRight, SaveFrom
  <2> QED
    BY <1>1, <1>6, <2>1, <2>3, <2>4, <2>5, <2>6 DEF Saving, TasksOK, IoOK, Path, Writing
<1> QED
  BY <1>5, <1>6

LEMMA SavedStep == TypeInv /\ TypeInv' /\ SavedInv /\ [Next]_vars => SavedInv'
<1> SUFFICES ASSUME TypeInv, TypeInv', SavedInv, [Next]_vars, ~overlapped'
             PROVE  OneWrites' /\ (~ignored' => SavesRight')
  BY DEF SavedInv
<1>1. OneWrites /\ (~ignored => SavesRight)
  BY OverlapStays DEF SavedInv
<1>2. OneWrites'
  BY <1>1, OneWritesStep
<1>3. ASSUME ignored, ~ignored'
      PROVE  SavesRight'
  BY <1>1, <1>3, OverlapStays, SavedAfresh
<1>4. ASSUME ~ignored, ~ignored'
      PROVE  SavesRight'
  BY <1>1, <1>4, SavedOn, SavedAside
<1> QED
  BY <1>2, <1>3, <1>4

LEMMA SavesHold == Spec => []SavedInv
<1>1. Init => SavedInv
  BY IdleOK DEF Init, SavedInv, OneWrites, SavesRight, StoredIsHeld, SaveFrom, Task, Writing
<1> QED
  BY <1>1, TypesHold, SavedStep, PTL DEF Spec

LEMMA FaultsCounted == Spec => [](faults \in Nat)
<1>1. Init => faults \in Nat
  BY DEF Init
<1>2. faults \in Nat /\ [Next]_vars => (faults \in Nat)'
  <2>1. Mishap /\ faults \in Nat => faults' \in Nat
    BY DEF Mishap
  <2>2. ASSUME faults \in Nat, NEW t \in Task, Saving(t)
        PROVE  faults' \in Nat
    BY <2>1, <2>2 DEF Saving, Compare, Remove, Open, Write
  <2>3. ASSUME faults \in Nat, [Next]_vars, ~\E t \in Task : Saving(t)
        PROVE  faults' \in Nat
    BY <2>1, <2>3 DEF Next, vars, PowerOn, LoadConfig, LoadIdentity, DrawAndSave, StampName,
                      StartBle, SetField, CommitBle, CommitLoop, CopyRest, PowerLoss
  <2> QED
    BY <2>2, <2>3
<1> QED
  BY <1>1, <1>2, PTL DEF Spec

\* What was reported saved is what the node comes up with, whatever cut the
\* power, until another save starts to write (ConfigStore.cpp:34-73,
\* Storage.cpp:34-45), unless the two tasks saved in the middle of one another
\* or save_file ignored a failure that no later save has mended.
THEOREM SavedComesUp == Spec => ComesUpAsSaved
<1>1. TypeInv /\ SavedInv /\ faults \in Nat /\ [Next]_vars =>
        [pc = "loadConfig" /\ pc' = "loadIdentity" /\ mounted /\ faults' = faults
           /\ stored # NoConfig /\ ~overlapped /\ ~ignored
         => cfg' = stored]_vars
  <2> SUFFICES ASSUME SavedInv, faults \in Nat, [Next]_vars,
                      pc = "loadConfig", pc' = "loadIdentity", mounted, faults' = faults,
                      stored # NoConfig, ~overlapped, ~ignored
               PROVE  cfg' = stored
    OBVIOUS
  <2>1. LoadConfig
    <3>1. ASSUME NEW t \in Task, Saving(t)
          PROVE  pc' = pc
      BY <3>1 DEF Saving, Compare, Remove, Open, Write, Memory
    <3>2. ASSUME NEW t \in Task, SetField(t)
          PROVE  pc' = pc
      BY <3>2 DEF SetField
    <3> QED
      BY <3>1, <3>2 DEF Next, vars, PowerOn, LoadIdentity, StampName, StartBle, InSetup,
                        CommitBle, CommitLoop, CopyRest, PowerLoss, Memory
  <2>2. Loadable(flash) = stored
    BY DEF SavedInv, SavesRight, StoredIsHeld
  <2>3. ~Mishap
    BY DEF Mishap
  <2> QED
    BY <2>1, <2>2, <2>3 DEF LoadConfig
<1> QED
  BY <1>1, TypesHold, SavesHold, FaultsCounted, PTL DEF Spec, ComesUpAsSaved

\* The file is erased only to hold something else than what was reported saved
\* ("skips the flash op if the new bytes match", ConfigStore.h:27-28), or
\* because it could not be read to tell.
THEOREM NoErasureForNothing == Spec => NoNeedlessErase
<1>1. TypeInv /\ SavedInv /\ [Next]_vars =>
        [flash'.config # flash.config /\ stored # NoConfig /\ ~overlapped /\ ~ignored
         => \E t \in Task : io[t].step = "remove" /\ (io[t].content # stored \/ t \in unread)]_vars
  <2> SUFFICES ASSUME TypeInv, SavedInv, [Next]_vars, flash'.config # flash.config,
                      stored # NoConfig, ~overlapped, ~ignored
               PROVE  \E t \in Task : io[t].step = "remove" /\ (io[t].content # stored \/ t \in unread)
    OBVIOUS
  <2>1. TasksOK /\ FlashOK /\ StoredIsHeld /\ \A t \in Task : SaveFrom(t)
    BY DEF TypeInv, SavedInv, SavesRight
  <2>2. ASSUME NEW t \in Task, Remove(t) \/ Open(t) \/ \E c : flash' = Appended(io[t].path, c)
        PROVE  io[t].path # "identity"
    BY <2>1, <2>2 DEF Remove, Open, Appended, FlashOK
  <2>3. ASSUME NEW t \in Task, Remove(t)
        PROVE  io[t].step = "remove" /\ (io[t].content # stored \/ t \in unread)
    BY <2>1, <2>2, <2>3 DEF Remove, At, SaveFrom, StoredIsHeld, TasksOK, IoOK, Path
  <2>4. ASSUME NEW t \in Task, io[t].step \in {"open", "write"}
        PROVE  io[t].path = "identity"
    BY <2>1, <2>4 DEF SaveFrom, TasksOK, IoOK, Path
  <2> QED
    BY <2>2, <2>3, <2>4, FlashMoves DEF Open, At
<1> QED
  BY <1>1, TypesHold, SavesHold, PTL DEF Spec, NoNeedlessErase
=============================================================================
