--------------------------- MODULE NvServer_proofs ---------------------------
(***************************************************************************)
(* NvServer: the daemon implements the atomic store NvStore, and clean     *)
(* buffers are on disk, for any partition size and any sector contents.    *)
(* The invariants of the two layers are taken from their own proofs; what  *)
(* is new here is how the layers meet.                                     *)
(***************************************************************************)
EXTENDS NvServer, NvBuf_proofs

Files == INSTANCE NvDisk_proofs WITH Values <- Snapshots, pc <- fsPc, buf <- fsBuf

\* No thread of the daemon is at work: the state before and between its lives.
Quiet == /\ mutex = "none"
         /\ pc = [t \in Threads |-> IF t = "main" THEN "run" ELSE "start"]
         /\ id = [t \in Threads |-> 0]
         /\ k = [t \in Threads |-> 0]
         /\ is_cali_mode \in BOOLEAN
         /\ window = {}

\* ramDisk_Write runs for the thread that waits for it, on the snapshot in toDisk.
SaverInv ==
  /\ ~Running => Quiet
  /\ \A p \in Parts : committed[p] = Snapshots
  /\ fsPc \in {"open", "head", "data", "sync", "written"} =>
       fsBuf = toDisk[0].data /\ \E t \in Threads : pc[t] = "write"

\* The requests are applied to live; a save writes what it once was.
LiveInv ==
  /\ live \in Snapshots
  /\ durable \in SUBSET Snapshots
  /\ Running => live \in durable
  /\ (Running /\ pc["main"] # "bkCopy") => backup[0].data = live
  /\ (\E t \in Threads : pc[t] = "write") => toDisk[0].data \in durable

\* Whatever a start-up can read, or has read, is in durable.
DurableInv ==
  /\ \A c \in Disk!Copies : Disk!Intact(image[c]) => image[c].val \in durable
  /\ \A c \in Disk!Copies : Disk!Intact(stable[c]) => stable[c].val \in durable
  /\ \A c \in Disk!Copies \ unsynced : stable[c] = image[c]
  /\ fsPc \in {"fixOpen", "fixWrite", "fixSync", "served"} => fsBuf \in durable

\* A save is made because something is dirty.
DirtyInv ==
  \A t \in Threads :
    /\ pc[t] \in {"getLock", "getCopy"} => backup[0].dirty # {}
    /\ pc[t] = "write" => toDisk[0].dirty # {}

\* A clean toDisk is on disk.
OnDiskInv ==
  (fsPc = "idle" /\ silent = {} /\ toDisk[0].dirty = {} /\ Files!SomeIntact)
     => \E c \in Disk!Copies : image[c] = Disk!FileOf(stored[0])

ServerInv == /\ IInv
             /\ Files!IInv
             /\ SaverInv
             /\ LiveInv
             /\ DurableInv
             /\ DirtyInv
             /\ OnDiskInv

-----------------------------------------------------------------------------
(* Proofs                                                                  *)

\* One partition; the contents ramDisk_Read makes up are snapshots.
LEMMA ServerFacts ==
  /\ Parts = {0}
  /\ Blank \in Snapshots
  /\ Junk \in Snapshots
  /\ BlankPassesEcc \in BOOLEAN
  <1>1. Parts = {0}
    BY ServerAssumption DEF Parts
  <1>2. Blank \in Snapshots /\ Junk \in Snapshots
    BY ServerAssumption DEF Blank, Junk, Snapshots
  <1> QED
    BY <1>1, <1>2, ServerAssumption

\* The file layer of NvServer is the one its proofs are about.
LEMMA SameStep ==
  /\ Disk!CallStep <=> Files!CallStep
  /\ Disk!ReadReturn <=> Files!ReadReturn
  /\ Disk!WriteReturn <=> Files!WriteReturn
  /\ Disk!Kill <=> Files!Kill
  /\ Disk!PowerLoss <=> Files!PowerLoss
  /\ Disk!Init <=> Files!Init
  <1> USE DEF Disk!callVars, Files!callVars, Disk!Copies, Files!Copies, Disk!Other, Files!Other,
      Disk!Short, Files!Short, Disk!Torn, Files!Torn, Disk!Intact, Files!Intact,
      Disk!FileOf, Files!FileOf, Disk!WritingPcs, Files!WritingPcs, Disk!Bump, Files!Bump,
      Disk!AllSafe, Files!AllSafe, Disk!NoCall, Files!NoCall, Disk!NextFile, Files!NextFile,
      Disk!Survivors, Files!Survivors
  <1>1. Disk!CallStep <=> Files!CallStep
    BY DEF Disk!CallStep, Files!CallStep,
       Disk!ReadFirstGood, Files!ReadFirstGood, Disk!ReadFirstBad, Files!ReadFirstBad,
       Disk!ReadSecond, Files!ReadSecond, Disk!FixOpen, Files!FixOpen,
       Disk!FixOpenFails, Files!FixOpenFails, Disk!FixWrite, Files!FixWrite,
       Disk!FixSync, Files!FixSync, Disk!WriteOpen, Files!WriteOpen,
       Disk!WriteOpenFails, Files!WriteOpenFails, Disk!WriteHead, Files!WriteHead,
       Disk!WriteBody, Files!WriteBody, Disk!WriteSync, Files!WriteSync
  <1>2. Disk!ReadReturn <=> Files!ReadReturn
    BY DEF Disk!ReadReturn, Files!ReadReturn
  <1>3. Disk!WriteReturn <=> Files!WriteReturn
    BY DEF Disk!WriteReturn, Files!WriteReturn
  <1>4. Disk!Kill <=> Files!Kill
    BY DEF Disk!Kill, Files!Kill
  <1>5. Disk!PowerLoss <=> Files!PowerLoss
    BY DEF Disk!PowerLoss, Files!PowerLoss
  <1>6. Disk!Init <=> Files!Init
    BY DEF Disk!Init, Files!Init
  <1> QED
    BY <1>1, <1>2, <1>3, <1>4, <1>5, <1>6

\* The same for the two calls, which take an argument.
LEMMA SameCall ==
  /\ \A c : Disk!ReadBegin(c) <=> Files!ReadBegin(c)
  /\ \A v : Disk!WriteBegin(v) <=> Files!WriteBegin(v)
  BY DEF Disk!ReadBegin, Files!ReadBegin, Disk!WriteBegin, Files!WriteBegin,
     Disk!FirstNames, Files!FirstNames, Disk!Copies, Files!Copies

\* Every step of the daemon on the files keeps the invariant of the files.
LEMMA FilesKeep ==
  ASSUME Files!IInv,
         \/ \E c \in Disk!Copies : Disk!ReadBegin(c)
         \/ \E v \in Snapshots : Disk!WriteBegin(v)
         \/ Disk!CallStep \/ Disk!ReadReturn \/ Disk!WriteReturn \/ Disk!Kill \/ Disk!PowerLoss
         \/ UNCHANGED diskVars
  PROVE  Files!IInv'
  <1> USE ServerFacts
  <1>1. ASSUME NEW c \in Disk!Copies, Disk!ReadBegin(c) PROVE Files!IInv'
    BY <1>1, SameCall, Files!ReadBeginKeeps DEF Disk!Copies, Files!Copies
  <1>2. ASSUME NEW v \in Snapshots, Disk!WriteBegin(v) PROVE Files!IInv'
    BY <1>2, SameCall, Files!WriteBeginKeeps
  <1>3. CASE Disk!CallStep
    BY <1>3, SameStep, Files!ReadFirstGoodKeeps, Files!ReadFirstBadKeeps, Files!ReadSecondKeeps,
       Files!FixOpenKeeps, Files!FixOpenFailsKeeps, Files!FixWriteKeeps, Files!FixSyncKeeps,
       Files!WriteOpenKeeps, Files!WriteOpenFailsKeeps, Files!WriteHeadKeeps,
       Files!WriteBodyKeeps, Files!WriteSyncKeeps
       DEF Files!CallStep
  <1>4. CASE Disk!ReadReturn
    BY <1>4, SameStep, Files!ReadReturnKeeps
  <1>5. CASE Disk!WriteReturn
    BY <1>5, SameStep, Files!WriteReturnKeeps
  <1>6. CASE Disk!Kill
    BY <1>6, SameStep, Files!KillKeeps
  <1>7. CASE Disk!PowerLoss
    BY <1>7, SameStep, Files!PowerLossKeeps
  <1>8. CASE UNCHANGED diskVars
    BY <1>8 DEF diskVars, Files!IInv, Files!TypeOK, Files!NoFaultInv, Files!OneFaultInv,
       Files!ReadInv, Files!WriteInv, Files!Fresh, Files!SomeIntact,
       Files!ReadServesIntactCopy, Files!WriteReportsFailure
  <1> QED
    BY <1>1, <1>2, <1>3, <1>4, <1>5, <1>6, <1>7, <1>8

\* All buffers hold the same snapshot and no thread is at work.
BuffersAgree ==
  /\ Quiet
  /\ committed = [p \in Parts |-> Snapshots]
  /\ \E v \in Snapshots :
       /\ fromChannel = [p \in Parts |-> [data |-> v, dirty |-> {}]]
       /\ stored = [p \in Parts |-> v]
  /\ backup = fromChannel
  /\ toDisk = fromChannel

\* A daemon that has just loaded its buffers, or lost them, is in a good state.
LEMMA AgreeIsGood == BuffersAgree => IInv
  <1> SUFFICES ASSUME BuffersAgree PROVE IInv
      OBVIOUS
  <1>0. PICK v \in Snapshots : /\ fromChannel = [p \in Parts |-> [data |-> v, dirty |-> {}]]
                               /\ stored = [p \in Parts |-> v]
    BY DEF BuffersAgree
  <1> USE BufAssumption, <1>0 DEF BuffersAgree, Quiet
  <1>1. TypeOK
    BY DEF TypeOK, Buffers, MainPcs, SavePcs
  <1>2. LockInv /\ IdInv /\ CopyInv
    BY ServerFacts DEF LockInv, IdInv, CopyInv, HoldPcs, Threads, MainPcs, SavePcs
  <1>3. ChannelInv /\ BackupInv /\ StoredInv /\ CommitInv
    BY DEF ChannelInv, BackupInv, StoredInv, CommitInv, SavesAreCommitted
  <1> QED
    BY <1>1, <1>2, <1>3 DEF IInv

\* The same one step later.
LEMMA AgreeIsGoodNext == BuffersAgree' => IInv'
  BY AgreeIsGood, PTL

\* What main and pSaveTask do to the buffers outside ramDisk_Write.
BufferAct ==
  \/ Receive \/ MainCall \/ waiteEvent \/ SpuriousWakeup \/ Wakeup
  \/ \E t \in Threads : saveToDisk(t)

\* The invariant of the buffers survives every such step.
LEMMA BufferActKeeps == ASSUME IInv, BufferAct PROVE IInv'
  <1>1. CASE Receive
    BY <1>1, RequestKeeps, markDirtyInfoKeeps, writeDataKeeps, TailKeeps, CutKeeps DEF Receive
  <1>2. CASE MainCall
    BY <1>2, backupLockKeeps, backupCopyKeeps, backupDirtyKeeps, giveEventKeeps,
       restoreLockKeeps, restoreCopyKeeps, restoreDirtyKeeps DEF MainCall
  <1>3. CASE waiteEvent \/ SpuriousWakeup \/ Wakeup
    BY <1>3, waiteEventKeeps, SpuriousWakeupKeeps, WakeupKeeps
  <1>4. ASSUME NEW t \in Threads, saveToDisk(t) PROVE IInv'
    BY <1>4, ifHasDirtyKeeps, getDataLockKeeps, getDataCopyKeeps, getDataDirtyKeeps,
       saveToDiskDoneKeeps DEF saveToDisk
  <1> QED
    BY <1>1, <1>2, <1>3, <1>4 DEF BufferAct

\* What such a step does to the data between commit and save: while ramDisk_Write is
\* waited for nothing touches toDisk; backup changes only during main's copy; a save
\* starts from the whole committed snapshot.
Effect ==
  /\ stored' = stored
  /\ \A p \in Parts : committed'[p] = Snapshots
  /\ \A t \in Threads : pc[t] = "write" => pc'[t] = "write" /\ toDisk' = toDisk
  /\ \A t \in Threads : (pc'[t] = "write" /\ pc[t] # "write") =>
       toDisk'[0].data = backup[0].data /\ pc["main"] # "bkCopy"
  /\ (pc["main"] = "bkCopy" /\ pc'["main"] = "bkCopy") \/ backup'[0].data = backup[0].data
  /\ toDisk[0].dirty \subseteq toDisk'[0].dirty
  /\ DirtyInv'

\* A step of main from request to copy has that effect.
LEMMA MainEffect ==
  ASSUME IInv, DirtyInv, \A p \in Parts : committed[p] = Snapshots,
         Receive \/ MainCall \/ waiteEvent \/ SpuriousWakeup \/ Wakeup
  PROVE  Effect
  <1> USE BufAssumption, ServerFacts DEF bufVars, Goto, Threads, Effect, DirtyInv
  <1>1. CASE Receive
    BY <1>1 DEF Receive, Request, markDirtyInfo, writeData, Tail, Cut, IInv, TypeOK
  <1>2. CASE backupLock \/ restoreLock \/ giveEvent
    BY <1>2 DEF backupLock, restoreLock, giveEvent, Lock, IInv, TypeOK
  <1>3. CASE backupCopy
    <2>a. id["main"] = 0 /\ k["main"] \in Sectors
      BY <1>3 DEF backupCopy, IInv, TypeOK, IdInv, Sectors, MainPcs
    <2>b. fromChannel[0].data[k["main"]] \in Data
      BY <2>a DEF IInv, TypeOK, Buffers, Snapshots
    <2>c. IsPutSector(backup, backup', 0, k["main"], fromChannel[0].data[k["main"]])
      BY <1>3, <2>a, <2>b, PutSector DEF backupCopy, IInv, TypeOK
    <2> QED
      BY <1>3, <2>c DEF backupCopy, IsPutSector
  <1>4. CASE backupDirty
    <2>a. id["main"] = 0 /\ fromChannel[0] \in Buffers /\ backup[0] \in Buffers
      BY <1>4 DEF backupDirty, IInv, TypeOK, IdInv, MainPcs
    <2>b. backup[0].dirty \cup fromChannel[0].dirty \in SUBSET Sectors
      BY <2>a DEF Buffers
    <2>c. IsPutDirty(backup, backup', 0, backup[0].dirty \cup fromChannel[0].dirty)
      BY <1>4, <2>a, <2>b, PutDirty DEF backupDirty, IInv, TypeOK
    <2>d. committed'[0] = Snapshots
      BY <1>4, <2>a DEF backupDirty, IInv, TypeOK, Buffers
    <2>e. backup'[0].data = backup[0].data /\ backup[0].dirty \subseteq backup'[0].dirty
      BY <2>c DEF IsPutDirty
    <2>f. /\ pc \in [Threads -> MainPcs \cup SavePcs \cup DiskPcs]
          /\ pc["main"] = "bkCopy" /\ pc'["main"] \in {"check", "give"}
          /\ pc'["save"] = pc["save"]
          /\ stored' = stored /\ toDisk' = toDisk
      BY <1>4 DEF backupDirty, Unlock, IInv, TypeOK
    <2> QED
      BY <2>d, <2>e, <2>f
  <1>5. CASE restoreCopy \/ restoreDirty
    BY <1>5 DEF restoreCopy, restoreDirty, Unlock, IInv, TypeOK
  <1>6. CASE waiteEvent \/ SpuriousWakeup \/ Wakeup
    BY <1>6 DEF waiteEvent, SpuriousWakeup, Wakeup, IInv, TypeOK
  <1> QED
    BY <1>1, <1>2, <1>3, <1>4, <1>5, <1>6 DEF MainCall

\* So has a step of saveToDisk.
LEMMA SaveEffect ==
  ASSUME IInv, DirtyInv, \A p \in Parts : committed[p] = Snapshots,
         NEW t \in Threads, saveToDisk(t)
  PROVE  Effect
  <1> USE BufAssumption, ServerFacts DEF bufVars, Goto, Threads, Effect, DirtyInv
  <1>0. \A u \in Threads : u # t => pc[u] \notin DiskPcs
    BY DEF saveToDisk, ifHasDirty, getDataLock, getDataCopy, getDataDirty, saveToDiskDone, Lock,
       IInv, LockInv, MainPcs, SavePcs, DiskPcs
  <1>1. CASE ifHasDirty(t)
    <2>1. id[t] = 0
      BY <1>1, ServerAssumption DEF ifHasDirty, IInv, TypeOK
    <2> QED
      BY <1>1, <2>1 DEF ifHasDirty, IInv, TypeOK
  <1>2. CASE getDataLock(t) \/ saveToDiskDone(t)
    BY <1>2 DEF getDataLock, saveToDiskDone, Lock, IInv, TypeOK
  <1>3. CASE getDataCopy(t)
    <2>a. id[t] = 0 /\ k[t] \in Sectors
      BY <1>3 DEF getDataCopy, IInv, TypeOK, IdInv, Sectors
    <2>b. backup[0].data[k[t]] \in Data
      BY <2>a DEF IInv, TypeOK, Buffers, Snapshots
    <2>c. IsPutSector(toDisk, toDisk', 0, k[t], backup[0].data[k[t]])
      BY <1>3, <2>a, <2>b, PutSector DEF getDataCopy, IInv, TypeOK
    <2>d. \A u \in Threads : pc[u] # "write"
      BY <1>0, <1>3 DEF getDataCopy, DiskPcs
    <2> QED
      BY <1>3, <2>c, <2>d DEF getDataCopy, IsPutSector
  <1>4. CASE getDataDirty(t)
    <2>a. id[t] = 0 /\ toDisk[0] \in Buffers /\ backup[0] \in Buffers
      BY <1>4 DEF getDataDirty, IInv, TypeOK, IdInv
    <2>b. toDisk[0].dirty \cup backup[0].dirty \in SUBSET Sectors
      BY <2>a DEF Buffers
    <2>c. IsPutDirty(toDisk, toDisk', 0, toDisk[0].dirty \cup backup[0].dirty)
      BY <1>4, <2>a, <2>b, PutDirty DEF getDataDirty, IInv, TypeOK
    <2>d. IsPutDirty(backup, backup', 0, {})
      BY <1>4, <2>a, PutDirty DEF getDataDirty, IInv, TypeOK
    <2>e. toDisk[0].data = backup[0].data
      <3>1. \A s \in Sectors : toDisk[0].data[s] = backup[0].data[s]
        BY <1>4, <2>a DEF getDataDirty, IInv, TypeOK, CopyInv, Sectors
      <3> QED
        BY <2>a, <3>1 DEF Buffers, Snapshots
    <2>f. pc["main"] # "bkCopy"
      BY <1>4 DEF getDataDirty, IInv, LockInv, HoldPcs
    <2>g. \A u \in Threads : u # t => pc[u] \notin {"write", "getLock", "getCopy"}
      BY <1>0 DEF DiskPcs
    <2>h. backup[0].dirty # {} /\ pc[t] = "getCopy"
      BY <1>4 DEF getDataDirty
    <2>i. /\ pc' = [pc EXCEPT ![t] = "write"]
          /\ pc \in [Threads -> MainPcs \cup SavePcs \cup DiskPcs]
          /\ stored' = stored /\ committed' = committed
      BY <1>4 DEF getDataDirty, Unlock, IInv, TypeOK
    <2> QED
      BY <2>c, <2>d, <2>e, <2>f, <2>g, <2>h, <2>i DEF IsPutDirty
  <1> QED
    BY <1>1, <1>2, <1>3, <1>4 DEF saveToDisk

\* Steps on the files leave the buffers' invariant alone.
LEMMA SameBuffers == ASSUME IInv, UNCHANGED vars PROVE IInv'
  BY DEF vars, IInv, TypeOK, LockInv, IdInv, CopyInv, ChannelInv, BackupInv, StoredInv, CommitInv,
     SavesAreCommitted, Serving

\* BufferStep preserves the invariant.
LEMMA BufferStepKeeps == ASSUME ServerInv, BufferStep PROVE ServerInv'
  <1> USE ServerFacts
  <1>1. BufferAct
    BY DEF BufferStep, BufferAct
  <1>2. IInv'
    BY <1>1, BufferActKeeps DEF ServerInv
  <1>3. Effect
    BY <1>1, MainEffect, SaveEffect DEF ServerInv, SaverInv, BufferAct
  <1>4. UNCHANGED diskVars /\ Running
    BY DEF BufferStep
  <1>5. Files!IInv'
    BY <1>4, FilesKeep DEF ServerInv
  <1>6. SaverInv'
    BY <1>3, <1>4 DEF ServerInv, SaverInv, Effect, diskVars, Running
  <1>7. LiveInv'
    <2>1. backup[0].data \in Snapshots
      BY DEF ServerInv, IInv, TypeOK, Buffers
    <2>2. live' \in Snapshots /\ durable' \in SUBSET Snapshots
      BY <2>1 DEF BufferStep, ServerInv, LiveInv
    <2>3. Running' /\ durable \subseteq durable' /\ live' \in durable'
      BY <1>4 DEF BufferStep, ServerInv, LiveInv, diskVars, Running
    <2>4. pc'["main"] # "bkCopy" => backup'[0].data = live'
      BY <1>3, <1>4 DEF BufferStep, ServerInv, LiveInv, Effect
    <2>5. ASSUME NEW t \in Threads, pc'[t] = "write" PROVE toDisk'[0].data \in durable'
      <3>1. CASE pc[t] = "write"
        BY <2>3, <2>5, <3>1, <1>3 DEF ServerInv, LiveInv, Effect
      <3>2. CASE pc[t] # "write"
        BY <2>3, <2>5, <3>2, <1>3, <1>4 DEF ServerInv, LiveInv, Effect
      <3> QED
        BY <3>1, <3>2
    <2> QED
      BY <2>2, <2>3, <2>4, <2>5 DEF LiveInv
  <1>8. DurableInv'
    <2>1. durable \subseteq durable'
      BY DEF BufferStep
    <2> QED
      BY <1>4, <2>1 DEF ServerInv, DurableInv, diskVars
  <1>9. DirtyInv'
    BY <1>3 DEF Effect
  <1>10. OnDiskInv'
    BY <1>3, <1>4 DEF Effect, ServerInv, OnDiskInv, diskVars, Files!SomeIntact
  <1> QED
    BY <1>2, <1>5, <1>6, <1>7, <1>8, <1>9, <1>10 DEF ServerInv

\* Start preserves the invariant.
LEMMA StartKeeps == ASSUME ServerInv, Start PROVE ServerInv'
  <1>0. PICK c \in Disk!Copies : Disk!ReadBegin(c)
    BY DEF Start
  <1>1. IInv' /\ Files!IInv'
    BY <1>0, SameBuffers, FilesKeep DEF Start, ServerInv
  <1> USE <1>0 DEF Start, vars, Disk!ReadBegin
  <1>2. SaverInv'
    BY DEF ServerInv, SaverInv, Running, Quiet
  <1>3. LiveInv'
    BY DEF ServerInv, LiveInv, Running
  <1>4. DurableInv' /\ DirtyInv' /\ OnDiskInv'
    BY DEF ServerInv, DurableInv, DirtyInv, OnDiskInv
  <1> QED
    BY <1>1, <1>2, <1>3, <1>4 DEF ServerInv

\* SaveBegin preserves the invariant.
LEMMA SaveBeginKeeps == ASSUME ServerInv, SaveBegin PROVE ServerInv'
  <1>0. toDisk[0].data \in Snapshots
    BY ServerFacts DEF ServerInv, IInv, TypeOK, Buffers
  <1>1. IInv' /\ Files!IInv'
    BY <1>0, SameBuffers, FilesKeep DEF SaveBegin, ServerInv
  <1> USE DEF SaveBegin, vars, Disk!WriteBegin
  <1>2. SaverInv'
    BY DEF ServerInv, SaverInv, Running, Quiet
  <1>3. LiveInv'
    BY DEF ServerInv, LiveInv, Running
  <1>4. DurableInv' /\ DirtyInv' /\ OnDiskInv'
    BY DEF ServerInv, DurableInv, DirtyInv, OnDiskInv
  <1> QED
    BY <1>1, <1>2, <1>3, <1>4 DEF ServerInv

\* A step inside ramDisk_Read leaves what was read in durable.
LEMMA ReadDurable ==
  ASSUME ServerInv, FileStep,
         \/ Disk!ReadFirstGood \/ Disk!ReadFirstBad \/ Disk!ReadSecond
         \/ Disk!FixOpen \/ Disk!FixOpenFails
         \/ \E ok \in BOOLEAN : Disk!FixWrite(ok) \/ Disk!FixSync(ok)
  PROVE  DurableInv' /\ (Running <=> Running') /\ ~Running
  <1> USE DEF FileStep, MakesUp, Running, ServerInv, DurableInv, Disk!Copies, Disk!Other, Disk!Intact,
      Disk!FileOf, Disk!Short, Disk!callVars
  <1>t. Files!TypeOK /\ Disk!Images = Files!Images
    BY DEF Files!IInv, Files!Images, Disk!Images
  <1> USE DEF Files!TypeOK, Files!Copies, Files!Images
  <1>1. CASE Disk!ReadFirstGood
    BY <1>1, <1>t DEF Disk!ReadFirstGood
  <1>2. CASE Disk!ReadFirstBad
    BY <1>2, <1>t DEF Disk!ReadFirstBad
  <1>3. CASE Disk!ReadSecond
    BY <1>3, <1>t DEF Disk!ReadSecond
  <1>4. CASE Disk!FixOpen
    BY <1>4, <1>t DEF Disk!FixOpen
  <1>5. CASE Disk!FixOpenFails
    BY <1>5, <1>t DEF Disk!FixOpenFails
  <1>6. ASSUME NEW ok \in BOOLEAN, Disk!FixWrite(ok)
        PROVE  DurableInv' /\ (Running <=> Running') /\ ~Running
    <2>1. fsPc = "fixWrite" /\ fsPc' = "fixSync" /\ durable' = durable /\ fsBuf \in durable
          /\ stable' = stable /\ unsynced' = unsynced /\ fsBuf' = fsBuf
      BY <1>6 DEF Disk!FixWrite
    <2>2. \A c \in {"orig", "bak"} : image'[c] = image[c] \/ (c = target /\ image'[c] = Disk!FileOf(fsBuf))
      BY <1>6, <1>t DEF Disk!FixWrite
    <2>3. target \in unsynced
      BY <2>1 DEF Files!IInv, Files!WritingPcs
    <2> QED
      BY <2>1, <2>2, <2>3
  <1>7. ASSUME NEW ok \in BOOLEAN, Disk!FixSync(ok)
        PROVE  DurableInv' /\ (Running <=> Running') /\ ~Running
    BY <1>7, <1>t DEF Disk!FixSync
  <1> QED
    BY <1>1, <1>2, <1>3, <1>4, <1>5, <1>6, <1>7

\* A step inside ramDisk_Write writes only what is in durable.
LEMMA WriteDurable ==
  ASSUME ServerInv, FileStep,
         \/ Disk!WriteOpen \/ Disk!WriteOpenFails
         \/ \E ok \in BOOLEAN : Disk!WriteHead(ok) \/ Disk!WriteBody(ok) \/ Disk!WriteSync(ok)
  PROVE  /\ DurableInv'
         /\ durable' = durable /\ fsBuf' = fsBuf
         /\ fsPc \in {"open", "head", "data", "sync"}
         /\ fsPc' \in {"open", "head", "data", "sync", "written"}
  <1> USE DEF FileStep, MakesUp, ServerInv, DurableInv, Disk!Copies, Disk!Other, Disk!Intact,
      Disk!FileOf, Disk!Short, Disk!callVars, Disk!NextFile
  <1>t. Files!TypeOK /\ Disk!Images = Files!Images
    BY DEF Files!IInv, Files!Images, Disk!Images
  <1>d. fsPc \in {"open", "head", "data", "sync"} => fsBuf \in durable
    BY DEF SaverInv, LiveInv
  <1> USE DEF Files!TypeOK, Files!Copies, Files!Images
  <1>1. CASE Disk!WriteOpen
    BY <1>1, <1>t DEF Disk!WriteOpen
  <1>2. CASE Disk!WriteOpenFails
    BY <1>2, <1>t DEF Disk!WriteOpenFails
  <1>3. ASSUME NEW ok \in BOOLEAN, Disk!WriteHead(ok) PROVE DurableInv' /\ durable' = durable
        /\ fsBuf' = fsBuf /\ fsPc = "head" /\ fsPc' = "data"
    BY <1>3, <1>t DEF Disk!WriteHead
  <1>4. ASSUME NEW ok \in BOOLEAN, Disk!WriteBody(ok) PROVE DurableInv' /\ durable' = durable
        /\ fsBuf' = fsBuf /\ fsPc = "data" /\ fsPc' = "sync"
    <2>1. fsPc = "data" /\ fsPc' = "sync" /\ durable' = durable /\ fsBuf \in durable
          /\ stable' = stable /\ unsynced' = unsynced /\ fsBuf' = fsBuf
      BY <1>4, <1>d DEF Disk!WriteBody
    <2>2. \A c \in {"orig", "bak"} : image'[c] = image[c] \/ (c = target /\ image'[c] = Disk!FileOf(fsBuf))
      BY <1>4, <1>t DEF Disk!WriteBody
    <2>3. target \in unsynced
      BY <2>1 DEF Files!IInv, Files!WritingPcs
    <2> QED
      BY <2>1, <2>2, <2>3
  <1>5. ASSUME NEW ok \in BOOLEAN, Disk!WriteSync(ok) PROVE DurableInv' /\ durable' = durable
        /\ fsBuf' = fsBuf /\ fsPc = "sync" /\ fsPc' \in {"open", "written"}
    BY <1>5, <1>t DEF Disk!WriteSync
  <1> QED
    BY <1>1, <1>2, <1>3, <1>4, <1>5

\* FileStep preserves the invariant.
LEMMA FileStepKeeps == ASSUME ServerInv, FileStep PROVE ServerInv'
  <1>1. IInv' /\ Files!IInv'
    BY SameBuffers, FilesKeep DEF FileStep, ServerInv
  <1>2. /\ pc' = pc /\ id' = id /\ k' = k /\ mutex' = mutex /\ window' = window
        /\ toDisk' = toDisk /\ backup' = backup /\ committed' = committed /\ live' = live
        /\ is_cali_mode' = is_cali_mode
    BY DEF FileStep, vars
  <1>3. DirtyInv'
    BY <1>2 DEF ServerInv, DirtyInv
  <1>b. fsBuf' \in Snapshots
    BY <1>1 DEF Files!IInv, Files!TypeOK
  <1>c. durable' \in SUBSET Snapshots /\ durable \subseteq durable'
    BY <1>b DEF FileStep, ServerInv, LiveInv
  <1>4. CASE \/ Disk!ReadFirstGood \/ Disk!ReadFirstBad \/ Disk!ReadSecond
             \/ Disk!FixOpen \/ Disk!FixOpenFails
             \/ \E ok \in BOOLEAN : Disk!FixWrite(ok) \/ Disk!FixSync(ok)
    <2>1. DurableInv' /\ ~Running /\ ~Running'
      BY <1>4, ReadDurable
    <2>2. SaverInv'
      BY <1>2, <2>1 DEF ServerInv, SaverInv, Running, Quiet
    <2>3. LiveInv'
      BY <1>2, <1>c, <2>1 DEF ServerInv, LiveInv
    <2>4. OnDiskInv'
      BY <2>1 DEF OnDiskInv, Running
    <2> QED
      BY <1>1, <1>3, <2>1, <2>2, <2>3, <2>4 DEF ServerInv
  <1>5. CASE \/ Disk!WriteOpen \/ Disk!WriteOpenFails
             \/ \E ok \in BOOLEAN : Disk!WriteHead(ok) \/ Disk!WriteBody(ok) \/ Disk!WriteSync(ok)
    <2>1. /\ DurableInv'
          /\ durable' = durable /\ fsBuf' = fsBuf
          /\ fsPc \in {"open", "head", "data", "sync"}
          /\ fsPc' \in {"open", "head", "data", "sync", "written"}
      BY <1>5, WriteDurable
    <2>2. SaverInv'
      BY <1>2, <2>1 DEF ServerInv, SaverInv, Running
    <2>3. LiveInv'
      BY <1>2, <1>c, <2>1 DEF ServerInv, LiveInv, Running
    <2>4. OnDiskInv'
      BY <2>1 DEF OnDiskInv
    <2> QED
      BY <1>1, <1>3, <2>1, <2>2, <2>3, <2>4 DEF ServerInv
  <1> QED
    BY <1>4, <1>5 DEF FileStep, Disk!CallStep

\* initBuf preserves the invariant: the buffers agree with the copy that was read.
LEMMA initBufKeeps == ASSUME ServerInv, initBuf PROVE ServerInv'
  <1> USE ServerFacts
  <1>0. fsPc = "served" /\ fsBuf \in Snapshots /\ fsBuf \in durable
    BY DEF initBuf, Disk!ReadReturn, ServerInv, DurableInv, Files!IInv, Files!TypeOK
  <1>1. Files!IInv'
    BY FilesKeep DEF initBuf, ServerInv
  <1>2. BuffersAgree'
    <2>1. Quiet /\ committed = [p \in Parts |-> Snapshots]
      BY <1>0 DEF ServerInv, SaverInv, Running, IInv, TypeOK
    <2> QED
      BY <1>0, <2>1 DEF initBuf, BuffersAgree, Quiet
  <1>3. IInv'
    BY <1>2, AgreeIsGoodNext
  <1>4. \A t \in Threads : pc'[t] \in {"run", "start"}
    BY <1>2 DEF BuffersAgree, Quiet
  <1>5. /\ fsPc' = "idle" /\ live' = fsBuf /\ durable' = durable
        /\ backup'[0].data = fsBuf /\ toDisk'[0].data = fsBuf /\ stored'[0] = fsBuf
        /\ \A p \in Parts : committed'[p] = Snapshots
    BY <1>2 DEF initBuf, Disk!ReadReturn, BuffersAgree
  <1>6. SaverInv'
    BY <1>5 DEF SaverInv, Running
  <1>7. LiveInv'
    BY <1>0, <1>4, <1>5 DEF ServerInv, LiveInv
  <1>8. DurableInv'
    BY <1>5 DEF ServerInv, DurableInv, initBuf, Disk!ReadReturn
  <1>9. DirtyInv'
    BY <1>4 DEF DirtyInv
  <1>10. OnDiskInv'
    BY <1>0, <1>5 DEF OnDiskInv, initBuf, Disk!ReadReturn, ServerInv, Files!IInv, Files!ReadInv,
       Files!ReadServesIntactCopy, Files!SomeIntact, Files!FileOf, Disk!FileOf,
       Files!Copies, Disk!Copies
  <1> QED
    BY <1>1, <1>3, <1>6, <1>7, <1>8, <1>9, <1>10 DEF ServerInv

\* What is known when ramDisk_Write returns to the thread that called it.
LEMMA SaveEndFacts ==
  ASSUME ServerInv, NEW t \in Threads, SaveEnd, saveToDiskWrite(t, ret)
  PROVE  /\ id[t] = 0 /\ ret \in BOOLEAN /\ fsPc = "written"
         /\ fsBuf = toDisk[0].data
         /\ \A u \in Threads : pc'[u] # "write"
         /\ \A u \in Threads : pc'[u] = IF u = t THEN "check" ELSE pc[u]
         /\ toDisk'[0].data = toDisk[0].data
         /\ toDisk'[0].dirty = IF ret THEN {} ELSE toDisk[0].dirty
         /\ stored'[0] = IF ret THEN fsBuf ELSE stored[0]
         /\ backup' = backup /\ committed' = committed /\ live' = live
         /\ (ret /\ silent = {}) => \A c \in Disk!Copies :
              image[c] = Disk!FileOf(fsBuf) /\ c \notin unsynced
  <1> USE ServerFacts
  <1>1. id[t] = 0 /\ ret \in BOOLEAN /\ fsPc = "written" /\ fsBuf = toDisk[0].data
    BY DEF SaveEnd, saveToDiskWrite, Disk!WriteReturn, ServerInv, SaverInv, IInv, IdInv,
       Files!IInv, Files!TypeOK
  <1>2. \A u \in Threads : u # t => pc[u] # "write"
    BY DEF saveToDiskWrite, ServerInv, IInv, LockInv, MainPcs, SavePcs, DiskPcs, Threads
  <1>3. \A u \in Threads : pc'[u] = IF u = t THEN "check" ELSE pc[u]
    BY DEF saveToDiskWrite, Goto, ServerInv, IInv, TypeOK
  <1>4. ret => IsPutDirty(toDisk, toDisk', 0, {})
    BY <1>1, PutDirty DEF saveToDiskWrite, ServerInv, IInv, TypeOK
  <1>5. ~ret => toDisk' = toDisk /\ stored' = stored
    BY DEF saveToDiskWrite
  <1>6. ret => stored'[0] = fsBuf
    BY <1>1 DEF saveToDiskWrite, ServerInv, IInv, TypeOK
  <1>7. toDisk'[0].data = toDisk[0].data
    BY <1>1, <1>4, <1>5 DEF IsPutDirty
  <1>8. toDisk'[0].dirty = IF ret THEN {} ELSE toDisk[0].dirty
    BY <1>1, <1>4, <1>5 DEF IsPutDirty
  <1>9. (ret /\ silent = {}) => \A c \in Disk!Copies :
              image[c] = Disk!FileOf(fsBuf) /\ c \notin unsynced
    BY <1>1 DEF ServerInv, Files!IInv, Files!WriteInv, Files!WriteReportsFailure, Files!FileOf,
       Disk!FileOf, Files!Copies, Disk!Copies
  <1>10. backup' = backup /\ committed' = committed /\ live' = live
    BY DEF saveToDiskWrite, SaveEnd
  <1> QED
    BY <1>1, <1>2, <1>3, <1>5, <1>6, <1>7, <1>8, <1>9, <1>10

\* SaveEnd preserves the invariant: a save that says it has completed has, unless the
\* call kept a failure to itself.
LEMMA SaveEndKeeps == ASSUME ServerInv, SaveEnd PROVE ServerInv'
  <1> USE ServerFacts
  <1>0. PICK t \in Threads : saveToDiskWrite(t, ret)
    BY DEF SaveEnd
  <1>f. /\ id[t] = 0 /\ ret \in BOOLEAN /\ fsPc = "written"
        /\ fsBuf = toDisk[0].data
        /\ \A u \in Threads : pc'[u] # "write"
        /\ \A u \in Threads : pc'[u] = IF u = t THEN "check" ELSE pc[u]
        /\ toDisk'[0].data = toDisk[0].data
        /\ toDisk'[0].dirty = IF ret THEN {} ELSE toDisk[0].dirty
        /\ stored'[0] = IF ret THEN fsBuf ELSE stored[0]
        /\ backup' = backup /\ committed' = committed /\ live' = live
        /\ (ret /\ silent = {}) => \A c \in Disk!Copies :
             image[c] = Disk!FileOf(fsBuf) /\ c \notin unsynced
    BY <1>0, SaveEndFacts
  <1>w. toDisk[0].dirty # {} /\ fsBuf \in durable
    BY <1>0, <1>f DEF saveToDiskWrite, ServerInv, DirtyInv, LiveInv
  <1>1. Files!IInv'
    BY FilesKeep DEF SaveEnd, ServerInv
  <1>2. IInv'
    BY <1>0, <1>f, saveToDiskWriteKeeps DEF ServerInv
  <1>3. fsPc' = "idle" /\ Running' /\ image' = image /\ stable' = stable /\ unsynced' = unsynced
        /\ silent' = silent
    BY DEF SaveEnd, Disk!WriteReturn, Running
  <1>4. SaverInv'
    BY <1>f, <1>3 DEF ServerInv, SaverInv
  <1>5. LiveInv'
    <2>1. durable' \subseteq durable /\ live \in durable /\ live \in durable'
      BY <1>f, <1>w DEF SaveEnd, ServerInv, LiveInv, Running
    <2>2. pc'["main"] # "bkCopy" => backup'[0].data = live'
      <3>1. pc["main"] = "bkCopy" => t # "main"
        BY <1>0 DEF saveToDiskWrite
      <3> QED
        BY <1>f, <3>1 DEF ServerInv, LiveInv, Running, Threads
    <2> QED
      BY <1>f, <2>1, <2>2 DEF ServerInv, LiveInv
  <1>6. DurableInv'
    <2>1. CASE ret /\ silent = {}
      <3>1. durable' = {fsBuf, live}
        BY <2>1 DEF SaveEnd
      <3>2. \A c \in Disk!Copies : /\ image'[c].val = fsBuf
                                   /\ stable'[c] = image'[c]
        BY <2>1, <1>f, <1>3 DEF Disk!FileOf, ServerInv, DurableInv
      <3> QED
        BY <1>3, <3>1, <3>2 DEF DurableInv
    <2>2. CASE ~(ret /\ silent = {})
      <3>1. durable' = durable
        BY <2>2 DEF SaveEnd
      <3> QED
        BY <1>3, <3>1 DEF ServerInv, DurableInv
    <2> QED
      BY <2>1, <2>2
  <1>7. DirtyInv'
    BY <1>f DEF ServerInv, DirtyInv
  <1>8. OnDiskInv'
    BY <1>f, <1>3, <1>w DEF OnDiskInv, Disk!Copies
  <1> QED
    BY <1>1, <1>2, <1>4, <1>5, <1>6, <1>7, <1>8 DEF ServerInv

\* Losing the RAM leaves agreeing (empty) buffers.
LEMMA ForgetAgrees == ASSUME ServerInv, Forget PROVE BuffersAgree'
  <1>1. committed' = [p \in Parts |-> Snapshots]
    BY DEF ServerInv, SaverInv, IInv, TypeOK, Forget
  <1>2. Quiet'
    BY DEF Forget, Quiet
  <1> QED
    BY <1>1, <1>2, ServerFacts DEF Forget, NoBuffer, BuffersAgree

\* What is left after the RAM is lost, given what the files hold.
LEMMA ForgetKeeps ==
  ASSUME ServerInv, Forget, Files!IInv', fsPc' = "down", DurableInv'
  PROVE  ServerInv'
  <1>1. BuffersAgree'
    BY ForgetAgrees
  <1>2. IInv'
    BY <1>1, AgreeIsGoodNext
  <1>3. \A t \in Threads : pc'[t] \in {"run", "start"}
    BY <1>1 DEF BuffersAgree, Quiet
  <1>4. SaverInv'
    BY <1>1 DEF BuffersAgree, SaverInv
  <1>5. LiveInv'
    BY <1>3 DEF ServerInv, LiveInv, Forget, Running
  <1>6. DirtyInv' /\ OnDiskInv'
    BY <1>3 DEF DirtyInv, OnDiskInv
  <1> QED
    BY <1>2, <1>4, <1>5, <1>6 DEF ServerInv

\* Killed preserves the invariant.
LEMMA KilledKeeps == ASSUME ServerInv, Killed PROVE ServerInv'
  <1>1. Files!IInv'
    BY FilesKeep DEF Killed, ServerInv
  <1>2. fsPc' = "down" /\ DurableInv'
    BY DEF Killed, Disk!Kill, Forget, ServerInv, DurableInv
  <1> QED
    BY <1>1, <1>2, ForgetKeeps DEF Killed

\* PowerCut preserves the invariant: what survives in a file was in durable.
LEMMA PowerCutKeeps == ASSUME ServerInv, PowerCut PROVE ServerInv'
  <1>1. Files!IInv'
    BY FilesKeep DEF PowerCut, ServerInv
  <1>2. fsPc' = "down" /\ durable' = durable /\ stable' = image' /\ unsynced' = {}
    BY DEF PowerCut, Disk!PowerLoss, Forget
  <1>3. \A c \in Disk!Copies : image'[c] \in {image[c], stable[c], Disk!Short, Disk!Torn}
    BY DEF PowerCut, Disk!PowerLoss, Disk!Survivors
  <1>4. DurableInv'
    BY <1>2, <1>3 DEF ServerInv, DurableInv, Disk!Intact, Disk!Short, Disk!Torn
  <1> QED
    BY <1>1, <1>2, <1>4, ForgetKeeps DEF PowerCut

\* The initial states satisfy the invariant.
LEMMA InitServerInv == Init0 => ServerInv
  <1> USE ServerFacts
  <1> SUFFICES ASSUME Init0 PROVE ServerInv
      OBVIOUS
  <1>1. BuffersAgree
    BY DEF Init0, NoBuffer, BuffersAgree, Quiet
  <1>2. IInv
    BY <1>1, AgreeIsGood
  <1>3. Files!IInv
    BY SameStep, Files!InitIInv DEF Init0
  <1>4. \A t \in Threads : pc[t] \in {"run", "start"}
    BY <1>1 DEF BuffersAgree, Quiet
  <1>5. fsPc = "down" /\ stable = image
    BY DEF Init0, Disk!Init
  <1>6. SaverInv
    BY <1>1, <1>5 DEF SaverInv, BuffersAgree
  <1>7. LiveInv
    <2>1. \A c \in Disk!Copies : image[c].val \in Snapshots
      BY <1>3 DEF Files!IInv, Files!TypeOK, Files!Images, Files!Copies, Disk!Copies
    <2> QED
      BY <1>4, <1>5, <2>1 DEF LiveInv, Init0, Running
  <1>8. DurableInv
    BY <1>5 DEF DurableInv, Init0
  <1>9. DirtyInv /\ OnDiskInv
    BY <1>4, <1>5 DEF DirtyInv, OnDiskInv
  <1> QED
    BY <1>2, <1>3, <1>6, <1>7, <1>8, <1>9 DEF ServerInv

\* Every step preserves the invariant.
LEMMA StepKeeps == ASSUME ServerInv, [NextServer]_allVars PROVE ServerInv'
  <1>1. CASE UNCHANGED allVars
    <2>1. UNCHANGED vars /\ UNCHANGED diskVars /\ live' = live /\ durable' = durable
      BY <1>1 DEF allVars
    <2>2. IInv' /\ Files!IInv'
      BY <2>1, SameBuffers, FilesKeep DEF ServerInv
    <2>3. SaverInv' /\ LiveInv' /\ DurableInv' /\ DirtyInv' /\ OnDiskInv'
      BY <2>1 DEF vars, diskVars, ServerInv, SaverInv, LiveInv, DurableInv, DirtyInv, OnDiskInv,
         Running, Quiet, Files!SomeIntact
    <2> QED
      BY <2>2, <2>3 DEF ServerInv
  <1> QED
    BY <1>1, StartKeeps, FileStepKeeps, initBufKeeps, BufferStepKeeps, SaveBeginKeeps,
       SaveEndKeeps, KilledKeeps, PowerCutKeeps DEF NextServer

\* The two layers, and what ties them together, hold in every reachable state.
THEOREM ServerInvariant == ServerSpec => []ServerInv
  BY InitServerInv, StepKeeps, PTL DEF ServerSpec

\* With every dirty table clean and no failure hidden by ramDisk_Write, an intact file
\* holds the data the modem was told is committed.
THEOREM ServerCleanOnDisk == ServerSpec => []CleanMeansOnDisk
  <1>1. ServerInv => CleanMeansOnDisk
    <2> SUFFICES ASSUME ServerInv, fsPc = "idle", silent = {}, pc["main"] # "bkCopy",
                        backup[0].dirty \cup toDisk[0].dirty = {},
                        \E c \in Disk!Copies : Disk!Intact(image[c])
                 PROVE  \E c \in Disk!Copies : image[c] = Disk!FileOf(backup[0].data)
      BY DEF CleanMeansOnDisk
    <2>1. \A s \in Sectors : backup[0].data[s] = stored[0][s]
      BY ServerFacts DEF ServerInv, IInv, BackupInv, StoredInv
    <2>2. backup[0].data = stored[0]
      BY <2>1, ServerFacts DEF ServerInv, IInv, TypeOK, Buffers, Snapshots
    <2>3. Files!SomeIntact
      BY DEF Files!SomeIntact, Files!Intact, Files!Copies, Disk!Intact, Disk!Copies
    <2> QED
      BY <2>2, <2>3 DEF ServerInv, OnDiskInv
  <1> QED
    BY <1>1, ServerInvariant, PTL

\* A step of the daemon is a step of the store or leaves it as it is.
LEMMA StepRefines ==
  ASSUME ServerInv, ServerInv', [NextServer]_allVars
  PROVE  [Store!Next]_(Store!vars)
  <1> USE DEF Store!vars
  <1>t. faults \in 0 .. 2 /\ faults' \in 0 .. 2 /\ fsBuf \in Snapshots /\ fsBuf' \in Snapshots
        /\ backup[0].data \in Snapshots
    BY ServerFacts DEF ServerInv, Files!IInv, Files!TypeOK, IInv, TypeOK, Buffers
  <1>1. CASE Start
    BY <1>1 DEF Start, Disk!ReadBegin, Running
  <1>2. CASE FileStep
    <2>1. live' = live
      BY <1>2 DEF FileStep
    <2>2. Running' = Running
      BY <1>2 DEF FileStep, Running, Disk!CallStep, Disk!ReadFirstGood, Disk!ReadFirstBad,
         Disk!ReadSecond, Disk!FixOpen, Disk!FixOpenFails, Disk!FixWrite, Disk!FixSync,
         Disk!WriteOpen, Disk!WriteOpenFails, Disk!WriteHead, Disk!WriteBody, Disk!WriteSync,
         Disk!NextFile
    <2>3. CASE MakesUp
      <3>1. faults = 2
        BY <2>3, <1>t DEF MakesUp, ServerInv, Files!IInv, Files!TypeOK, Files!OneFaultInv,
           Files!ReadInv, Files!WritingPcs, Files!SomeIntact, Files!Copies, Files!Intact,
           Disk!Intact, Disk!Other
      <3>2. ~Running
        BY <2>3 DEF MakesUp, Running
      <3>3. faults' = faults
        BY <1>2, <2>3 DEF MakesUp, FileStep, Disk!CallStep, Disk!ReadFirstGood,
           Disk!ReadFirstBad, Disk!ReadSecond, Disk!FixOpen, Disk!FixOpenFails,
           Disk!FixWrite, Disk!FixSync, Disk!WriteOpen, Disk!WriteOpenFails,
           Disk!WriteHead, Disk!WriteBody, Disk!WriteSync
      <3>4. Store!Wipe(fsBuf')
        BY <1>2, <2>1, <2>2, <2>3, <3>1, <3>2, <3>3 DEF FileStep, Store!Wipe
      <3> QED
        BY <1>t, <3>4 DEF Store!Next
    <2>4. CASE ~MakesUp
      <3>1. Store!Fault
        BY <1>2, <1>t, <2>1, <2>2, <2>4 DEF FileStep, Store!Fault
      <3> QED
        BY <3>1 DEF Store!Next
    <2> QED
      BY <2>3, <2>4
  <1>3. CASE initBuf
    <2>1. Store!Restart(fsBuf)
      BY <1>3 DEF initBuf, Disk!ReadReturn, Running, ServerInv, DurableInv, Store!Restart
    <2> QED
      BY <2>1, <1>t DEF Store!Next
  <1>4. CASE BufferStep
    <2>1. Running' = Running /\ faults' = faults
      BY <1>4 DEF BufferStep, diskVars, Running
    <2>2. CASE live' = live /\ durable' = durable
      BY <2>1, <2>2
    <2>3. CASE live' = backup[0].data /\ durable' = durable \cup {backup[0].data}
      <3>1. Store!Commit(backup[0].data)
        BY <1>4, <2>1, <2>3 DEF BufferStep, Store!Commit
      <3> QED
        BY <3>1, <1>t DEF Store!Next
    <2> QED
      BY <1>4, <2>2, <2>3 DEF BufferStep
  <1>5. CASE SaveBegin
    BY <1>5 DEF SaveBegin, Disk!WriteBegin, Running
  <1>6. CASE SaveEnd
    <2>1. /\ Running /\ Running' = Running /\ faults' = faults /\ live' = live
          /\ fsPc = "written"
      BY <1>6 DEF SaveEnd, Disk!WriteReturn, Running
    <2>2. fsBuf \in durable
      BY <2>1 DEF ServerInv, SaverInv, LiveInv
    <2>3. CASE durable' = durable
      BY <2>1, <2>3
    <2>4. CASE durable' = {fsBuf, live}
      <3>1. Store!Harden(fsBuf)
        BY <2>1, <2>2, <2>4 DEF Store!Harden
      <3> QED
        BY <3>1, <1>t DEF Store!Next
    <2> QED
      BY <1>6, <2>3, <2>4 DEF SaveEnd
  <1>7. CASE Killed
    <2>1. Store!Stop
      BY <1>7, <1>t DEF Killed, Disk!Kill, Forget, Running, Store!Stop
    <2> QED
      BY <2>1 DEF Store!Next
  <1>8. CASE PowerCut
    <2>1. Store!Stop
      BY <1>8, <1>t DEF PowerCut, Disk!PowerLoss, Forget, Running, Store!Stop
    <2> QED
      BY <2>1 DEF Store!Next
  <1>9. CASE UNCHANGED allVars
    BY <1>9 DEF allVars, diskVars, Running
  <1> QED
    BY <1>1, <1>2, <1>3, <1>4, <1>5, <1>6, <1>7, <1>8, <1>9 DEF NextServer

\* The daemon implements the atomic store: through kills, power cuts and failed writes
\* a start-up returns the last completed save or a later commit, until two faults have
\* hit the files.
THEOREM ServerImplementsStore == ServerSpec => ImplementsStore
  <1>1. Init0 => Store!Init
    <2> SUFFICES ASSUME Init0 PROVE Store!Init
        OBVIOUS
    <2>1. ServerInv
      BY InitServerInv
    <2>2. durable = {} => faults = 2
      <3>1. durable = {} => \A c \in Disk!Copies : ~Disk!Intact(image[c])
        BY <2>1 DEF ServerInv, DurableInv
      <3>2. (\A c \in Disk!Copies : ~Disk!Intact(image[c])) => faults = 2
        BY DEF Init0, Disk!Init, Disk!Copies
      <3> QED
        BY <3>1, <3>2
    <2> QED
      BY <2>1, <2>2 DEF Init0, Disk!Init, Running, ServerInv, LiveInv, Files!IInv, Files!TypeOK,
         Store!Init
  <1>2. ServerInv /\ ServerInv' /\ [NextServer]_allVars => [Store!Next]_(Store!vars)
    BY StepRefines
  <1> QED
    BY <1>1, <1>2, ServerInvariant, PTL DEF ServerSpec, ImplementsStore, Store!Spec

=============================================================================
