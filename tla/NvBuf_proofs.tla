---------------------------- MODULE NvBuf_proofs ----------------------------
(***************************************************************************)
(* NvBuf: the properties of the three buffers for any number of partitions *)
(* and sectors, with and without calibration mode.                         *)
(***************************************************************************)
EXTENDS NvBuf, TLAPS

HoldPcs == {"bkCopy", "rsCopy", "getCopy"}

\* main has a request open on partition p.
Serving(p) == id["main"] = p /\ pc["main"] \in {"req", "bkLock", "bkCopy", "rsLock", "rsCopy"}

\* The mutex is held exactly during the copies; one thread at most saves.
LockInv ==
  /\ \A t \in Threads : pc[t] \in HoldPcs <=> mutex = t
  /\ pc["main"] \in IF is_cali_mode THEN (MainPcs \ {"give"}) \cup DiskPcs ELSE MainPcs
  /\ pc["save"] \in IF is_cali_mode THEN {"start", "waiting"} ELSE SavePcs \cup DiskPcs

\* The partition a thread works on exists; announced sectors are marked dirty.
IdInv ==
  /\ pc["main"] \in MainPcs => id["main"] \in Parts
  /\ \A t \in Threads : pc[t] \in {"getLock", "getCopy", "write"} => id[t] \in Parts
  /\ window # {} => pc["main"] = "req"
  /\ window \subseteq fromChannel[IF pc["main"] = "req" THEN id["main"] ELSE 0].dirty

\* A copy in progress has made the sectors below k equal.
CopyInv ==
  /\ pc["main"] \in {"bkCopy", "rsCopy"} =>
       \A s \in Sectors : s < k["main"] =>
         fromChannel[id["main"]].data[s] = backup[id["main"]].data[s]
  /\ \A t \in Threads : pc[t] = "getCopy" =>
       \A s \in Sectors : s < k[t] => toDisk[id[t]].data[s] = backup[id[t]].data[s]

\* Each buffer differs from the next one only where a dirty bit says so.
ChannelInv == \A p \in Parts, s \in Sectors :
  fromChannel[p].data[s] # backup[p].data[s] => Serving(p) /\ s \in fromChannel[p].dirty

BackupInv == \A p \in Parts, s \in Sectors :
  backup[p].data[s] # toDisk[p].data[s] =>
    \/ s \in backup[p].dirty
    \/ pc["main"] = "bkCopy" /\ id["main"] = p /\ s \in fromChannel[p].dirty

StoredInv == \A p \in Parts, s \in Sectors :
  toDisk[p].data[s] # stored[p][s] =>
    \/ s \in toDisk[p].dirty
    \/ s \in backup[p].dirty /\ \E t \in Threads : pc[t] = "getCopy" /\ id[t] = p

CommitInv ==
  /\ \A p \in Parts : backup[p].data \in committed[p] \/ (pc["main"] = "bkCopy" /\ id["main"] = p)
  /\ SavesAreCommitted

IInv == /\ TypeOK
        /\ LockInv
        /\ IdInv
        /\ CopyInv
        /\ ChannelInv
        /\ BackupInv
        /\ StoredInv
        /\ CommitInv

-----------------------------------------------------------------------------
(* Proofs                                                                  *)

\* g is f with sector s of partition p replaced by d.
IsPutSector(f, g, p, s, d) ==
  /\ g \in [Parts -> Buffers]
  /\ \A q \in Parts : g[q].dirty = f[q].dirty
  /\ \A q \in Parts, r \in Sectors :
       g[q].data[r] = IF q = p /\ r = s THEN d ELSE f[q].data[r]

\* g is f with the dirty table of partition p replaced by D.
IsPutDirty(f, g, p, D) ==
  /\ g \in [Parts -> Buffers]
  /\ \A q \in Parts : g[q].data = f[q].data
  /\ \A q \in Parts : g[q].dirty = IF q = p THEN D ELSE f[q].dirty

\* Storing one sector into a family of buffers.
LEMMA PutSector ==
  ASSUME NEW f \in [Parts -> Buffers], NEW p \in Parts, NEW s \in Sectors, NEW d \in Data,
         NEW g, g = [f EXCEPT ![p].data[s] = d]
  PROVE  IsPutSector(f, g, p, s, d)
  <1> DEFINE b == [f[p] EXCEPT !.data[s] = d]
  <1>1. f[p] \in Buffers /\ f[p].data \in Snapshots /\ f[p].dirty \in SUBSET Sectors
    BY DEF Buffers
  <1>2. [f[p].data EXCEPT ![s] = d] \in Snapshots
    BY <1>1 DEF Snapshots
  <1>3. b = [data |-> [f[p].data EXCEPT ![s] = d], dirty |-> f[p].dirty]
    BY DEF Buffers
  <1>4. b \in Buffers
    BY <1>1, <1>2, <1>3 DEF Buffers
  <1>5. g = [f EXCEPT ![p] = b]
    OBVIOUS
  <1>6. \A q \in Parts : g[q] = IF q = p THEN b ELSE f[q]
    OBVIOUS
  <1>7. \A r \in Sectors : b.data[r] = IF r = s THEN d ELSE f[p].data[r]
    BY <1>1 DEF Snapshots
  <1>8. g \in [Parts -> Buffers]
    BY <1>4
  <1>9. b.dirty = f[p].dirty
    OBVIOUS
  <1> QED
    BY <1>7, <1>8 DEF IsPutSector

\* Replacing one dirty table in a family of buffers.
LEMMA PutDirty ==
  ASSUME NEW f \in [Parts -> Buffers], NEW p \in Parts, NEW D \in SUBSET Sectors,
         NEW g, g = [f EXCEPT ![p].dirty = D]
  PROVE  IsPutDirty(f, g, p, D)
  <1> DEFINE b == [f[p] EXCEPT !.dirty = D]
  <1>1. f[p] \in Buffers /\ f[p].data \in Snapshots
    BY DEF Buffers
  <1>2. b = [data |-> f[p].data, dirty |-> D]
    BY DEF Buffers
  <1>3. b \in Buffers
    BY DEF Buffers
  <1>4. g = [f EXCEPT ![p] = b]
    OBVIOUS
  <1> QED
    BY <1>3 DEF IsPutDirty

\* The initial states satisfy the invariant.
LEMMA InitIInv == Init => IInv
  <1> USE BufAssumption
  <1> SUFFICES ASSUME Init PROVE IInv
      OBVIOUS
  <1>1. fromChannel \in [Parts -> Buffers] /\ backup \in [Parts -> Buffers]
        /\ toDisk \in [Parts -> Buffers]
    BY DEF Init, Buffers
  <1>2. TypeOK
    BY DEF Init, TypeOK, Buffers, MainPcs, SavePcs
  <1>3. LockInv /\ IdInv /\ CopyInv
    BY DEF Init, LockInv, IdInv, CopyInv, HoldPcs, Threads, MainPcs, SavePcs, Parts
  <1>4. ChannelInv /\ BackupInv /\ StoredInv /\ CommitInv
    BY DEF Init, ChannelInv, BackupInv, StoredInv, CommitInv, SavesAreCommitted
  <1> QED
    BY <1>2, <1>3, <1>4 DEF IInv

\* Request preserves the invariant.
LEMMA RequestKeeps ==
  ASSUME IInv, NEW p \in Parts, Request(p)
  PROVE  IInv'
  <1> USE BufAssumption
      DEF IInv, Request, bufVars, Goto, Threads, MainPcs, SavePcs, DiskPcs, HoldPcs
  <1>1. TypeOK'
    BY DEF TypeOK, Parts
  <1>2. LockInv'
    BY DEF LockInv
  <1>3. IdInv'
    BY DEF IdInv
  <1>4. CopyInv'
    BY DEF CopyInv
  <1>5. ChannelInv'
    BY DEF ChannelInv, Serving
  <1>6. BackupInv'
    BY DEF BackupInv
  <1>7. StoredInv'
    BY DEF StoredInv
  <1>8. CommitInv'
    BY DEF CommitInv, SavesAreCommitted
  <1> QED
    BY <1>1, <1>2, <1>3, <1>4, <1>5, <1>6, <1>7, <1>8

\* markDirtyInfo preserves the invariant.
LEMMA markDirtyInfoKeeps ==
  ASSUME IInv, NEW start \in Sectors, NEW num \in 0 .. NSects, start + num <= NSects,
         markDirtyInfo(start, num)
  PROVE  IInv'
  <1> USE BufAssumption
      DEF IInv, markDirtyInfo, bufVars, Goto, Threads, MainPcs, SavePcs, DiskPcs, HoldPcs
  <1>0. PICK marks \in Marks(start, num) :
          fromChannel' = [fromChannel EXCEPT ![id["main"]].dirty = @ \cup marks]
    OBVIOUS
  <1>w. start .. start + num - 1 \in SUBSET Sectors /\ start .. NSects - 1 \in SUBSET Sectors
    BY DEF Sectors
  <1>m. marks = start .. start + num - 1 \/ (num = 0 /\ marks = start .. NSects - 1)
    BY DEF Marks
  <1>n. num = 0 => start .. start + num - 1 = {}
    BY DEF Sectors
  <1>a. /\ id["main"] \in Parts
        /\ window' \in SUBSET Sectors
        /\ marks \in SUBSET Sectors
        /\ window' \subseteq marks
    BY <1>w, <1>m, <1>n DEF TypeOK, IdInv
  <1>b. fromChannel[id["main"]].dirty \cup marks \in SUBSET Sectors
    BY <1>a DEF TypeOK, Buffers
  <1>c. IsPutDirty(fromChannel, fromChannel', id["main"],
                   fromChannel[id["main"]].dirty \cup marks)
    BY <1>0, <1>a, <1>b, PutDirty DEF TypeOK
  <1>1. TypeOK'
    BY <1>a, <1>c DEF TypeOK, LockInv, IdInv, Sectors, Parts, IsPutDirty
  <1>2. LockInv'
    BY DEF LockInv
  <1>3. IdInv'
    <2>1. fromChannel'[id["main"]].dirty = fromChannel[id["main"]].dirty \cup marks
      BY <1>a, <1>c DEF IsPutDirty
    <2>2. pc' = pc /\ id' = id /\ pc["main"] = "req"
      OBVIOUS
    <2>3. (window \subseteq fromChannel[IF pc["main"] = "req" THEN id["main"] ELSE 0].dirty)'
      BY <1>a, <2>1, <2>2
    <2> QED
      BY <2>2, <2>3 DEF IdInv
  <1>4. CopyInv'
    BY DEF CopyInv
  <1>5. ChannelInv'
    BY DEF Snapshots, LockInv, IdInv, CopyInv, ChannelInv, Serving
  <1>6. BackupInv'
    BY DEF BackupInv
  <1>7. StoredInv'
    BY DEF StoredInv
  <1>8. CommitInv'
    BY DEF CommitInv, SavesAreCommitted
  <1> QED
    BY <1>1, <1>2, <1>3, <1>4, <1>5, <1>6, <1>7, <1>8

\* writeData preserves the invariant.
LEMMA writeDataKeeps ==
  ASSUME IInv, NEW s \in Sectors, NEW d \in Data, writeData(s, d)
  PROVE  IInv'
  <1> USE BufAssumption
      DEF IInv, writeData, bufVars, Goto, Threads, MainPcs, SavePcs, DiskPcs, HoldPcs
  <1>a. id["main"] \in Parts
    BY DEF IdInv
  <1>c. IsPutSector(fromChannel, fromChannel', id["main"], s, d)
    BY <1>a, PutSector DEF TypeOK
  <1>1. TypeOK'
    BY <1>c DEF TypeOK, IsPutSector
  <1>2. LockInv'
    BY DEF LockInv
  <1>3. IdInv'
    BY DEF IdInv
  <1>4. CopyInv'
    BY DEF CopyInv
  <1>5. ChannelInv'
    BY DEF IdInv, ChannelInv, Serving
  <1>6. BackupInv'
    BY DEF BackupInv
  <1>7. StoredInv'
    BY DEF StoredInv
  <1>8. CommitInv'
    BY DEF CommitInv, SavesAreCommitted
  <1> QED
    BY <1>1, <1>2, <1>3, <1>4, <1>5, <1>6, <1>7, <1>8

\* Tail preserves the invariant.
LEMMA TailKeeps ==
  ASSUME IInv, Tail
  PROVE  IInv'
  <1> USE BufAssumption
      DEF IInv, Tail, bufVars, Goto, Threads, MainPcs, SavePcs, DiskPcs, HoldPcs
  <1>1. TypeOK'
    BY DEF TypeOK, Buffers, LockInv, IdInv
  <1>2. LockInv'
    BY DEF LockInv
  <1>3. IdInv'
    BY DEF IdInv
  <1>4. CopyInv'
    BY DEF CopyInv
  <1>5. ChannelInv'
    BY DEF ChannelInv, Serving
  <1>6. BackupInv'
    BY DEF BackupInv
  <1>7. StoredInv'
    BY DEF StoredInv
  <1>8. CommitInv'
    BY DEF CommitInv, SavesAreCommitted
  <1> QED
    BY <1>1, <1>2, <1>3, <1>4, <1>5, <1>6, <1>7, <1>8

\* Cut preserves the invariant.
LEMMA CutKeeps ==
  ASSUME IInv, Cut
  PROVE  IInv'
  <1> USE BufAssumption
      DEF IInv, Cut, bufVars, Goto, Threads, MainPcs, SavePcs, DiskPcs, HoldPcs
  <1>1. TypeOK'
    BY DEF TypeOK, Buffers, IdInv
  <1>2. LockInv'
    BY DEF LockInv
  <1>3. IdInv'
    BY DEF IdInv
  <1>4. CopyInv'
    BY DEF CopyInv
  <1>5. ChannelInv'
    BY DEF ChannelInv, Serving
  <1>6. BackupInv'
    BY DEF BackupInv
  <1>7. StoredInv'
    BY DEF StoredInv
  <1>8. CommitInv'
    BY DEF CommitInv, SavesAreCommitted
  <1> QED
    BY <1>1, <1>2, <1>3, <1>4, <1>5, <1>6, <1>7, <1>8

\* backupLock preserves the invariant.
LEMMA backupLockKeeps ==
  ASSUME IInv, backupLock
  PROVE  IInv'
  <1> USE BufAssumption
      DEF IInv, backupLock, Lock, bufVars, Goto, Threads, MainPcs, SavePcs, DiskPcs, HoldPcs
  <1>1. TypeOK'
    BY DEF TypeOK
  <1>2. LockInv'
    BY DEF TypeOK, LockInv
  <1>3. IdInv'
    BY DEF IdInv
  <1>4. CopyInv'
    BY DEF TypeOK, CopyInv, Sectors
  <1>5. ChannelInv'
    BY DEF ChannelInv, Serving
  <1>6. BackupInv'
    BY DEF BackupInv
  <1>7. StoredInv'
    BY DEF StoredInv
  <1>8. CommitInv'
    BY DEF CommitInv, SavesAreCommitted
  <1> QED
    BY <1>1, <1>2, <1>3, <1>4, <1>5, <1>6, <1>7, <1>8

\* backupCopy preserves the invariant.
LEMMA backupCopyKeeps ==
  ASSUME IInv, backupCopy
  PROVE  IInv'
  <1> USE BufAssumption
      DEF IInv, backupCopy, bufVars, Goto, Threads, MainPcs, SavePcs, DiskPcs, HoldPcs
  <1>a. id["main"] \in Parts /\ k["main"] \in Sectors
    BY DEF TypeOK, IdInv, Sectors
  <1>b. fromChannel[id["main"]].data[k["main"]] \in Data
    BY <1>a DEF TypeOK, Buffers, Snapshots
  <1>c. IsPutSector(backup, backup', id["main"], k["main"], fromChannel[id["main"]].data[k["main"]])
    BY <1>a, <1>b, PutSector DEF TypeOK
  <1>1. TypeOK'
    BY <1>c DEF TypeOK, LockInv, IsPutSector
  <1>2. LockInv'
    BY DEF LockInv
  <1>3. IdInv'
    BY DEF IdInv
  <1>4. CopyInv'
    <2>1. \A t \in Threads : pc'[t] # "getCopy"
      BY DEF LockInv
    <2>2. ASSUME NEW s \in Sectors, s < k'["main"]
          PROVE  fromChannel'[id["main"]].data[s] = backup'[id["main"]].data[s]
      <3>1. s < k["main"] \/ s = k["main"]
        BY <2>2, <1>a DEF Sectors
      <3> QED
        BY <3>1, <1>a, <1>c DEF CopyInv, IsPutSector
    <2> QED
      BY <2>1, <2>2 DEF CopyInv
  <1>5. ChannelInv'
    BY DEF ChannelInv, Serving
  <1>6. BackupInv'
    BY DEF ChannelInv, BackupInv
  <1>7. StoredInv'
    BY DEF StoredInv
  <1>8. CommitInv'
    BY DEF CommitInv, SavesAreCommitted
  <1> QED
    BY <1>1, <1>2, <1>3, <1>4, <1>5, <1>6, <1>7, <1>8

\* backupDirty preserves the invariant.
LEMMA backupDirtyKeeps ==
  ASSUME IInv, backupDirty
  PROVE  IInv'
  <1> USE BufAssumption
      DEF IInv, backupDirty, Unlock, bufVars, Goto, Threads, MainPcs, SavePcs, DiskPcs, HoldPcs
  <1>a. id["main"] \in Parts
    BY DEF IdInv
  <1>b. backup[id["main"]].dirty \cup fromChannel[id["main"]].dirty \in SUBSET Sectors
    BY <1>a DEF TypeOK, Buffers
  <1>c. IsPutDirty(backup, backup', id["main"], backup[id["main"]].dirty \cup fromChannel[id["main"]].dirty)
    BY <1>a, <1>b, PutDirty DEF TypeOK
  <1>e. fromChannel[id["main"]].data = backup[id["main"]].data
    <2>1. \A s \in Sectors : fromChannel[id["main"]].data[s] = backup[id["main"]].data[s]
      BY DEF CopyInv, Sectors
    <2> QED
      BY <2>1, <1>a DEF TypeOK, Buffers, Snapshots
  <1>1. TypeOK'
    <2>1. committed' \in [Parts -> SUBSET Snapshots]
      BY <1>a DEF TypeOK, Buffers
    <2>2. pc' \in [Threads -> MainPcs \cup SavePcs \cup DiskPcs] /\ id' \in [Threads -> 0 .. NParts]
      BY DEF TypeOK
    <2> QED
      BY <1>c, <2>1 DEF TypeOK, IsPutDirty
  <1>2. LockInv'
    BY DEF TypeOK, LockInv
  <1>3. IdInv'
    BY DEF IdInv, Parts
  <1>4. CopyInv'
    BY DEF TypeOK, CopyInv
  <1>5. ChannelInv'
    BY <1>e DEF ChannelInv, Serving
  <1>6. BackupInv'
    BY DEF TypeOK, BackupInv
  <1>7. StoredInv'
    BY DEF StoredInv
  <1>8. CommitInv'
    BY DEF TypeOK, CommitInv, SavesAreCommitted
  <1> QED
    BY <1>1, <1>2, <1>3, <1>4, <1>5, <1>6, <1>7, <1>8

\* giveEvent preserves the invariant.
LEMMA giveEventKeeps ==
  ASSUME IInv, giveEvent
  PROVE  IInv'
  <1> USE BufAssumption
      DEF IInv, giveEvent, bufVars, Goto, Threads, MainPcs, SavePcs, DiskPcs, HoldPcs
  <1>1. TypeOK'
    BY DEF TypeOK, Buffers, Snapshots, LockInv, IdInv
  <1>2. LockInv'
    BY DEF TypeOK, LockInv
  <1>3. IdInv'
    BY DEF TypeOK, Buffers, IdInv
  <1>4. CopyInv'
    BY DEF TypeOK, CopyInv
  <1>5. ChannelInv'
    BY DEF ChannelInv, Serving
  <1>6. BackupInv'
    BY DEF BackupInv
  <1>7. StoredInv'
    BY DEF LockInv, StoredInv
  <1>8. CommitInv'
    BY DEF TypeOK, CommitInv, SavesAreCommitted
  <1> QED
    BY <1>1, <1>2, <1>3, <1>4, <1>5, <1>6, <1>7, <1>8

\* restoreLock preserves the invariant.
LEMMA restoreLockKeeps ==
  ASSUME IInv, restoreLock
  PROVE  IInv'
  <1> USE BufAssumption
      DEF IInv, restoreLock, Lock, bufVars, Goto, Threads, MainPcs, SavePcs, DiskPcs, HoldPcs
  <1>1. TypeOK'
    BY DEF TypeOK
  <1>2. LockInv'
    BY DEF TypeOK, LockInv
  <1>3. IdInv'
    BY DEF IdInv
  <1>4. CopyInv'
    BY DEF TypeOK, LockInv, IdInv, CopyInv, Sectors, Parts
  <1>5. ChannelInv'
    BY DEF ChannelInv, Serving
  <1>6. BackupInv'
    BY DEF BackupInv
  <1>7. StoredInv'
    BY DEF StoredInv
  <1>8. CommitInv'
    BY DEF CommitInv, SavesAreCommitted
  <1> QED
    BY <1>1, <1>2, <1>3, <1>4, <1>5, <1>6, <1>7, <1>8

\* restoreCopy preserves the invariant.
LEMMA restoreCopyKeeps ==
  ASSUME IInv, restoreCopy
  PROVE  IInv'
  <1> USE BufAssumption
      DEF IInv, restoreCopy, bufVars, Goto, Threads, MainPcs, SavePcs, DiskPcs, HoldPcs
  <1>a. id["main"] \in Parts /\ k["main"] \in Sectors
    BY DEF TypeOK, IdInv, Sectors
  <1>b. backup[id["main"]].data[k["main"]] \in Data
    BY <1>a DEF TypeOK, Buffers, Snapshots
  <1>c. IsPutSector(fromChannel, fromChannel', id["main"], k["main"], backup[id["main"]].data[k["main"]])
    BY <1>a, <1>b, PutSector DEF TypeOK
  <1>1. TypeOK'
    <2>1. (k \in [Threads -> 0 .. NSects])'
      BY <1>a DEF TypeOK, Sectors
    <2> QED
      BY <1>c, <2>1 DEF TypeOK, IsPutSector
  <1>2. LockInv'
    BY DEF LockInv
  <1>3. IdInv'
    BY DEF IdInv
  <1>4. CopyInv'
    <2>1. \A t \in Threads : pc'[t] # "getCopy"
      BY DEF LockInv
    <2>2. ASSUME NEW s \in Sectors, s < k'["main"]
          PROVE  fromChannel'[id["main"]].data[s] = backup'[id["main"]].data[s]
      <3>1. s < k["main"] \/ s = k["main"]
        BY <2>2, <1>a DEF Sectors
      <3> QED
        BY <3>1, <1>c DEF CopyInv, IsPutSector
    <2> QED
      BY <2>1, <2>2 DEF CopyInv
  <1>5. ChannelInv'
    BY DEF ChannelInv, Serving
  <1>6. BackupInv'
    BY DEF BackupInv
  <1>7. StoredInv'
    BY DEF StoredInv
  <1>8. CommitInv'
    BY DEF CommitInv, SavesAreCommitted
  <1> QED
    BY <1>1, <1>2, <1>3, <1>4, <1>5, <1>6, <1>7, <1>8

\* restoreDirty preserves the invariant.
LEMMA restoreDirtyKeeps ==
  ASSUME IInv, restoreDirty
  PROVE  IInv'
  <1> USE BufAssumption
      DEF IInv, restoreDirty, Unlock, bufVars, Goto, Threads, MainPcs, SavePcs, DiskPcs, HoldPcs
  <1>a. id["main"] \in Parts
    BY DEF IdInv
  <1>b. backup[id["main"]].dirty \in SUBSET Sectors
    BY <1>a DEF TypeOK, Buffers
  <1>c. IsPutDirty(fromChannel, fromChannel', id["main"], backup[id["main"]].dirty)
    BY <1>a, <1>b, PutDirty DEF TypeOK
  <1>e. fromChannel[id["main"]].data = backup[id["main"]].data
    <2>1. \A s \in Sectors : fromChannel[id["main"]].data[s] = backup[id["main"]].data[s]
      BY DEF CopyInv, Sectors
    <2> QED
      BY <2>1, <1>a DEF TypeOK, Buffers, Snapshots
  <1>1. TypeOK'
    BY <1>c DEF TypeOK, IsPutDirty
  <1>2. LockInv'
    BY DEF TypeOK, LockInv
  <1>3. IdInv'
    BY DEF IdInv
  <1>4. CopyInv'
    BY DEF CopyInv, Sectors
  <1>5. ChannelInv'
    BY <1>a, <1>c, <1>e DEF ChannelInv, Serving, IsPutDirty
  <1>6. BackupInv'
    BY DEF BackupInv
  <1>7. StoredInv'
    BY DEF StoredInv
  <1>8. CommitInv'
    BY DEF CommitInv, SavesAreCommitted
  <1> QED
    BY <1>1, <1>2, <1>3, <1>4, <1>5, <1>6, <1>7, <1>8

\* waiteEvent preserves the invariant.
LEMMA waiteEventKeeps ==
  ASSUME IInv, waiteEvent
  PROVE  IInv'
  <1> USE BufAssumption
      DEF IInv, waiteEvent, bufVars, Goto, Threads, MainPcs, SavePcs, DiskPcs, HoldPcs
  <1>1. TypeOK'
    BY DEF TypeOK
  <1>2. LockInv'
    BY DEF LockInv
  <1>3. IdInv'
    BY DEF IdInv
  <1>4. CopyInv'
    BY DEF CopyInv
  <1>5. ChannelInv'
    BY DEF ChannelInv, Serving
  <1>6. BackupInv'
    BY DEF BackupInv
  <1>7. StoredInv'
    BY DEF StoredInv
  <1>8. CommitInv'
    BY DEF CommitInv, SavesAreCommitted
  <1> QED
    BY <1>1, <1>2, <1>3, <1>4, <1>5, <1>6, <1>7, <1>8

\* SpuriousWakeup preserves the invariant.
LEMMA SpuriousWakeupKeeps ==
  ASSUME IInv, SpuriousWakeup
  PROVE  IInv'
  <1> USE BufAssumption, CaliAssumption
      DEF IInv, SpuriousWakeup, bufVars, Goto, Threads, MainPcs, SavePcs, DiskPcs, HoldPcs
  <1>1. TypeOK'
    BY DEF TypeOK
  <1>0. is_cali_mode = FALSE
    BY DEF TypeOK
  <1>2. LockInv'
    BY <1>0 DEF LockInv
  <1>3. IdInv'
    BY DEF IdInv
  <1>4. CopyInv'
    BY DEF CopyInv
  <1>5. ChannelInv'
    BY DEF ChannelInv, Serving
  <1>6. BackupInv'
    BY DEF BackupInv
  <1>7. StoredInv'
    BY DEF StoredInv
  <1>8. CommitInv'
    BY DEF CommitInv, SavesAreCommitted
  <1> QED
    BY <1>1, <1>2, <1>3, <1>4, <1>5, <1>6, <1>7, <1>8

\* Wakeup preserves the invariant.
LEMMA WakeupKeeps ==
  ASSUME IInv, Wakeup
  PROVE  IInv'
  <1> USE BufAssumption
      DEF IInv, Wakeup, bufVars, Goto, Threads, MainPcs, SavePcs, DiskPcs, HoldPcs
  <1>1. TypeOK'
    BY DEF TypeOK
  <1>2. LockInv'
    BY DEF LockInv
  <1>3. IdInv'
    BY DEF IdInv
  <1>4. CopyInv'
    BY DEF CopyInv
  <1>5. ChannelInv'
    BY DEF ChannelInv, Serving
  <1>6. BackupInv'
    BY DEF BackupInv
  <1>7. StoredInv'
    BY DEF StoredInv
  <1>8. CommitInv'
    BY DEF CommitInv, SavesAreCommitted
  <1> QED
    BY <1>1, <1>2, <1>3, <1>4, <1>5, <1>6, <1>7, <1>8

\* ifHasDirty preserves the invariant.
LEMMA ifHasDirtyKeeps ==
  ASSUME IInv, NEW t \in Threads, ifHasDirty(t)
  PROVE  IInv'
  <1> USE BufAssumption
      DEF IInv, ifHasDirty, bufVars, Goto, Threads, MainPcs, SavePcs, DiskPcs, HoldPcs
  <1>1. TypeOK'
    <2>1. pc' \in [Threads -> MainPcs \cup SavePcs \cup DiskPcs]
      BY DEF TypeOK
    <2>2. id' \in [Threads -> 0 .. NParts]
      BY DEF TypeOK
    <2> QED
      BY DEF TypeOK
  <1>2. LockInv'
    BY DEF TypeOK, LockInv
  <1>3. IdInv'
    BY <1>1 DEF TypeOK, Buffers, LockInv, IdInv, Parts
  <1>4. CopyInv'
    BY DEF TypeOK, CopyInv
  <1>5. ChannelInv'
    BY DEF TypeOK, ChannelInv, Serving
  <1>6. BackupInv'
    BY DEF TypeOK, BackupInv
  <1>7. StoredInv'
    BY DEF TypeOK, StoredInv
  <1>8. CommitInv'
    BY DEF TypeOK, CommitInv, SavesAreCommitted
  <1> QED
    BY <1>1, <1>2, <1>3, <1>4, <1>5, <1>6, <1>7, <1>8

\* getDataLock preserves the invariant.
LEMMA getDataLockKeeps ==
  ASSUME IInv, NEW t \in Threads, getDataLock(t)
  PROVE  IInv'
  <1> USE BufAssumption
      DEF IInv, getDataLock, Lock, bufVars, Goto, Threads, MainPcs, SavePcs, DiskPcs, HoldPcs
  <1>1. TypeOK'
    BY DEF TypeOK
  <1>2. LockInv'
    BY DEF TypeOK, LockInv
  <1>3. IdInv'
    BY DEF IdInv
  <1>4. CopyInv'
    BY DEF TypeOK, Snapshots, LockInv, IdInv, CopyInv, Sectors
  <1>5. ChannelInv'
    BY DEF ChannelInv, Serving
  <1>6. BackupInv'
    BY DEF BackupInv
  <1>7. StoredInv'
    BY DEF StoredInv
  <1>8. CommitInv'
    BY DEF CommitInv, SavesAreCommitted
  <1> QED
    BY <1>1, <1>2, <1>3, <1>4, <1>5, <1>6, <1>7, <1>8

\* getDataCopy preserves the invariant.
LEMMA getDataCopyKeeps ==
  ASSUME IInv, NEW t \in Threads, getDataCopy(t)
  PROVE  IInv'
  <1> USE BufAssumption
      DEF IInv, getDataCopy, bufVars, Goto, Threads, MainPcs, SavePcs, DiskPcs, HoldPcs
  <1>a. id[t] \in Parts /\ k[t] \in Sectors
    BY DEF TypeOK, IdInv, Sectors
  <1>b. backup[id[t]].data[k[t]] \in Data
    BY <1>a DEF TypeOK, Buffers, Snapshots
  <1>c. IsPutSector(toDisk, toDisk', id[t], k[t], backup[id[t]].data[k[t]])
    BY <1>a, <1>b, PutSector DEF TypeOK
  <1>1. TypeOK'
    <2>1. (k \in [Threads -> 0 .. NSects])'
      BY <1>a DEF TypeOK, Sectors
    <2> QED
      BY <1>c, <2>1 DEF TypeOK, IsPutSector
  <1>2. LockInv'
    BY DEF LockInv
  <1>3. IdInv'
    BY DEF IdInv
  <1>4. CopyInv'
    <2>1. (pc["main"] \in {"bkCopy", "rsCopy"} =>
             \A s \in Sectors : s < k["main"] =>
               fromChannel[id["main"]].data[s] = backup[id["main"]].data[s])'
      BY DEF CopyInv
    <2>2. ASSUME NEW u \in Threads, pc'[u] = "getCopy", NEW s \in Sectors, s < k'[u]
          PROVE  toDisk'[id'[u]].data[s] = backup'[id'[u]].data[s]
      <3>1. u = t
        BY <2>2 DEF LockInv
      <3>2. k'[t] = k[t] + 1 /\ id' = id /\ backup' = backup
        BY DEF TypeOK
      <3>3. CASE s = k[t]
        BY <1>c, <3>1, <3>3 DEF IsPutSector
      <3>4. CASE s # k[t]
        <4>1. s < k[t]
          BY <1>a, <2>2, <3>1, <3>4 DEF Sectors
        <4>2. toDisk[id[t]].data[s] = backup[id[t]].data[s]
          BY <2>2, <4>1 DEF CopyInv
        <4> QED
          BY <3>1, <4>2
      <3> QED
        BY <3>3, <3>4
    <2> QED
      BY <2>1, <2>2 DEF CopyInv
  <1>5. ChannelInv'
    BY DEF ChannelInv, Serving
  <1>6. BackupInv'
    <2> SUFFICES ASSUME NEW p \in Parts, NEW s \in Sectors,
                        backup[p].data[s] # toDisk'[p].data[s]
                 PROVE  \/ s \in backup[p].dirty
                        \/ pc["main"] = "bkCopy" /\ id["main"] = p /\ s \in fromChannel[p].dirty
      BY DEF BackupInv
    <2>1. backup[p].data[s] # toDisk[p].data[s]
      BY <1>a, <1>c DEF IsPutSector
    <2> QED
      BY <2>1 DEF BackupInv
  <1>7. StoredInv'
    <2> SUFFICES ASSUME NEW p \in Parts, NEW s \in Sectors,
                        toDisk'[p].data[s] # stored[p][s]
                 PROVE  \/ s \in toDisk'[p].dirty
                        \/ s \in backup[p].dirty
                             /\ \E u \in Threads : pc[u] = "getCopy" /\ id[u] = p
      BY DEF StoredInv
    <2>1. toDisk'[p].dirty = toDisk[p].dirty
      BY <1>c DEF IsPutSector
    <2>2. CASE toDisk[p].data[s] # stored[p][s]
      BY <2>1, <2>2 DEF StoredInv
    <2>3. CASE toDisk[p].data[s] = stored[p][s]
      <3>1. p = id[t] /\ backup[p].data[s] # toDisk[p].data[s]
        BY <1>a, <1>c, <2>3 DEF IsPutSector
      <3>2. pc["main"] # "bkCopy"
        BY DEF LockInv
      <3> QED
        BY <3>1, <3>2 DEF BackupInv
    <2> QED
      BY <2>2, <2>3
  <1>8. CommitInv'
    <2>1. \A u \in Threads : pc[u] # "write"
      BY DEF LockInv
    <2> QED
      BY <2>1 DEF CommitInv, SavesAreCommitted
  <1> QED
    BY <1>1, <1>2, <1>3, <1>4, <1>5, <1>6, <1>7, <1>8

\* getDataDirty preserves the invariant.
LEMMA getDataDirtyKeeps ==
  ASSUME IInv, NEW t \in Threads, getDataDirty(t)
  PROVE  IInv'
  <1> USE BufAssumption
      DEF IInv, getDataDirty, Unlock, bufVars, Goto, Threads, MainPcs, SavePcs, DiskPcs, HoldPcs
  <1>a. id[t] \in Parts
    BY DEF IdInv
  <1>b. toDisk[id[t]].dirty \cup backup[id[t]].dirty \in SUBSET Sectors
    BY <1>a DEF TypeOK, Buffers
  <1>c. IsPutDirty(toDisk, toDisk', id[t], toDisk[id[t]].dirty \cup backup[id[t]].dirty)
    BY <1>a, <1>b, PutDirty DEF TypeOK
  <1>d. IsPutDirty(backup, backup', id[t], {})
    BY <1>a, PutDirty DEF TypeOK
  <1>e. toDisk[id[t]].data = backup[id[t]].data
    <2>1. \A s \in Sectors : toDisk[id[t]].data[s] = backup[id[t]].data[s]
      BY DEF CopyInv, TypeOK, Sectors
    <2> QED
      BY <2>1, <1>a DEF TypeOK, Buffers, Snapshots
  <1>1. TypeOK'
    BY <1>c, <1>d DEF TypeOK, IsPutDirty
  <1>2. LockInv'
    BY DEF TypeOK, LockInv
  <1>3. IdInv'
    BY DEF IdInv
  <1>4. CopyInv'
    <2>1. \A u \in Threads : pc'[u] \notin HoldPcs
      BY DEF TypeOK, LockInv
    <2> QED
      BY <2>1 DEF CopyInv
  <1>5. ChannelInv'
    BY DEF ChannelInv, Serving
  <1>6. BackupInv'
    BY <1>e DEF BackupInv
  <1>7. StoredInv'
    BY DEF TypeOK, StoredInv
  <1>8. CommitInv'
    <2>1. \A p \in Parts : backup'[p].data = backup[p].data /\ toDisk'[p].data = toDisk[p].data
      BY <1>c, <1>d DEF IsPutDirty
    <2>2. backup[id[t]].data \in committed[id[t]]
      BY <1>a DEF CommitInv, LockInv
    <2>3. \A p \in Parts : backup'[p].data \in committed'[p]
                             \/ (pc'["main"] = "bkCopy" /\ id'["main"] = p)
      BY <2>1 DEF CommitInv, LockInv
    <2>4. SavesAreCommitted'
      BY <1>e, <2>1, <2>2 DEF CommitInv, SavesAreCommitted
    <2> QED
      BY <2>3, <2>4 DEF CommitInv
  <1> QED
    BY <1>1, <1>2, <1>3, <1>4, <1>5, <1>6, <1>7, <1>8

\* saveToDiskWrite preserves the invariant.
LEMMA saveToDiskWriteKeeps ==
  ASSUME IInv, NEW t \in Threads, NEW ok \in BOOLEAN, saveToDiskWrite(t, ok)
  PROVE  IInv'
  <1> USE BufAssumption
      DEF IInv, saveToDiskWrite, bufVars, Goto, Threads, MainPcs, SavePcs, DiskPcs, HoldPcs
  <1>a. id[t] \in Parts
    BY DEF IdInv
  <1>c. /\ toDisk' \in [Parts -> Buffers]
        /\ \A q \in Parts : toDisk'[q].data = toDisk[q].data
        /\ \A q \in Parts : toDisk'[q].dirty = IF ok /\ q = id[t] THEN {} ELSE toDisk[q].dirty
    <2>1. CASE ok
      <3>1. IsPutDirty(toDisk, toDisk', id[t], {})
        BY <1>a, <2>1, PutDirty DEF TypeOK
      <3> QED
        BY <3>1 DEF IsPutDirty
    <2>2. CASE ~ok
      BY <2>2 DEF TypeOK
    <2> QED
      BY <2>1, <2>2
  <1>d. /\ stored' \in [Parts -> Snapshots]
        /\ \A q \in Parts : stored'[q] = IF ok /\ q = id[t] THEN toDisk[q].data ELSE stored[q]
    BY <1>a DEF TypeOK, Buffers
  <1>1. TypeOK'
    BY <1>a, <1>c, <1>d DEF TypeOK, Parts
  <1>2. LockInv'
    BY DEF LockInv
  <1>3. IdInv'
    BY DEF TypeOK, IdInv
  <1>4. CopyInv'
    BY DEF LockInv, CopyInv
  <1>5. ChannelInv'
    <2>1. \A p \in Parts : Serving(p) => Serving(p)'
      BY DEF Serving
    <2> QED
      BY <2>1 DEF ChannelInv
  <1>6. BackupInv'
    BY <1>c DEF BackupInv
  <1>7. StoredInv'
    <2> SUFFICES ASSUME NEW p \in Parts, NEW s \in Sectors,
                        toDisk'[p].data[s] # stored'[p][s]
                 PROVE  \/ s \in toDisk'[p].dirty
                        \/ s \in backup[p].dirty
                             /\ \E u \in Threads : pc'[u] = "getCopy" /\ id'[u] = p
      BY DEF StoredInv
    <2>1. ~(ok /\ p = id[t]) /\ stored'[p] = stored[p]
      BY <1>c, <1>d
    <2>2. toDisk'[p].data = toDisk[p].data /\ toDisk'[p].dirty = toDisk[p].dirty
      BY <1>c, <2>1
    <2>3. \A u \in Threads : pc[u] = "getCopy" => pc'[u] = pc[u] /\ id'[u] = id[u]
      BY DEF TypeOK
    <2> QED
      BY <2>1, <2>2, <2>3 DEF StoredInv
  <1>8. CommitInv'
    BY DEF TypeOK, LockInv, CommitInv, SavesAreCommitted
  <1> QED
    BY <1>1, <1>2, <1>3, <1>4, <1>5, <1>6, <1>7, <1>8

\* saveToDiskDone preserves the invariant.
LEMMA saveToDiskDoneKeeps ==
  ASSUME IInv, NEW t \in Threads, saveToDiskDone(t)
  PROVE  IInv'
  <1> USE BufAssumption
      DEF IInv, saveToDiskDone, bufVars, Goto, Threads, MainPcs, SavePcs, DiskPcs, HoldPcs
  <1>1. TypeOK'
    BY DEF TypeOK
  <1>2. LockInv'
    BY DEF LockInv
  <1>3. IdInv'
    BY DEF TypeOK, Buffers, IdInv, Parts
  <1>4. CopyInv'
    BY DEF CopyInv
  <1>5. ChannelInv'
    BY DEF ChannelInv, Serving
  <1>6. BackupInv'
    BY DEF BackupInv
  <1>7. StoredInv'
    BY DEF StoredInv
  <1>8. CommitInv'
    BY DEF CommitInv, SavesAreCommitted
  <1> QED
    BY <1>1, <1>2, <1>3, <1>4, <1>5, <1>6, <1>7, <1>8

\* The invariant is inductive: it holds in every reachable state.
THEOREM BufInvariant == Spec => []IInv
  <1>1. IInv /\ [Next]_vars => IInv'
    <2> SUFFICES ASSUME IInv, [Next]_vars PROVE IInv'
        OBVIOUS
    <2>1. CASE Receive
      BY <2>1, RequestKeeps, markDirtyInfoKeeps, writeDataKeeps, TailKeeps, CutKeeps DEF
         Receive
    <2>2. CASE MainCall
      BY <2>2, backupLockKeeps, backupCopyKeeps, backupDirtyKeeps, giveEventKeeps,
         restoreLockKeeps, restoreCopyKeeps, restoreDirtyKeeps DEF MainCall
    <2>3. CASE waiteEvent \/ SpuriousWakeup \/ Wakeup
      BY <2>3, waiteEventKeeps, SpuriousWakeupKeeps, WakeupKeeps
    <2>4. ASSUME NEW t \in Threads, saveToDisk(t) PROVE IInv'
      BY <2>4, ifHasDirtyKeeps, getDataLockKeeps, getDataCopyKeeps, getDataDirtyKeeps,
         saveToDiskDoneKeeps DEF saveToDisk
    <2>5. ASSUME NEW t \in Threads, NEW ok \in BOOLEAN, saveToDiskWrite(t, ok) PROVE IInv'
      BY <2>5, saveToDiskWriteKeeps
    <2>6. CASE UNCHANGED vars
      BY <2>6 DEF vars, IInv, TypeOK, LockInv, IdInv, CopyInv, ChannelInv, BackupInv,
         StoredInv, CommitInv, SavesAreCommitted, Serving
    <2> QED
      BY <2>1, <2>2, <2>3, <2>4, <2>5, <2>6 DEF Next
  <1> QED
    BY <1>1, InitIInv, PTL DEF Spec

\* Type correctness of the buffers, the mutex and both threads.
THEOREM BufTypes == Spec => []TypeOK
  BY BufInvariant, PTL DEF IInv

\* ramDisk_Write is only ever given snapshots that backupData committed.
THEOREM BufSavesCommitted == Spec => []SavesAreCommitted
  BY BufInvariant, PTL DEF IInv, CommitInv

\* A committed sector that is not on disk keeps a dirty bit.
THEOREM BufNothingForgotten == Spec => []NothingForgotten
  <1>1. IInv => NothingForgotten
    BY DEF IInv, BackupInv, StoredInv, NothingForgotten
  <1> QED
    BY <1>1, BufInvariant, PTL

\* restoreData leaves nothing of a request that was cut off.
THEOREM BufCutRequests == Spec => []CutRequestsLeaveNothing
  <1>1. IInv => CutRequestsLeaveNothing
    <2> SUFFICES ASSUME IInv, pc["main"] = "run", NEW p \in Parts
                 PROVE  fromChannel[p].data = backup[p].data
        BY DEF CutRequestsLeaveNothing
    <2>1. \A s \in Sectors : fromChannel[p].data[s] = backup[p].data[s]
      BY DEF IInv, ChannelInv, Serving
    <2> QED
      BY <2>1 DEF IInv, TypeOK, Buffers, Snapshots
  <1> QED
    BY <1>1, BufInvariant, PTL

=============================================================================
