-------------------------------- MODULE NvBuf --------------------------------
(***************************************************************************)
(* The RAM buffers of cp_diskserver (nvitem_buf.c), the one mutex and one  *)
(* condition variable that protect them (nvitem_os.c), and the two threads *)
(* of nvitem_server.c: "main" runs the sync protocol, "save" is pSaveTask. *)
(*                                                                         *)
(* Each partition has three buffers, each with its dirty table:            *)
(*   fromChannel  what the current request writes (main only);             *)
(*   backup       the last committed request;                              *)
(*   toDisk       the snapshot handed to ramDisk_Write (saver only).       *)
(* A memcpy is a loop over sectors, so that a missing lock would show as a *)
(* mixed snapshot.  Sectors are the unit of writeData here; the checksum   *)
(* every buffer carries changes with its data and is left out.             *)
(***************************************************************************)
EXTENDS Integers

CONSTANTS NParts,   \* ramNvCtl.partNum
          NSects,   \* sctNum of every partition
          Data,     \* contents of a sector
          Spurious  \* the modes in which pthread_cond_wait may return without a signal

ASSUME BufAssumption == /\ NParts \in Nat \ {0}
                        /\ NSects \in Nat \ {0}
                        /\ Spurious \subseteq BOOLEAN

\* In calibration mode main saves by itself and nothing is ever signalled.  A wakeup
\* without a signal would put pSaveTask into saveToDisk beside main, both using
\* toDisk, which has no lock of its own: the code is right only without one.
ASSUME CaliAssumption == TRUE \notin Spurious

VARIABLES fromChannel, backup, toDisk,
          mutex,         \* communicate.mutex: the thread that holds it, or "none"
          pc,            \* where each thread is
          id,            \* the partition each thread works on
          k,             \* the sector each thread's memcpy has reached
          is_cali_mode,  \* argv[2]: calibration or normal
          window,        \* sectors the current body announced and has not delivered
          stored,        \* history: data of the last ramDisk_Write that returned 1
          committed      \* history: the snapshots acknowledged to the modem

bufVars == <<fromChannel, backup, toDisk>>
vars == <<fromChannel, backup, toDisk, mutex, pc, id, k, is_cali_mode, window, stored, committed>>

Parts == 0 .. NParts - 1
Sectors == 0 .. NSects - 1
Threads == {"main", "save"}
Snapshots == [Sectors -> Data]
Buffers == [data : Snapshots, dirty : SUBSET Sectors]

MainPcs == {"run", "req", "bkLock", "bkCopy", "give", "rsLock", "rsCopy"}
SavePcs == {"start", "waiting", "woken"}
DiskPcs == {"check", "getLock", "getCopy", "write"}

Init ==
  /\ fromChannel \in [Parts -> [data : Snapshots, dirty : {{}}]]
  /\ backup = fromChannel
  /\ toDisk = fromChannel
  /\ mutex = "none"
  /\ pc = [t \in Threads |-> IF t = "main" THEN "run" ELSE "start"]
  /\ id = [t \in Threads |-> 0]
  /\ k = [t \in Threads |-> 0]
  /\ is_cali_mode \in BOOLEAN
  /\ window = {}
  /\ stored = [p \in Parts |-> fromChannel[p].data]
  /\ committed = [p \in Parts |-> {fromChannel[p].data}]

Goto(t, l) == pc' = [pc EXCEPT ![t] = l]

\* pthread_mutex_lock (getMutex) on the way from one label to the next; the memcpy
\* that follows starts at sector 0.
Lock(t, from, to) ==
  /\ pc[t] = from
  /\ mutex = "none"
  /\ mutex' = t
  /\ k' = [k EXCEPT ![t] = 0]
  /\ Goto(t, to)

\* pthread_mutex_unlock (putMutex) at the end of a copy.
Unlock(t, to) ==
  /\ mutex' = "none"
  /\ k' = [k EXCEPT ![t] = 0]
  /\ Goto(t, to)

-----------------------------------------------------------------------------
(* main, driven by nvitem_sync.c: a request on one partition               *)

Request(p) ==
  /\ pc["main"] = "run"
  /\ id' = [id EXCEPT !["main"] = p]
  /\ Goto("main", "req")
  /\ UNCHANGED <<bufVars, mutex, k, window, stored, committed, is_cali_mode>>

\* The sets of dirty bits _markDirtyInfo may set.  For num = 0 the code shifts a
\* 32-bit word by 32, which C leaves open: no bit, or the rest of the word.
Marks(start, num) == {start .. start + num - 1}
                       \cup (IF num = 0 THEN {start .. NSects - 1} ELSE {})

\* _syncGetBody accepts a body: sectors start .. start+num-1 will follow.
markDirtyInfo(start, num) ==
  /\ pc["main"] = "req"
  /\ window = {}
  /\ window' = start .. start + num - 1
  /\ \E marks \in Marks(start, num) :
       fromChannel' = [fromChannel EXCEPT ![id["main"]].dirty = @ \cup marks]
  /\ UNCHANGED <<backup, toDisk, mutex, pc, id, k, stored, committed, is_cali_mode>>

\* The next sector of the body arrives.
writeData(s, d) ==
  /\ pc["main"] = "req"
  /\ s \in window
  /\ \A r \in window : s <= r
  /\ fromChannel' = [fromChannel EXCEPT ![id["main"]].data[s] = d]
  /\ window' = window \ {s}
  /\ UNCHANGED <<backup, toDisk, mutex, pc, id, k, stored, committed, is_cali_mode>>

\* _syncReset(SYNC_SUC_RESET): the tail came after all the data.
Tail ==
  /\ pc["main"] = "req"
  /\ window = {}
  /\ Goto("main", "bkLock")
  /\ UNCHANGED <<bufVars, mutex, id, k, window, stored, committed, is_cali_mode>>

\* _syncReset(SYNC_FAIL_RESET): the request is cut off at any point.
Cut ==
  /\ pc["main"] = "req"
  /\ window' = {}
  /\ Goto("main", "rsLock")
  /\ UNCHANGED <<bufVars, mutex, id, k, stored, committed, is_cali_mode>>

backupLock ==
  /\ Lock("main", "bkLock", "bkCopy")
  /\ UNCHANGED <<bufVars, id, window, stored, committed, is_cali_mode>>

backupCopy ==
  /\ pc["main"] = "bkCopy"
  /\ k["main"] < NSects
  /\ LET p == id["main"]
         s == k["main"] IN
       backup' = [backup EXCEPT ![p].data[s] = fromChannel[p].data[s]]
  /\ k' = [k EXCEPT !["main"] = @ + 1]
  /\ UNCHANGED <<fromChannel, toDisk, mutex, pc, id, window, stored, committed, is_cali_mode>>

\* Variant: calibration mode is not told apart, pSaveTask is signalled always.
backupDirty_OnlySignals ==
  /\ pc["main"] = "bkCopy"
  /\ k["main"] = NSects
  /\ LET p == id["main"] IN
       /\ backup' = [backup EXCEPT ![p].dirty = @ \cup fromChannel[p].dirty]
       /\ committed' = [committed EXCEPT ![p] = @ \cup {backup[p].data}]
  /\ Unlock("main", "give")
  /\ UNCHANGED <<fromChannel, toDisk, id, window, stored, is_cali_mode>>

\* The dirty bits are merged and the mutex released.  A calibration daemon goes
\* on to saveToDisk itself, the normal one to giveEvent.
backupDirty ==
  /\ pc["main"] = "bkCopy"
  /\ k["main"] = NSects
  /\ LET p == id["main"] IN
       /\ backup' = [backup EXCEPT ![p].dirty = @ \cup fromChannel[p].dirty]
       /\ committed' = [committed EXCEPT ![p] = @ \cup {backup[p].data}]
  /\ Unlock("main", IF is_cali_mode THEN "check" ELSE "give")
  /\ id' = [id EXCEPT !["main"] = IF is_cali_mode THEN 0 ELSE @]
  /\ UNCHANGED <<fromChannel, toDisk, window, stored, is_cali_mode>>

\* pthread_cond_signal: nothing is remembered when nobody waits.
giveEvent ==
  /\ pc["main"] = "give"
  /\ mutex = "none"
  /\ pc' = [pc EXCEPT !["main"] = "run",
                      !["save"] = IF @ = "waiting" THEN "woken" ELSE @]
  /\ UNCHANGED <<bufVars, mutex, id, k, window, stored, committed, is_cali_mode>>

restoreLock ==
  /\ Lock("main", "rsLock", "rsCopy")
  /\ UNCHANGED <<bufVars, id, window, stored, committed, is_cali_mode>>

\* Variant: partition 0 is restored whatever partition the request was for.
restoreCopy_WrongPart ==
  /\ pc["main"] = "rsCopy"
  /\ k["main"] < NSects
  /\ LET s == k["main"] IN
       fromChannel' = [fromChannel EXCEPT ![0].data[s] = backup[0].data[s]]
  /\ k' = [k EXCEPT !["main"] = @ + 1]
  /\ UNCHANGED <<backup, toDisk, mutex, pc, id, window, stored, committed, is_cali_mode>>

restoreCopy ==
  /\ pc["main"] = "rsCopy"
  /\ k["main"] < NSects
  /\ LET p == id["main"]
         s == k["main"] IN
       fromChannel' = [fromChannel EXCEPT ![p].data[s] = backup[p].data[s]]
  /\ k' = [k EXCEPT !["main"] = @ + 1]
  /\ UNCHANGED <<backup, toDisk, mutex, pc, id, window, stored, committed, is_cali_mode>>

restoreDirty ==
  /\ pc["main"] = "rsCopy"
  /\ k["main"] = NSects
  /\ fromChannel' = [fromChannel EXCEPT ![id["main"]].dirty = backup[id["main"]].dirty]
  /\ Unlock("main", "run")
  /\ UNCHANGED <<backup, toDisk, id, window, stored, committed, is_cali_mode>>

-----------------------------------------------------------------------------
(* pSaveTask                                                               *)

\* waiteEvent: take the mutex, let it go inside pthread_cond_wait.
waiteEvent ==
  /\ pc["save"] = "start"
  /\ mutex = "none"
  /\ Goto("save", "waiting")
  /\ UNCHANGED <<bufVars, mutex, id, k, window, stored, committed, is_cali_mode>>

\* pthread_cond_wait is not in a loop over a condition: a return without a signal
\* looks like one with.
SpuriousWakeup ==
  /\ is_cali_mode \in Spurious
  /\ pc["save"] = "waiting"
  /\ Goto("save", "woken")
  /\ UNCHANGED <<bufVars, mutex, id, k, window, stored, committed, is_cali_mode>>

\* pthread_cond_wait takes the mutex back, waiteEvent releases it.
Wakeup ==
  /\ pc["save"] = "woken"
  /\ mutex = "none"
  /\ id' = [id EXCEPT !["save"] = 0]
  /\ Goto("save", "check")
  /\ UNCHANGED <<bufVars, mutex, k, window, stored, committed, is_cali_mode>>

-----------------------------------------------------------------------------
(* saveToDisk, run by pSaveTask or, in calibration mode, by main           *)

\* __ifHasDirty looks at backup.dirty without the mutex.
ifHasDirty(t) ==
  /\ pc[t] = "check"
  /\ id[t] < NParts
  /\ IF backup[id[t]].dirty # {}
       THEN Goto(t, "getLock") /\ UNCHANGED id
       ELSE id' = [id EXCEPT ![t] = @ + 1] /\ UNCHANGED pc
  /\ UNCHANGED <<bufVars, mutex, k, window, stored, committed, is_cali_mode>>

\* Variant: the snapshot is taken without the mutex.
getDataLock_NoMutex(t) ==
  /\ pc[t] = "getLock"
  /\ k' = [k EXCEPT ![t] = 0]
  /\ Goto(t, "getCopy")
  /\ UNCHANGED <<bufVars, mutex, id, window, stored, committed, is_cali_mode>>

getDataLock(t) ==
  /\ Lock(t, "getLock", "getCopy")
  /\ UNCHANGED <<bufVars, id, window, stored, committed, is_cali_mode>>

getDataCopy(t) ==
  /\ pc[t] = "getCopy"
  /\ k[t] < NSects
  /\ toDisk' = [toDisk EXCEPT ![id[t]].data[k[t]] = backup[id[t]].data[k[t]]]
  /\ k' = [k EXCEPT ![t] = @ + 1]
  /\ UNCHANGED <<fromChannel, backup, mutex, pc, id, window, stored, committed, is_cali_mode>>

getDataDirty(t) ==
  /\ pc[t] = "getCopy"
  /\ k[t] = NSects
  /\ toDisk' = [toDisk EXCEPT ![id[t]].dirty = @ \cup backup[id[t]].dirty]
  /\ backup' = [backup EXCEPT ![id[t]].dirty = {}]
  /\ Unlock(t, "write")
  /\ UNCHANGED <<fromChannel, id, window, stored, committed, is_cali_mode>>

\* Variant: a successful write cleans the toDisk tables of all partitions.
saveToDiskWrite_CleansAll(t, ok) ==
  /\ pc[t] = "write"
  /\ IF ok
       THEN /\ toDisk' = [p \in Parts |-> [toDisk[p] EXCEPT !.dirty = {}]]
            /\ stored' = [stored EXCEPT ![id[t]] = toDisk[id[t]].data]
       ELSE UNCHANGED <<toDisk, stored>>
  /\ id' = [id EXCEPT ![t] = @ + 1]
  /\ Goto(t, "check")
  /\ UNCHANGED <<fromChannel, backup, mutex, k, window, committed, is_cali_mode>>

\* Variant: saveToDisk returns after the first partition it wrote.
saveToDiskWrite_OnlyFirst(t, ok) ==
  /\ pc[t] = "write"
  /\ IF ok
       THEN /\ toDisk' = [toDisk EXCEPT ![id[t]].dirty = {}]
            /\ stored' = [stored EXCEPT ![id[t]] = toDisk[id[t]].data]
       ELSE UNCHANGED <<toDisk, stored>>
  /\ id' = [id EXCEPT ![t] = NParts]
  /\ Goto(t, "check")
  /\ UNCHANGED <<fromChannel, backup, mutex, k, window, committed, is_cali_mode>>

\* Variant: backup.dirty is cleaned after the write instead of at the copy, a commit
\* that came in between included.
saveToDiskWrite_CleansBackup(t, ok) ==
  /\ pc[t] = "write"
  /\ IF ok
       THEN /\ toDisk' = [toDisk EXCEPT ![id[t]].dirty = {}]
            /\ backup' = [backup EXCEPT ![id[t]].dirty = {}]
            /\ stored' = [stored EXCEPT ![id[t]] = toDisk[id[t]].data]
       ELSE UNCHANGED <<toDisk, backup, stored>>
  /\ id' = [id EXCEPT ![t] = @ + 1]
  /\ Goto(t, "check")
  /\ UNCHANGED <<fromChannel, mutex, k, window, committed, is_cali_mode>>

\* ramDisk_Write returns; only a success clears toDisk.dirty, and a failure is
\* not tried again: the next look is at backup.dirty.
saveToDiskWrite(t, ok) ==
  /\ pc[t] = "write"
  /\ IF ok
       THEN /\ toDisk' = [toDisk EXCEPT ![id[t]].dirty = {}]
            /\ stored' = [stored EXCEPT ![id[t]] = toDisk[id[t]].data]
       ELSE UNCHANGED <<toDisk, stored>>
  /\ id' = [id EXCEPT ![t] = @ + 1]
  /\ Goto(t, "check")
  /\ UNCHANGED <<fromChannel, backup, mutex, k, window, committed, is_cali_mode>>

saveToDiskDone(t) ==
  /\ pc[t] = "check"
  /\ id[t] = NParts
  /\ id' = [id EXCEPT ![t] = 0]
  /\ Goto(t, IF t = "main" THEN "run" ELSE "start")
  /\ UNCHANGED <<bufVars, mutex, k, window, stored, committed, is_cali_mode>>

-----------------------------------------------------------------------------
\* What the modem's packets make main do.
Receive ==
  \/ \E p \in Parts : Request(p)
  \/ \E start \in Sectors, num \in 0 .. NSects :
       start + num <= NSects /\ markDirtyInfo(start, num)
  \/ \E s \in Sectors, d \in Data : writeData(s, d)
  \/ Tail
  \/ Cut

\* main inside backupData or restoreData.
MainCall ==
  \/ backupLock \/ backupCopy \/ backupDirty \/ giveEvent
  \/ restoreLock \/ restoreCopy \/ restoreDirty

\* saveToDisk up to the call of ramDisk_Write.
saveToDisk(t) ==
  \/ ifHasDirty(t) \/ getDataLock(t) \/ getDataCopy(t) \/ getDataDirty(t) \/ saveToDiskDone(t)

Next ==
  \/ Receive
  \/ MainCall
  \/ waiteEvent
  \/ SpuriousWakeup
  \/ Wakeup
  \/ \E t \in Threads : saveToDisk(t) \/ \E ok \in BOOLEAN : saveToDiskWrite(t, ok)

Spec == Init /\ [][Next]_vars

\* A thread that can go on eventually does; a thread asking for the mutex again and
\* again finds it free eventually (main holds it for a memcpy per request and then
\* waits for the modem).  Nothing is assumed of the modem.
Fairness ==
  /\ WF_vars(MainCall)
  /\ WF_vars(waiteEvent)
  /\ SF_vars(Wakeup)
  /\ \A t \in Threads :
       /\ WF_vars(ifHasDirty(t)) /\ WF_vars(getDataCopy(t)) /\ WF_vars(getDataDirty(t))
       /\ WF_vars(saveToDiskDone(t))
       /\ WF_vars(\E ok \in BOOLEAN : saveToDiskWrite(t, ok))
       /\ SF_vars(getDataLock(t))

FairSpec == Spec /\ Fairness

-----------------------------------------------------------------------------
(* Properties                                                              *)

\* Every variable keeps its type: buffers, dirty tables, mutex, program counters.
TypeOK ==
  /\ fromChannel \in [Parts -> Buffers]
  /\ backup \in [Parts -> Buffers]
  /\ toDisk \in [Parts -> Buffers]
  /\ mutex \in Threads \cup {"none"}
  /\ pc \in [Threads -> MainPcs \cup SavePcs \cup DiskPcs]
  /\ id \in [Threads -> 0 .. NParts]
  /\ k \in [Threads -> 0 .. NSects]
  /\ is_cali_mode \in BOOLEAN
  /\ window \in SUBSET Sectors
  /\ stored \in [Parts -> Snapshots]
  /\ committed \in [Parts -> SUBSET Snapshots]

\* A save never mixes two commits and never holds data of an unfinished request:
\* what goes to ramDisk_Write, and what was stored, is a snapshot backupData committed.
SavesAreCommitted ==
  \A p \in Parts :
    /\ stored[p] \in committed[p]
    /\ \A t \in Threads : (pc[t] = "write" /\ id[t] = p) => toDisk[p].data \in committed[p]

\* A committed sector that is not on disk is remembered by a dirty bit (of backup
\* or of toDisk), whatever signals were lost and whatever writes failed.
NothingForgotten ==
  \A p \in Parts, s \in Sectors :
    ~(pc["main"] = "bkCopy" /\ id["main"] = p) /\ backup[p].data[s] # stored[p][s]
       => s \in backup[p].dirty \cup toDisk[p].dirty

\* Between requests fromChannel is the committed data again: nothing of a request
\* that was cut off is left for the next one to commit.
CutRequestsLeaveNothing ==
  pc["main"] = "run" => \A p \in Parts : fromChannel[p].data = backup[p].data

\* When pSaveTask is woken every partition that is dirty then is copied out, one
\* whose own signal was lost included.
WokenSaverSaves ==
  \A p \in Parts :
    (pc["save"] = "woken" /\ backup[p].dirty # {}) ~> (backup[p].dirty = {})

\* In calibration mode no commit waits for another one: what backupData marked
\* dirty is copied out by the same call.
CaliCommitIsSaved ==
  \A p \in Parts : (is_cali_mode /\ backup[p].dirty # {}) ~> (backup[p].dirty = {})

=============================================================================
