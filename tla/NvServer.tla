------------------------------ MODULE NvServer ------------------------------
(***************************************************************************)
(* cp_diskserver as a whole, for one partition: the buffers and threads of *)
(* NvBuf over the image files of NvDisk, from start-up (initBuf) through   *)
(* saves to the moment modemd kills the process or the power fails, and    *)
(* the next start-up.  NvBuf's history committed is not followed here      *)
(* (durable plays its part): it is every snapshot from the beginning.      *)
(***************************************************************************)
EXTENDS NvBuf

CONSTANTS FFsector, JunkSector,  \* a sector of 0xFF, a sector of a damaged file
          BlankPassesEcc

ASSUME ServerAssumption == /\ NParts = 1
                           /\ FFsector \in Data
                           /\ JunkSector \in Data
                           /\ BlankPassesEcc \in BOOLEAN

VARIABLES image, stable, unsynced, fsPc, target, fsBuf, ret, ret2, headOk, silent, faults,
          live,      \* history: the last committed or loaded snapshot
          durable    \* history: the snapshots a restart may still bring back

diskVars == <<image, stable, unsynced, fsPc, target, fsBuf, ret, ret2, headOk, silent, faults>>
allVars == <<vars, diskVars, live, durable>>

Blank == [s \in Sectors |-> FFsector]
Junk == [s \in Sectors |-> JunkSector]

Disk == INSTANCE NvDisk WITH Values <- Snapshots, pc <- fsPc, buf <- fsBuf

\* main and pSaveTask exist: initBuf has returned.
Running == fsPc \in {"idle", "open", "head", "data", "sync", "written"}

NoBuffer == [p \in Parts |-> [data |-> Blank, dirty |-> {}]]

Init0 ==
  /\ fromChannel = NoBuffer
  /\ backup = NoBuffer
  /\ toDisk = NoBuffer
  /\ mutex = "none"
  /\ pc = [t \in Threads |-> IF t = "main" THEN "run" ELSE "start"]
  /\ id = [t \in Threads |-> 0]
  /\ k = [t \in Threads |-> 0]
  /\ is_cali_mode \in BOOLEAN
  /\ window = {}
  /\ stored = [p \in Parts |-> Blank]
  /\ committed = [p \in Parts |-> Snapshots]
  /\ Disk!Init
  /\ live = Blank
  /\ durable = {image[c].val : c \in {x \in Disk!Copies : Disk!Intact(image[x])}}

\* The process starts: initBuf calls ramDisk_Read.
Start == \E c \in Disk!Copies : Disk!ReadBegin(c) /\ UNCHANGED <<vars, live, durable>>

\* ramDisk_Read finds no intact copy and makes the contents up.
MakesUp == fsPc = "readSecond" /\ ~Disk!Intact(image[Disk!Other(target)])

\* A step inside ramDisk_Read or ramDisk_Write.
FileStep ==
  /\ Disk!CallStep
  /\ durable' = IF MakesUp THEN durable \cup {fsBuf'} ELSE durable
  /\ UNCHANGED <<vars, live>>

\* initBuf fills the three buffers with what ramDisk_Read returned; main then
\* creates pSaveTask.
initBuf ==
  /\ Disk!ReadReturn
  /\ fromChannel' = [p \in Parts |-> [data |-> fsBuf, dirty |-> {}]]
  /\ backup' = fromChannel'
  /\ toDisk' = fromChannel'
  /\ stored' = [p \in Parts |-> fsBuf]
  /\ live' = fsBuf
  /\ UNCHANGED <<mutex, pc, id, k, is_cali_mode, window, committed, durable>>

\* A step of main or pSaveTask on the buffers.
BufferStep ==
  /\ Running
  /\ \/ Receive \/ MainCall \/ waiteEvent \/ SpuriousWakeup \/ Wakeup
     \/ \E t \in Threads : saveToDisk(t)
  /\ IF pc["main"] = "bkCopy" /\ pc'["main"] # "bkCopy"
       THEN live' = backup[0].data /\ durable' = durable \cup {backup[0].data}
       ELSE UNCHANGED <<live, durable>>
  /\ UNCHANGED diskVars

\* Variant: the buffer of the request in progress is written.
SaveBegin_FromChannel ==
  /\ \E t \in Threads : pc[t] = "write"
  /\ Disk!WriteBegin(fromChannel[0].data)
  /\ UNCHANGED <<vars, live, durable>>

\* saveToDisk calls ramDisk_Write ...
SaveBegin ==
  /\ \E t \in Threads : pc[t] = "write"
  /\ Disk!WriteBegin(toDisk[0].data)
  /\ UNCHANGED <<vars, live, durable>>

\* ... and gets its result.
SaveEnd ==
  /\ Disk!WriteReturn
  /\ \E t \in Threads : saveToDiskWrite(t, ret)
  /\ durable' = IF ret /\ silent = {} THEN {fsBuf, live} ELSE durable
  /\ UNCHANGED live

\* RAM is lost; modemd starts the daemon anew, in either mode.
Forget ==
  /\ fromChannel' = NoBuffer
  /\ backup' = NoBuffer
  /\ toDisk' = NoBuffer
  /\ mutex' = "none"
  /\ pc' = [t \in Threads |-> IF t = "main" THEN "run" ELSE "start"]
  /\ id' = [t \in Threads |-> 0]
  /\ k' = [t \in Threads |-> 0]
  /\ is_cali_mode' \in BOOLEAN
  /\ window' = {}
  /\ stored' = [p \in Parts |-> Blank]
  /\ UNCHANGED <<committed, live, durable>>

\* modemd's stop_nvitemd, or a crash.
Killed == Disk!Kill /\ Forget

PowerCut == Disk!PowerLoss /\ Forget

NextServer ==
  \/ Start \/ FileStep \/ initBuf
  \/ BufferStep \/ SaveBegin \/ SaveEnd
  \/ Killed \/ PowerCut

ServerSpec == Init0 /\ [][NextServer]_allVars

-----------------------------------------------------------------------------
(* Properties                                                              *)

Store == INSTANCE NvStore WITH Values <- Snapshots, up <- Running, current <- live

\* The daemon implements the abstract store through kills, power cuts and failed
\* writes: a start-up returns the last completed save or a later commit, never
\* older, mixed or uncommitted data, until two faults hit the files.
ImplementsStore == Store!Spec

\* With no dirty bit left and no failure hidden by ramDisk_Write, a file holds the
\* data the modem was told is committed.
CleanMeansOnDisk ==
  (/\ fsPc = "idle"
   /\ silent = {}
   /\ pc["main"] # "bkCopy"
   /\ backup[0].dirty \cup toDisk[0].dirty = {}
   /\ \E c \in Disk!Copies : Disk!Intact(image[c]))
  => \E c \in Disk!Copies : image[c] = Disk!FileOf(backup[0].data)

=============================================================================
