------------------------------- MODULE NvDisk -------------------------------
(***************************************************************************)
(* The two image files that hold one NV partition, as apps/nvitem keeps    *)
(* them (nvitem_fs.c): ramDisk_Read at start-up, ramDisk_Write on every    *)
(* save, and what a killed process or a power cut leaves behind.           *)
(*                                                                         *)
(* A file is abstracted to what ramDisk_Read can tell apart:               *)
(*   missing  open() fails;                                                *)
(*   short    fewer bytes than header + image (truncated, half written);   *)
(*   torn     full length, but the checksum in the header does not match;  *)
(*   good     full length, matching checksum, contents val.                *)
(* image is what a read() sees, stable what the last successful fsync()    *)
(* made durable; a copy is unsynced from its truncation to that fsync().   *)
(***************************************************************************)
EXTENDS Naturals

CONSTANTS Values,          \* the possible contents of the partition
          Blank,           \* the contents "every byte 0xFF" (memset in ramDisk_Read)
          Junk,            \* the contents read from a file that is not good
          BlankPassesEcc   \* does an all-zero header match a Blank image of this size?

ASSUME DiskAssumption == /\ Blank \in Values
                         /\ Junk \in Values
                         /\ BlankPassesEcc \in BOOLEAN

VARIABLES image,     \* the file of each copy, as the kernel shows it
          stable,    \* the file of each copy as last made durable
          unsynced,  \* the copies whose last write has not been fsynced
          pc,        \* where the call in progress is
          target,    \* the file it works on ("first" in ramDisk_Read)
          buf,       \* the caller's buffer
          ret,       \* ramDisk_Write's ret
          ret2,      \* ramDisk_Read's "ret2 == size", kept from the first file
          headOk,    \* was the header of the current file written in full?
          silent,    \* history: copies this call left as they were without saying so
          faults     \* history: faults since both copies were last good (capped at 2)

vars == <<image, stable, unsynced, pc, target, buf, ret, ret2, headOk, silent, faults>>
callVars == <<target, buf, ret, ret2, headOk, silent>>

Copies == {"orig", "bak"}

Other(c) == IF c = "orig" THEN "bak" ELSE "orig"

Images == [kind : {"missing", "short", "torn", "good"}, val : Values]

Short == [kind |-> "short", val |-> Junk]

Torn == [kind |-> "torn", val |-> Junk]

\* _chkNVEcc accepts the header and the data.
Intact(i) == i.kind = "good"

FileOf(v) == [kind |-> "good", val |-> v]

\* A file is open for writing and its contents are not complete on disk.
WritingPcs == {"head", "data", "sync", "fixWrite", "fixSync"}

Pcs == {"down", "readFirst", "readSecond", "fixOpen", "served", "idle", "open", "written"}
         \cup WritingPcs

Bump(n) == IF n = 2 THEN 2 ELSE n + 1

\* Both copies can be trusted again.
AllSafe(img, uns) == (\A c \in Copies : Intact(img[c])) /\ uns = {}

\* No call is in progress: its local variables are gone.
NoCall == /\ target' = "orig"
          /\ buf' = Blank
          /\ ret' = FALSE
          /\ ret2' = FALSE
          /\ headOk' = FALSE

Init == /\ image \in [Copies -> {[kind |-> "missing", val |-> Junk], Short, Torn}
                                   \cup {FileOf(v) : v \in Values}]
        /\ stable = image
        /\ unsynced = {}
        /\ pc = "down"
        /\ target = "orig"
        /\ buf = Blank
        /\ ret = FALSE
        /\ ret2 = FALSE
        /\ headOk = FALSE
        /\ silent = {}
        /\ faults = IF \A c \in Copies : Intact(image[c]) THEN 0
                    ELSE IF \E c \in Copies : Intact(image[c]) THEN 1 ELSE 2

-----------------------------------------------------------------------------
(* ramDisk_Read: initBuf calls it once per partition when the daemon starts *)

\* rand() % 2 picks which file is tried first.
FirstNames == Copies

ReadBegin(c) ==
  /\ pc = "down"
  /\ c \in FirstNames
  /\ target' = c
  /\ ret2' = FALSE
  /\ silent' = {}
  /\ pc' = "readFirst"
  /\ UNCHANGED <<image, stable, unsynced, buf, ret, headOk, faults>>

\* The first file is intact: return it, without looking at the other.
ReadFirstGood ==
  /\ pc = "readFirst"
  /\ Intact(image[target])
  /\ buf' = image[target].val
  /\ pc' = "served"
  /\ UNCHANGED <<image, stable, unsynced, target, ret, ret2, headOk, silent, faults>>

\* Variant: a checksum error in the first file returns, as one in the second does.
ReadFirstBad_NoFallback ==
  /\ pc = "readFirst"
  /\ ~Intact(image[target])
  /\ ret2' = (image[target].kind = "torn")
  /\ buf' = Blank
  /\ pc' = IF ret2' THEN "served" ELSE "readSecond"
  /\ UNCHANGED <<image, stable, unsynced, target, ret, headOk, silent, faults>>

ReadFirstBad ==
  /\ pc = "readFirst"
  /\ ~Intact(image[target])
  /\ ret2' = (image[target].kind = "torn")
  /\ buf' = Blank
  /\ pc' = "readSecond"
  /\ UNCHANGED <<image, stable, unsynced, target, ret, headOk, silent, faults>>

\* The second file, read over a buffer of 0xFF, is returned whatever it holds:
\* every path returns 1.  When it cannot be opened ret2 is still the first
\* file's, the header is zero and the buffer Blank.
ReadSecond ==
  /\ pc = "readSecond"
  /\ LET i == image[Other(target)] IN
       \/ /\ i.kind = "good"
          /\ buf' = i.val
          /\ pc' = "fixOpen"
       \/ /\ i.kind = "torn"
          /\ buf' = Junk
          /\ pc' = "served"
       \/ /\ i.kind = "short"
          /\ buf' \in {Blank, Junk}
          /\ pc' = "served"
       \/ /\ i.kind = "missing"
          /\ buf' = Blank
          /\ pc' = IF ret2 /\ BlankPassesEcc THEN "fixOpen" ELSE "served"
  /\ UNCHANGED <<image, stable, unsynced, target, ret, ret2, headOk, silent, faults>>

\* "fix imagePath": the first file is truncated and rewritten; the results of
\* open, write and fsync are not looked at.
FixOpen ==
  /\ pc = "fixOpen"
  /\ image' = [image EXCEPT ![target] = Short]
  /\ unsynced' = unsynced \cup {target}
  /\ pc' = "fixWrite"
  /\ UNCHANGED <<stable, callVars, faults>>

FixOpenFails ==
  /\ pc = "fixOpen"
  /\ silent' = {target}
  /\ pc' = "served"
  /\ UNCHANGED <<image, stable, unsynced, target, buf, ret, ret2, headOk, faults>>

FixWrite(ok) ==
  /\ pc = "fixWrite"
  /\ image' = [image EXCEPT ![target] = IF ok THEN FileOf(buf) ELSE @]
  /\ faults' = IF ok THEN faults ELSE Bump(faults)
  /\ pc' = "fixSync"
  /\ UNCHANGED <<stable, unsynced, callVars>>

FixSync(ok) ==
  /\ pc = "fixSync"
  /\ unsynced' = IF ok THEN unsynced \ {target} ELSE unsynced
  /\ stable' = IF ok THEN [stable EXCEPT ![target] = image[target]] ELSE stable
  /\ faults' = IF ~ok THEN Bump(faults)
               ELSE IF AllSafe(image, unsynced') THEN 0 ELSE faults
  /\ pc' = "served"
  /\ UNCHANGED <<image, callVars>>

ReadReturn ==
  /\ pc = "served"
  /\ pc' = "idle"
  /\ NoCall
  /\ silent' = {}
  /\ UNCHANGED <<image, stable, unsynced, faults>>

-----------------------------------------------------------------------------
(* ramDisk_Write: "first imageBakPath then imagePath"                       *)

WriteBegin(v) ==
  /\ pc = "idle"
  /\ buf' = v
  /\ ret' = TRUE
  /\ target' = "bak"
  /\ silent' = {}
  /\ pc' = "open"
  /\ UNCHANGED <<image, stable, unsynced, ret2, headOk, faults>>

\* Variant: both files are opened, and so truncated, before either is written.
WriteOpen_Both ==
  /\ pc = "open"
  /\ image' = [c \in Copies |-> Short]
  /\ unsynced' = Copies
  /\ pc' = "head"
  /\ UNCHANGED <<stable, callVars, faults>>

\* open(..., O_TRUNC)
WriteOpen ==
  /\ pc = "open"
  /\ image' = [image EXCEPT ![target] = Short]
  /\ unsynced' = unsynced \cup {target}
  /\ pc' = "head"
  /\ UNCHANGED <<stable, callVars, faults>>

\* The file after the current one, or the end of the call.
NextFile == IF target = "bak" THEN target' = "orig" /\ pc' = "open"
                              ELSE target' = target /\ pc' = "written"

\* A failed open skips the file and leaves ret as it is.
WriteOpenFails ==
  /\ pc = "open"
  /\ silent' = silent \cup {target}
  /\ NextFile
  /\ UNCHANGED <<image, stable, unsynced, buf, ret, ret2, headOk, faults>>

WriteHead(ok) ==
  /\ pc = "head"
  /\ headOk' = ok
  /\ ret' = (ret /\ ok)
  /\ faults' = IF ok THEN faults ELSE Bump(faults)
  /\ pc' = "data"
  /\ UNCHANGED <<image, stable, unsynced, target, buf, ret2, silent>>

\* Variant: "ret = 0" is missing after a failed write of the data.
WriteBody_Unreported(ok) ==
  /\ pc = "data"
  /\ image' = [image EXCEPT ![target] = IF ok /\ headOk THEN FileOf(buf) ELSE @]
  /\ faults' = IF ok THEN faults ELSE Bump(faults)
  /\ pc' = "sync"
  /\ UNCHANGED <<stable, unsynced, target, buf, ret, ret2, headOk, silent>>

\* The data is written even when the header was not; the file is then short.
WriteBody(ok) ==
  /\ pc = "data"
  /\ image' = [image EXCEPT ![target] = IF ok /\ headOk THEN FileOf(buf) ELSE @]
  /\ ret' = (ret /\ ok)
  /\ faults' = IF ok THEN faults ELSE Bump(faults)
  /\ pc' = "sync"
  /\ UNCHANGED <<stable, unsynced, target, buf, ret2, headOk, silent>>

\* Variant: no fsync before the file is closed.
WriteSync_Missing(ok) ==
  /\ pc = "sync"
  /\ NextFile
  /\ UNCHANGED <<image, stable, unsynced, buf, ret, ret2, headOk, silent, faults>>

\* fsync's result is not looked at.
WriteSync(ok) ==
  /\ pc = "sync"
  /\ unsynced' = IF ok THEN unsynced \ {target} ELSE unsynced
  /\ stable' = IF ok THEN [stable EXCEPT ![target] = image[target]] ELSE stable
  /\ silent' = IF ok THEN silent ELSE silent \cup {target}
  /\ faults' = IF ~ok THEN Bump(faults)
               ELSE IF AllSafe(image, unsynced') THEN 0 ELSE faults
  /\ NextFile
  /\ UNCHANGED <<image, buf, ret, ret2, headOk>>

WriteReturn ==
  /\ pc = "written"
  /\ pc' = "idle"
  /\ NoCall
  /\ UNCHANGED <<image, stable, unsynced, silent, faults>>

-----------------------------------------------------------------------------
(* The environment: modemd stops cp_diskserver at any time, the phone loses power. *)

\* The process dies; the kernel keeps what was written.
Kill ==
  /\ pc # "down"
  /\ pc' = "down"
  /\ faults' = IF pc \in WritingPcs THEN Bump(faults) ELSE faults
  /\ NoCall
  /\ silent' = {}
  /\ UNCHANGED <<image, stable, unsynced>>

\* What a power cut can leave of a copy.
Survivors(c) == IF c \in unsynced THEN {image[c], stable[c], Short, Torn} ELSE {image[c]}

PowerLoss ==
  /\ pc' = "down"
  /\ image' \in [Copies -> UNION {Survivors(c) : c \in Copies}]
  /\ \A c \in Copies : image'[c] \in Survivors(c)
  /\ stable' = image'
  /\ unsynced' = {}
  /\ faults' = IF unsynced # {} THEN Bump(faults) ELSE faults
  /\ NoCall
  /\ silent' = {}

\* The steps of a call that has begun.
CallStep ==
  \/ ReadFirstGood \/ ReadFirstBad \/ ReadSecond
  \/ FixOpen \/ FixOpenFails
  \/ \E ok \in BOOLEAN : FixWrite(ok) \/ FixSync(ok)
  \/ WriteOpen \/ WriteOpenFails
  \/ \E ok \in BOOLEAN : WriteHead(ok) \/ WriteBody(ok) \/ WriteSync(ok)

Next ==
  \/ \E c \in Copies : ReadBegin(c)
  \/ CallStep
  \/ ReadReturn
  \/ \E v \in Values : WriteBegin(v)
  \/ WriteReturn
  \/ Kill
  \/ PowerLoss

Spec == Init /\ [][Next]_vars

-----------------------------------------------------------------------------
(* Properties                                                              *)

\* Every variable keeps the type of the C variable or file it stands for.
TypeOK ==
  /\ image \in [Copies -> Images]
  /\ stable \in [Copies -> Images]
  /\ unsynced \in SUBSET Copies
  /\ pc \in Pcs
  /\ target \in Copies
  /\ buf \in Values
  /\ ret \in BOOLEAN
  /\ ret2 \in BOOLEAN
  /\ headOk \in BOOLEAN
  /\ silent \in SUBSET Copies
  /\ faults \in 0 .. 2

\* Writing bak before orig keeps one copy intact and fsynced at every instant of
\* every ramDisk_Write, as long as nothing has failed since both were good:
\* a power cut then cannot take the partition away.
OneCopyAlwaysDurable ==
  faults = 0 => \E c \in Copies : Intact(image[c]) /\ c \notin unsynced

\* One fault (a kill or a power cut during a write, a failed write or fsync) since
\* both copies were good leaves an intact copy to start from.  Two may not:
\* ramDisk_Read repairs a bad copy only when it happens to try it first.
OneFaultIsSurvived ==
  (pc \in {"down", "idle"} /\ faults <= 1) => \E c \in Copies : Intact(image[c])

\* ramDisk_Read hands out blank or damaged contents (and returns 1 all the same)
\* only when no intact copy exists; otherwise the buffer is an intact copy's.
ReadServesIntactCopy ==
  (pc = "served" /\ \E c \in Copies : Intact(image[c]))
     => \E c \in Copies : image[c] = FileOf(buf)

\* When ramDisk_Write returns 1 each file is durable with the new contents, save
\* those whose open or fsync failed: the code reports neither.
WriteReportsFailure ==
  (pc = "written" /\ ret)
     => \A c \in Copies \ silent : image[c] = FileOf(buf) /\ c \notin unsynced

\* The comment above ramDisk_Read: "1 read imagPath first ... 3 fix imagePath".
\* Read as a promise: a start-up that finds an intact copy leaves imagePath intact
\* (no fault and no failed open happening meanwhile).
ImagePathIsFixed ==
  (pc = "served" /\ faults <= 1 /\ silent = {} /\ \E c \in Copies : Intact(image[c]))
     => Intact(image["orig"])

=============================================================================
