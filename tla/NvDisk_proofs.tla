---------------------------- MODULE NvDisk_proofs ----------------------------
(***************************************************************************)
(* NvDisk: the properties of the two-copy discipline for every set of      *)
(* partition contents.                                                     *)
(***************************************************************************)
EXTENDS NvDisk, TLAPS

Fresh(c) == Intact(image[c]) /\ c \notin unsynced

SomeIntact == \E c \in Copies : Intact(image[c])

FixPcs == {"fixOpen", "fixWrite", "fixSync"}

\* No fault: both copies are safe except the one being rewritten.
NoFaultInv ==
  faults = 0 =>
    /\ pc \notin FixPcs \cup {"readSecond"}
    /\ pc \notin WritingPcs => \A c \in Copies : Fresh(c)
    /\ pc \in WritingPcs => Fresh(Other(target))
    /\ pc = "data" => headOk
    /\ pc = "sync" => Intact(image[target])

\* At most one fault: an intact copy exists, or the one being written will be.
OneFaultInv ==
  faults <= 1 =>
    /\ pc \notin WritingPcs => SomeIntact
    /\ pc \in FixPcs => Intact(image[Other(target)])
    /\ pc = "data" => headOk \/ Intact(image[Other(target)])
    /\ pc = "sync" => SomeIntact

\* What ramDisk_Read knows of the two files at each point.
ReadInv ==
  /\ pc \in {"readSecond", "fixOpen"} => ~Intact(image[target])
  /\ pc \in FixPcs => \/ image[Other(target)] = FileOf(buf)
                      \/ ~Intact(image[Other(target)])
  /\ pc = "fixWrite" => image[target] = Short
  /\ pc = "fixSync" => image[target] \in {Short, FileOf(buf)}
  /\ ReadServesIntactCopy

\* What ramDisk_Write knows while ret is still 1.
WriteInv ==
  /\ (pc \in {"open", "head", "data", "sync"} /\ target = "orig" /\ ret /\ "bak" \notin silent)
       => image["bak"] = FileOf(buf) /\ "bak" \notin unsynced
  /\ pc = "data" /\ ret => headOk
  /\ pc = "sync" /\ ret => image[target] = FileOf(buf)
  /\ WriteReportsFailure

IInv == /\ TypeOK
        /\ pc \in WritingPcs => target \in unsynced
        /\ NoFaultInv
        /\ OneFaultInv
        /\ ReadInv
        /\ WriteInv

-----------------------------------------------------------------------------
(* Proofs                                                                  *)

\* The initial states satisfy the invariant.
LEMMA InitIInv == Init => IInv
  <1> USE DiskAssumption
  <1> SUFFICES ASSUME Init PROVE IInv
      OBVIOUS
  <1>1. TypeOK
    <2>1. image \in [Copies -> Images]
      <3>1. {[kind |-> "missing", val |-> Junk], Short, Torn} \subseteq Images
        BY DEF Images, Short, Torn
      <3>2. {FileOf(v) : v \in Values} \subseteq Images
        BY DEF Images, FileOf
      <3> QED
        BY <3>1, <3>2 DEF Init
    <2>2. faults \in 0 .. 2
      BY DEF Init
    <2> QED
      BY <2>1, <2>2 DEF Init, TypeOK, Copies, Pcs
  <1>2. NoFaultInv /\ OneFaultInv
    BY <1>1 DEF Init, NoFaultInv, OneFaultInv, Fresh, SomeIntact, FixPcs, WritingPcs, TypeOK
  <1>3. ReadInv /\ WriteInv
    BY DEF Init, ReadInv, WriteInv, ReadServesIntactCopy, WriteReportsFailure, FixPcs
  <1> QED
    BY <1>1, <1>2, <1>3 DEF Init, IInv, WritingPcs

\* ReadBegin preserves the invariant.
LEMMA ReadBeginKeeps ==
  ASSUME IInv, NEW c \in Copies, ReadBegin(c)
  PROVE  IInv'
  <1> USE DiskAssumption
      DEF IInv, ReadBegin, FirstNames, callVars, Copies, Other,
          WritingPcs, FixPcs, Intact, FileOf, Short, Torn
  <1>1. TypeOK' /\ (pc \in WritingPcs => target \in unsynced)'
    BY DEF TypeOK, Pcs
  <1>2. NoFaultInv'
    BY DEF NoFaultInv, Fresh
  <1>3. OneFaultInv'
    BY DEF OneFaultInv, SomeIntact
  <1>4. ReadInv'
    BY DEF ReadInv, ReadServesIntactCopy
  <1>5. WriteInv'
    BY DEF WriteInv, WriteReportsFailure
  <1> QED
    BY <1>1, <1>2, <1>3, <1>4, <1>5

\* ReadFirstGood preserves the invariant.
LEMMA ReadFirstGoodKeeps ==
  ASSUME IInv, ReadFirstGood
  PROVE  IInv'
  <1> USE DiskAssumption
      DEF IInv, ReadFirstGood, callVars, Copies, Other,
          WritingPcs, FixPcs, Intact, FileOf, Short, Torn
  <1>1. TypeOK' /\ (pc \in WritingPcs => target \in unsynced)'
    BY DEF TypeOK, Images, Pcs
  <1>2. NoFaultInv'
    BY DEF NoFaultInv, Fresh
  <1>3. OneFaultInv'
    BY DEF OneFaultInv, SomeIntact
  <1>4. ReadInv'
    BY DEF TypeOK, Images, ReadInv, ReadServesIntactCopy
  <1>5. WriteInv'
    BY DEF WriteInv, WriteReportsFailure
  <1> QED
    BY <1>1, <1>2, <1>3, <1>4, <1>5

\* ReadFirstBad preserves the invariant.
LEMMA ReadFirstBadKeeps ==
  ASSUME IInv, ReadFirstBad
  PROVE  IInv'
  <1> USE DiskAssumption
      DEF IInv, ReadFirstBad, callVars, Copies, Other,
          WritingPcs, FixPcs, Intact, FileOf, Short, Torn
  <1>1. TypeOK' /\ (pc \in WritingPcs => target \in unsynced)'
    BY DEF TypeOK, Pcs
  <1>2. NoFaultInv'
    BY DEF TypeOK, NoFaultInv, Fresh
  <1>3. OneFaultInv'
    BY DEF OneFaultInv, SomeIntact
  <1>4. ReadInv'
    BY DEF ReadInv, ReadServesIntactCopy
  <1>5. WriteInv'
    BY DEF WriteInv, WriteReportsFailure
  <1> QED
    BY <1>1, <1>2, <1>3, <1>4, <1>5

\* ReadSecond preserves the invariant.
LEMMA ReadSecondKeeps ==
  ASSUME IInv, ReadSecond
  PROVE  IInv'
  <1> USE DiskAssumption
      DEF IInv, ReadSecond, callVars, Copies, Other,
          WritingPcs, FixPcs, Intact, FileOf, Short, Torn
  <1>1. TypeOK' /\ (pc \in WritingPcs => target \in unsynced)'
    BY DEF TypeOK, Images, Pcs
  <1>2. NoFaultInv'
    BY DEF NoFaultInv
  <1>3. OneFaultInv'
    BY DEF TypeOK, OneFaultInv, SomeIntact, ReadInv
  <1>4. ReadInv'
    BY DEF TypeOK, Images, ReadInv, ReadServesIntactCopy
  <1>5. WriteInv'
    BY DEF WriteInv, WriteReportsFailure
  <1> QED
    BY <1>1, <1>2, <1>3, <1>4, <1>5

\* FixOpen preserves the invariant.
LEMMA FixOpenKeeps ==
  ASSUME IInv, FixOpen
  PROVE  IInv'
  <1> USE DiskAssumption
      DEF IInv, FixOpen, callVars, Copies, Other,
          WritingPcs, FixPcs, Intact, FileOf, Short, Torn
  <1>1. TypeOK' /\ (pc \in WritingPcs => target \in unsynced)'
    BY DEF TypeOK, Images, Pcs
  <1>2. NoFaultInv'
    BY DEF NoFaultInv
  <1>3. OneFaultInv'
    BY DEF OneFaultInv
  <1>4. ReadInv'
    BY DEF TypeOK, ReadInv, ReadServesIntactCopy
  <1>5. WriteInv'
    BY DEF WriteInv, WriteReportsFailure
  <1> QED
    BY <1>1, <1>2, <1>3, <1>4, <1>5

\* FixOpenFails preserves the invariant.
LEMMA FixOpenFailsKeeps ==
  ASSUME IInv, FixOpenFails
  PROVE  IInv'
  <1> USE DiskAssumption
      DEF IInv, FixOpenFails, callVars, Copies, Other,
          WritingPcs, FixPcs, Intact, FileOf, Short, Torn
  <1>1. TypeOK' /\ (pc \in WritingPcs => target \in unsynced)'
    BY DEF TypeOK, Pcs
  <1>2. NoFaultInv'
    BY DEF NoFaultInv
  <1>3. OneFaultInv'
    BY DEF OneFaultInv, SomeIntact
  <1>4. ReadInv'
    BY DEF TypeOK, ReadInv, ReadServesIntactCopy
  <1>5. WriteInv'
    BY DEF WriteInv, WriteReportsFailure
  <1> QED
    BY <1>1, <1>2, <1>3, <1>4, <1>5

\* FixWrite preserves the invariant.
LEMMA FixWriteKeeps ==
  ASSUME IInv, NEW ok \in BOOLEAN, FixWrite(ok)
  PROVE  IInv'
  <1> USE DiskAssumption
      DEF IInv, FixWrite, Bump, callVars, Copies, Other,
          WritingPcs, FixPcs, Intact, FileOf, Short, Torn
  <1>1. TypeOK' /\ (pc \in WritingPcs => target \in unsynced)'
    BY DEF TypeOK, Images, Pcs
  <1>2. NoFaultInv'
    BY DEF TypeOK, NoFaultInv
  <1>3. OneFaultInv'
    BY DEF TypeOK, OneFaultInv
  <1>4. ReadInv'
    BY DEF ReadInv, ReadServesIntactCopy
  <1>5. WriteInv'
    BY DEF WriteInv, WriteReportsFailure
  <1> QED
    BY <1>1, <1>2, <1>3, <1>4, <1>5

\* FixSync preserves the invariant.
LEMMA FixSyncKeeps ==
  ASSUME IInv, NEW ok \in BOOLEAN, FixSync(ok)
  PROVE  IInv'
  <1> USE DiskAssumption
      DEF IInv, FixSync, Bump, AllSafe, callVars, Copies, Other,
          WritingPcs, FixPcs, Intact, FileOf, Short, Torn
  <1>1. TypeOK' /\ (pc \in WritingPcs => target \in unsynced)'
    BY DEF TypeOK, Pcs
  <1>2. NoFaultInv'
    BY DEF TypeOK, NoFaultInv, Fresh
  <1>3. OneFaultInv'
    BY DEF TypeOK, OneFaultInv, SomeIntact
  <1>4. ReadInv'
    BY DEF TypeOK, ReadInv, ReadServesIntactCopy
  <1>5. WriteInv'
    BY DEF WriteInv, WriteReportsFailure
  <1> QED
    BY <1>1, <1>2, <1>3, <1>4, <1>5

\* ReadReturn preserves the invariant.
LEMMA ReadReturnKeeps ==
  ASSUME IInv, ReadReturn
  PROVE  IInv'
  <1> USE DiskAssumption
      DEF IInv, ReadReturn, NoCall, callVars, Copies, Other,
          WritingPcs, FixPcs, Intact, FileOf, Short, Torn
  <1>1. TypeOK' /\ (pc \in WritingPcs => target \in unsynced)'
    BY DEF TypeOK, Pcs
  <1>2. NoFaultInv'
    BY DEF NoFaultInv, Fresh
  <1>3. OneFaultInv'
    BY DEF OneFaultInv, SomeIntact
  <1>4. ReadInv'
    BY DEF ReadInv, ReadServesIntactCopy
  <1>5. WriteInv'
    BY DEF WriteInv, WriteReportsFailure
  <1> QED
    BY <1>1, <1>2, <1>3, <1>4, <1>5

\* WriteBegin preserves the invariant.
LEMMA WriteBeginKeeps ==
  ASSUME IInv, NEW v \in Values, WriteBegin(v)
  PROVE  IInv'
  <1> USE DiskAssumption
      DEF IInv, WriteBegin, callVars, Copies, Other,
          WritingPcs, FixPcs, Intact, FileOf, Short, Torn
  <1>1. TypeOK' /\ (pc \in WritingPcs => target \in unsynced)'
    BY DEF TypeOK, Pcs
  <1>2. NoFaultInv'
    BY DEF NoFaultInv, Fresh
  <1>3. OneFaultInv'
    BY DEF OneFaultInv, SomeIntact
  <1>4. ReadInv'
    BY DEF ReadInv, ReadServesIntactCopy
  <1>5. WriteInv'
    BY DEF WriteInv, WriteReportsFailure
  <1> QED
    BY <1>1, <1>2, <1>3, <1>4, <1>5

\* WriteOpen preserves the invariant.
LEMMA WriteOpenKeeps ==
  ASSUME IInv, WriteOpen
  PROVE  IInv'
  <1> USE DiskAssumption
      DEF IInv, WriteOpen, callVars, Copies, Other,
          WritingPcs, FixPcs, Intact, FileOf, Short, Torn
  <1>1. TypeOK' /\ (pc \in WritingPcs => target \in unsynced)'
    BY DEF TypeOK, Images, Pcs
  <1>2. NoFaultInv'
    BY DEF NoFaultInv, Fresh
  <1>3. OneFaultInv'
    BY DEF OneFaultInv
  <1>4. ReadInv'
    BY DEF ReadInv, ReadServesIntactCopy
  <1>5. WriteInv'
    BY DEF WriteInv, WriteReportsFailure
  <1> QED
    BY <1>1, <1>2, <1>3, <1>4, <1>5

\* WriteOpenFails preserves the invariant.
LEMMA WriteOpenFailsKeeps ==
  ASSUME IInv, WriteOpenFails
  PROVE  IInv'
  <1> USE DiskAssumption
      DEF IInv, WriteOpenFails, NextFile, callVars, Copies, Other,
          WritingPcs, FixPcs, Intact, FileOf, Short, Torn
  <1>1. TypeOK' /\ (pc \in WritingPcs => target \in unsynced)'
    BY DEF TypeOK, Pcs
  <1>2. NoFaultInv'
    BY DEF NoFaultInv, Fresh
  <1>3. OneFaultInv'
    BY DEF OneFaultInv, SomeIntact
  <1>4. ReadInv'
    BY DEF ReadInv, ReadServesIntactCopy
  <1>5. WriteInv'
    BY DEF TypeOK, WriteInv, WriteReportsFailure
  <1> QED
    BY <1>1, <1>2, <1>3, <1>4, <1>5

\* WriteHead preserves the invariant.
LEMMA WriteHeadKeeps ==
  ASSUME IInv, NEW ok \in BOOLEAN, WriteHead(ok)
  PROVE  IInv'
  <1> USE DiskAssumption
      DEF IInv, WriteHead, Bump, callVars, Copies, Other,
          WritingPcs, FixPcs, Intact, FileOf, Short, Torn
  <1>1. TypeOK' /\ (pc \in WritingPcs => target \in unsynced)'
    BY DEF TypeOK, Pcs
  <1>2. NoFaultInv'
    BY DEF TypeOK, NoFaultInv, Fresh
  <1>3. OneFaultInv'
    BY DEF TypeOK, NoFaultInv, OneFaultInv, Fresh
  <1>4. ReadInv'
    BY DEF ReadInv, ReadServesIntactCopy
  <1>5. WriteInv'
    BY DEF TypeOK, WriteInv, WriteReportsFailure
  <1> QED
    BY <1>1, <1>2, <1>3, <1>4, <1>5

\* WriteBody preserves the invariant.
LEMMA WriteBodyKeeps ==
  ASSUME IInv, NEW ok \in BOOLEAN, WriteBody(ok)
  PROVE  IInv'
  <1> USE DiskAssumption
      DEF IInv, WriteBody, Bump, callVars, Copies, Other,
          WritingPcs, FixPcs, Intact, FileOf, Short, Torn
  <1>1. TypeOK' /\ (pc \in WritingPcs => target \in unsynced)'
    BY DEF TypeOK, Images, Pcs
  <1>2. NoFaultInv'
    BY DEF TypeOK, NoFaultInv, Fresh
  <1>3. OneFaultInv'
    BY DEF TypeOK, NoFaultInv, OneFaultInv, Fresh, SomeIntact
  <1>4. ReadInv'
    BY DEF ReadInv, ReadServesIntactCopy
  <1>5. WriteInv'
    BY DEF TypeOK, WriteInv, WriteReportsFailure
  <1> QED
    BY <1>1, <1>2, <1>3, <1>4, <1>5

\* WriteSync preserves the invariant.
LEMMA WriteSyncKeeps ==
  ASSUME IInv, NEW ok \in BOOLEAN, WriteSync(ok)
  PROVE  IInv'
  <1> USE DiskAssumption
      DEF IInv, WriteSync, NextFile, Bump, AllSafe, callVars, Copies, Other,
          WritingPcs, FixPcs, Intact, FileOf, Short, Torn
  <1>1. TypeOK' /\ (pc \in WritingPcs => target \in unsynced)'
    BY DEF TypeOK, Pcs
  <1>2. NoFaultInv'
    BY DEF TypeOK, NoFaultInv, Fresh
  <1>3. OneFaultInv'
    BY DEF TypeOK, OneFaultInv, SomeIntact
  <1>4. ReadInv'
    BY DEF ReadInv, ReadServesIntactCopy
  <1>5. WriteInv'
    BY DEF TypeOK, WriteInv, WriteReportsFailure
  <1> QED
    BY <1>1, <1>2, <1>3, <1>4, <1>5

\* WriteReturn preserves the invariant.
LEMMA WriteReturnKeeps ==
  ASSUME IInv, WriteReturn
  PROVE  IInv'
  <1> USE DiskAssumption
      DEF IInv, WriteReturn, NoCall, callVars, Copies, Other,
          WritingPcs, FixPcs, Intact, FileOf, Short, Torn
  <1>1. TypeOK' /\ (pc \in WritingPcs => target \in unsynced)'
    BY DEF TypeOK, Pcs
  <1>2. NoFaultInv'
    BY DEF NoFaultInv, Fresh
  <1>3. OneFaultInv'
    BY DEF OneFaultInv, SomeIntact
  <1>4. ReadInv'
    BY DEF ReadInv, ReadServesIntactCopy
  <1>5. WriteInv'
    BY DEF WriteInv, WriteReportsFailure
  <1> QED
    BY <1>1, <1>2, <1>3, <1>4, <1>5

\* Kill preserves the invariant.
LEMMA KillKeeps ==
  ASSUME IInv, Kill
  PROVE  IInv'
  <1> USE DiskAssumption
      DEF IInv, Kill, NoCall, Bump, callVars, Copies, Other,
          WritingPcs, FixPcs, Intact, FileOf, Short, Torn
  <1>a. (image \in [Copies -> Images])' /\ (stable \in [Copies -> Images])' /\ (unsynced \in SUBSET Copies)'
    BY DEF TypeOK
  <1>b. (faults \in 0 .. 2)'
    BY DEF TypeOK
  <1>c. ret' \in BOOLEAN /\ ret2' \in BOOLEAN /\ headOk' \in BOOLEAN
    BY Zenon
  <1>d. (pc \in Pcs)' /\ (pc \notin WritingPcs)' /\ (target \in Copies)' /\ (buf \in Values)' /\ (silent \in SUBSET Copies)'
    BY DEF Pcs
  <1>1. TypeOK' /\ (pc \in WritingPcs => target \in unsynced)'
    BY <1>b, <1>d, Zenon DEF TypeOK
  <1>2. NoFaultInv'
    BY DEF TypeOK, NoFaultInv, Fresh
  <1>3. OneFaultInv'
    BY DEF TypeOK, NoFaultInv, OneFaultInv, Fresh, SomeIntact
  <1>4. ReadInv'
    BY DEF ReadInv, ReadServesIntactCopy
  <1>5. WriteInv'
    BY DEF WriteInv, WriteReportsFailure
  <1> QED
    BY <1>1, <1>2, <1>3, <1>4, <1>5

\* PowerLoss preserves the invariant.
LEMMA PowerLossKeeps ==
  ASSUME IInv, PowerLoss
  PROVE  IInv'
  <1> USE DiskAssumption
      DEF IInv, PowerLoss, NoCall, Survivors, Bump, callVars, Copies, Other,
          WritingPcs, FixPcs, Intact, FileOf, Short, Torn
  <1>a. (image \in [Copies -> Images])' /\ (stable \in [Copies -> Images])' /\ (unsynced \in SUBSET Copies)'
    BY DEF TypeOK, Images
  <1>b. (faults \in 0 .. 2)'
    BY DEF TypeOK
  <1>c. ret' \in BOOLEAN /\ ret2' \in BOOLEAN /\ headOk' \in BOOLEAN
    BY Zenon
  <1>d. (pc \in Pcs)' /\ (pc \notin WritingPcs)' /\ (target \in Copies)' /\ (buf \in Values)' /\ (silent \in SUBSET Copies)'
    BY DEF Pcs
  <1>1. TypeOK' /\ (pc \in WritingPcs => target \in unsynced)'
    BY <1>a, <1>b, <1>d, Zenon DEF TypeOK
  <1>2. NoFaultInv'
    BY DEF TypeOK, NoFaultInv, Fresh
  <1>3. OneFaultInv'
    BY DEF TypeOK, NoFaultInv, OneFaultInv, Fresh, SomeIntact
  <1>4. ReadInv'
    BY DEF ReadInv, ReadServesIntactCopy
  <1>5. WriteInv'
    BY DEF WriteInv, WriteReportsFailure
  <1> QED
    BY <1>1, <1>2, <1>3, <1>4, <1>5

\* The invariant is inductive and holds in every reachable state.
THEOREM DiskInvariant == Spec => []IInv
  <1>1. IInv /\ [Next]_vars => IInv'
    <2> SUFFICES ASSUME IInv, [Next]_vars PROVE IInv'
        OBVIOUS
    <2>1. ASSUME NEW c \in Copies, ReadBegin(c) PROVE IInv'
      BY <2>1, ReadBeginKeeps
    <2>2. CASE CallStep
      BY <2>2, ReadFirstGoodKeeps, ReadFirstBadKeeps, ReadSecondKeeps, FixOpenKeeps,
         FixOpenFailsKeeps, FixWriteKeeps, FixSyncKeeps, WriteOpenKeeps,
         WriteOpenFailsKeeps, WriteHeadKeeps, WriteBodyKeeps, WriteSyncKeeps DEF CallStep
    <2>3. CASE ReadReturn
      BY <2>3, ReadReturnKeeps
    <2>4. ASSUME NEW v \in Values, WriteBegin(v) PROVE IInv'
      BY <2>4, WriteBeginKeeps
    <2>5. CASE WriteReturn
      BY <2>5, WriteReturnKeeps
    <2>6. CASE Kill
      BY <2>6, KillKeeps
    <2>7. CASE PowerLoss
      BY <2>7, PowerLossKeeps
    <2>8. CASE UNCHANGED vars
      BY <2>8 DEF vars, IInv, TypeOK, NoFaultInv, OneFaultInv, ReadInv, WriteInv, Fresh,
         SomeIntact, ReadServesIntactCopy, WriteReportsFailure
    <2> QED
      BY <2>1, <2>2, <2>3, <2>4, <2>5, <2>6, <2>7, <2>8 DEF Next
  <1> QED
    BY <1>1, InitIInv, PTL DEF Spec

\* Type correctness: every variable of the file layer keeps its type.
THEOREM DiskTypes == Spec => []TypeOK
  BY DiskInvariant, PTL DEF IInv

\* ramDisk_Write's order, bak before orig: without a fault one copy is intact and
\* fsynced at every instant.
THEOREM DiskOneCopyDurable == Spec => []OneCopyAlwaysDurable
  <1>1. IInv => OneCopyAlwaysDurable
    BY DEF IInv, NoFaultInv, Fresh, OneCopyAlwaysDurable, Copies, Other
  <1> QED
    BY <1>1, DiskInvariant, PTL

\* After at most one fault since both copies were good, a start-up finds an intact copy.
THEOREM DiskOneFault == Spec => []OneFaultIsSurvived
  <1>1. IInv => OneFaultIsSurvived
    BY DEF IInv, OneFaultInv, SomeIntact, OneFaultIsSurvived, WritingPcs
  <1> QED
    BY <1>1, DiskInvariant, PTL

\* ramDisk_Read serves an intact copy whenever there is one.
THEOREM DiskReadServes == Spec => []ReadServesIntactCopy
  BY DiskInvariant, PTL DEF IInv, ReadInv

\* ramDisk_Write returns 1 only when every file it opened and synced holds the data.
THEOREM DiskWriteReports == Spec => []WriteReportsFailure
  BY DiskInvariant, PTL DEF IInv, WriteInv

=============================================================================
