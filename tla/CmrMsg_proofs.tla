--------------------------- MODULE CmrMsg_proofs ---------------------------
(***************************************************************************)
(* The ring of a camera thread is a bounded queue, for every length, any   *)
(* number of senders and any interleaving of them with the thread; until a *)
(* slot is lapped, synchronous sends return when they should, and the      *)
(* queue is freed after its last message.                                  *)
(***************************************************************************)
EXTENDS CmrMsg, SequenceTheorems, FiniteSetTheorems, TLAPS

\* The pointers are as far apart as there are messages, so they meet only on an empty ring.
Apart == wr = Place(number)

\* A message that waits has its own flag beside it.
OwnFlags == \A k \in 0..(number - 1) : slot[Place(k)].sync = slot[Place(k)].msg.sync

\* The message that is worked on came from the slot just behind msg_read.
Behind == Working => After(rx.cur) = rd /\ slot[rx.cur].sync = rx.msg.sync

RingInv == TypeOK /\ Apart /\ OwnFlags /\ Behind

\* A place of the ring is a slot, and different distances are different places.
LEMMA Places ==
  ASSUME TypeOK
  PROVE  /\ \A k \in Ring : Place(k) \in Ring
         /\ \A j, k \in Ring : Place(j) = Place(k) => j = k
         /\ \A k \in 0..(Count - 2) : After(Place(k)) = Place(k + 1)
         /\ After(Place(Count - 1)) = rd /\ Place(0) = rd
         /\ \A i, j \in Ring : After(i) \in Ring /\ (After(i) = After(j) => i = j)
<1>0. rd \in Nat /\ rd < Count /\ Count \in Nat /\ Count >= 2
  BY CmrAssumption DEF TypeOK, Ring
<1>1. \A k \in Ring : Place(k) \in Ring
  BY <1>0 DEF Place, Ring
<1>2. \A j, k \in Ring : Place(j) = Place(k) => j = k
  BY <1>0 DEF Place, Ring
<1>3. \A k \in 0..(Count - 2) : After(Place(k)) = Place(k + 1)
  BY <1>0 DEF Place, After
<1>4. After(Place(Count - 1)) = rd /\ Place(0) = rd
  BY <1>0 DEF Place, After
<1>5. \A i, j \in Ring : After(i) \in Ring /\ (After(i) = After(j) => i = j)
  BY <1>0 DEF Ring, After
<1> QED BY <1>1, <1>2, <1>3, <1>4, <1>5

\* A new queue is empty.
LEMMA RingStart == ASSUME Init PROVE RingInv
<1>1. lapped \in BOOLEAN BY Zenon DEF Init
<1>2. TypeOK
  BY <1>1, CmrAssumption DEF Init, TypeOK, Ring, Flags, Kinds, Msgs, NoMsg
<1>3. Apart /\ OwnFlags /\ Behind
  BY CmrAssumption DEF Init, Apart, OwnFlags, Behind, Place, Working, Ring
<1> QED BY <1>2, <1>3 DEF RingInv

\* A sender that begins cmr_msg_post touches nothing of the ring.
LEMMA BeginTypes ==
  ASSUME TypeOK, NEW p \in Senders, NEW k \in Kinds, NEW s \in Flags, PostBegin(p, k, s),
         life' \in {"new", "init", "run", "exit", "freed"}
  PROVE  TypeOK'
<1>1. pc'[p] \in [ph : {"idle", "lock", "signal", "check", "wait"}, msg : Msgs, ori : Ring, cur : Ring]
  BY CmrAssumption DEF PostBegin, TypeOK, Msgs, Ring
<1>2. UNCHANGED <<slot, sem, rd, wr, number, msgSem, rx, last, seen, done, lapped>>
  BY DEF PostBegin, queue
<1> QED BY <1>1, <1>2 DEF PostBegin, TypeOK

\* Every step keeps the types.
LEMMA TypesStep == ASSUME TypeOK, [Next]_vars PROVE TypeOK'
<1> USE CmrAssumption DEF Kinds, Flags
<1>1. ASSUME NEW p \in Senders, Post(p) PROVE TypeOK'
  <2>1. ASSUME PostOverflow(p) PROVE TypeOK'
    BY <2>1 DEF PostOverflow, TypeOK, queue
  <2>2. ASSUME PostLocked(p) PROVE TypeOK'
    <3> DEFINE m == [pc[p].msg EXCEPT !.id = last + 1]
    <3>1. m \in Msgs
      <4>1. pc[p].msg \in Msgs /\ last + 1 \in Nat BY DEF TypeOK
      <4> QED BY <4>1 DEF Msgs
    <3>2. slot' \in [Ring -> [msg : Msgs, sync : Flags]]
      BY <2>2, <3>1 DEF PostLocked, TypeOK, Msgs
    <3>3. pc' \in [Senders -> [ph : {"idle", "lock", "signal", "check", "wait"}, msg : Msgs, ori : Ring, cur : Ring]]
      BY <2>2, <3>1 DEF PostLocked, TypeOK
    <3>4. wr' \in Ring /\ number' \in Ring /\ last' \in Nat
      <4>1. pc[p].ori \in Ring /\ wr \in Ring /\ number \in Ring /\ last \in Nat BY DEF TypeOK
      <4>2. After(wr) \in Ring BY <4>1 DEF After, Ring
      <4>3. number + 1 \in Ring BY <2>2, <4>1 DEF PostLocked, Full, Ring
      <4> QED BY <2>2, <4>1, <4>2, <4>3 DEF PostLocked
    <3>5. lapped' \in BOOLEAN
      BY <2>2, Zenon DEF PostLocked
    <3> QED BY <2>2, <3>2, <3>3, <3>4, <3>5 DEF PostLocked, TypeOK
  <2>3. ASSUME PostSignal(p) PROVE TypeOK'
    BY <2>3 DEF PostSignal, TypeOK
  <2>4. ASSUME PostCheck(p) PROVE TypeOK'
    BY <2>4 DEF PostCheck, TypeOK, queue
  <2>5. ASSUME PostWait(p) PROVE TypeOK'
    <3>1. pc[p].cur \in Ring /\ sem[pc[p].cur] \in Nat /\ sem[pc[p].cur] > 0 BY <2>5 DEF PostWait, TypeOK
    <3>2. sem[pc[p].cur] - 1 \in Nat BY <3>1
    <3>3. sem' \in [Ring -> Nat] BY <2>5, <3>1, <3>2 DEF PostWait, TypeOK
    <3> QED BY <2>5, <3>3 DEF PostWait, TypeOK
  <2> QED BY <1>1, <2>1, <2>2, <2>3, <2>4, <2>5 DEF Post
<1>2. ASSUME Routine PROVE TypeOK'
  <2>1. ASSUME GetWait PROVE TypeOK' BY <2>1 DEF GetWait, TypeOK
  <2>2. ASSUME GetTake PROVE TypeOK'
    <3>1. NoMsg \in Msgs BY DEF NoMsg, Msgs
    <3>2. CASE number = 0 \/ rd = wr
      BY <2>2, <3>2 DEF GetTake, GetNothing, TypeOK
    <3>3. CASE ~(number = 0 \/ rd = wr)
      <4>1. After(rd) \in Ring /\ number - 1 \in Ring BY <3>3 DEF TypeOK, After, Ring
      <4>2. slot[rd] \in [msg : Msgs, sync : Flags] BY DEF TypeOK
      <4>3. slot[rd].msg \in Msgs /\ slot[rd].msg.id \in Nat BY <4>2 DEF Msgs
      <4>4. slot' \in [Ring -> [msg : Msgs, sync : Flags]]
        BY <2>2, <3>1, <3>3, <4>2 DEF GetTake, TypeOK
      <4>5. rx' \in [ph : {"get", "take", "recv", "run", "done", "exit"}, msg : Msgs, cur : Ring]
        BY <2>2, <3>3, <4>3 DEF GetTake, TypeOK
      <4> QED BY <2>2, <3>3, <4>1, <4>3, <4>4, <4>5 DEF GetTake, TypeOK
    <3> QED BY <3>2, <3>3
  <2>3. ASSUME GetReceived PROVE TypeOK' BY <2>3 DEF GetReceived, Release, TypeOK
  <2>4. ASSUME Process PROVE TypeOK' BY <2>4 DEF Process, TypeOK, queue, Msgs
  <2>5. ASSUME Processed PROVE TypeOK' BY <2>5 DEF Processed, Release, TypeOK
  <2> QED BY <1>2, <2>1, <2>2, <2>3, <2>4, <2>5 DEF Routine
<1>3. ASSUME NEW p \in Senders, NEW s \in Flags, Send(p, s) PROVE TypeOK'
  BY <1>3, BeginTypes DEF Send, TypeOK
<1>4. ASSUME Create PROVE TypeOK' BY <1>4, BeginTypes DEF Create
<1>5. ASSUME Destroy PROVE TypeOK' BY <1>5, BeginTypes DEF Destroy
<1>6. ASSUME Created \/ Destroyed PROVE TypeOK' BY <1>6 DEF Created, Destroyed, TypeOK, queue
<1>7. CASE UNCHANGED vars BY <1>7 DEF vars, TypeOK
<1> QED BY <1>1, <1>2, <1>3, <1>4, <1>5, <1>6, <1>7 DEF Next

\* Filling the slot at msg_write leaves msg_write short of msg_read.
LEMMA PostPlaces ==
  ASSUME RingInv, NEW p \in Senders, PostLocked(p)
  PROVE  /\ number \in 0..(Count - 2) /\ wr = Place(number) /\ wr' = Place(number + 1)
         /\ After(wr) # rd
<1>1. TypeOK /\ Apart BY DEF RingInv
<1>2. number \in 0..(Count - 2)
  <2>1. number \in Nat /\ Count \in Nat BY <1>1, CmrAssumption DEF TypeOK, Ring
  <2>2. ~(number + 1 >= Count) BY DEF PostLocked, Full
  <2> QED BY <2>1, <2>2
<1>3. After(wr) = Place(number + 1) BY <1>1, <1>2, Places DEF Apart
<1>4. 0 \in Ring /\ number + 1 \in Ring /\ number + 1 # 0
  BY <1>2, CmrAssumption DEF Ring
<1>5. Place(number + 1) # rd BY <1>1, <1>4, Places
<1> QED BY <1>1, <1>2, <1>3, <1>5 DEF Apart, PostLocked

\* The message at msg_read is there when the routine has counted it.
LEMMA TakePlaces ==
  ASSUME RingInv, number # 0
  PROVE  /\ rd # wr /\ number \in 1..(Count - 1) /\ Place(0) = rd
         /\ \A k \in 0..(Count - 2) :
              Place(k + 1) = IF After(rd) + k < Count THEN After(rd) + k ELSE After(rd) + k - Count
<1>1. TypeOK /\ Apart BY DEF RingInv
<1>2. number \in 1..(Count - 1) /\ number \in Ring /\ 0 \in Ring
  BY <1>1, CmrAssumption DEF TypeOK, Ring
<1>3. Place(number) # Place(0) /\ Place(0) = rd BY <1>1, <1>2, Places
<1>4. \A k \in 0..(Count - 2) :
        Place(k + 1) = IF After(rd) + k < Count THEN After(rd) + k ELSE After(rd) + k - Count
  <2>1. rd \in Nat /\ rd < Count /\ Count \in Nat /\ Count >= 2 BY <1>1, CmrAssumption DEF TypeOK, Ring
  <2> QED BY <2>1 DEF Place, After
<1> QED BY <1>1, <1>2, <1>3, <1>4 DEF Apart

\* Every step keeps the ring exact.
LEMMA RingStep == ASSUME RingInv, [Next]_vars PROVE RingInv'
<1>1. TypeOK /\ TypeOK' BY TypesStep DEF RingInv
<1>2. ASSUME UNCHANGED <<slot, rd, wr, number>>, Working' => Working /\ rx'.cur = rx.cur /\ rx'.msg = rx.msg
      PROVE  RingInv'
  BY <1>1, <1>2 DEF RingInv, Apart, OwnFlags, Behind, Place
<1>3. ASSUME NEW p \in Senders, Post(p) PROVE RingInv'
  <2>1. ASSUME PostLocked(p) PROVE RingInv'
    <3>1. /\ number \in 0..(Count - 2) /\ wr = Place(number) /\ wr' = Place(number + 1)
          /\ After(wr) # rd
      BY <2>1, PostPlaces
    <3>2. /\ UNCHANGED <<rd, rx>> /\ number' = number + 1
          /\ \A i \in Ring \ {wr} : slot'[i] = slot[i]
          /\ slot'[wr].sync = slot'[wr].msg.sync
      BY <2>1, <1>1 DEF PostLocked, TypeOK
    <3>3. \A k : Place(k)' = Place(k) BY <3>2 DEF Place
    <3>4. Apart' BY <3>1, <3>2, <3>3 DEF Apart
    <3>5. OwnFlags'
      <4> SUFFICES ASSUME NEW k \in 0..number
                   PROVE  slot'[Place(k)].sync = slot'[Place(k)].msg.sync
        BY <3>1, <3>2, <3>3 DEF OwnFlags
      <4>1. CASE k = number BY <4>1, <3>1, <3>2
      <4>2. CASE k # number
        <5>1. k \in 0..(number - 1) /\ k \in Ring /\ number \in Ring
          BY <4>2, <3>1, CmrAssumption DEF Ring
        <5>2. Place(k) \in Ring \ {wr} BY <4>2, <5>1, <3>1, <1>1, Places
        <5> QED BY <5>1, <5>2, <3>2 DEF RingInv, OwnFlags
      <4> QED BY <4>1, <4>2
    <3>6. Behind'
      <4> SUFFICES ASSUME Working PROVE After(rx.cur) = rd /\ slot'[rx.cur].sync = rx.msg.sync
        BY <3>2 DEF Behind, Working, After
      <4>1. After(rx.cur) = rd /\ slot[rx.cur].sync = rx.msg.sync /\ rx.cur \in Ring
        BY <1>1 DEF RingInv, Behind, TypeOK
      <4> QED BY <4>1, <3>1, <3>2
    <3> QED BY <1>1, <3>4, <3>5, <3>6 DEF RingInv
  <2>2. ASSUME PostOverflow(p) \/ PostSignal(p) \/ PostCheck(p) \/ PostWait(p) PROVE RingInv'
    <3>1. UNCHANGED <<slot, rd, wr, number, rx>>
      BY <2>2 DEF PostOverflow, PostSignal, PostCheck, PostWait, queue
    <3> QED BY <1>2, <3>1 DEF Working
  <2> QED BY <1>3, <2>1, <2>2 DEF Post
<1>4. ASSUME Routine PROVE RingInv'
  <2>1. ASSUME GetTake PROVE RingInv'
    <3>1. CASE number = 0
      <4>1. UNCHANGED <<slot, rd, wr, number>> /\ rx'.ph = "exit"
        BY <2>1, <3>1, <1>1 DEF GetTake, GetNothing, TypeOK
      <4> QED BY <1>2, <4>1 DEF Working
    <3>2. CASE number # 0
      <4>1. /\ rd # wr /\ number \in 1..(Count - 1) /\ Place(0) = rd
            /\ \A k \in 0..(Count - 2) :
                 Place(k + 1) = IF After(rd) + k < Count THEN After(rd) + k ELSE After(rd) + k - Count
        BY <3>2, TakePlaces
      <4>2. /\ rx' = [ph |-> "recv", msg |-> slot[rd].msg, cur |-> rd] /\ wr' = wr
            /\ slot' = [slot EXCEPT ![rd].msg = NoMsg] /\ rd' = After(rd) /\ number' = number - 1
        BY <2>1, <3>2, <4>1 DEF GetTake
      <4>3. \A k \in 0..(Count - 2) : Place(k)' = Place(k + 1)
        BY <4>1, <4>2 DEF Place
      <4>4. number - 1 \in 0..(Count - 2) BY <4>1, CmrAssumption
      <4>5. Apart'
        <5> DEFINE k == number - 1
        <5>1. k \in 0..(Count - 2) /\ k + 1 = number /\ number' = k BY <4>1, <4>2, <4>4
        <5> HIDE DEF k
        <5>2. Place(k + 1) = IF rd' + k < Count THEN rd' + k ELSE rd' + k - Count
          BY <5>1, <4>1, <4>2
        <5>3. wr = Place(number) BY DEF RingInv, Apart
        <5> QED BY <5>1, <5>2, <5>3, <4>2 DEF Apart, Place
      <4>6. \A i \in Ring \ {rd} : slot'[i] = slot[i]
        BY <4>2, <1>1 DEF TypeOK
      <4>7. OwnFlags'
        <5> SUFFICES ASSUME NEW k \in 0..(number - 1 - 1)
                     PROVE  slot'[Place(k)'].sync = slot'[Place(k)'].msg.sync
          BY <4>2 DEF OwnFlags
        <5>1. k \in 0..(Count - 2) /\ k + 1 \in Ring /\ k + 1 \in 0..(number - 1) /\ 0 \in Ring /\ k + 1 # 0
          BY <4>1, CmrAssumption DEF Ring
        <5>2. Place(k)' = Place(k + 1) BY <5>1, <4>3
        <5>3. Place(k + 1) \in Ring \ {rd} BY <5>1, <4>1, <1>1, Places
        <5>4. slot[Place(k + 1)].sync = slot[Place(k + 1)].msg.sync BY <5>1 DEF RingInv, OwnFlags
        <5> QED BY <5>2, <5>3, <5>4, <4>6
      <4>8. Behind'
        <5>1. slot[rd].sync = slot[rd].msg.sync
          <6>1. 0 \in 0..(number - 1) BY <4>1
          <6> QED BY <6>1, <4>1 DEF RingInv, OwnFlags
        <5>2. slot'[rd].sync = slot[rd].sync BY <4>2, <1>1 DEF TypeOK
        <5> QED BY <5>1, <5>2, <4>2 DEF Behind, After
      <4> QED BY <1>1, <4>5, <4>7, <4>8 DEF RingInv
    <3> QED BY <3>1, <3>2
  <2>2. ASSUME GetWait \/ GetReceived \/ Process \/ Processed PROVE RingInv'
    <3>1. UNCHANGED <<slot, rd, wr, number>> /\ (Working' => Working /\ rx'.cur = rx.cur /\ rx'.msg = rx.msg)
      BY <2>2, <1>1 DEF GetWait, GetReceived, Process, Processed, Working, TypeOK, queue
    <3> QED BY <1>2, <3>1
  <2> QED BY <1>4, <2>1, <2>2 DEF Routine
<1>5. ASSUME Create \/ Created \/ Destroy \/ Destroyed \/ \E p \in Senders, s \in Flags : Send(p, s)
      PROVE  RingInv'
  <2>1. UNCHANGED <<slot, rd, wr, number, rx>>
    BY <1>5 DEF Create, Created, Destroy, Destroyed, Send, PostBegin, queue
  <2> QED BY <1>2, <2>1 DEF Working
<1>6. CASE UNCHANGED vars
  <2>1. UNCHANGED <<slot, rd, wr, number, rx>> BY <1>6 DEF vars
  <2> QED BY <1>2, <2>1 DEF Working
<1> QED BY <1>3, <1>4, <1>5, <1>6 DEF Next

LEMMA RingAlways == Spec => []RingInv
<1>1. Init => RingInv BY RingStart
<1>2. RingInv /\ [Next]_vars => RingInv' BY RingStep
<1> QED BY <1>1, <1>2, PTL DEF Spec

\* The pointers of the ring stay in it and a slot stays free, in cmr_msg_post and cmr_msg_get.
THEOREM CameraTypes == Spec => []TypeOK
<1>1. RingInv => TypeOK BY DEF RingInv
<1> QED BY <1>1, RingAlways, PTL

\* cmr_common_routine wakes the sender of the message it worked on, by that message's flag:
\* the free slot keeps cmr_msg_post from the slot it came from.
THEOREM CameraSlotKept == Spec => []SlotKept
<1>1. RingInv => SlotKept BY DEF RingInv, Behind, SlotKept
<1> QED BY <1>1, RingAlways, PTL

\* The steps that leave the ring, the message worked on and the numbers alone are stutters.
LEMMA Stutters ==
  ASSUME UNCHANGED <<slot, rd, number, last>>,
         Working' <=> Working, Working => rx'.msg = rx.msg
  PROVE  UNCHANGED <<Waiting, IF Working THEN <<Bare(rx.msg)>> ELSE <<>>, last>>
<1>1. Waiting' = Waiting BY DEF Waiting, Place, Bare
<1> QED BY <1>1 DEF Bare

Bares == [id : Nat, kind : Kinds]

\* A function on 1..n is a sequence of length n.
LEMMA FunIsSeq ==
  ASSUME NEW n \in Nat, NEW S, NEW f \in [1..n -> S]
  PROVE  f \in Seq(S) /\ Len(f) = n
<1>1. f \in Seq(S) OBVIOUS
<1>2. Len(f) \in Nat /\ DOMAIN f = 1..Len(f) BY <1>1, LenProperties
<1>3. DOMAIN f = 1..n OBVIOUS
<1> QED BY <1>1, <1>2, <1>3

\* The messages that wait are a sequence.
LEMMA WaitingSeq ==
  ASSUME RingInv
  PROVE  Waiting \in Seq(Bares) /\ Len(Waiting) = number /\ number \in Nat
<1>1. TypeOK BY DEF RingInv
<1>2. number \in Nat /\ number \in 0..(Count - 1) BY <1>1, CmrAssumption DEF TypeOK, Ring
<1>3. \A i \in 1..number : Bare(slot[Place(i - 1)].msg) \in Bares
  <2> TAKE i \in 1..number
  <2>1. i - 1 \in Ring BY <1>2, CmrAssumption DEF Ring
  <2>2. slot[Place(i - 1)].msg \in Msgs BY <2>1, <1>1, Places DEF TypeOK
  <2> QED BY <2>2 DEF Bares, Bare, Msgs
<1>4. Waiting \in [1..number -> Bares] BY <1>3 DEF Waiting
<1> QED BY <1>2, <1>4, FunIsSeq

\* Filing a message appends it.
LEMMA PostAppends ==
  ASSUME RingInv, NEW p \in Senders, PostLocked(p)
  PROVE  Q!Next
<1> DEFINE m == [pc[p].msg EXCEPT !.id = last + 1]
           x == [id |-> last', kind |-> m.kind]
<1>1. TypeOK BY DEF RingInv
<1>2. number \in 0..(Count - 2) /\ wr = Place(number) BY PostPlaces
<1>3. /\ UNCHANGED <<rd, rx>> /\ number' = number + 1 /\ last' = last + 1
      /\ slot' = [slot EXCEPT ![wr] = [msg |-> m, sync |-> m.sync]]
  BY DEF PostLocked
<1>4. pc[p].msg \in Msgs BY <1>1 DEF TypeOK
<1>5. m.id = last + 1 /\ m.kind \in Kinds BY <1>4 DEF Msgs
<1>6. Bare(m) = x BY <1>3, <1>5 DEF Bare
<1> HIDE DEF x, m
<1>7. \A k : Place(k)' = Place(k) BY <1>3 DEF Place
<1>8. Waiting' = Append(Waiting, x)
  <2>1. Waiting' = [i \in 1..(number + 1) |-> Bare(slot'[Place(i - 1)].msg)]
    BY <1>3, <1>7 DEF Waiting, Bare
  <2>2. ASSUME NEW i \in 1..number PROVE Bare(slot'[Place(i - 1)].msg) = Waiting[i]
    <3>1. i - 1 \in Ring /\ number \in Ring /\ i - 1 # number BY <1>2, CmrAssumption DEF Ring
    <3>2. Place(i - 1) \in Ring \ {wr} BY <3>1, <1>1, <1>2, Places
    <3>3. slot'[Place(i - 1)] = slot[Place(i - 1)] BY <3>2, <1>3, <1>1 DEF TypeOK
    <3> QED BY <3>3 DEF Waiting
  <2>3. Bare(slot'[Place(number + 1 - 1)].msg) = x
    <3>1. slot'[wr].msg = m BY <1>3, <1>1 DEF TypeOK
    <3>2. number + 1 - 1 = number BY <1>2
    <3> QED BY <3>1, <3>2, <1>2, <1>6
  <2>4. Waiting \in Seq(Bares) /\ Len(Waiting) = number /\ number \in Nat BY WaitingSeq
  <2>5. x \in Bares
    <3>1. last' \in Nat BY <1>3, <1>1 DEF TypeOK
    <3> QED BY <3>1, <1>5 DEF x, Bares
  <2>6. \A i \in 1..number : Waiting[i] \in Bares BY <2>4, ElementOfSeq
  <2>7. /\ \A i \in 1..number : Waiting'[i] = Waiting[i]
        /\ Waiting'[number + 1] = x
    BY <2>1, <2>2, <2>3, <2>4
  <2>8. Waiting' \in [1..(number + 1) -> Bares]
    <3>1. ASSUME NEW i \in 1..(number + 1) PROVE Bare(slot'[Place(i - 1)].msg) \in Bares
      <4>1. i \in 1..number \/ i = number + 1 BY <2>4
      <4>2. CASE i \in 1..number
        <5>1. Bare(slot'[Place(i - 1)].msg) = Waiting[i] BY <4>2, <2>2
        <5> QED BY <4>2, <5>1, <2>6, Zenon
      <4>3. CASE i = number + 1
        <5>1. i - 1 = number BY <4>3, <2>4
        <5>2. Place(i - 1) = wr BY <5>1, <1>2 DEF Place
        <5>3. slot'[wr].msg = m BY <1>3, <1>1 DEF TypeOK
        <5> QED BY <5>2, <5>3, <1>6, <2>5
      <4> QED BY <4>1, <4>2, <4>3
    <3> QED BY <2>1, <3>1
  <2>9. Waiting' \in Seq(Bares) /\ Len(Waiting') = number + 1
    BY <2>4, <2>8, FunIsSeq
  <2>10. /\ Append(Waiting, x) \in Seq(Bares) /\ Len(Append(Waiting, x)) = number + 1
         /\ \A i \in 1..number : Append(Waiting, x)[i] = Waiting[i]
         /\ Append(Waiting, x)[number + 1] = x
    BY <2>4, <2>5, AppendProperties
  <2>11. \A i \in 1..(number + 1) : Waiting'[i] = Append(Waiting, x)[i]
    BY <2>4, <2>7, <2>10
  <2> QED BY <2>9, <2>10, <2>11, SeqEqual
<1>9. Len(Waiting) < Count - 1
  <2>1. Len(Waiting) = number BY WaitingSeq
  <2> QED BY <2>1, <1>2, CmrAssumption
<1>10. UNCHANGED (IF Working THEN <<Bare(rx.msg)>> ELSE <<>>) BY <1>3 DEF Working, Bare
<1>11. Q!Post(m.kind) BY <1>3, <1>8, <1>9, <1>10 DEF Q!Post, x
<1> QED BY <1>5, <1>11 DEF Q!Next

\* Taking a message takes the oldest one.
LEMMA TakeTakes ==
  ASSUME RingInv, GetTake, number # 0
  PROVE  Q!Take
<1>1. TypeOK BY DEF RingInv
<1>2. /\ rd # wr /\ number \in 1..(Count - 1) /\ Place(0) = rd
      /\ \A k \in 0..(Count - 2) :
           Place(k + 1) = IF After(rd) + k < Count THEN After(rd) + k ELSE After(rd) + k - Count
  BY TakePlaces
<1>3. /\ rx' = [ph |-> "recv", msg |-> slot[rd].msg, cur |-> rd] /\ UNCHANGED last /\ rx.ph = "take"
      /\ slot' = [slot EXCEPT ![rd].msg = NoMsg] /\ rd' = After(rd) /\ number' = number - 1
  BY <1>2 DEF GetTake
<1>4. \A k \in 0..(Count - 2) : Place(k)' = Place(k + 1) BY <1>2, <1>3 DEF Place
<1>5. Waiting \in Seq(Bares) /\ Len(Waiting) = number /\ number \in Nat BY WaitingSeq
<1>6. Head(Waiting) = Bare(slot[rd].msg)
  <2>1. Waiting[1] = Bare(slot[Place(1 - 1)].msg) BY <1>2 DEF Waiting
  <2> QED BY <2>1, <1>2, <1>5
<1>7. Waiting' = Tail(Waiting)
  <2>1. ASSUME NEW i \in 1..(number - 1) PROVE Bare(slot'[Place(i - 1)'].msg) = Waiting[i + 1]
    <3>1. i - 1 \in 0..(Count - 2) /\ i \in Ring /\ 0 \in Ring /\ i # 0 /\ i - 1 + 1 = i /\ i + 1 - 1 = i
      BY <1>2, CmrAssumption DEF Ring
    <3>2. Place(i - 1)' = Place(i) BY <3>1, <1>4
    <3>3. Place(i) \in Ring \ {rd} BY <3>1, <1>1, <1>2, Places
    <3>4. slot'[Place(i)] = slot[Place(i)] BY <3>3, <1>3, <1>1 DEF TypeOK
    <3>5. i + 1 \in 1..number BY <1>2
    <3>6. Waiting[i + 1] = Bare(slot[Place(i)].msg) BY <3>1, <3>5 DEF Waiting
    <3> QED BY <3>2, <3>4, <3>6
  <2>2. Waiting' = [i \in 1..(number - 1) |-> Bare(slot'[Place(i - 1)'].msg)]
    BY <1>3 DEF Waiting, Bare
  <2>3. Waiting # <<>> BY <1>5, <1>2
  <2>4. /\ Tail(Waiting) \in Seq(Bares) /\ Len(Tail(Waiting)) = number - 1
        /\ \A i \in 1..(number - 1) : Tail(Waiting)[i] = Waiting[i + 1]
    BY <1>5, <2>3, HeadTailProperties
  <2>5. \A i \in 1..(number - 1) : Waiting[i + 1] \in Bares BY <1>5, ElementOfSeq
  <2>6. number - 1 \in Nat BY <1>2
  <2>7. Waiting' \in [1..(number - 1) -> Bares] BY <2>1, <2>2, <2>5
  <2>8. Waiting' \in Seq(Bares) /\ Len(Waiting') = number - 1 BY <2>6, <2>7, FunIsSeq
  <2>9. \A i \in 1..(number - 1) : Waiting'[i] = Tail(Waiting)[i] BY <2>1, <2>2, <2>4
  <2> QED BY <2>4, <2>8, <2>9, SeqEqual
<1>8. ~Working /\ Working' /\ rx'.msg = slot[rd].msg BY <1>3 DEF Working
<1>9. Waiting # <<>> BY <1>5, <1>2
<1> QED BY <1>3, <1>6, <1>7, <1>8, <1>9 DEF Q!Take, Bare

\* Every step of the ring is a step of the queue, or none.
LEMMA QueueStep ==
  ASSUME RingInv, [Next]_vars
  PROVE  [Q!Next]_<<Waiting, IF Working THEN <<Bare(rx.msg)>> ELSE <<>>, last>>
<1>1. TypeOK BY DEF RingInv
<1>2. ASSUME NEW p \in Senders, Post(p)
      PROVE  Q!Next \/ UNCHANGED <<Waiting, IF Working THEN <<Bare(rx.msg)>> ELSE <<>>, last>>
  <2>1. CASE PostLocked(p) BY <2>1, PostAppends
  <2>2. CASE PostOverflow(p) \/ PostSignal(p) \/ PostCheck(p) \/ PostWait(p)
    <3>1. UNCHANGED <<slot, rd, number, last, rx>>
      BY <2>2 DEF PostOverflow, PostSignal, PostCheck, PostWait, queue
    <3> QED BY <3>1, Stutters DEF Working
  <2> QED BY <1>2, <2>1, <2>2 DEF Post
<1>3. ASSUME Routine
      PROVE  Q!Next \/ UNCHANGED <<Waiting, IF Working THEN <<Bare(rx.msg)>> ELSE <<>>, last>>
  <2>1. CASE GetTake /\ number # 0 BY <2>1, TakeTakes DEF Q!Next
  <2>2. CASE GetTake /\ number = 0
    <3>1. UNCHANGED <<slot, rd, number, last>> /\ rx.ph = "take" /\ rx'.ph = "exit"
      BY <2>2, <1>1 DEF GetTake, GetNothing, TypeOK
    <3> QED BY <3>1, Stutters DEF Working
  <2>3. CASE Processed
    <3>1. UNCHANGED <<slot, rd, number, last>> /\ Working /\ ~Working'
      BY <2>3, <1>1 DEF Processed, Working, TypeOK
    <3>2. Waiting' = Waiting BY <3>1 DEF Waiting, Place, Bare
    <3> QED BY <3>1, <3>2 DEF Q!Next, Q!Finish
  <2>4. CASE GetWait \/ GetReceived \/ Process
    <3>1. UNCHANGED <<slot, rd, number, last>> /\ (Working' <=> Working) /\ rx'.msg = rx.msg
      BY <2>4, <1>1 DEF GetWait, GetReceived, Process, Working, TypeOK, queue
    <3> QED BY <3>1, Stutters
  <2> QED BY <1>3, <2>1, <2>2, <2>3, <2>4 DEF Routine
<1>4. CASE Create \/ Created \/ Destroy \/ Destroyed \/ (\E p \in Senders, s \in Flags : Send(p, s))
           \/ UNCHANGED vars
  <2>1. UNCHANGED <<slot, rd, number, last, rx>>
    BY <1>4 DEF Create, Created, Destroy, Destroyed, Send, PostBegin, queue, vars
  <2> QED BY <2>1, Stutters DEF Working
<1> QED BY <1>2, <1>3, <1>4 DEF Next

\* cmr_msg_post and cmr_msg_get make the ring a bounded queue that loses, doubles and
\* reorders nothing, although msg_write is read before the mutex is taken.
THEOREM CameraQueue == Spec => ImplementsQueue
<1>1. Init => Q!Init
  BY DEF Init, Q!Init, Waiting, Working
<1>2. RingInv /\ [Next]_vars => [Q!Next]_<<Waiting, IF Working THEN <<Bare(rx.msg)>> ELSE <<>>, last>>
  BY QueueStep
<1> QED BY <1>1, <1>2, RingAlways, PTL DEF Spec, ImplementsQueue, Q!Spec

Signalling == {p \in Senders : pc[p].ph = "signal"}
Token == IF rx.ph = "take" THEN 1 ELSE 0

\* Who is about to signal can be counted.
LEMMA Signallers == IsFiniteSet(Signalling) /\ Cardinality(Signalling) \in Nat
<1>1. Signalling \subseteq Senders BY DEF Signalling
<1> QED BY <1>1, CmrAssumption, FS_Subset, FS_CardinalityType

\* A sender that comes to its signal is one more, a sender that leaves it one less.
LEMMA SignalSteps ==
  ASSUME TypeOK, NEW p \in Senders, NEW a, pc' = [pc EXCEPT ![p] = a]
  PROVE  /\ pc[p].ph # "signal" /\ a.ph = "signal" =>
              Cardinality(Signalling') = Cardinality(Signalling) + 1
         /\ pc[p].ph = "signal" /\ a.ph # "signal" =>
              Cardinality(Signalling') = Cardinality(Signalling) - 1
         /\ pc[p].ph # "signal" /\ a.ph # "signal" => Signalling' = Signalling
<1>1. \A k \in Senders : pc'[k] = IF k = p THEN a ELSE pc[k] BY DEF TypeOK
<1>2. ASSUME pc[p].ph # "signal", a.ph = "signal"
      PROVE  Cardinality(Signalling') = Cardinality(Signalling) + 1
  <2>1. Signalling' = Signalling \cup {p} /\ p \notin Signalling BY <1>1, <1>2 DEF Signalling
  <2> QED BY <2>1, Signallers, FS_AddElement
<1>3. ASSUME pc[p].ph = "signal", a.ph # "signal"
      PROVE  Cardinality(Signalling') = Cardinality(Signalling) - 1
  <2>1. Signalling' = Signalling \ {p} /\ p \in Signalling BY <1>1, <1>3 DEF Signalling
  <2> QED BY <2>1, Signallers, FS_RemoveElement
<1>4. ASSUME pc[p].ph # "signal", a.ph # "signal" PROVE Signalling' = Signalling
  BY <1>1, <1>4 DEF Signalling
<1> QED BY <1>2, <1>3, <1>4

\* A message is counted once, by its sender, and its count is used once, by the routine.
LEMMA TokenStep ==
  ASSUME RingInv, RingInv', TokensMatch, [Next]_vars PROVE TokensMatch'
<1> DEFINE Matches == number = msgSem + Cardinality(Signalling) + Token
<1>1. TypeOK /\ number \in Nat /\ msgSem \in Nat
  <2>1. TypeOK BY DEF RingInv
  <2> QED BY <2>1, CmrAssumption DEF TypeOK, Ring
<1>2. Cardinality(Signalling) \in Nat /\ Token \in {0, 1}
  <2>1. Token \in {0, 1} BY DEF Token
  <2> QED BY <2>1, Signallers
<1>3. Matches BY DEF TokensMatch, Signalling, Token
<1>4. SUFFICES number' = msgSem' + Cardinality(Signalling') + Token'
  BY DEF TokensMatch, Signalling, Token
<1>5. ASSUME UNCHANGED <<number, msgSem, Token>>, Signalling' = Signalling
      PROVE  number' = msgSem' + Cardinality(Signalling') + Token'
  BY <1>3, <1>5
<1>6. ASSUME NEW p \in Senders, Post(p)
      PROVE  number' = msgSem' + Cardinality(Signalling') + Token'
  <2>1. CASE PostLocked(p)
    <3>1. PICK a : pc' = [pc EXCEPT ![p] = a] /\ a.ph = "signal"
      <4> DEFINE a == [pc[p] EXCEPT !.ph = "signal", !.msg = [pc[p].msg EXCEPT !.id = last + 1], !.cur = wr]
      <4>1. pc' = [pc EXCEPT ![p] = a] BY <2>1 DEF PostLocked
      <4>2. a.ph = "signal" BY <1>1 DEF TypeOK
      <4> QED BY <4>1, <4>2
    <3>2. pc[p].ph # "signal" /\ UNCHANGED <<msgSem, rx>> /\ number' = number + 1 BY <2>1 DEF PostLocked
    <3>3. Cardinality(Signalling') = Cardinality(Signalling) + 1 BY <3>1, <3>2, <1>1, SignalSteps
    <3> QED BY <3>2, <3>3, <1>1, <1>2, <1>3 DEF Token
  <2>2. CASE PostSignal(p)
    <3>1. PICK a : pc' = [pc EXCEPT ![p] = a] /\ a.ph = "check"
      <4> DEFINE a == [pc[p] EXCEPT !.ph = "check"]
      <4>1. pc' = [pc EXCEPT ![p] = a] BY <2>2 DEF PostSignal
      <4>2. a.ph = "check" BY <1>1 DEF TypeOK
      <4> QED BY <4>1, <4>2
    <3>2. pc[p].ph = "signal" /\ UNCHANGED <<number, rx>> /\ msgSem' = msgSem + 1 BY <2>2 DEF PostSignal
    <3>3. Cardinality(Signalling') = Cardinality(Signalling) - 1 BY <3>1, <3>2, <1>1, SignalSteps
    <3> QED BY <3>2, <3>3, <1>1, <1>2, <1>3 DEF Token
  <2>3. CASE PostOverflow(p) \/ PostCheck(p) \/ PostWait(p)
    <3>1. PICK a : pc' = [pc EXCEPT ![p] = a] /\ a.ph # "signal"
      BY <2>3, <1>1 DEF PostOverflow, PostCheck, PostWait, TypeOK
    <3>2. pc[p].ph # "signal" /\ UNCHANGED <<number, msgSem, rx>>
      BY <2>3 DEF PostOverflow, PostCheck, PostWait, queue
    <3>3. Signalling' = Signalling BY <3>1, <3>2, <1>1, SignalSteps
    <3> QED BY <3>2, <3>3, <1>5 DEF Token
  <2> QED BY <1>6, <2>1, <2>2, <2>3 DEF Post
<1>7. ASSUME Routine PROVE number' = msgSem' + Cardinality(Signalling') + Token'
  <2>1. pc' = pc BY <1>7 DEF Routine, GetWait, GetTake, GetReceived, Process, Processed
  <2>2. Signalling' = Signalling BY <2>1 DEF Signalling
  <2>3. CASE GetWait
    <3>1. msgSem' = msgSem - 1 /\ number' = number /\ Token = 0 /\ Token' = 1
      BY <2>3, <1>1 DEF GetWait, Token, TypeOK
    <3> QED BY <3>1, <2>2, <1>1, <1>2, <1>3
  <2>4. CASE GetTake
    <3>1. Token = 1 /\ msgSem' = msgSem BY <2>4 DEF GetTake, Token
    <3>2. number # 0 BY <3>1, <1>1, <1>2, <1>3
    <3>3. rd # wr BY <3>2, TakePlaces
    <3>4. number' = number - 1 /\ Token' = 0 BY <2>4, <3>2, <3>3 DEF GetTake, Token
    <3> QED BY <3>1, <3>4, <2>2, <1>1, <1>2, <1>3
  <2>5. CASE GetReceived \/ Process \/ Processed
    <3>1. UNCHANGED <<number, msgSem>> /\ Token = 0 /\ Token' = 0
      BY <2>5, <1>1 DEF GetReceived, Process, Processed, Token, TypeOK, queue
    <3> QED BY <3>1, <2>2, <1>5
  <2> QED BY <1>7, <2>3, <2>4, <2>5 DEF Routine
<1>8. CASE Create \/ Destroy \/ \E p \in Senders, s \in Flags : Send(p, s)
  <2>1. PICK p \in Senders, k \in Kinds, s \in Flags : PostBegin(p, k, s)
    BY <1>8, CmrAssumption DEF Create, Destroy, Send, Kinds, Flags
  <2>2. PICK a : pc' = [pc EXCEPT ![p] = a] /\ a.ph = "lock"
    <3> DEFINE a == [ph |-> "lock", ori |-> wr, cur |-> 0, msg |-> [id |-> 0, kind |-> k, sync |-> s]]
    <3>1. pc' = [pc EXCEPT ![p] = a] BY <2>1 DEF PostBegin
    <3>2. a.ph = "lock" OBVIOUS
    <3> QED BY <3>1, <3>2
  <2>3. pc[p].ph = "idle" /\ UNCHANGED <<number, msgSem, rx>> BY <2>1 DEF PostBegin, queue
  <2>4. Signalling' = Signalling BY <2>2, <2>3, <1>1, SignalSteps
  <2> QED BY <2>3, <2>4, <1>5 DEF Token
<1>9. CASE Created \/ Destroyed \/ UNCHANGED vars
  <2>1. UNCHANGED <<number, msgSem, rx, pc>> BY <1>9 DEF Created, Destroyed, vars, queue
  <2> QED BY <2>1, <1>5 DEF Token, Signalling
<1> QED BY <1>6, <1>7, <1>8, <1>9 DEF Next

\* cmr_msg_get finds a message whenever msg_sem lets it through: no underflow.
THEOREM CameraTokens == Spec => []TokensMatch
<1>1. Init => TokensMatch
  <2> SUFFICES ASSUME Init PROVE TokensMatch OBVIOUS
  <2>1. Signalling = {} BY DEF Init, Signalling
  <2>2. Cardinality(Signalling) = 0 BY <2>1, FS_EmptySet
  <2>3. number = 0 /\ msgSem = 0 /\ rx.ph = "get" BY DEF Init
  <2> QED BY <2>2, <2>3 DEF TokensMatch, Signalling
<1>2. RingInv /\ RingInv' /\ TokensMatch /\ [Next]_vars => TokensMatch' BY TokenStep
<1> QED BY <1>1, <1>2, RingAlways, PTL DEF Spec

-----------------------------------------------------------------------------
(* What a synchronous sender may rely on, and what is left when the queue  *)
(* is freed                                                                *)

\* Between filing its message and returning.
Sending(p) == pc[p].ph \in {"signal", "check", "wait"}

\* The sender of message m, filed in slot i, is still there to be woken.
HasSender(i, m) == \E p \in Senders : Sending(p) /\ pc[p].cur = i /\ pc[p].msg = m

\* What the sender of m waits for has happened.
Reached(m) ==
  \/ m.sync = "RECEIVED" /\ m.id \in seen
  \/ m.sync = "PROCESSED" /\ m.id \in done /\ (m.kind = "EXIT" => rx.ph = "exit")

\* The routine has yet to wake the sender of the message it works on.
Owes == \/ rx.ph = "recv" /\ rx.msg.sync # "NONE"
        \/ rx.ph \in {"run", "done"} /\ rx.msg.sync = "PROCESSED"

\* Messages are numbered in the order they were filed, and are taken and processed in it.
IdsInv ==
  /\ number <= last
  /\ \A k \in 0..(number - 1) : slot[Place(k)].msg.id = last - number + 1 + k
  /\ Working => rx.msg.id = last - number /\ rx.msg.id > 0
  /\ seen = 1..(last - number)
  /\ done = 1..(last - number - (IF rx.ph \in {"recv", "run"} THEN 1 ELSE 0))

\* The message that ends the routine is the last one there is.
ExitInv ==
  /\ life \in {"exit", "freed"} => \A p \in Senders \ {Owner} : pc[p].ph = "idle"
  /\ life = "freed" => pc[Owner].ph = "idle"
  /\ life \in {"exit", "freed"} => pc[Owner].msg.kind = "EXIT"
  /\ \A p \in Senders : pc[p].msg.kind = "EXIT" => pc[p].msg.sync = "PROCESSED" /\ life \in {"exit", "freed"}
  /\ \A k \in 0..(number - 1) : slot[Place(k)].msg.kind = "EXIT" =>
       k = number - 1 /\ life \in {"exit", "freed"} /\ pc[Owner].ph # "lock"
  /\ Working /\ rx.msg.kind = "EXIT" =>
       number = 0 /\ life \in {"exit", "freed"} /\ pc[Owner].ph # "lock"
  /\ rx.ph = "exit" => number = 0 /\ life \in {"exit", "freed"} /\ pc[Owner].ph # "lock"

\* Semaphores and flags, as long as no slot was filled under its last sender.
WakeInv ==
  /\ \A p \in Senders : pc[p].ph = "lock" => pc[p].msg.id = 0
  /\ \A p \in Senders : Sending(p) => slot[pc[p].cur].sync = pc[p].msg.sync /\ pc[p].msg.id # 0
  /\ \A p, k \in Senders : Sending(p) /\ Sending(k) /\ pc[p].cur = pc[k].cur => p = k
  /\ \A k \in 0..(number - 1) :
       slot[Place(k)].msg.sync # "NONE" => HasSender(Place(k), slot[Place(k)].msg) /\ sem[Place(k)] = 0
  /\ Owes => HasSender(rx.cur, rx.msg) /\ sem[rx.cur] = 0
  /\ \A i \in Ring : sem[i] # 0 =>
       sem[i] = 1 /\ \E p \in Senders : Sending(p) /\ pc[p].cur = i /\ Reached(pc[p].msg)
  /\ \A p \in Senders : pc[p].ph = "idle" /\ pc[p].msg.id # 0 =>
       pc[p].msg.sync = "NONE" \/ Reached(pc[p].msg)

SendInv == RingInv /\ TokensMatch /\ IdsInv /\ ExitInv /\ (~lapped => WakeInv)

\* The message p files.
Filed(p) == [pc[p].msg EXCEPT !.id = last + 1]

\* What filing a message changes.
LEMMA PostFacts ==
  ASSUME RingInv, NEW p \in Senders, PostLocked(p)
  PROVE  /\ number \in 0..(Count - 2) /\ wr \in Ring /\ wr = Place(number)
         /\ number' = number + 1 /\ last' = last + 1
         /\ UNCHANGED <<rd, rx, sem, seen, done, life>>
         /\ \A k : Place(k)' = Place(k)
         /\ \A k \in 0..(number - 1) : Place(k) \in Ring /\ Place(k) # wr /\ slot'[Place(k)] = slot[Place(k)]
         /\ \A i \in Ring : i # wr => slot'[i] = slot[i]
         /\ slot'[wr].msg = Filed(p) /\ slot'[wr].sync = Filed(p).sync
         /\ Filed(p).id = last + 1 /\ Filed(p).kind = pc[p].msg.kind /\ Filed(p).sync = pc[p].msg.sync
         /\ pc[p].ph = "lock" /\ pc'[p].ph = "signal" /\ pc'[p].msg = Filed(p) /\ pc'[p].cur = wr
         /\ \A k \in Senders : k # p => pc'[k] = pc[k]
         /\ Working => rx.cur # wr
         /\ ~lapped' => ~lapped /\ \A k \in Senders : Sending(k) => pc[k].cur # wr
<1>1. TypeOK /\ number \in 0..(Count - 2) /\ wr = Place(number) /\ After(wr) # rd
  BY PostPlaces DEF RingInv
<1>2. /\ slot' = [slot EXCEPT ![wr] = [msg |-> Filed(p), sync |-> Filed(p).sync]]
      /\ pc' = [pc EXCEPT ![p] = [pc[p] EXCEPT !.ph = "signal", !.msg = Filed(p), !.cur = wr]]
      /\ number' = number + 1 /\ last' = last + 1 /\ pc[p].ph = "lock"
      /\ lapped' = (lapped \/ \E k \in Senders : pc[k].cur = wr /\ pc[k].ph \in {"signal", "check", "wait"})
      /\ UNCHANGED <<sem, rd, msgSem, rx, life, seen, done>>
  BY DEF PostLocked, Filed
<1>3. wr \in Ring BY <1>1 DEF TypeOK
<1>4. \A k \in 0..(number - 1) : Place(k) \in Ring /\ Place(k) # wr
  <2> TAKE k \in 0..(number - 1)
  <2>1. k \in Ring /\ number \in Ring /\ k # number BY <1>1, CmrAssumption DEF Ring
  <2> QED BY <1>1, <2>1, Places
<1>5. /\ \A i \in Ring : i # wr => slot'[i] = slot[i]
      /\ slot'[wr].msg = Filed(p) /\ slot'[wr].sync = Filed(p).sync
  BY <1>1, <1>2, <1>3 DEF TypeOK
<1>6. pc[p].msg \in Msgs BY <1>1 DEF TypeOK
<1>7. Filed(p).id = last + 1 /\ Filed(p).kind = pc[p].msg.kind /\ Filed(p).sync = pc[p].msg.sync
  BY <1>6 DEF Filed, Msgs
<1>8. /\ pc'[p].ph = "signal" /\ pc'[p].msg = Filed(p) /\ pc'[p].cur = wr
      /\ \A k \in Senders : k # p => pc'[k] = pc[k]
  BY <1>1, <1>2 DEF TypeOK
<1>9. Working => rx.cur # wr BY <1>1 DEF RingInv, Behind
<1>10. \A k : Place(k)' = Place(k) BY <1>2 DEF Place
<1>11. ~lapped' => ~lapped /\ \A k \in Senders : Sending(k) => pc[k].cur # wr BY <1>2 DEF Sending
<1> QED BY <1>1, <1>2, <1>3, <1>4, <1>5, <1>7, <1>8, <1>9, <1>10, <1>11

\* What taking a message changes.
LEMMA TakeFacts ==
  ASSUME RingInv, GetTake, number # 0
  PROVE  /\ number \in 1..(Count - 1) /\ rd = Place(0) /\ rd \in Ring
         /\ rx.ph = "take" /\ rx'.ph = "recv" /\ rx'.msg = slot[rd].msg /\ rx'.cur = rd
         /\ number' = number - 1 /\ seen' = seen \cup {slot[rd].msg.id}
         /\ UNCHANGED <<sem, pc, life, last, done, lapped>>
         /\ \A k \in 0..(number - 2) : /\ k + 1 \in 0..(number - 1) /\ Place(k)' = Place(k + 1)
                                       /\ slot'[Place(k + 1)] = slot[Place(k + 1)]
         /\ \A i \in Ring : slot'[i].sync = slot[i].sync
<1>1. TypeOK BY DEF RingInv
<1>2. /\ rd # wr /\ number \in 1..(Count - 1) /\ Place(0) = rd
      /\ \A k \in 0..(Count - 2) :
           Place(k + 1) = IF After(rd) + k < Count THEN After(rd) + k ELSE After(rd) + k - Count
  BY TakePlaces
<1>3. /\ rx' = [ph |-> "recv", msg |-> slot[rd].msg, cur |-> rd] /\ rx.ph = "take"
      /\ slot' = [slot EXCEPT ![rd].msg = NoMsg] /\ rd' = After(rd) /\ number' = number - 1
      /\ seen' = seen \cup {slot[rd].msg.id} /\ UNCHANGED <<sem, pc, life, last, done, lapped>>
  BY <1>2 DEF GetTake
<1>4. \A k \in 0..(Count - 2) : Place(k)' = Place(k + 1) BY <1>2, <1>3 DEF Place
<1>5. ASSUME NEW k \in 0..(number - 2)
      PROVE  /\ k + 1 \in 0..(number - 1) /\ Place(k)' = Place(k + 1)
             /\ slot'[Place(k + 1)] = slot[Place(k + 1)]
  <2>1. k \in 0..(Count - 2) /\ k + 1 \in Ring /\ 0 \in Ring /\ k + 1 # 0 /\ k + 1 \in 0..(number - 1)
    BY <1>2, CmrAssumption DEF Ring
  <2>2. Place(k + 1) \in Ring /\ Place(k + 1) # rd BY <1>1, <1>2, <2>1, Places
  <2> QED BY <1>1, <1>3, <1>4, <2>1, <2>2 DEF TypeOK
<1>6. rd \in Ring /\ \A i \in Ring : slot'[i].sync = slot[i].sync BY <1>1, <1>3 DEF TypeOK
<1> QED BY <1>2, <1>3, <1>5, <1>6

\* A counted message is there to be taken.
LEMMA TakeHasMsg == ASSUME RingInv, TokensMatch, rx.ph = "take" PROVE number # 0
<1>1. Cardinality(Signalling) \in Nat BY Signallers
<1>2. number = msgSem + Cardinality(Signalling) + 1 BY DEF TokensMatch, Signalling
<1>3. msgSem \in Nat BY DEF RingInv, TypeOK
<1> QED BY <1>1, <1>2, <1>3

\* Every step keeps the numbers in order.
LEMMA IdsStep == ASSUME RingInv, TokensMatch, IdsInv, [Next]_vars PROVE IdsInv'
<1>0. TypeOK /\ number \in Nat /\ last \in Nat /\ number <= last
  <2>1. TypeOK BY DEF RingInv
  <2> QED BY <2>1, CmrAssumption DEF TypeOK, Ring, IdsInv
<1>1. ASSUME UNCHANGED <<slot, rd, number, last, seen, done>>,
             Working' => Working /\ rx'.msg = rx.msg,
             rx'.ph \in {"recv", "run"} <=> rx.ph \in {"recv", "run"}
      PROVE  IdsInv'
  <2>1. \A k : Place(k)' = Place(k) BY <1>1 DEF Place
  <2> QED BY <1>1, <2>1 DEF IdsInv
<1>2. ASSUME NEW p \in Senders, PostLocked(p) PROVE IdsInv'
  <2>1. /\ number' = number + 1 /\ last' = last + 1 /\ wr = Place(number)
        /\ UNCHANGED <<rx, seen, done>>
        /\ \A k : Place(k)' = Place(k)
        /\ \A k \in 0..(number - 1) : slot'[Place(k)] = slot[Place(k)]
        /\ slot'[wr].msg.id = last + 1
    BY <1>2, PostFacts
  <2>2. last' - number' = last - number BY <1>0, <2>1
  <2>3. \A k \in 0..(number' - 1) : slot'[Place(k)'].msg.id = last' - number' + 1 + k
    <3> TAKE k \in 0..(number' - 1)
    <3>1. k \in 0..(number - 1) \/ k = number BY <1>0, <2>1
    <3>2. CASE k \in 0..(number - 1) BY <2>1, <2>2, <3>2 DEF IdsInv
    <3>3. CASE k = number
      <4>1. slot'[Place(k)'].msg.id = last + 1 BY <2>1, <3>3
      <4> QED BY <1>0, <2>2, <3>3, <4>1
    <3> QED BY <3>1, <3>2, <3>3
  <2>4. number' <= last' BY <1>0, <2>1
  <2> QED BY <2>1, <2>2, <2>3, <2>4 DEF IdsInv, Working
<1>3. ASSUME GetTake PROVE IdsInv'
  <2>0. number # 0 BY <1>3, TakeHasMsg DEF GetTake
  <2>1. /\ number \in 1..(Count - 1) /\ rd = Place(0)
        /\ rx.ph = "take" /\ rx'.ph = "recv" /\ rx'.msg = slot[rd].msg
        /\ number' = number - 1 /\ seen' = seen \cup {slot[rd].msg.id}
        /\ UNCHANGED <<last, done>>
        /\ \A k \in 0..(number - 2) : /\ k + 1 \in 0..(number - 1) /\ Place(k)' = Place(k + 1)
                                      /\ slot'[Place(k + 1)] = slot[Place(k + 1)]
    BY <1>3, <2>0, TakeFacts
  <2>2. slot[rd].msg.id = last - number + 1
    <3>1. 0 \in 0..(number - 1) BY <1>0, <2>0
    <3>2. slot[Place(0)].msg.id = last - number + 1 + 0 BY <3>1 DEF IdsInv
    <3> QED BY <1>0, <2>1, <3>2
  <2>3. last' - number' = last - number + 1 /\ last' - number' > 0 BY <1>0, <2>1
  <2>4. \A k \in 0..(number' - 1) : slot'[Place(k)'].msg.id = last' - number' + 1 + k
    <3> TAKE k \in 0..(number' - 1)
    <3>1. k \in 0..(number - 2) /\ k \in Nat BY <1>0, <2>1
    <3>2. slot[Place(k + 1)].msg.id = last - number + 1 + (k + 1) BY <2>1, <3>1 DEF IdsInv
    <3>3. slot'[Place(k)'].msg.id = last - number + 1 + (k + 1) BY <2>1, <3>1, <3>2
    <3> QED BY <1>0, <2>3, <3>1, <3>3
  <2>5. seen' = 1..(last' - number')
    <3>1. seen = 1..(last - number) BY DEF IdsInv
    <3> QED BY <1>0, <2>1, <2>2, <2>3, <3>1
  <2>6. done' = 1..(last' - number' - 1)
    <3>1. done = 1..(last - number - 0) BY <2>1 DEF IdsInv
    <3>2. last - number - 0 = last' - number' - 1 BY <1>0, <2>3
    <3> QED BY <2>1, <3>1, <3>2
  <2>7. number' <= last' BY <1>0, <2>1
  <2> QED BY <2>1, <2>2, <2>3, <2>4, <2>5, <2>6, <2>7 DEF IdsInv
<1>4. ASSUME Process PROVE IdsInv'
  <2>1. /\ UNCHANGED <<slot, rd, number, last, seen>> /\ rx.ph = "run" /\ rx'.ph = "done" /\ rx'.msg = rx.msg
        /\ done' = done \cup {rx.msg.id}
    BY <1>0, <1>4 DEF Process, queue, TypeOK
  <2>2. \A k : Place(k)' = Place(k) BY <2>1 DEF Place
  <2>3. rx.msg.id = last - number /\ rx.msg.id > 0 BY <2>1 DEF IdsInv, Working
  <2>4. done = 1..(last - number - 1) BY <2>1 DEF IdsInv
  <2>5. done' = 1..(last' - number' - 0) BY <1>0, <2>1, <2>3, <2>4
  <2> QED BY <2>1, <2>2, <2>3, <2>5 DEF IdsInv
<1>5. ASSUME GetWait \/ GetReceived \/ Processed PROVE IdsInv'
  <2>1. UNCHANGED <<slot, rd, number, last, seen, done>>
    BY <1>5 DEF GetWait, GetReceived, Processed
  <2>2. /\ Working' => Working /\ rx'.msg = rx.msg
        /\ rx'.ph \in {"recv", "run"} <=> rx.ph \in {"recv", "run"}
    BY <1>0, <1>5 DEF GetWait, GetReceived, Processed, Working, TypeOK
  <2> QED BY <1>1, <2>1, <2>2
<1>6. ASSUME UNCHANGED <<slot, rd, number, last, seen, done, rx>> PROVE IdsInv'
  BY <1>1, <1>6 DEF Working
<1>7. ASSUME NEW p \in Senders, PostOverflow(p) \/ PostSignal(p) \/ PostCheck(p) \/ PostWait(p) PROVE IdsInv'
  BY <1>6, <1>7 DEF PostOverflow, PostSignal, PostCheck, PostWait, queue
<1>8. CASE Create \/ Created \/ Destroy \/ Destroyed \/ (\E p \in Senders, s \in Flags : Send(p, s))
           \/ UNCHANGED vars
  BY <1>6, <1>8 DEF Create, Created, Destroy, Destroyed, Send, PostBegin, queue, vars
<1> QED BY <1>2, <1>3, <1>4, <1>5, <1>7, <1>8 DEF Next, Post, Routine

Ended == life \in {"exit", "freed"}

\* The message that ends the routine has been filed.
ExitFiled == \/ \E k \in 0..(number - 1) : slot[Place(k)].msg.kind = "EXIT"
             \/ Working /\ rx.msg.kind = "EXIT"
             \/ rx.ph = "exit"

\* Every step keeps the last message the last.
LEMMA ExitStep == ASSUME RingInv, TokensMatch, ExitInv, [Next]_vars PROVE ExitInv'
<1>0. TypeOK /\ number \in Nat /\ Owner \in Senders
  <2>1. TypeOK BY DEF RingInv
  <2> QED BY <2>1, CmrAssumption DEF TypeOK, Ring
<1>f. ExitFiled => Ended /\ pc[Owner].ph # "lock" BY DEF ExitFiled, Ended, ExitInv
\* a sender goes on in cmr_msg_post, its message filed or refused
<1>1. ASSUME NEW p \in Senders, pc[p].ph # "idle", pc'[p].ph # "lock", pc'[p].msg = pc[p].msg,
             \A k \in Senders : k # p => pc'[k] = pc[k],
             UNCHANGED <<slot, rd, number, life, rx>>
      PROVE  ExitInv'
  <2>1. \A k : Place(k)' = Place(k) BY <1>1 DEF Place
  <2>2. Working' = Working BY <1>1 DEF Working
  <2>3. life \in {"exit", "freed"} => p = Owner /\ life # "freed" BY <1>0, <1>1 DEF ExitInv
  <2>4. pc'[Owner].ph = pc[Owner].ph \/ pc'[Owner].ph # "lock" BY <1>0, <1>1
  <2>5. \A k \in Senders : pc'[k].msg = pc[k].msg BY <1>1
  <2>6. \A k \in Senders \ {Owner} : life \in {"exit", "freed"} => pc'[k].ph = "idle"
    BY <1>1, <2>3 DEF ExitInv
  <2> QED BY <1>0, <1>1, <2>1, <2>2, <2>3, <2>4, <2>5, <2>6 DEF ExitInv
<1>2. ASSUME NEW p \in Senders, PostOverflow(p) \/ PostSignal(p) \/ PostCheck(p) \/ PostWait(p)
      PROVE  ExitInv'
  <2>1. UNCHANGED <<slot, rd, number, life, rx>> /\ pc[p].ph # "idle"
    BY <1>2 DEF PostOverflow, PostSignal, PostCheck, PostWait, queue
  <2>2. /\ pc'[p].ph # "lock" /\ pc'[p].msg = pc[p].msg
        /\ \A k \in Senders : k # p => pc'[k] = pc[k]
    BY <1>0, <1>2 DEF PostOverflow, PostSignal, PostCheck, PostWait, TypeOK
  <2> QED BY <1>1, <2>1, <2>2
<1>3. ASSUME NEW p \in Senders, PostLocked(p) PROVE ExitInv'
  <2>1. /\ number' = number + 1 /\ wr = Place(number) /\ UNCHANGED <<rx, life>>
        /\ \A k : Place(k)' = Place(k)
        /\ \A k \in 0..(number - 1) : slot'[Place(k)] = slot[Place(k)]
        /\ slot'[wr].msg.kind = pc[p].msg.kind
        /\ pc[p].ph = "lock" /\ pc'[p].ph = "signal"
        /\ pc'[p].msg.kind = pc[p].msg.kind /\ pc'[p].msg.sync = pc[p].msg.sync
        /\ \A k \in Senders : k # p => pc'[k] = pc[k]
    BY <1>3, PostFacts
  <2>2. Ended => p = Owner /\ life # "freed" BY <2>1 DEF ExitInv, Ended
  <2>3. ~ExitFiled BY <1>f, <2>1, <2>2
  <2>4. ~Working' \/ rx'.msg.kind # "EXIT" BY <2>1, <2>3 DEF ExitFiled, Working
  <2>5. rx'.ph # "exit" BY <2>1, <2>3 DEF ExitFiled
  <2>6. \A k \in Senders : pc'[k].msg.kind = pc[k].msg.kind /\ pc'[k].msg.sync = pc[k].msg.sync BY <2>1
  <2>7. \A k \in 0..(number' - 1) : slot'[Place(k)'].msg.kind = "EXIT" =>
          k = number' - 1 /\ Ended /\ pc'[Owner].ph # "lock"
    <3> SUFFICES ASSUME NEW k \in 0..(number' - 1), slot'[Place(k)'].msg.kind = "EXIT"
                 PROVE  k = number' - 1 /\ Ended /\ pc'[Owner].ph # "lock"
      OBVIOUS
    <3>1. k \in 0..(number - 1) \/ k = number BY <1>0, <2>1
    <3>2. CASE k \in 0..(number - 1) BY <2>1, <2>3, <3>2 DEF ExitFiled
    <3>3. CASE k = number
      <4>1. pc[p].msg.kind = "EXIT" BY <2>1, <3>3
      <4>2. Ended BY <4>1 DEF ExitInv, Ended
      <4> QED BY <1>0, <2>1, <2>2, <3>3, <4>2
    <3> QED BY <3>1, <3>2, <3>3
  <2>8. Ended => \A k \in Senders \ {Owner} : pc'[k].ph = "idle" BY <2>1, <2>2 DEF ExitInv, Ended
  <2> QED BY <1>0, <2>1, <2>2, <2>4, <2>5, <2>6, <2>7, <2>8 DEF ExitInv, Ended
<1>4. ASSUME GetTake PROVE ExitInv'
  <2>0. number # 0 BY <1>4, TakeHasMsg DEF GetTake
  <2>1. /\ number \in 1..(Count - 1) /\ rd = Place(0)
        /\ rx'.ph = "recv" /\ rx'.msg = slot[rd].msg
        /\ number' = number - 1 /\ UNCHANGED <<pc, life>>
        /\ \A k \in 0..(number - 2) : /\ k + 1 \in 0..(number - 1) /\ Place(k)' = Place(k + 1)
                                      /\ slot'[Place(k + 1)] = slot[Place(k + 1)]
    BY <1>4, <2>0, TakeFacts
  <2>2. \A k \in 0..(number' - 1) : slot'[Place(k)'].msg.kind = "EXIT" =>
          k = number' - 1 /\ Ended /\ pc[Owner].ph # "lock"
    <3> TAKE k \in 0..(number' - 1)
    <3>1. k \in 0..(number - 2) /\ k \in Nat BY <1>0, <2>1
    <3>2. slot'[Place(k)'] = slot[Place(k + 1)] /\ k + 1 \in 0..(number - 1) BY <2>1, <3>1
    <3> QED BY <1>0, <2>1, <3>1, <3>2 DEF ExitInv, Ended
  <2>3. rx'.msg.kind = "EXIT" => number' = 0 /\ Ended /\ pc[Owner].ph # "lock"
    <3>1. 0 \in 0..(number - 1) BY <1>0, <2>0
    <3> QED BY <1>0, <2>1, <3>1 DEF ExitInv, Ended
  <2> QED BY <2>1, <2>2, <2>3 DEF ExitInv, Ended
<1>5. ASSUME GetWait \/ GetReceived \/ Process \/ Processed PROVE ExitInv'
  <2>1. UNCHANGED <<slot, rd, number, pc, life>>
    BY <1>5 DEF GetWait, GetReceived, Process, Processed, queue
  <2>2. /\ Working' => Working /\ rx'.msg = rx.msg
        /\ rx'.ph = "exit" => Working /\ rx.msg.kind = "EXIT"
    BY <1>0, <1>5 DEF GetWait, GetReceived, Process, Processed, Working, TypeOK
  <2>3. \A k : Place(k)' = Place(k) BY <2>1 DEF Place
  <2> QED BY <2>1, <2>2, <2>3 DEF ExitInv
\* cmr_msg_post is called
<1>6. ASSUME NEW p \in Senders, NEW h \in Kinds, NEW s \in Flags, PostBegin(p, h, s), ~Ended,
             \/ ~Ended' /\ h # "EXIT"
             \/ /\ life' = "exit" /\ p = Owner /\ h = "EXIT" /\ s = "PROCESSED"
                /\ \A k \in Senders : pc[k].ph = "idle"
      PROVE  ExitInv'
  <2>1. /\ UNCHANGED <<slot, rd, number, rx>>
        /\ pc'[p].msg.kind = h /\ pc'[p].msg.sync = s /\ \A k \in Senders : k # p => pc'[k] = pc[k]
    BY <1>0, <1>6 DEF PostBegin, queue, TypeOK
  <2>2. \A k : Place(k)' = Place(k) BY <2>1 DEF Place
  <2>3. ~ExitFiled BY <1>f, <1>6
  <2>4. /\ \A k \in 0..(number' - 1) : slot'[Place(k)'].msg.kind # "EXIT"
        /\ ~(Working' /\ rx'.msg.kind = "EXIT") /\ rx'.ph # "exit"
    BY <2>1, <2>2, <2>3 DEF ExitFiled, Working
  <2>5. \A k \in Senders : pc[k].msg.kind # "EXIT" BY <1>6 DEF ExitInv, Ended
  <2>6. CASE ~Ended' /\ h # "EXIT"
    BY <2>1, <2>4, <2>5, <2>6 DEF ExitInv, Ended
  <2>7. CASE life' = "exit" /\ p = Owner /\ h = "EXIT" /\ s = "PROCESSED" /\ \A k \in Senders : pc[k].ph = "idle"
    BY <2>1, <2>4, <2>5, <2>7 DEF ExitInv, Ended
  <2> QED BY <1>6, <2>6, <2>7
<1>7. CASE Create BY <1>0, <1>6, <1>7 DEF Create, Ended, Kinds, Flags
<1>8. ASSUME NEW p \in Senders, NEW s \in Flags, Send(p, s) PROVE ExitInv'
  BY <1>6, <1>8 DEF Send, Ended, Kinds
<1>9. CASE Destroy BY <1>0, <1>6, <1>9 DEF Destroy, Ended, Kinds, Flags
<1>10. CASE Created \/ Destroyed
  <2>1. UNCHANGED <<slot, rd, number, pc, rx>> BY <1>10 DEF Created, Destroyed, queue
  <2>2. \A k : Place(k)' = Place(k) BY <2>1 DEF Place
  <2>3. Ended' = Ended /\ (life' = "freed" => life = "exit" /\ pc[Owner].ph = "idle")
    BY <1>10 DEF Created, Destroyed, Ended
  <2> QED BY <2>1, <2>2, <2>3 DEF ExitInv, Ended, Working
<1>11. CASE UNCHANGED vars
  <2>1. \A k : Place(k)' = Place(k) BY <1>11 DEF Place, vars
  <2> QED BY <1>11, <2>1 DEF ExitInv, vars, Working
<1> QED BY <1>2, <1>3, <1>4, <1>5, <1>7, <1>8, <1>9, <1>10, <1>11 DEF Next, Post, Routine

\* The slot a message came from is not one of those that wait.
LEMMA CurFree ==
  ASSUME RingInv, Working
  PROVE  rx.cur \in Ring /\ \A k \in 0..(number - 1) : Place(k) \in Ring /\ Place(k) # rx.cur
<1>1. TypeOK /\ After(rx.cur) = rd BY DEF RingInv, Behind
<1>2. rx.cur \in Ring /\ number \in Ring BY <1>1 DEF TypeOK
<1>3. Count - 1 \in Ring BY CmrAssumption DEF Ring
<1>4. rx.cur = Place(Count - 1) BY <1>1, <1>2, <1>3, Places
<1>5. ASSUME NEW k \in 0..(number - 1) PROVE Place(k) \in Ring /\ Place(k) # rx.cur
  <2>1. k \in Ring /\ k # Count - 1 BY <1>2, CmrAssumption DEF Ring
  <2> QED BY <1>1, <1>3, <1>4, <2>1, Places
<1> QED BY <1>2, <1>5

\* A step of the routine that wakes nobody, when nothing it did is taken back.
LEMMA WakeQuiet ==
  ASSUME WakeInv, UNCHANGED <<slot, sem, rd, number, pc>>,
         Owes' => Owes /\ rx'.cur = rx.cur /\ rx'.msg = rx.msg,
         \A m : Reached(m) => Reached(m)'
  PROVE  WakeInv'
<1>1. \A k : Place(k)' = Place(k) BY DEF Place
<1>2. \A p : Sending(p)' = Sending(p) BY DEF Sending
<1>3. \A i, m : HasSender(i, m)' = HasSender(i, m) BY <1>2 DEF HasSender
<1>4. Owes' => HasSender(rx.cur, rx.msg)' /\ sem'[rx'.cur] = 0 /\ rx'.cur = rx.cur /\ rx'.msg = rx.msg
  BY <1>3 DEF WakeInv
<1>5. \A k \in 0..(number' - 1) : slot'[Place(k)'].msg.sync # "NONE" =>
        HasSender(Place(k), slot[Place(k)].msg)' /\ sem'[Place(k)'] = 0
  BY <1>1, <1>3 DEF WakeInv
<1>6. \A i \in Ring : sem'[i] # 0 =>
        sem'[i] = 1 /\ \E p \in Senders : Sending(p)' /\ pc'[p].cur = i /\ Reached(pc[p].msg)'
  BY <1>2 DEF WakeInv
<1>7. \A p \in Senders : pc'[p].ph = "idle" /\ pc'[p].msg.id # 0 =>
        pc'[p].msg.sync = "NONE" \/ Reached(pc[p].msg)'
  BY DEF WakeInv
<1> QED BY <1>2, <1>4, <1>5, <1>6, <1>7 DEF WakeInv

\* A step of the routine that wakes the sender of its message, once that message has come so far.
LEMMA WakeRelease ==
  ASSUME RingInv, WakeInv, Working, NEW f, Release(f), UNCHANGED <<slot, rd, number, pc>>,
         rx.msg.sync = f => Owes /\ ~Owes',
         NEW w, w = rx.msg, w.sync = f => Reached(w)',
         Owes' => Owes /\ rx'.cur = rx.cur /\ rx'.msg = rx.msg,
         \A m : Reached(m) => Reached(m)'
  PROVE  WakeInv'
<1>1. TypeOK /\ slot[rx.cur].sync = rx.msg.sync BY DEF RingInv, Behind
<1>2. CASE rx.msg.sync # f
  <2>1. sem' = sem BY <1>1, <1>2 DEF Release
  <2> QED BY <2>1, WakeQuiet
<1>3. CASE rx.msg.sync = f
  <2>1. sem' = [sem EXCEPT ![rx.cur] = @ + 1] BY <1>1, <1>3 DEF Release
  <2>2. sem[rx.cur] = 0 /\ HasSender(rx.cur, w) BY <1>3 DEF WakeInv
  <2>3. rx.cur \in Ring /\ \A k \in 0..(number - 1) : Place(k) \in Ring /\ Place(k) # rx.cur
    BY CurFree
  <2>4. sem'[rx.cur] = 1 /\ \A i \in Ring : i # rx.cur => sem'[i] = sem[i]
    BY <1>1, <2>1, <2>2, <2>3 DEF TypeOK
  <2>5. \A p : Sending(p)' = Sending(p) BY DEF Sending
  <2>6. \A i, m : HasSender(i, m)' = HasSender(i, m) BY <2>5 DEF HasSender
  <2>7. \A k : Place(k)' = Place(k) BY DEF Place
  <2>8. \A k \in 0..(number' - 1) : slot'[Place(k)'].msg.sync # "NONE" =>
          HasSender(Place(k), slot[Place(k)].msg)' /\ sem'[Place(k)'] = 0
    BY <2>3, <2>4, <2>6, <2>7 DEF WakeInv
  <2>9. ASSUME NEW i \in Ring, sem'[i] # 0
        PROVE  sem'[i] = 1 /\ \E p \in Senders : Sending(p)' /\ pc'[p].cur = i /\ Reached(pc[p].msg)'
    <3>1. CASE i = rx.cur
      <4>1. PICK p \in Senders : Sending(p) /\ pc[p].cur = rx.cur /\ pc[p].msg = w
        BY <2>2 DEF HasSender
      <4>2. Reached(w)' BY <1>3
      <4>3. Reached(pc[p].msg)'
        <5>1. pc'[p].msg = w BY <4>1
        <5> QED BY <4>2, <5>1 DEF Reached
      <4> QED BY <2>4, <2>5, <3>1, <4>1, <4>3
    <3>2. CASE i # rx.cur
      <4>1. sem[i] # 0 BY <2>4, <2>9, <3>2
      <4>2. PICK p \in Senders : Sending(p) /\ pc[p].cur = i /\ Reached(pc[p].msg)
        BY <4>1 DEF WakeInv
      <4>3. sem'[i] = 1 BY <2>4, <3>2, <4>1 DEF WakeInv
      <4>4. Reached(pc[p].msg)'
        <5> DEFINE m == pc[p].msg
        <5>1. Reached(m)' BY <4>2
        <5> QED BY <5>1
      <4> QED BY <2>5, <4>2, <4>3, <4>4
    <3> QED BY <3>1, <3>2
  <2>10. \A p \in Senders : pc'[p].ph = "idle" /\ pc'[p].msg.id # 0 =>
          pc'[p].msg.sync = "NONE" \/ Reached(pc[p].msg)'
    BY DEF WakeInv
  <2>11. ~Owes' BY <1>3
  <2> QED BY <2>5, <2>8, <2>9, <2>10, <2>11 DEF WakeInv
<1> QED BY <1>2, <1>3

\* A sender files its message: nobody else is about with that slot.
LEMMA WakePost ==
  ASSUME RingInv, WakeInv, NEW p \in Senders, PostLocked(p), ~lapped'
  PROVE  WakeInv'
<1>1. /\ number \in 0..(Count - 2) /\ wr \in Ring /\ wr = Place(number)
      /\ number' = number + 1 /\ last' = last + 1
      /\ UNCHANGED <<rd, rx, sem, seen, done, life>>
      /\ \A k : Place(k)' = Place(k)
      /\ \A k \in 0..(number - 1) : Place(k) \in Ring /\ Place(k) # wr /\ slot'[Place(k)] = slot[Place(k)]
      /\ \A i \in Ring : i # wr => slot'[i] = slot[i]
      /\ slot'[wr].msg = Filed(p) /\ slot'[wr].sync = Filed(p).sync
      /\ Filed(p).id = last + 1
      /\ pc[p].ph = "lock" /\ pc'[p].ph = "signal" /\ pc'[p].msg = Filed(p) /\ pc'[p].cur = wr
      /\ \A k \in Senders : k # p => pc'[k] = pc[k]
      /\ \A k \in Senders : Sending(k) => pc[k].cur # wr
  BY PostFacts
<1>2. TypeOK /\ last \in Nat BY DEF RingInv, TypeOK
<1>3. \A q \in Senders : Sending(q) => q # p /\ Sending(q)' BY <1>1 DEF Sending
<1>4. \A q \in Senders : Sending(q)' => q = p \/ Sending(q) BY <1>1 DEF Sending
<1>5. Sending(p)' BY <1>1 DEF Sending
<1>7. sem[wr] = 0 BY <1>1 DEF WakeInv
<1>9. /\ \A q \in Senders : pc'[q].ph = "lock" => pc'[q].msg.id = 0
      /\ \A q \in Senders : Sending(q)' => slot'[pc'[q].cur].sync = pc'[q].msg.sync /\ pc'[q].msg.id # 0
  <2>1. \A q \in Senders : pc'[q].ph = "lock" => pc'[q].msg.id = 0 BY <1>1 DEF WakeInv
  <2>2. ASSUME NEW q \in Senders, Sending(q)', q # p
        PROVE  slot'[pc'[q].cur].sync = pc'[q].msg.sync /\ pc'[q].msg.id # 0
    <3>1. Sending(q) /\ pc'[q] = pc[q] /\ pc[q].cur # wr BY <1>1, <1>4, <2>2
    <3>2. pc[q].cur \in Ring BY <1>2 DEF TypeOK
    <3> QED BY <1>1, <3>1, <3>2 DEF WakeInv
  <2>3. last + 1 # 0 BY <1>2
  <2> QED BY <1>1, <2>1, <2>2, <2>3
<1>10. \A q, k \in Senders : Sending(q)' /\ Sending(k)' /\ pc'[q].cur = pc'[k].cur => q = k
  BY <1>1, <1>4 DEF WakeInv
<1>11. ASSUME NEW k \in 0..(number' - 1), slot'[Place(k)'].msg.sync # "NONE"
       PROVE  HasSender(Place(k), slot[Place(k)].msg)' /\ sem'[Place(k)'] = 0
  <2>1. k \in 0..(number - 1) \/ k = number BY <1>1
  <2>2. CASE k \in 0..(number - 1)
    <3>1. Place(k)' = Place(k) /\ slot'[Place(k)] = slot[Place(k)] BY <1>1, <2>2
    <3>2. HasSender(Place(k), slot[Place(k)].msg) /\ sem[Place(k)] = 0
      BY <1>11, <2>2, <3>1 DEF WakeInv
    <3>3. PICK q \in Senders : Sending(q) /\ pc[q].cur = Place(k) /\ pc[q].msg = slot[Place(k)].msg
      BY <3>2 DEF HasSender
    <3>4. Sending(q)' /\ pc'[q] = pc[q] BY <1>1, <1>3, <3>3
    <3>5. pc'[q].cur = Place(k)' /\ pc'[q].msg = slot'[Place(k)'].msg BY <3>1, <3>3, <3>4
    <3>6. HasSender(Place(k), slot[Place(k)].msg)' BY <3>4, <3>5 DEF HasSender
    <3> QED BY <1>1, <3>1, <3>2, <3>6
  <2>3. CASE k = number
    <3>1. Place(k)' = wr BY <1>1, <2>3
    <3>2. pc'[p].cur = Place(k)' /\ pc'[p].msg = slot'[Place(k)'].msg BY <1>1, <3>1
    <3>3. HasSender(Place(k), slot[Place(k)].msg)' BY <1>5, <3>2 DEF HasSender
    <3> QED BY <1>1, <1>7, <3>1, <3>3
  <2> QED BY <2>1, <2>2, <2>3
<1>12. Owes' => HasSender(rx.cur, rx.msg)' /\ sem'[rx'.cur] = 0
  <2> SUFFICES ASSUME Owes' PROVE HasSender(rx.cur, rx.msg)' /\ sem'[rx'.cur] = 0
    OBVIOUS
  <2>1. Owes BY <1>1 DEF Owes
  <2>2. HasSender(rx.cur, rx.msg) /\ sem[rx.cur] = 0 BY <2>1 DEF WakeInv
  <2>3. PICK q \in Senders : Sending(q) /\ pc[q].cur = rx.cur /\ pc[q].msg = rx.msg
    BY <2>2 DEF HasSender
  <2>4. Sending(q)' /\ pc'[q] = pc[q] BY <1>1, <1>3, <2>3
  <2>5. HasSender(rx.cur, rx.msg)' BY <1>1, <2>3, <2>4 DEF HasSender
  <2> QED BY <1>1, <2>2, <2>5
<1>13. ASSUME NEW i \in Ring, sem'[i] # 0
       PROVE  sem'[i] = 1 /\ \E q \in Senders : Sending(q)' /\ pc'[q].cur = i /\ Reached(pc[q].msg)'
  <2>1. sem[i] # 0 BY <1>1, <1>13
  <2>2. PICK q \in Senders : Sending(q) /\ pc[q].cur = i /\ Reached(pc[q].msg)
    BY <2>1 DEF WakeInv
  <2>3. Sending(q)' /\ pc'[q] = pc[q] BY <1>1, <1>3, <2>2
  <2>4. Reached(pc[q].msg)' BY <1>1, <2>2, <2>3 DEF Reached
  <2>5. sem'[i] = 1 BY <1>1, <2>1 DEF WakeInv
  <2> QED BY <2>2, <2>3, <2>4, <2>5
<1>14. ASSUME NEW q \in Senders, pc'[q].ph = "idle", pc'[q].msg.id # 0
       PROVE  pc'[q].msg.sync = "NONE" \/ Reached(pc[q].msg)'
  <2>1. q # p /\ pc'[q] = pc[q] BY <1>1, <1>14
  <2>2. pc[q].msg.sync = "NONE" \/ Reached(pc[q].msg) BY <1>14, <2>1 DEF WakeInv
  <2> QED BY <1>1, <2>1, <2>2 DEF Reached
<1> QED BY <1>9, <1>10, <1>11, <1>12, <1>13, <1>14 DEF WakeInv

\* A sender goes on, or leaves with what it waited for.
LEMMA WakeMove ==
  ASSUME TypeOK, WakeInv, NEW p \in Senders, UNCHANGED <<slot, rd, number, rx, seen, done>>,
         \A q \in Senders : q # p => pc'[q] = pc[q],
         Sending(p)' => Sending(p) /\ pc'[p].msg = pc[p].msg /\ pc'[p].cur = pc[p].cur,
         \A i \in Ring : sem'[i] = sem[i] \/ sem'[i] = 0,
         Sending(p) /\ ~Sending(p)' =>
           pc[p].msg.sync = "NONE" \/ (sem[pc[p].cur] # 0 /\ sem'[pc[p].cur] = 0),
         pc'[p].ph = "lock" => pc'[p].msg.id = 0,
         pc'[p].ph = "idle" /\ pc'[p].msg.id # 0 => pc'[p].msg.sync = "NONE" \/ Reached(pc[p].msg)'
  PROVE  WakeInv'
<1>1. \A k : Place(k)' = Place(k) BY DEF Place
<1>2. \A q \in Senders : q # p => Sending(q)' = Sending(q) BY DEF Sending
<1>3. \A q \in Senders : Sending(q)' => Sending(q) /\ pc'[q].msg = pc[q].msg /\ pc'[q].cur = pc[q].cur
  BY <1>2
\* a sender that is to be woken is not the one that leaves
<1>4. ASSUME NEW i \in Ring, NEW m, HasSender(i, m), sem[i] = 0, m.sync # "NONE"
      PROVE  \E q \in Senders : Sending(q)' /\ pc'[q].cur = i /\ pc'[q].msg = m
  <2>1. PICK q \in Senders : Sending(q) /\ pc[q].cur = i /\ pc[q].msg = m BY <1>4 DEF HasSender
  <2>2. Sending(q)' BY <1>2, <1>4, <2>1
  <2> QED BY <1>3, <2>1, <2>2
<1>5. /\ \A q \in Senders : pc'[q].ph = "lock" => pc'[q].msg.id = 0
      /\ \A q \in Senders : Sending(q)' => slot'[pc'[q].cur].sync = pc'[q].msg.sync /\ pc'[q].msg.id # 0
      /\ \A q, k \in Senders : Sending(q)' /\ Sending(k)' /\ pc'[q].cur = pc'[k].cur => q = k
  BY <1>3 DEF WakeInv
<1>6. ASSUME NEW k \in 0..(number' - 1), slot'[Place(k)'].msg.sync # "NONE"
      PROVE  HasSender(Place(k), slot[Place(k)].msg)' /\ sem'[Place(k)'] = 0
  <2>1. HasSender(Place(k), slot[Place(k)].msg) /\ sem[Place(k)] = 0 BY <1>1, <1>6 DEF WakeInv
  <2>2. Place(k) \in Ring
    <3>1. k \in Ring BY CmrAssumption DEF TypeOK, Ring
    <3> QED BY <3>1, Places
  <2>3. \E q \in Senders : Sending(q)' /\ pc'[q].cur = Place(k) /\ pc'[q].msg = slot[Place(k)].msg
    BY <1>1, <1>4, <1>6, <2>1, <2>2
  <2>4. HasSender(Place(k), slot[Place(k)].msg)' BY <1>1, <2>3 DEF HasSender
  <2> QED BY <1>1, <2>1, <2>2, <2>4
<1>7. ASSUME Owes' PROVE HasSender(rx.cur, rx.msg)' /\ sem'[rx'.cur] = 0
  <2>1. Owes /\ rx.msg.sync # "NONE" BY <1>7 DEF Owes
  <2>2. HasSender(rx.cur, rx.msg) /\ sem[rx.cur] = 0 BY <2>1 DEF WakeInv
  <2>3. rx.cur \in Ring BY DEF TypeOK
  <2>4. \E q \in Senders : Sending(q)' /\ pc'[q].cur = rx.cur /\ pc'[q].msg = rx.msg
    BY <1>4, <2>1, <2>2, <2>3
  <2>5. HasSender(rx.cur, rx.msg)' BY <2>4 DEF HasSender
  <2> QED BY <2>2, <2>3, <2>5
<1>8. ASSUME NEW i \in Ring, sem'[i] # 0
      PROVE  sem'[i] = 1 /\ \E q \in Senders : Sending(q)' /\ pc'[q].cur = i /\ Reached(pc[q].msg)'
  <2>1. sem'[i] = sem[i] /\ sem[i] # 0 BY <1>8
  <2>2. PICK q \in Senders : Sending(q) /\ pc[q].cur = i /\ Reached(pc[q].msg)
    BY <2>1 DEF WakeInv
  <2>3. pc[q].msg.sync # "NONE" BY <2>2 DEF Reached
  <2>4. Sending(q)' BY <1>2, <1>8, <2>2, <2>3
  <2>5. pc'[q].msg = pc[q].msg /\ pc'[q].cur = i BY <1>3, <2>2, <2>4
  <2>6. Reached(pc[q].msg)' BY <2>2, <2>5 DEF Reached
  <2>7. sem'[i] = 1 BY <2>1 DEF WakeInv
  <2> QED BY <2>4, <2>5, <2>6, <2>7
<1>9. ASSUME NEW q \in Senders, pc'[q].ph = "idle", pc'[q].msg.id # 0
      PROVE  pc'[q].msg.sync = "NONE" \/ Reached(pc[q].msg)'
  <2>1. CASE q = p BY <1>9, <2>1
  <2>2. CASE q # p
    <3>1. pc'[q] = pc[q] BY <2>2
    <3>2. pc[q].msg.sync = "NONE" \/ Reached(pc[q].msg) BY <1>9, <3>1 DEF WakeInv
    <3> QED BY <3>1, <3>2 DEF Reached
  <2> QED BY <2>1, <2>2
<1> QED BY <1>5, <1>6, <1>7, <1>8, <1>9 DEF WakeInv

\* Every step that laps nobody keeps the senders' semaphores exact.
LEMMA WakeStep ==
  ASSUME RingInv, TokensMatch, IdsInv, ~lapped => WakeInv, [Next]_vars
  PROVE  ~lapped' => WakeInv'
<1>0. TypeOK /\ last \in Nat /\ number \in Nat /\ number <= last
  <2>1. TypeOK BY DEF RingInv
  <2> QED BY <2>1, CmrAssumption DEF TypeOK, Ring, IdsInv
<1>1. ASSUME NEW p \in Senders, PostLocked(p), ~lapped' PROVE WakeInv'
  <2>1. ~lapped BY <1>1, PostFacts
  <2> QED BY <1>1, <2>1, WakePost
<1>2. ASSUME NEW p \in Senders, PostSignal(p), ~lapped' PROVE WakeInv'
  <2>1. /\ UNCHANGED <<slot, sem, rd, number, rx, seen, done, lapped>>
        /\ pc[p].ph = "signal" /\ pc'[p].ph = "check" /\ pc'[p].msg = pc[p].msg /\ pc'[p].cur = pc[p].cur
        /\ \A q \in Senders : q # p => pc'[q] = pc[q]
    BY <1>0, <1>2 DEF PostSignal, TypeOK
  <2>2. Sending(p) /\ Sending(p)' BY <2>1 DEF Sending
  <2>3. WakeInv BY <1>2, <2>1
  <2> QED BY <1>0, <2>1, <2>2, <2>3, WakeMove
<1>3. ASSUME NEW p \in Senders, PostCheck(p), ~lapped' PROVE WakeInv'
  <2>1. /\ UNCHANGED <<slot, sem, rd, number, rx, seen, done, lapped>>
        /\ pc[p].ph = "check" /\ pc'[p].msg = pc[p].msg /\ pc'[p].cur = pc[p].cur
        /\ pc'[p].ph = IF slot[pc[p].cur].sync = "NONE" THEN "idle" ELSE "wait"
        /\ \A q \in Senders : q # p => pc'[q] = pc[q]
    BY <1>0, <1>3 DEF PostCheck, TypeOK, queue
  <2>2. WakeInv BY <1>3, <2>1
  <2>3. Sending(p) BY <2>1 DEF Sending
  <2>4. slot[pc[p].cur].sync = pc[p].msg.sync BY <2>2, <2>3 DEF WakeInv
  <2>5. ~Sending(p)' => pc[p].msg.sync = "NONE" BY <2>1, <2>4 DEF Sending
  <2>6. pc'[p].ph = "idle" => pc'[p].msg.sync = "NONE" BY <2>1, <2>4
  <2>7. pc'[p].ph # "lock" BY <2>1
  <2> QED BY <1>0, <2>1, <2>2, <2>3, <2>5, <2>6, <2>7, WakeMove
<1>4. ASSUME NEW p \in Senders, PostWait(p), ~lapped' PROVE WakeInv'
  <2>1. /\ UNCHANGED <<slot, rd, number, rx, seen, done, lapped>>
        /\ pc[p].ph = "wait" /\ pc'[p].ph = "idle" /\ pc'[p].msg = pc[p].msg /\ pc'[p].cur = pc[p].cur
        /\ \A q \in Senders : q # p => pc'[q] = pc[q]
        /\ pc[p].cur \in Ring /\ sem[pc[p].cur] > 0
        /\ sem' = [sem EXCEPT ![pc[p].cur] = @ - 1]
    BY <1>0, <1>4 DEF PostWait, TypeOK
  <2>2. WakeInv BY <1>4, <2>1
  <2>3. sem[pc[p].cur] # 0 BY <2>1
  <2>4. sem[pc[p].cur] = 1 BY <2>1, <2>2, <2>3 DEF WakeInv
  <2>5. PICK q \in Senders : Sending(q) /\ pc[q].cur = pc[p].cur /\ Reached(pc[q].msg)
    BY <2>1, <2>2, <2>3 DEF WakeInv
  <2>6. Sending(p) /\ ~Sending(p)' BY <2>1 DEF Sending
  <2>7. q = p BY <2>2, <2>5, <2>6 DEF WakeInv
  <2>8. Reached(pc[p].msg)' BY <2>1, <2>5, <2>7 DEF Reached
  <2>9. /\ \A i \in Ring : sem'[i] = sem[i] \/ sem'[i] = 0
        /\ sem'[pc[p].cur] = 0
    <3>1. \A i \in Ring : i # pc[p].cur => sem'[i] = sem[i] BY <1>0, <2>1 DEF TypeOK
    <3>2. sem'[pc[p].cur] = 0 BY <1>0, <2>1, <2>4 DEF TypeOK
    <3> QED BY <3>1, <3>2
  <2>10. pc'[p].ph # "lock" BY <2>1
  <2> QED BY <1>0, <2>1, <2>2, <2>3, <2>6, <2>8, <2>9, <2>10, WakeMove
<1>5. ASSUME NEW p \in Senders, PostOverflow(p), ~lapped' PROVE WakeInv'
  <2>1. /\ UNCHANGED <<slot, sem, rd, number, rx, seen, done, lapped>>
        /\ pc[p].ph = "lock" /\ pc'[p].ph = "idle" /\ pc'[p].msg = pc[p].msg
        /\ \A q \in Senders : q # p => pc'[q] = pc[q]
    BY <1>0, <1>5 DEF PostOverflow, TypeOK, queue
  <2>2. WakeInv BY <1>5, <2>1
  <2>3. pc'[p].msg.id = 0 BY <2>1, <2>2 DEF WakeInv
  <2>4. ~Sending(p) /\ ~Sending(p)' BY <2>1 DEF Sending
  <2> QED BY <1>0, <2>1, <2>2, <2>3, <2>4, WakeMove
<1>6. ASSUME NEW p \in Senders, NEW k \in Kinds, NEW s \in Flags, PostBegin(p, k, s), ~lapped' PROVE WakeInv'
  <2>1. /\ UNCHANGED <<slot, sem, rd, number, rx, seen, done, lapped>>
        /\ pc[p].ph = "idle" /\ pc'[p].ph = "lock" /\ pc'[p].msg.id = 0
        /\ \A q \in Senders : q # p => pc'[q] = pc[q]
    BY <1>0, <1>6 DEF PostBegin, TypeOK, queue
  <2>2. WakeInv BY <1>6, <2>1
  <2>4. ~Sending(p) /\ ~Sending(p)' BY <2>1 DEF Sending
  <2> QED BY <1>0, <2>1, <2>2, <2>4, WakeMove
<1>7. ASSUME GetWait, ~lapped' PROVE WakeInv'
  <2>1. /\ UNCHANGED <<slot, sem, rd, number, pc, seen, done, lapped>>
        /\ rx.ph = "get" /\ rx'.ph = "take" /\ rx'.msg = rx.msg
    BY <1>0, <1>7 DEF GetWait, TypeOK
  <2>2. ~Owes' BY <2>1 DEF Owes
  <2>3. \A m : Reached(m) => Reached(m)' BY <2>1 DEF Reached
  <2> QED BY <1>7, <2>1, <2>2, <2>3, WakeQuiet
<1>8. ASSUME GetTake, ~lapped' PROVE WakeInv'
  <2>0. number # 0 BY <1>8, TakeHasMsg DEF GetTake
  <2>1. /\ number \in 1..(Count - 1) /\ rd = Place(0) /\ rd \in Ring
        /\ rx.ph = "take" /\ rx'.ph = "recv" /\ rx'.msg = slot[rd].msg /\ rx'.cur = rd
        /\ number' = number - 1 /\ seen' = seen \cup {slot[rd].msg.id}
        /\ UNCHANGED <<sem, pc, life, last, done, lapped>>
        /\ \A k \in 0..(number - 2) : /\ k + 1 \in 0..(number - 1) /\ Place(k)' = Place(k + 1)
                                      /\ slot'[Place(k + 1)] = slot[Place(k + 1)]
        /\ \A i \in Ring : slot'[i].sync = slot[i].sync
    BY <1>8, <2>0, TakeFacts
  <2>2. WakeInv BY <1>8, <2>1
  <2>3. \A q : Sending(q)' = Sending(q) BY <2>1 DEF Sending
  <2>4. \A i, m : HasSender(i, m)' = HasSender(i, m) BY <2>1, <2>3 DEF HasSender
  <2>5. \A m : Reached(m) => Reached(m)' BY <2>1 DEF Reached
  <2>6. \A q \in Senders : Sending(q)' => slot'[pc'[q].cur].sync = pc'[q].msg.sync /\ pc'[q].msg.id # 0
    <3> TAKE q \in Senders
    <3>1. pc[q].cur \in Ring BY <1>0 DEF TypeOK
    <3> QED BY <2>1, <2>2, <2>3, <3>1 DEF WakeInv
  <2>7. ASSUME NEW k \in 0..(number' - 1), slot'[Place(k)'].msg.sync # "NONE"
        PROVE  HasSender(Place(k), slot[Place(k)].msg)' /\ sem'[Place(k)'] = 0
    <3>1. k \in 0..(number - 2) BY <1>0, <2>1, <2>7
    <3> DEFINE i == Place(k + 1)
    <3>2. k + 1 \in 0..(number - 1) /\ Place(k)' = i /\ slot'[i] = slot[i] BY <2>1, <3>1
    <3>3. HasSender(i, slot[i].msg) /\ sem[i] = 0 BY <2>2, <2>7, <3>2 DEF WakeInv
    <3> HIDE DEF i
    <3>4. PICK q \in Senders : Sending(q) /\ pc[q].cur = i /\ pc[q].msg = slot[i].msg
      BY <3>3 DEF HasSender
    <3>5. Sending(q)' /\ pc'[q].cur = Place(k)' /\ pc'[q].msg = slot'[Place(k)'].msg
      BY <2>1, <2>3, <3>2, <3>4
    <3>6. HasSender(Place(k), slot[Place(k)].msg)' BY <3>5 DEF HasSender
    <3> QED BY <2>1, <3>2, <3>3, <3>6
  <2>8. ASSUME Owes' PROVE HasSender(rx.cur, rx.msg)' /\ sem'[rx'.cur] = 0
    <3>1. slot[rd].msg.sync # "NONE" BY <2>1, <2>8 DEF Owes
    <3>2. 0 \in 0..(number - 1) BY <1>0, <2>0
    <3>3. HasSender(rd, slot[rd].msg) /\ sem[rd] = 0 BY <2>1, <2>2, <3>1, <3>2 DEF WakeInv
    <3>4. PICK q \in Senders : Sending(q) /\ pc[q].cur = rd /\ pc[q].msg = slot[rd].msg
      BY <3>3 DEF HasSender
    <3>5. Sending(q)' /\ pc'[q].cur = rx'.cur /\ pc'[q].msg = rx'.msg BY <2>1, <2>3, <3>4
    <3>6. HasSender(rx.cur, rx.msg)' BY <3>5 DEF HasSender
    <3> QED BY <2>1, <3>3, <3>6
  <2>9. ASSUME NEW i \in Ring, sem'[i] # 0
        PROVE  sem'[i] = 1 /\ \E q \in Senders : Sending(q)' /\ pc'[q].cur = i /\ Reached(pc[q].msg)'
    BY <2>1, <2>2, <2>3, <2>5, <2>9 DEF WakeInv
  <2>10. \A q \in Senders : pc'[q].ph = "idle" /\ pc'[q].msg.id # 0 =>
           pc'[q].msg.sync = "NONE" \/ Reached(pc[q].msg)'
    BY <2>1, <2>2, <2>5 DEF WakeInv
  <2>11. /\ \A q \in Senders : pc'[q].ph = "lock" => pc'[q].msg.id = 0
         /\ \A q, k \in Senders : Sending(q)' /\ Sending(k)' /\ pc'[q].cur = pc'[k].cur => q = k
    BY <2>1, <2>2, <2>3 DEF WakeInv
  <2> QED BY <2>6, <2>7, <2>8, <2>9, <2>10, <2>11 DEF WakeInv
<1>9. ASSUME GetReceived, ~lapped' PROVE WakeInv'
  <2>1. /\ UNCHANGED <<slot, rd, number, pc, seen, done, lapped>> /\ Release("RECEIVED")
        /\ rx.ph = "recv" /\ rx'.ph = "run" /\ rx'.msg = rx.msg /\ rx'.cur = rx.cur
    BY <1>0, <1>9 DEF GetReceived, TypeOK
  <2>2. PICK w : w = rx.msg OBVIOUS
  <2>3. Working BY <2>1 DEF Working
  <2>4. w.id \in seen
    <3>1. w.id = last - number /\ w.id > 0 /\ seen = 1..(last - number) BY <2>2, <2>3 DEF IdsInv
    <3> QED BY <1>0, <3>1
  <2>5. w.sync = "RECEIVED" => Reached(w)' BY <2>1, <2>4 DEF Reached
  <2>6. rx.msg.sync = "RECEIVED" => Owes /\ ~Owes' BY <2>1 DEF Owes
  <2>7. Owes' => Owes /\ rx'.cur = rx.cur /\ rx'.msg = rx.msg BY <2>1 DEF Owes
  <2>8. \A m : Reached(m) => Reached(m)' BY <2>1 DEF Reached
  <2>9. WakeInv BY <1>9, <2>1
  <2> QED BY <2>1, <2>2, <2>3, <2>5, <2>6, <2>7, <2>8, <2>9, WakeRelease
<1>10. ASSUME Process, ~lapped' PROVE WakeInv'
  <2>1. /\ UNCHANGED <<slot, sem, rd, number, pc, seen, lapped>> /\ done \subseteq done'
        /\ rx.ph = "run" /\ rx'.ph = "done" /\ rx'.msg = rx.msg /\ rx'.cur = rx.cur
    BY <1>0, <1>10 DEF Process, TypeOK, queue
  <2>2. Owes' => Owes /\ rx'.cur = rx.cur /\ rx'.msg = rx.msg BY <2>1 DEF Owes
  <2>3. \A m : Reached(m) => Reached(m)' BY <2>1 DEF Reached
  <2> QED BY <1>10, <2>1, <2>2, <2>3, WakeQuiet
<1>11. ASSUME Processed, ~lapped' PROVE WakeInv'
  <2>1. /\ UNCHANGED <<slot, rd, number, pc, seen, done, lapped>> /\ Release("PROCESSED")
        /\ rx.ph = "done" /\ rx'.ph = IF rx.msg.kind = "EXIT" THEN "exit" ELSE "get"
    BY <1>0, <1>11 DEF Processed, TypeOK
  <2>2. PICK w : w = rx.msg OBVIOUS
  <2>3. Working BY <2>1 DEF Working
  <2>4. w.id \in done
    <3>1. w.id = last - number /\ w.id > 0 /\ done = 1..(last - number - 0) BY <2>1, <2>2, <2>3 DEF IdsInv
    <3> QED BY <1>0, <3>1
  <2>5. w.sync = "PROCESSED" => Reached(w)' BY <2>1, <2>2, <2>4 DEF Reached
  <2>6. ~Owes' /\ (rx.msg.sync = "PROCESSED" => Owes) BY <2>1 DEF Owes
  <2>8. \A m : Reached(m) => Reached(m)' BY <2>1 DEF Reached
  <2>9. WakeInv BY <1>11, <2>1
  <2> QED BY <2>1, <2>2, <2>3, <2>5, <2>6, <2>8, <2>9, WakeRelease
<1>12. CASE Created \/ Destroyed \/ UNCHANGED vars
  <2>1. UNCHANGED <<slot, sem, rd, number, pc, rx, seen, done, lapped>>
    BY <1>12 DEF Created, Destroyed, vars, queue
  <2>2. Owes' => Owes /\ rx'.cur = rx.cur /\ rx'.msg = rx.msg BY <2>1 DEF Owes
  <2>3. \A m : Reached(m) => Reached(m)' BY <2>1 DEF Reached
  <2> QED BY <2>1, <2>2, <2>3, WakeQuiet
<1>13. CASE Create BY <1>0, <1>6, <1>13, CmrAssumption DEF Create, Kinds, Flags
<1>14. CASE Destroy BY <1>0, <1>6, <1>14, CmrAssumption DEF Destroy, Kinds, Flags
<1>15. ASSUME NEW p \in Senders, NEW s \in Flags, Send(p, s) PROVE ~lapped' => WakeInv'
  BY <1>6, <1>15 DEF Send, Kinds
<1> QED BY <1>1, <1>2, <1>3, <1>4, <1>5, <1>7, <1>8, <1>9, <1>10, <1>11, <1>12, <1>13, <1>14, <1>15
        DEF Next, Post, Routine

\* The senders' invariant, on the ring and the counts that are exact already.
LEMMA SendAlways == Spec => []SendInv
<1>1. ASSUME Init PROVE IdsInv /\ ExitInv /\ (~lapped => WakeInv)
  <2>1. /\ number = 0 /\ last = 0 /\ seen = {} /\ done = {} /\ rx.ph = "get" /\ life = "new"
        /\ \A p \in Senders : pc[p].ph = "idle" /\ pc[p].msg = NoMsg
        /\ \A i \in Ring : sem[i] = 0
    BY <1>1 DEF Init
  <2>2. \A k \in 0..(number - 1) : FALSE BY <2>1
  <2>3. IdsInv
    <3>1. number <= last /\ seen = 1..(last - number) /\ done = 1..(last - number - 0) BY <2>1
    <3> QED BY <2>1, <2>2, <3>1 DEF IdsInv, Working
  <2>4. ExitInv BY <2>1, <2>2 DEF ExitInv, Working, NoMsg
  <2>5. ~Owes /\ \A p \in Senders : ~Sending(p) BY <2>1 DEF Owes, Sending
  <2>6. WakeInv BY <2>1, <2>2, <2>5 DEF WakeInv, NoMsg
  <2> QED BY <2>3, <2>4, <2>6
<1>2. RingInv /\ TokensMatch /\ IdsInv /\ [Next]_vars => IdsInv' BY IdsStep
<1>3. RingInv /\ TokensMatch /\ ExitInv /\ [Next]_vars => ExitInv' BY ExitStep
<1>4. RingInv /\ TokensMatch /\ IdsInv /\ (~lapped => WakeInv) /\ [Next]_vars => (~lapped => WakeInv)'
  BY WakeStep
<1> QED BY <1>1, <1>2, <1>3, <1>4, RingAlways, CameraTokens, PTL DEF Spec, SendInv

\* cmr_thread_msg_send keeps what sync_flag promises: it returns when the message has been
\* received, or processed, unless a slot was filled while its last sender was in cmr_msg_post.
THEOREM CameraSyncHolds == Spec => []SyncHolds
<1>1. ASSUME ~lapped => WakeInv PROVE SyncHolds
  <2> SUFFICES ASSUME ~lapped, NEW p \in Senders, pc[p].ph = "idle", pc[p].msg.id # 0
               PROVE  /\ pc[p].msg.sync = "RECEIVED" => pc[p].msg.id \in seen
                      /\ pc[p].msg.sync = "PROCESSED" => pc[p].msg.id \in done
    BY DEF SyncHolds
  <2>1. pc[p].msg.sync = "NONE" \/ Reached(pc[p].msg) BY <1>1 DEF WakeInv
  <2> QED BY <2>1 DEF Reached
<1> QED BY <1>1, SendAlways, PTL DEF SendInv

\* cmr_thread_destroy frees a queue whose routine has ended with every message processed,
\* unless the ring was too full for the last message or a slot was filled under its last sender.
THEOREM CameraFreedAfterExit == Spec => []FreedAfterExit
<1>1. ASSUME RingInv, IdsInv, ExitInv, ~lapped => WakeInv PROVE FreedAfterExit
  <2> SUFFICES ASSUME life = "freed", ~lapped, pc[Owner].msg.id # 0
               PROVE  rx.ph = "exit" /\ done = 1..last
    BY DEF FreedAfterExit
  <2>1. Owner \in Senders /\ last \in Nat BY <1>1, CmrAssumption DEF RingInv, TypeOK
  <2>2. pc[Owner].ph = "idle" /\ pc[Owner].msg.kind = "EXIT" /\ pc[Owner].msg.sync = "PROCESSED"
    BY <1>1, <2>1 DEF ExitInv
  <2>3. Reached(pc[Owner].msg) BY <1>1, <2>1, <2>2 DEF WakeInv
  <2>4. rx.ph = "exit" BY <2>2, <2>3 DEF Reached
  <2>5. number = 0 BY <1>1, <2>4 DEF ExitInv
  <2>6. done = 1..(last - number - 0) BY <1>1, <2>4 DEF IdsInv
  <2>7. last - number - 0 = last BY <2>1, <2>5
  <2> QED BY <2>4, <2>6, <2>7
<1> QED BY <1>1, SendAlways, PTL DEF SendInv

=============================================================================
