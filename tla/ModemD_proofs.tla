---------------------------- MODULE ModemD_proofs ---------------------------
(* Theorems about modemd's threads, for every set of modems.               *)
EXTENDS ModemD, TLAPS

SipcLabels == {"open", "watch", "select", "event", "state", "silent"}

\* What the static names are while a thread relies on them.
Placed ==
  /\ \A d \in Modems : pc[Sipc(d)] # "open" => owner \in Modems
  /\ \A d \in Modems : pc[Sipc(d)] = "event" => sel[d].fd \in Devices
  /\ \A d \in Modems : pc[Sipc(d)] \in {"state", "tell"} => sel[d].ev \in Events
  /\ \A t \in Threads : pc[t] \in {"load", "start"} => names \in Modems
  /\ \A d \in Modems : pc[Blk(d)] \notin SipcLabels

Inv == TypeOK /\ Placed /\ NoLostWakeup

USE ModemAssumption

\* A thread is one of a modem's two.
LEMMA ThreadParts ==
  ASSUME NEW t \in Threads
  PROVE  /\ t[1] \in Modems /\ t[2] \in {"sipc", "blk"}
         /\ t = Sipc(t[1]) \/ t = Blk(t[1])
BY DEF Threads, Sipc, Blk

\* The threads of the modems are threads, and differ.
LEMMA ThreadNames ==
  /\ \A d \in Modems : Sipc(d) \in Threads /\ Blk(d) \in Threads
  /\ \A d, e \in Modems : Sipc(d) # Blk(e)
  /\ \A d, e \in Modems : (Sipc(d) = Sipc(e) \/ Blk(d) = Blk(e)) => d = e
  /\ \A d \in Modems : Sipc(d)[1] = d /\ Blk(d)[1] = d /\ Sipc(d)[2] = "sipc" /\ Blk(d)[2] = "blk"
BY DEF Threads, Sipc, Blk

\* The values a start of the daemon gives.
LEMMA FreshTypes ==
  /\ FreshPc \in [Threads -> Labels]
  /\ FreshSel \in [Modems -> Selects]
  /\ FreshPhone \in [Modems -> Phones]
  /\ [d \in Modems |-> [on |-> TRUE, alive |-> FALSE, reset |-> FALSE]] \in [Modems -> Processors]
  /\ [f \in Devices |-> <<>>] \in [Devices -> Seq(Events)]
  /\ [d \in Modems |-> "Alive"] \in [Modems -> Words]
  /\ [d \in Families |-> "READY"] \in [Families -> {"READY", "ASSERT", "RESET"}]
  /\ \A d \in Modems : FreshPc[Sipc(d)] = "open" /\ FreshPc[Blk(d)] = "connect"
  /\ \A t \in Threads : FreshPc[t] \in {"open", "connect"}
<1>1. FreshPc \in [Threads -> Labels]
  BY DEF FreshPc, Labels
<1>2. FreshSel \in [Modems -> Selects]
  <2>1. [watch |-> {}, fd |-> NoFd, ev |-> "none"] \in Selects
    BY DEF Selects
  <2> QED
    BY <2>1 DEF FreshSel
<1>3. FreshPhone \in [Modems -> Phones]
  <2>1. [up |-> TRUE, conn |-> FALSE, sock |-> <<>>] \in Phones
    BY DEF Phones
  <2> QED
    BY <2>1 DEF FreshPhone
<1>4. [on |-> TRUE, alive |-> FALSE, reset |-> FALSE] \in Processors
  BY DEF Processors
<1>5. <<>> \in Seq(Events) /\ "Alive" \in Words
  BY DEF Words
<1>6. \A d \in Modems : FreshPc[Sipc(d)] = "open" /\ FreshPc[Blk(d)] = "connect"
  BY ThreadNames DEF FreshPc
<1>7. \A t \in Threads : FreshPc[t] \in {"open", "connect"}
  BY DEF FreshPc
<1> QED
  BY <1>1, <1>2, <1>3, <1>4, <1>5, <1>6, <1>7

\* A state as the daemon starts in satisfies the invariant.
LEMMA FreshInv == Init => Inv
<1> SUFFICES ASSUME Init PROVE Inv
  OBVIOUS
<1>1. TypeOK
  BY FreshTypes DEF Init, Fresh, TypeOK
<1>2. Placed
  BY FreshTypes DEF Init, Fresh, Placed, SipcLabels
<1>3. NoLostWakeup
  BY FreshTypes DEF Init, Fresh, NoLostWakeup
<1> QED
  BY <1>1, <1>2, <1>3 DEF Inv

\* A step of one thread to a label keeps what the others' labels imply.
LEMMA GotoKeeps ==
  ASSUME Inv, NEW t \in Threads, NEW l \in Labels, Goto(t, l)
  PROVE  /\ pc' \in [Threads -> Labels]
         /\ pc'[t] = l
         /\ \A u \in Threads \ {t} : pc'[u] = pc[u]
BY DEF Inv, TypeOK, Goto

\* The invariant's conditions on places survive a step of one thread, if the place it
\* comes to has what it needs and nothing the others rely on is taken away.
LEMMA MoveKeeps ==
  ASSUME Inv, NEW t \in Threads, NEW l \in Labels, Goto(t, l),
         owner' = owner \/ owner' \in Modems,
         names' = names \/ names' \in Modems,
         pc[t] = "open" => owner' \in Modems,
         l \in {"load", "start"} => names' \in Modems,
         l = "event" => sel'[t[1]].fd \in Devices,
         t[2] = "sipc" /\ l \in {"state", "tell"} => sel'[t[1]].ev \in Events,
         \A d \in Modems : (d # t[1] \/ t[2] = "blk") => sel'[d] = sel[d],
         t[2] = "blk" => l \notin SipcLabels,
         \A d \in Modems : state'[d] = state[d] \/ state'[d] # "READY",
         l = "wait" => t = Blk(t[1]) /\ state'[t[1]] # "READY"
  PROVE  Placed' /\ NoLostWakeup'
<1> USE GotoKeeps, ThreadParts, ThreadNames
<1>1. \A d \in Modems : pc'[Sipc(d)] # "open" => owner' \in Modems
  BY DEF Inv, TypeOK, Placed
<1>2. \A d \in Modems : pc'[Sipc(d)] = "event" => sel'[d].fd \in Devices
  BY DEF Inv, TypeOK, Placed, SipcLabels
<1>3. \A u \in Threads : pc'[u] \in {"load", "start"} => names' \in Modems
  BY DEF Inv, TypeOK, Placed
<1>6. \A d \in Modems : pc'[Sipc(d)] \in {"state", "tell"} => sel'[d].ev \in Events
  BY DEF Inv, TypeOK, Placed
<1>4. \A d \in Modems : pc'[Blk(d)] \notin SipcLabels
  BY DEF Inv, TypeOK, Placed
<1>5. NoLostWakeup'
  BY DEF Inv, TypeOK, NoLostWakeup
<1> QED
  BY <1>1, <1>2, <1>3, <1>4, <1>5, <1>6 DEF Placed

\* A start of the daemon in the middle of its work leads to a state as it starts in.
LEMMA RestartKeeps ==
  ASSUME Inv, NEW t \in Threads, LoadTimeout(t) \/ Exit(t)
  PROVE  Inv'
<1>1. /\ pc' = FreshPc /\ sel' = FreshSel /\ phone' = FreshPhone
      /\ state' = [d \in Families |-> "READY"]
      /\ owner' = "none" /\ names' = "none" /\ wake' = FALSE
      /\ hw' \in [Modems -> Processors] /\ dev' \in [Devices -> Seq(Events)]
      /\ told' \in [Modems -> Words]
  BY FreshTypes DEF LoadTimeout, Exit, Inv, TypeOK
<1>2. TypeOK'
  BY <1>1, FreshTypes DEF TypeOK
<1>3. Placed' /\ NoLostWakeup'
  BY <1>1, FreshTypes DEF Placed, NoLostWakeup, SipcLabels
<1> QED
  BY <1>2, <1>3 DEF Inv

\* Taking one modem's processor or phone server to another of its states.
LEMMA PutProcessor ==
  ASSUME NEW h \in [Modems -> Processors], NEW d \in Modems, NEW b \in BOOLEAN
  PROVE  /\ [h EXCEPT ![d].on = b] \in [Modems -> Processors]
         /\ [h EXCEPT ![d].alive = b] \in [Modems -> Processors]
         /\ [h EXCEPT ![d].reset = b] \in [Modems -> Processors]
         /\ h[d].on \in BOOLEAN /\ h[d].alive \in BOOLEAN /\ h[d].reset \in BOOLEAN
BY DEF Processors

LEMMA PutSelect ==
  ASSUME NEW h \in [Modems -> Selects], NEW d \in Modems
  PROVE  /\ \A w \in SUBSET Devices : [h EXCEPT ![d].watch = w] \in [Modems -> Selects]
         /\ \A x \in Events : /\ [h EXCEPT ![d].ev = x] \in [Modems -> Selects]
                             /\ [h EXCEPT ![d].ev = x][d].ev = x
BY DEF Selects

LEMMA PutPhone ==
  ASSUME NEW h \in [Modems -> Phones], NEW d \in Modems
  PROVE  /\ [h EXCEPT ![d].up = TRUE] \in [Modems -> Phones]
         /\ \A q \in Seq({"Blocked", "EOF"}) : [h EXCEPT ![d].sock = q] \in [Modems -> Phones]
         /\ h[d].sock \in Seq({"Blocked", "EOF"})
BY DEF Phones

\* stop_service keeps the phone servers' type.
LEMMA StoppedType ==
  ASSUME Inv, NEW d \in Modems
  PROVE  PhoneStopped(d) \in [Modems -> Phones]
<1> DEFINE q == IF phone[d].conn THEN Append(phone[d].sock, "EOF") ELSE phone[d].sock
<1>1. phone[d].sock \in Seq({"Blocked", "EOF"}) /\ phone \in [Modems -> Phones]
  BY DEF Inv, TypeOK, Phones
<1>2. q \in Seq({"Blocked", "EOF"})
  BY <1>1
<1>3. PhoneStopped(d) = [phone EXCEPT ![d] = [up |-> FALSE, conn |-> FALSE, sock |-> q]]
  BY DEF PhoneStopped
<1>4. [up |-> FALSE, conn |-> FALSE, sock |-> q] \in Phones
  BY <1>2 DEF Phones
<1> HIDE DEF q
<1> QED
  BY <1>1, <1>3, <1>4

\* Every step of load_sipc_modem_img, in either thread.
LEMMA LoadKeeps ==
  ASSUME Inv, NEW t \in Threads, Load(t)
  PROVE  Inv'
<1> USE ThreadParts, ThreadNames
<1>0. TypeOK /\ Placed
  BY DEF Inv
<1>1. CASE LoadBegin(t)
  <2>1. TypeOK'
    BY <1>0, <1>1 DEF LoadBegin, TypeOK, Goto, Processors, Labels, Loading
  <2>2. Placed' /\ NoLostWakeup'
    BY <1>1, MoveKeeps DEF LoadBegin, Labels, Loading, SipcLabels
  <2> QED BY <2>1, <2>2 DEF Inv
<1>2. CASE LoadImages(t)
  <2>1. TypeOK'
    BY <1>0, <1>2 DEF LoadImages, TypeOK, Goto, Labels, Loading
  <2>2. Placed' /\ NoLostWakeup'
    BY <1>0, <1>2, MoveKeeps DEF LoadImages, Labels, Loading, SipcLabels, Placed
  <2> QED BY <2>1, <2>2 DEF Inv
<1>3. CASE LoadStart(t)
  <2>1. TypeOK'
    <3>1. names \in Modems
      BY <1>0, <1>3 DEF LoadStart, Placed
    <3>2. hw' \in [Modems -> Processors]
      <4>1. hw \in [Modems -> Processors] /\ hw[names] \in Processors
        BY <1>0, <3>1 DEF TypeOK
      <4> DEFINE h == [on |-> TRUE, alive |-> hw[names].alive \/ ~hw[names].on, reset |-> hw[names].reset]
      <4>2. h \in Processors
        BY <4>1 DEF Processors
      <4>3. hw' = [hw EXCEPT ![names] = h]
        BY <1>3 DEF LoadStart
      <4> HIDE DEF h
      <4> QED BY <4>1, <4>2, <4>3
    <3> QED BY <1>0, <1>3, <3>2 DEF LoadStart, TypeOK, Goto, Labels, Loading
  <2>2. Placed' /\ NoLostWakeup'
    BY <1>3, MoveKeeps DEF LoadStart, Labels, Loading, SipcLabels
  <2> QED BY <2>1, <2>2 DEF Inv
<1>4. CASE LoadAlive(t)
  <2>1. TypeOK'
    <3>1. hw' \in [Modems -> Processors]
      <4>1. hw \in [Modems -> Processors] /\ t[1] \in Modems /\ FALSE \in BOOLEAN
        BY <1>0 DEF TypeOK
      <4>2. [hw EXCEPT ![t[1]].alive = FALSE] \in [Modems -> Processors]
        BY <4>1, PutProcessor
      <4> QED BY <1>4, <4>1, <4>2 DEF LoadAlive
    <3> QED BY <1>0, <1>4, <3>1 DEF LoadAlive, TypeOK, Goto, Labels, Loading
  <2>2. Placed' /\ NoLostWakeup'
    BY <1>4, MoveKeeps DEF LoadAlive, Labels, Loading, SipcLabels
  <2> QED BY <2>1, <2>2 DEF Inv
<1>5. CASE LoadTimeout(t) \/ Exit(t)
  BY <1>5, RestartKeeps
<1>6. CASE LoadInform(t)
  <2>1. TypeOK'
    BY <1>0, <1>6 DEF LoadInform, TypeOK, Goto, Labels, Loading, Words
  <2>2. Placed' /\ NoLostWakeup'
    BY <1>6, MoveKeeps DEF LoadInform, Labels, Loading, SipcLabels
  <2> QED BY <2>1, <2>2 DEF Inv
<1>7. CASE LoadService(t)
  <2>1. TypeOK'
    <3>1. phone' \in [Modems -> Phones]
      <4>1. phone \in [Modems -> Phones] /\ t[1] \in Modems /\ TRUE \in BOOLEAN
        BY <1>0 DEF TypeOK
      <4>2. [phone EXCEPT ![t[1]].up = TRUE] \in [Modems -> Phones]
        BY <4>1, PutPhone
      <4> QED BY <1>7, <4>1, <4>2 DEF LoadService
    <3> QED BY <1>0, <1>7, <3>1 DEF LoadService, TypeOK, Goto, Labels, Loading
  <2>2. Placed' /\ NoLostWakeup'
    BY <1>7, MoveKeeps DEF LoadService, Labels, Loading, SipcLabels
  <2> QED BY <2>1, <2>2 DEF Inv
<1>8. CASE LoadReady(t)
  <2>1. /\ pc' \in [Threads -> Labels]
        /\ pc'[t] # "wait" /\ pc'[Blk(t[1])] # "wait"
        /\ pc'[t] \notin SipcLabels \cup {"load", "start"}
        /\ \A u \in Threads : pc'[u] # pc[u] => pc'[u] \in {"unlock", "connect"}
        /\ \A u \in Threads \ {t, Blk(t[1])} : pc'[u] = pc[u]
    BY <1>0, <1>8 DEF LoadReady, TypeOK, Labels, Loading, SipcLabels
  <2>2. TypeOK'
    BY <1>0, <1>8, <2>1 DEF LoadReady, TypeOK, Families
  <2>3. Placed'
    <3>1. \A d \in Modems : pc'[Sipc(d)] # "open" => owner' \in Modems
      BY <1>0, <1>8, <2>1 DEF LoadReady, Placed
    <3> QED BY <1>0, <1>8, <2>1, <3>1 DEF LoadReady, Placed, SipcLabels
  <2>4. NoLostWakeup'
    <3> SUFFICES ASSUME NEW d \in Modems, pc'[Blk(d)] = "wait" PROVE state'[d] # "READY"
      BY DEF NoLostWakeup
    <3>1. d # t[1] /\ pc[Blk(d)] = "wait"
      BY <2>1
    <3>2. state'[d] = state[d]
      BY <1>0, <1>8, <3>1 DEF LoadReady, TypeOK
    <3> QED BY <3>1, <3>2 DEF Inv, NoLostWakeup
  <2> QED BY <2>2, <2>3, <2>4 DEF Inv
<1>9. CASE Unlock(t)
  <2>1. TypeOK'
    BY <1>0, <1>9 DEF Unlock, TypeOK, Goto, Labels, Loading
  <2>2. Placed' /\ NoLostWakeup'
    BY <1>9, MoveKeeps DEF Unlock, Labels, Loading, SipcLabels
  <2> QED BY <2>1, <2>2 DEF Inv
<1> QED
  BY <1>1, <1>2, <1>3, <1>4, <1>5, <1>6, <1>7, <1>8, <1>9 DEF Load

\* Every step of detect_sipc_modem outside load_sipc_modem_img.
LEMMA SipcKeeps ==
  ASSUME Inv, NEW d \in Modems,
         \/ SipcOpen(d) \/ SipcWatch(d) \/ SipcSelect(d) \/ SipcRead(d) \/ SipcState(d)
         \/ SipcTell(d) \/ SipcStop(d) \/ SipcSilent(d)
  PROVE  Inv'
<1> DEFINE t == Sipc(d)
<1>0. TypeOK /\ Placed /\ t \in Threads /\ t[1] = d /\ t[2] = "sipc" /\ d \in Families
  BY ThreadNames DEF Inv, Sipc
<1>1. CASE SipcOpen(d)
  <2>1. TypeOK'
    BY <1>0, <1>1 DEF SipcOpen, TypeOK, Goto, Labels
  <2>2. Placed' /\ NoLostWakeup'
    BY <1>0, <1>1, MoveKeeps DEF SipcOpen, Labels, SipcLabels
  <2> QED BY <2>1, <2>2 DEF Inv
<1>2. CASE SipcWatch(d)
  <2>1. owner \in Modems
    BY <1>0, <1>2 DEF SipcWatch, Placed
  <2>2. sel' \in [Modems -> Selects] /\ \A e \in Modems \ {d} : sel'[e] = sel[e]
    <3>1. {<<owner, "assert">>, <<d, "wdt">>} \in SUBSET Devices /\ sel \in [Modems -> Selects]
      BY <1>0, <2>1 DEF Devices, TypeOK
    <3>2. sel' = [sel EXCEPT ![d].watch = {<<owner, "assert">>, <<d, "wdt">>}]
      BY <1>2 DEF SipcWatch
    <3> QED BY <3>1, <3>2, PutSelect
  <2>3. TypeOK'
    BY <1>0, <1>2, <2>2 DEF SipcWatch, TypeOK, Goto, Labels
  <2>4. Placed' /\ NoLostWakeup'
    BY <1>0, <1>2, <2>2, MoveKeeps DEF SipcWatch, Labels, SipcLabels
  <2> QED BY <2>3, <2>4 DEF Inv
<1>3. CASE SipcSelect(d)
  <2> DEFINE ready == {f \in sel[d].watch : dev[f] # <<>>}
             fd == IF <<owner, "assert">> \in ready THEN <<owner, "assert">>
                   ELSE IF <<d, "wdt">> \in ready THEN <<d, "wdt">>
                   ELSE sel[d].fd
  <2>1. sel[d] \in Selects /\ sel \in [Modems -> Selects]
    BY <1>0 DEF TypeOK
  <2>2. ready \in SUBSET Devices /\ fd \in Devices \cup {NoFd}
    BY <2>1 DEF Selects
  <2>3. /\ sel' = [sel EXCEPT ![d].watch = ready, ![d].fd = fd]
        /\ wake' = (wake \/ fd # NoFd)
        /\ Goto(t, IF fd = NoFd THEN "select" ELSE "event")
        /\ UNCHANGED <<state, owner, names, hw, dev, phone, told>>
        /\ pc[t] = "select"
    BY <1>3 DEF SipcSelect
  <2> HIDE DEF ready, fd
  <2>4. sel' \in [Modems -> Selects] /\ sel'[d].fd = fd
        /\ \A e \in Modems \ {d} : sel'[e] = sel[e]
    BY <2>1, <2>2, <2>3 DEF Selects
  <2>5. TypeOK'
    BY <1>0, <2>3, <2>4 DEF TypeOK, Goto, Labels
  <2>6. CASE fd = NoFd
    BY <1>0, <2>3, <2>4, <2>5, <2>6, MoveKeeps DEF Labels, SipcLabels, Inv
  <2>7. CASE fd # NoFd
    BY <1>0, <2>2, <2>3, <2>4, <2>5, <2>7, MoveKeeps DEF Labels, SipcLabels, Inv
  <2> QED BY <2>6, <2>7
<1>4. CASE SipcRead(d)
  <2> DEFINE f == sel[d].fd
             q == dev[f]
  <2>1. /\ f \in Devices /\ q \in Seq(Events) /\ q # <<>>
        /\ sel \in [Modems -> Selects] /\ dev \in [Devices -> Seq(Events)]
    BY <1>0, <1>4 DEF SipcRead, Placed, TypeOK
  <2>2. UNCHANGED <<state, owner, names, wake, hw, phone, told>> /\ pc[t] = "event"
    BY <1>4 DEF SipcRead
  <2>3. CASE /\ sel' = [sel EXCEPT ![d].ev = Head(q)]
             /\ dev' = [dev EXCEPT ![f] = Tail(q)]
             /\ Goto(t, "state")
    <3> HIDE DEF f, q
    <3>1. Head(q) \in Events /\ Tail(q) \in Seq(Events)
      BY <2>1
    <3>2. /\ sel' \in [Modems -> Selects] /\ sel'[d].ev \in Events
          /\ \A e \in Modems \ {d} : sel'[e] = sel[e]
      BY <2>1, <2>3, <3>1, PutSelect
    <3>3. dev' \in [Devices -> Seq(Events)]
      BY <2>1, <2>3, <3>1
    <3>4. TypeOK'
      BY <1>0, <2>2, <2>3, <3>2, <3>3 DEF TypeOK, Goto, Labels
    <3>5. Placed' /\ NoLostWakeup'
      BY <1>0, <2>2, <2>3, <3>2, MoveKeeps DEF Labels, SipcLabels
    <3> QED BY <3>4, <3>5 DEF Inv
  <2>4. CASE Goto(t, "select") /\ UNCHANGED <<sel, dev>>
    <3>1. TypeOK'
      BY <1>0, <2>2, <2>4 DEF TypeOK, Goto, Labels
    <3>2. Placed' /\ NoLostWakeup'
      BY <1>0, <2>2, <2>4, MoveKeeps DEF Labels, SipcLabels
    <3> QED BY <3>1, <3>2 DEF Inv
  <2> QED BY <1>4, <2>3, <2>4 DEF SipcRead
<1>5. CASE SipcState(d)
  <2>1. TypeOK'
    BY <1>0, <1>5 DEF SipcState, TypeOK, Goto, Labels
  <2>2. Placed' /\ NoLostWakeup'
    BY <1>0, <1>5, MoveKeeps DEF SipcState, Labels, SipcLabels, TypeOK, Placed
  <2> QED BY <2>1, <2>2 DEF Inv
<1>6. CASE SipcTell(d)
  <2>1. sel[d].ev \in Words
    BY <1>0, <1>6 DEF SipcTell, Placed, Events, Words
  <2>2. TypeOK'
    BY <1>0, <1>6, <2>1 DEF SipcTell, TypeOK, Goto, Labels
  <2>3. Placed' /\ NoLostWakeup'
    BY <1>0, <1>6, MoveKeeps DEF SipcTell, Labels, SipcLabels
  <2> QED BY <2>2, <2>3 DEF Inv
<1>7. CASE SipcStop(d)
  <2>1. TypeOK'
    BY <1>0, <1>7, StoppedType DEF SipcStop, TypeOK, Goto, Labels, Loading
  <2>2. PICK l \in {"begin", "silent", "unlock"} : Goto(t, l)
    BY <1>7 DEF SipcStop
  <2>3. Placed' /\ NoLostWakeup'
    BY <1>0, <1>7, <2>2, MoveKeeps DEF SipcStop, Labels, Loading, SipcLabels
  <2> QED BY <2>1, <2>3 DEF Inv
<1>8. CASE SipcSilent(d)
  <2>1. owner \in Modems /\ hw \in [Modems -> Processors]
    BY <1>0, <1>8 DEF SipcSilent, Placed, TypeOK
  <2>2. hw[owner].on \in BOOLEAN
    BY <2>1 DEF Processors
  <2>3. [hw EXCEPT ![owner].reset = hw[owner].on] \in [Modems -> Processors]
    BY <2>1, <2>2, PutProcessor
  <2>4. TypeOK'
    BY <1>0, <1>8, <2>3 DEF SipcSilent, TypeOK, Goto, Labels
  <2>5. Placed' /\ NoLostWakeup'
    BY <1>0, <1>8, MoveKeeps DEF SipcSilent, Labels, SipcLabels
  <2> QED BY <2>4, <2>5 DEF Inv
<1> QED
  BY <1>1, <1>2, <1>3, <1>4, <1>5, <1>6, <1>7, <1>8

\* Every step of detect_modem_blocked outside load_sipc_modem_img.
LEMMA BlkKeeps ==
  ASSUME Inv, NEW d \in Modems,
         BlkConnect(d) \/ BlkEof(d) \/ BlkRead(d) \/ BlkTell(d) \/ BlkStop(d)
  PROVE  Inv'
<1> DEFINE t == Blk(d)
<1>0. TypeOK /\ Placed /\ t \in Threads /\ t[1] = d /\ t[2] = "blk" /\ d \in Families
  BY ThreadNames DEF Inv, Blk
<1>1. CASE BlkConnect(d)
  <2>1. [up |-> TRUE, conn |-> TRUE, sock |-> <<>>] \in Phones
    BY DEF Phones
  <2>2. TypeOK'
    BY <1>0, <1>1, <2>1 DEF BlkConnect, TypeOK, Goto, Labels
  <2>3. Placed' /\ NoLostWakeup'
    BY <1>0, <1>1, MoveKeeps DEF BlkConnect, Labels, SipcLabels
  <2> QED BY <2>2, <2>3 DEF Inv
<1>2. CASE BlkEof(d)
  <2>1. phone' \in [Modems -> Phones]
    <3>1. phone \in [Modems -> Phones] /\ <<>> \in Seq({"Blocked", "EOF"})
      BY <1>0 DEF TypeOK
    <3>2. [phone EXCEPT ![d].sock = <<>>] \in [Modems -> Phones]
      BY <3>1, PutPhone
    <3> QED BY <1>2, <3>2 DEF BlkEof
  <2>2. TypeOK'
    BY <1>0, <1>2, <2>1 DEF BlkEof, TypeOK, Goto, Labels
  <2>3. CASE state[d] # "READY"
    BY <1>0, <1>2, <2>2, <2>3, MoveKeeps DEF BlkEof, Labels, SipcLabels, Inv
  <2>4. CASE state[d] = "READY"
    BY <1>0, <1>2, <2>2, <2>4, MoveKeeps DEF BlkEof, Labels, SipcLabels, Inv
  <2> QED BY <2>3, <2>4
<1>3. CASE BlkRead(d)
  <2>1. phone' \in [Modems -> Phones]
    <3>1. phone \in [Modems -> Phones] /\ phone[d].sock \in Seq({"Blocked", "EOF"})
      BY <1>0, PutPhone DEF TypeOK
    <3>2. phone[d].sock # <<>> => Tail(phone[d].sock) \in Seq({"Blocked", "EOF"})
      BY <3>1
    <3> QED BY <1>3, <3>1, <3>2, PutPhone DEF BlkRead
  <2>2. BlockedState(d) \in Families
    BY <1>0 DEF BlockedState, Families
  <2>3. /\ state' \in [Families -> {"READY", "ASSERT", "RESET"}]
        /\ \A e \in Families : state'[e] = state[e] \/ state'[e] # "READY"
    BY <1>0, <1>3, <2>2 DEF BlkRead, TypeOK
  <2>4. CASE Goto(t, "tell")
    <3>1. TypeOK'
      BY <1>0, <1>3, <2>1, <2>3, <2>4 DEF BlkRead, TypeOK, Goto, Labels
    <3>2. Placed' /\ NoLostWakeup'
      BY <1>0, <1>3, <2>3, <2>4, MoveKeeps DEF BlkRead, Labels, SipcLabels
    <3> QED BY <3>1, <3>2 DEF Inv
  <2>5. CASE UNCHANGED <<state, pc>>
    <3>1. TypeOK'
      BY <1>0, <1>3, <2>1, <2>5 DEF BlkRead, TypeOK
    <3>2. Placed' /\ NoLostWakeup'
      BY <1>3, <2>5 DEF BlkRead, Inv, Placed, NoLostWakeup
    <3> QED BY <3>1, <3>2 DEF Inv
  <2> QED BY <1>3, <2>4, <2>5 DEF BlkRead
<1>4. CASE BlkTell(d)
  <2>1. TypeOK'
    BY <1>0, <1>4 DEF BlkTell, TypeOK, Goto, Labels, Words
  <2>2. Placed' /\ NoLostWakeup'
    BY <1>0, <1>4, MoveKeeps DEF BlkTell, Labels, SipcLabels
  <2> QED BY <2>1, <2>2 DEF Inv
<1>5. CASE BlkStop(d)
  <2>1. TypeOK'
    BY <1>0, <1>5, StoppedType DEF BlkStop, TypeOK, Goto, Labels, Loading
  <2>2. PICK l \in {"begin", "unlock"} : Goto(t, l)
    BY <1>5 DEF BlkStop
  <2>3. Placed' /\ NoLostWakeup'
    BY <1>0, <1>5, <2>2, MoveKeeps DEF BlkStop, Labels, Loading, SipcLabels
  <2> QED BY <2>1, <2>3 DEF Inv
<1> QED
  BY <1>1, <1>2, <1>3, <1>4, <1>5

\* What the modems and the phone servers do.
LEMMA OutsideKeeps ==
  ASSUME Inv, NEW d \in Modems,
         ModemAsserts(d) \/ ModemHangs(d) \/ ModemResets(d) \/ PhoneBlocked(d)
  PROVE  Inv'
<1>1. hw' \in [Modems -> Processors]
  <2>1. hw \in [Modems -> Processors]
    BY DEF Inv, TypeOK
  <2>2. [hw EXCEPT ![d].reset = FALSE] \in [Modems -> Processors]
    BY <2>1, PutProcessor
  <2> QED BY <2>1, <2>2 DEF ModemAsserts, ModemHangs, ModemResets, PhoneBlocked
<1>2. dev' \in [Devices -> Seq(Events)]
  <2>1. \A w \in {"assert", "wdt"}, x \in Events :
          [dev EXCEPT ![<<d, w>>] = Append(@, x)] \in [Devices -> Seq(Events)]
    BY DEF Inv, TypeOK, Devices
  <2> QED BY <2>1 DEF Inv, TypeOK, ModemAsserts, ModemHangs, ModemResets, PhoneBlocked, Raise, Events
<1>3. phone' \in [Modems -> Phones]
  <2>1. phone \in [Modems -> Phones] /\ phone[d].sock \in Seq({"Blocked", "EOF"})
    BY PutPhone DEF Inv, TypeOK
  <2>2. Append(phone[d].sock, "Blocked") \in Seq({"Blocked", "EOF"})
    BY <2>1
  <2>3. [phone EXCEPT ![d].sock = Append(@, "Blocked")] \in [Modems -> Phones]
    BY <2>1, <2>2, PutPhone
  <2> QED BY <2>1, <2>3 DEF ModemAsserts, ModemHangs, ModemResets, PhoneBlocked
<1>4. UNCHANGED <<pc, state, sel, owner, names, wake, told>>
  BY DEF ModemAsserts, ModemHangs, ModemResets, PhoneBlocked
<1> QED
  BY <1>1, <1>2, <1>3, <1>4 DEF Inv, TypeOK, Placed, NoLostWakeup

\* Every step keeps the invariant.
LEMMA NextInv == Inv /\ [Next]_vars => Inv'
<1> SUFFICES ASSUME Inv, [Next]_vars PROVE Inv'
  OBVIOUS
<1>1. CASE Next
  <2>1. PICK d \in Modems :
          \/ detect_sipc_modem(d) \/ detect_modem_blocked(d)
          \/ ModemAsserts(d) \/ ModemHangs(d) \/ ModemResets(d) \/ PhoneBlocked(d)
    BY <1>1 DEF Next
  <2>2. CASE detect_sipc_modem(d)
    BY <2>2, SipcKeeps, LoadKeeps, ThreadNames DEF detect_sipc_modem
  <2>3. CASE detect_modem_blocked(d)
    BY <2>3, BlkKeeps, LoadKeeps, ThreadNames DEF detect_modem_blocked
  <2> QED BY <2>1, <2>2, <2>3, OutsideKeeps
<1>2. CASE UNCHANGED vars
  BY <1>2 DEF vars, Inv, TypeOK, Placed, NoLostWakeup
<1> QED
  BY <1>1, <1>2

\* modemd's model is type correct, for every set of modems and any number of faults.
THEOREM ModemTypes == Spec => []TypeOK
<1>1. Inv => TypeOK
  BY DEF Inv
<1> QED
  BY FreshInv, NextInv, <1>1, PTL DEF Spec

\* No wake-up of detect_modem_blocked is lost, whichever threads reload which modems and
\* whenever the daemon or the phone restarts: the test of the state and the wait are one
\* step under the mutex under which READY is set and signalled.
THEOREM NoWakeupIsLost == Spec => []NoLostWakeup
<1>1. Inv => NoLostWakeup
  BY DEF Inv
<1> QED
  BY FreshInv, NextInv, <1>1, PTL DEF Spec

=============================================================================
