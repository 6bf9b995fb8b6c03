------------------------ MODULE ModemClients_proofs ------------------------
(***************************************************************************)
(* The client table for every number of slots, descriptors, clients and    *)
(* notifying threads, whatever FD_ISSET(-1) reads: what a loop does to the *)
(* entries that stay as they are while it runs, and that the table is      *)
(* exact until two threads meet at one entry or it overflows.              *)
(***************************************************************************)
EXTENDS ModemClients, TLAPS

-----------------------------------------------------------------------------
(* Types                                                                   *)

\* A notifier's place; in the loop it is at a slot, and it searches while it has an attempt.
Places == [ph : Phases, at : 1..(Slots + 1), fd : Fds \cup {0}, tries : 0..3]
Placed(t) ==
  /\ pc[t].ph \in {"look", "write", "close", "clear"} => pc[t].at \in Index
  /\ pc[t].ph = "search" => pc[t].tries > 0

TypeInv == TypeOK /\ \A t \in Notifiers : Placed(t)

\* A notifier that moves from a place to a place keeps the types.
LEMMA MoveKeeps ==
  ASSUME TypeInv, NEW t \in Notifiers, NEW a \in Places, pc' = [pc EXCEPT ![t] = a],
         a.ph \in {"look", "write", "close", "clear"} => a.at \in Index,
         a.ph = "search" => a.tries > 0
  PROVE  pc' \in [Notifiers -> Places] /\ \A k \in Notifiers : Placed(k)'
<1>1. pc \in [Notifiers -> Places] BY DEF TypeInv, TypeOK, Places
<1>2. pc' \in [Notifiers -> Places] /\ \A k \in Notifiers : pc'[k] = IF k = t THEN a ELSE pc[k]
  BY <1>1
<1> QED BY <1>2 DEF TypeInv, Placed

\* The place after this one.
LEMMA AdvanceMoves ==
  ASSUME TypeInv, NEW t \in Notifiers, pc[t].at \in Index, Advance(t)
  PROVE  pc' \in [Notifiers -> Places] /\ \A k \in Notifiers : Placed(k)'
<1> DEFINE a == [pc[t] EXCEPT !.ph = IF pc[t].at = Slots THEN "dispose" ELSE "look",
                              !.at = IF pc[t].at = Slots THEN 1 ELSE pc[t].at + 1]
<1>1. pc' = [pc EXCEPT ![t] = a] BY DEF Advance
<1>2. pc[t] \in Places BY DEF TypeInv, TypeOK, Places
<1>3. (IF pc[t].at = Slots THEN 1 ELSE pc[t].at + 1) \in Index BY ClientsAssumption DEF Index
<1>4. Index \subseteq 1..(Slots + 1) BY ClientsAssumption DEF Index
<1>5. a \in Places /\ a.at \in Index /\ a.ph \in {"dispose", "look"}
  BY <1>2, <1>3, <1>4 DEF Places, Phases
<1> QED BY <1>1, <1>5, MoveKeeps

\* A notifier that only changes its phase stays at its slot.
LEMMA PhaseMoves ==
  ASSUME TypeInv, NEW t \in Notifiers, NEW h \in Phases, pc' = [pc EXCEPT ![t].ph = h],
         h \in {"look", "write", "close", "clear"} => pc[t].at \in Index,
         h = "search" => pc[t].tries > 0
  PROVE  pc' \in [Notifiers -> Places] /\ \A k \in Notifiers : Placed(k)'
<1> DEFINE a == [pc[t] EXCEPT !.ph = h]
<1>1. pc' = [pc EXCEPT ![t] = a] OBVIOUS
<1>2. pc[t] \in Places BY DEF TypeInv, TypeOK, Places
<1>3. a \in Places /\ a.ph = h /\ a.at = pc[t].at /\ a.tries = pc[t].tries BY <1>2 DEF Places
<1> QED BY <1>1, <1>3, MoveKeeps

\* The histories keep their types.
LEMMA RecordTypes ==
  ASSUME TypeOK, [Next]_vars
  PROVE  /\ due' \in [Notifiers -> SUBSET (Index \X Clients)]
         /\ dead' \in [Notifiers -> SUBSET Index] /\ clash' \in BOOLEAN
<1>1. CASE Next
  <2>1. clash' \in BOOLEAN BY <1>1, Zenon DEF Next, Record
  <2>2. due' \in [Notifiers -> SUBSET (Index \X Clients)]
    <3>1. \A t \in Notifiers : (IF pc[t].ph = "idle" THEN Index \X Clients ELSE due[t]) \subseteq Index \X Clients
      BY DEF TypeOK
    <3> QED BY <1>1, <3>1 DEF Next, Record
  <2>3. dead' \in [Notifiers -> SUBSET Index]
    <3>1. \A t \in Notifiers : (IF pc[t].ph = "idle" THEN Index ELSE dead[t]) \subseteq Index
      BY DEF TypeOK
    <3> QED BY <1>1, <3>1 DEF Next, Record
  <2> QED BY <2>1, <2>2, <2>3
<1>2. CASE UNCHANGED vars BY <1>2 DEF vars, TypeOK
<1> QED BY <1>1, <1>2

\* Every step keeps the types, whatever the notifiers find in the table.
LEMMA TypeStep == ASSUME TypeInv, [Next]_vars PROVE TypeInv'
<1> USE ClientsAssumption
<1>0. TypeOK BY DEF TypeInv
<1>r. /\ due' \in [Notifiers -> SUBSET (Index \X Clients)]
      /\ dead' \in [Notifiers -> SUBSET Index] /\ clash' \in BOOLEAN
  BY <1>0, RecordTypes
<1>1. ASSUME UNCHANGED pc,
             /\ table' \in [Index -> Fds \cup {0}] /\ conn' \in [Fds -> Clients \cup {"none"}]
             /\ fresh' \subseteq Clients /\ gone' \subseteq Clients
             /\ acc' \in [fd : Fds \cup {0}, at : Index] /\ full' \in BOOLEAN,
             UNCHANGED <<ready, heard>>
      PROVE  TypeInv'
  BY <1>1, <1>r DEF TypeInv, TypeOK, Placed
<1>2. ASSUME NEW c \in Clients, Accept(c) PROVE TypeInv'
  <2>1. PICK n \in Fds \ Open : conn' = [conn EXCEPT ![n] = c] /\ acc' = [fd |-> n, at |-> 1]
    BY <1>2 DEF Accept
  <2>2. conn' \in [Fds -> Clients \cup {"none"}] /\ acc' \in [fd : Fds \cup {0}, at : Index]
    BY <2>1, <1>0 DEF TypeOK, Index
  <2> QED BY <1>0, <1>1, <1>2, <2>2 DEF Accept, TypeOK
<1>3. ASSUME NEW c \in Clients, Hangup(c) PROVE TypeInv'
  BY <1>0, <1>1, <1>3 DEF Hangup, TypeOK
<1>4. ASSUME AcceptSkip PROVE TypeInv'
  <2>1. acc \in [fd : Fds \cup {0}, at : Index] /\ acc.at + 1 \in Index
    BY <1>0, <1>4 DEF AcceptSkip, TypeOK, Index
  <2>2. acc' \in [fd : Fds \cup {0}, at : Index] BY <1>4, <2>1 DEF AcceptSkip
  <2> QED BY <1>0, <1>1, <1>4, <2>2 DEF AcceptSkip, TypeOK
<1>5. ASSUME AcceptFill \/ AcceptOverwrite PROVE TypeInv'
  <2>1. acc \in [fd : Fds \cup {0}, at : Index] BY <1>0 DEF TypeOK
  <2>a. acc' = [fd |-> 0, at |-> 1] /\ table' = [table EXCEPT ![acc.at] = acc.fd]
    BY <1>5 DEF AcceptFill, AcceptOverwrite
  <2>b. 1 \in Index BY DEF Index
  <2>2. acc' \in [fd : Fds \cup {0}, at : Index] /\ table' \in [Index -> Fds \cup {0}]
    BY <1>0, <2>1, <2>a, <2>b DEF TypeOK
  <2>3. full' \in BOOLEAN BY <1>0, <1>5, Zenon DEF AcceptFill, AcceptOverwrite, TypeOK
  <2> QED BY <1>0, <1>1, <1>5, <2>2, <2>3 DEF AcceptFill, AcceptOverwrite, TypeOK
<1>6. ASSUME NEW t \in Notifiers, Notifier(t) PROVE TypeInv'
  <2>0. pc[t] \in Places /\ Placed(t) BY <1>0 DEF TypeInv, TypeOK, Places
  <2>1. ASSUME pc' \in [Notifiers -> Places] /\ \A k \in Notifiers : Placed(k)',
               /\ table' \in [Index -> Fds \cup {0}] /\ conn' \in [Fds -> Clients \cup {"none"}]
               /\ ready' \in [Notifiers -> SUBSET Fds]
               /\ heard' \in [Notifiers -> SUBSET Clients],
               UNCHANGED <<fresh, gone, acc, full>>
        PROVE  TypeInv'
    BY <2>1, <1>0, <1>r DEF TypeInv, TypeOK, Places
  <2>2. ASSUME NotifyBegin(t) PROVE TypeInv'
    <3> DEFINE a == [ph |-> "look", at |-> 1, fd |-> 0, tries |-> 3]
    <3>1. a \in Places /\ a.at \in Index /\ a.ph = "look" BY DEF Places, Phases, Index
    <3>3. heard' \in [Notifiers -> SUBSET Clients] BY <2>2, <1>0 DEF NotifyBegin, TypeOK
    <3>4. pc' = [pc EXCEPT ![t] = a] BY <2>2 DEF NotifyBegin
    <3>5. pc' \in [Notifiers -> Places] /\ \A k \in Notifiers : Placed(k)' BY <3>1, <3>4, MoveKeeps
    <3> QED BY <1>0, <2>1, <2>2, <3>3, <3>5 DEF NotifyBegin, TypeOK
  <2>3. ASSUME Look(t) PROVE TypeInv'
    <3>1. pc[t].at \in Index BY <2>0, <2>3 DEF Look, Placed
    <3>2. pc' \in [Notifiers -> Places] /\ \A k \in Notifiers : Placed(k)'
      BY <2>3, <3>1, AdvanceMoves, PhaseMoves DEF Look, Phases
    <3> QED BY <1>0, <2>1, <2>3, <3>2 DEF Look, TypeOK
  <2>4. ASSUME Write(t) PROVE TypeInv'
    <3>1. pc[t].at \in Index BY <2>0, <2>4 DEF Write, Placed
    <3>2. pc' \in [Notifiers -> Places] /\ \A k \in Notifiers : Placed(k)'
      BY <2>4, <3>1, AdvanceMoves, PhaseMoves DEF Write, Phases
    <3>3. heard' \in [Notifiers -> SUBSET Clients]
      BY <1>0, <2>4, <3>1 DEF Write, Alive, TypeOK
    <3> QED BY <1>0, <2>1, <2>4, <3>2, <3>3 DEF Write, TypeOK
  <2>5. ASSUME Close(t) PROVE TypeInv'
    <3>1. pc[t].at \in Index BY <2>0, <2>5 DEF Close, Placed
    <3>2. pc' \in [Notifiers -> Places] /\ \A k \in Notifiers : Placed(k)'
      BY <2>5, <3>1, PhaseMoves DEF Close, Phases
    <3>3. conn' \in [Fds -> Clients \cup {"none"}] BY <1>0, <2>5 DEF Close, CloseFd, TypeOK
    <3> QED BY <1>0, <2>1, <2>5, <3>2, <3>3 DEF Close, TypeOK
  <2>6. ASSUME Clear(t) PROVE TypeInv'
    <3>1. pc[t].at \in Index BY <2>0, <2>6 DEF Clear, Placed
    <3>2. pc' \in [Notifiers -> Places] /\ \A k \in Notifiers : Placed(k)'
      BY <2>6, <3>1, AdvanceMoves DEF Clear
    <3>3. table' \in [Index -> Fds \cup {0}] BY <1>0, <2>6 DEF Clear, TypeOK
    <3> QED BY <1>0, <2>1, <2>6, <3>2, <3>3 DEF Clear, TypeOK
  <2>a. AtIdle \in Places /\ AtIdle.ph = "idle" BY DEF AtIdle, Places, Phases
  <2>7. ASSUME DisposeEnd(t) PROVE TypeInv'
    <3>1. pc' \in [Notifiers -> Places] /\ \A k \in Notifiers : Placed(k)'
      BY <2>7, <2>a, MoveKeeps DEF DisposeEnd
    <3> QED BY <1>0, <2>1, <2>7, <3>1 DEF DisposeEnd, TypeOK
  <2>8. ASSUME DisposeSelect(t) PROVE TypeInv'
    <3>1. pc' \in [Notifiers -> Places] /\ \A k \in Notifiers : Placed(k)'
      BY <2>8, PhaseMoves DEF DisposeSelect, Phases
    <3>2. Listed \subseteq Fds BY <1>0 DEF Listed, TypeOK
    <3>3. ready' \in [Notifiers -> SUBSET Fds] BY <1>0, <2>8, <3>2 DEF DisposeSelect, TypeOK
    <3> QED BY <1>0, <2>1, <2>8, <3>1, <3>3 DEF DisposeSelect, TypeOK
  <2>9. ASSUME DisposeSearch(t) PROVE TypeInv'
    <3>1. PICK i \in 1..(Slots + 1), n \in Fds \cup {0} : Found(t, i, n)
      <4>1. CASE \E i \in Index : Found(t, i, table[i])
        BY <1>0, <4>1 DEF TypeOK, Index
      <4>2. CASE Found(t, Slots + 1, 0) BY <4>2
      <4> QED BY <2>9, <4>1, <4>2 DEF DisposeSearch
    <3>2. pc[t].tries \in 1..3 BY <2>0, <2>9 DEF DisposeSearch, Placed, Places
    <3> DEFINE b == [ph |-> "dclose", at |-> i, fd |-> n, tries |-> pc[t].tries - 1]
    <3>3. b \in Places /\ b.ph = "dclose" BY <3>2 DEF Places, Phases
    <3>4. pc' = [pc EXCEPT ![t] = IF Alive(n) THEN AtIdle ELSE b] BY <3>1 DEF Found
    <3>5. pc' \in [Notifiers -> Places] /\ \A k \in Notifiers : Placed(k)'
      BY <2>a, <3>3, <3>4, MoveKeeps
    <3>6. ready' \in [Notifiers -> SUBSET Fds] BY <1>0, <3>1 DEF Found, TypeOK
    <3> QED BY <1>0, <2>1, <3>1, <3>5, <3>6 DEF Found, TypeOK
  <2>10. ASSUME DisposeClose(t) PROVE TypeInv'
    <3>1. pc' \in [Notifiers -> Places] /\ \A k \in Notifiers : Placed(k)'
      BY <2>10, PhaseMoves DEF DisposeClose, Phases
    <3>2. conn' \in [Fds -> Clients \cup {"none"}] BY <1>0, <2>10 DEF DisposeClose, CloseFd, TypeOK
    <3> QED BY <1>0, <2>1, <2>10, <3>1, <3>2 DEF DisposeClose, TypeOK
  <2>11. ASSUME DisposeClear(t) PROVE TypeInv'
    <3>1. pc' \in [Notifiers -> Places] /\ \A k \in Notifiers : Placed(k)'
      BY <2>11, PhaseMoves DEF DisposeClear, Phases
    <3>2. table' \in [Index -> Fds \cup {0}] BY <1>0, <2>11 DEF DisposeClear, TypeOK
    <3> QED BY <1>0, <2>1, <2>11, <3>1, <3>2 DEF DisposeClear, TypeOK
  <2> QED BY <1>6, <2>2, <2>3, <2>4, <2>5, <2>6, <2>7, <2>8, <2>9, <2>10, <2>11 DEF Notifier
<1>7. CASE UNCHANGED vars BY <1>7 DEF vars, TypeInv, TypeOK, Placed
<1> QED BY <1>2, <1>3, <1>4, <1>5, <1>6, <1>7 DEF Next, Step

\* The table is empty when modemd_listenaccept_thread starts.
LEMMA InitTypes == ASSUME Init PROVE TypeInv
<1>1. full \in BOOLEAN /\ clash \in BOOLEAN BY Zenon DEF Init
<1>2. TypeOK
  BY <1>1, ClientsAssumption DEF Init, TypeOK, AtIdle, Index, Fds, Phases
<1> QED BY <1>2 DEF TypeInv, Placed, Init, AtIdle

\* Whatever the number of threads that bring news, of clients and of slots, and whatever
\* FD_ISSET(-1) reads, descriptors and slots stay in range but for the one store behind
\* the table.
THEOREM ClientTypes == Spec => []TypeOK
<1>1. Init => TypeInv BY InitTypes
<1>2. TypeInv /\ [Next]_vars => TypeInv' BY TypeStep
<1>3. TypeInv => TypeOK BY DEF TypeInv
<1> QED BY <1>1, <1>2, <1>3, PTL DEF Spec

-----------------------------------------------------------------------------
(* A step of one notifier                                                  *)

\* A notifier changes its own place, rfds and history only.
LEMMA OthersStay ==
  ASSUME TypeInv, NEW t \in Notifiers, Notifier(t), NEW u \in Notifiers \ {t}
  PROVE  pc'[u] = pc[u] /\ ready'[u] = ready[u] /\ heard'[u] = heard[u]
<1>1. /\ pc \in [Notifiers -> Places] /\ ready \in [Notifiers -> SUBSET Fds]
      /\ heard \in [Notifiers -> SUBSET Clients]
  BY DEF TypeInv, TypeOK, Places
<1>2. CASE NotifyBegin(t) BY <1>1, <1>2 DEF NotifyBegin
<1>3. CASE Look(t) BY <1>1, <1>3 DEF Look, Advance
<1>4. CASE Write(t) BY <1>1, <1>4 DEF Write, Advance
<1>5. CASE Close(t) BY <1>1, <1>5 DEF Close
<1>6. CASE Clear(t) BY <1>1, <1>6 DEF Clear, Advance
<1>7. CASE DisposeEnd(t) BY <1>1, <1>7 DEF DisposeEnd
<1>8. CASE DisposeSelect(t) BY <1>1, <1>8 DEF DisposeSelect
<1>9. CASE DisposeSearch(t) BY <1>1, <1>9 DEF DisposeSearch, Found
<1>10. CASE DisposeClose(t) BY <1>1, <1>10 DEF DisposeClose
<1>11. CASE DisposeClear(t) BY <1>1, <1>11 DEF DisposeClear
<1> QED BY <1>2, <1>3, <1>4, <1>5, <1>6, <1>7, <1>8, <1>9, <1>10, <1>11 DEF Notifier

\* Where Advance leads.
LEMMA AdvancePlace ==
  ASSUME TypeInv, NEW t \in Notifiers, pc[t].at \in Index, Advance(t)
  PROVE  /\ pc'[t].fd = pc[t].fd /\ pc'[t].at \in Index
         /\ \/ pc[t].at = Slots /\ pc'[t].ph = "dispose"
            \/ pc[t].at < Slots /\ pc'[t].ph = "look" /\ pc'[t].at = pc[t].at + 1
<1> DEFINE a == [pc[t] EXCEPT !.ph = IF pc[t].at = Slots THEN "dispose" ELSE "look",
                              !.at = IF pc[t].at = Slots THEN 1 ELSE pc[t].at + 1]
<1>1. pc \in [Notifiers -> Places] BY DEF TypeInv, TypeOK, Places
<1>2. pc'[t] = a BY <1>1 DEF Advance
<1>3. pc[t] \in Places BY <1>1
<1>4. /\ a.fd = pc[t].fd /\ a.at = (IF pc[t].at = Slots THEN 1 ELSE pc[t].at + 1)
      /\ a.ph = IF pc[t].at = Slots THEN "dispose" ELSE "look"
  BY <1>3 DEF Places
<1> QED BY <1>2, <1>4, ClientsAssumption DEF Index

\* The place after a change of phase.
LEMMA PhasePlace ==
  ASSUME TypeInv, NEW t \in Notifiers, NEW h, pc' = [pc EXCEPT ![t].ph = h]
  PROVE  pc'[t].ph = h /\ pc'[t].at = pc[t].at /\ pc'[t].fd = pc[t].fd /\ pc'[t].tries = pc[t].tries
<1>1. pc \in [Notifiers -> Places] BY DEF TypeInv, TypeOK, Places
<1>2. pc'[t] = [pc[t] EXCEPT !.ph = h] /\ pc[t] \in Places BY <1>1
<1> QED BY <1>2 DEF Places

\* Where the search leads: to an answer, to the end of the connection in some slot, or
\* behind the table when no slot was readable.
LEMMA SearchPlace ==
  ASSUME TypeInv, NEW t \in Notifiers, DisposeSearch(t)
  PROVE  /\ UNCHANGED <<table, conn, gone, acc, full>> /\ pc[t].ph = "search"
         /\ \/ pc'[t].ph = "idle" /\ pc'[t].at = 1
            \/ \E i \in Index : /\ pc'[t].ph = "dclose" /\ pc'[t].at = i /\ pc'[t].fd = table[i]
                               /\ ~Alive(table[i])
            \/ /\ pc'[t].ph = "dclose" /\ pc'[t].at = Slots + 1 /\ pc'[t].fd = 0
               /\ \A k \in Index : FALSE \in IsSet(t, k)
<1>1. pc \in [Notifiers -> Places] BY DEF TypeInv, TypeOK, Places
<1>2. ASSUME NEW i, NEW n, Found(t, i, n)
      PROVE  /\ UNCHANGED <<table, conn, gone, acc, full>>
             /\ \/ pc'[t].ph = "idle" /\ pc'[t].at = 1
                \/ pc'[t].ph = "dclose" /\ pc'[t].at = i /\ pc'[t].fd = n /\ ~Alive(n)
  BY <1>1, <1>2 DEF Found, AtIdle
<1>3. CASE \E i \in Index : Found(t, i, table[i]) BY <1>2, <1>3 DEF DisposeSearch
<1>4. CASE (\A k \in Index : FALSE \in IsSet(t, k)) /\ Found(t, Slots + 1, 0) BY <1>2, <1>4 DEF DisposeSearch
<1> QED BY <1>3, <1>4 DEF DisposeSearch

-----------------------------------------------------------------------------
(* The loop and the entries that stay                                      *)

\* The entries the loop of t has passed: of those that were live all the while each client
\* has its news, and none is left of those that were dead all the while.
LoopInv(t) ==
  LET p == pc[t] IN
  /\ p.ph \in {"look", "write"} =>
       /\ \A q \in due[t] : q[1] < p.at => q[2] \in heard[t]
       /\ \A i \in dead[t] : i >= p.at
  /\ p.ph \in {"close", "clear"} =>
       /\ \A q \in due[t] : q[1] <= p.at => q[2] \in heard[t]
       /\ \A i \in dead[t] : i >= p.at
  /\ LoopDone(t) => (\A q \in due[t] : q[2] \in heard[t]) /\ dead[t] = {}

HearInv == TypeInv /\ \A t \in Notifiers : LoopInv(t)

\* Each step keeps it: an entry leaves due or dead as soon as it changes.
LEMMA HearStep == ASSUME HearInv, [Next]_vars PROVE HearInv'
<1> USE ClientsAssumption
<1>0. TypeInv /\ TypeOK BY DEF HearInv, TypeInv
<1>1. TypeInv' BY <1>0, TypeStep
<1>2. CASE UNCHANGED vars BY <1>1, <1>2 DEF HearInv, LoopInv, LoopDone, vars
<1>3. CASE Next
  <2>1. ASSUME NEW u \in Notifiers, pc[u].ph # "idle"
        PROVE  /\ \A q \in due'[u] : q \in due[u] /\ Holds(q[1], q[2])'
               /\ \A i \in dead'[u] : i \in dead[u] /\ Dead(i)'
    BY <1>3, <2>1 DEF Next, Record
  <2>2. ASSUME NEW u \in Notifiers, pc'[u] = pc[u], heard'[u] = heard[u] PROVE LoopInv(u)'
    <3>1. CASE pc[u].ph = "idle" BY <3>1, <2>2 DEF LoopInv, LoopDone
    <3>2. CASE pc[u].ph # "idle" BY <2>1, <2>2, <3>2 DEF HearInv, LoopInv, LoopDone
    <3> QED BY <3>1, <3>2
  <2>3. ASSUME UNCHANGED <<pc, heard>> PROVE HearInv'
    BY <1>1, <2>2, <2>3 DEF HearInv
  <2>4. ASSUME NEW t \in Notifiers, Notifier(t) PROVE HearInv'
    <3>1. SUFFICES LoopInv(t)' BY <1>0, <1>1, <2>2, <2>4, OthersStay DEF HearInv
    <3>2. LoopInv(t) /\ pc[t] \in Places /\ Placed(t) BY <1>0 DEF HearInv, TypeInv, TypeOK, Places
    <3>q. \A q \in due'[t] : q[1] \in Nat
      <4>1. due' \in [Notifiers -> SUBSET (Index \X Clients)] BY <1>1 DEF TypeInv, TypeOK
      <4> QED BY <4>1 DEF Index
    <3>d. \A i \in dead'[t] : i \in Index BY <1>1 DEF TypeInv, TypeOK
    <3>3. ASSUME NotifyBegin(t) PROVE LoopInv(t)'
      <4>1. pc'[t] = [ph |-> "look", at |-> 1, fd |-> 0, tries |-> 3]
        BY <1>0, <3>3 DEF NotifyBegin, TypeOK
      <4>2. \A q \in due'[t] : q[1] >= 1
        <5>1. due' \in [Notifiers -> SUBSET (Index \X Clients)] BY <1>1 DEF TypeInv, TypeOK
        <5> QED BY <5>1 DEF Index
      <4> QED BY <3>d, <3>q, <4>1, <4>2 DEF LoopInv, LoopDone, Index
    \* to the next slot: what is said of this one is settled
    <3>4. ASSUME pc[t].at \in Index, Advance(t), pc[t].ph \in {"look", "write", "clear"},
                 \A q \in due'[t] : q[1] <= pc[t].at => q[2] \in heard'[t],
                 \A i \in dead'[t] : i > pc[t].at
          PROVE  LoopInv(t)'
      <4>1. CASE pc[t].at = Slots /\ pc'[t].ph = "dispose"
        <5>1. \A q \in due'[t] : q[1] <= Slots
          <6>1. due' \in [Notifiers -> SUBSET (Index \X Clients)] BY <1>1 DEF TypeInv, TypeOK
          <6> QED BY <6>1 DEF Index
        <5>2. dead'[t] = {} BY <3>d, <3>4, <4>1 DEF Index
        <5> QED BY <3>4, <4>1, <5>1, <5>2 DEF LoopInv, LoopDone
      <4>2. CASE pc[t].at < Slots /\ pc'[t].ph = "look" /\ pc'[t].at = pc[t].at + 1
        BY <3>4, <3>d, <3>q, <4>2 DEF LoopInv, LoopDone, Index
      <4> QED BY <1>0, <3>4, <4>1, <4>2, AdvancePlace
    <3>5. ASSUME Look(t) PROVE LoopInv(t)'
      <4>0. pc[t].at \in Index /\ pc[t].ph = "look" /\ UNCHANGED <<table, conn, gone, heard>>
        BY <3>2, <3>5 DEF Look, Placed
      <4>1. CASE table[pc[t].at] # 0
        <5>1. pc' = [pc EXCEPT ![t].ph = "write"] BY <3>5, <4>1 DEF Look
        <5>2. pc'[t].ph = "write" /\ pc'[t].at = pc[t].at BY <1>0, <5>1, PhasePlace
        <5> QED BY <2>1, <3>2, <4>0, <5>2 DEF LoopInv, LoopDone
      <4>2. CASE table[pc[t].at] = 0
        <5>1. Advance(t) BY <3>5, <4>2 DEF Look
        <5>2. ASSUME NEW i, i = pc[t].at PROVE i \notin dead'[t] /\ \A q \in due'[t] : q[1] # i
          BY <2>1, <4>0, <4>2, <5>2 DEF Holds, Dead, Alive, Fds
        <5>3. \A q \in due'[t] : q[1] <= pc[t].at => q[2] \in heard'[t]
          BY <2>1, <3>2, <3>q, <4>0, <5>2 DEF LoopInv, Index
        <5>4. \A i \in dead'[t] : i > pc[t].at
          BY <2>1, <3>2, <3>d, <4>0, <5>2 DEF LoopInv, Index
        <5> QED BY <3>4, <4>0, <5>1, <5>3, <5>4
      <4> QED BY <4>1, <4>2
    <3>6. ASSUME Write(t) PROVE LoopInv(t)'
      <4>0. pc[t].at \in Index /\ pc[t].ph = "write" /\ UNCHANGED <<table, conn, gone>>
        BY <3>2, <3>6 DEF Write, Placed
      <4>1. CASE Alive(table[pc[t].at])
        <5>1. Advance(t) /\ heard'[t] = heard[t] \cup {conn[table[pc[t].at]]}
          BY <1>0, <3>6, <4>1 DEF Write, TypeOK
        <5>2. ASSUME NEW i, i = pc[t].at
              PROVE i \notin dead'[t] /\ \A q \in due'[t] : q[1] = i => q[2] \in heard'[t]
          BY <2>1, <4>0, <4>1, <5>1, <5>2 DEF Holds, Dead, Alive
        <5>3. \A q \in due'[t] : q[1] <= pc[t].at => q[2] \in heard'[t]
          BY <2>1, <3>2, <3>q, <4>0, <5>1, <5>2 DEF LoopInv, Index
        <5>4. \A i \in dead'[t] : i > pc[t].at
          BY <2>1, <3>2, <3>d, <4>0, <5>2 DEF LoopInv, Index
        <5> QED BY <3>4, <4>0, <5>1, <5>3, <5>4
      <4>2. CASE ~Alive(table[pc[t].at])
        <5>1. pc' = [pc EXCEPT ![t].ph = "close"] /\ heard'[t] = heard[t]
          BY <3>6, <4>2 DEF Write
        <5>2. pc'[t].ph = "close" /\ pc'[t].at = pc[t].at BY <1>0, <5>1, PhasePlace
        <5>3. ASSUME NEW i, i = pc[t].at PROVE \A q \in due'[t] : q[1] # i
          BY <2>1, <4>0, <4>2, <5>3 DEF Holds, Alive
        <5>4. \A q \in due'[t] : q[1] <= pc[t].at => q[2] \in heard'[t]
          BY <2>1, <3>2, <3>q, <4>0, <5>1, <5>3 DEF LoopInv, Index
        <5> QED BY <2>1, <3>2, <4>0, <5>2, <5>4 DEF LoopInv, LoopDone
      <4> QED BY <4>1, <4>2
    <3>7. ASSUME Close(t) PROVE LoopInv(t)'
      <4>1. pc[t].ph = "close" /\ pc' = [pc EXCEPT ![t].ph = "clear"] /\ heard'[t] = heard[t] BY <3>7 DEF Close
      <4>2. pc'[t].ph = "clear" /\ pc'[t].at = pc[t].at BY <1>0, <4>1, PhasePlace
      <4> QED BY <2>1, <3>2, <4>1, <4>2 DEF LoopInv, LoopDone
    <3>8. ASSUME Clear(t) PROVE LoopInv(t)'
      <4>1. /\ pc[t].ph = "clear" /\ pc[t].at \in Index /\ Advance(t) /\ heard'[t] = heard[t]
            /\ table' = [table EXCEPT ![pc[t].at] = 0]
        BY <3>2, <3>8 DEF Clear, Placed
      <4>2. ASSUME NEW i, i = pc[t].at PROVE i \notin dead'[t]
        BY <1>0, <2>1, <4>1, <4>2 DEF Dead, TypeOK
      <4>3. \A q \in due'[t] : q[1] <= pc[t].at => q[2] \in heard'[t]
        BY <2>1, <3>2, <4>1 DEF LoopInv
      <4>4. \A i \in dead'[t] : i > pc[t].at
        BY <2>1, <3>2, <3>d, <4>1, <4>2 DEF LoopInv, Index
      <4> QED BY <3>4, <4>1, <4>3, <4>4
    \* behind the loop nothing is added
    <3>9. ASSUME DisposeEnd(t) \/ DisposeSelect(t) \/ DisposeSearch(t) \/ DisposeClose(t) \/ DisposeClear(t)
          PROVE  LoopInv(t)'
      <4>1. LoopDone(t) /\ heard'[t] = heard[t]
        BY <3>9 DEF DisposeEnd, DisposeSelect, DisposeSearch, Found, DisposeClose, DisposeClear, LoopDone
      <4>2. pc'[t].ph \in {"idle", "dispose", "search", "dclose", "dclear"}
        <5>1. CASE DisposeEnd(t) BY <1>0, <5>1 DEF DisposeEnd, TypeOK, AtIdle
        <5>2. CASE DisposeSelect(t) BY <1>0, <5>2, PhasePlace DEF DisposeSelect
        <5>3. CASE DisposeSearch(t) BY <1>0, <5>3, SearchPlace
        <5>4. CASE DisposeClose(t) BY <1>0, <5>4, PhasePlace DEF DisposeClose
        <5>5. CASE DisposeClear(t) BY <1>0, <5>5, PhasePlace DEF DisposeClear
        <5> QED BY <3>9, <5>1, <5>2, <5>3, <5>4, <5>5
      <4>3. (\A q \in due'[t] : q[2] \in heard'[t]) /\ dead'[t] = {}
        BY <2>1, <3>2, <4>1 DEF LoopInv, LoopDone
      <4> QED BY <4>2, <4>3 DEF LoopInv, LoopDone
    <3> QED BY <2>4, <3>3, <3>5, <3>6, <3>7, <3>8, <3>9 DEF Notifier
  <2>5. CASE \E c \in Clients : Accept(c) \/ Hangup(c) BY <2>3, <2>5 DEF Accept, Hangup
  <2>6. CASE AcceptSkip \/ AcceptFill \/ AcceptOverwrite
    BY <2>3, <2>6 DEF AcceptSkip, AcceptFill, AcceptOverwrite
  <2> QED BY <1>3, <2>4, <2>5, <2>6 DEF Next, Step
<1> QED BY <1>2, <1>3

\* Both statements about a loop hold of every behaviour.
LEMMA HearAlways == Spec => []HearInv
<1>1. Init => HearInv
  <2> SUFFICES ASSUME Init PROVE HearInv OBVIOUS
  <2>1. TypeInv BY InitTypes
  <2> QED BY <2>1 DEF HearInv, LoopInv, LoopDone, Init, AtIdle
<1>2. HearInv /\ [Next]_vars => HearInv' BY HearStep
<1> QED BY <1>1, <1>2, PTL DEF Spec

\* loop_info_sockclients tells every client whose entry stays in client_fd while the loop
\* runs, whatever any number of other notifiers and the accept thread do meanwhile.
THEOREM EveryClientHears == Spec => []AllHear
<1>1. HearInv => AllHear BY DEF HearInv, LoopInv, AllHear
<1> QED BY <1>1, HearAlways, PTL

\* A closed descriptor or a client that has gone does not keep its entry of client_fd past
\* the next loop of any notifier.
THEOREM DeadEntriesGo == Spec => []DeadRemoved
<1>1. HearInv => DeadRemoved BY DEF HearInv, LoopInv, DeadRemoved
<1> QED BY <1>1, HearAlways, PTL

-----------------------------------------------------------------------------
(* The table, until two threads meet                                       *)

OpenEntries == \A i \in Index : table[i] # 0 /\ ~Stale(i) => table[i] \in Open

\* Two entries hold one number only while one of them waits to be cleared.
Distinct ==
  \A i, j \in Index : table[i] = table[j] /\ table[i] # 0 /\ i # j => Stale(i) \/ Stale(j)

\* The descriptor being filed is open and not in the table yet.
Filing ==
  acc.fd # 0 => acc.fd \in Open /\ \A i \in Index : table[i] = acc.fd => Stale(i)

\* What is about to be closed is open, sits in one slot at most, and is not being filed.
Closing(t) ==
  pc[t].ph = "dclose" /\ pc[t].fd # 0 =>
    /\ pc[t].fd \in Open /\ pc[t].fd # acc.fd
    /\ \A i \in Index : table[i] = pc[t].fd => i = pc[t].at

\* No two notifiers are about to close the same number.
Apart ==
  \A t, u \in Notifiers :
    t # u /\ pc[t].ph = "dclose" /\ pc[u].ph = "dclose" /\ pc[t].fd # 0 => pc[t].fd # pc[u].fd

Sound == OpenEntries /\ Distinct /\ Filing /\ Apart /\ \A t \in Notifiers : Closing(t)

\* Every open descriptor but the one being filed has an entry that stays.
AllListed == \A n \in Open : acc.fd = n \/ \E i \in Index : table[i] = n /\ ~Stale(i)

\* What a notifier relies on: its slot is one, what it is about to close is dead and in
\* that slot, and the search will find what select reported.
Knows(t) ==
  LET p == pc[t] IN
  /\ p.at \in Index
  /\ p.ph = "close" => ~Alive(table[p.at])
  /\ p.ph = "dclose" => table[p.at] = p.fd /\ ~Alive(p.fd)
  /\ p.ph = "search" => \E i \in Index : table[i] # 0 /\ table[i] \in ready[t]

Exact == AllListed /\ \A t \in Notifiers : Knows(t)

TableInv ==
  /\ TypeInv /\ (Meet => clash)
  /\ (~clash => Sound)
  /\ (~clash /\ ~full => Exact)

\* A notifier that removes an entry is alone there.
LEMMA Alone ==
  ASSUME TypeInv, ~Meet, NEW t \in Notifiers, pc[t].ph \in {"close", "clear", "dclose", "dclear"}
  PROVE  /\ ~Fills(pc[t].at)
         /\ \A u \in Notifiers \ {t} :
              /\ pc[u].ph # "search"
              /\ pc[u].ph \in {"write", "close", "clear", "dclose", "dclear"} => pc[u].at # pc[t].at
<1>1. pc[t].at \in 1..(Slots + 1) BY DEF TypeInv, TypeOK
<1>2. Removes(t, pc[t].at) BY DEF Removes
<1> QED BY <1>1, <1>2 DEF Meet, Removes, Uses

\* The stale slots before and after a step of t.
LEMMA StaleStep ==
  ASSUME NEW t \in Notifiers, \A u \in Notifiers \ {t} : pc'[u] = pc[u]
  PROVE  LET others(i) == \E u \in Notifiers \ {t} : pc[u].ph \in {"clear", "dclear"} /\ pc[u].at = i
         IN /\ \A i : Stale(i) <=> others(i) \/ (pc[t].ph \in {"clear", "dclear"} /\ pc[t].at = i)
            /\ \A i : Stale(i)' <=> others(i) \/ (pc'[t].ph \in {"clear", "dclear"} /\ pc'[t].at = i)
BY DEF Stale

\* A notifier's step is one of four: one that removes nothing, the search, a close, a clear.
LEMMA NotifierCases ==
  ASSUME TypeInv, NEW t \in Notifiers, Notifier(t)
  PROVE  /\ UNCHANGED <<gone, acc, full>>
         /\ \/ /\ UNCHANGED <<table, conn>> /\ pc[t].ph \notin {"clear", "dclear"}
               /\ pc'[t].ph \notin {"clear", "dclear", "dclose"}
            \/ DisposeSearch(t)
            \/ /\ UNCHANGED table /\ pc[t].ph = "close" /\ CloseFd(table[pc[t].at]) /\ pc[t].at \in Index
               /\ pc'[t].ph = "clear" /\ pc'[t].at = pc[t].at
            \/ /\ UNCHANGED table /\ pc[t].ph = "dclose" /\ CloseFd(pc[t].fd)
               /\ pc'[t].ph = "dclear" /\ pc'[t].at = pc[t].at
            \/ /\ UNCHANGED conn /\ pc[t].ph \in {"clear", "dclear"}
               /\ pc'[t].ph \in {"look", "dispose"} /\ (pc[t].at \in Index => pc'[t].at \in Index)
               /\ table' = [i \in Index |-> IF i = pc[t].at THEN 0 ELSE table[i]]
<1> USE ClientsAssumption
<1>0. pc[t] \in Places /\ Placed(t) /\ TypeOK BY DEF TypeInv, TypeOK, Places
<1>1. CASE NotifyBegin(t) BY <1>0, <1>1 DEF NotifyBegin, TypeOK
<1>2. CASE Look(t)
  <2>1. pc[t].at \in Index BY <1>0, <1>2 DEF Look, Placed
  <2>2. pc'[t].ph \in {"write", "look", "dispose"} BY <1>2, <2>1, PhasePlace, AdvancePlace DEF Look
  <2> QED BY <1>2, <2>2 DEF Look
<1>3. CASE Write(t)
  <2>1. pc[t].at \in Index BY <1>0, <1>3 DEF Write, Placed
  <2>2. pc'[t].ph \in {"close", "look", "dispose"} BY <1>3, <2>1, PhasePlace, AdvancePlace DEF Write
  <2> QED BY <1>3, <2>2 DEF Write
<1>4. CASE Close(t) BY <1>0, <1>4, PhasePlace DEF Close, Placed
<1>5. CASE Clear(t)
  <2>1. pc[t].at \in Index BY <1>0, <1>5 DEF Clear, Placed
  <2>2. pc'[t].ph \in {"look", "dispose"} /\ pc'[t].at \in Index BY <1>5, <2>1, AdvancePlace DEF Clear
  <2>3. table' = [i \in Index |-> IF i = pc[t].at THEN 0 ELSE table[i]]
    BY <1>0, <1>5, <2>1 DEF Clear, TypeOK
  <2> QED BY <1>5, <2>2, <2>3 DEF Clear
<1>6. CASE DisposeEnd(t)
  <2>1. pc'[t].ph = "idle" BY <1>0, <1>6 DEF DisposeEnd, AtIdle, TypeOK
  <2> QED BY <1>6, <2>1 DEF DisposeEnd
<1>7. CASE DisposeSelect(t)
  <2>1. pc'[t].ph = "search" BY <1>7, PhasePlace DEF DisposeSelect
  <2> QED BY <1>7, <2>1 DEF DisposeSelect
<1>8. CASE DisposeSearch(t) BY <1>8, SearchPlace
<1>9. CASE DisposeClose(t)
  <2>1. pc'[t].ph = "dclear" /\ pc'[t].at = pc[t].at BY <1>9, PhasePlace DEF DisposeClose
  <2> QED BY <1>9, <2>1 DEF DisposeClose
<1>10. CASE DisposeClear(t)
  <2>1. pc'[t].ph = "dispose" /\ pc'[t].at = pc[t].at BY <1>10, PhasePlace DEF DisposeClear
  <2> QED BY <1>10, <2>1 DEF DisposeClear
<1> QED BY <1>1, <1>2, <1>3, <1>4, <1>5, <1>6, <1>7, <1>8, <1>9, <1>10 DEF Notifier

\* A step from a state where no two threads meet leaves only open descriptors in the table.
LEMMA SoundStep == ASSUME TypeInv, TypeInv', Sound, ~Meet, Step PROVE Sound'
<1> USE ClientsAssumption
<1>0. /\ TypeOK /\ TypeOK' /\ OpenEntries /\ Distinct /\ Filing /\ Apart
      /\ \A t \in Notifiers : Closing(t)
  BY DEF TypeInv, Sound
<1>3. Open = {n \in Fds : conn[n] # "none"} /\ Open' = {n \in Fds : conn'[n] # "none"} /\ 0 \notin Fds
  BY DEF Open, Fds
<1>4. ASSUME UNCHANGED <<table, conn, pc>>, acc'.fd = acc.fd PROVE Sound'
  BY <1>0, <1>4 DEF Sound, OpenEntries, Distinct, Filing, Apart, Closing, Open, Stale
<1>5. ASSUME NEW c \in Clients, Accept(c) PROVE Sound'
  <2>1. PICK n \in Fds \ Open : conn' = [conn EXCEPT ![n] = c] /\ acc' = [fd |-> n, at |-> 1]
    BY <1>5 DEF Accept
  <2>2. UNCHANGED <<table, pc>> BY <1>5 DEF Accept
  <2>3. Open' = Open \cup {n} /\ \A i : Stale(i)' <=> Stale(i)
    BY <1>0, <1>3, <2>1, <2>2 DEF TypeOK, Stale
  <2>4. acc'.fd = n BY <2>1
  <2>5. OpenEntries' /\ Distinct' /\ Apart' BY <1>0, <2>2, <2>3 DEF OpenEntries, Distinct, Apart
  <2>6. Filing' BY <1>0, <1>3, <2>1, <2>2, <2>3, <2>4 DEF OpenEntries, Filing
  <2>7. \A t \in Notifiers : Closing(t)' BY <1>0, <2>1, <2>2, <2>3, <2>4 DEF Closing
  <2> QED BY <2>5, <2>6, <2>7 DEF Sound
<1>6. ASSUME NEW c \in Clients, Hangup(c) PROVE Sound' BY <1>4, <1>6 DEF Hangup
<1>7. ASSUME AcceptSkip PROVE Sound'
  <2>1. acc' = [acc EXCEPT !.at = acc.at + 1] /\ acc \in [fd : Fds \cup {0}, at : Index]
    BY <1>0, <1>7 DEF AcceptSkip, TypeOK
  <2>2. acc'.fd = acc.fd BY <2>1
  <2> QED BY <1>4, <1>7, <2>2 DEF AcceptSkip
<1>8. ASSUME AcceptFill \/ AcceptOverwrite PROVE Sound'
  <2>1. /\ UNCHANGED <<conn, pc>> /\ acc.fd # 0 /\ acc' = [fd |-> 0, at |-> 1]
        /\ table' = [table EXCEPT ![acc.at] = acc.fd]
    BY <1>8 DEF AcceptFill, AcceptOverwrite
  <2>2. acc.at \in Index /\ acc.fd \in Open /\ \A i \in Index : table[i] = acc.fd => Stale(i)
    BY <1>0, <2>1 DEF TypeOK, Filing
  <2>3. Open' = Open /\ \A i : Stale(i)' <=> Stale(i) BY <1>3, <2>1 DEF Stale
  <2>4. \A i \in Index : table'[i] = IF i = acc.at THEN acc.fd ELSE table[i]
    BY <1>0, <2>1, <2>2 DEF TypeOK
  <2>5. OpenEntries' BY <1>0, <2>2, <2>3, <2>4 DEF OpenEntries
  <2>6. Distinct' BY <1>0, <2>2, <2>3, <2>4 DEF Distinct
  <2>7. Filing' /\ Apart' BY <1>0, <2>1 DEF Filing, Apart
  <2>8. \A t \in Notifiers : Closing(t)' BY <1>0, <1>3, <2>1, <2>3, <2>4 DEF Closing
  <2> QED BY <2>5, <2>6, <2>7, <2>8 DEF Sound
<1>9. ASSUME NEW t \in Notifiers, Notifier(t) PROVE Sound'
  <2>0. UNCHANGED acc BY <1>9, NotifierCases
  <2>1. \A u \in Notifiers \ {t} : pc'[u] = pc[u] BY <1>9, OthersStay
  <2> DEFINE others(i) == \E u \in Notifiers \ {t} : pc[u].ph \in {"clear", "dclear"} /\ pc[u].at = i
  <2>2. /\ \A i : Stale(i) <=> others(i) \/ (pc[t].ph \in {"clear", "dclear"} /\ pc[t].at = i)
        /\ \A i : Stale(i)' <=> others(i) \/ (pc'[t].ph \in {"clear", "dclear"} /\ pc'[t].at = i)
    BY <2>1, StaleStep
  <2> HIDE DEF others
  \* nothing is removed
  <2>3. ASSUME UNCHANGED <<table, conn>>, pc[t].ph \notin {"clear", "dclear"},
               pc'[t].ph \notin {"clear", "dclear", "dclose"}
        PROVE  Sound'
    <3>1. Open' = Open /\ \A i : Stale(i)' <=> Stale(i) BY <1>3, <2>2, <2>3
    <3>2. OpenEntries' /\ Distinct' /\ Filing'
      BY <1>0, <2>0, <2>3, <3>1 DEF OpenEntries, Distinct, Filing
    <3>3. Apart' BY <1>0, <2>1, <2>3 DEF Apart
    <3>4. \A u \in Notifiers : Closing(u)' BY <1>0, <2>0, <2>1, <2>3, <3>1 DEF Closing
    <3> QED BY <3>2, <3>3, <3>4 DEF Sound
  \* a descriptor is closed: the slot that holds it becomes stale
  <2>4. ASSUME NEW n, CloseFd(n), UNCHANGED table,
               pc[t].ph \in {"close", "dclose"}, pc'[t].ph \in {"clear", "dclear"}, pc'[t].at = pc[t].at,
               n # 0 => n # acc.fd,
               \A i \in Index : table[i] = n /\ n # 0 => i = pc[t].at \/ others(i),
               \A u \in Notifiers \ {t} : pc[u].ph = "dclose" /\ n # 0 => pc[u].fd # n
        PROVE  Sound'
    <3>1. \A i : Stale(i)' <=> Stale(i) \/ i = pc[t].at BY <2>2, <2>4
    <3>2. \A k \in Fds : k # n => (k \in Open' <=> k \in Open) BY <1>3, <2>4 DEF CloseFd
    <3>3. OpenEntries' BY <1>0, <1>3, <2>2, <2>4, <3>1, <3>2 DEF OpenEntries, TypeOK
    <3>4. Distinct' BY <1>0, <2>4, <3>1 DEF Distinct
    <3>5. Filing'
      <4>1. acc.fd # 0 => acc.fd \in Open /\ \A i \in Index : table[i] = acc.fd => Stale(i)
        BY <1>0 DEF Filing
      <4>2. acc.fd # 0 => acc.fd \in Open' BY <1>3, <2>4, <3>2, <4>1
      <4> QED BY <2>0, <2>4, <3>1, <4>1, <4>2 DEF Filing
    <3>6. Apart' BY <1>0, <2>1, <2>4 DEF Apart
    <3>7. ASSUME NEW u \in Notifiers PROVE Closing(u)'
      <4>1. CASE u = t BY <2>4, <4>1 DEF Closing
      <4>2. CASE u # t BY <1>0, <1>3, <2>0, <2>1, <2>4, <3>2, <4>2 DEF Closing
      <4> QED BY <4>1, <4>2
    <3> QED BY <3>3, <3>4, <3>5, <3>6, <3>7 DEF Sound
  <2>5. ASSUME UNCHANGED table, pc[t].ph = "close", CloseFd(table[pc[t].at]), pc[t].at \in Index,
               pc'[t].ph = "clear", pc'[t].at = pc[t].at
        PROVE  Sound'
    <3>1. ~Stale(pc[t].at)
      BY <2>2, <2>5, Alone DEF others
    <3>2. table[pc[t].at] # 0 => table[pc[t].at] # acc.fd BY <1>0, <2>5, <3>1 DEF Filing
    <3>3. \A i \in Index : table[i] = table[pc[t].at] /\ table[pc[t].at] # 0 => i = pc[t].at \/ others(i)
      BY <1>0, <2>2, <2>5, <3>1 DEF Distinct
    <3>4. \A u \in Notifiers \ {t} : pc[u].ph = "dclose" /\ table[pc[t].at] # 0 => pc[u].fd # table[pc[t].at]
      BY <1>0, <2>5, Alone DEF Closing
    <3> QED BY <2>4, <2>5, <3>2, <3>3, <3>4
  <2>6. ASSUME UNCHANGED table, pc[t].ph = "dclose", CloseFd(pc[t].fd),
               pc'[t].ph = "dclear", pc'[t].at = pc[t].at
        PROVE  Sound'
    <3>1. \A u \in Notifiers \ {t} : pc[u].ph = "dclose" /\ pc[t].fd # 0 => pc[u].fd # pc[t].fd
      BY <1>0, <2>6 DEF Apart
    <3> QED BY <1>0, <2>4, <2>6, <3>1 DEF Closing
  \* the stale slot is cleared
  <2>7. ASSUME UNCHANGED conn, pc[t].ph \in {"clear", "dclear"}, pc'[t].ph \in {"look", "dispose"},
               table' = [i \in Index |-> IF i = pc[t].at THEN 0 ELSE table[i]]
        PROVE  Sound'
    <3>1. \A i \in Index : table'[i] = IF i = pc[t].at THEN 0 ELSE table[i] BY <2>7
    <3>2. Open' = Open /\ \A i : i # pc[t].at => (Stale(i)' <=> Stale(i)) BY <1>3, <2>2, <2>7
    <3>3. OpenEntries' BY <1>0, <3>1, <3>2 DEF OpenEntries
    <3>4. Distinct' BY <1>0, <3>1, <3>2 DEF Distinct
    <3>5. Filing' BY <1>0, <2>0, <3>1, <3>2 DEF Filing
    <3>6. Apart' BY <1>0, <2>1, <2>7 DEF Apart
    <3>7. ASSUME NEW u \in Notifiers PROVE Closing(u)'
      <4>1. CASE u = t BY <2>7, <4>1 DEF Closing
      <4>2. CASE u # t BY <1>0, <2>0, <2>1, <3>1, <3>2, <4>2 DEF Closing
      <4> QED BY <4>1, <4>2
    <3> QED BY <3>3, <3>4, <3>5, <3>6, <3>7 DEF Sound
  \* the search has found the readable descriptor, or nothing
  <2>8. ASSUME DisposeSearch(t) PROVE Sound'
    <3>1. UNCHANGED <<table, conn>> /\ pc[t].ph = "search" BY <2>8, SearchPlace
    <3>2. \A u \in Notifiers \ {t} : pc[u].ph \notin {"close", "clear", "dclose", "dclear"}
      BY <3>1, Alone
    <3>3. \A i : ~others(i) BY <3>2 DEF others
    <3>4. pc'[t].ph \in {"idle", "dclose"} BY <2>8, SearchPlace
    <3>5. Open' = Open /\ \A i : ~Stale(i) /\ ~Stale(i)' BY <1>3, <2>2, <3>1, <3>3, <3>4
    <3>6. OpenEntries' /\ Distinct' /\ Filing'
      BY <1>0, <2>0, <3>1, <3>5 DEF OpenEntries, Distinct, Filing
    <3>7. Apart' BY <2>1, <3>2 DEF Apart
    <3>8. Closing(t)'
      <4>1. CASE pc'[t].ph = "idle" BY <4>1 DEF Closing
      <4>2. ASSUME NEW i \in Index, pc'[t].at = i, pc'[t].fd = table[i] PROVE Closing(t)'
        BY <1>0, <2>0, <3>1, <3>5, <4>2 DEF OpenEntries, Distinct, Filing, Closing
      <4>3. CASE pc'[t].fd = 0 BY <4>3 DEF Closing
      <4> QED BY <2>8, <4>1, <4>2, <4>3, SearchPlace
    <3>9. ASSUME NEW u \in Notifiers \ {t} PROVE Closing(u)' BY <2>1, <3>2, <3>9 DEF Closing
    <3> QED BY <3>6, <3>7, <3>8, <3>9 DEF Sound
  <2> QED BY <1>9, <2>3, <2>5, <2>6, <2>7, <2>8, NotifierCases
<1> QED BY <1>5, <1>6, <1>7, <1>8, <1>9 DEF Step

\* A step from a state where no two threads meet keeps the table exact until it overflows.
LEMMA ExactStep == ASSUME TypeInv, TypeInv', Sound, Exact, ~Meet, Step, ~full' PROVE Exact'
<1> USE ClientsAssumption
<1>0. /\ TypeOK /\ TypeOK' /\ OpenEntries /\ Distinct /\ Filing /\ Apart
      /\ \A t \in Notifiers : Closing(t) /\ Knows(t)
      /\ AllListed
  BY DEF TypeInv, Sound, Exact
<1>3. Open = {n \in Fds : conn[n] # "none"} /\ Open' = {n \in Fds : conn'[n] # "none"} /\ 0 \notin Fds
  BY DEF Open, Fds
<1>4. ASSUME UNCHANGED <<table, conn, pc, ready>>, acc'.fd = acc.fd, gone \subseteq gone' PROVE Exact'
  <2>1. AllListed' BY <1>0, <1>4 DEF AllListed, Open, Stale
  <2>2. \A t \in Notifiers : Knows(t)' BY <1>0, <1>4 DEF Knows, Alive
  <2> QED BY <2>1, <2>2 DEF Exact
<1>5. ASSUME NEW c \in Clients, Accept(c) PROVE Exact'
  <2>1. PICK n \in Fds \ Open : conn' = [conn EXCEPT ![n] = c] /\ acc' = [fd |-> n, at |-> 1]
    BY <1>5 DEF Accept
  <2>2. UNCHANGED <<table, pc, ready, gone>> /\ acc.fd = 0 BY <1>5 DEF Accept
  <2>3. Open' = Open \cup {n} /\ \A i : Stale(i)' <=> Stale(i)
    BY <1>0, <1>3, <2>1, <2>2 DEF TypeOK, Stale
  <2>4. acc'.fd = n BY <2>1
  <2>5. AllListed'
    <3>1. \A k \in Open : \E i \in Index : table[i] = k /\ ~Stale(i) BY <1>0, <1>3, <2>2 DEF AllListed
    <3> QED BY <2>2, <2>3, <2>4, <3>1 DEF AllListed
  <2>6. \A k \in Open \cup {0} : ~Alive(k) => ~Alive(k)'
    BY <1>0, <1>3, <2>1, <2>2 DEF Alive, TypeOK
  <2>7. ASSUME NEW t \in Notifiers PROVE Knows(t)'
    <3>1. Knows(t) /\ Closing(t) BY <1>0
    <3>2. ASSUME NEW k, k = table[pc[t].at], pc[t].ph = "close" PROVE ~Alive(k)'
      <4>1. ~Stale(pc[t].at) BY <3>2, Alone DEF Stale
      <4>2. k \in Open \cup {0} BY <1>0, <3>1, <3>2, <4>1 DEF OpenEntries, Knows
      <4> QED BY <2>6, <3>1, <3>2, <4>2 DEF Knows
    <3>3. ASSUME NEW k, k = pc[t].fd, pc[t].ph = "dclose" PROVE ~Alive(k)'
      BY <2>6, <3>1, <3>3 DEF Knows, Closing
    <3> QED BY <2>2, <3>1, <3>2, <3>3 DEF Knows
  <2> QED BY <2>5, <2>7 DEF Exact
<1>6. ASSUME NEW c \in Clients, Hangup(c) PROVE Exact' BY <1>4, <1>6 DEF Hangup
<1>7. ASSUME AcceptSkip PROVE Exact'
  <2>1. acc' = [acc EXCEPT !.at = acc.at + 1] /\ acc \in [fd : Fds \cup {0}, at : Index]
    BY <1>0, <1>7 DEF AcceptSkip, TypeOK
  <2>2. acc'.fd = acc.fd BY <2>1
  <2> QED BY <1>4, <1>7, <2>2 DEF AcceptSkip
<1>8. ASSUME AcceptFill PROVE Exact'
  <2>1. /\ UNCHANGED <<conn, pc, ready, gone>> /\ acc.fd # 0 /\ acc' = [fd |-> 0, at |-> 1]
        /\ table' = [table EXCEPT ![acc.at] = acc.fd] /\ table[acc.at] = 0
    BY <1>8 DEF AcceptFill
  <2>2. acc.at \in Index /\ acc.fd \in Open BY <1>0, <2>1 DEF TypeOK, Filing
  <2>3. Open' = Open /\ \A i : Stale(i)' <=> Stale(i) BY <1>3, <2>1 DEF Stale
  <2>4. \A i \in Index : table'[i] = IF i = acc.at THEN acc.fd ELSE table[i]
    BY <1>0, <2>1, <2>2 DEF TypeOK
  <2>5. \A t \in Notifiers : pc[t].ph \in {"close", "clear", "dclose", "dclear"} => pc[t].at # acc.at
    BY <2>1, Alone DEF Fills
  <2>6. ~Stale(acc.at) BY <2>5 DEF Stale
  <2>7. AllListed' BY <1>0, <1>3, <2>2, <2>1, <2>3, <2>4, <2>6 DEF AllListed
  <2>8. ASSUME NEW t \in Notifiers PROVE Knows(t)'
    <3>1. Knows(t) BY <1>0
    <3>2. pc[t].ph \in {"close", "dclose"} => table'[pc[t].at] = table[pc[t].at]
      BY <2>4, <2>5, <3>1 DEF Knows
    <3>3. pc[t].ph = "search" => \E i \in Index : table'[i] # 0 /\ table'[i] \in ready[t]
      BY <2>1, <2>4, <3>1 DEF Knows
    <3> QED BY <2>1, <3>1, <3>2, <3>3 DEF Knows, Alive
  <2> QED BY <2>7, <2>8 DEF Exact
<1>9. ASSUME NEW t \in Notifiers, Notifier(t) PROVE Exact'
  <2>0. UNCHANGED <<acc, gone>> BY <1>9, NotifierCases
  <2>1. \A u \in Notifiers \ {t} : pc'[u] = pc[u] /\ ready'[u] = ready[u] BY <1>9, OthersStay
  <2> DEFINE others(i) == \E u \in Notifiers \ {t} : pc[u].ph \in {"clear", "dclear"} /\ pc[u].at = i
  <2>2. /\ \A i : Stale(i) <=> others(i) \/ (pc[t].ph \in {"clear", "dclear"} /\ pc[t].at = i)
        /\ \A i : Stale(i)' <=> others(i) \/ (pc'[t].ph \in {"clear", "dclear"} /\ pc'[t].at = i)
    BY <2>1, StaleStep
  <2> HIDE DEF others
  <2>3. ASSUME UNCHANGED <<table, conn>>, pc[t].ph \notin {"clear", "dclear"},
               pc'[t].ph \notin {"clear", "dclear"}, Knows(t)'
        PROVE  Exact'
    <3>1. Open' = Open /\ \A i : Stale(i)' <=> Stale(i) BY <1>3, <2>2, <2>3
    <3>2. AllListed' BY <1>0, <2>0, <2>3, <3>1 DEF AllListed
    <3>3. \A u \in Notifiers \ {t} : Knows(u)' BY <1>0, <2>0, <2>1, <2>3 DEF Knows, Alive
    <3> QED BY <2>3, <3>2, <3>3 DEF Exact
  <2>4. ASSUME NEW n, CloseFd(n), UNCHANGED table, n = table[pc[t].at],
               pc[t].ph \in {"close", "dclose"}, pc'[t].ph \in {"clear", "dclear"}, pc'[t].at = pc[t].at
        PROVE  Exact'
    <3>1. \A i : Stale(i)' <=> Stale(i) \/ i = pc[t].at BY <2>2, <2>4
    <3>2. \A k \in Open' : k \in Open /\ k # n BY <1>3, <2>4 DEF CloseFd
    <3>3. AllListed' BY <1>0, <2>0, <2>4, <3>1, <3>2 DEF AllListed
    <3>4. \A k : ~Alive(k) => ~Alive(k)' BY <1>3, <2>0, <2>4 DEF Alive, CloseFd
    <3>5. ASSUME NEW u \in Notifiers PROVE Knows(u)'
      <4>1. CASE u = t BY <1>0, <2>4, <4>1 DEF Knows
      <4>2. CASE u # t
        <5>1. ASSUME NEW k, k = table[pc[u].at], pc[u].ph = "close" PROVE ~Alive(k)'
          BY <1>0, <3>4, <5>1 DEF Knows
        <5>2. ASSUME NEW k, k = pc[u].fd, pc[u].ph = "dclose" PROVE ~Alive(k)'
          BY <1>0, <3>4, <5>2 DEF Knows
        <5> QED BY <1>0, <2>1, <2>4, <4>2, <5>1, <5>2 DEF Knows
      <4> QED BY <4>1, <4>2
    <3> QED BY <3>3, <3>5 DEF Exact
  <2>5. CASE Close(t)
    <3>1. pc[t].ph = "close" /\ pc'[t].ph = "clear" /\ pc'[t].at = pc[t].at
      BY <2>5, PhasePlace DEF Close
    <3> QED BY <2>4, <2>5, <3>1 DEF Close
  <2>6. CASE DisposeClose(t)
    <3>1. pc[t].ph = "dclose" /\ pc'[t].ph = "dclear" /\ pc'[t].at = pc[t].at
      BY <2>6, PhasePlace DEF DisposeClose
    <3>2. pc[t].fd = table[pc[t].at] BY <1>0, <3>1 DEF Knows
    <3> QED BY <2>4, <2>6, <3>1, <3>2 DEF DisposeClose
  <2>7. CASE Clear(t) \/ DisposeClear(t)
    <3>0. pc[t].ph \in {"clear", "dclear"} BY <2>7 DEF Clear, DisposeClear
    <3>1. /\ UNCHANGED conn /\ pc'[t].ph \in {"look", "dispose"} /\ pc'[t].at \in Index
          /\ table' = [i \in Index |-> IF i = pc[t].at THEN 0 ELSE table[i]]
      <4>1. pc[t].at \in Index BY <1>0 DEF Knows
      <4> QED BY <1>9, <3>0, <4>1, NotifierCases DEF DisposeSearch
    <3>2. \A i \in Index : table'[i] = IF i = pc[t].at THEN 0 ELSE table[i] BY <3>1
    <3>3. Open' = Open /\ \A i : i # pc[t].at => (Stale(i)' <=> Stale(i)) BY <1>3, <2>2, <3>0, <3>1
    <3>4. Stale(pc[t].at) BY <2>2, <3>0
    <3>5. AllListed' BY <1>0, <2>0, <3>2, <3>3, <3>4 DEF AllListed
    <3>6. ASSUME NEW u \in Notifiers PROVE Knows(u)'
      <4>1. CASE u = t BY <3>1, <4>1 DEF Knows
      <4>2. CASE u # t
        <5>1. pc[u].ph # "search" /\ (pc[u].ph \in {"close", "dclose"} => pc[u].at # pc[t].at)
          BY <3>0, <4>2, Alone
        <5>2. Knows(u) BY <1>0
        <5>3. pc[u].ph \in {"close", "dclose"} => table'[pc[u].at] = table[pc[u].at]
          BY <3>2, <5>1, <5>2 DEF Knows
        <5> QED BY <2>0, <2>1, <3>1, <4>2, <5>1, <5>2, <5>3 DEF Knows, Alive
      <4> QED BY <4>1, <4>2
    <3> QED BY <3>5, <3>6 DEF Exact
  <2>8. CASE DisposeSearch(t)
    <3>1. UNCHANGED <<table, conn>> /\ pc[t].ph = "search" BY <2>8, SearchPlace
    <3>2. PICK j \in Index : table[j] # 0 /\ table[j] \in ready[t] BY <1>0, <3>1 DEF Knows
    <3>3. FALSE \notin IsSet(t, j) BY <3>2 DEF IsSet
    <3>4. \/ pc'[t].ph = "idle" /\ pc'[t].at = 1
          \/ \E i \in Index : /\ pc'[t].ph = "dclose" /\ pc'[t].at = i /\ pc'[t].fd = table[i]
                             /\ ~Alive(table[i])
      BY <2>8, <3>3, SearchPlace
    <3>5. Knows(t)'
      <4>1. CASE pc'[t].ph = "idle" /\ pc'[t].at = 1 BY <4>1 DEF Knows, Index
      <4>2. ASSUME NEW i \in Index, pc'[t].ph = "dclose", pc'[t].at = i, pc'[t].fd = table[i], ~Alive(table[i])
            PROVE  Knows(t)'
        BY <2>0, <3>1, <4>2 DEF Knows, Alive
      <4> QED BY <3>4, <4>1, <4>2
    <3> QED BY <2>3, <3>1, <3>4, <3>5
  <2>9. CASE NotifyBegin(t)
    <3>1. pc'[t] = [ph |-> "look", at |-> 1, fd |-> 0, tries |-> 3] BY <1>0, <2>9 DEF NotifyBegin, TypeOK
    <3>2. Knows(t)' BY <3>1 DEF Knows, Index
    <3> QED BY <2>3, <2>9, <3>1, <3>2 DEF NotifyBegin
  <2>10. CASE Look(t)
    <3>0. pc[t].at \in Index BY <1>0 DEF Knows
    <3>1. pc'[t].ph \in {"write", "look", "dispose"} /\ pc'[t].at \in Index
      BY <2>10, <3>0, PhasePlace, AdvancePlace DEF Look
    <3>2. Knows(t)' BY <3>1 DEF Knows
    <3> QED BY <2>3, <2>10, <3>1, <3>2 DEF Look
  <2>11. CASE Write(t)
    <3>0. pc[t].at \in Index BY <1>0 DEF Knows
    <3>1. CASE Advance(t)
      <4>1. pc'[t].ph \in {"look", "dispose"} /\ pc'[t].at \in Index BY <3>0, <3>1, AdvancePlace
      <4>2. Knows(t)' BY <4>1 DEF Knows
      <4> QED BY <2>3, <2>11, <4>1, <4>2 DEF Write
    <3>2. CASE ~Alive(table[pc[t].at]) /\ pc' = [pc EXCEPT ![t].ph = "close"]
      <4>1. pc'[t].ph = "close" /\ pc'[t].at = pc[t].at BY <3>2, PhasePlace
      <4>2. Knows(t)' BY <2>11, <3>0, <3>2, <4>1 DEF Knows, Alive, Write
      <4> QED BY <2>3, <2>11, <4>1, <4>2 DEF Write
    <3> QED BY <2>11, <3>1, <3>2 DEF Write
  <2>12. CASE DisposeEnd(t)
    <3>1. pc'[t].ph = "idle" /\ pc'[t].at = 1 BY <1>0, <2>12 DEF DisposeEnd, AtIdle, TypeOK
    <3>2. Knows(t)' BY <3>1 DEF Knows, Index
    <3> QED BY <2>3, <2>12, <3>1, <3>2 DEF DisposeEnd
  <2>13. CASE DisposeSelect(t)
    <3>1. pc'[t].ph = "search" /\ pc'[t].at = pc[t].at BY <2>13, PhasePlace DEF DisposeSelect
    <3>2. ready'[t] \subseteq Listed /\ ready'[t] # {} BY <1>0, <2>13 DEF DisposeSelect, TypeOK
    <3>3. \E i \in Index : table[i] # 0 /\ table[i] \in ready'[t] BY <3>2 DEF Listed
    <3>4. Knows(t)' BY <1>0, <2>13, <3>1, <3>3 DEF Knows, DisposeSelect
    <3> QED BY <2>3, <2>13, <3>1, <3>4 DEF DisposeSelect
  <2> QED BY <1>9, <2>5, <2>6, <2>7, <2>8, <2>9, <2>10, <2>11, <2>12, <2>13 DEF Notifier
<1>10. ~AcceptOverwrite BY DEF AcceptOverwrite
<1> QED BY <1>5, <1>6, <1>7, <1>8, <1>9, <1>10 DEF Step

\* full and clash, once set, stay.
LEMMA Histories == ASSUME Next PROVE (full => full') /\ (clash' <=> clash \/ Meet')
<1>1. full => full'
  BY DEF Next, Step, Accept, Hangup, AcceptSkip, AcceptFill, AcceptOverwrite, Notifier, NotifyBegin, Look,
         Write, Close, Clear, DisposeEnd, DisposeSelect, DisposeSearch, Found, DisposeClose, DisposeClear
<1>2. clash' <=> clash \/ Meet' BY Zenon DEF Next, Record
<1> QED BY <1>1, <1>2

LEMMA TableStep == ASSUME TableInv, [Next]_vars PROVE TableInv'
<1>0. TypeInv BY DEF TableInv
<1>1. TypeInv' BY <1>0, TypeStep
<1>2. CASE Next
  <2>1. (full => full') /\ (clash' <=> clash \/ Meet') BY <1>2, Histories
  <2>2. ~clash' => Sound' BY <1>0, <1>1, <1>2, <2>1, SoundStep DEF TableInv, Next
  <2>3. ~clash' /\ ~full' => Exact' BY <1>0, <1>1, <1>2, <2>1, ExactStep DEF TableInv, Next
  <2> QED BY <1>1, <2>1, <2>2, <2>3 DEF TableInv
<1>3. CASE UNCHANGED vars
  <2>1. (Meet' <=> Meet) /\ (Sound' <=> Sound) /\ (Exact' <=> Exact) /\ UNCHANGED <<clash, full>>
    BY <1>3 DEF vars, Meet, Removes, Uses, Fills, Sound, OpenEntries, Distinct, Filing, Apart, Closing, Open, Stale,
                Exact, AllListed, Knows, Alive
  <2> QED BY <1>1, <2>1 DEF TableInv
<1> QED BY <1>2, <1>3

LEMMA TableAlways == Spec => []TableInv
<1>1. Init => TableInv
  <2> SUFFICES ASSUME Init PROVE TableInv OBVIOUS
  <2>1. TypeInv BY InitTypes
  <2>2. \A t \in Notifiers : pc[t].ph = "idle" /\ pc[t].at = 1 /\ pc[t].fd = 0 BY DEF Init, AtIdle
  <2>3. ~Meet BY <2>2 DEF Meet, Removes
  <2>4. Sound BY <2>2 DEF Init, Sound, OpenEntries, Distinct, Filing, Apart, Closing
  <2>5. Exact BY <2>2, ClientsAssumption DEF Init, Exact, AllListed, Open, Knows, Index
  <2> QED BY <2>1, <2>3, <2>4, <2>5 DEF TableInv
<1>2. TableInv /\ [Next]_vars => TableInv' BY TableStep
<1> QED BY <1>1, <1>2, PTL DEF Spec

\* However many threads bring news and whatever FD_ISSET(-1) reads, client_fd keeps no
\* closed descriptor as long as no two threads have met at an entry, overflowed or not.
THEOREM NoDanglingEntry == Spec => []NoDangling
<1>1. TableInv => NoDangling BY DEF TableInv, Sound, OpenEntries, NoDangling
<1> QED BY <1>1, TableAlways, PTL

\* Nor does a connection lose its entry, until a client too many comes.
THEOREM TableIsExact == Spec => []OpenListed
<1>1. TableInv => OpenListed BY DEF TableInv, Exact, AllListed, OpenListed
<1> QED BY <1>1, TableAlways, PTL

\* The store of detect_clients_dispose_state is in client_fd unless two threads have met or
\* the table has overflowed.
THEOREM StoreInBounds == Spec => []StoresInTable
<1>1. TableInv => StoresInTable BY DEF TableInv, Exact, Knows, StoresInTable
<1> QED BY <1>1, TableAlways, PTL

\* Only a client that has hung up is hung up on, unless two threads have met or the table
\* has overflowed.
THEOREM NoLiveClientClosed == Spec => OnlyDeadClosed
<1> DEFINE A == full \/ clash \/ \A n \in Open : conn'[n] = "none" => conn[n] \in gone
<1>1. ASSUME TableInv, Next, ~full, ~clash, NEW n \in Open, conn'[n] = "none" PROVE conn[n] \in gone
  <2>0. TypeInv /\ Exact /\ TypeOK /\ n \in Fds /\ conn[n] # "none" BY <1>1 DEF TableInv, TypeInv, Open
  <2>1. CASE UNCHANGED conn BY <1>1, <2>0, <2>1
  <2>2. ASSUME NEW c \in Clients, Accept(c) PROVE FALSE
    BY <1>1, <2>0, <2>2, ClientsAssumption DEF Accept, TypeOK
  <2>3. ASSUME NEW m, CloseFd(m), ~Alive(m) PROVE conn[n] \in gone
    BY <1>1, <2>0, <2>3 DEF CloseFd, Alive
  <2>4. ASSUME NEW t \in Notifiers, Close(t) PROVE conn[n] \in gone
    BY <2>0, <2>3, <2>4 DEF Close, Exact, Knows
  <2>5. ASSUME NEW t \in Notifiers, DisposeClose(t) PROVE conn[n] \in gone
    BY <2>0, <2>3, <2>5 DEF DisposeClose, Exact, Knows
  <2>6. \/ UNCHANGED conn \/ \E c \in Clients : Accept(c)
        \/ \E t \in Notifiers : Close(t) \/ DisposeClose(t)
    BY <1>1 DEF Next, Step, Hangup, AcceptSkip, AcceptFill, AcceptOverwrite, Notifier, NotifyBegin, Look,
         Write, Clear, DisposeEnd, DisposeSelect, DisposeSearch, Found, DisposeClear
  <2> QED BY <2>1, <2>2, <2>4, <2>5, <2>6
<1>2. TableInv /\ [Next]_vars => [A]_vars BY <1>1
<1> QED BY <1>2, TableAlways, PTL DEF Spec, OnlyDeadClosed

=============================================================================
