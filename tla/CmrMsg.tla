------------------------------- MODULE CmrMsg -------------------------------
(***************************************************************************)
(* The message threads of the camera HAL (cmr_msg.c): a ring of slots      *)
(* behind a mutex, a semaphore that counts the messages, and in each slot  *)
(* a semaphore on which the sender of a synchronous message waits.  The    *)
(* slot's flag is read by its sender after the mutex is released.          *)
(***************************************************************************)
EXTENDS Integers, FiniteSets, Sequences

CONSTANTS
  Count,     \* msg_count, the length of the ring
  Senders,   \* threads that send
  Owner,     \* the one that creates and destroys the thread
  MaxPosts   \* bound: messages sent between the two

\* The queues of the camera have 5 to 80 slots; with one slot nothing can be sent.
ASSUME CmrAssumption ==
  Count \in Nat /\ Count >= 2 /\ IsFiniteSet(Senders) /\ Owner \in Senders /\ MaxPosts \in Nat

VARIABLES
  slot,      \* msg_head: message and sync_f of each slot
  sem,       \* the slots' semaphores
  rd, wr,    \* msg_read and msg_write
  number,    \* msg_number
  msgSem,    \* msg_sem
  pc,        \* each sender's place in cmr_msg_post
  rx,        \* cmr_common_routine's place, its message and cmr_priv
  life,      \* what the owner has done: "new", "init", "run", "exit", "freed"
  last,      \* the number of messages accepted; a message is known by its number
  seen,      \* history: messages received
  done,      \* history: messages processed
  lapped     \* history: a slot was filled while its last sender was in cmr_msg_post

queue == <<slot, sem, rd, wr, number, msgSem>>
vars == <<slot, sem, rd, wr, number, msgSem, pc, rx, life, last, seen, done, lapped>>

Ring == 0..(Count - 1)
Flags == {"NONE", "RECEIVED", "PROCESSED"}
Kinds == {"INIT", "USER", "EXIT"}
NoMsg == [id |-> 0, kind |-> "USER", sync |-> "NONE"]

\* Variant: the end of the ring is one too far.
After_Past(i) == IF i + 1 > Count THEN 0 ELSE i + 1

After(i) == IF i + 1 > Count - 1 THEN 0 ELSE i + 1

\* cmr_msg_queue_create, and the routine about to run.
Init ==
  /\ slot = [i \in Ring |-> [msg |-> NoMsg, sync |-> "NONE"]]
  /\ sem = [i \in Ring |-> 0]
  /\ rd = 0 /\ wr = 0 /\ number = 0 /\ msgSem = 0
  /\ pc = [p \in Senders |-> [ph |-> "idle", msg |-> NoMsg, ori |-> 0, cur |-> 0]]
  /\ rx = [ph |-> "get", msg |-> NoMsg, cur |-> 0]
  /\ life = "new"
  /\ last = 0 /\ seen = {} /\ done = {} /\ lapped = FALSE

-----------------------------------------------------------------------------
(* cmr_msg_post                                                            *)

\* ori_node is read before the mutex is taken.
PostBegin(p, k, s) ==
  /\ pc[p].ph = "idle"
  /\ pc' = [pc EXCEPT ![p] = [ph |-> "lock", ori |-> wr, cur |-> 0,
                              msg |-> [id |-> 0, kind |-> k, sync |-> s]]]
  /\ UNCHANGED <<queue, rx, last, seen, done, lapped>>

\* Variant: the last slot is used as well.
Full_Late == number >= Count

Full == number + 1 >= Count

\* Variant: a refused message is counted.
PostOverflow_Signals(p) ==
  /\ pc[p].ph = "lock" /\ Full
  /\ pc' = [pc EXCEPT ![p].ph = "signal"]
  /\ UNCHANGED <<queue, rx, life, last, seen, done, lapped>>

PostOverflow(p) ==
  /\ pc[p].ph = "lock" /\ Full
  /\ pc' = [pc EXCEPT ![p].ph = "idle"]
  /\ UNCHANGED <<queue, rx, life, last, seen, done, lapped>>

\* Variant: the slot is the one read before the mutex was taken.
PostLocked_Ori(p) ==
  /\ pc[p].ph = "lock" /\ ~Full
  /\ LET m == [pc[p].msg EXCEPT !.id = last + 1] IN
     /\ slot' = [slot EXCEPT ![pc[p].ori] = [msg |-> m, sync |-> m.sync]]
     /\ pc' = [pc EXCEPT ![p] = [@ EXCEPT !.ph = "signal", !.msg = m, !.cur = pc[p].ori]]
  /\ wr' = After(pc[p].ori)
  /\ number' = number + 1
  /\ last' = last + 1
  /\ UNCHANGED <<sem, rd, msgSem, rx, life, seen, done, lapped>>

PostLocked(p) ==
  /\ pc[p].ph = "lock" /\ ~Full
  /\ LET m == [pc[p].msg EXCEPT !.id = last + 1] IN
     /\ slot' = [slot EXCEPT ![wr] = [msg |-> m, sync |-> m.sync]]
     /\ pc' = [pc EXCEPT ![p] = [@ EXCEPT !.ph = "signal", !.msg = m, !.cur = wr]]
  /\ wr' = IF After(wr) = rd THEN pc[p].ori ELSE After(wr)
  /\ number' = number + 1
  /\ last' = last + 1
  /\ lapped' = (lapped \/ \E k \in Senders : pc[k].cur = wr /\ pc[k].ph \in {"signal", "check", "wait"})
  /\ UNCHANGED <<sem, rd, msgSem, rx, life, seen, done>>

PostSignal(p) ==
  /\ pc[p].ph = "signal"
  /\ msgSem' = msgSem + 1
  /\ pc' = [pc EXCEPT ![p].ph = "check"]
  /\ UNCHANGED <<slot, sem, rd, wr, number, rx, life, last, seen, done, lapped>>

\* The flag is the slot's, not the message's.
PostCheck(p) ==
  /\ pc[p].ph = "check"
  /\ pc' = [pc EXCEPT ![p].ph = IF slot[pc[p].cur].sync = "NONE" THEN "idle" ELSE "wait"]
  /\ UNCHANGED <<queue, rx, life, last, seen, done, lapped>>

PostWait(p) ==
  /\ pc[p].ph = "wait" /\ sem[pc[p].cur] > 0
  /\ sem' = [sem EXCEPT ![pc[p].cur] = @ - 1]
  /\ pc' = [pc EXCEPT ![p].ph = "idle"]
  /\ UNCHANGED <<slot, rd, wr, number, msgSem, rx, life, last, seen, done, lapped>>

-----------------------------------------------------------------------------
(* cmr_msg_get and cmr_common_routine                                      *)

GetWait ==
  /\ rx.ph = "get" /\ msgSem > 0 /\ life # "freed"
  /\ msgSem' = msgSem - 1
  /\ rx' = [rx EXCEPT !.ph = "take"]
  /\ UNCHANGED <<slot, sem, rd, wr, number, pc, life, last, seen, done, lapped>>

\* An underflow ends the routine; an empty ring with messages counted leaves the last message
\* where it was, to be worked on again.
GetNothing == IF number = 0 THEN rx' = [rx EXCEPT !.ph = "exit"] ELSE rx' = [rx EXCEPT !.ph = "run"]

GetTake ==
  /\ rx.ph = "take" /\ life # "freed"
  /\ IF number = 0 \/ rd = wr
       THEN GetNothing /\ UNCHANGED <<slot, rd, number, seen>>
       ELSE /\ rx' = [ph |-> "recv", msg |-> slot[rd].msg, cur |-> rd]
            /\ slot' = [slot EXCEPT ![rd].msg = NoMsg]
            /\ rd' = After(rd)
            /\ number' = number - 1
            /\ seen' = seen \cup {slot[rd].msg.id}
  /\ UNCHANGED <<sem, wr, msgSem, pc, life, last, done, lapped>>

\* Variant: any synchronous sender is woken when its message is received.
Release_Any(f) == sem' = IF slot[rx.cur].sync # "NONE" /\ f = "RECEIVED" THEN [sem EXCEPT ![rx.cur] = @ + 1] ELSE sem

\* sem_post of the slot when its flag is f.
Release(f) == sem' = IF slot[rx.cur].sync = f THEN [sem EXCEPT ![rx.cur] = @ + 1] ELSE sem

GetReceived ==
  /\ rx.ph = "recv" /\ life # "freed"
  /\ Release("RECEIVED")
  /\ rx' = [rx EXCEPT !.ph = "run"]
  /\ UNCHANGED <<slot, rd, wr, number, msgSem, pc, life, last, seen, done, lapped>>

\* The callback, or nothing for the two messages of the thread itself.
Process ==
  /\ rx.ph = "run"
  /\ rx' = [rx EXCEPT !.ph = "done"]
  /\ done' = done \cup {rx.msg.id}
  /\ UNCHANGED <<queue, pc, life, last, seen, lapped>>

\* Variant: the routine ends before it wakes the sender of the last message.
Processed_ExitFirst ==
  /\ rx.ph = "done" /\ life # "freed"
  /\ IF rx.msg.kind = "EXIT" THEN UNCHANGED sem ELSE Release("PROCESSED")
  /\ rx' = [rx EXCEPT !.ph = IF rx.msg.kind = "EXIT" THEN "exit" ELSE "get"]
  /\ UNCHANGED <<slot, rd, wr, number, msgSem, pc, life, last, seen, done, lapped>>

Processed ==
  /\ rx.ph = "done" /\ life # "freed"
  /\ Release("PROCESSED")
  /\ rx' = [rx EXCEPT !.ph = IF rx.msg.kind = "EXIT" THEN "exit" ELSE "get"]
  /\ UNCHANGED <<slot, rd, wr, number, msgSem, pc, life, last, seen, done, lapped>>

-----------------------------------------------------------------------------
(* cmr_thread_create, cmr_thread_msg_send, cmr_thread_destroy              *)

Create ==
  /\ life = "new"
  /\ life' = "init"
  /\ PostBegin(Owner, "INIT", "PROCESSED")

\* The handle is given out once the first message has come back.
Created ==
  /\ life = "init" /\ pc[Owner].ph = "idle"
  /\ life' = "run"
  /\ UNCHANGED <<queue, pc, rx, last, seen, done, lapped>>

Send(p, s) ==
  /\ life = "run" /\ last <= MaxPosts
  /\ PostBegin(p, "USER", s)
  /\ UNCHANGED life

\* Variant: nobody waits for the last message.
Destroy_Async ==
  /\ life = "run" /\ \A p \in Senders : pc[p].ph = "idle"
  /\ life' = "exit"
  /\ PostBegin(Owner, "EXIT", "NONE")

\* The camera's modules destroy a thread when nobody sends to it any more.
Destroy ==
  /\ life = "run" /\ \A p \in Senders : pc[p].ph = "idle"
  /\ life' = "exit"
  /\ PostBegin(Owner, "EXIT", "PROCESSED")

\* Whatever the last message's fate, the queue is freed.
Destroyed ==
  /\ life = "exit" /\ pc[Owner].ph = "idle"
  /\ life' = "freed"
  /\ UNCHANGED <<queue, pc, rx, last, seen, done, lapped>>

Post(p) == PostOverflow(p) \/ PostLocked(p) \/ PostSignal(p) \/ PostCheck(p) \/ PostWait(p)
Routine == GetWait \/ GetTake \/ GetReceived \/ Process \/ Processed

Next ==
  \/ \E p \in Senders : Post(p) \/ \E s \in Flags : Send(p, s)
  \/ Routine
  \/ Create \/ Created \/ Destroy \/ Destroyed

Spec == Init /\ [][Next]_vars

FairSpec == Spec /\ WF_vars(Routine) /\ \A p \in Senders : WF_vars(Post(p))

-----------------------------------------------------------------------------
(* Properties                                                              *)

Msgs == [id : Nat, kind : Kinds, sync : Flags]

\* The pointers stay in the ring, and a message is counted only while a slot stays free.
TypeOK ==
  /\ slot \in [Ring -> [msg : Msgs, sync : Flags]]
  /\ sem \in [Ring -> Nat]
  /\ rd \in Ring /\ wr \in Ring /\ number \in Ring /\ msgSem \in Nat
  /\ pc \in [Senders -> [ph : {"idle", "lock", "signal", "check", "wait"}, msg : Msgs,
                         ori : Ring, cur : Ring]]
  /\ rx \in [ph : {"get", "take", "recv", "run", "done", "exit"}, msg : Msgs, cur : Ring]
  /\ life \in {"new", "init", "run", "exit", "freed"}
  /\ last \in Nat /\ seen \subseteq Nat /\ done \subseteq Nat /\ lapped \in BOOLEAN

Bare(m) == [id |-> m.id, kind |-> m.kind]
Place(k) == IF rd + k < Count THEN rd + k ELSE rd + k - Count
Waiting == [i \in 1..number |-> Bare(slot[Place(i - 1)].msg)]
Working == rx.ph \in {"recv", "run", "done"}

Q == INSTANCE CmrQueue WITH
       Cap <- Count - 1, q <- Waiting, busy <- IF Working THEN <<Bare(rx.msg)>> ELSE <<>>, last <- last

\* The ring is a bounded queue: the write pointer never meets the read pointer on a message,
\* so ori_node, read without the mutex, is never put back, and no message is lost or comes twice.
ImplementsQueue == Q!Spec

\* msg_sem, the senders that have filed a message and not counted it, and the token of
\* cmr_msg_get stand for the messages in the ring: no underflow (cmr_msg.c:126).
TokensMatch ==
  number = msgSem + Cardinality({p \in Senders : pc[p].ph = "signal"})
             + (IF rx.ph = "take" THEN 1 ELSE 0)

\* While a message is worked on, its slot is not filled again: the flag the routine
\* looks at is the message's own.
SlotKept == Working => slot[rx.cur].sync = rx.msg.sync

\* A synchronous send returns when its message has been received, or processed
\* (cmr_msg.h, sync_flag), as long as no slot was filled while its last sender was still
\* in cmr_msg_post.
SyncHolds ==
  ~lapped => \A p \in Senders :
    LET m == pc[p].msg IN
    pc[p].ph = "idle" /\ m.id # 0 =>
      /\ m.sync = "RECEIVED" => m.id \in seen
      /\ m.sync = "PROCESSED" => m.id \in done

\* The queue is freed when the routine has ended and has worked on every message, unless the
\* last message was refused by a full ring.
FreedAfterExit ==
  life = "freed" /\ ~lapped /\ pc[Owner].msg.id # 0 => rx.ph = "exit" /\ done = 1..last

\* A synchronous sender is woken.
SyncReturns ==
  \A p \in Senders : pc[p].ph = "wait" ~> (pc[p].ph # "wait" \/ lapped)

=============================================================================
