---------------------------- MODULE ModemClients ----------------------------
(***************************************************************************)
(* The table client_fd of modemd's clients (rild, slogmodem, wcnd, ...).   *)
(* modemd_listenaccept_thread fills it, the threads that detect trouble    *)
(* write the news to every entry and remove the entries that fail, and     *)
(* detect_clients_dispose_state reads an answer.  Nobody takes a lock, and *)
(* a descriptor number that is closed is the next one to be given out.     *)
(***************************************************************************)
EXTENDS Naturals, FiniteSets

CONSTANTS
  Slots,       \* MAX_CLIENT_NUM
  MaxFd,       \* descriptor numbers there are
  Clients,     \* connections; each connects once
  MaxOpen,     \* connections open at a time
  Notifiers,   \* threads that call loop_info_sockclients
  NegIsSet     \* what FD_ISSET(-1, &rfds) may read: it is undefined

ASSUME ClientsAssumption ==
  /\ Slots \in Nat \ {0} /\ MaxFd \in Nat /\ MaxOpen \in Nat
  /\ "none" \notin Clients
  /\ NegIsSet \subseteq BOOLEAN /\ NegIsSet # {}

VARIABLES
  table,    \* client_fd; 0 stands for -1
  conn,     \* the connection behind each descriptor, or "none"
  fresh,    \* clients that have not connected yet
  gone,     \* clients that have closed their end
  acc,      \* modemd_listenaccept_thread: the descriptor to file, and where it is
  pc,       \* each notifier's place: phase, slot, descriptor read, attempts left
  ready,    \* each notifier's rfds, after select
  full,     \* history: an entry has been overwritten
  heard,    \* history: the clients its loop has written to
  due,      \* history: entry and client that were there when the loop began, and still are
  dead,     \* history: entries that were dead when the loop began, and still are
  clash     \* history: two threads have met at one entry

vars == <<table, conn, fresh, gone, acc, pc, ready, full, heard, due, dead, clash>>

Index == 1..Slots
Fds == 1..MaxFd
Phases == {"idle", "look", "write", "close", "clear", "dispose", "search", "dclose", "dclear"}

AtIdle == [ph |-> "idle", at |-> 1, fd |-> 0, tries |-> 0]

Open == {n \in Fds : conn[n] # "none"}
Alive(n) == n \in Fds /\ conn[n] # "none" /\ conn[n] \notin gone

Init ==
  /\ table = [i \in Index |-> 0]
  /\ conn = [n \in Fds |-> "none"]
  /\ fresh = Clients
  /\ gone = {}
  /\ acc = [fd |-> 0, at |-> 1]
  /\ pc = [t \in Notifiers |-> AtIdle]
  /\ ready = [t \in Notifiers |-> {}]
  /\ full = FALSE
  /\ heard = [t \in Notifiers |-> {}]
  /\ due = [t \in Notifiers |-> {}]
  /\ dead = [t \in Notifiers |-> {}]
  /\ clash = FALSE

-----------------------------------------------------------------------------
(* modemd_listenaccept_thread                                              *)

\* accept: the lowest free number.
Accept(c) ==
  /\ acc.fd = 0 /\ c \in fresh /\ Cardinality(Open) < MaxOpen
  /\ \E n \in Fds \ Open :
       /\ \A k \in Fds \ Open : n <= k
       /\ conn' = [conn EXCEPT ![n] = c]
       /\ acc' = [fd |-> n, at |-> 1]
  /\ fresh' = fresh \ {c}
  /\ UNCHANGED <<table, gone, pc, ready, full, heard>>

AcceptSkip ==
  /\ acc.fd # 0 /\ table[acc.at] # 0 /\ acc.at < Slots
  /\ acc' = [acc EXCEPT !.at = @ + 1]
  /\ UNCHANGED <<table, conn, fresh, gone, pc, ready, full, heard>>

AcceptFill ==
  /\ acc.fd # 0 /\ table[acc.at] = 0
  /\ table' = [table EXCEPT ![acc.at] = acc.fd]
  /\ acc' = [fd |-> 0, at |-> 1]
  /\ UNCHANGED <<conn, fresh, gone, pc, ready, full, heard>>

\* The table is full: the last entry is overwritten.
AcceptOverwrite ==
  /\ acc.fd # 0 /\ table[acc.at] # 0 /\ acc.at = Slots
  /\ table' = [table EXCEPT ![acc.at] = acc.fd]
  /\ acc' = [fd |-> 0, at |-> 1]
  /\ full' = TRUE
  /\ UNCHANGED <<conn, fresh, gone, pc, ready, heard>>

Hangup(c) ==
  /\ c \in {conn[n] : n \in Open} \ gone
  /\ gone' = gone \cup {c}
  /\ UNCHANGED <<table, conn, fresh, acc, pc, ready, full, heard>>

-----------------------------------------------------------------------------
(* loop_info_sockclients; client_fd[i] is read anew for each use           *)

NotifyBegin(t) ==
  /\ pc[t].ph = "idle"
  /\ pc' = [pc EXCEPT ![t] = [ph |-> "look", at |-> 1, fd |-> 0, tries |-> 3]]
  /\ heard' = [heard EXCEPT ![t] = {}]
  /\ UNCHANGED <<table, conn, fresh, gone, acc, ready, full>>

\* To the next slot, or out of the loop.
Advance(t) ==
  pc' = [pc EXCEPT ![t] = [@ EXCEPT !.ph = IF pc[t].at = Slots THEN "dispose" ELSE "look",
                                    !.at = IF pc[t].at = Slots THEN 1 ELSE pc[t].at + 1]]

Look(t) ==
  /\ pc[t].ph = "look"
  /\ IF table[pc[t].at] # 0 THEN pc' = [pc EXCEPT ![t].ph = "write"] ELSE Advance(t)
  /\ UNCHANGED <<table, conn, fresh, gone, acc, ready, full, heard>>

Write(t) ==
  /\ pc[t].ph = "write"
  /\ LET n == table[pc[t].at] IN
     \/ Alive(n) /\ heard' = [heard EXCEPT ![t] = @ \cup {conn[n]}] /\ Advance(t)
     \/ ~Alive(n) /\ pc' = [pc EXCEPT ![t].ph = "close"] /\ UNCHANGED heard
  /\ UNCHANGED <<table, conn, fresh, gone, acc, ready, full>>

\* close of a descriptor that is not open changes nothing.
CloseFd(n) == conn' = [k \in Fds |-> IF k = n THEN "none" ELSE conn[k]]

\* Variant: the write's failure clears the entry and leaves the descriptor open.
Close_Leak(t) ==
  /\ pc[t].ph = "close"
  /\ pc' = [pc EXCEPT ![t].ph = "clear"]
  /\ UNCHANGED <<table, conn, fresh, gone, acc, ready, full, heard>>

Close(t) ==
  /\ pc[t].ph = "close"
  /\ CloseFd(table[pc[t].at])
  /\ pc' = [pc EXCEPT ![t].ph = "clear"]
  /\ UNCHANGED <<table, fresh, gone, acc, ready, full, heard>>

\* Variant: the loop stops at the first client that fails.
Clear_Stop(t) ==
  /\ pc[t].ph = "clear"
  /\ table' = [table EXCEPT ![pc[t].at] = 0]
  /\ pc' = [pc EXCEPT ![t].ph = "dispose"]
  /\ UNCHANGED <<conn, fresh, gone, acc, ready, full, heard>>

\* Variant: the entry of a closed descriptor is left.
Clear_Keep(t) ==
  /\ pc[t].ph = "clear"
  /\ Advance(t)
  /\ UNCHANGED <<table, conn, fresh, gone, acc, ready, full, heard>>

Clear(t) ==
  /\ pc[t].ph = "clear"
  /\ table' = [table EXCEPT ![pc[t].at] = 0]
  /\ Advance(t)
  /\ UNCHANGED <<conn, fresh, gone, acc, ready, full, heard>>

-----------------------------------------------------------------------------
(* detect_clients_dispose_state                                            *)

Listed == {table[i] : i \in Index} \ {0}

\* A timeout, nobody to ask, no attempt left, or a caller that does not ask: only the news
\* of an assert or a hang is followed by this function.
DisposeEnd(t) ==
  /\ pc[t].ph = "dispose"
  /\ pc' = [pc EXCEPT ![t] = AtIdle]
  /\ UNCHANGED <<table, conn, fresh, gone, acc, ready, full, heard>>

\* Variant: the attempts are not counted.
DisposeSelect_Again(t) ==
  /\ pc[t].ph = "dispose" /\ Listed \subseteq Open
  /\ \E answers \in SUBSET {n \in Listed : Alive(n)} :
       ready' = [ready EXCEPT ![t] = answers \cup {n \in Listed : ~Alive(n)}]
  /\ ready'[t] # {}
  /\ pc' = [pc EXCEPT ![t].ph = "search"]
  /\ UNCHANGED <<table, conn, fresh, gone, acc, full, heard>>

\* A select that fails, on a descriptor that is closed, only uses up an attempt.
\* rfds is filled and select returns: the ends of connections are readable, and so is what a client has answered.
DisposeSelect(t) ==
  /\ pc[t].ph = "dispose" /\ pc[t].tries > 0 /\ Listed \subseteq Open
  /\ \E answers \in SUBSET {n \in Listed : Alive(n)} :
       ready' = [ready EXCEPT ![t] = answers \cup {n \in Listed : ~Alive(n)}]
  /\ ready'[t] # {}
  /\ pc' = [pc EXCEPT ![t].ph = "search"]
  /\ UNCHANGED <<table, conn, fresh, gone, acc, full, heard>>

\* FD_ISSET of slot i; of an empty slot it reads a bit in front of the set.
IsSet(t, i) == IF table[i] = 0 THEN NegIsSet ELSE {table[i] \in ready[t]}

\* Variant: a client is hung up on for an answer as well as for its end.
Found_Any(t, i, n) ==
  /\ pc' = [pc EXCEPT ![t] = [ph |-> "dclose", at |-> i, fd |-> n, tries |-> @.tries - 1]]
  /\ ready' = [ready EXCEPT ![t] = {}]
  /\ UNCHANGED <<table, conn, fresh, gone, acc, full, heard>>

\* The search of the table for the readable descriptor has ended in slot i, or behind the
\* last one, and what it found is read: an answer ends the wait.
Found(t, i, n) ==
  /\ pc' = [pc EXCEPT ![t] =
       IF Alive(n) THEN AtIdle
                   ELSE [ph |-> "dclose", at |-> i, fd |-> n, tries |-> @.tries - 1]]
  /\ ready' = [ready EXCEPT ![t] = {}]
  /\ UNCHANGED <<table, conn, fresh, gone, acc, full, heard>>

\* Variant: the search begins at the second slot.
DisposeSearch_Second(t) ==
  /\ pc[t].ph = "search"
  /\ \/ \E i \in Index \ {1} : /\ TRUE \in IsSet(t, i)
                               /\ \A k \in 2..(i - 1) : FALSE \in IsSet(t, k)
                               /\ Found(t, i, table[i])
     \/ (\A k \in Index \ {1} : FALSE \in IsSet(t, k)) /\ Found(t, Slots + 1, 0)

DisposeSearch(t) ==
  /\ pc[t].ph = "search"
  /\ \/ \E i \in Index : /\ TRUE \in IsSet(t, i)
                         /\ \A k \in 1..(i - 1) : FALSE \in IsSet(t, k)
                         /\ Found(t, i, table[i])
     \/ (\A k \in Index : FALSE \in IsSet(t, k)) /\ Found(t, Slots + 1, 0)

DisposeClose(t) ==
  /\ pc[t].ph = "dclose"
  /\ CloseFd(pc[t].fd)
  /\ pc' = [pc EXCEPT ![t].ph = "dclear"]
  /\ UNCHANGED <<table, fresh, gone, acc, ready, full, heard>>

\* A store behind the last slot changes no entry.
DisposeClear(t) ==
  /\ pc[t].ph = "dclear"
  /\ table' = [i \in Index |-> IF i = pc[t].at THEN 0 ELSE table[i]]
  /\ pc' = [pc EXCEPT ![t].ph = "dispose"]
  /\ UNCHANGED <<conn, fresh, gone, acc, ready, full, heard>>

Notifier(t) ==
  \/ NotifyBegin(t) \/ Look(t) \/ Write(t) \/ Close(t) \/ Clear(t)
  \/ DisposeEnd(t) \/ DisposeSelect(t) \/ DisposeSearch(t)
  \/ DisposeClose(t) \/ DisposeClear(t)

Step ==
  \/ \E c \in Clients : Accept(c) \/ Hangup(c)
  \/ AcceptSkip \/ AcceptFill \/ AcceptOverwrite
  \/ \E t \in Notifiers : Notifier(t)

-----------------------------------------------------------------------------
(* History                                                                 *)

\* Between the failure of an entry's descriptor and the store that empties the entry.
Removes(t, i) == pc[t].ph \in {"close", "clear", "dclose", "dclear"} /\ pc[t].at = i

\* Another thread relies on entry i: a notifier that has found it in use, or that looks for
\* the descriptor select reported; the accept thread that has found it empty.
Uses(t, i) == pc[t].ph = "search" \/ (pc[t].ph = "write" /\ pc[t].at = i)
Fills(i) == acc.fd # 0 /\ acc.at = i /\ table[i] = 0

\* Two threads at one entry, one of them removing it: nothing keeps them apart.
Meet ==
  \E i \in 1..(Slots + 1), t \in Notifiers :
    /\ Removes(t, i)
    /\ \/ Fills(i)
       \/ \E u \in Notifiers \ {t} : Removes(u, i) \/ Uses(u, i)

Holds(i, c) == Alive(table[i]) /\ conn[table[i]] = c
Dead(i) == table[i] # 0 /\ ~Alive(table[i])

\* Before its loop every entry counts for a notifier; from its beginning on those that stay as they were.
Record ==
  /\ clash' = (clash \/ Meet')
  /\ due' = [t \in Notifiers |->
       {p \in IF pc[t].ph = "idle" THEN Index \X Clients ELSE due[t] : Holds(p[1], p[2])'}]
  /\ dead' = [t \in Notifiers |->
       {i \in IF pc[t].ph = "idle" THEN Index ELSE dead[t] : Dead(i)'}]

Next == Step /\ Record

Spec == Init /\ [][Next]_vars

-----------------------------------------------------------------------------
(* Properties                                                              *)

\* Every slot holds a descriptor or -1, and a slot behind the last one is touched by no
\* more than the store of detect_clients_dispose_state.
TypeOK ==
  /\ table \in [Index -> Fds \cup {0}]
  /\ conn \in [Fds -> Clients \cup {"none"}]
  /\ fresh \subseteq Clients /\ gone \subseteq Clients
  /\ acc \in [fd : Fds \cup {0}, at : Index]
  /\ pc \in [Notifiers -> [ph : Phases, at : 1..(Slots + 1), fd : Fds \cup {0}, tries : 0..3]]
  /\ ready \in [Notifiers -> SUBSET Fds] /\ full \in BOOLEAN /\ clash \in BOOLEAN
  /\ due \in [Notifiers -> SUBSET (Index \X Clients)]
  /\ dead \in [Notifiers -> SUBSET Index]
  /\ heard \in [Notifiers -> SUBSET Clients]

LoopDone(t) == pc[t].ph \in {"dispose", "search", "dclose", "dclear"}

\* Every client whose entry stays in the table from the beginning of the loop to its end
\* is told (modemd_sipc.c:117, "info socket clients ..."), whatever the other threads do to
\* the rest of the table meanwhile.
AllHear ==
  \A t \in Notifiers : LoopDone(t) => \A p \in due[t] : p[2] \in heard[t]

\* However an entry came to be left without a live connection, by a client's end or by two
\* threads' removing it at once, it does not outlive the next loop: a loop ends without
\* any entry that was dead all the while.
DeadRemoved == \A t \in Notifiers : LoopDone(t) => dead[t] = {}

\* Slot i holds a number whose descriptor a notifier has just closed.
Stale(i) == \E t \in Notifiers : pc[t].ph \in {"clear", "dclear"} /\ pc[t].at = i

\* As long as no two threads have met at one entry, an entry is an open descriptor, or
\* about to be cleared.
NoDangling == ~clash => \A i \in Index : table[i] # 0 /\ ~Stale(i) => table[i] \in Open

\* As long as no client too many has come and no two threads have met, no connection is
\* lost: an open descriptor is in the table, where its news comes from and where its end
\* is noticed, unless it is the one being filed.
OpenListed ==
  ~full /\ ~clash => \A n \in Open : acc.fd = n \/ \E i \in Index : table[i] = n /\ ~Stale(i)

\* detect_clients_dispose_state finds the descriptor that select reported, and stores into
\* the table, unless another notifier has removed it in between.
StoresInTable == ~full /\ ~clash => \A t \in Notifiers : pc[t].at \in Index

\* modemd hangs up only on a client that has hung up, as long as no two threads have met.
OnlyDeadClosed ==
  [][full \/ clash \/ \A n \in Open : conn'[n] = "none" => conn[n] \in gone]_vars

=============================================================================
