------------------------------- MODULE ModemD -------------------------------
(***************************************************************************)
(* modemd, the daemon that watches the internal modems.  Each modem has    *)
(* two threads: detect_sipc_modem waits on the modem's assert and watchdog *)
(* devices, detect_modem_blocked listens to the phone server.  Both stop   *)
(* the modem's services and reload its image with load_sipc_modem_img,     *)
(* over name buffers and descriptors that are static, so shared.           *)
(***************************************************************************)
EXTENDS Naturals, Sequences

CONSTANTS
  Modems,         \* the enabled ones
  ResetEnabled,   \* persist.sys.sprd.modemreset
  MaxAsserts, MaxHangs, MaxBlocks, MaxFails   \* bounds on what goes wrong

Families == {"TD", "W", "L", "TL", "LF"}

ASSUME ModemAssumption ==
  /\ Modems \subseteq Families /\ Modems # {}
  /\ ResetEnabled \in BOOLEAN
  /\ MaxAsserts \in Nat /\ MaxHangs \in Nat /\ MaxBlocks \in Nat /\ MaxFails \in Nat

VARIABLES
  pc,      \* the place of each thread
  state,   \* td_modem_state, w_modem_state, ...
  sel,     \* locals of detect_sipc_modem: rfds, fd and the event read
  owner,   \* the modem that assert_fd, diag_chan and log_chan belong to
  names,   \* the modem that modem_bank, modem_start, ... belong to
  wake,    \* the wake lock load_modem_img
  hw,      \* the processors: running, an Alive not yet read, told to reset
  dev,     \* unread events of the assert and watchdog devices
  phone,   \* phone servers: up, connected to us, unread messages
  told,    \* what the clients of modemd heard last about each modem
  used     \* faults so far

vars == <<pc, state, sel, owner, names, wake, hw, dev, phone, told, used>>

Threads == Modems \X {"sipc", "blk"}
Sipc(d) == <<d, "sipc">>
Blk(d) == <<d, "blk">>
Devices == Modems \X {"assert", "wdt"}
NoFd == <<"none", "none">>

Goto(t, l) == pc' = [pc EXCEPT ![t] = l]

\* A fault of kind k is used up.
Use(k, max) == used[k] < max /\ used' = [used EXCEPT ![k] = @ + 1]

-----------------------------------------------------------------------------
(* Start-up.  start_modem has started each modem's services and threads.   *)

FreshPc == [t \in Threads |-> IF t[2] = "sipc" THEN "open" ELSE "connect"]
FreshSel == [d \in Modems |-> [watch |-> {}, fd |-> NoFd, ev |-> "none"]]
FreshPhone == [d \in Modems |-> [up |-> TRUE, conn |-> FALSE, sock |-> <<>>]]

Fresh ==
  /\ pc = FreshPc
  /\ state = [d \in Families |-> "READY"]
  /\ sel = FreshSel
  /\ owner = "none" /\ names = "none"
  /\ wake = FALSE
  /\ hw = [d \in Modems |-> [on |-> TRUE, alive |-> FALSE, reset |-> FALSE]]
  /\ dev = [f \in Devices |-> <<>>]
  /\ phone = FreshPhone
  /\ told = [d \in Modems |-> "Alive"]

Init == Fresh /\ used = [asserts |-> 0, hangs |-> 0, blocks |-> 0, fails |-> 0]

-----------------------------------------------------------------------------
(* stop_service and load_sipc_modem_img, called by either thread           *)

\* The phone server of modem d goes away; its connection with us ends.
PhoneStopped(d) ==
  [phone EXCEPT ![d] = [up |-> FALSE, conn |-> FALSE,
                        sock |-> IF @.conn THEN Append(@.sock, "EOF") ELSE @.sock]]

\* The names are put together, and "1" is written to this modem's stop file.
LoadBegin(t) ==
  /\ pc[t] = "begin"
  /\ names' = t[1]
  /\ hw' = [hw EXCEPT ![t[1]] = [on |-> FALSE, alive |-> FALSE, reset |-> FALSE]]
  /\ Goto(t, "load")
  /\ UNCHANGED <<state, sel, owner, wake, dev, phone, told, used>>

\* load_sipc_image, for the modem and its DSPs; a failure is only logged.
LoadImages(t) ==
  /\ pc[t] = "load"
  /\ Goto(t, "start")
  /\ UNCHANGED <<state, sel, owner, names, wake, hw, dev, phone, told, used>>

\* "1" is written to the start file.
LoadStart(t) ==
  /\ pc[t] = "start"
  /\ hw' = [hw EXCEPT ![names] = [on |-> TRUE, alive |-> @.alive \/ ~@.on, reset |-> @.reset]]
  /\ Goto(t, "alive")
  /\ UNCHANGED <<state, sel, owner, names, wake, dev, phone, told, used>>

\* wait_for_modem_alive; when the tty cannot be opened, twenty seconds instead.
LoadAlive(t) ==
  /\ pc[t] = "alive"
  /\ \/ /\ hw[t[1]].alive
        /\ hw' = [hw EXCEPT ![t[1]].alive = FALSE]
        /\ UNCHANGED used
     \/ Use("fails", MaxFails) /\ UNCHANGED hw
  /\ Goto(t, "inform")
  /\ UNCHANGED <<state, sel, owner, names, wake, dev, phone, told>>

\* No Alive in twenty seconds: the kernel is made to panic, and all starts anew.
LoadTimeout(t) ==
  /\ pc[t] = "alive" /\ ~hw[t[1]].alive
  /\ pc' = FreshPc
  /\ state' = [d \in Families |-> "READY"]
  /\ sel' = FreshSel
  /\ owner' = "none" /\ names' = "none"
  /\ wake' = FALSE
  /\ hw' = [d \in Modems |-> [on |-> TRUE, alive |-> FALSE, reset |-> FALSE]]
  /\ dev' = [f \in Devices |-> <<>>]
  /\ phone' = FreshPhone
  /\ told' = [d \in Modems |-> "Alive"]
  /\ UNCHANGED used

\* Variant: the clients are not told that the modem is back.
LoadInform_Silent(t) ==
  /\ pc[t] = "inform"
  /\ Goto(t, "service")
  /\ UNCHANGED <<state, sel, owner, names, wake, hw, dev, phone, told, used>>

LoadInform(t) ==
  /\ pc[t] = "inform"
  /\ told' = [told EXCEPT ![t[1]] = "Alive"]
  /\ Goto(t, "service")
  /\ UNCHANGED <<state, sel, owner, names, wake, hw, dev, phone, used>>

\* start_service; its result is not looked at.
LoadService(t) ==
  /\ pc[t] = "service"
  /\ \/ phone' = [phone EXCEPT ![t[1]].up = TRUE] /\ UNCHANGED used
     \/ Use("fails", MaxFails) /\ UNCHANGED phone
  /\ Goto(t, "ready")
  /\ UNCHANGED <<state, sel, owner, names, wake, hw, dev, told>>

\* exit_modemd, when the modem refuses an AT command; init starts modemd again.
Exit(t) ==
  /\ pc[t] = "service"
  /\ Use("fails", MaxFails)
  /\ pc' = FreshPc
  /\ state' = [d \in Families |-> "READY"]
  /\ sel' = FreshSel
  /\ owner' = "none" /\ names' = "none"
  /\ wake' = FALSE
  /\ phone' = FreshPhone
  /\ UNCHANGED <<hw, dev, told>>

\* Variant: READY without the signal.
LoadReady_NoSignal(t) ==
  /\ pc[t] = "ready"
  /\ state' = [state EXCEPT ![t[1]] = "READY"]
  /\ Goto(t, "unlock")
  /\ UNCHANGED <<sel, owner, names, wake, hw, dev, phone, told, used>>

\* Variant: a reload that a reset overtook leaves the state to the other thread.
LoadReady_Keep(t) ==
  /\ pc[t] = "ready"
  /\ state' = [state EXCEPT ![t[1]] = IF @ = "RESET" THEN @ ELSE "READY"]
  /\ pc' = [pc EXCEPT ![t] = "unlock",
                      ![Blk(t[1])] = IF @ = "wait" THEN "connect" ELSE @]
  /\ UNCHANGED <<sel, owner, names, wake, hw, dev, phone, told, used>>

\* READY, and the signal, under the mutex of this modem's state.
LoadReady(t) ==
  /\ pc[t] = "ready"
  /\ state' = [state EXCEPT ![t[1]] = "READY"]
  /\ pc' = [pc EXCEPT ![t] = "unlock",
                      ![Blk(t[1])] = IF @ = "wait" THEN "connect" ELSE @]
  /\ UNCHANGED <<sel, owner, names, wake, hw, dev, phone, told, used>>

\* Variant: the lock is kept.
Unlock_Keep(t) ==
  /\ pc[t] = "unlock"
  /\ Goto(t, IF t[2] = "sipc" THEN "select" ELSE "read")
  /\ UNCHANGED <<state, sel, owner, names, wake, hw, dev, phone, told, used>>

\* The end of a turn of either thread's loop.
Unlock(t) ==
  /\ pc[t] = "unlock"
  /\ wake' = FALSE
  /\ Goto(t, IF t[2] = "sipc" THEN "select" ELSE "read")
  /\ UNCHANGED <<state, sel, owner, names, hw, dev, phone, told, used>>

Load(t) ==
  \/ LoadBegin(t) \/ LoadImages(t) \/ LoadStart(t) \/ LoadAlive(t) \/ LoadTimeout(t)
  \/ LoadInform(t) \/ LoadService(t) \/ Exit(t) \/ LoadReady(t) \/ Unlock(t)

-----------------------------------------------------------------------------
(* detect_sipc_modem                                                       *)

SipcOpen(d) ==
  /\ pc[Sipc(d)] = "open"
  /\ owner' = d
  /\ Goto(Sipc(d), "watch")
  /\ UNCHANGED <<state, sel, names, wake, hw, dev, phone, told, used>>

\* rfds is filled once, before the loop.
SipcWatch(d) ==
  /\ pc[Sipc(d)] = "watch"
  /\ sel' = [sel EXCEPT ![d].watch = {<<owner, "assert">>, <<d, "wdt">>}]
  /\ Goto(Sipc(d), "select")
  /\ UNCHANGED <<state, owner, names, wake, hw, dev, phone, told, used>>

\* select leaves the readable descriptors in rfds, and watches only these next time.
\* With neither of the two set, fd is what it was.
SipcSelect(d) ==
  /\ pc[Sipc(d)] = "select"
  /\ LET ready == {f \in sel[d].watch : dev[f] # <<>>}
         fd == IF <<owner, "assert">> \in ready THEN <<owner, "assert">>
               ELSE IF <<d, "wdt">> \in ready THEN <<d, "wdt">>
               ELSE sel[d].fd
     IN /\ ready # {}
        /\ sel' = [sel EXCEPT ![d].watch = ready, ![d].fd = fd]
        /\ wake' = (wake \/ fd # NoFd)
        /\ Goto(Sipc(d), IF fd = NoFd THEN "select" ELSE "event")
  /\ UNCHANGED <<state, owner, names, hw, dev, phone, told, used>>

\* A read that fails leaves the wake lock on.
SipcRead(d) ==
  /\ pc[Sipc(d)] = "event"
  /\ LET q == dev[sel[d].fd] IN
     /\ q # <<>>
     /\ \/ /\ sel' = [sel EXCEPT ![d].ev = Head(q)]
           /\ dev' = [dev EXCEPT ![sel[d].fd] = Tail(q)]
           /\ Goto(Sipc(d), "state")
           /\ UNCHANGED used
        \/ /\ Use("fails", MaxFails)
           /\ Goto(Sipc(d), "select")
           /\ UNCHANGED <<sel, dev>>
  /\ UNCHANGED <<state, owner, names, wake, hw, phone, told>>

SipcState(d) ==
  /\ pc[Sipc(d)] = "state"
  /\ state' = [state EXCEPT ![d] = IF sel[d].ev = "Reset" THEN "RESET" ELSE "ASSERT"]
  /\ Goto(Sipc(d), "tell")
  /\ UNCHANGED <<sel, owner, names, wake, hw, dev, phone, told, used>>

SipcTell(d) ==
  /\ pc[Sipc(d)] = "tell"
  /\ told' = [told EXCEPT ![d] = sel[d].ev]
  /\ Goto(Sipc(d), "stop")
  /\ UNCHANGED <<state, sel, owner, names, wake, hw, dev, phone, used>>

\* stop_service; after an assert or a hang, the clients then have some seconds.
SipcStop(d) ==
  /\ pc[Sipc(d)] = "stop"
  /\ phone' = PhoneStopped(d)
  /\ Goto(Sipc(d), IF sel[d].ev = "Reset" THEN "begin"
                   ELSE IF ResetEnabled THEN "silent" ELSE "unlock")
  /\ UNCHANGED <<state, sel, owner, names, wake, hw, dev, told, used>>

\* The log is drained and 'z' goes to the modem, which then says Reset.  Each of the
\* three ends of this leaves the wake lock on.
SipcSilent(d) ==
  /\ pc[Sipc(d)] = "silent"
  /\ \/ hw' = [hw EXCEPT ![owner].reset = hw[owner].on] /\ UNCHANGED used
     \/ Use("fails", MaxFails) /\ UNCHANGED hw
  /\ Goto(Sipc(d), "select")
  /\ UNCHANGED <<state, sel, owner, names, wake, dev, phone, told>>

detect_sipc_modem(d) ==
  \/ SipcOpen(d) \/ SipcWatch(d) \/ SipcSelect(d) \/ SipcRead(d) \/ SipcState(d)
  \/ SipcTell(d) \/ SipcStop(d) \/ SipcSilent(d) \/ Load(Sipc(d))

-----------------------------------------------------------------------------
(* detect_modem_blocked                                                    *)

BlkConnect(d) ==
  /\ pc[Blk(d)] = "connect" /\ phone[d].up
  /\ phone' = [phone EXCEPT ![d] = [up |-> TRUE, conn |-> TRUE, sock |-> <<>>]]
  /\ Goto(Blk(d), "read")
  /\ UNCHANGED <<state, sel, owner, names, wake, hw, dev, told, used>>

\* The state that the text "<d> Modem Blocked" is about: "L Modem Blocked" is a part
\* of "TL Modem Blocked" and is looked for first.
BlockedState(d) == IF d = "TL" THEN "L" ELSE d

\* The end of the connection: wait for the signal unless the modem is ready.
BlkEof(d) ==
  /\ pc[Blk(d)] = "read" /\ phone[d].sock # <<>> /\ Head(phone[d].sock) = "EOF"
  /\ phone' = [phone EXCEPT ![d].sock = <<>>]
  /\ Goto(Blk(d), IF state[d] # "READY" THEN "wait" ELSE "connect")
  /\ UNCHANGED <<state, sel, owner, names, wake, hw, dev, told, used>>

BlkRead(d) ==
  /\ pc[Blk(d)] = "read" /\ phone[d].sock # <<>> /\ Head(phone[d].sock) = "Blocked"
  /\ phone' = [phone EXCEPT ![d].sock = Tail(@)]
  /\ LET s == BlockedState(d) IN
     IF state[s] = "READY"
       THEN state' = [state EXCEPT ![s] = "ASSERT"] /\ Goto(Blk(d), "tell")
       ELSE UNCHANGED <<state, pc>>
  /\ UNCHANGED <<sel, owner, names, wake, hw, dev, told, used>>

\* raw_reset, after a loop test whose result changes nothing.
BlkTell(d) ==
  /\ pc[Blk(d)] = "tell"
  /\ wake' = TRUE
  /\ told' = [told EXCEPT ![d] = "Blocked"]
  /\ Goto(Blk(d), "stop")
  /\ UNCHANGED <<state, sel, owner, names, hw, dev, phone, used>>

BlkStop(d) ==
  /\ pc[Blk(d)] = "stop"
  /\ phone' = PhoneStopped(d)
  /\ Goto(Blk(d), IF ResetEnabled THEN "begin" ELSE "unlock")
  /\ UNCHANGED <<state, sel, owner, names, wake, hw, dev, told, used>>

detect_modem_blocked(d) ==
  \/ BlkConnect(d) \/ BlkEof(d) \/ BlkRead(d) \/ BlkTell(d) \/ BlkStop(d) \/ Load(Blk(d))

-----------------------------------------------------------------------------
(* The modem and the phone server                                          *)

\* The modem writes a text to one of its devices.
Raise(d, which, text) == dev' = [dev EXCEPT ![<<d, which>>] = Append(@, text)]

ModemAsserts(d) ==
  /\ hw[d].on /\ Use("asserts", MaxAsserts)
  /\ Raise(d, "assert", "Assert")
  /\ UNCHANGED <<pc, state, sel, owner, names, wake, hw, phone, told>>

ModemHangs(d) ==
  /\ hw[d].on /\ Use("hangs", MaxHangs)
  /\ Raise(d, "wdt", "Hang")
  /\ UNCHANGED <<pc, state, sel, owner, names, wake, hw, phone, told>>

ModemResets(d) ==
  /\ hw[d].reset
  /\ hw' = [hw EXCEPT ![d].reset = FALSE]
  /\ Raise(d, "assert", "Reset")
  /\ UNCHANGED <<pc, state, sel, owner, names, wake, phone, told, used>>

PhoneBlocked(d) ==
  /\ phone[d].conn /\ Use("blocks", MaxBlocks)
  /\ phone' = [phone EXCEPT ![d].sock = Append(@, "Blocked")]
  /\ UNCHANGED <<pc, state, sel, owner, names, wake, hw, dev, told>>

Next == \E d \in Modems :
  \/ detect_sipc_modem(d) \/ detect_modem_blocked(d)
  \/ ModemAsserts(d) \/ ModemHangs(d) \/ ModemResets(d) \/ PhoneBlocked(d)

Spec == Init /\ [][Next]_vars

\* Both threads of each modem run, and a modem that is told to reset says so.
Fairness == \A d \in Modems :
  WF_vars(detect_sipc_modem(d)) /\ WF_vars(detect_modem_blocked(d)) /\ WF_vars(ModemResets(d))

FairSpec == Spec /\ Fairness

-----------------------------------------------------------------------------
(* Properties                                                              *)

Loading == {"begin", "load", "start", "alive", "inform", "service", "ready"}
Words == {"Assert", "Hang", "Reset", "Blocked", "Alive"}

Labels == Loading \cup {"open", "watch", "select", "event", "state", "tell", "stop", "silent",
                        "unlock", "connect", "read", "wait"}
Events == {"Assert", "Hang", "Reset"}
Selects == [watch : SUBSET Devices, fd : Devices \cup {NoFd}, ev : Events \cup {"none"}]
Processors == [on : BOOLEAN, alive : BOOLEAN, reset : BOOLEAN]
Phones == [up : BOOLEAN, conn : BOOLEAN, sock : Seq({"Blocked", "EOF"})]

\* Among the types: the three states of a modem, and which text arrives where.
TypeOK ==
  /\ pc \in [Threads -> Labels]
  /\ state \in [Families -> {"READY", "ASSERT", "RESET"}]
  /\ sel \in [Modems -> Selects]
  /\ owner \in Modems \cup {"none"} /\ names \in Modems \cup {"none"}
  /\ wake \in BOOLEAN
  /\ hw \in [Modems -> Processors]
  /\ dev \in [Devices -> Seq(Events)]
  /\ phone \in [Modems -> Phones]
  /\ told \in [Modems -> Words]

\* No step of the recovery itself has failed, and no watchdog interrupt came.
Undisturbed == used.hangs = 0 /\ used.fails = 0

\* A modem that asserted, was reset or was found blocked is brought back to READY,
\* whatever both threads do meanwhile (reset enabled).
Recovers ==
  \A d \in Modems : state[d] # "READY" ~> state[d] = "READY" \/ ~Undisturbed

\* A modem is brought back to READY after a watchdog interrupt too (modemd_sipc.c:816,
\* "loop detect sipc modem state").
RecoversFromHang == \A d \in Modems : state[d] # "READY" ~> state[d] = "READY"

\* Bad news about a modem is followed by "Modem Alive".
ClientsHearAlive ==
  \A d \in Modems : told[d] # "Alive" ~> told[d] = "Alive" \/ ~Undisturbed

\* detect_modem_blocked, once it waits for the modem to be ready, is woken.
BlockedThreadWakes ==
  \A d \in Modems : pc[Blk(d)] = "wait" ~> pc[Blk(d)] # "wait" \/ ~Undisturbed

\* No wake-up is lost: detect_modem_blocked waits for READY only while the modem is not.
NoLostWakeup == \A d \in Modems : pc[Blk(d)] = "wait" => state[d] # "READY"

\* The wake lock is released in the end, also by way of the turns that keep it.
WakeLockReleased == wake ~> ~wake \/ ~Undisturbed

\* A "Modem Blocked" read while its modem is READY is told to the clients
\* (modemd_sipc.c:786).
BlockedIsTold ==
  [][\A d \in Modems : BlkRead(d) /\ state[d] = "READY" => pc'[Blk(d)] = "tell"]_vars

\* The image is written between the stop and the start (modemd_sipc.c:225, 483), never
\* into a modem that runs.
NeverLoadsRunning == \A t \in Threads : pc[t] = "load" => ~hw[t[1]].on

\* A thread loads and starts its own modem.
LoadsOwnModem == \A t \in Threads : pc[t] \in {"load", "start"} => names = t[1]

\* Every event of a modem's devices is read (modemd_sipc.c:816, "loop detect sipc
\* modem state").
EventsAreRead == \A f \in Devices : dev[f] # <<>> ~> dev[f] = <<>>

=============================================================================
