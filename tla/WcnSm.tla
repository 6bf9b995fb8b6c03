------------------------------- MODULE WcnSm --------------------------------
(***************************************************************************)
(* wcnd, the daemon that powers the connectivity processor CP2 for the     *)
(* Bluetooth and Wi-Fi services: the state machine of wcnd_sm.c, run by    *)
(* client_listen_thread on the commands of its clients and on those the    *)
(* daemon writes to itself through a socket pair, beside the threads that  *)
(* listen for CP2's asserts, probe CP2 and read its version at start-up.   *)
(***************************************************************************)
EXTENDS Naturals, Sequences, Functions

CONSTANTS
  Clients,        \* connections of services and tools
  Manager,        \* the connection that answers an exception with "wcn reset"
  Requests,       \* what each client may ask for
  Retries,        \* RESET_FAIL_RETRY_COUNT
  ResetEnabled,   \* persist.sys.sprd.wcnreset
  Boot,           \* main reads CP2's version at start-up
  MaxRequests, MaxCrashes, MaxHangups   \* bounds on what the environment does

ASSUME WcnAssumption ==
  /\ Manager \notin Clients
  /\ "none" \notin Clients \cup {Manager}
  /\ Requests \in [Clients -> SUBSET {"BT_OPEN", "WIFI_OPEN", "BT_CLOSE", "WIFI_CLOSE",
                                      "POWERON", "POWEROFF"}]
  /\ Retries \in Nat
  /\ ResetEnabled \in BOOLEAN /\ Boot \in BOOLEAN
  /\ MaxRequests \in Nat /\ MaxCrashes \in Nat /\ MaxHangups \in Nat

VARIABLES
  m,         \* WcndManager, the unread self commands included
  inbox,     \* what each client has sent and client_listen_thread not yet read
  told,      \* what each client last heard; "wait" while a request is unanswered
  asked,     \* history: each client's last request
  lost,      \* history: self commands that were read as part of a longer string
  round,     \* pending_fds: what is left of this round of client_listen_thread
  exec,      \* the long command client_listen_thread is in, and its phase
  tries,     \* reset_count
  cp2,       \* the processor: "off", "up" or "dead"
  events,    \* exceptions waiting on the assert and watchdog devices
  pc,        \* the other threads
  used       \* requests, crashes and hang-ups so far

vars == <<m, inbox, told, asked, lost, round, exec, tries, cp2, events, pc, used>>

Conns == Clients \cup {Manager}
Threads == {"listen", "loop"}
Radios == {"BT", "WIFI"}
OpenEvents == {"BT_OPEN", "WIFI_OPEN"}
CloseEvents == {"BT_CLOSE", "WIFI_CLOSE"}

\* The btwifi_state bit an event is about.
RadioOf(e) == CASE e \in {"BT_OPEN", "BT_CLOSE"} -> {"BT"}
                [] e \in {"WIFI_OPEN", "WIFI_CLOSE"} -> {"WIFI"}
                [] OTHER -> {}

\* The client types that WCND_CLIENT_TYPE_CMD addresses.
AnyCmd == {"CMD", "CMD_CLOSE", "CMD_OPEN"}

-----------------------------------------------------------------------------
(* The state machine.  A handler maps the manager, an event and the client *)
(* to answer to the next manager; the replies it sends are in its field    *)
(* reply until Deliver hands them out.                                     *)

\* wcnd_send_notify_to_client: every client of these types is answered and sleeps.
wcnd_send_notify_to_client(n, types, r) ==
  [n EXCEPT !.type = [c \in Conns |-> IF n.type[c] \in types THEN "SLEEP" ELSE n.type[c]],
            !.reply = [c \in Conns |-> IF n.type[c] \in types THEN r ELSE n.reply[c]]]

wcnd_send_selfcmd(n, x) == [n EXCEPT !.self = Append(@, x)]

\* The loops that file the sender under another type.
SetType(n, c, t) == IF c \in Conns THEN [n EXCEPT !.type[c] = t] ELSE n

SetOn(n, e) == [n EXCEPT !.on = @ \cup RadioOf(e)]

\* The state changes that need client_listen_thread's own hand next.
Enter(n, s, x) == wcnd_send_selfcmd([n EXCEPT !.state = s], x)

\* Variant: a pending event starts CP2, the bits it is about are not set.
wcn_state_cp2_stopped_NoBits(m0, e) ==
  LET n == [m0 EXCEPT !.notify = FALSE] IN
  CASE e \in OpenEvents -> Enter(SetOn(n, e), "STARTING", "startcp2")
    [] e \in CloseEvents \cup {"POWEROFF"} -> wcnd_send_notify_to_client(n, AnyCmd, "OK")
    [] e \in {"PENDING", "POWERON"} -> Enter(n, "STARTING", "startcp2")
    [] OTHER -> n

wcn_state_cp2_stopped(m0, e) ==
  LET n == [m0 EXCEPT !.notify = FALSE]
      k == [n EXCEPT !.on = @ \cup UNION {RadioOf(p) : p \in n.pending}]
  IN CASE e \in OpenEvents -> Enter(SetOn(n, e), "STARTING", "startcp2")
       [] e \in CloseEvents \cup {"POWEROFF"} -> wcnd_send_notify_to_client(n, AnyCmd, "OK")
       [] e = "PENDING" -> IF k.on # {} \/ "POWERON" \in k.pending
                             THEN Enter(k, "STARTING", "startcp2")
                             ELSE k
       [] e = "POWERON" -> Enter(n, "STARTING", "startcp2")
       [] e = "CP2_OK" -> [n EXCEPT !.state = "STARTED", !.notify = TRUE]
       [] OTHER -> n

wcn_state_cp2_starting(m0, e) ==
  LET n == [m0 EXCEPT !.notify = FALSE] IN
  CASE e \in CloseEvents \cup {"POWEROFF"} -> wcnd_send_notify_to_client(n, AnyCmd, "OK")
    [] e \in OpenEvents -> SetOn(n, e)
    [] e = "CP2_OK" -> wcnd_send_notify_to_client([n EXCEPT !.state = "STARTED", !.notify = TRUE],
                                                  AnyCmd \cup {"CMD_PENDING"}, "OK")
    [] e = "CP2_DOWN" -> wcnd_send_notify_to_client([n EXCEPT !.state = "STOPPED"],
                                                    AnyCmd \cup {"CMD_PENDING"}, "FAIL")
    [] OTHER -> n

wcn_state_cp2_started(m0, e) ==
  LET n == [m0 EXCEPT !.notify = TRUE]
      off == [n EXCEPT !.on = @ \ RadioOf(e)]
  IN CASE e \in CloseEvents \cup {"POWEROFF"} ->
            IF n.saved # {}
              THEN wcnd_send_notify_to_client([n EXCEPT !.saved = @ \ RadioOf(e)], AnyCmd, "OK")
              ELSE IF off.on = {} THEN Enter(off, "STOPPING", "stopcp2")
                                  ELSE wcnd_send_notify_to_client(off, AnyCmd, "OK")
       [] e \in OpenEvents \cup {"POWERON"} ->
            wcnd_send_notify_to_client(SetOn(n, e), AnyCmd, "OK")
       [] e = "CP2_ASSERT" -> [n EXCEPT !.saved = n.on, !.state = "ASSERT"]
       [] e = "CP2_DOWN" -> [n EXCEPT !.state = "STOPPED"]
       [] OTHER -> n

wcn_state_cp2_assert(m0, e, c) ==
  LET n == [m0 EXCEPT !.notify = TRUE] IN
  CASE e \in CloseEvents ->
         wcnd_send_notify_to_client(SetType([n EXCEPT !.saved = @ \ RadioOf(e)], c, "CMD_CLOSE"),
                                    {"CMD_CLOSE"}, "OK")
    [] e \in OpenEvents -> SetType(SetOn(n, e), c, "CMD_OPEN")
    [] e = "CP2_OK" -> wcnd_send_notify_to_client([n EXCEPT !.state = "STARTED"], AnyCmd, "OK")
    [] e = "CP2_DOWN" -> wcnd_send_notify_to_client([n EXCEPT !.state = "STOPPED"], AnyCmd, "FAIL")
    [] OTHER -> n

\* Variant: the sender of an open is parked, its request is not.
wcn_state_cp2_stopping_Forget(m0, e, c) ==
  LET n == [m0 EXCEPT !.notify = FALSE] IN
  CASE e \in OpenEvents \cup {"POWERON"} -> SetType(n, c, "CMD_PENDING")
    [] e = "CP2_DOWN" -> wcnd_send_notify_to_client([n EXCEPT !.state = "STOPPED"], AnyCmd, "OK")
    [] OTHER -> n

\* Variant: a close is parked like an open.
wcn_state_cp2_stopping_ParkAll(m0, e, c) ==
  LET n == [m0 EXCEPT !.notify = FALSE] IN
  CASE e \in OpenEvents \cup CloseEvents \cup {"POWERON", "POWEROFF"} ->
         [SetType(n, c, "CMD_PENDING") EXCEPT !.pending = @ \cup {e}]
    [] e = "CP2_DOWN" -> wcnd_send_selfcmd([n EXCEPT !.state = "STOPPED"], "pendingevent")
    [] OTHER -> n

\* Variant: an open turns the stop into a start, whose command nobody sends.
wcn_state_cp2_stopping_Restart(m0, e, c) ==
  LET n == [m0 EXCEPT !.notify = FALSE] IN
  CASE e \in OpenEvents \cup {"POWERON"} -> [SetOn(n, e) EXCEPT !.state = "STARTING"]
    [] e = "CP2_DOWN" -> wcnd_send_notify_to_client([n EXCEPT !.state = "STOPPED"], AnyCmd, "OK")
    [] OTHER -> n

wcn_state_cp2_stopping(m0, e, c) ==
  LET n == [m0 EXCEPT !.notify = FALSE]
      down == wcnd_send_notify_to_client([n EXCEPT !.state = "STOPPED"], AnyCmd, "OK")
  IN CASE e \in OpenEvents \cup {"POWERON"} ->
            [SetType(n, c, "CMD_PENDING") EXCEPT !.pending = @ \cup {e}]
       [] e = "CP2_DOWN" -> IF n.pending # {} THEN wcnd_send_selfcmd(down, "pendingevent")
                                              ELSE down
       [] OTHER -> n

wcnd_sm_step(n, e, c) ==
  CASE n.state = "STOPPED"  -> wcn_state_cp2_stopped(n, e)
    [] n.state = "STARTING" -> wcn_state_cp2_starting(n, e)
    [] n.state = "STARTED"  -> wcn_state_cp2_started(n, e)
    [] n.state = "ASSERT"   -> wcn_state_cp2_assert(n, e, c)
    [] n.state = "STOPPING" -> wcn_state_cp2_stopping(n, e, c)

-----------------------------------------------------------------------------
(* Clients                                                                 *)

Nothing == [c \in Conns |-> ""]

Init ==
  /\ m = [state |-> "STOPPED", on |-> {}, saved |-> {}, pending |-> {}, notify |-> FALSE,
           error |-> FALSE, resetting |-> FALSE, version |-> FALSE, self |-> <<>>,
           type |-> [c \in Conns |-> IF c = Manager THEN "NOTIFY" ELSE "none"],
           reply |-> Nothing]
  /\ inbox = [c \in Conns |-> <<>>]
  /\ told = [c \in Conns |-> "none"]
  /\ asked = [c \in Conns |-> "none"]
  /\ lost = {}
  /\ round = [clients |-> {}, self |-> FALSE]
  /\ exec = "none"
  /\ tries = 0
  /\ cp2 = "off"
  /\ events = {}
  /\ pc = [listen |-> "wait", loop |-> "boot", main |-> IF Boot THEN "poweron" ELSE "done"]
  /\ used = [requests |-> 0, crashes |-> 0, hangups |-> 0]

Gone(c) == "EOF" \in Range(inbox[c])

\* The handlers' replies reach the clients; a write to a client that has hung up
\* fails, and frees its entry.  box is the inboxes after this read.
Deliver(n, box) ==
  LET heard == {c \in Conns : n.reply[c] # ""}
      freed == {c \in heard : Gone(c)}
  IN /\ m' = [n EXCEPT !.reply = Nothing,
                       !.type = [c \in Conns |-> IF c \in freed THEN "none" ELSE n.type[c]]]
     /\ told' = [c \in Conns |-> IF c \in heard \ freed THEN n.reply[c] ELSE told[c]]
     /\ inbox' = [c \in Conns |-> IF c \in freed THEN <<>> ELSE box[c]]

\* A service connects, and client_listen_thread accepts it between two rounds.
Accept(c) ==
  /\ exec = "none" /\ round = [clients |-> {}, self |-> FALSE]
  /\ m.type[c] = "none"
  /\ m' = [m EXCEPT !.type[c] = "NOTIFY"]
  /\ UNCHANGED <<lost, asked, inbox, told, round, exec, tries, cp2, events, pc, used>>

\* A service asks for something; it has no other request open.
Request(c, e) ==
  /\ used.requests < MaxRequests
  /\ m.type[c] # "none" /\ ~Gone(c) /\ told[c] # "wait"
  /\ inbox' = [inbox EXCEPT ![c] = Append(@, e)]
  /\ told' = [told EXCEPT ![c] = "wait"]
  /\ asked' = [asked EXCEPT ![c] = e]
  /\ used' = [used EXCEPT !.requests = @ + 1]
  /\ UNCHANGED <<lost, m, round, exec, tries, cp2, events, pc>>

\* A service closes its end, answered or not.
Hangup(c) ==
  /\ used.hangups < MaxHangups
  /\ m.type[c] # "none" /\ ~Gone(c)
  /\ inbox' = [inbox EXCEPT ![c] = Append(@, "EOF")]
  /\ told' = [told EXCEPT ![c] = "none"]
  /\ used' = [used EXCEPT !.hangups = @ + 1]
  /\ UNCHANGED <<lost, asked, m, round, exec, tries, cp2, events, pc>>

\* WcnManagerService answers an exception with a reset.
ManagerResets ==
  /\ told[Manager] = "EXCEPTION"
  /\ inbox' = [inbox EXCEPT ![Manager] = Append(@, "reset")]
  /\ told' = [told EXCEPT ![Manager] = "none"]
  /\ UNCHANGED <<lost, asked, m, round, exec, tries, cp2, events, pc, used>>

-----------------------------------------------------------------------------
(* client_listen_thread                                                    *)

\* select: what is readable now makes the round.
Select ==
  /\ exec = "none" /\ round = [clients |-> {}, self |-> FALSE]
  /\ round' = [clients |-> {c \in Conns : m.type[c] # "none" /\ inbox[c] # <<>>},
               self |-> m.self # <<>>]
  /\ round' # round
  /\ UNCHANGED <<lost, asked, m, inbox, told, exec, tries, cp2, events, pc, used>>

\* process_active_client_fd on a client.
ReadClient(c) ==
  /\ exec = "none" /\ c \in round.clients
  /\ round' = [round EXCEPT !.clients = @ \ {c}]
  /\ LET e == Head(inbox[c])
         rest == [inbox EXCEPT ![c] = Tail(@)]
     IN \/ /\ inbox[c] = <<>>                 \* freed earlier in this round
           /\ UNCHANGED <<m, inbox, told, exec>>
        \/ /\ inbox[c] # <<>> /\ e = "EOF"
           /\ m' = [m EXCEPT !.type[c] = "none"]
           /\ inbox' = [inbox EXCEPT ![c] = <<>>]
           /\ UNCHANGED <<told, exec>>
        \/ /\ inbox[c] # <<>> /\ e = "reset"
           /\ inbox' = rest
           /\ exec' = IF m.error THEN "prepare" ELSE "none"
           /\ UNCHANGED <<m, told>>
        \/ /\ inbox[c] # <<>> /\ e \notin {"EOF", "reset"}
           /\ Deliver(wcnd_sm_step([m EXCEPT !.type[c] = "CMD"], e, c), rest)
           /\ UNCHANGED exec
  /\ UNCHANGED <<lost, asked, tries, cp2, events, pc, used>>

\* The event a self command hands to the state machine.
EventOf(x) == CASE x = "pendingevent" -> "PENDING"
                [] x = "cp2assert" -> "CP2_ASSERT"
                [] x = "poweron" -> "POWERON"
                [] x = "poweroff" -> "POWEROFF"

\* wcnd_runcommand for a self command.
RunSelf(n, x) ==
  CASE x = "startcp2" -> /\ m' = [n EXCEPT !.resetting = TRUE]
                         /\ exec' = "boot"
                         /\ UNCHANGED <<told, inbox>>
    [] x = "stopcp2" -> /\ m' = n
                        /\ exec' = "close"
                        /\ UNCHANGED <<told, inbox>>
    [] x = "getcp2version" -> /\ m' = [n EXCEPT !.version = TRUE]
                              /\ UNCHANGED <<told, inbox, exec>>
    [] OTHER -> /\ Deliver(wcnd_sm_step(n, EventOf(x), "none"), inbox)
                /\ UNCHANGED exec

\* process_active_client_fd on the socket pair, after the clients.  The read takes all
\* that is there, and wcnd_send_selfcmd writes no null character: two commands make one
\* string, which is no command.
ReadSelf ==
  /\ exec = "none" /\ round.clients = {} /\ round.self
  /\ round' = [round EXCEPT !.self = FALSE]
  /\ LET n == [m EXCEPT !.self = <<>>] IN
     IF Len(m.self) > 1
       THEN /\ m' = n
            /\ lost' = lost \cup Range(m.self)
            /\ UNCHANGED <<told, inbox, exec>>
       ELSE /\ RunSelf(n, Head(m.self))
            /\ UNCHANGED lost
  /\ tries' = 0
  /\ UNCHANGED <<asked, cp2, events, pc, used>>

\* wcnd_do_wcn_reset_process: prepare_cp2_recovery and wcnd_before_reset.
Prepare ==
  /\ exec = "prepare"
  /\ exec' = IF ResetEnabled THEN "boot" ELSE "none"
  /\ m' = [m EXCEPT !.resetting = ResetEnabled \/ @]
  /\ tries' = 0
  /\ UNCHANGED <<lost, asked, inbox, told, round, cp2, events, pc, used>>

\* wcnd_reboot_cp2 and polling_test_after_reset, once.
BootAttempt ==
  /\ exec = "boot" /\ tries <= Retries
  /\ \/ cp2' = "up" /\ exec' = "alive"
     \/ cp2' \in {"off", "dead"} /\ UNCHANGED exec
  /\ tries' = tries + 1
  /\ UNCHANGED <<lost, asked, m, inbox, told, round, events, pc, used>>

BootGiveUp ==
  /\ exec = "boot" /\ tries > Retries
  /\ Deliver(wcnd_sm_step([m EXCEPT !.resetting = FALSE], "CP2_DOWN", "none"), inbox)
  /\ exec' = "none"
  /\ UNCHANGED <<lost, asked, round, tries, cp2, events, pc, used>>

\* doing_reset = 0 ...
BootAlive ==
  /\ exec = "alive"
  /\ m' = [m EXCEPT !.resetting = FALSE]
  /\ exec' = "done"
  /\ UNCHANGED <<lost, asked, inbox, told, round, tries, cp2, events, pc, used>>

\* ... then is_cp2_error = 0 and CP2_OK.
BootDone ==
  /\ exec = "done"
  /\ Deliver(wcnd_sm_step([m EXCEPT !.error = FALSE], "CP2_OK", "none"), inbox)
  /\ exec' = "none"
  /\ UNCHANGED <<lost, asked, round, tries, cp2, events, pc, used>>

\* wcnd_close_cp2: a CP2 that does not take the sleep command is not stopped.
Close ==
  /\ exec = "close"
  /\ cp2' \in {"off", cp2}
  /\ Deliver(wcnd_sm_step(m, "CP2_DOWN", "none"), inbox)
  /\ exec' = "none"
  /\ UNCHANGED <<lost, asked, round, tries, events, pc, used>>

-----------------------------------------------------------------------------
(* CP2 and the threads that watch it                                       *)

\* CP2 fails: it asserts, its watchdog fires, or it just stops answering.
Crash ==
  /\ used.crashes < MaxCrashes
  /\ cp2 = "up"
  /\ cp2' = "dead"
  /\ events' \in {events, events \cup {"assert"}, events \cup {"watchdog"}}
  /\ used' = [used EXCEPT !.crashes = @ + 1]
  /\ UNCHANGED <<lost, asked, m, inbox, told, round, exec, tries, pc>>

Goto(t, l) == pc' = [pc EXCEPT ![t] = l]

\* handle_cp2_assert, handle_cp2_watchdog_exception: the flag, then the read.
Listen(x) ==
  /\ pc["listen"] = "wait" /\ x \in events
  /\ m' = [m EXCEPT !.error = TRUE]
  /\ events' = events \ {x}
  /\ Goto("listen", "check")
  /\ UNCHANGED <<lost, asked, inbox, told, round, exec, tries, cp2, used>>

\* A reset in progress is taken to cover this exception.
ExceptionCheck(t) ==
  /\ pc[t] = "check"
  /\ Goto(t, IF m.resetting THEN "wait" ELSE "send")
  /\ UNCHANGED <<lost, asked, m, inbox, told, round, exec, tries, cp2, events, used>>

\* notify_cp2_exception: the state machine is told ...
ExceptionSend(t) ==
  /\ pc[t] = "send"
  /\ m' = wcnd_send_selfcmd(m, "cp2assert")
  /\ Goto(t, "notify")
  /\ UNCHANGED <<lost, asked, inbox, told, round, exec, tries, cp2, events, used>>

\* ... then the clients, when they may be.
ExceptionNotify(t) ==
  /\ pc[t] = "notify"
  /\ told' = IF m.notify THEN [told EXCEPT ![Manager] = "EXCEPTION"] ELSE told
  /\ Goto(t, "wait")
  /\ UNCHANGED <<lost, asked, m, inbox, round, exec, tries, cp2, events, used>>

\* cp2_loop_check_thread: an exception at start-up is reported once more ...
LoopBoot ==
  /\ pc["loop"] = "boot"
  /\ Goto("loop", IF m.error /\ ~m.resetting /\ ResetEnabled THEN "check" ELSE "wait")
  /\ UNCHANGED <<lost, asked, m, inbox, told, round, exec, tries, cp2, events, used>>

LoopBegin ==
  /\ pc["loop"] = "wait"
  /\ m.notify /\ m.state = "STARTED" /\ ~m.error
  /\ Goto("loop", "probe")
  /\ UNCHANGED <<lost, asked, m, inbox, told, round, exec, tries, cp2, events, used>>

\* Variant: the count of failed probes starts over with every probe.
LoopProbe_Once(l) ==
  /\ pc["loop"] = l /\ l \in {"probe", "again"}
  /\ Goto("loop", "wait")
  /\ UNCHANGED <<lost, asked, m, inbox, told, round, exec, tries, cp2, events, used>>

\* ... and a CP2 that fails two probes, with no exception meanwhile, has one.
LoopProbe(l) ==
  /\ pc["loop"] = l /\ l \in {"probe", "again"}
  /\ LET failed == cp2 # "up" /\ ~m.error /\ m.state = "STARTED" IN
     /\ Goto("loop", IF ~failed THEN "wait" ELSE IF l = "probe" THEN "again" ELSE "check")
     /\ m' = IF failed /\ l = "again" THEN [m EXCEPT !.error = TRUE] ELSE m
  /\ UNCHANGED <<lost, asked, inbox, told, round, exec, tries, cp2, events, used>>

\* main, store_cp2_version_info: power on, wait, read the version, power off.
Main ==
  /\ \/ /\ pc["main"] = "poweron"
        /\ m' = wcnd_send_selfcmd(m, "poweron")
        /\ Goto("main", "started")
     \/ /\ pc["main"] = "started"               \* ten seconds at most
        /\ m' = IF m.state = "STARTED" THEN wcnd_send_selfcmd(m, "getcp2version") ELSE m
        /\ Goto("main", IF m.state = "STARTED" THEN "version" ELSE "done")
     \/ /\ pc["main"] = "version"               \* ten seconds at most
        /\ m' = wcnd_send_selfcmd(m, "poweroff")
        /\ Goto("main", "done")
  /\ UNCHANGED <<lost, asked, inbox, told, round, exec, tries, cp2, events, used>>

-----------------------------------------------------------------------------

ClientThread ==
  \/ Select \/ ReadSelf \/ Prepare \/ BootAttempt \/ BootGiveUp \/ BootAlive \/ BootDone \/ Close
  \/ \E c \in Conns : ReadClient(c)

Watcher(t) == ExceptionCheck(t) \/ ExceptionSend(t) \/ ExceptionNotify(t)

Environment ==
  \/ Crash
  \/ \E c \in Clients : Accept(c) \/ Hangup(c) \/ \E e \in Requests[c] : Request(c, e)

Next ==
  \/ Environment \/ ClientThread \/ ManagerResets \/ Main
  \/ \E x \in {"assert", "watchdog"} : Listen(x)
  \/ LoopBoot \/ LoopBegin \/ \E l \in {"probe", "again"} : LoopProbe(l)
  \/ \E t \in Threads : Watcher(t)

Spec == Init /\ [][Next]_vars

\* Every thread of the daemon runs; services come and ask as they like.
Fairness ==
  /\ WF_vars(ClientThread)
  /\ WF_vars(ManagerResets)
  /\ WF_vars(Main)
  /\ WF_vars(\E x \in {"assert", "watchdog"} : Listen(x))
  /\ WF_vars(LoopBoot \/ LoopBegin \/ \E l \in {"probe", "again"} : LoopProbe(l))
  /\ \A t \in Threads : WF_vars(Watcher(t))

FairSpec == Spec /\ Fairness

-----------------------------------------------------------------------------
(* Properties                                                              *)

SelfCmds == {"startcp2", "stopcp2", "pendingevent", "cp2assert", "poweron", "poweroff",
             "getcp2version"}

States == {"STOPPED", "STARTING", "STARTED", "ASSERT", "STOPPING"}

ClientEvents == OpenEvents \cup CloseEvents \cup {"POWERON", "POWEROFF"}

Managers ==
  [state : States, on : SUBSET Radios, saved : SUBSET Radios,
   pending : SUBSET (OpenEvents \cup {"POWERON"}),
   notify : BOOLEAN, error : BOOLEAN, resetting : BOOLEAN, version : BOOLEAN,
   self : Seq(SelfCmds),
   type : [Conns -> AnyCmd \cup {"none", "NOTIFY", "CMD_PENDING", "SLEEP"}],
   reply : [Conns -> {"", "OK", "FAIL"}]]

\* Among the types: only opens and power-ons are ever parked, and a round reads the
\* socket pair only when something is there.
TypeOK ==
  /\ m \in Managers
  /\ inbox \in [Conns -> Seq(ClientEvents \cup {"EOF", "reset"})]
  /\ told \in [Conns -> {"none", "wait", "OK", "FAIL", "EXCEPTION"}]
  /\ exec \in {"none", "prepare", "boot", "alive", "done", "close"}
  /\ round \in [clients : SUBSET Conns, self : BOOLEAN]
  /\ round.self => m.self # <<>>

\* The machine waits in STARTING or STOPPING only for a command that is on its way:
\* startcp2 or stopcp2 is unread on the socket pair, or being carried out, unless such a
\* command was read together with another one.
NeverStuck ==
  /\ m.state = "STARTING" => \/ "startcp2" \in Range(m.self) \cup lost
                              \/ exec \in {"boot", "alive", "done"}
  /\ m.state = "STOPPING" => "stopcp2" \in Range(m.self) \cup lost \/ exec = "close"

\* Every request of a service that stays connected is answered: at once, when CP2
\* has started or stopped, or after the stop that parked it, unless a command on that
\* way was read together with another one.
RequestsAnswered ==
  \A c \in Clients :
    told[c] = "wait" ~> told[c] # "wait" \/ lost \cap {"startcp2", "stopcp2", "pendingevent"} # {}

\* A CP2 that stops answering while it is in use is noticed, even when neither the
\* assert nor the watchdog device says so: the loop check raises the error flag.
HangNoticed == cp2 = "dead" /\ m.state = "STARTED"
                 ~> m.error \/ cp2 # "dead" \/ m.state # "STARTED"

\* An exception is followed by a reset: the machine does not stay in ASSERT
\* (handle_cp2_assert's comment, steps 1 to 3).
AssertIsLeft == m.state = "ASSERT" ~> m.state # "ASSERT"

\* CP2_OK meets the STOPPED state at start-up only (wcnd_sm.c:84).
OkOnlyAtStartup == ~(exec = "done" /\ m.state = "STOPPED")

\* CP2 is started for somebody who waits for it (a pending event is handled in the
\* next state, wcnd.h:245, not in every later one).
StartedOnDemand ==
  [][m.state # "STARTING" /\ m'.state = "STARTING" => \E c \in Clients : told[c] = "wait"]_vars

\* A service whose open was answered with OK holds CP2, also when the open was parked
\* while CP2 was stopping (wcnd.h:245: it is handled in the next state), as long as CP2
\* has not failed and no pendingevent was read together with another command.
OpenHolds ==
  used.crashes = 0 /\ "pendingevent" \notin lost =>
    \A c \in Clients : asked[c] \in OpenEvents /\ told[c] = "OK" => RadioOf(asked[c]) \subseteq m.on

=============================================================================
