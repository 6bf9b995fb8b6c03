---------------------------- MODULE WcnSm_proofs ----------------------------
(***************************************************************************)
(* TypeOK and NeverStuck for any number of clients, requests, crashes and  *)
(* hang-ups, however the commands on the socket pair run together.         *)
(* NeverStuck is inductive over TypeOK; the argument is in StepTakesOn:    *)
(* an event of the state machine enters STARTING or STOPPING only with the *)
(* command that will leave it, keeps what is on the socket pair, and       *)
(* CP2_OK and CP2_DOWN never leave it in STARTING.                         *)
(***************************************************************************)
EXTENDS WcnSm, TLAPS

-----------------------------------------------------------------------------
(* The socket pair as a sequence                                           *)

\* Appending a command keeps those already written.
LEMMA RangeOfAppend ==
  ASSUME NEW S, NEW q \in Seq(S), NEW x \in S
  PROVE  /\ Append(q, x) \in Seq(S)
         /\ Range(q) \subseteq Range(Append(q, x))
         /\ x \in Range(Append(q, x))
<1>1. Append(q, x) \in Seq(S) OBVIOUS
<1>2. ASSUME NEW i \in DOMAIN q PROVE q[i] \in Range(Append(q, x))
  <2>1. i \in DOMAIN Append(q, x) /\ Append(q, x)[i] = q[i] OBVIOUS
  <2> QED BY <2>1 DEF Range
<1>3. Len(q) + 1 \in DOMAIN Append(q, x) /\ Append(q, x)[Len(q) + 1] = x OBVIOUS
<1> QED BY <1>1, <1>2, <1>3 DEF Range

\* What is there to read is one command or more.
LEMMA OneOrMore ==
  ASSUME NEW S, NEW q \in Seq(S), q # <<>> PROVE Len(q) > 1 \/ Len(q) = 1
<1>1. Len(q) \in Nat /\ Len(q) # 0 OBVIOUS
<1>2. \A i \in Nat : i # 0 => i > 1 \/ i = 1 OBVIOUS
<1> QED BY <1>1, <1>2, Zenon

-----------------------------------------------------------------------------
(* The state machine                                                       *)

\* The helpers keep a manager well formed and touch the fields they are for.
LEMMA ReplyManager ==
  ASSUME NEW n \in Managers, NEW T, NEW r \in {"OK", "FAIL"}
  PROVE  LET k == wcnd_send_notify_to_client(n, T, r)
         IN k \in Managers /\ k.state = n.state /\ k.self = n.self /\ k.pending = n.pending
BY DEF wcnd_send_notify_to_client, Managers

LEMMA SetTypeManager ==
  ASSUME NEW n \in Managers, NEW c, NEW t \in AnyCmd \cup {"none", "NOTIFY", "CMD_PENDING", "SLEEP"}
  PROVE  LET k == SetType(n, c, t)
         IN k \in Managers /\ k.state = n.state /\ k.self = n.self /\ k.pending = n.pending
BY DEF SetType, Managers

LEMMA RadioOfType ==
  ASSUME NEW e PROVE RadioOf(e) \subseteq Radios
BY DEF RadioOf, Radios

LEMMA SetOnManager ==
  ASSUME NEW n \in Managers, NEW e
  PROVE  LET k == SetOn(n, e)
         IN k \in Managers /\ k.state = n.state /\ k.self = n.self /\ k.pending = n.pending
BY RadioOfType DEF SetOn, Managers

LEMMA SelfManager ==
  ASSUME NEW n \in Managers, NEW x \in SelfCmds
  PROVE  LET k == wcnd_send_selfcmd(n, x)
         IN /\ k \in Managers /\ k.state = n.state
            /\ Range(n.self) \subseteq Range(k.self) /\ x \in Range(k.self)
<1>1. n.self \in Seq(SelfCmds) BY DEF Managers
<1>2. /\ Append(n.self, x) \in Seq(SelfCmds)
      /\ Range(n.self) \subseteq Range(Append(n.self, x))
      /\ x \in Range(Append(n.self, x))
  BY <1>1, RangeOfAppend
<1> QED BY <1>2 DEF wcnd_send_selfcmd, Managers

LEMMA EnterManager ==
  ASSUME NEW n \in Managers, NEW s \in States, NEW x \in SelfCmds
  PROVE  LET k == Enter(n, s, x)
         IN /\ k \in Managers /\ k.state = s
            /\ Range(n.self) \subseteq Range(k.self) /\ x \in Range(k.self)
<1> DEFINE p == [n EXCEPT !.state = s]
<1>1. p \in Managers /\ p.state = s /\ p.self = n.self BY DEF Managers
<1> HIDE DEF p
<1>2. wcnd_send_selfcmd(p, x) \in Managers
      /\ wcnd_send_selfcmd(p, x).state = p.state
      /\ Range(p.self) \subseteq Range(wcnd_send_selfcmd(p, x).self)
      /\ x \in Range(wcnd_send_selfcmd(p, x).self)
  BY <1>1, SelfManager
<1>3. Enter(n, s, x) = wcnd_send_selfcmd(p, x) BY DEF Enter, p
<1> QED BY <1>1, <1>2, <1>3

\* What an event of the state machine may do to a manager.
TakesOn(n, e, k) ==
  /\ k \in Managers
  /\ Range(n.self) \subseteq Range(k.self)
  /\ k.state = "STARTING" => \/ "startcp2" \in Range(k.self)
                             \/ n.state = "STARTING" /\ e \notin {"CP2_OK", "CP2_DOWN"}
  /\ k.state = "STOPPING" => \/ "stopcp2" \in Range(k.self)
                             \/ n.state = "STOPPING" /\ e # "CP2_DOWN"

LEMMA StoppedTakesOn ==
  ASSUME NEW m0 \in Managers, m0.state = "STOPPED", NEW e
  PROVE  TakesOn(m0, e, wcn_state_cp2_stopped(m0, e))
<1> DEFINE n == [m0 EXCEPT !.notify = FALSE]
           k == [n EXCEPT !.on = @ \cup UNION {RadioOf(p) : p \in n.pending}]
           ok == [n EXCEPT !.state = "STARTED", !.notify = TRUE]
<1>1. n \in Managers /\ n.state = "STOPPED" /\ n.self = m0.self BY DEF Managers
<1>2. UNION {RadioOf(p) : p \in n.pending} \subseteq Radios BY RadioOfType
<1>3. k \in Managers /\ k.state = "STOPPED" /\ k.self = m0.self BY <1>1, <1>2 DEF Managers
<1>4. ok \in Managers /\ ok.state = "STARTED" /\ ok.self = m0.self BY <1>1 DEF Managers, States
<1>5. wcn_state_cp2_stopped(m0, e) \in
        {Enter(SetOn(n, e), "STARTING", "startcp2"), wcnd_send_notify_to_client(n, AnyCmd, "OK"),
         Enter(k, "STARTING", "startcp2"), k, Enter(n, "STARTING", "startcp2"), ok, n}
  BY DEF wcn_state_cp2_stopped
<1> HIDE DEF n, k, ok
<1>6. "startcp2" \in SelfCmds /\ "STARTING" \in States BY DEF SelfCmds, States
<1>7. CASE wcn_state_cp2_stopped(m0, e) = Enter(SetOn(n, e), "STARTING", "startcp2")
  <2>1. SetOn(n, e) \in Managers /\ SetOn(n, e).self = m0.self BY <1>1, SetOnManager
  <2> QED BY <1>6, <1>7, <2>1, EnterManager DEF TakesOn
<1>8. CASE wcn_state_cp2_stopped(m0, e) = wcnd_send_notify_to_client(n, AnyCmd, "OK")
  BY <1>1, <1>8, ReplyManager DEF TakesOn
<1>9. CASE wcn_state_cp2_stopped(m0, e) = Enter(k, "STARTING", "startcp2")
  BY <1>3, <1>6, <1>9, EnterManager DEF TakesOn
<1>10. CASE wcn_state_cp2_stopped(m0, e) = Enter(n, "STARTING", "startcp2")
  BY <1>1, <1>6, <1>10, EnterManager DEF TakesOn
<1>11. CASE wcn_state_cp2_stopped(m0, e) \in {k, ok, n}
  BY <1>1, <1>3, <1>4, <1>11 DEF TakesOn
<1> QED BY <1>5, <1>7, <1>8, <1>9, <1>10, <1>11

LEMMA StartingTakesOn ==
  ASSUME NEW m0 \in Managers, m0.state = "STARTING", NEW e
  PROVE  TakesOn(m0, e, wcn_state_cp2_starting(m0, e))
<1> DEFINE n == [m0 EXCEPT !.notify = FALSE]
           ok == [n EXCEPT !.state = "STARTED", !.notify = TRUE]
           down == [n EXCEPT !.state = "STOPPED"]
           all == AnyCmd \cup {"CMD_PENDING"}
<1>1. n \in Managers /\ n.state = "STARTING" /\ n.self = m0.self BY DEF Managers
<1>2. ok \in Managers /\ ok.state = "STARTED" /\ ok.self = m0.self BY <1>1 DEF Managers, States
<1>3. down \in Managers /\ down.state = "STOPPED" /\ down.self = m0.self
  BY <1>1 DEF Managers, States
<1>4. \/ /\ e \notin {"CP2_OK", "CP2_DOWN"}
         /\ wcn_state_cp2_starting(m0, e) \in
              {wcnd_send_notify_to_client(n, AnyCmd, "OK"), SetOn(n, e), n}
      \/ wcn_state_cp2_starting(m0, e) \in {wcnd_send_notify_to_client(ok, all, "OK"),
                                            wcnd_send_notify_to_client(down, all, "FAIL")}
  BY DEF wcn_state_cp2_starting, OpenEvents, CloseEvents
<1> HIDE DEF n, ok, down, all
<1>5. \A k \in {wcnd_send_notify_to_client(n, AnyCmd, "OK"), SetOn(n, e), n} :
        k \in Managers /\ k.state = "STARTING" /\ k.self = m0.self
  BY <1>1, ReplyManager, SetOnManager
<1>6. \A k \in {wcnd_send_notify_to_client(ok, all, "OK"),
                wcnd_send_notify_to_client(down, all, "FAIL")} :
        k \in Managers /\ k.state \in {"STARTED", "STOPPED"} /\ k.self = m0.self
  BY <1>2, <1>3, ReplyManager
<1> QED BY <1>4, <1>5, <1>6 DEF TakesOn

LEMMA StartedTakesOn ==
  ASSUME NEW m0 \in Managers, m0.state = "STARTED", NEW e
  PROVE  TakesOn(m0, e, wcn_state_cp2_started(m0, e))
<1> DEFINE n == [m0 EXCEPT !.notify = TRUE]
           off == [n EXCEPT !.on = @ \ RadioOf(e)]
           kept == [n EXCEPT !.saved = @ \ RadioOf(e)]
           hit == [n EXCEPT !.saved = n.on, !.state = "ASSERT"]
           down == [n EXCEPT !.state = "STOPPED"]
<1>1. n \in Managers /\ n.state = "STARTED" /\ n.self = m0.self BY DEF Managers
<1>2. off \in Managers /\ off.state = "STARTED" /\ off.self = m0.self BY <1>1 DEF Managers
<1>3. kept \in Managers /\ kept.state = "STARTED" /\ kept.self = m0.self BY <1>1 DEF Managers
<1>4. hit \in Managers /\ hit.state = "ASSERT" /\ hit.self = m0.self BY <1>1 DEF Managers, States
<1>5. down \in Managers /\ down.state = "STOPPED" /\ down.self = m0.self
  BY <1>1 DEF Managers, States
<1>6. wcn_state_cp2_started(m0, e) \in
        {wcnd_send_notify_to_client(kept, AnyCmd, "OK"), Enter(off, "STOPPING", "stopcp2"),
         wcnd_send_notify_to_client(off, AnyCmd, "OK"),
         wcnd_send_notify_to_client(SetOn(n, e), AnyCmd, "OK"), hit, down, n}
  BY DEF wcn_state_cp2_started
<1> HIDE DEF n, off, kept, hit, down
<1>7. CASE wcn_state_cp2_started(m0, e) = Enter(off, "STOPPING", "stopcp2")
  <2>1. "stopcp2" \in SelfCmds /\ "STOPPING" \in States BY DEF SelfCmds, States
  <2> QED BY <1>2, <1>7, <2>1, EnterManager DEF TakesOn
<1>8. CASE wcn_state_cp2_started(m0, e) = wcnd_send_notify_to_client(SetOn(n, e), AnyCmd, "OK")
  <2>1. SetOn(n, e) \in Managers /\ SetOn(n, e).state = "STARTED" /\ SetOn(n, e).self = m0.self
    BY <1>1, SetOnManager
  <2> QED BY <1>8, <2>1, ReplyManager DEF TakesOn
<1>9. CASE wcn_state_cp2_started(m0, e) \in {wcnd_send_notify_to_client(kept, AnyCmd, "OK"),
                                             wcnd_send_notify_to_client(off, AnyCmd, "OK")}
  BY <1>2, <1>3, <1>9, ReplyManager DEF TakesOn
<1>10. CASE wcn_state_cp2_started(m0, e) \in {hit, down, n}
  BY <1>1, <1>4, <1>5, <1>10 DEF TakesOn
<1> QED BY <1>6, <1>7, <1>8, <1>9, <1>10

LEMMA AssertTakesOn ==
  ASSUME NEW m0 \in Managers, m0.state = "ASSERT", NEW e, NEW c
  PROVE  TakesOn(m0, e, wcn_state_cp2_assert(m0, e, c))
<1> DEFINE n == [m0 EXCEPT !.notify = TRUE]
           kept == [n EXCEPT !.saved = @ \ RadioOf(e)]
           ok == [n EXCEPT !.state = "STARTED"]
           down == [n EXCEPT !.state = "STOPPED"]
           closed == SetType(kept, c, "CMD_CLOSE")
           opened == SetType(SetOn(n, e), c, "CMD_OPEN")
<1>1. n \in Managers /\ n.state = "ASSERT" /\ n.self = m0.self BY DEF Managers
<1>2. kept \in Managers /\ kept.state = "ASSERT" /\ kept.self = m0.self BY <1>1 DEF Managers
<1>3. ok \in Managers /\ ok.state = "STARTED" /\ ok.self = m0.self BY <1>1 DEF Managers, States
<1>4. down \in Managers /\ down.state = "STOPPED" /\ down.self = m0.self
  BY <1>1 DEF Managers, States
<1>5. wcn_state_cp2_assert(m0, e, c) \in
        {wcnd_send_notify_to_client(closed, {"CMD_CLOSE"}, "OK"), opened,
         wcnd_send_notify_to_client(ok, AnyCmd, "OK"),
         wcnd_send_notify_to_client(down, AnyCmd, "FAIL"), n}
  BY DEF wcn_state_cp2_assert
<1> HIDE DEF n, kept, ok, down
<1>6. closed \in Managers /\ closed.state = "ASSERT" /\ closed.self = m0.self
  BY <1>2, SetTypeManager DEF AnyCmd
<1>7. SetOn(n, e) \in Managers /\ SetOn(n, e).state = "ASSERT" /\ SetOn(n, e).self = m0.self
  BY <1>1, SetOnManager
<1>8. opened \in Managers /\ opened.state = "ASSERT" /\ opened.self = m0.self
  BY <1>7, SetTypeManager DEF AnyCmd
<1> HIDE DEF closed, opened
<1>9. \A k \in {wcnd_send_notify_to_client(closed, {"CMD_CLOSE"}, "OK"), opened,
                wcnd_send_notify_to_client(ok, AnyCmd, "OK"),
                wcnd_send_notify_to_client(down, AnyCmd, "FAIL"), n} :
        /\ k \in Managers /\ k.self = m0.self
        /\ k.state \in {"ASSERT", "STARTED", "STOPPED"}
  BY <1>1, <1>3, <1>4, <1>6, <1>8, ReplyManager
<1> QED BY <1>5, <1>9 DEF TakesOn

LEMMA StoppingTakesOn ==
  ASSUME NEW m0 \in Managers, m0.state = "STOPPING", NEW e, NEW c
  PROVE  TakesOn(m0, e, wcn_state_cp2_stopping(m0, e, c))
<1> DEFINE n == [m0 EXCEPT !.notify = FALSE]
           typed == SetType(n, c, "CMD_PENDING")
           parked == [typed EXCEPT !.pending = @ \cup {e}]
           off == [n EXCEPT !.state = "STOPPED"]
           down == wcnd_send_notify_to_client(off, AnyCmd, "OK")
<1>1. n \in Managers /\ n.state = "STOPPING" /\ n.self = m0.self BY DEF Managers
<1>2. off \in Managers /\ off.state = "STOPPED" /\ off.self = m0.self
  BY <1>1 DEF Managers, States
<1>3. \/ /\ e \in OpenEvents \cup {"POWERON"}
         /\ wcn_state_cp2_stopping(m0, e, c) = parked
      \/ wcn_state_cp2_stopping(m0, e, c) \in {wcnd_send_selfcmd(down, "pendingevent"), down}
      \/ e # "CP2_DOWN" /\ wcn_state_cp2_stopping(m0, e, c) = n
  BY DEF wcn_state_cp2_stopping
<1> HIDE DEF n, off
<1>4. typed \in Managers /\ typed.state = "STOPPING" /\ typed.self = m0.self
  BY <1>1, SetTypeManager
<1> HIDE DEF typed
<1>5. e \in OpenEvents \cup {"POWERON"} =>
        parked \in Managers /\ parked.state = "STOPPING" /\ parked.self = m0.self
  <2> SUFFICES ASSUME e \in OpenEvents \cup {"POWERON"}
               PROVE parked \in Managers /\ parked.state = "STOPPING" /\ parked.self = m0.self
    OBVIOUS
  <2>1. typed.pending \cup {e} \in SUBSET (OpenEvents \cup {"POWERON"}) BY <1>4 DEF Managers
  <2> QED BY <1>4, <2>1 DEF Managers
<1>6. down \in Managers /\ down.state = "STOPPED" /\ down.self = m0.self
  BY <1>2, ReplyManager
<1> HIDE DEF parked, down
<1>7. "pendingevent" \in SelfCmds BY DEF SelfCmds
<1>8. CASE e \in OpenEvents \cup {"POWERON"} /\ wcn_state_cp2_stopping(m0, e, c) = parked
  BY <1>5, <1>8 DEF TakesOn, OpenEvents
<1>9. CASE wcn_state_cp2_stopping(m0, e, c) = wcnd_send_selfcmd(down, "pendingevent")
  BY <1>6, <1>7, <1>9, SelfManager DEF TakesOn
<1>10. CASE wcn_state_cp2_stopping(m0, e, c) = down BY <1>6, <1>10 DEF TakesOn
<1>11. CASE e # "CP2_DOWN" /\ wcn_state_cp2_stopping(m0, e, c) = n BY <1>1, <1>11 DEF TakesOn
<1> QED BY <1>3, <1>8, <1>9, <1>10, <1>11

\* Whatever the state: an event enters STARTING or STOPPING only together with the
\* command that leaves it, and takes nothing from the socket pair.
LEMMA StepTakesOn ==
  ASSUME NEW n \in Managers, NEW e, NEW c
  PROVE  TakesOn(n, e, wcnd_sm_step(n, e, c))
<1>1. n.state \in States BY DEF Managers
<1> QED BY <1>1, StoppedTakesOn, StartingTakesOn, StartedTakesOn, AssertTakesOn, StoppingTakesOn
        DEF wcnd_sm_step, States

-----------------------------------------------------------------------------
(* The specification                                                       *)

\* Handing out the replies leaves the state and the socket pair alone.
LEMMA DeliverType ==
  ASSUME TypeOK, NEW n \in Managers,
         NEW box \in [Conns -> Seq(ClientEvents \cup {"EOF", "reset"})],
         Deliver(n, box)
  PROVE  /\ m' \in Managers /\ m'.state = n.state /\ m'.self = n.self
         /\ inbox' \in [Conns -> Seq(ClientEvents \cup {"EOF", "reset"})]
         /\ told' \in [Conns -> {"none", "wait", "OK", "FAIL", "EXCEPTION"}]
<1> DEFINE heard == {c \in Conns : n.reply[c] # ""}
           freed == {c \in heard : Gone(c)}
           types == [c \in Conns |-> IF c \in freed THEN "none" ELSE n.type[c]]
<1> HIDE DEF freed
<1>1. types \in [Conns -> AnyCmd \cup {"none", "NOTIFY", "CMD_PENDING", "SLEEP"}]
  BY DEF Managers
<1>2. Nothing \in [Conns -> {"", "OK", "FAIL"}] BY DEF Nothing
<1>3. m' = [n EXCEPT !.reply = Nothing, !.type = types] BY DEF Deliver, freed
<1> HIDE DEF types
<1>4. m' \in Managers /\ m'.state = n.state /\ m'.self = n.self BY <1>1, <1>2, <1>3 DEF Managers
<1>5. inbox' = [c \in Conns |-> IF c \in freed THEN <<>> ELSE box[c]] BY DEF Deliver, freed
<1>6. inbox' \in [Conns -> Seq(ClientEvents \cup {"EOF", "reset"})] BY <1>5
<1>7. told' = [c \in Conns |-> IF c \in heard \ freed THEN n.reply[c] ELSE told[c]]
  BY DEF Deliver, freed
<1>8. \A c \in heard : n.reply[c] \in {"OK", "FAIL"} BY DEF Managers
<1>9. told' \in [Conns -> {"none", "wait", "OK", "FAIL", "EXCEPTION"}]
  BY <1>7, <1>8 DEF TypeOK
<1> QED BY <1>4, <1>6, <1>9

Inv == TypeOK /\ NeverStuck

LEMMA InitInv == Init => Inv
<1> SUFFICES ASSUME Init PROVE Inv OBVIOUS
<1>1. Nothing \in [Conns -> {"", "OK", "FAIL"}] BY DEF Nothing
<1>2. [c \in Conns |-> IF c = Manager THEN "NOTIFY" ELSE "none"]
        \in [Conns -> AnyCmd \cup {"none", "NOTIFY", "CMD_PENDING", "SLEEP"}]
  OBVIOUS
<1>3. <<>> \in Seq(SelfCmds) /\ "STOPPED" \in States BY DEF States
<1>4. m \in Managers BY <1>1, <1>2, <1>3 DEF Init, Managers
<1>5. inbox \in [Conns -> Seq(ClientEvents \cup {"EOF", "reset"})] BY DEF Init
<1>6. told \in [Conns -> {"none", "wait", "OK", "FAIL", "EXCEPTION"}] BY DEF Init
<1>7. round \in [clients : SUBSET Conns, self : BOOLEAN] /\ ~round.self BY DEF Init
<1>8. exec = "none" /\ m.state = "STOPPED" BY DEF Init
<1> QED BY <1>4, <1>5, <1>6, <1>7, <1>8 DEF Inv, TypeOK, NeverStuck

\* A step of the state machine, its replies handed out, keeps the invariant: what n
\* lost from the socket pair is what client_listen_thread is carrying out.
LEMMA SmStep ==
  ASSUME TypeOK, NEW n \in Managers, NEW e, NEW c,
         NEW box \in [Conns -> Seq(ClientEvents \cup {"EOF", "reset"})],
         Deliver(wcnd_sm_step(n, e, c), box),
         exec' \in {"none"},
         round' \in [clients : SUBSET Conns, self : BOOLEAN],
         round'.self => n.self # <<>>,
         lost' = lost,
         n.state = "STARTING" => \/ "startcp2" \in Range(n.self) \cup lost
                                 \/ e \in {"CP2_OK", "CP2_DOWN"},
         n.state = "STOPPING" => "stopcp2" \in Range(n.self) \cup lost \/ e = "CP2_DOWN"
  PROVE  Inv'
<1> DEFINE k == wcnd_sm_step(n, e, c)
<1>1. TakesOn(n, e, k) BY StepTakesOn
<1> HIDE DEF k
<1>2. k \in Managers BY <1>1 DEF TakesOn
<1>3. Deliver(k, box) BY DEF k
<1>4. /\ m' \in Managers /\ m'.state = k.state /\ m'.self = k.self
      /\ inbox' \in [Conns -> Seq(ClientEvents \cup {"EOF", "reset"})]
      /\ told' \in [Conns -> {"none", "wait", "OK", "FAIL", "EXCEPTION"}]
  BY <1>2, <1>3, DeliverType
<1>5. n.self # <<>> => k.self # <<>>
  <2> SUFFICES ASSUME n.self # <<>> PROVE k.self # <<>> OBVIOUS
  <2>1. n.self \in Seq(SelfCmds) /\ k.self \in Seq(SelfCmds) BY <1>2 DEF Managers
  <2>2. 1 \in DOMAIN n.self BY <2>1
  <2>3. n.self[1] \in Range(k.self) BY <1>1, <2>2 DEF TakesOn, Range
  <2> QED BY <2>3 DEF Range
<1>6. TypeOK' BY <1>4, <1>5 DEF TypeOK
<1>7. NeverStuck' BY <1>1, <1>4 DEF NeverStuck, TakesOn
<1> QED BY <1>6, <1>7 DEF Inv

\* The environment's steps.
LEMMA EnvironmentInv ==
  ASSUME Inv, Environment \/ ManagerResets PROVE Inv'
<1> USE DEF Inv
<1>1. TypeOK /\ m \in Managers BY DEF TypeOK
<1>2. ASSUME NEW c \in Clients, NEW e \in Requests[c], Request(c, e) PROVE Inv'
  <2>1. c \in Conns /\ e \in ClientEvents
    BY WcnAssumption DEF Conns, ClientEvents, OpenEvents, CloseEvents
  <2>2. Append(inbox[c], e) \in Seq(ClientEvents \cup {"EOF", "reset"}) BY <1>1, <2>1 DEF TypeOK
  <2>3. inbox' \in [Conns -> Seq(ClientEvents \cup {"EOF", "reset"})]
    BY <1>1, <1>2, <2>2 DEF TypeOK, Request
  <2>4. told' \in [Conns -> {"none", "wait", "OK", "FAIL", "EXCEPTION"}]
    BY <1>1, <1>2 DEF TypeOK, Request
  <2> QED BY <1>1, <1>2, <2>3, <2>4 DEF Request, TypeOK, NeverStuck
<1>3. ASSUME NEW c \in Clients, Hangup(c) PROVE Inv'
  <2>1. c \in Conns BY DEF Conns
  <2>2. Append(inbox[c], "EOF") \in Seq(ClientEvents \cup {"EOF", "reset"}) BY <1>1, <2>1 DEF TypeOK
  <2>3. inbox' \in [Conns -> Seq(ClientEvents \cup {"EOF", "reset"})]
    BY <1>1, <1>3, <2>2 DEF TypeOK, Hangup
  <2>4. told' \in [Conns -> {"none", "wait", "OK", "FAIL", "EXCEPTION"}]
    BY <1>1, <1>3 DEF TypeOK, Hangup
  <2> QED BY <1>1, <1>3, <2>3, <2>4 DEF Hangup, TypeOK, NeverStuck
<1>4. ASSUME NEW c \in Clients, Accept(c) PROVE Inv'
  <2>1. m' \in Managers /\ m'.state = m.state /\ m'.self = m.self
    BY <1>1, <1>4 DEF Accept, Managers
  <2> QED BY <1>1, <1>4, <2>1 DEF Accept, TypeOK, NeverStuck
<1>5. CASE Crash BY <1>1, <1>5 DEF Crash, TypeOK, NeverStuck
<1>6. CASE ManagerResets
  <2>1. Manager \in Conns BY DEF Conns
  <2>2. Append(inbox[Manager], "reset") \in Seq(ClientEvents \cup {"EOF", "reset"})
    BY <1>1, <2>1 DEF TypeOK
  <2>3. inbox' \in [Conns -> Seq(ClientEvents \cup {"EOF", "reset"})]
    BY <1>1, <1>6, <2>2 DEF TypeOK, ManagerResets
  <2>4. told' \in [Conns -> {"none", "wait", "OK", "FAIL", "EXCEPTION"}]
    BY <1>1, <1>6 DEF TypeOK, ManagerResets
  <2> QED BY <1>1, <1>6, <2>3, <2>4 DEF ManagerResets, TypeOK, NeverStuck
<1> QED BY <1>2, <1>3, <1>4, <1>5, <1>6 DEF Environment

\* A thread that writes one command to the socket pair.
LEMMA WriteSelf ==
  ASSUME Inv, NEW x \in SelfCmds, m' = wcnd_send_selfcmd(m, x),
         UNCHANGED <<inbox, told, round, exec, lost>>
  PROVE  Inv'
<1>1. m \in Managers BY DEF Inv, TypeOK
<1>2. m' \in Managers /\ m'.state = m.state /\ Range(m.self) \subseteq Range(m'.self)
  BY <1>1, SelfManager
<1>3. m'.self # <<>>
  <2>1. x \in Range(m'.self) BY <1>1, SelfManager
  <2> QED BY <2>1 DEF Range
<1> QED BY <1>1, <1>2, <1>3 DEF Inv, TypeOK, NeverStuck

\* The watching threads and main.
LEMMA ThreadsInv ==
  ASSUME Inv,
         \/ Main \/ LoopBoot \/ LoopBegin
         \/ \E x \in {"assert", "watchdog"} : Listen(x)
         \/ \E l \in {"probe", "again"} : LoopProbe(l)
         \/ \E t \in Threads : Watcher(t)
  PROVE  Inv'
<1>1. TypeOK /\ NeverStuck /\ m \in Managers BY DEF Inv, TypeOK
<1>2. {"cp2assert", "poweron", "getcp2version", "poweroff"} \subseteq SelfCmds BY DEF SelfCmds
<1>3. [m EXCEPT !.error = TRUE] \in Managers
      /\ [m EXCEPT !.error = TRUE].state = m.state /\ [m EXCEPT !.error = TRUE].self = m.self
  BY <1>1 DEF Managers
<1>4. ASSUME m' \in {m, [m EXCEPT !.error = TRUE]}, UNCHANGED <<inbox, told, round, exec, lost>>
      PROVE Inv'
  BY <1>1, <1>3, <1>4 DEF Inv, TypeOK, NeverStuck
<1>5. CASE Main
  <2>1. CASE UNCHANGED m BY <1>4, <1>5, <2>1 DEF Main
  <2>2. CASE \E x \in {"poweron", "getcp2version", "poweroff"} : m' = wcnd_send_selfcmd(m, x)
    BY <1>2, <1>5, <2>2, WriteSelf DEF Main
  <2> QED BY <1>5, <2>1, <2>2 DEF Main
<1>6. CASE LoopBoot \/ LoopBegin BY <1>4, <1>6 DEF LoopBoot, LoopBegin
<1>7. CASE \E x \in {"assert", "watchdog"} : Listen(x) BY <1>4, <1>7 DEF Listen
<1>8. CASE \E l \in {"probe", "again"} : LoopProbe(l) BY <1>4, <1>8 DEF LoopProbe
<1>9. ASSUME NEW t \in Threads, Watcher(t) PROVE Inv'
  <2>1. CASE ExceptionCheck(t) BY <1>4, <2>1 DEF ExceptionCheck
  <2>2. CASE ExceptionSend(t) BY <1>2, <2>2, WriteSelf DEF ExceptionSend
  <2>3. CASE ExceptionNotify(t)
    <3>1. told' \in [Conns -> {"none", "wait", "OK", "FAIL", "EXCEPTION"}]
      BY <1>1, <2>3 DEF ExceptionNotify, TypeOK
    <3> QED BY <1>1, <2>3, <3>1 DEF ExceptionNotify, Inv, TypeOK, NeverStuck
  <2> QED BY <1>9, <2>1, <2>2, <2>3 DEF Watcher
<1> QED BY <1>5, <1>6, <1>7, <1>8, <1>9

\* process_active_client_fd on a client.
LEMMA ReadClientInv ==
  ASSUME Inv, NEW c \in Conns, ReadClient(c) PROVE Inv'
<1> DEFINE rest == [inbox EXCEPT ![c] = Tail(@)]
           cmd == [m EXCEPT !.type[c] = "CMD"]
<1>1. TypeOK /\ NeverStuck /\ m \in Managers /\ exec = "none" BY DEF Inv, TypeOK, ReadClient
<1>2. round' \in [clients : SUBSET Conns, self : BOOLEAN] /\ round'.self = round.self
  BY <1>1 DEF TypeOK, ReadClient
<1>3. CASE inbox[c] = <<>>
  BY <1>1, <1>2, <1>3 DEF ReadClient, Inv, TypeOK, NeverStuck
<1>4. CASE inbox[c] # <<>> /\ Head(inbox[c]) = "EOF"
  <2>1. m' = [m EXCEPT !.type[c] = "none"] /\ inbox' = [inbox EXCEPT ![c] = <<>>]
        /\ UNCHANGED <<told, exec, lost>>
    BY <1>4 DEF ReadClient
  <2>2. m' \in Managers /\ m'.state = m.state /\ m'.self = m.self BY <1>1, <2>1 DEF Managers
  <2>3. inbox' \in [Conns -> Seq(ClientEvents \cup {"EOF", "reset"})] BY <1>1, <2>1 DEF TypeOK
  <2> QED BY <1>1, <1>2, <2>1, <2>2, <2>3 DEF Inv, TypeOK, NeverStuck
<1>5. ASSUME inbox[c] # <<>> PROVE rest \in [Conns -> Seq(ClientEvents \cup {"EOF", "reset"})]
  <2>1. inbox[c] \in Seq(ClientEvents \cup {"EOF", "reset"}) BY <1>1 DEF TypeOK
  <2>2. Tail(inbox[c]) \in Seq(ClientEvents \cup {"EOF", "reset"}) BY <1>5, <2>1
  <2> QED BY <1>1, <2>2 DEF TypeOK
<1>6. CASE inbox[c] # <<>> /\ Head(inbox[c]) = "reset"
  <2>1. inbox' = rest /\ exec' \in {"prepare", "none"} /\ UNCHANGED <<m, told, lost>>
    BY <1>6 DEF ReadClient
  <2> QED BY <1>1, <1>2, <1>5, <1>6, <2>1 DEF Inv, TypeOK, NeverStuck
<1>7. CASE inbox[c] # <<>> /\ Head(inbox[c]) \notin {"EOF", "reset"}
  <2>1. Deliver(wcnd_sm_step(cmd, Head(inbox[c]), c), rest) /\ exec' = "none" /\ lost' = lost
    BY <1>1, <1>7 DEF ReadClient
  <2>2. cmd \in Managers /\ cmd.state = m.state /\ cmd.self = m.self BY <1>1 DEF Managers, AnyCmd
  <2>3. cmd.state = "STARTING" => "startcp2" \in Range(cmd.self) \cup lost
    BY <1>1, <2>2 DEF NeverStuck
  <2>4. cmd.state = "STOPPING" => "stopcp2" \in Range(cmd.self) \cup lost
    BY <1>1, <2>2 DEF NeverStuck
  <2>5. round'.self => cmd.self # <<>> BY <1>1, <1>2, <2>2 DEF TypeOK
  <2> HIDE DEF cmd, rest
  <2> QED BY <1>1, <1>2, <1>5, <1>7, <2>1, <2>2, <2>3, <2>4, <2>5, SmStep
<1> QED BY <1>3, <1>4, <1>6, <1>7

\* process_active_client_fd on the socket pair: one command is run, several are lost.
LEMMA ReadSelfInv ==
  ASSUME Inv, ReadSelf PROVE Inv'
<1> DEFINE x == Head(m.self)
           n == [m EXCEPT !.self = <<>>]
<1>1. /\ TypeOK /\ NeverStuck /\ m \in Managers /\ exec = "none"
      /\ m.self \in Seq(SelfCmds) /\ m.self # <<>>
  BY DEF Inv, TypeOK, ReadSelf, Managers
<1>2. <<>> \in Seq(SelfCmds) /\ Range(<<>>) = {} BY DEF Range
<1>3. n \in Managers /\ n.state = m.state /\ n.self = <<>> BY <1>1, <1>2 DEF Managers
<1>4. round' \in [clients : SUBSET Conns, self : BOOLEAN] /\ ~round'.self
  BY <1>1 DEF TypeOK, ReadSelf
<1>0. CASE Len(m.self) > 1
  <2>1. m' = n /\ lost' = lost \cup Range(m.self) /\ UNCHANGED <<told, inbox, exec>>
    BY <1>0 DEF ReadSelf
  <2> HIDE DEF n
  <2> QED BY <1>1, <1>3, <1>4, <2>1 DEF Inv, TypeOK, NeverStuck
<1>5. SUFFICES ASSUME Len(m.self) = 1, RunSelf(n, x), lost' = lost PROVE Inv'
  <2>1. Len(m.self) > 1 \/ Len(m.self) = 1 BY <1>1, OneOrMore
  <2> QED BY <1>0, <2>1 DEF ReadSelf
<1>6. /\ x \in SelfCmds
      /\ n.state = "STARTING" => x = "startcp2" \/ "startcp2" \in Range(n.self) \cup lost
      /\ n.state = "STOPPING" => x = "stopcp2" \/ "stopcp2" \in Range(n.self) \cup lost
  <2>1. x \in SelfCmds BY <1>1
  <2>2. \A y \in Range(m.self) : y = x BY <1>1, <1>5 DEF Range
  <2> QED BY <1>1, <1>3, <2>1, <2>2 DEF NeverStuck
<1> HIDE DEF x, n
<1>7. CASE x = "startcp2"
  <2>1. m' = [n EXCEPT !.resetting = TRUE] /\ exec' = "boot" /\ UNCHANGED <<told, inbox>>
    BY <1>5, <1>7 DEF RunSelf
  <2>2. m' \in Managers /\ m'.state = n.state /\ m'.self = n.self BY <1>3, <2>1 DEF Managers
  <2> QED BY <1>1, <1>4, <1>5, <1>6, <1>7, <2>1, <2>2 DEF Inv, TypeOK, NeverStuck
<1>8. CASE x = "stopcp2"
  <2>1. m' = n /\ exec' = "close" /\ UNCHANGED <<told, inbox>> BY <1>5, <1>8 DEF RunSelf
  <2> QED BY <1>1, <1>3, <1>4, <1>5, <1>6, <1>8, <2>1 DEF Inv, TypeOK, NeverStuck
<1>9. CASE x = "getcp2version"
  <2>1. m' = [n EXCEPT !.version = TRUE] /\ UNCHANGED <<told, inbox, exec>>
    BY <1>5, <1>9 DEF RunSelf
  <2>2. m' \in Managers /\ m'.state = n.state /\ m'.self = n.self BY <1>3, <2>1 DEF Managers
  <2> QED BY <1>1, <1>4, <1>5, <1>6, <1>9, <2>1, <2>2 DEF Inv, TypeOK, NeverStuck
<1>10. CASE x \notin {"startcp2", "stopcp2", "getcp2version"}
  <2>1. Deliver(wcnd_sm_step(n, EventOf(x), "none"), inbox) /\ exec' = "none"
    BY <1>1, <1>5, <1>10 DEF RunSelf
  <2>2. inbox \in [Conns -> Seq(ClientEvents \cup {"EOF", "reset"})] BY <1>1 DEF TypeOK
  <2> QED BY <1>1, <1>3, <1>4, <1>5, <1>6, <1>10, <2>1, <2>2, SmStep
<1> QED BY <1>7, <1>8, <1>9, <1>10

\* The long commands end with CP2_OK or CP2_DOWN.
LEMMA LongCommandInv ==
  ASSUME Inv, Prepare \/ BootAttempt \/ BootGiveUp \/ BootAlive \/ BootDone \/ Close \/ Select
  PROVE  Inv'
<1>1. /\ TypeOK /\ NeverStuck /\ m \in Managers
      /\ inbox \in [Conns -> Seq(ClientEvents \cup {"EOF", "reset"})]
      /\ round \in [clients : SUBSET Conns, self : BOOLEAN] /\ (round.self => m.self # <<>>)
  BY DEF Inv, TypeOK
<1>2. \A b \in BOOLEAN :
        /\ [m EXCEPT !.resetting = b] \in Managers
        /\ [m EXCEPT !.resetting = b].state = m.state /\ [m EXCEPT !.resetting = b].self = m.self
  BY <1>1 DEF Managers
<1>3. /\ [m EXCEPT !.error = FALSE] \in Managers
      /\ [m EXCEPT !.error = FALSE].state = m.state /\ [m EXCEPT !.error = FALSE].self = m.self
  BY <1>1 DEF Managers
<1>4. CASE Prepare
  <2> DEFINE b == ResetEnabled \/ m.resetting
  <2>1. b \in BOOLEAN OBVIOUS
  <2>2. m' = [m EXCEPT !.resetting = b] BY <1>4 DEF Prepare
  <2> HIDE DEF b
  <2>3. m' \in Managers /\ m'.state = m.state /\ m'.self = m.self BY <1>2, <2>1, <2>2
  <2>4. exec = "prepare" /\ exec' \in {"boot", "none"} /\ UNCHANGED <<inbox, told, round, lost>>
    BY <1>4 DEF Prepare
  <2> QED BY <1>1, <2>3, <2>4 DEF Inv, TypeOK, NeverStuck
<1>5. CASE BootAttempt BY <1>1, <1>5 DEF BootAttempt, Inv, TypeOK, NeverStuck
<1>6. CASE BootGiveUp
  <2>1. Deliver(wcnd_sm_step([m EXCEPT !.resetting = FALSE], "CP2_DOWN", "none"), inbox)
        /\ exec' = "none" /\ UNCHANGED <<round, lost>>
    BY <1>6 DEF BootGiveUp
  <2> QED BY <1>1, <1>2, <2>1, SmStep
<1>7. CASE BootAlive BY <1>1, <1>2, <1>7 DEF BootAlive, Inv, TypeOK, NeverStuck
<1>8. CASE BootDone
  <2>1. Deliver(wcnd_sm_step([m EXCEPT !.error = FALSE], "CP2_OK", "none"), inbox)
        /\ exec' = "none" /\ UNCHANGED <<round, lost>> /\ exec = "done"
    BY <1>8 DEF BootDone
  <2>2. m.state = "STOPPING" => "stopcp2" \in Range(m.self) \cup lost BY <1>1, <2>1 DEF NeverStuck
  <2> QED BY <1>1, <1>3, <2>1, <2>2, SmStep
<1>9. CASE Close
  <2>1. Deliver(wcnd_sm_step(m, "CP2_DOWN", "none"), inbox) /\ exec' = "none" /\ UNCHANGED <<round, lost>>
    BY <1>9 DEF Close
  <2> QED BY <1>1, <2>1, SmStep
<1>10. CASE Select
  <2>1. round' = [clients |-> {c \in Conns : m.type[c] # "none" /\ inbox[c] # <<>>},
                  self |-> m.self # <<>>]
        /\ UNCHANGED <<m, inbox, told, exec, lost>>
    BY <1>10 DEF Select
  <2>2. round' \in [clients : SUBSET Conns, self : BOOLEAN] /\ (round'.self => m.self # <<>>)
    BY <2>1
  <2> QED BY <1>1, <2>1, <2>2 DEF Inv, TypeOK, NeverStuck
<1> QED BY <1>4, <1>5, <1>6, <1>7, <1>8, <1>9, <1>10

LEMMA NextInv ==
  ASSUME Inv, [Next]_vars PROVE Inv'
<1>1. CASE UNCHANGED vars BY <1>1 DEF vars, Inv, TypeOK, NeverStuck
<1>2. CASE Environment \/ ManagerResets BY <1>2, EnvironmentInv
<1>3. CASE ClientThread
  <2>1. CASE ReadSelf BY <2>1, ReadSelfInv
  <2>2. CASE \E c \in Conns : ReadClient(c) BY <2>2, ReadClientInv
  <2>3. CASE Prepare \/ BootAttempt \/ BootGiveUp \/ BootAlive \/ BootDone \/ Close \/ Select
    BY <2>3, LongCommandInv
  <2> QED BY <1>3, <2>1, <2>2, <2>3 DEF ClientThread
<1>4. CASE \/ Main \/ LoopBoot \/ LoopBegin
           \/ \E x \in {"assert", "watchdog"} : Listen(x)
           \/ \E l \in {"probe", "again"} : LoopProbe(l)
           \/ \E t \in Threads : Watcher(t)
  BY <1>4, ThreadsInv
<1> QED BY <1>1, <1>2, <1>3, <1>4 DEF Next

LEMMA InvAlways == Spec => []Inv
<1>1. Inv /\ [Next]_vars => Inv' BY NextInv
<1> QED BY InitInv, <1>1, PTL DEF Spec

\* wcnd_sm.c, the loop of client_listen_thread and the socket pair: STARTING and STOPPING
\* have the command that will leave them on its way, for any services, crashes and
\* hang-ups; only a command that a read returned glued to another one is missing.
THEOREM NeverStuckTheorem == Spec => []NeverStuck
<1>1. Inv => NeverStuck BY DEF Inv
<1> QED BY InvAlways, <1>1, PTL

\* The fields of the manager keep their types, however the socket pair is read: only opens
\* and power-ons are parked, only the commands wcnd_runcommand knows are written to it.
THEOREM TypeTheorem == Spec => []TypeOK
<1>1. Inv => TypeOK BY DEF Inv
<1> QED BY InvAlways, <1>1, PTL

=============================================================================
