------------------------------- MODULE NvStore -------------------------------
(***************************************************************************)
(* What the modem may rely on: cp_diskserver as one NV snapshot that is    *)
(* replaced atomically while the daemon is up, and the set of snapshots a  *)
(* restart may bring back.  Every acknowledged commit joins the set; once  *)
(* a save has completed the set shrinks to that save and what was          *)
(* committed after it.  Contents that were never committed join it only    *)
(* while the daemon starts, after two faults of the storage.               *)
(***************************************************************************)
EXTENDS Naturals

CONSTANT Values

VARIABLES up,        \* does the daemon serve requests?
          current,   \* the snapshot requests are applied to
          durable,   \* the snapshots the next restart may return
          faults     \* storage faults since both copies were good, capped at 2

vars == <<up, current, durable, faults>>

Init == /\ up = FALSE
        /\ current \in Values
        /\ durable \in SUBSET Values
        /\ faults \in 0 .. 2
        /\ durable = {} => faults = 2

Commit(v) ==
  /\ up
  /\ current' = v
  /\ durable' = durable \cup {v}
  /\ UNCHANGED <<up, faults>>

\* A completed save: older snapshots can no longer come back.
Harden(v) ==
  /\ up
  /\ v \in durable
  /\ durable' = {v, current}
  /\ UNCHANGED <<up, current, faults>>

\* The daemon stops at any moment; if the storage was at work that is a fault.
Stop ==
  /\ up' = FALSE
  /\ faults' \in 0 .. 2
  /\ UNCHANGED <<current, durable>>

Restart(v) ==
  /\ ~up
  /\ v \in durable
  /\ up' = TRUE
  /\ current' = v
  /\ UNCHANGED <<durable, faults>>

\* No intact copy was left: the contents are made up.
Wipe(v) ==
  /\ ~up
  /\ faults = 2
  /\ durable' = durable \cup {v}
  /\ UNCHANGED <<up, current, faults>>

\* The storage fails, or both copies are good again.
Fault ==
  /\ faults' \in 0 .. 2
  /\ UNCHANGED <<up, current, durable>>

Next == \/ \E v \in Values : Commit(v) \/ Harden(v) \/ Restart(v) \/ Wipe(v)
        \/ Stop
        \/ Fault

Spec == Init /\ [][Next]_vars

=============================================================================
