--------------------------- MODULE SrpPortService ---------------------------
(***************************************************************************)
(* What the SRP transport layer promises the SCSI core and a multipath     *)
(* user of one remote port, without timers, works or locks: the state of   *)
(* the port, the devices whose I/O is being held back, and whether a       *)
(* reconnection attempt is in progress.                                    *)
(*                                                                         *)
(* The steps are the edges of Documentation/infiniband/ib_srp/             *)
(* srp-initiator-state-diagram.dot and one edge that the diagram does not  *)
(* have, LoseRunning.                                                      *)
(***************************************************************************)
CONSTANT Devs

VARIABLES state, held, attempt

vars == <<state, held, attempt>>

States == {"running", "blocked", "fail_fast", "lost"}

Init == state = "running" /\ held = {} /\ attempt = FALSE

(***************************************************************************)
(* An error was observed: I/O is held back.                                *)
(***************************************************************************)
Block ==
    /\ state = "running" /\ ~attempt
    /\ state' = "blocked"
    /\ held' \in SUBSET Devs
    /\ UNCHANGED attempt

(***************************************************************************)
(* Held I/O fails: after fast_io_fail_tmo, or because the first attempt to *)
(* reconnect a port that was thought to be running did not succeed.        *)
(***************************************************************************)
FailFast ==
    /\ state = (IF attempt THEN "running" ELSE "blocked")
    /\ state' = "fail_fast" /\ held' = {}
    /\ UNCHANGED attempt

(***************************************************************************)
(* A port that does not work is given up for good; only between            *)
(* reconnection attempts.                                                  *)
(***************************************************************************)
Lose ==
    /\ ~attempt /\ state # "running"
    /\ state' = "lost" /\ held' = {}
    /\ UNCHANGED attempt

(***************************************************************************)
(* A port that works is given up.  srp_stop_rport_timers() does so when    *)
(* the port is removed.  So does rport_dev_loss_timedout() if it had to    *)
(* wait for the mutex until a reconnection attempt had succeeded; the      *)
(* diagram does not allow that (RunningIsNotLost of SrpRport).             *)
(***************************************************************************)
LoseRunning ==
    /\ ~attempt /\ state = "running"
    /\ state' = "lost" /\ held' = {}
    /\ UNCHANGED attempt

Begin ==
    /\ ~attempt /\ attempt'
    /\ held \subseteq held' /\ held' \subseteq Devs
    /\ UNCHANGED state

Succeed ==
    /\ attempt /\ ~attempt' /\ state # "lost"
    /\ state' = "running" /\ held' = {}

(***************************************************************************)
(* A failed attempt leaves a blocked port blocked and its I/O held; in any *)
(* other state no I/O stays behind.  A running port has failed first.      *)
(***************************************************************************)
Fail ==
    /\ attempt /\ ~attempt' /\ state # "running"
    /\ held' = (IF state = "blocked" THEN held ELSE {})
    /\ UNCHANGED state

(***************************************************************************)
(* The SCSI error handler takes a device offline.                          *)
(***************************************************************************)
Offline(d) ==
    /\ d \in held
    /\ held' = held \ {d}
    /\ UNCHANGED <<state, attempt>>

Next ==
    \/ Block \/ FailFast \/ Lose \/ LoseRunning \/ Begin \/ Succeed \/ Fail
    \/ \E d \in Devs : Offline(d)

Spec == Init /\ [][Next]_vars
=============================================================================
