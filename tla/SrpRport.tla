------------------------------ MODULE SrpRport ------------------------------
(***************************************************************************)
(* The SRP transport layer (drivers/scsi/scsi_transport_srp.c) for one     *)
(* remote port: its state, its mutex, its three delayed works, the sysfs   *)
(* writers that change the recovery tunables without taking the mutex, and *)
(* the callers it has in ib_srp.c (transport error work, SCSI error        *)
(* handler, queuecommand(), target removal).                               *)
(*                                                                         *)
(* Every thread of control is an element of Threads with a program counter *)
(* pc[t].  A delayed work w is armed (pend[w]) and, once its timer has     *)
(* expired, runs as thread w.  Time is abstracted: an armed work may start *)
(* at any moment.  What the SCSI core does (the state of its devices, its  *)
(* request functions, its error handler) is external and modelled as the   *)
(* code here uses it.                                                      *)
(***************************************************************************)
EXTENDS SrpTmo, FiniteSets

CONSTANTS
    Devs,            \* the SCSI devices of the host
    Submitters,      \* kernel threads that run scsi_request_fn()
    Writers,         \* user processes that write a sysfs attribute
    ReconnectDelays, \* values of the tunables: initial and written ones
    FastIoFailTmos,
    DevLossTmos

ASSUME RportConstants ==
    /\ Devs # {}
    /\ ReconnectDelays \subseteq Int
    /\ FastIoFailTmos \subseteq Int
    /\ DevLossTmos \subseteq Int
    /\ \E r \in ReconnectDelays, f \in FastIoFailTmos, d \in DevLossTmos :
          srp_tmo_valid(r, f, d)

VARIABLES
    state,            \* rport->state
    reconnect_delay,  \* rport->reconnect_delay
    fast_io_fail_tmo, \* rport->fast_io_fail_tmo
    dev_loss_tmo,     \* rport->dev_loss_tmo
    mutex,            \* owner of rport->mutex
    pend,             \* which works are armed or queued
    pc,               \* where each thread is
    sdev,             \* sdev->sdev_state of each SCSI device
    submit,           \* what each submitter is doing
    store             \* what each sysfs writer is doing

tunables == <<reconnect_delay, fast_io_fail_tmo, dev_loss_tmo>>
vars == <<state, tunables, mutex, pend, pc, sdev, submit, store>>
-----------------------------------------------------------------------------
States == {"running", "blocked", "fail_fast", "lost"}

RportWorks == {"reconnect_work", "fast_io_fail_work", "dev_loss_work"}
Works == RportWorks \cup {"tl_err_work"}
Threads == Works \cup {"eh", "remove_work"}

(***************************************************************************)
(* "none" is the mutex owner when the mutex is free.                       *)
(***************************************************************************)
NoThread == "none"

SdevStates == {"running", "block", "transport_offline", "offline", "del"}

Attrs == {"reconnect_delay", "fast_io_fail_tmo", "dev_loss_tmo"}

(***************************************************************************)
(* Program counters.  The labels in Holding are the ones at which a thread *)
(* owns rport->mutex.                                                      *)
(***************************************************************************)
Holding == {"quiesce", "reconnect", "fail_io", "terminate", "eh_queuecommand"}
CancelLabels == {"cancel_reconnect_work", "cancel_fast_io_fail_work",
                 "cancel_dev_loss_work"}
Labels == Holding \cup CancelLabels \cup
    {"idle", "lock", "requeue", "delete", "recovery", "eh_lock", "queued",
     "srp_remove_host", "scsi_remove_host", "free_ch", "cancel_tl_err_work",
     "gone"}

(***************************************************************************)
(* A work that cancel_delayed_work_sync() or cancel_work_sync() is working *)
(* on cannot be queued again before that call returns.                     *)
(***************************************************************************)
Cancelling(w) ==
    pc["remove_work"] = CASE w = "reconnect_work" -> "cancel_reconnect_work"
                          [] w = "fast_io_fail_work" -> "cancel_fast_io_fail_work"
                          [] w = "dev_loss_work" -> "cancel_dev_loss_work"
                          [] w = "tl_err_work" -> "cancel_tl_err_work"

(***************************************************************************)
(* queue_delayed_work() on the works in S: no effect on an armed one.      *)
(* cancel_delayed_work() disarms and does not wait for a running handler.  *)
(***************************************************************************)
Queue(S) == [w \in Works |-> pend[w] \/ (w \in S /\ ~Cancelling(w))]
Cancel(S) == [w \in Works |-> pend[w] /\ w \notin S]

(***************************************************************************)
(* scsi_target_block() and scsi_target_unblock() of the SCSI core.  A      *)
(* device that is offline for another reason keeps its state, as the       *)
(* comment in srp_reconnect_rport() says.                                  *)
(***************************************************************************)
scsi_target_block(sd) ==
    [d \in Devs |-> IF sd[d] = "running" THEN "block" ELSE sd[d]]
scsi_target_unblock(sd, new) ==
    [d \in Devs |-> IF sd[d] \in {"block", "transport_offline"}
                    THEN new ELSE sd[d]]

Goto(t, l) == pc' = [pc EXCEPT ![t] = l]

NoSubmit == [at |-> "idle", dev |-> CHOOSE d \in Devs : TRUE]
NoStore == [at |-> "idle", attr |-> "reconnect_delay", val |-> Off]

(***************************************************************************)
(* The condition srp_wait_for_queuecommand() waits for: no thread is       *)
(* inside scsi_request_fn().                                               *)
(***************************************************************************)
scsi_request_fn_active == \E s \in Submitters : submit[s].at # "idle"

(***************************************************************************)
(* TRUE iff srp_rport_set_state() accepts the change from old to new.      *)
(***************************************************************************)
srp_rport_set_state(old, new) ==
    CASE new = "running" -> old # "lost"
      [] new = "blocked" -> old = "running"
      [] new = "fail_fast" -> old # "lost"
      [] new = "lost" -> TRUE

(***************************************************************************)
(* srp_chkready() returned 0.                                              *)
(***************************************************************************)
srp_chkready == state \in {"running", "blocked"}
-----------------------------------------------------------------------------
(***************************************************************************)
(* srp_rport_add() copies the module parameters, which srp_tmo_set() has   *)
(* validated; a zero-initialised rport is running.                         *)
(***************************************************************************)
Init ==
    /\ state = "running"
    /\ reconnect_delay \in ReconnectDelays
    /\ fast_io_fail_tmo \in FastIoFailTmos
    /\ dev_loss_tmo \in DevLossTmos
    /\ srp_tmo_valid(reconnect_delay, fast_io_fail_tmo, dev_loss_tmo)
    /\ mutex = NoThread
    /\ pend = [w \in Works |-> FALSE]
    /\ pc = [t \in Threads |-> "idle"]
    /\ sdev = [d \in Devs |-> "running"]
    /\ submit = [s \in Submitters |-> NoSubmit]
    /\ store = [w \in Writers |-> NoStore]

(***************************************************************************)
(* The workqueue starts the handler of an armed work.                      *)
(***************************************************************************)
Expire(w) ==
    /\ pend[w] /\ pc[w] = "idle"
    /\ pend' = [pend EXCEPT ![w] = FALSE]
    /\ Goto(w, "lock")
    /\ UNCHANGED <<state, tunables, mutex, sdev, submit, store>>

(***************************************************************************)
(* ib_srp.c reports a transport layer error: srp_handle_qp_err() or the CM *)
(* handlers queue tl_err_work.  Completions and CM events stop once        *)
(* srp_free_ch_ib() has destroyed the channels.                            *)
(***************************************************************************)
TransportError ==
    /\ pc["remove_work"] \notin {"cancel_tl_err_work", "gone"}
    /\ pend' = Queue({"tl_err_work"})
    /\ UNCHANGED <<state, tunables, mutex, pc, sdev, submit, store>>

(***************************************************************************)
(* __srp_start_tl_fail_timers() from port state st and device states sd.   *)
(***************************************************************************)
start_tl_fail_timers(st, sd) ==
    LET block == /\ st # "lost"
                 /\ fast_io_fail_tmo >= 0 \/ dev_loss_tmo >= 0
                 /\ srp_rport_set_state(st, "blocked")
    IN  /\ state' = IF block THEN "blocked" ELSE st
        /\ sdev' = IF block THEN scsi_target_block(sd) ELSE sd
        /\ pend' = Queue(
              {w \in RportWorks :
                 \/ w = "reconnect_work" /\ st # "lost" /\ reconnect_delay > 0
                 \/ w = "fast_io_fail_work" /\ block /\ fast_io_fail_tmo >= 0
                 \/ w = "dev_loss_work" /\ block /\ dev_loss_tmo >= 0})

(***************************************************************************)
(* srp_tl_err_work() -> srp_start_tl_fail_timers().                        *)
(***************************************************************************)
srp_start_tl_fail_timers ==
    /\ pc["tl_err_work"] = "lock" /\ mutex = NoThread
    /\ start_tl_fail_timers(state, sdev)
    /\ Goto("tl_err_work", "idle")
    /\ UNCHANGED <<tunables, mutex, submit, store>>
-----------------------------------------------------------------------------
(***************************************************************************)
(* __rport_fail_io_fast(): thread t, which owns the mutex at the end of    *)
(* the step, marks the port as failed, releases the devices and waits for  *)
(* queuecommand(); then it calls terminate_rport_io().                     *)
(***************************************************************************)
rport_fail_io_fast(t) ==
    /\ srp_rport_set_state(state, "fail_fast")
    /\ state' = "fail_fast"
    /\ sdev' = scsi_target_unblock(sdev, "transport_offline")
    /\ mutex' = t
    /\ Goto(t, "fail_io")

terminate_rport_io(t) ==
    /\ pc[t] = "fail_io" /\ ~scsi_request_fn_active
    /\ Goto(t, "terminate")
    /\ UNCHANGED <<state, tunables, mutex, pend, sdev, submit, store>>

(***************************************************************************)
(* rport_fast_io_fail_timedout().                                          *)
(***************************************************************************)
rport_fast_io_fail_timedout ==
    /\ pc["fast_io_fail_work"] = "lock" /\ mutex = NoThread
    /\ \/ /\ state = "blocked"
          /\ rport_fail_io_fast("fast_io_fail_work")
       \/ /\ state # "blocked"
          /\ Goto("fast_io_fail_work", "idle")
          /\ UNCHANGED <<state, sdev, mutex>>
    /\ UNCHANGED <<tunables, pend, submit, store>>

rport_fast_io_fail_done ==
    /\ pc["fast_io_fail_work"] = "terminate"
    /\ mutex' = NoThread
    /\ Goto("fast_io_fail_work", "idle")
    /\ UNCHANGED <<state, tunables, pend, sdev, submit, store>>

\* Mutant: the devices of a lost port are not unblocked.
rport_dev_loss_keeps_devs ==
    /\ pc["dev_loss_work"] = "lock" /\ mutex = NoThread
    /\ state' = "lost"
    /\ Goto("dev_loss_work", "delete")
    /\ UNCHANGED <<tunables, mutex, pend, sdev, submit, store>>

(***************************************************************************)
(* rport_dev_loss_timedout(): the locked part, then rport_delete() after   *)
(* the mutex has been released.                                            *)
(***************************************************************************)
rport_dev_loss_timedout ==
    /\ pc["dev_loss_work"] = "lock" /\ mutex = NoThread
    /\ state' = "lost"
    /\ sdev' = scsi_target_unblock(sdev, "transport_offline")
    /\ Goto("dev_loss_work", "delete")
    /\ UNCHANGED <<tunables, mutex, pend, submit, store>>

(***************************************************************************)
(* srp_rport_delete() -> srp_queue_remove_work(): only the first caller    *)
(* changes target->state to SRP_TARGET_REMOVED and queues remove_work.     *)
(***************************************************************************)
srp_queue_remove_work(pcs) ==
    IF pcs["remove_work"] = "idle"
    THEN [pcs EXCEPT !["remove_work"] = "queued"] ELSE pcs

rport_dev_loss_delete ==
    /\ pc["dev_loss_work"] = "delete"
    /\ pc' = srp_queue_remove_work([pc EXCEPT !["dev_loss_work"] = "idle"])
    /\ UNCHANGED <<state, tunables, mutex, pend, sdev, submit, store>>

(***************************************************************************)
(* store_srp_rport_delete(), and removal of the HCA (srp_remove_one()).    *)
(***************************************************************************)
store_srp_rport_delete ==
    /\ pc["remove_work"] = "idle"
    /\ pc' = srp_queue_remove_work(pc)
    /\ UNCHANGED <<state, tunables, mutex, pend, sdev, submit, store>>
-----------------------------------------------------------------------------
(***************************************************************************)
(* srp_reconnect_rport(), called by reconnect_work and by the SCSI error   *)
(* handler (srp_reset_host()).                                             *)
(***************************************************************************)
Reconnecters == {"reconnect_work", "eh"}

srp_reconnect_rport(t) ==
    /\ pc[t] = "lock" /\ mutex = NoThread
    /\ mutex' = t
    /\ sdev' = scsi_target_block(sdev)
    /\ Goto(t, "quiesce")
    /\ UNCHANGED <<state, tunables, pend, submit, store>>

(***************************************************************************)
(* mutex_lock_interruptible() returned -EINTR.                             *)
(***************************************************************************)
srp_reconnect_interrupted ==
    /\ pc["eh"] = "lock"
    /\ Goto("eh", "recovery")
    /\ UNCHANGED <<state, tunables, mutex, pend, sdev, submit, store>>

(***************************************************************************)
(* What the caller does after srp_reconnect_rport() failed or succeeded.   *)
(***************************************************************************)
AfterFailure(t) == IF t = "eh" THEN "recovery" ELSE "requeue"
AfterSuccess(t) == IF t = "eh" THEN "recovery" ELSE "idle"

\* Mutant: a lost port returns early without releasing the mutex.
srp_reconnect_call_leaks(t) ==
    /\ pc[t] = "quiesce" /\ ~scsi_request_fn_active
    /\ \/ /\ state # "lost"
          /\ Goto(t, "reconnect")
          /\ UNCHANGED sdev
       \/ /\ state = "lost"
          /\ sdev' = scsi_target_unblock(sdev, "transport_offline")
          /\ Goto(t, AfterFailure(t))
    /\ UNCHANGED <<state, tunables, mutex, pend, submit, store>>

(***************************************************************************)
(* srp_wait_for_queuecommand() has returned: call the LLD's reconnect()    *)
(* unless the port is lost.                                                *)
(***************************************************************************)
srp_reconnect_call(t) ==
    /\ pc[t] = "quiesce" /\ ~scsi_request_fn_active
    /\ \/ /\ state # "lost"
          /\ Goto(t, "reconnect")
          /\ UNCHANGED <<mutex, sdev>>
       \/ /\ state = "lost"
          /\ sdev' = scsi_target_unblock(sdev, "transport_offline")
          /\ mutex' = NoThread
          /\ Goto(t, AfterFailure(t))
    /\ UNCHANGED <<state, tunables, pend, submit, store>>

\* Mutant: the devices are not unblocked.
srp_reconnect_ok_keeps_devs(t) ==
    /\ pc[t] = "reconnect"
    /\ pend' = Cancel({"fast_io_fail_work", "dev_loss_work"})
    /\ state' = "running"
    /\ mutex' = NoThread
    /\ Goto(t, AfterSuccess(t))
    /\ UNCHANGED <<sdev, tunables, submit, store>>

(***************************************************************************)
(* reconnect() returned 0.  The two timers are disarmed, but a handler     *)
(* that already runs, waiting for the mutex, is not waited for.            *)
(***************************************************************************)
srp_reconnect_ok(t) ==
    /\ pc[t] = "reconnect"
    /\ pend' = Cancel({"fast_io_fail_work", "dev_loss_work"})
    /\ state' = IF srp_rport_set_state(state, "running") THEN "running"
                ELSE state
    /\ LET up == scsi_target_unblock(sdev, "running")
       IN  sdev' = [d \in Devs |-> IF up[d] = "offline" THEN "running"
                                   ELSE up[d]]
    /\ mutex' = NoThread
    /\ Goto(t, AfterSuccess(t))
    /\ UNCHANGED <<tunables, submit, store>>

\* Mutant: a failed reconnect of a running port is left to the timers, which
\* are not armed, and the devices blocked for it stay blocked.
srp_reconnect_failed_keeps_devs(t) ==
    /\ pc[t] = "reconnect"
    /\ \/ /\ state \in {"running", "blocked"}
          /\ UNCHANGED sdev
       \/ /\ state \notin {"running", "blocked"}
          /\ sdev' = scsi_target_unblock(sdev, "transport_offline")
    /\ mutex' = NoThread
    /\ Goto(t, AfterFailure(t))
    /\ UNCHANGED <<state, tunables, pend, submit, store>>

(***************************************************************************)
(* reconnect() failed.                                                     *)
(***************************************************************************)
srp_reconnect_failed(t) ==
    /\ pc[t] = "reconnect"
    /\ \/ /\ state = "running"
          /\ rport_fail_io_fast(t)
       \/ /\ state = "blocked"
          /\ UNCHANGED <<state, sdev>>
          /\ mutex' = NoThread
          /\ Goto(t, AfterFailure(t))
       \/ /\ state \notin {"running", "blocked"}
          /\ UNCHANGED state
          /\ sdev' = scsi_target_unblock(sdev, "transport_offline")
          /\ mutex' = NoThread
          /\ Goto(t, AfterFailure(t))
    /\ UNCHANGED <<tunables, pend, submit, store>>

(***************************************************************************)
(* ... the rest of the branch for a port that was running.                 *)
(***************************************************************************)
srp_reconnect_failed_timers(t) ==
    /\ pc[t] = "terminate"
    /\ start_tl_fail_timers(state,
            scsi_target_unblock(sdev, "transport_offline"))
    /\ mutex' = NoThread
    /\ Goto(t, AfterFailure(t))
    /\ UNCHANGED <<tunables, submit, store>>

\* Mutant: a failed attempt is not followed by another one.
srp_reconnect_work_once ==
    /\ pc["reconnect_work"] = "requeue"
    /\ Goto("reconnect_work", "idle")
    /\ UNCHANGED <<state, tunables, mutex, pend, sdev, submit, store>>

(***************************************************************************)
(* srp_reconnect_work() after a failed attempt, the mutex being free again.*)
(***************************************************************************)
srp_reconnect_work ==
    /\ pc["reconnect_work"] = "requeue"
    /\ pend' = IF reconnect_delay > 0 THEN Queue({"reconnect_work"}) ELSE pend
    /\ Goto("reconnect_work", "idle")
    /\ UNCHANGED <<state, tunables, mutex, sdev, submit, store>>
-----------------------------------------------------------------------------
(***************************************************************************)
(* The SCSI error handler thread.  It starts when every outstanding        *)
(* command has failed, hence when no submitter is inside queuecommand(),   *)
(* and no command is dispatched by others before it is done.  It may reset *)
(* the host, queue a command of its own and take a device offline.         *)
(***************************************************************************)
EhStart ==
    /\ pc["eh"] = "idle" /\ ~scsi_request_fn_active
    /\ \E d \in Devs : sdev[d] # "del"
    /\ Goto("eh", "recovery")
    /\ UNCHANGED <<state, tunables, mutex, pend, sdev, submit, store>>

EhNext(l) ==
    /\ pc["eh"] = "recovery"
    /\ Goto("eh", l)
    /\ UNCHANGED <<state, tunables, mutex, pend, sdev, submit, store>>

EhOffline(d) ==
    /\ pc["eh"] = "recovery" /\ sdev[d] \in {"running", "block"}
    /\ sdev' = [sdev EXCEPT ![d] = "offline"]
    /\ UNCHANGED <<state, tunables, mutex, pend, pc, submit, store>>

(***************************************************************************)
(* srp_queuecommand() with in_scsi_eh: under the mutex, check the port and *)
(* the device, send.                                                       *)
(***************************************************************************)
srp_queuecommand_eh(d) ==
    /\ pc["eh"] = "eh_lock" /\ mutex = NoThread
    /\ \/ /\ srp_chkready /\ sdev[d] # "block"
          /\ mutex' = "eh"
          /\ Goto("eh", "eh_queuecommand")
       \/ /\ ~(srp_chkready /\ sdev[d] # "block")
          /\ Goto("eh", "recovery")
          /\ UNCHANGED mutex
    /\ UNCHANGED <<state, tunables, pend, sdev, submit, store>>

srp_queuecommand_eh_done ==
    /\ pc["eh"] = "eh_queuecommand"
    /\ mutex' = NoThread
    /\ Goto("eh", "recovery")
    /\ UNCHANGED <<state, tunables, pend, sdev, submit, store>>
-----------------------------------------------------------------------------
(***************************************************************************)
(* A submitter enters scsi_request_fn().  The SCSI core dispatches to a    *)
(* running device and, for REQ_PREEMPT requests, to a blocked one.         *)
(***************************************************************************)
Dispatch(s, d) ==
    /\ submit[s].at = "idle" /\ pc["eh"] = "idle"
    /\ sdev[d] \in {"running", "block"}
    /\ submit' = [submit EXCEPT ![s] = [at |-> "dispatch", dev |-> d]]
    /\ UNCHANGED <<state, tunables, mutex, pend, pc, sdev, store>>

\* Mutant: no scsi_device_blocked() check, REQ_PREEMPT requests get through.
srp_queuecommand_preempt(s) ==
    /\ submit[s].at = "dispatch"
    /\ submit' = [submit EXCEPT ![s] =
                     IF srp_chkready
                     THEN [at |-> "queuecommand", dev |-> submit[s].dev]
                     ELSE NoSubmit]
    /\ UNCHANGED <<state, tunables, mutex, pend, pc, sdev, store>>

(***************************************************************************)
(* srp_queuecommand() outside the error handler: the checks at its top,    *)
(* then everything up to its return, which uses the channel's resources.   *)
(***************************************************************************)
srp_queuecommand(s) ==
    /\ submit[s].at = "dispatch"
    /\ submit' = [submit EXCEPT ![s] =
                     IF srp_chkready /\ sdev[submit[s].dev] # "block"
                     THEN [at |-> "queuecommand", dev |-> submit[s].dev]
                     ELSE NoSubmit]
    /\ UNCHANGED <<state, tunables, mutex, pend, pc, sdev, store>>

srp_queuecommand_done(s) ==
    /\ submit[s].at = "queuecommand"
    /\ submit' = [submit EXCEPT ![s] = NoSubmit]
    /\ UNCHANGED <<state, tunables, mutex, pend, pc, sdev, store>>
-----------------------------------------------------------------------------
(***************************************************************************)
(* The store methods of the three tunables.  None of them takes the mutex: *)
(* the new value is validated against the current values of the other two, *)
(* and assigned later.                                                     *)
(***************************************************************************)
Values(a) == CASE a = "reconnect_delay" -> ReconnectDelays
               [] a = "fast_io_fail_tmo" -> FastIoFailTmos
               [] a = "dev_loss_tmo" -> DevLossTmos

\* Mutant: a new reconnect_delay is not checked.
store_begin_unchecked(w, a, v) ==
    /\ store[w].at = "idle" /\ pc["remove_work"] \in {"idle", "queued"}
    /\ CASE a = "reconnect_delay" -> TRUE
         [] a = "fast_io_fail_tmo" ->
               srp_tmo_valid(reconnect_delay, v, dev_loss_tmo)
         [] a = "dev_loss_tmo" ->
               srp_tmo_valid(reconnect_delay, fast_io_fail_tmo, v)
    /\ store' = [store EXCEPT ![w] =
                   [at |-> IF a = "reconnect_delay" THEN "rearm" ELSE "assign",
                    attr |-> a, val |-> v]]
    /\ UNCHANGED <<state, tunables, mutex, pend, pc, sdev, submit>>

store_begin(w, a, v) ==
    /\ store[w].at = "idle" /\ pc["remove_work"] \in {"idle", "queued"}
    /\ CASE a = "reconnect_delay" ->
               srp_tmo_valid(v, fast_io_fail_tmo, dev_loss_tmo)
         [] a = "fast_io_fail_tmo" ->
               srp_tmo_valid(reconnect_delay, v, dev_loss_tmo)
         [] a = "dev_loss_tmo" ->
               srp_tmo_valid(reconnect_delay, fast_io_fail_tmo, v)
    /\ store' = [store EXCEPT ![w] =
                   [at |-> IF a = "reconnect_delay" THEN "rearm" ELSE "assign",
                    attr |-> a, val |-> v]]
    /\ UNCHANGED <<state, tunables, mutex, pend, pc, sdev, submit>>

(***************************************************************************)
(* store_reconnect_delay(): start or stop reconnect_work, looking at the   *)
(* state of the port without the mutex.                                    *)
(***************************************************************************)
store_reconnect_delay(w) ==
    /\ store[w].at = "rearm"
    /\ pend' = IF reconnect_delay <= 0 /\ store[w].val > 0
                  /\ state # "running"
               THEN Queue({"reconnect_work"})
               ELSE IF store[w].val <= 0 THEN Cancel({"reconnect_work"})
               ELSE pend
    /\ store' = [store EXCEPT ![w] =
                   [at |-> "assign", attr |-> "reconnect_delay",
                    val |-> store[w].val]]
    /\ UNCHANGED <<state, tunables, mutex, pc, sdev, submit>>

\* Mutant: switching fast_io_fail off cancels its timer.
store_assign_cancels(w) ==
    /\ store[w].at = "assign"
    /\ fast_io_fail_tmo' = IF store[w].attr = "fast_io_fail_tmo"
                           THEN store[w].val ELSE fast_io_fail_tmo
    /\ pend' = IF fast_io_fail_tmo' < 0 THEN Cancel({"fast_io_fail_work"})
               ELSE pend
    /\ store' = [store EXCEPT ![w] = NoStore]
    /\ UNCHANGED <<state, reconnect_delay, dev_loss_tmo, mutex, pc, sdev, submit>>

store_assign(w) ==
    /\ store[w].at = "assign"
    /\ reconnect_delay' = IF store[w].attr = "reconnect_delay"
                          THEN store[w].val ELSE reconnect_delay
    /\ fast_io_fail_tmo' = IF store[w].attr = "fast_io_fail_tmo"
                           THEN store[w].val ELSE fast_io_fail_tmo
    /\ dev_loss_tmo' = IF store[w].attr = "dev_loss_tmo"
                       THEN store[w].val ELSE dev_loss_tmo
    /\ store' = [store EXCEPT ![w] = NoStore]
    /\ UNCHANGED <<state, mutex, pend, pc, sdev, submit>>
-----------------------------------------------------------------------------
(***************************************************************************)
(* srp_remove_target(), run by remove_work on its own workqueue.           *)
(***************************************************************************)
srp_remove_work ==
    /\ pc["remove_work"] = "queued"
    /\ Goto("remove_work", "srp_remove_host")
    /\ UNCHANGED <<state, tunables, mutex, pend, sdev, submit, store>>

(***************************************************************************)
(* srp_remove_host() -> srp_rport_del(): removing the sysfs attributes     *)
(* waits for the store methods in progress.                                *)
(***************************************************************************)
srp_remove_host ==
    /\ pc["remove_work"] = "srp_remove_host"
    /\ \A w \in Writers : store[w].at = "idle"
    /\ Goto("remove_work", "scsi_remove_host")
    /\ UNCHANGED <<state, tunables, mutex, pend, sdev, submit, store>>

(***************************************************************************)
(* scsi_remove_host(): a device goes away once its I/O has finished, for   *)
(* which it must not be blocked.  The error handler may still be running   *)
(* when it returns, as the comment in srp_free_ch_ib() says.               *)
(***************************************************************************)
scsi_remove_device(d) ==
    /\ pc["remove_work"] = "scsi_remove_host"
    /\ sdev[d] \notin {"block", "del"}
    /\ \A s \in Submitters : submit[s].at # "idle" => submit[s].dev # d
    /\ sdev' = [sdev EXCEPT ![d] = "del"]
    /\ UNCHANGED <<state, tunables, mutex, pend, pc, submit, store>>

scsi_remove_host ==
    /\ pc["remove_work"] = "scsi_remove_host"
    /\ \A d \in Devs : sdev[d] = "del"
    /\ Goto("remove_work", "lock")
    /\ UNCHANGED <<state, tunables, mutex, pend, sdev, submit, store>>

(***************************************************************************)
(* srp_stop_rport_timers(): under the mutex fail I/O if the port is        *)
(* blocked and mark it lost; then cancel the three works one by one.  The  *)
(* step that enters the cancel label of a work disarms it.                 *)
(***************************************************************************)
StartCancel(w, l) ==
    /\ pend' = Cancel({w})
    /\ Goto("remove_work", l)

srp_stop_rport_timers ==
    /\ pc["remove_work"] = "lock" /\ mutex = NoThread
    /\ state = "blocked"
    /\ rport_fail_io_fast("remove_work")
    /\ UNCHANGED <<tunables, pend, submit, store>>

\* Mutant: the port is not marked lost before its works are cancelled.
srp_stop_rport_timers_not_lost ==
    /\ \/ pc["remove_work"] = "lock" /\ mutex = NoThread /\ state # "blocked"
       \/ pc["remove_work"] = "terminate"
    /\ mutex' = NoThread
    /\ StartCancel("reconnect_work", "cancel_reconnect_work")
    /\ UNCHANGED <<state, tunables, sdev, submit, store>>

srp_stop_rport_timers_lost ==
    /\ \/ pc["remove_work"] = "lock" /\ mutex = NoThread /\ state # "blocked"
       \/ pc["remove_work"] = "terminate"
    /\ state' = "lost"
    /\ mutex' = NoThread
    /\ StartCancel("reconnect_work", "cancel_reconnect_work")
    /\ UNCHANGED <<tunables, sdev, submit, store>>

cancel_reconnect_work_sync ==
    /\ pc["remove_work"] = "cancel_reconnect_work"
    /\ pc["reconnect_work"] = "idle"
    /\ StartCancel("fast_io_fail_work", "cancel_fast_io_fail_work")
    /\ UNCHANGED <<state, tunables, mutex, sdev, submit, store>>

cancel_fast_io_fail_work_sync ==
    /\ pc["remove_work"] = "cancel_fast_io_fail_work"
    /\ pc["fast_io_fail_work"] = "idle"
    /\ StartCancel("dev_loss_work", "cancel_dev_loss_work")
    /\ UNCHANGED <<state, tunables, mutex, sdev, submit, store>>

cancel_dev_loss_work_sync ==
    /\ pc["remove_work"] = "cancel_dev_loss_work"
    /\ pc["dev_loss_work"] = "idle"
    /\ Goto("remove_work", "free_ch")
    /\ UNCHANGED <<state, tunables, mutex, pend, sdev, submit, store>>

(***************************************************************************)
(* The rest of srp_remove_target(): disconnect and destroy the channels,   *)
(* cancel_work_sync(&target->tl_err_work), srp_rport_put().                *)
(***************************************************************************)
srp_free_ch_ib ==
    /\ pc["remove_work"] = "free_ch"
    /\ StartCancel("tl_err_work", "cancel_tl_err_work")
    /\ UNCHANGED <<state, tunables, mutex, sdev, submit, store>>

srp_rport_put ==
    /\ pc["remove_work"] = "cancel_tl_err_work"
    /\ pc["tl_err_work"] = "idle"
    /\ Goto("remove_work", "gone")
    /\ UNCHANGED <<state, tunables, mutex, pend, sdev, submit, store>>
-----------------------------------------------------------------------------
WorkerStep ==
    \/ \E w \in Works : Expire(w)
    \/ srp_start_tl_fail_timers
    \/ \E t \in Threads : terminate_rport_io(t)
    \/ rport_fast_io_fail_timedout
    \/ rport_fast_io_fail_done
    \/ rport_dev_loss_timedout
    \/ rport_dev_loss_delete
    \/ srp_reconnect_work

ReconnectStep ==
    \E t \in Reconnecters :
        \/ srp_reconnect_rport(t)
        \/ srp_reconnect_call(t)
        \/ srp_reconnect_ok(t)
        \/ srp_reconnect_failed(t)
        \/ srp_reconnect_failed_timers(t)

EhStep ==
    \/ EhStart
    \/ \E l \in {"lock", "eh_lock", "idle"} : EhNext(l)
    \/ \E d \in Devs : EhOffline(d)
    \/ srp_reconnect_interrupted
    \/ \E d \in Devs : srp_queuecommand_eh(d)
    \/ srp_queuecommand_eh_done

SubmitStep ==
    \E s \in Submitters :
        \/ \E d \in Devs : Dispatch(s, d)
        \/ srp_queuecommand(s)
        \/ srp_queuecommand_done(s)

StoreStep ==
    \E w \in Writers :
        \/ \E a \in Attrs : \E v \in Values(a) : store_begin(w, a, v)
        \/ store_reconnect_delay(w)
        \/ store_assign(w)

RemoveStep ==
    \/ srp_remove_work
    \/ srp_remove_host
    \/ \E d \in Devs : scsi_remove_device(d)
    \/ scsi_remove_host
    \/ srp_stop_rport_timers
    \/ srp_stop_rport_timers_lost
    \/ cancel_reconnect_work_sync
    \/ cancel_fast_io_fail_work_sync
    \/ cancel_dev_loss_work_sync
    \/ srp_free_ch_ib
    \/ srp_rport_put

Next ==
    \/ TransportError
    \/ store_srp_rport_delete
    \/ WorkerStep
    \/ ReconnectStep
    \/ EhStep
    \/ SubmitStep
    \/ StoreStep
    \/ RemoveStep

Spec == Init /\ [][Next]_vars

(***************************************************************************)
(* Fairness.  A work that is armed expires, and every thread that has left *)
(* "idle" goes on.  A thread waits for the mutex, for submitters that come *)
(* and go, or for the error handler, so this takes strong fairness: the    *)
(* mutex does not starve a waiter, and srp_wait_for_queuecommand() finds   *)
(* the request functions idle at last.  The error handler has a finite     *)
(* number of commands to recover and ends.  No fairness for errors, for    *)
(* user writes, for the start of the error handler or of a removal, or for *)
(* the outcome of a reconnect attempt.                                     *)
(***************************************************************************)
ReconnectThread(t) ==
    \/ srp_reconnect_rport(t) \/ srp_reconnect_call(t)
    \/ srp_reconnect_ok(t) \/ srp_reconnect_failed(t)
    \/ terminate_rport_io(t) \/ srp_reconnect_failed_timers(t)

FastIoFailThread ==
    \/ rport_fast_io_fail_timedout \/ rport_fast_io_fail_done
    \/ terminate_rport_io("fast_io_fail_work")

EhThread ==
    \/ ReconnectThread("eh") \/ srp_queuecommand_eh_done
    \/ \E d \in Devs : srp_queuecommand_eh(d)

(***************************************************************************)
(* I/O that the error handler is working on keeps scsi_remove_host()       *)
(* waiting.                                                                *)
(***************************************************************************)
RemoveThread ==
    /\ RemoveStep \/ terminate_rport_io("remove_work")
    /\ pc["remove_work"] = "scsi_remove_host" => pc["eh"] = "idle"

Fairness ==
    /\ \A w \in Works : WF_vars(Expire(w))
    /\ SF_vars(ReconnectThread("reconnect_work") \/ srp_reconnect_work)
    /\ SF_vars(FastIoFailThread)
    /\ SF_vars(rport_dev_loss_timedout \/ rport_dev_loss_delete)
    /\ SF_vars(srp_start_tl_fail_timers)
    /\ SF_vars(EhThread) /\ SF_vars(EhNext("idle"))
    /\ SF_vars(RemoveThread)
    /\ \A s \in Submitters : WF_vars(srp_queuecommand(s) \/ srp_queuecommand_done(s))
    /\ \A w \in Writers : WF_vars(store_reconnect_delay(w) \/ store_assign(w))

FairSpec == Spec /\ Fairness
-----------------------------------------------------------------------------
(***************************************************************************)
(* Type invariant of the fields of struct srp_rport and of the threads.    *)
(* Each tunable stays in its own range, whoever writes it when: a delay of *)
(* zero would let reconnect_work requeue itself without a pause, and a     *)
(* larger timeout would overflow or exceed what the SCSI core accepts.     *)
(***************************************************************************)
TmoRange(a) ==
    CASE a = "reconnect_delay" -> Int \ {0}
      [] a = "fast_io_fail_tmo" -> {v \in Int : v <= SCSI_DEVICE_BLOCK_MAX_TIMEOUT}
      [] a = "dev_loss_tmo" -> {v \in Int : v < LONG_MAX_HZ}

StoredInRange ==
    \A w \in Writers :
        /\ store[w].val \in TmoRange(store[w].attr)
        /\ store[w].at = "rearm" => store[w].attr = "reconnect_delay"

TypeOK ==
    /\ state \in States
    /\ reconnect_delay \in TmoRange("reconnect_delay")
    /\ fast_io_fail_tmo \in TmoRange("fast_io_fail_tmo")
    /\ dev_loss_tmo \in TmoRange("dev_loss_tmo")
    /\ mutex \in Threads \cup {NoThread}
    /\ pend \in [Works -> BOOLEAN]
    /\ pc \in [Threads -> Labels]
    /\ sdev \in [Devs -> SdevStates]
    /\ submit \in [Submitters ->
                    [at : {"idle", "dispatch", "queuecommand"}, dev : Devs]]
    /\ store \in [Writers ->
                    [at : {"idle", "rearm", "assign"}, attr : Attrs, val : Int]]
    /\ StoredInRange

(***************************************************************************)
(* A blocked port has a timer that will end the blocking: fast_io_fail or  *)
(* dev_loss is armed, or its handler has started and is waiting for the    *)
(* mutex.  The non-waiting cancel_delayed_work() calls of a successful     *)
(* reconnect, the writers that switch a timeout off while the port is      *)
(* blocked, and stale handlers must not break it, or I/O stays queued      *)
(* forever.                                                                *)
(***************************************************************************)
BlockedIsTimed ==
    state = "blocked" =>
        \E w \in {"fast_io_fail_work", "dev_loss_work"} :
            pend[w] \/ pc[w] = "lock"

(***************************************************************************)
(* reconnect() and terminate_rport_io() never run while a command is       *)
(* inside srp_queuecommand(), neither from a submitter nor from the error  *)
(* handler: the claim in the comments of srp_reconnect_rport() and         *)
(* srp_terminate_io().                                                     *)
(***************************************************************************)
QueuecommandExcluded ==
    (\E t \in Threads : pc[t] \in {"reconnect", "terminate"}) =>
        /\ \A s \in Submitters : submit[s].at # "queuecommand"
        /\ pc["eh"] # "eh_queuecommand"

(***************************************************************************)
(* Whenever nobody holds the mutex the SCSI devices agree with the port:   *)
(* no device of a running, failed or lost port is left blocked, and no     *)
(* device of a blocked port accepts I/O.                                   *)
(***************************************************************************)
DevicesFollowPort ==
    mutex = NoThread =>
        \A d \in Devs :
            sdev[d] \in
                CASE state = "running" -> {"running", "offline", "del"}
                  [] state = "blocked" -> {"block", "offline", "del"}
                  [] OTHER -> SdevStates \ {"block"}

(***************************************************************************)
(* Once srp_stop_rport_timers() has returned no work of the port is armed  *)
(* or running, in spite of transport errors, self-requeueing works and     *)
(* writers, and the error handler, if it still runs, uses no channel: the  *)
(* channels can be freed.  When the rport reference is dropped no other    *)
(* thread of the driver is left that could touch the rport.                *)
(***************************************************************************)
StoppedIsQuiet ==
    /\ pc["remove_work"] \in {"free_ch", "cancel_tl_err_work", "gone"} =>
          /\ \A w \in RportWorks : ~pend[w] /\ pc[w] = "idle"
          /\ pc["eh"] \notin {"reconnect", "terminate", "eh_queuecommand"}
          /\ ~scsi_request_fn_active
    /\ pc["remove_work"] = "gone" =>
          /\ \A t \in Threads \ {"remove_work", "eh"} : pc[t] = "idle"
          /\ ~pend["tl_err_work"]
          /\ \A w \in Writers : store[w].at = "idle"

(***************************************************************************)
(* With no write in progress, time-based reconnecting never gets lost:     *)
(* while the port is blocked or failed and reconnect_delay is on,          *)
(* reconnect_work is armed or running.  The attempts that                  *)
(* srp_reset_host() makes on the same port and the self-requeueing of      *)
(* srp_reconnect_work() must not break the chain.                          *)
(***************************************************************************)
ReconnectScheduled ==
    /\ mutex = NoThread /\ \A w \in Writers : store[w].at = "idle"
    /\ state \in {"blocked", "fail_fast"} /\ reconnect_delay > 0
    => pend["reconnect_work"] \/ pc["reconnect_work"] # "idle"

(***************************************************************************)
(* The works, the mutex and the callers together implement the service     *)
(* SrpPortService: I/O is held for the devices in state SDEV_BLOCK and an  *)
(* attempt lasts as long as srp_reconnect_rport() owns the mutex.          *)
(***************************************************************************)
Service == INSTANCE SrpPortService WITH
    held <- {d \in Devs : sdev[d] = "block"},
    attempt <- \E t \in Reconnecters : mutex = t /\ pc[t] # "eh_queuecommand"

ImplementsService == Service!Spec

(***************************************************************************)
(* I/O held back by a blocked device is always released: the device runs   *)
(* again, fails its I/O or goes offline.  Every path out of blocking in    *)
(* srp_reconnect_rport() and the two timeout handlers is needed for this.  *)
(***************************************************************************)
HeldIoIsReleased == \A d \in Devs : sdev[d] = "block" ~> sdev[d] # "block"

(***************************************************************************)
(* A removal that has been queued completes, unless commands keep failing  *)
(* so that the error handler starts again forever: srp_remove_target()     *)
(* does not wait forever for the mutex, for blocked I/O or for a work that *)
(* keeps requeueing itself.                                                *)
(***************************************************************************)
RemovalCompletes ==
    <>[][~EhStart]_vars =>
        (pc["remove_work"] = "queued" ~> pc["remove_work"] = "gone")
-----------------------------------------------------------------------------
(***************************************************************************)
(* The inductive invariant behind the safety properties.  Its parts:       *)
(* the mutex has the owner the program counters say;                       *)
(***************************************************************************)
MutexInv == \A t \in Threads : (pc[t] \in Holding) <=> (mutex = t)

(***************************************************************************)
(* no command is being submitted while the error handler runs;             *)
(***************************************************************************)
EhInv == pc["eh"] # "idle" => \A s \in Submitters : submit[s].at = "idle"

(***************************************************************************)
(* from scsi_target_block() to the end of reconnect() no device is         *)
(* running, and what was dispatched since will see a blocked device; from  *)
(* failing the port to the end of terminate_rport_io(), and while the      *)
(* error handler sends a command, nobody changes its state;                *)
(***************************************************************************)
ReconnectInv ==
    \A t \in Threads :
        /\ pc[t] \in {"quiesce", "reconnect"} => \A d \in Devs : sdev[d] # "running"
        /\ pc[t] = "reconnect" =>
              /\ state # "lost"
              /\ \A s \in Submitters :
                    \/ submit[s].at = "idle"
                    \/ submit[s].at = "dispatch" /\ sdev[submit[s].dev] = "block"
        /\ pc[t] \in {"fail_io", "terminate"} => state = "fail_fast"
        /\ pc[t] = "eh_queuecommand" => srp_chkready
        /\ pc[t] = "terminate" => \A s \in Submitters : submit[s].at # "queuecommand"

(***************************************************************************)
(* the devices agree with the port, in the middle of a reconnection too;   *)
(***************************************************************************)
Reconnecting == \E t \in Threads : pc[t] \in {"quiesce", "reconnect"}

DeviceInv ==
    \A d \in Devs :
        /\ state = "running" /\ ~Reconnecting =>
              sdev[d] \in {"running", "offline", "del"}
        /\ state = "running" /\ Reconnecting =>
              sdev[d] \in {"block", "offline", "del"}
        /\ state = "blocked" => sdev[d] \in {"block", "offline", "del"}
        /\ state \in {"fail_fast", "lost"} /\ ~Reconnecting => sdev[d] # "block"

(***************************************************************************)
(* and the removal has established, in this order: no store method, no     *)
(* device, a lost port, no reconnect_work, no fast_io_fail_work, no        *)
(* dev_loss_work, no tl_err_work.                                          *)
(***************************************************************************)
Quiet(w) == ~pend[w] /\ pc[w] = "idle"

StagesFreed == {"free_ch", "cancel_tl_err_work", "gone"}
StagesLost == CancelLabels \cup StagesFreed
StagesHostGone == {"lock", "fail_io", "terminate"} \cup StagesLost

StopInv ==
    /\ pc["remove_work"] \in {"scsi_remove_host"} \cup StagesHostGone =>
          \A w \in Writers : store[w].at = "idle"
    /\ pc["remove_work"] \in StagesHostGone =>
          \A d \in Devs : sdev[d] = "del"
    /\ \A s \in Submitters : submit[s].at # "idle" => sdev[submit[s].dev] # "del"
    /\ pc["remove_work"] \in StagesLost =>
          state = "lost" /\ ~pend["reconnect_work"]
    /\ pc["remove_work"] \in StagesLost \ {"cancel_reconnect_work"} =>
          Quiet("reconnect_work") /\ ~pend["fast_io_fail_work"]
    /\ pc["remove_work"] \in {"cancel_dev_loss_work"} \cup StagesFreed =>
          Quiet("fast_io_fail_work") /\ ~pend["dev_loss_work"]
    /\ pc["remove_work"] \in StagesFreed => Quiet("dev_loss_work")
    /\ pc["remove_work"] \in {"cancel_tl_err_work", "gone"} => ~pend["tl_err_work"]
    /\ pc["remove_work"] = "gone" => Quiet("tl_err_work")

(***************************************************************************)
(* IInv is inductive and implies BlockedIsTimed, QueuecommandExcluded,     *)
(* DevicesFollowPort and StoppedIsQuiet.                                   *)
(***************************************************************************)
IInv ==
    /\ TypeOK /\ MutexInv /\ EhInv /\ ReconnectInv /\ DeviceInv /\ StopInv
    /\ BlockedIsTimed
-----------------------------------------------------------------------------
(***************************************************************************)
(* What comments and documentation say, and the code does not do.          *)
(*                                                                         *)
(* srp_reconnect_rport(): a reconnect that fails on a running port marks   *)
(* the port as failed and starts the transport layer failure timers, so a  *)
(* failed port with dev_loss_tmo on is on its way to removal.              *)
(***************************************************************************)
FailedPortIsTimed ==
    mutex = NoThread /\ state = "fail_fast" /\ dev_loss_tmo >= 0
        => pend["dev_loss_work"] \/ pc["dev_loss_work"] # "idle"

(***************************************************************************)
(* srp-initiator-state-diagram.dot has no edge from running to lost: a     *)
(* port whose connection works is not lost unless somebody deletes it.     *)
(***************************************************************************)
RunningIsNotLost ==
    [][state = "running" /\ state' = "lost" => pc["remove_work"] # "idle"]_vars
=============================================================================
