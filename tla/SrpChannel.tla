----------------------------- MODULE SrpChannel -----------------------------
(***************************************************************************)
(* The RDMA channels of one SRP target port (struct srp_rdma_ch in         *)
(* src/drivers/infiniband/ulp/srp/ib_srp.c): how SCSI commands get a       *)
(* request slot, an information unit and a credit, how responses, aborts,  *)
(* resets, I/O termination and reconnects compete for a request, and how   *)
(* credits and information units are given back.                           *)
(*                                                                         *)
(* The kernel variant without HAVE_USE_BLK_TAGS is modelled: the driver    *)
(* keeps the list free_reqs itself.  The lists free_reqs and free_tx are   *)
(* a set and a counter, because their order matters to no property.  A     *)
(* request slot is a pair <<channel, tag>>.                                *)
(*                                                                         *)
(* That srp_queuecommand() never overlaps srp_rport_reconnect() or         *)
(* srp_terminate_io() is the theorem Exclusion of SrpRportProofs; here it  *)
(* is a guard of those actions.                                            *)
(***************************************************************************)
EXTENDS Integers, FiniteSets

CONSTANTS
  Cmds,       \* SCSI commands, at most Scsi_Host.can_queue of them
  Chans,      \* target->ch[]
  FirstChan,  \* target->ch[0]
  Tags,       \* the req_ring_size entries of ch->req_ring
  QueueSize,  \* target->queue_size, the number of entries of ch->tx_ring
  NoCmd,
  Settings    \* pairs of what the environment may do, a subset of RaceKinds,
              \* and the credits a login response grants

\* "late_response": the target answers a command that srp_abort() gave up.
\* "early_retake": the SCSI core reuses a command after srp_abort() returned
\* SUCCESS while a response handler still works on it.
\* "reset_overlap": an ioctl calls srp_reset_device() before all calls of
\* srp_queuecommand() have returned.
RaceKinds == {"late_response", "early_retake", "reset_overlap"}

\* srp_create_target() makes req_ring_size larger than can_queue.
ASSUME ChannelConstants ==
  /\ NoCmd \notin Cmds \cup Tags
  /\ IsFiniteSet(Cmds) /\ IsFiniteSet(Tags)
  /\ Cardinality(Cmds) <= Cardinality(Tags)
  /\ FirstChan \in Chans
  /\ QueueSize \in Nat
  /\ Settings \subseteq (SUBSET RaceKinds) \X (Nat \ {0})

Slots == Chans \X Tags

VARIABLES
  req_lim,       \* ch->req_lim
  free_tx,       \* the length of ch->free_tx
  posted,        \* send work requests that have not been polled
  free_reqs,     \* the slots on ch->free_reqs
  scmnd,         \* req->scmnd
  cmd,           \* who has a SCSI command, and its host_scribble
  wire,          \* SRP requests the target has not answered
  owed,          \* credits the target has not given back yet
  connected,     \* ch->connected
  alive,         \* the connection of ch->qp works
  qp_in_error,   \* target->qp_in_error
  tl_err,        \* target->tl_err_work is queued
  port,          \* rport->state: "running" or "down"
  rx,            \* the response handler of each channel
  tm,            \* the thread that runs srp_abort() or srp_reset_device()
  tsk_mgmt_done, \* ch->tsk_mgmt_done
  xport,         \* the steps of srp_rport_reconnect()
  races, granted \* the element of Settings that applies

setting == <<races, granted>>
lists == <<req_lim, free_tx, posted>>
requests == <<free_reqs, scmnd, cmd>>
target == <<wire, owed>>
link == <<connected, alive, qp_in_error, tl_err, port>>
vars == <<lists, requests, target, link, rx, tm, tsk_mgmt_done, xport>>

RxIdle == [cmd |-> NoCmd, tag |-> NoCmd, delta |-> 0, answers |-> NoCmd]
TmIdle == [at |-> "idle", cmd |-> NoCmd, slot |-> <<FirstChan, NoCmd>>]

\* The SCSI core has the command.
InCore == [at |-> "core", slot |-> NoCmd]

Init ==
  /\ \E st \in Settings : races = st[1] /\ granted = st[2]
  /\ req_lim = [ch \in Chans |-> granted]
  /\ free_tx = [ch \in Chans |-> QueueSize]
  /\ posted = [ch \in Chans |-> 0]
  /\ free_reqs = Slots
  /\ scmnd = [s \in Slots |-> NoCmd]
  /\ cmd = [c \in Cmds |-> InCore]
  /\ wire = {}
  /\ owed = [ch \in Chans |-> 0]
  /\ connected = [ch \in Chans |-> TRUE]
  /\ alive = [ch \in Chans |-> TRUE]
  /\ qp_in_error = FALSE
  /\ tl_err = FALSE
  /\ port = "running"
  /\ rx = [ch \in Chans |-> RxIdle]
  /\ tm = TmIdle
  /\ tsk_mgmt_done = [ch \in Chans |-> FALSE]
  /\ xport = "idle"

-----------------------------------------------------------------------------
(* Information units and credits.                                          *)

\* Mutant: a work completion is counted twice.
Polls_twice(ch) ==
  {p \in [ok : 0..(2 * posted[ch]), failed : 0..posted[ch]] :
     p.failed > 0 => ~alive[ch]}

\* Work completions that srp_send_completion() may find: sends fail only on
\* a connection that no longer works.
Polls(ch) ==
  {p \in [ok : 0..posted[ch], failed : 0..posted[ch]] :
     /\ p.ok + p.failed <= posted[ch]
     /\ p.failed > 0 => ~alive[ch]}

srp_handle_qp_err(ch, err) ==
  /\ tl_err' = (tl_err \/ (err /\ connected[ch] /\ ~qp_in_error))
  /\ qp_in_error' = (qp_in_error \/ err)

\* Mutant: no credit is kept for task management.
rsv_none(type) == 0

\* Credits that a request of a given type leaves for task management.
rsv(type) == IF type = "tsk_mgmt" THEN 0 ELSE 1

\* __srp_get_tx_iu() finds an information unit after polling p.
HasTxIu(ch, type, p) ==
  /\ free_tx[ch] + p.ok > 0
  /\ type # "rsp" => req_lim[ch] > rsv(type)

\* A number that distinguishes a new request from those on the wire.
Fresh == CHOOSE n \in 0..Cardinality(wire) : \A r \in wire : r.n # n

Request(ch, kind, tag, c) ==
  [ch |-> ch, kind |-> kind, tag |-> tag, cmd |-> c, n |-> Fresh]

-----------------------------------------------------------------------------
(* srp_queuecommand().                                                     *)

InQueuecommand == {c \in Cmds : cmd[c].at = "map"}

\* The SCSI core may queue command c: the port is running and not being
\* reconnected, and neither c nor the host is in error recovery.
MayQueue(c) ==
  /\ port = "running" /\ xport = "idle"
  /\ cmd[c].at = "core" /\ tm.cmd # c
  /\ tm.cmd = NoCmd => tm.at = "idle"

\* No information unit or credit is left: SCSI_MLQUEUE_HOST_BUSY.
srp_queuecommand_busy(c, ch) ==
  /\ MayQueue(c)
  /\ \E p \in Polls(ch) :
       /\ ~HasTxIu(ch, "cmd", p)
       /\ free_tx' = [free_tx EXCEPT ![ch] = @ + p.ok]
       /\ posted' = [posted EXCEPT ![ch] = @ - p.ok - p.failed]
       /\ srp_handle_qp_err(ch, p.failed > 0)
  /\ UNCHANGED <<req_lim, requests, target, connected, alive, port, rx, tm,
                 tsk_mgmt_done, xport>>

\* Take an information unit and a request, and let the request point at the
\* command.
srp_queuecommand(c, ch) ==
  /\ MayQueue(c)
  /\ \E p \in Polls(ch), s \in free_reqs :
       /\ s[1] = ch
       /\ HasTxIu(ch, "cmd", p)
       /\ free_tx' = [free_tx EXCEPT ![ch] = @ + p.ok - 1]
       /\ posted' = [posted EXCEPT ![ch] = @ - p.ok - p.failed]
       /\ srp_handle_qp_err(ch, p.failed > 0)
       /\ free_reqs' = free_reqs \ {s}
       /\ scmnd' = [scmnd EXCEPT ![s] = c]
       /\ cmd' = [cmd EXCEPT ![c] = [at |-> "map", slot |-> s]]
  /\ req_lim' = [req_lim EXCEPT ![ch] = @ - 1]
  /\ UNCHANGED <<target, connected, alive, port, rx, tm, tsk_mgmt_done, xport>>

\* srp_map_data() and srp_post_send() succeed.
srp_post_send(c) ==
  LET s == cmd[c].slot IN
  /\ cmd[c].at = "map"
  /\ cmd' = [cmd EXCEPT ![c].at = "lld"]
  /\ posted' = [posted EXCEPT ![s[1]] = @ + 1]
  /\ wire' = wire \cup {Request(s[1], "cmd", s[2], c)}
  /\ UNCHANGED <<req_lim, free_tx, free_reqs, scmnd, owed, link, rx, tm,
                 tsk_mgmt_done, xport>>

\* Mutant: the error path does not put the request back on ch->free_reqs.
srp_queuecommand_err_leaks(c) ==
  LET s == cmd[c].slot IN
  /\ cmd[c].at = "map"
  /\ free_tx' = [free_tx EXCEPT ![s[1]] = @ + 1]
  /\ req_lim' = [req_lim EXCEPT ![s[1]] = @ + 1]
  /\ scmnd' = [scmnd EXCEPT ![s] = NoCmd]
  /\ cmd' = [cmd EXCEPT ![c] = InCore]
  /\ UNCHANGED <<posted, free_reqs, target, link, rx, tm, tsk_mgmt_done, xport>>

\* srp_map_data() or srp_post_send() fails: err_iu.
srp_queuecommand_err(c) ==
  LET s == cmd[c].slot IN
  /\ cmd[c].at = "map"
  /\ free_tx' = [free_tx EXCEPT ![s[1]] = @ + 1]
  /\ req_lim' = [req_lim EXCEPT ![s[1]] = @ + 1]
  /\ scmnd' = [scmnd EXCEPT ![s] = NoCmd]
  /\ free_reqs' = free_reqs \cup {s}
  /\ cmd' = [cmd EXCEPT ![c] = InCore]
  /\ UNCHANGED <<posted, target, link, rx, tm, tsk_mgmt_done, xport>>

-----------------------------------------------------------------------------
(* Giving requests back.                                                   *)

\* scsi_done(): the commands return to the SCSI core.  It does not end a
\* srp_queuecommand() call that is still in progress.
Done(cs) ==
  [c \in Cmds |-> IF c \in cs /\ cmd[c].at = "lld"
                     THEN InCore ELSE cmd[c]]

Busy(slots) == {s \in slots : scmnd[s] # NoCmd}

\* srp_finish_req() for every request of a set: srp_claim_req() and
\* srp_free_req() without credits.  The commands go back with Done().
srp_finish_req(slots) ==
  /\ scmnd' = [s \in Slots |-> IF s \in slots THEN NoCmd ELSE scmnd[s]]
  /\ free_reqs' = free_reqs \cup Busy(slots)

-----------------------------------------------------------------------------
(* The target and the receive completion handler.                          *)

\* The requests that a task management function makes the target forget.
Aborted(r) ==
  {q \in wire : /\ q.kind = "cmd"
                /\ \/ r.kind = "lun_reset"
                   \/ r.kind = "abort" /\ q.ch = r.ch /\ q.tag = r.tag}

CreditsOf(rs, ch) == Cardinality({q \in rs : q.ch = ch})

\* Mutant: a response nobody waits for does not give its credits back.
srp_process_rsp_drops(r) ==
  LET s == <<r.ch, r.tag>> IN
  /\ r.kind = "cmd" /\ alive[r.ch] /\ rx[r.ch] = RxIdle
  /\ wire' = wire \ {r}
  /\ \E delta \in 0..(owed[r.ch] + 1) :
       /\ owed' = [owed EXCEPT ![r.ch] = @ + 1 - delta]
       /\ \/ /\ scmnd[s] # NoCmd
             /\ rx' = [rx EXCEPT ![r.ch] =
                         [cmd |-> scmnd[s], tag |-> r.tag, delta |-> delta,
                          answers |-> r.cmd]]
             /\ scmnd' = [scmnd EXCEPT ![s] = NoCmd]
          \/ scmnd[s] = NoCmd /\ UNCHANGED <<rx, scmnd>>
  /\ UNCHANGED <<lists, free_reqs, cmd, link, tm, tsk_mgmt_done, xport>>

\* srp_process_rsp(), SRP_RSP of a command: claim the request or, if nobody
\* waits for this response, only take the credits.
srp_process_rsp(r) ==
  LET s == <<r.ch, r.tag>> IN
  /\ r.kind = "cmd" /\ alive[r.ch] /\ rx[r.ch] = RxIdle
  /\ wire' = wire \ {r}
  /\ \E delta \in 0..(owed[r.ch] + 1) :
       /\ owed' = [owed EXCEPT ![r.ch] = @ + 1 - delta]
       /\ \/ /\ scmnd[s] # NoCmd
             /\ rx' = [rx EXCEPT ![r.ch] =
                         [cmd |-> scmnd[s], tag |-> r.tag, delta |-> delta,
                          answers |-> r.cmd]]
             /\ scmnd' = [scmnd EXCEPT ![s] = NoCmd]
             /\ UNCHANGED req_lim
          \/ /\ scmnd[s] = NoCmd
             /\ req_lim' = [req_lim EXCEPT ![r.ch] = @ + delta]
             /\ UNCHANGED <<rx, scmnd>>
  /\ UNCHANGED <<free_tx, posted, free_reqs, cmd, link, tm, tsk_mgmt_done,
                 xport>>

\* srp_free_req() and scsi_done() for the claimed request.
srp_process_rsp_done(ch) ==
  /\ rx[ch] # RxIdle
  /\ req_lim' = [req_lim EXCEPT ![ch] = @ + rx[ch].delta]
  /\ free_reqs' = free_reqs \cup {<<ch, rx[ch].tag>>}
  /\ cmd' = Done({rx[ch].cmd})
  /\ rx' = [rx EXCEPT ![ch] = RxIdle]
  /\ UNCHANGED <<free_tx, posted, scmnd, target, link, tm, tsk_mgmt_done,
                 xport>>

\* srp_process_rsp(), SRP_RSP of a task management function: take the credits
\* and wake up srp_send_tsk_mgmt().
srp_process_rsp_tsk_mgmt(r) ==
  LET gone == Aborted(r) IN
  /\ r.kind # "cmd" /\ alive[r.ch] /\ rx[r.ch] = RxIdle
  /\ wire' = wire \ ({r} \cup gone)
  /\ \E delta \in 0..(owed[r.ch] + CreditsOf(gone, r.ch) + 1) :
       /\ owed' = [ch \in Chans |->
                     owed[ch] + CreditsOf(gone, ch)
                              + IF ch = r.ch THEN 1 - delta ELSE 0]
       /\ req_lim' = [req_lim EXCEPT ![r.ch] = @ + delta]
  /\ tsk_mgmt_done' = [tsk_mgmt_done EXCEPT ![r.ch] = TRUE]
  /\ UNCHANGED <<free_tx, posted, requests, link, rx, tm, xport>>

\* SRP_CRED_REQ and SRP_AER_REQ: take the credits, and answer if there is an
\* information unit and the send succeeds.
srp_response_common(ch) ==
  /\ alive[ch] /\ rx[ch] = RxIdle /\ owed[ch] > 0
  /\ \E delta \in 1..owed[ch] :
       /\ req_lim' = [req_lim EXCEPT ![ch] = @ + delta]
       /\ owed' = [owed EXCEPT ![ch] = @ - delta]
  /\ \E p \in Polls(ch), sent \in 0..1 :
       /\ sent = 1 => HasTxIu(ch, "rsp", p)
       /\ free_tx' = [free_tx EXCEPT ![ch] = @ + p.ok - sent]
       /\ posted' = [posted EXCEPT ![ch] = @ - p.ok - p.failed + sent]
       /\ srp_handle_qp_err(ch, p.failed > 0)
  /\ UNCHANGED <<requests, wire, connected, alive, port, rx, tm,
                 tsk_mgmt_done, xport>>

\* The connection breaks: no response comes any more.
ConnectionLost(ch) ==
  /\ alive[ch]
  /\ alive' = [alive EXCEPT ![ch] = FALSE]
  /\ UNCHANGED <<lists, requests, target, connected, qp_in_error, tl_err, port,
                 rx, tm, tsk_mgmt_done, xport>>

\* srp_recv_completion() finds a failed work completion.
srp_recv_completion_err(ch) ==
  /\ ~alive[ch] /\ ~qp_in_error
  /\ srp_handle_qp_err(ch, TRUE)
  /\ UNCHANGED <<lists, requests, target, connected, alive, port, rx, tm,
                 tsk_mgmt_done, xport>>

\* srp_tl_err_work() blocks the port unless the timers are off.
srp_tl_err_work ==
  /\ tl_err /\ xport = "idle"
  /\ tl_err' = FALSE
  /\ port' \in {port, "down"}
  /\ UNCHANGED <<lists, requests, target, connected, alive, qp_in_error, rx,
                 tm, tsk_mgmt_done, xport>>

-----------------------------------------------------------------------------
(* srp_abort(), srp_reset_device() and srp_send_tsk_mgmt().                *)

\* A command times out and the SCSI core calls srp_abort().
Timeout(c) ==
  /\ tm = TmIdle
  /\ cmd[c].at = "lld"
  /\ tm' = [at |-> "claim", cmd |-> c, slot |-> cmd[c].slot]
  /\ UNCHANGED <<lists, requests, target, link, rx, tsk_mgmt_done, xport>>

\* Mutant: srp_abort() looks at req->scmnd without taking it.
srp_abort_looks(c) ==
  /\ tm.at = "claim" /\ tm.cmd = c
  /\ scmnd[tm.slot] = c
  /\ tm' = [tm EXCEPT !.at = "check"]
  /\ UNCHANGED <<lists, requests, target, link, rx, tsk_mgmt_done, xport>>

\* srp_claim_req() succeeds.
srp_abort(c) ==
  /\ tm.at = "claim" /\ tm.cmd = c
  /\ scmnd[tm.slot] = c
  /\ scmnd' = [scmnd EXCEPT ![tm.slot] = NoCmd]
  /\ tm' = [tm EXCEPT !.at = "check"]
  /\ UNCHANGED <<lists, free_reqs, cmd, target, link, rx, tsk_mgmt_done, xport>>

\* srp_claim_req() fails because another context finishes the command.  The
\* SCSI core gets SUCCESS and may use the command again.
srp_abort_too_late(c) ==
  /\ tm.at = "claim" /\ tm.cmd = c
  /\ scmnd[tm.slot] # c
  /\ (\A ch \in Chans : rx[ch].cmd # c) \/ "early_retake" \in races
  /\ cmd' = Done({c})
  /\ tm' = TmIdle
  /\ UNCHANGED <<lists, free_reqs, scmnd, target, link, rx, tsk_mgmt_done,
                 xport>>

\* The SCSI error handler or an ioctl calls srp_reset_device(); no further
\* command is queued until it returns.
srp_reset_device ==
  /\ tm = TmIdle
  /\ InQueuecommand = {} \/ "reset_overlap" \in races
  /\ tm' = [TmIdle EXCEPT !.at = "check"]
  /\ UNCHANGED <<lists, requests, target, link, rx, tsk_mgmt_done, xport>>

\* srp_send_tsk_mgmt() looks at ch->connected and target->qp_in_error before
\* it locks rport->mutex.
srp_send_tsk_mgmt_check ==
  LET ch == tm.slot[1] IN
  /\ tm.at = "check"
  /\ \/ /\ ~connected[ch] \/ qp_in_error
        /\ tm' = [tm EXCEPT !.at = "failed"]
        /\ UNCHANGED tsk_mgmt_done
     \/ /\ connected[ch] /\ ~qp_in_error
        /\ tm' = [tm EXCEPT !.at = "lock"]
        /\ tsk_mgmt_done' = [tsk_mgmt_done EXCEPT ![ch] = FALSE]
  /\ UNCHANGED <<lists, requests, target, link, rx, xport>>

TskMgmtKind == IF tm.cmd = NoCmd THEN "lun_reset" ELSE "abort"

\* Under rport->mutex: no information unit, or srp_post_send() fails.
srp_send_tsk_mgmt_err ==
  LET ch == tm.slot[1] IN
  /\ tm.at = "lock" /\ xport = "idle"
  /\ \E p \in Polls(ch) :
       /\ free_tx' = [free_tx EXCEPT ![ch] = @ + p.ok]
       /\ posted' = [posted EXCEPT ![ch] = @ - p.ok - p.failed]
       /\ srp_handle_qp_err(ch, p.failed > 0)
  /\ tm' = [tm EXCEPT !.at = "failed"]
  /\ UNCHANGED <<req_lim, requests, target, connected, alive, port, rx,
                 tsk_mgmt_done, xport>>

\* Under rport->mutex: the task management request is sent.
srp_send_tsk_mgmt ==
  LET ch == tm.slot[1] IN
  /\ tm.at = "lock" /\ xport = "idle"
  /\ \E p \in Polls(ch) :
       /\ HasTxIu(ch, "tsk_mgmt", p)
       /\ free_tx' = [free_tx EXCEPT ![ch] = @ + p.ok - 1]
       /\ posted' = [posted EXCEPT ![ch] = @ - p.ok - p.failed + 1]
       /\ srp_handle_qp_err(ch, p.failed > 0)
  /\ req_lim' = [req_lim EXCEPT ![ch] = @ - 1]
  /\ wire' = wire \cup {Request(ch, TskMgmtKind, tm.slot[2], tm.cmd)}
  /\ tm' = [tm EXCEPT !.at = "wait"]
  /\ UNCHANGED <<requests, owed, connected, alive, port, rx, tsk_mgmt_done,
                 xport>>

\* wait_for_completion_timeout() returns because a response came.
srp_send_tsk_mgmt_ok ==
  LET ch == tm.slot[1] IN
  /\ tm.at = "wait" /\ tsk_mgmt_done[ch]
  /\ tm' = [tm EXCEPT !.at = "done"]
  /\ tsk_mgmt_done' = [tsk_mgmt_done EXCEPT ![ch] = FALSE]
  /\ UNCHANGED <<lists, requests, target, link, rx, xport>>

\* The initiator gives up waiting for answers to requests.  A target that is
\* not late never sends them.
GiveUp(rs) ==
  LET gone == IF "late_response" \in races THEN {} ELSE rs IN
  /\ wire' = wire \ gone
  /\ owed' = [ch \in Chans |-> owed[ch] + CreditsOf(gone, ch)]

\* Mutant: the wait for a response has no timeout.
srp_send_tsk_mgmt_wait == FALSE /\ UNCHANGED vars

\* wait_for_completion_timeout() times out.
srp_send_tsk_mgmt_timeout ==
  LET ch == tm.slot[1] IN
  /\ tm.at = "wait" /\ ~tsk_mgmt_done[ch]
  /\ tm' = [tm EXCEPT !.at = "failed"]
  /\ GiveUp({q \in wire : q.kind # "cmd" /\ q.ch = ch})
  /\ UNCHANGED <<lists, requests, link, rx, tsk_mgmt_done, xport>>

\* The end of srp_abort(): srp_free_req() and scsi_done().
srp_abort_done ==
  /\ tm.at \in {"done", "failed"} /\ tm.cmd # NoCmd
  /\ free_reqs' = free_reqs \cup {tm.slot}
  /\ cmd' = Done({tm.cmd})
  /\ GiveUp({q \in wire : q.kind = "cmd" /\ <<q.ch, q.tag>> = tm.slot})
  /\ tm' = TmIdle
  /\ UNCHANGED <<lists, scmnd, link, rx, tsk_mgmt_done, xport>>

\* srp_reset_device() returns FAILED, because no response came or because
\* of its status.
srp_reset_device_failed ==
  /\ tm.at \in {"done", "failed"} /\ tm.cmd = NoCmd
  /\ tm' = TmIdle
  /\ UNCHANGED <<lists, requests, target, link, rx, tsk_mgmt_done, xport>>

\* srp_reset_device() finishes the requests of target->ch[0] only: the inner
\* loop reuses the variable of the outer one.
srp_reset_device_done ==
  LET ring == {FirstChan} \X Tags IN
  /\ tm.at = "done" /\ tm.cmd = NoCmd
  /\ srp_finish_req(ring)
  /\ cmd' = Done({scmnd[s] : s \in Busy(ring)})
  /\ tm' = TmIdle
  /\ UNCHANGED <<lists, target, link, rx, tsk_mgmt_done, xport>>

-----------------------------------------------------------------------------
(* srp_terminate_io() and srp_rport_reconnect(), called with rport->mutex  *)
(* held while no srp_queuecommand() call is in progress.                   *)

srp_terminate_io ==
  /\ port = "down" /\ xport = "idle" /\ InQueuecommand = {}
  /\ srp_finish_req(Slots)
  /\ cmd' = Done({scmnd[s] : s \in Busy(Slots)})
  /\ UNCHANGED <<lists, target, link, rx, tm, tsk_mgmt_done, xport>>

\* srp_disconnect_target().
srp_disconnect_target ==
  /\ xport = "idle" /\ InQueuecommand = {}
  /\ connected' = [ch \in Chans |-> FALSE]
  /\ xport' = "reset"
  /\ UNCHANGED <<lists, requests, target, alive, qp_in_error, tl_err, port,
                 rx, tm, tsk_mgmt_done>>

\* Every outstanding request is finished with DID_RESET.
srp_rport_reconnect_reset ==
  /\ xport = "reset"
  /\ srp_finish_req(Slots)
  /\ cmd' = Done({scmnd[s] : s \in Busy(Slots)})
  /\ xport' = "create"
  /\ UNCHANGED <<lists, target, link, rx, tm, tsk_mgmt_done>>

\* A target that is being scanned is not reconnected: -ENODEV.
srp_rport_reconnect_scanning ==
  /\ xport = "reset"
  /\ xport' = "failed"
  /\ UNCHANGED <<lists, requests, target, link, rx, tm, tsk_mgmt_done>>

\* Mutant: the result of srp_create_ch_ib() is ignored.
srp_create_ch_ib_ignored ==
  /\ xport = "create"
  /\ \E new \in SUBSET Chans :
       /\ \A ch \in new : rx[ch] = RxIdle
       /\ wire' = {r \in wire : r.ch \notin new}
       /\ owed' = [ch \in Chans |-> IF ch \in new THEN 0 ELSE owed[ch]]
       /\ posted' = [ch \in Chans |-> IF ch \in new THEN 0 ELSE posted[ch]]
       /\ alive' = [ch \in Chans |-> ch \notin new /\ alive[ch]]
  /\ xport' = "connect"
  /\ free_tx' = [ch \in Chans |-> QueueSize]
  /\ qp_in_error' = FALSE
  /\ UNCHANGED <<req_lim, requests, connected, tl_err, port, rx, tm,
                 tsk_mgmt_done>>

\* srp_create_ch_ib() for every channel.  Where it succeeds, srp_destroy_qp()
\* has waited for the completion handlers of the old queue pair and nothing
\* of it is left; elsewhere the old queue pair stays.  ch->free_tx is rebuilt
\* in both cases.
srp_create_ch_ib ==
  /\ xport = "create"
  /\ \E new \in SUBSET Chans, ret \in BOOLEAN :
       /\ \A ch \in new : rx[ch] = RxIdle
       /\ wire' = {r \in wire : r.ch \notin new}
       /\ owed' = [ch \in Chans |-> IF ch \in new THEN 0 ELSE owed[ch]]
       /\ posted' = [ch \in Chans |-> IF ch \in new THEN 0 ELSE posted[ch]]
       /\ alive' = [ch \in Chans |-> ch \notin new /\ alive[ch]]
       /\ ret => new = Chans
       /\ xport' = IF ret THEN "connect" ELSE "failed"
  /\ free_tx' = [ch \in Chans |-> QueueSize]
  /\ qp_in_error' = FALSE
  /\ UNCHANGED <<req_lim, requests, connected, tl_err, port, rx, tm,
                 tsk_mgmt_done>>

\* srp_connect_ch() of the next channel succeeds: the login response sets
\* ch->req_lim.
srp_connect_ch(ch) ==
  /\ xport = "connect"
  /\ ~connected[ch]
  /\ connected' = [connected EXCEPT ![ch] = TRUE]
  /\ alive' = [alive EXCEPT ![ch] = TRUE]
  /\ req_lim' = [req_lim EXCEPT ![ch] = granted]
  /\ UNCHANGED <<free_tx, posted, requests, target, qp_in_error, tl_err, port,
                 rx, tm, tsk_mgmt_done, xport>>

\* srp_connect_ch() of the next channel fails.
srp_connect_ch_failed ==
  /\ xport = "connect"
  /\ \E ch \in Chans : ~connected[ch]
  /\ xport' = "failed"
  /\ UNCHANGED <<lists, requests, target, link, rx, tm, tsk_mgmt_done>>

\* srp_reconnect_rport() handles the result of srp_rport_reconnect().
srp_rport_reconnect_done ==
  /\ \/ xport = "failed" /\ port' = "down"
     \/ xport = "connect" /\ (\A ch \in Chans : connected[ch])
                          /\ port' = "running"
  /\ xport' = "idle"
  /\ UNCHANGED <<lists, requests, target, connected, alive, qp_in_error,
                 tl_err, rx, tm, tsk_mgmt_done>>

-----------------------------------------------------------------------------
Queuecommand ==
  \E c \in Cmds :
    \/ \E ch \in Chans : srp_queuecommand(c, ch) \/ srp_queuecommand_busy(c, ch)
    \/ srp_post_send(c)
    \/ srp_queuecommand_err(c)

Receive ==
  \/ \E r \in wire : srp_process_rsp(r) \/ srp_process_rsp_tsk_mgmt(r)
  \/ \E ch \in Chans :
       \/ srp_process_rsp_done(ch)
       \/ srp_response_common(ch)
       \/ ConnectionLost(ch)
       \/ srp_recv_completion_err(ch)

TskMgmt ==
  \/ \E c \in Cmds : Timeout(c) \/ srp_abort(c) \/ srp_abort_too_late(c)
  \/ srp_reset_device
  \/ srp_send_tsk_mgmt_check
  \/ srp_send_tsk_mgmt_err
  \/ srp_send_tsk_mgmt
  \/ srp_send_tsk_mgmt_ok
  \/ srp_send_tsk_mgmt_timeout
  \/ srp_abort_done
  \/ srp_reset_device_failed
  \/ srp_reset_device_done

Transport ==
  \/ srp_tl_err_work
  \/ srp_terminate_io
  \/ srp_disconnect_target
  \/ srp_rport_reconnect_reset
  \/ srp_rport_reconnect_scanning
  \/ srp_create_ch_ib
  \/ \E ch \in Chans : srp_connect_ch(ch)
  \/ srp_connect_ch_failed
  \/ srp_rport_reconnect_done

Next == (Queuecommand \/ Receive \/ TskMgmt \/ Transport) /\ UNCHANGED setting

Spec == Init /\ [][Next]_<<vars, setting>>

\* The thread of srp_abort() or srp_reset_device().
TskMgmtThread ==
  \/ \E c \in Cmds : srp_abort(c) \/ srp_abort_too_late(c)
  \/ srp_send_tsk_mgmt_check
  \/ srp_send_tsk_mgmt_err \/ srp_send_tsk_mgmt
  \/ srp_send_tsk_mgmt_ok \/ srp_send_tsk_mgmt_timeout
  \/ srp_abort_done \/ srp_reset_device_failed \/ srp_reset_device_done

\* The thread of srp_reconnect_rport(), once it has started.
ReconnectThread ==
  \/ srp_rport_reconnect_reset \/ srp_rport_reconnect_scanning
  \/ srp_create_ch_ib
  \/ srp_connect_ch_failed \/ (\E ch \in Chans : srp_connect_ch(ch))
  \/ srp_rport_reconnect_done

\* Threads that run are scheduled, a mutex that is free again and again is
\* obtained, and the block layer times out a command that stays outstanding.
\* Nothing is assumed of the target or of the connection.
Fairness ==
  /\ \A c \in Cmds : SF_vars(Timeout(c))
  /\ \A c \in Cmds : WF_vars(srp_post_send(c) \/ srp_queuecommand_err(c))
  /\ \A ch \in Chans : WF_vars(srp_process_rsp_done(ch))
  /\ SF_vars(TskMgmtThread)
  /\ WF_vars(ReconnectThread)

FairSpec == Spec /\ Fairness

-----------------------------------------------------------------------------
(* Correctness.                                                            *)

\* Every variable has its type.
TypeOK ==
  /\ req_lim \in [Chans -> Int]
  /\ free_tx \in [Chans -> Int]
  /\ posted \in [Chans -> Nat]
  /\ free_reqs \subseteq Slots
  /\ scmnd \in [Slots -> Cmds \cup {NoCmd}]
  /\ cmd \in [Cmds -> [at : {"core", "map", "lld"}, slot : Slots \cup {NoCmd}]]
  /\ \A c \in Cmds : cmd[c].at # "core" => cmd[c].slot \in Slots
  /\ wire \subseteq [ch : Chans, kind : {"cmd", "abort", "lun_reset"},
                    tag : Tags \cup {NoCmd}, cmd : Cmds \cup {NoCmd}, n : Nat]
  /\ owed \in [Chans -> Nat]
  /\ connected \in [Chans -> BOOLEAN]
  /\ alive \in [Chans -> BOOLEAN]
  /\ qp_in_error \in BOOLEAN
  /\ tl_err \in BOOLEAN
  /\ port \in {"running", "down"}
  /\ rx \in [Chans -> [cmd : Cmds \cup {NoCmd}, tag : Tags \cup {NoCmd},
                       delta : Nat, answers : Cmds \cup {NoCmd}]]
  /\ tm \in [at : {"idle", "claim", "check", "lock", "wait", "done", "failed"},
             cmd : Cmds \cup {NoCmd}, slot : Chans \X (Tags \cup {NoCmd})]
  /\ tsk_mgmt_done \in [Chans -> BOOLEAN]
  /\ xport \in {"idle", "reset", "create", "connect", "failed"}

\* The srp_queuecommand() calls that have an information unit and a credit.
Held(ch) == {c \in InQueuecommand : cmd[c].slot[1] = ch}

\* No credit is lost and none is made up: what the initiator believes to have
\* left, plus what is in use, being sent back or owed by the target, is what
\* the login granted, whichever of response, abort, reset, I/O termination
\* and failed send got to a request first (ch->req_lim).
CreditsConserved ==
  \A ch \in Chans : connected[ch] =>
    req_lim[ch] + Cardinality(Held(ch)) + CreditsOf(wire, ch) + owed[ch]
      + rx[ch].delta = granted

\* No information unit is on ch->free_tx and in use at the same time while
\* the channel is connected, although srp_rport_reconnect() rebuilds the list
\* without looking at the sends in progress.
TxIusNotShared ==
  \A ch \in Chans : connected[ch] =>
    /\ free_tx[ch] >= 0
    /\ free_tx[ch] + posted[ch] + Cardinality(Held(ch)) <= QueueSize

\* SCSI commands leave a credit for task management: a channel without one
\* has a task management function or its credit outstanding.
TskMgmtCredit ==
  \A ch \in Chans :
    connected[ch] /\ owed[ch] = 0 /\ rx[ch].delta = 0
      /\ (\A r \in wire : r.ch = ch => r.kind = "cmd")
    => req_lim[ch] > 0

TmClaimed == tm.at \in {"check", "lock", "wait", "done", "failed"} /\ tm.cmd # NoCmd

\* The places from which a command can be given back to the SCSI core.
Holders(c) ==
  {s \in Slots : scmnd[s] = c}
    \cup {ch \in Chans : rx[ch].cmd = c}
    \cup (IF TmClaimed /\ tm.cmd = c THEN {"tm"} ELSE {})

\* The environment keeps to the rules: no race of RaceKinds happens.
NoRaces == races = {}

\* A command the driver accepted is held by exactly one of the request ring,
\* the response handler and srp_abort(), so that scsi_done() is called for it
\* exactly once; a command of the SCSI core is held by none.
OneHolder ==
  NoRaces => \A c \in Cmds :
    Cardinality(Holders(c)) = IF cmd[c].at = "core" THEN 0 ELSE 1

\* A request is on ch->free_reqs exactly when nobody uses it, and
\* srp_queuecommand() never takes the first entry of an empty list: as long
\* as the SCSI core has a command left to queue, every channel has a free
\* request.
FreeReqsSound ==
  NoRaces =>
    /\ \A s \in Slots :
         s \in free_reqs <=> /\ scmnd[s] = NoCmd
                            /\ rx[s[1]].tag # s[2]
                            /\ ~(TmClaimed /\ tm.slot = s)
    /\ \A ch \in Chans :
         (\E c \in Cmds : cmd[c].at = "core") => \E s \in free_reqs : s[1] = ch

\* A response completes the command the target answered, and not a later
\* command that was given the same tag.
RightCommandCompleted ==
  NoRaces => \A ch \in Chans : rx[ch].cmd = rx[ch].answers

\* Every command the driver accepted returns to the SCSI core.
CommandsReturn ==
  \A c \in Cmds : cmd[c].at = "lld" ~> cmd[c].at = "core"

\* srp_abort() does not run while srp_rport_reconnect() does, as the comment
\* above srp_rport_reconnect() asks of its caller.
AbortExcluded ==
  xport # "idle" => ~TmClaimed
=============================================================================
