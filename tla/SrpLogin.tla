------------------------------ MODULE SrpLogin ------------------------------
(***************************************************************************)
(* How one RDMA channel logs in to a target and is taken down again, from  *)
(* src/drivers/infiniband/ulp/srp/ib_srp.c: srp_create_target() creates    *)
(* and connects the channel, srp_rport_reconnect() replaces its CM ID and  *)
(* its queue pair and connects it again, srp_free_ch_ib() frees it.  The   *)
(* thread that does this waits, again and again, for the one completion    *)
(* ch->done and then reads ch->status; the path record query, the handlers *)
(* of the IB CM and of the RDMA CM and the last receive work request all   *)
(* complete ch->done, and none of them says on whose behalf.               *)
(*                                                                         *)
(* The two CM IDs that can exist at a time are the one that ch refers to   *)
(* ("cur") and the one that srp_new_cm_id() creates or that is being       *)
(* destroyed ("other").  The manager changes the state of a CM ID at once  *)
(* and queues the event; the handler gets it later.                        *)
(***************************************************************************)
EXTENDS Integers, Sequences, CmClient

CONSTANTS
  MaxReconnects,  \* bound: how often srp_rport_reconnect() is called
  Envs            \* what the environment may do: subsets of EnvKinds

\* "lookup_signal": a signal ends the wait for a path record or a route.
\* "cm_id_failure": srp_new_cm_id() fails during a reconnect.
\* "old_event": with the RDMA CM, the handler gets an event of the old
\* connection while the address of the target is looked up again.
\* "short_timewait": the time wait of a connection that was rejected ends
\* before the thread that waited for the login has read ch->status.
EnvKinds == {"lookup_signal", "cm_id_failure", "old_event", "short_timewait"}

ASSUME LoginConstants ==
  /\ MaxReconnects \in Nat
  /\ Envs \subseteq SUBSET EnvKinds

VARIABLES
  using_rdma_cm,  \* target->using_rdma_cm
  phase,          \* the target: "new", "scanning", "live", "freed" when it was
                  \* removed, "abandoned" when it could not be created
  pc, op, ret,    \* the thread that logs in, its task, its return value
  done,           \* ch->done.done
  status,         \* ch->status
  connected,      \* ch->connected
  qp,             \* the state of ch->qp
  last_wr,        \* SRP_LAST_WR_ID has been posted and is not yet polled
  accepted,       \* srp_cm_rep_handler() has accepted the login of ch->qp
  cm,             \* the CM IDs
  events,         \* per CM ID, the events its handler has not handled
  queries,        \* path record queries that are under way
  tl_err,         \* target->tl_err_work is queued
  recovering,     \* it has started the recovery of the port
  lost,           \* the target has closed the connection of ch->qp
  too_early,      \* tl_err_work has run since, when there was no port yet
  reconnects,
  env             \* the element of Envs that applies

thread == <<pc, op, ret>>
wait == <<done, status>>
queue_pair == <<qp, last_wr, accepted>>
ids == <<cm, events>>
recovery == <<tl_err, recovering, lost, too_early>>
vars == <<using_rdma_cm, phase, thread, wait, connected, queue_pair, ids, queries,
          recovery, reconnects>>

NoId == [rdma |-> "none", ib |-> "none"]

Init ==
  /\ using_rdma_cm \in BOOLEAN
  /\ phase = "new"
  /\ pc = "idle" /\ op = "none" /\ ret = "ok"
  /\ done = 0 /\ status = "ok" /\ connected = FALSE
  /\ qp = "none" /\ last_wr = FALSE /\ accepted = FALSE
  /\ cm = [i \in {"cur", "other"} |-> NoId]
  /\ events = [i \in {"cur", "other"} |-> <<>>]
  /\ queries = 0
  /\ tl_err = FALSE /\ recovering = FALSE /\ lost = FALSE /\ too_early = FALSE
  /\ reconnects = 0
  /\ env \in Envs

Goto(label) == pc' = label /\ UNCHANGED <<op, ret>>
Return(r, label) == ret' = r /\ pc' = label /\ UNCHANGED op

\* A call that fails leaves the state of the CM ID alone.
After(call, s) == IF call = {} THEN {s} ELSE call

-----------------------------------------------------------------------------
(* The tasks of the thread.                                                *)

\* srp_create_target() creates the channel.
srp_create_target ==
  /\ pc = "idle" /\ phase = "new" /\ op = "none"
  /\ pc' = "new_cm_id" /\ op' = "create" /\ ret' = "ok"
  /\ UNCHANGED <<using_rdma_cm, phase, wait, connected, queue_pair, ids, queries,
                 recovery, reconnects>>

\* srp_add_target() creates the port.
srp_add_target ==
  /\ pc = "add_target" /\ Goto("idle")
  /\ phase' = "scanning"
  /\ UNCHANGED <<using_rdma_cm, wait, connected, queue_pair, ids, queries, recovery,
                 reconnects>>

\* It fails, and srp_create_target() gives up.
srp_add_target_error ==
  /\ pc = "add_target" /\ Return("err", "give_up")
  /\ UNCHANGED <<using_rdma_cm, phase, wait, connected, queue_pair, ids, queries,
                 recovery, reconnects>>

\* It has scanned the target; one that is not connected any more is removed.
scan_done ==
  /\ phase = "scanning" /\ connected /\ phase' = "live"
  /\ UNCHANGED <<using_rdma_cm, thread, wait, connected, queue_pair, ids, queries,
                 recovery, reconnects>>

\* rdma_disconnect() on ch->rdma_cm.cm_id, with the states of its IB CM ID.
rdma_disconnect(s) ==
  IF cm["cur"].ib = "none"
  THEN s = "none" /\ UNCHANGED qp
  ELSE /\ s \in After(CmSendDreq(cm["cur"].ib) \cup CmSendDrep(cm["cur"].ib),
                      cm["cur"].ib)
       /\ qp' = IF qp = "none" THEN qp ELSE "err"

srp_disconnect_target ==
  /\ connected' = FALSE
  /\ \E s \in CmStates :
        /\ IF using_rdma_cm
           THEN rdma_disconnect(s)
           ELSE s \in After(CmSendDreq(cm["cur"].ib), cm["cur"].ib) /\ UNCHANGED qp
        /\ cm' = [cm EXCEPT !["cur"].ib = s]

\* srp_rport_reconnect() starts; a target that is being scanned is only
\* disconnected.
srp_rport_reconnect ==
  /\ pc = "idle" /\ phase \in {"scanning", "live"} /\ reconnects < MaxReconnects
  /\ reconnects' = reconnects + 1
  /\ srp_disconnect_target
  /\ recovering' = FALSE
  /\ op' = "reconnect"
  /\ IF phase = "scanning"
     THEN ret' = "err" /\ UNCHANGED pc
     ELSE ret' = "ok" /\ pc' = "new_cm_id"
  /\ UNCHANGED <<using_rdma_cm, phase, wait, last_wr, accepted, events, queries,
                 tl_err, lost, too_early>>

\* srp_remove_target(), or the error path of srp_create_target().
srp_remove_target ==
  /\ \/ pc = "idle" /\ phase \in {"scanning", "live"}
     \/ pc = "give_up"
  /\ srp_disconnect_target
  /\ pc' = "free_cm_id" /\ op' = "free" /\ UNCHANGED ret
  /\ UNCHANGED <<using_rdma_cm, phase, wait, last_wr, accepted, events, queries,
                 recovery, reconnects>>
-----------------------------------------------------------------------------
(* CM IDs.                                                                 *)

\* rdma_destroy_id() lets a handler that runs finish and drops other events.
Pending(q) ==
  IF ~using_rdma_cm THEN {q} ELSE {<<>>} \cup {<<e>> : e \in {q[n] : n \in 1..Len(q)}}

\* CM ID i becomes the other one and is destroyed; ch refers to new.  Until the
\* end the manager may find the CM ID i as it was, and queue events for it.
Replace(i, new, q) ==
  /\ \E s \in {cm[i].ib} \cup CmDestroy(cm[i].ib) :
        cm' = [cm EXCEPT !["cur"] = new, !["other"] = [rdma |-> "destroying", ib |-> s]]
  /\ \E p \in Pending(events[i]) :
        events' = [events EXCEPT !["cur"] = q, !["other"] = p]

NewIbCmId == [rdma |-> "none", ib |-> "idle"]
NewRdmaCmId == [rdma |-> "addr_query", ib |-> "none"]

MayFail == op = "create" \/ "cm_id_failure" \in env

\* What follows srp_new_cm_id().
AfterNewCmId(r) == IF op = "create" /\ r = "err" THEN "give_up" ELSE "create_ch_ib"

srp_new_cm_id_error ==
  /\ pc = "new_cm_id" /\ MayFail
  /\ Return("err", AfterNewCmId("err"))
  /\ UNCHANGED <<using_rdma_cm, phase, wait, connected, queue_pair, ids, queries,
                 recovery, reconnects>>

\* srp_new_ib_cm_id() installs a new CM ID and destroys the old one.
srp_new_ib_cm_id ==
  /\ pc = "new_cm_id" /\ ~using_rdma_cm
  /\ Replace("cur", NewIbCmId, <<>>)
  /\ Goto("destroy_cm_id")
  /\ UNCHANGED <<using_rdma_cm, phase, wait, connected, queue_pair, queries,
                 recovery, reconnects>>

\* srp_new_rdma_cm_id() starts to look up the address of the target.
rdma_resolve_addr ==
  /\ pc = "new_cm_id" /\ using_rdma_cm
  /\ cm' = [cm EXCEPT !["other"] = NewRdmaCmId]
  /\ done' = 0
  /\ Goto("wait_addr")
  /\ UNCHANGED <<using_rdma_cm, phase, status, connected, queue_pair, events,
                 queries, recovery, reconnects>>

\* wait_for_completion_interruptible() returns.
Woken(label, next) ==
  /\ pc = label /\ done > 0
  /\ done' = done - 1
  /\ Goto(next)
  /\ UNCHANGED <<using_rdma_cm, phase, status, connected, queue_pair, ids, queries,
                 recovery, reconnects>>

\* The new CM ID is destroyed if the wait was interrupted or the lookup has
\* failed, otherwise the old one.
srp_new_rdma_cm_id ==
  /\ \/ /\ pc = "addr" /\ status = "ok" /\ ret' = "ok"
        /\ Replace("cur", cm["other"], events["other"])
     \/ /\ \/ pc = "addr" /\ status # "ok"
           \/ pc = "wait_addr" /\ MayFail
        /\ ret' = "err"
        /\ Replace("other", cm["cur"], events["cur"])
  /\ pc' = "destroy_cm_id" /\ UNCHANGED op
  /\ UNCHANGED <<using_rdma_cm, phase, wait, connected, queue_pair, queries,
                 recovery, reconnects>>

\* Mutant: destroying a CM ID does not wait for its handler.
ib_destroy_cm_id_no_wait ==
  /\ pc = "destroy_cm_id"
  /\ cm' = [cm EXCEPT !["other"] = NoId]
  /\ Goto(IF op = "free" THEN "free_qp" ELSE AfterNewCmId(ret))
  /\ UNCHANGED <<using_rdma_cm, phase, wait, connected, queue_pair, events, queries,
                 recovery, reconnects>>

\* ib_destroy_cm_id() and rdma_destroy_id() return when no handler runs.
ib_destroy_cm_id ==
  /\ pc = "destroy_cm_id" /\ events["other"] = <<>>
  /\ cm' = [cm EXCEPT !["other"] = NoId]
  /\ Goto(IF op = "free" THEN "free_qp" ELSE AfterNewCmId(ret))
  /\ UNCHANGED <<using_rdma_cm, phase, wait, connected, queue_pair, events, queries,
                 recovery, reconnects>>
-----------------------------------------------------------------------------
(* The queue pair.                                                         *)

\* What follows srp_create_ch_ib().
AfterCreateChIb(r) ==
  CASE op = "create" /\ r = "err" -> "give_up"
    [] op = "reconnect" /\ r = "err" -> "idle"
    [] OTHER -> "lookup_path"

\* The RDMA CM knows the device of a CM ID once it has found the address.
HasDevice(id) == id.rdma \notin {"none", "addr_query", "addr_bound"}

\* srp_create_ch_ib() fails before it touches the old queue pair.
srp_create_ch_ib_error ==
  /\ pc = "create_ch_ib"
  /\ Return("err", AfterCreateChIb("err"))
  /\ UNCHANGED <<using_rdma_cm, phase, wait, connected, queue_pair, ids, queries,
                 recovery, reconnects>>

NewQp == qp' = "init" /\ accepted' = FALSE

\* The first queue pair of the channel.
srp_create_ch_ib_first ==
  /\ pc = "create_ch_ib" /\ qp = "none"
  /\ using_rdma_cm => HasDevice(cm["cur"])
  /\ NewQp
  /\ Goto(AfterCreateChIb(ret))
  /\ UNCHANGED <<using_rdma_cm, phase, wait, connected, last_wr, ids, queries,
                 recovery, reconnects>>

\* Where srp_destroy_qp() is called.
AtDestroyQp ==
  /\ qp # "none"
  /\ \/ pc = "create_ch_ib" /\ (using_rdma_cm => HasDevice(cm["cur"]))
     \/ pc = "free_qp"

\* Mutant: ch->done keeps what it has from before.
srp_destroy_qp_stale ==
  /\ AtDestroyQp
  /\ qp' = "err" /\ last_wr' = TRUE
  /\ Goto("wait_last_wr")
  /\ UNCHANGED <<using_rdma_cm, phase, wait, connected, accepted, ids, queries,
                 recovery, reconnects>>

\* srp_destroy_qp(): the receive queue is flushed, and the completion of the
\* last work request follows all others.
srp_destroy_qp ==
  /\ AtDestroyQp
  /\ qp' = "err" /\ last_wr' = TRUE
  /\ done' = 0
  /\ Goto("wait_last_wr")
  /\ UNCHANGED <<using_rdma_cm, phase, status, connected, accepted, ids, queries,
                 recovery, reconnects>>

\* srp_handle_qp_err() for SRP_LAST_WR_ID.
last_wr_completion ==
  /\ last_wr /\ last_wr' = FALSE
  /\ done' = done + 1
  /\ UNCHANGED <<using_rdma_cm, phase, thread, status, connected, qp, accepted, ids,
                 queries, recovery, reconnects>>

\* Mutant: the queue pair is destroyed without a wait for the last completion.
srp_create_ch_ib_no_wait ==
  /\ pc = "wait_last_wr" /\ op # "free"
  /\ done' = done - 1
  /\ NewQp /\ last_wr' = FALSE
  /\ Goto(AfterCreateChIb(ret))
  /\ UNCHANGED <<using_rdma_cm, phase, status, connected, ids, queries, recovery,
                 reconnects>>

\* srp_destroy_qp() destroys the queue pair after the wait, or at once if
\* ib_modify_qp() or, after init_completion(), ib_post_recv() has failed.
ib_destroy_qp ==
  \/ pc = "wait_last_wr" /\ done > 0 /\ done' = done - 1
  \/ AtDestroyQp /\ done' \in {done, 0}

\* The rest of srp_create_ch_ib(): the old queue pair is destroyed and the
\* new one takes its place.
srp_create_ch_ib ==
  /\ ib_destroy_qp /\ op # "free"
  /\ NewQp /\ last_wr' = FALSE
  /\ Goto(AfterCreateChIb(ret))
  /\ UNCHANGED <<using_rdma_cm, phase, status, connected, ids, queries, recovery,
                 reconnects>>

\* srp_free_ch_ib() destroys the CM ID, ...
srp_free_ch_ib_cm_id ==
  /\ pc = "free_cm_id"
  /\ Replace("cur", NoId, <<>>)
  /\ Goto("destroy_cm_id")
  /\ UNCHANGED <<using_rdma_cm, phase, wait, connected, queue_pair, queries,
                 recovery, reconnects>>

\* ... then the queue pair if there is one.  srp_remove_target() then cancels
\* tl_err_work, which the error path of srp_create_target() does not.
srp_free_ch_ib ==
  /\ \/ ib_destroy_qp /\ op = "free"
     \/ pc = "free_qp" /\ qp = "none" /\ UNCHANGED done
  /\ qp' = "none" /\ last_wr' = FALSE /\ accepted' = FALSE
  /\ IF phase = "new"
     THEN phase' = "abandoned" /\ UNCHANGED tl_err
     ELSE phase' = "freed" /\ tl_err' = FALSE
  /\ Goto("idle")
  /\ UNCHANGED <<using_rdma_cm, status, connected, ids, queries, recovering, lost,
                 too_early, reconnects>>
-----------------------------------------------------------------------------
(* srp_connect_ch().                                                       *)

LoginFailed == Return("err", IF op = "create" THEN "give_up" ELSE "idle")

\* srp_ib_lookup_path() and srp_rdma_lookup_path() start a query.
srp_lookup_path ==
  /\ pc = "lookup_path"
  /\ done' = 0
  /\ IF using_rdma_cm
     THEN /\ cm["cur"].rdma = "addr_resolved"
          /\ cm' = [cm EXCEPT !["cur"].rdma = "route_query"]
          /\ UNCHANGED queries
     ELSE queries' = queries + 1 /\ UNCHANGED cm
  /\ Goto("wait_path")
  /\ UNCHANGED <<using_rdma_cm, phase, status, connected, queue_pair, events, recovery,
                 reconnects>>

srp_lookup_path_error ==
  /\ pc = "lookup_path"
  /\ done' = 0
  /\ LoginFailed
  /\ UNCHANGED <<using_rdma_cm, phase, status, connected, queue_pair, ids, queries,
                 recovery, reconnects>>

\* A signal ends the wait: srp_ib_lookup_path() returns, and the query goes
\* on; srp_rdma_lookup_path() does not look at the result of the wait.
lookup_interrupted ==
  /\ pc = "wait_path" /\ "lookup_signal" \in env
  /\ IF using_rdma_cm THEN Goto("path") ELSE LoginFailed
  /\ UNCHANGED <<using_rdma_cm, phase, wait, connected, queue_pair, ids, queries,
                 recovery, reconnects>>

path_found ==
  /\ pc = "path"
  /\ IF status = "ok" THEN Goto("send_req") ELSE LoginFailed
  /\ UNCHANGED <<using_rdma_cm, phase, wait, connected, queue_pair, ids, queries,
                 recovery, reconnects>>

\* srp_path_rec_completion(), whether or not somebody still waits for it.
srp_path_rec_completion ==
  /\ queries > 0 /\ queries' = queries - 1
  /\ status' \in {"ok", "err"}
  /\ done' = done + 1
  /\ UNCHANGED <<using_rdma_cm, phase, thread, connected, queue_pair, ids, recovery,
                 reconnects>>

\* srp_send_req(): ib_send_cm_req() or rdma_connect().
srp_send_req ==
  /\ pc = "send_req"
  /\ done' = 0
  /\ IF using_rdma_cm
     THEN /\ cm["cur"].rdma = "route_resolved"
          /\ cm' = [cm EXCEPT !["cur"].rdma = "connect", !["cur"].ib = "req_sent"]
     ELSE \E s \in CmSendReq(cm["cur"].ib) : cm' = [cm EXCEPT !["cur"].ib = s]
  /\ lost' = FALSE /\ too_early' = FALSE
  /\ Goto("wait_login")
  /\ UNCHANGED <<using_rdma_cm, phase, status, connected, queue_pair, events, queries,
                 tl_err, recovering, reconnects>>

srp_send_req_error ==
  /\ pc = "send_req"
  /\ done' = 0
  /\ LoginFailed
  /\ UNCHANGED <<using_rdma_cm, phase, status, connected, queue_pair, ids, queries,
                 recovery, reconnects>>

login_interrupted ==
  /\ pc = "wait_login"
  /\ LoginFailed
  /\ UNCHANGED <<using_rdma_cm, phase, wait, connected, queue_pair, ids, queries,
                 recovery, reconnects>>

\* ch->status is 0: the channel is connected, and a reconnect is done.
login_succeeded ==
  /\ pc = "login" /\ status = "ok"
  /\ connected' = TRUE
  /\ Return("ok", IF op = "create" THEN "add_target" ELSE "idle")
  /\ UNCHANGED <<using_rdma_cm, phase, wait, queue_pair, ids, queries, recovery, reconnects>>

\* The target redirects the login, or rejects it.
login_refused ==
  /\ pc = "login" /\ status # "ok"
  /\ CASE status = "port_redirect" -> Goto("lookup_path") /\ UNCHANGED status
       [] status = "dlid_redirect" -> Goto("send_req") /\ UNCHANGED status
       [] OTHER -> LoginFailed /\ status' = "err"
  /\ UNCHANGED <<using_rdma_cm, phase, done, connected, queue_pair, ids, queries,
                 recovery, reconnects>>
-----------------------------------------------------------------------------
(* Events of the connection managers.                                      *)

Queue(i, id, e) ==
  /\ cm' = [cm EXCEPT ![i] = id]
  /\ events' = [events EXCEPT ![i] = Append(@, e)]
  /\ UNCHANGED <<using_rdma_cm, phase, thread, wait, connected, queue_pair, queries,
                 recovery, reconnects>>

\* A message of the target, or the end of a timeout, of the IB CM.
ib_cm_event(i) ==
  /\ \E x \in CmIndications :
        x[1] = cm[i].ib /\ Queue(i, [cm[i] EXCEPT !.ib = x[3]], x[2])

\* The target rejects a login request and redirects it.
redirect(i) ==
  /\ cm[i].ib = "req_sent"
  /\ Queue(i, [cm[i] EXCEPT !.ib = "idle"], "REDIRECT")

\* addr_handler() of the RDMA CM.
addr_handler(i) ==
  /\ cm[i].rdma = "addr_query"
  /\ \/ Queue(i, [cm[i] EXCEPT !.rdma = "addr_resolved"], "ADDR_RESOLVED")
     \/ MayFail /\ Queue(i, [cm[i] EXCEPT !.rdma = "addr_bound"], "ADDR_ERROR")

\* cma_work_handler() at the end of a route query.
cma_work_handler(i) ==
  /\ cm[i].rdma = "route_query"
  /\ \/ Queue(i, [cm[i] EXCEPT !.rdma = "route_resolved"], "ROUTE_RESOLVED")
     \/ Queue(i, [cm[i] EXCEPT !.rdma = "addr_resolved"], "ROUTE_ERROR")

\* The handler of CM ID i gets event e.
Handles(i, e) ==
  /\ events[i] # <<>> /\ e = Head(events[i])
  /\ events' = [events EXCEPT ![i] = Tail(@)]
  /\ using_rdma_cm /\ i = "cur" /\ pc \in {"wait_addr", "addr"} => "old_event" \in env
  /\ e = "TIMEWAIT_EXIT" /\ pc \in {"wait_login", "login"} => "short_timewait" \in env
  /\ UNCHANGED <<using_rdma_cm, phase, thread, last_wr, queries, recovering, too_early,
                 reconnects>>

Complete(s) == status' = s /\ done' = done + 1

\* Mutant: the login response is accepted before the receives are posted.
srp_cm_rep_handler_early(i) ==
  /\ Complete("ok")
  /\ UNCHANGED <<qp, accepted, cm>>

\* The login response is accepted: receives are posted, the queue pair gets
\* ready and RTU is sent; or a step fails, or it is no login response.
srp_cm_rep_handler(i) ==
  \/ /\ qp = "init"
     /\ \E s \in CmSendRtu(cm[i].ib) : cm' = [cm EXCEPT ![i].ib = s]
     /\ qp' = "rts" /\ accepted' = TRUE
     /\ Complete("ok")
  \/ Complete("err") /\ UNCHANGED <<qp, accepted, cm>>

srp_ib_cm_rej_handler(e) ==
  \/ e = "REJ" /\ Complete("err")
  \/ e = "REJ_STALE" /\ Complete("stale")
  \/ e = "REDIRECT" /\ \E s \in {"port_redirect", "dlid_redirect"} : Complete(s)

\* Mutant: nobody is woken when the login request times out.
req_error_silent ==
  status' = "err" /\ UNCHANGED done

\* IB_CM_REQ_ERROR: the login request was not answered.
req_error ==
  Complete("err")

\* Mutant: like the handler for the RDMA CM, this one ignores a DREQ before the
\* channel is marked as connected.
dreq_received_if_connected(i) ==
  /\ connected' = FALSE
  /\ tl_err' = (tl_err \/ connected)
  /\ \E s \in After(CmSendDrep(cm[i].ib), cm[i].ib) : cm' = [cm EXCEPT ![i].ib = s]
  /\ lost' = (lost \/ (i = "cur" /\ accepted))

\* IB_CM_DREQ_RECEIVED: the target closes the connection.
dreq_received(i) ==
  /\ connected' = FALSE
  /\ tl_err' = TRUE
  /\ \E s \in After(CmSendDrep(cm[i].ib), cm[i].ib) : cm' = [cm EXCEPT ![i].ib = s]
  /\ lost' = (lost \/ (i = "cur" /\ accepted))

srp_ib_cm_handler(i) ==
  /\ ~using_rdma_cm
  /\ \E e \in CmEvents \cup {"REDIRECT"} :
    /\ Handles(i, e)
    /\ \/ /\ e = "REQ_ERROR" /\ req_error
          /\ UNCHANGED <<connected, qp, accepted, cm, tl_err, lost>>
       \/ /\ e = "REP" /\ srp_cm_rep_handler(i)
          /\ UNCHANGED <<connected, tl_err, lost>>
       \/ /\ e \in {"REJ", "REJ_STALE", "REDIRECT"} /\ srp_ib_cm_rej_handler(e)
          /\ UNCHANGED <<connected, qp, accepted, cm, tl_err, lost>>
       \/ /\ e = "DREQ" /\ dreq_received(i)
          /\ UNCHANGED <<wait, qp, accepted>>
       \/ /\ e = "TIMEWAIT_EXIT" /\ Complete("ok")
          /\ UNCHANGED <<connected, qp, accepted, cm, tl_err, lost>>
       \/ /\ e \in {"DREP", "DREQ_ERROR"}
          /\ UNCHANGED <<wait, connected, qp, accepted, cm, tl_err, lost>>

\* cma_ib_handler() drops the events that do not fit its own state.
Dropped(i, e) ==
  /\ e \in CmEvents \cup {"REDIRECT"}
  /\ cm[i].rdma # IF e = "TIMEWAIT_EXIT" THEN "disconnect" ELSE "connect"

\* cma_rep_recv() and the event ESTABLISHED; or CONNECT_ERROR.
cma_rep_recv(i) ==
  \/ /\ qp = "init" /\ qp' = "rts"
     /\ \E s \in CmSendRtu(cm[i].ib) : cm' = [cm EXCEPT ![i].ib = s]
     /\ \/ accepted' = TRUE /\ Complete("ok")
        \/ Complete("err") /\ UNCHANGED accepted
  \/ /\ qp' = IF qp = "none" THEN qp ELSE "err"
     /\ \E s \in After(CmSendRej(cm[i].ib), cm[i].ib) : cm' = [cm EXCEPT ![i].ib = s]
     /\ Complete("err") /\ UNCHANGED accepted

\* The target has closed the connection, or has answered a DREQ: only a
\* connected channel reacts.
disconnected(i) ==
  IF connected
  THEN /\ \E s \in CmStates :
             /\ rdma_disconnect(s)
             /\ cm' = [cm EXCEPT ![i].rdma = "disconnect", !["cur"].ib = s]
       /\ Complete("ok") /\ tl_err' = TRUE
  ELSE /\ cm' = [cm EXCEPT ![i].rdma = "disconnect"]
       /\ UNCHANGED <<wait, qp, tl_err>>

\* cma_ib_handler() and srp_rdma_cm_handler().
srp_rdma_cm_handler(i) ==
  /\ using_rdma_cm
  /\ \E e \in CmEvents \cup {"REDIRECT", "ADDR_RESOLVED", "ADDR_ERROR",
                             "ROUTE_RESOLVED", "ROUTE_ERROR"} :
    /\ Handles(i, e)
    /\ UNCHANGED <<connected, lost>>
    /\ \/ /\ Dropped(i, e)
          /\ UNCHANGED <<wait, qp, accepted, cm, tl_err>>
       \/ /\ e \in {"ADDR_RESOLVED", "ROUTE_RESOLVED"} /\ Complete("ok")
          /\ UNCHANGED <<qp, accepted, cm, tl_err>>
       \/ /\ e \in {"ADDR_ERROR", "ROUTE_ERROR"} /\ Complete("err")
          /\ UNCHANGED <<qp, accepted, cm, tl_err>>
       \/ /\ ~Dropped(i, e)
          /\ \/ /\ e = "REQ_ERROR" /\ req_error
                /\ UNCHANGED <<qp, accepted, cm, tl_err>>
             \/ /\ e = "REP" /\ cma_rep_recv(i)
                /\ UNCHANGED tl_err
             \/ /\ e \in {"REJ", "REJ_STALE", "REDIRECT"}
                /\ Complete(IF e = "REJ_STALE" THEN "stale" ELSE "err")
                /\ qp' = IF qp = "none" THEN qp ELSE "err"
                /\ UNCHANGED <<accepted, cm, tl_err>>
             \/ /\ e \in {"DREQ", "DREP", "DREQ_ERROR"} /\ disconnected(i)
                /\ UNCHANGED accepted
             \/ /\ e = "TIMEWAIT_EXIT" /\ Complete("ok")
                /\ UNCHANGED <<qp, accepted, cm, tl_err>>

\* srp_tl_err_work() starts the recovery of the port if there is one.  It
\* needs the mutex that srp_reconnect_rport() holds.
srp_tl_err_work ==
  /\ tl_err /\ ~(op = "reconnect" /\ pc # "idle")
  /\ tl_err' = FALSE
  /\ LET has_port == phase \in {"scanning", "live"}
     IN  /\ recovering' = (recovering \/ has_port)
         /\ too_early' = (too_early \/ (lost /\ ~has_port))
  /\ UNCHANGED <<using_rdma_cm, phase, thread, wait, connected, queue_pair, ids,
                 queries, lost, reconnects>>
-----------------------------------------------------------------------------
Waits ==
  \/ Woken("wait_addr", "addr")
  \/ Woken("wait_path", "path")
  \/ Woken("wait_login", "login")

Tasks == srp_create_target \/ srp_rport_reconnect \/ srp_remove_target

\* The steps of the thread inside a task.
ThreadStep ==
  \/ Waits
  \/ srp_new_cm_id_error \/ srp_new_ib_cm_id \/ rdma_resolve_addr
  \/ srp_new_rdma_cm_id \/ ib_destroy_cm_id
  \/ srp_create_ch_ib_error \/ srp_create_ch_ib_first \/ srp_destroy_qp
  \/ srp_create_ch_ib \/ srp_free_ch_ib_cm_id \/ srp_free_ch_ib
  \/ srp_lookup_path \/ srp_lookup_path_error \/ path_found
  \/ srp_send_req \/ srp_send_req_error \/ login_succeeded \/ login_refused
  \/ srp_add_target \/ srp_add_target_error

CmStep(i) ==
  \/ ib_cm_event(i) \/ redirect(i) \/ addr_handler(i) \/ cma_work_handler(i)
  \/ srp_ib_cm_handler(i) \/ srp_rdma_cm_handler(i)

Step ==
  \/ Tasks \/ ThreadStep \/ lookup_interrupted \/ login_interrupted \/ scan_done
  \/ \E i \in {"cur", "other"} : CmStep(i)
  \/ last_wr_completion \/ srp_path_rec_completion \/ srp_tl_err_work

Next == Step /\ UNCHANGED env

Spec == Init /\ [][Next]_<<vars, env>>

(***************************************************************************)
(* The thread is scheduled, and goes on with a task it has begun (only     *)
(* tasks are begun freely).  The connection managers and the subnet        *)
(* administration answer or time out: every request of theirs has a        *)
(* timeout, and their handlers run on work queues.  (A target need not     *)
(* close a connection, so only a login request is sure to be answered.)    *)
(* The last work request of a queue pair in the error state is flushed.    *)
(***************************************************************************)
FairSpec ==
  /\ Spec
  /\ WF_vars(ThreadStep)
  /\ WF_vars(pc = "give_up" /\ srp_remove_target)
  /\ \A i \in {"cur", "other"} :
        /\ WF_vars(cm[i].ib = "req_sent" /\ ib_cm_event(i))
        /\ WF_vars(addr_handler(i)) /\ WF_vars(cma_work_handler(i))
        /\ WF_vars(srp_ib_cm_handler(i)) /\ WF_vars(srp_rdma_cm_handler(i))
  /\ WF_vars(last_wr_completion) /\ WF_vars(srp_path_rec_completion)
  /\ WF_vars(srp_tl_err_work)
-----------------------------------------------------------------------------
Statuses == {"ok", "err", "port_redirect", "dlid_redirect", "stale"}

Labels == {"idle", "new_cm_id", "wait_addr", "addr", "destroy_cm_id", "create_ch_ib",
           "wait_last_wr", "lookup_path", "wait_path", "path", "send_req",
           "wait_login", "login", "add_target", "give_up", "free_cm_id", "free_qp"}

CmIds == [ib : CmStates,
          rdma : {"none", "addr_query", "addr_bound", "addr_resolved", "route_query",
                  "route_resolved", "connect", "disconnect", "destroying"}]

\* The values the variables of the channel may have.
TypeOK ==
  /\ using_rdma_cm \in BOOLEAN
  /\ phase \in {"new", "scanning", "live", "freed", "abandoned"}
  /\ pc \in Labels /\ op \in {"none", "create", "reconnect", "free"}
  /\ ret \in {"ok", "err"}
  /\ done \in Nat /\ status \in Statuses /\ connected \in BOOLEAN
  /\ qp \in {"none", "init", "rts", "err"}
  /\ last_wr \in BOOLEAN /\ accepted \in BOOLEAN
  /\ cm \in [{"cur", "other"} -> CmIds]
  /\ DOMAIN events = {"cur", "other"}
  /\ queries \in Nat
  /\ tl_err \in BOOLEAN /\ recovering \in BOOLEAN
  /\ lost \in BOOLEAN /\ too_early \in BOOLEAN
  /\ reconnects \in 0..MaxReconnects
  /\ env \in Envs

(***************************************************************************)
(* srp_connect_ch() marks a channel as connected only if the login that    *)
(* belongs to the current queue pair was accepted, that is, after          *)
(* srp_cm_rep_handler() has posted its receives: no completion meant for   *)
(* another wait, and no status left by one, makes a login succeed.  Of     *)
(* what the environment may do, only a failed srp_new_cm_id() is harmless. *)
(***************************************************************************)
ConnectedMeansAccepted ==
  [][env \subseteq {"cm_id_failure"} /\ ~connected /\ connected' => accepted]_vars

\* When the wait of srp_destroy_qp() ends, the last receive completion of the
\* queue pair was processed, and the channel is not connected.
Drained == [][pc = "wait_last_wr" /\ pc' # pc => ~last_wr /\ ~connected]_vars

(***************************************************************************)
(* What the comment of srp_destroy_qp() says of the last receive           *)
(* completion, also if the time wait of a rejected connection is short:    *)
(* the wait for it is not ended by anything that happened before.  (There  *)
(* is no wait if one of the two verbs in front of it fails.)               *)
(***************************************************************************)
DrainedBeforeDestroyed ==
  [][env \subseteq {"short_timewait"} /\ pc = "wait_last_wr" /\ pc' # pc
       => ~last_wr /\ ~connected]_vars

(***************************************************************************)
(* When srp_remove_target(), or srp_create_target() on its error path, has *)
(* freed a channel, no callback that has a pointer to it is left: no path  *)
(* record query, no CM ID, no event, no work request; and srp_tl_err_work()*)
(* is not queued for a target that was removed.  A signal during the path  *)
(* lookup breaks this: nobody waits for the query that goes on.            *)
(***************************************************************************)
NoCallbackAfterFree ==
  /\ phase \in {"freed", "abandoned"} =>
       /\ "lookup_signal" \notin env => queries = 0 /\ ~last_wr
       /\ \A i \in {"cur", "other"} : cm[i] = NoId /\ events[i] = <<>>
  /\ phase = "freed" => ~tl_err

(***************************************************************************)
(* With the IB CM: if the target closes a connection, be it between the    *)
(* login response and the moment srp_connect_ch() marks the channel as     *)
(* connected, then srp_tl_err_work() is queued or has started the recovery *)
(* of the port, so a channel that looks connected does not stay dead.  The *)
(* exception is the first connection: srp_tl_err_work() does nothing if it *)
(* runs before srp_add_target() has created the port.  No reconnect has it.*)
(***************************************************************************)
LossIsNoticed ==
  ~using_rdma_cm /\ lost /\ connected =>
    tl_err \/ recovering \/ (too_early /\ reconnects = 0)

\* srp_connect_ch() follows a redirect of the target.
Redirects == pc = "login" /\ status \in {"port_redirect", "dlid_redirect"}

(***************************************************************************)
(* Every wait for ch->done ends: each task of the thread comes to its end, *)
(* however the waits are interrupted and whatever the target answers, but  *)
(* for one that redirects the login for ever: srp_connect_ch() does not    *)
(* count redirects.                                                        *)
(***************************************************************************)
WaitsEnd == <>[]~Redirects => (pc # "idle" ~> pc = "idle")
=============================================================================
