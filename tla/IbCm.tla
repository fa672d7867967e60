--------------------------------- MODULE IbCm ---------------------------------
(***************************************************************************)
(* The connection manager of src/drivers/infiniband/core/cm.c at both ends *)
(* of a connection: CM IDs of an SRP initiator, which requests connections *)
(* (the active side), and of a target, which accepts them.  Messages may   *)
(* be lost, delayed, reordered and duplicated: a message stays in net once *)
(* it was sent, and receiving it is always possible and never certain.     *)
(* That covers the retries of ib_mad as well.                              *)
(*                                                                         *)
(* A local communication ID is used once.  QP numbers are reused: what the *)
(* manager calls a stale connection is one whose QP number comes again.    *)
(*                                                                         *)
(* CmClient is what the active side promises to its client.                *)
(***************************************************************************)
EXTENDS Integers, Sequences, CmClient

CONSTANTS
  ActiveIds,   \* the CM IDs that the initiator creates
  PassiveIds,  \* the CM IDs that cm_req_handler() creates at the target
  QpNumbers,   \* the possible functions from CM IDs to QP numbers
  NoId         \* communication ID 0

Ids == ActiveIds \cup PassiveIds

ASSUME CmConstants ==
  /\ ActiveIds \cap PassiveIds = {} /\ NoId \notin Ids
  /\ QpNumbers # {} /\ QpNumbers \subseteq [Ids -> Nat]

VARIABLES
  state,      \* per CM ID, id.state; "none" before and "gone" after its life
  remote,     \* per CM ID, id.remote_id
  work,       \* per CM ID, the events that its handler has not seen yet
  timewait_info,  \* the CM IDs whose timewait_info is allocated
  destroy,    \* per CM ID, what cm_destroy_id() does next, or "no"
  oops,       \* a NULL timewait_info was used
  qpn,        \* the QP number of each CM ID
  net         \* the messages that were sent

vars == <<state, remote, work, timewait_info, destroy, oops, qpn, net>>

\* A REJ of an REQ is matched without the ID of the sender; "REJ_TIMEOUT"
\* has the reason IB_CM_REJ_TIMEOUT, the *_STALE ones IB_CM_REJ_STALE_CONN.
MsgTypes == {"REQ", "REP", "RTU", "DREQ", "DREP", "REJ_REQ", "REJ_REQ_STALE",
             "REJ", "REJ_STALE", "REJ_TIMEOUT"}

Msg(t, i, j) == [type |-> t, from |-> i, to |-> j]

Init ==
  /\ state = [i \in Ids |-> "none"]
  /\ remote = [i \in Ids |-> NoId]
  /\ work = [i \in Ids |-> <<>>]
  /\ timewait_info = {} /\ oops = FALSE
  /\ destroy = [i \in Ids |-> "no"]
  /\ qpn \in QpNumbers
  /\ net = {}
-----------------------------------------------------------------------------
Side(i) == IF i \in ActiveIds THEN ActiveIds ELSE PassiveIds

Live(i) == state[i] \notin {"none", "gone"}

\* cm_acquire_id(): the CM ID i, if its peer is j.
cm_acquire_id(i, j) == i \in Ids /\ Live(i) /\ remote[i] = j

\* The CM IDs whose timewait_info is in remote_id_table and remote_qp_table:
\* it is inserted when the peer gets known, and cm_cleanup_timewait() erases
\* it before the state becomes idle or time wait.  A CM ID may leave it there.
InTables(i) == i \in timewait_info /\ state[i] # "req_sent"

\* cm_insert_remote_id(), cm_find_remote_id(): those that know the peer j ...
SameRemoteId(side, j) == {i \in side : InTables(i) /\ remote[i] = j}

\* ... and cm_insert_remote_qpn(): those whose peer has the QP number of j.
SameRemoteQpn(side, j) == {i \in side : InTables(i) /\ qpn[remote[i]] = qpn[j]}

SetState(i, s) == state' = [state EXCEPT ![i] = s]

Send(msgs) == net' = net \cup msgs

cm_enter_timewait(i) ==
  /\ SetState(i, "timewait")
  /\ timewait_info' = timewait_info \ {i}
  /\ oops' = (oops \/ i \notin timewait_info)

\* cm_reset_to_idle(), which copes with a missing timewait_info.
cm_reset_to_idle(i) ==
  SetState(i, "idle") /\ timewait_info' = timewait_info \ {i} /\ UNCHANGED oops

Keep(i, s) == SetState(i, s) /\ UNCHANGED <<timewait_info, oops>>

\* The event is appended to the work_list of i; cm_process_work() gets there.
\* The client at the target does nothing on the other events.
Report(i, e) == IF i \in ActiveIds \/ e \in {"REQ", "DREQ"}
                THEN work' = [work EXCEPT ![i] = Append(@, e)]
                ELSE UNCHANGED work
-----------------------------------------------------------------------------
(* The calls of the clients.                                               *)

\* ib_create_cm_id() and the first ib_send_cm_req(), or another one when the
\* handler has seen how the first one ended (srp_connect_ch() after a redirect).
\* The QP is not used by another CM ID.
ib_send_cm_req(i) ==
  /\ i \in ActiveIds /\ state[i] \in {"none", "idle"}
  /\ work[i] = <<>> /\ destroy[i] = "no"
  /\ \A j \in ActiveIds \ {i} : Live(j) => qpn[j] # qpn[i]
  /\ SetState(i, "req_sent")
  /\ timewait_info' = timewait_info \cup {i}
  /\ Send({Msg("REQ", i, NoId)})
  /\ UNCHANGED <<remote, work, destroy, oops, qpn>>

ib_send_cm_rep(i) ==
  /\ state[i] = "req_rcvd" /\ Keep(i, "rep_sent")
  /\ Send({Msg("REP", i, remote[i])})

\* Mutant: the state of ib_send_cm_rep(), from which this one is copied.
ib_send_cm_rtu_copied(i) ==
  /\ state[i] = "rep_rcvd" /\ Keep(i, "rep_sent")
  /\ Send({Msg("RTU", i, remote[i])})

ib_send_cm_rtu(i) ==
  /\ state[i] = "rep_rcvd" /\ Keep(i, "established")
  /\ Send({Msg("RTU", i, remote[i])})

ib_send_cm_drep(i) ==
  /\ state[i] = "dreq_rcvd" /\ cm_enter_timewait(i)
  /\ Send({Msg("DREP", i, remote[i])})

\* The REJ of ib_send_cm_rej(), as cm_format_rej() makes it.
cm_format_rej(i) ==
  Msg(IF state[i] = "req_rcvd" THEN "REJ_REQ" ELSE "REJ", i, remote[i])

\* The states in which ib_send_cm_rej() does not fail.
CanReject(i) == state[i] \in {"req_sent", "req_rcvd", "rep_rcvd", "rep_sent"}

ib_send_cm_rej(i, rej) ==
  /\ CanReject(i)
  /\ IF state[i] = "rep_sent" THEN cm_enter_timewait(i) ELSE cm_reset_to_idle(i)
  /\ Send({rej})

\* A target also calls it outside of its handler (ib_srpt); an initiator does not.
Withdraw(i) ==
  /\ i \in PassiveIds /\ destroy[i] = "no"
  /\ ib_send_cm_rej(i, cm_format_rej(i)) /\ UNCHANGED <<remote, work, destroy, qpn>>

\* A DREQ may fail to be posted.
ib_send_cm_dreq(i) ==
  /\ state[i] = "established"
  /\ \/ Keep(i, "dreq_sent") /\ Send({Msg("DREQ", i, remote[i])})
     \/ cm_enter_timewait(i) /\ UNCHANGED net

Disconnect(i) ==
  destroy[i] = "no" /\ ib_send_cm_dreq(i) /\ UNCHANGED <<remote, work, destroy, qpn>>

(***************************************************************************)
(* cm_destroy_id() reads the state under the lock of the CM ID.  It gives  *)
(* the lock up before it makes the call that the state asks for, and that  *)
(* call looks at the state again: if a message or the handler of the       *)
(* client has changed it, the call fails.  After a DREQ the state is read  *)
(* once more.  In the end the CM ID goes, with the events that wait; its   *)
(* timewait_info stays behind, in the tables, if it still has one.         *)
(***************************************************************************)
cm_destroy_id(i) ==
  /\ Live(i) /\ destroy[i] \in {"no", "retest"}
  /\ IF state[i] = "dreq_sent" THEN cm_enter_timewait(i)
                               ELSE UNCHANGED <<state, timewait_info, oops>>
  /\ destroy' = [destroy EXCEPT ![i] =
       CASE state[i] = "req_sent" -> "rej_timeout"
         [] state[i] \in {"req_rcvd", "rep_sent", "rep_rcvd"} -> "rej"
         [] state[i] = "established" -> "dreq"
         [] state[i] = "dreq_rcvd" -> "drep"
         [] OTHER -> "free"]
  /\ UNCHANGED <<remote, work, qpn, net>>

\* The call fails: its condition does not hold any more.
Overtaken(i) ==
  /\ \/ destroy[i] \in {"rej_timeout", "rej"} /\ ~CanReject(i)
     \/ destroy[i] = "dreq" /\ state[i] # "established"
     \/ destroy[i] = "drep" /\ state[i] # "dreq_rcvd"
  /\ UNCHANGED <<state, timewait_info, oops, net>>

cm_destroy_id_call(i) ==
  /\ \/ destroy[i] = "rej_timeout" /\ ib_send_cm_rej(i, Msg("REJ_TIMEOUT", i, NoId))
     \/ destroy[i] = "rej" /\ ib_send_cm_rej(i, cm_format_rej(i))
     \/ destroy[i] = "dreq" /\ ib_send_cm_dreq(i)
     \/ destroy[i] = "drep" /\ ib_send_cm_drep(i)
     \/ Overtaken(i)
  /\ destroy' = [destroy EXCEPT ![i] = IF @ = "dreq" THEN "retest" ELSE "free"]
  /\ UNCHANGED <<remote, work, qpn>>

cm_destroy_id_free(i) ==
  /\ destroy[i] = "free" /\ Keep(i, "gone")
  /\ work' = [work EXCEPT ![i] = <<>>]
  /\ destroy' = [destroy EXCEPT ![i] = "no"]
  /\ UNCHANGED <<remote, qpn, net>>

(***************************************************************************)
(* cm_process_work(): the handler of the client sees the first event.  A   *)
(* target answers an REQ with an REP or a REJ, an initiator an REP with an *)
(* RTU or a REJ, and both answer a DREQ with a DREP.  A call that comes    *)
(* too late fails, and a client may leave an event without an answer:      *)
(* srp_cm_rep_handler() sends nothing if it cannot use the login response. *)
(***************************************************************************)
Answer(i, e) ==
  \/ e = "REQ" /\ ib_send_cm_rep(i)
  \/ e = "REP" /\ ib_send_cm_rtu(i)
  \/ e \in {"REQ", "REP"} /\ ib_send_cm_rej(i, cm_format_rej(i))
  \/ e = "DREQ" /\ ib_send_cm_drep(i)

cm_process_work(i) ==
  /\ Live(i) /\ work[i] # <<>>
  /\ \/ Answer(i, Head(work[i]))
     \/ UNCHANGED <<state, timewait_info, oops, net>>
  /\ work' = [work EXCEPT ![i] = Tail(@)]
  /\ UNCHANGED <<remote, destroy, qpn>>
-----------------------------------------------------------------------------
(* The handlers of the received messages.                                  *)

\* A new CM ID of the target, unless the REQ is a duplicate: one that is in
\* remote_id_table drops it, or sends a REJ or an MRA that changes nothing.
cm_req_handler(m) ==
  /\ m.type = "REQ" /\ SameRemoteId(PassiveIds, m.from) = {}
  /\ IF SameRemoteQpn(PassiveIds, m.from) # {}
     THEN /\ UNCHANGED <<state, remote, work, timewait_info, oops>>
          /\ Send({Msg("REJ_REQ_STALE", NoId, m.from)})
     ELSE /\ \E i \in PassiveIds :
               /\ state[i] = "none"
               /\ \A j \in PassiveIds : Live(j) => qpn[j] # qpn[i]
               /\ SetState(i, "req_rcvd")
               /\ remote' = [remote EXCEPT ![i] = m.from]
               /\ timewait_info' = timewait_info \cup {i}
               /\ Report(i, "REQ")
          /\ UNCHANGED <<oops, net>>
  /\ UNCHANGED <<destroy, qpn>>

\* Nobody listens, or the path of the REQ cannot be used.
cm_req_handler_refused(m) ==
  /\ m.type = "REQ"
  /\ SameRemoteId(PassiveIds, m.from) = {} /\ SameRemoteQpn(PassiveIds, m.from) = {}
  /\ UNCHANGED <<state, remote, work, timewait_info, oops, destroy, qpn>>
  /\ Send({Msg("REJ_REQ", NoId, m.from)})

\* Mutant: a later REP replaces the peer.
cm_rep_handler_latest(m) ==
  /\ m.type = "REP" /\ Live(m.to)
  /\ state[m.to] \in {"req_sent", "rep_rcvd", "established"}
  /\ Keep(m.to, "rep_rcvd") /\ Report(m.to, "REP")
  /\ remote' = [remote EXCEPT ![m.to] = m.from]
  /\ UNCHANGED <<destroy, net, qpn>>

cm_rep_handler(m) ==
  /\ m.type = "REP" /\ cm_acquire_id(m.to, NoId) /\ state[m.to] = "req_sent"
  /\ SameRemoteId(ActiveIds, m.from) = {}
  /\ IF SameRemoteQpn(ActiveIds, m.from) # {}
     THEN /\ UNCHANGED <<state, remote, work, timewait_info, oops>>
          /\ Send({Msg("REJ_STALE", m.to, m.from)})
     ELSE /\ Keep(m.to, "rep_rcvd") /\ Report(m.to, "REP")
          /\ remote' = [remote EXCEPT ![m.to] = m.from]
          /\ UNCHANGED net
  /\ UNCHANGED <<destroy, qpn>>

\* cm_dup_rep_handler(): the RTU was lost.
cm_dup_rep_handler(m) ==
  /\ m.type = "REP" /\ cm_acquire_id(m.to, m.from) /\ state[m.to] = "established"
  /\ UNCHANGED <<state, remote, work, timewait_info, oops, destroy, qpn>>
  /\ Send({Msg("RTU", m.to, m.from)})

cm_rtu_handler(m) ==
  /\ m.type = "RTU" /\ cm_acquire_id(m.to, m.from) /\ state[m.to] = "rep_sent"
  /\ Keep(m.to, "established") /\ Report(m.to, "RTU")
  /\ UNCHANGED <<remote, destroy, qpn, net>>

\* Also if the CM ID is gone or the DREP was lost: cm_issue_drep().
cm_dreq_handler(m) ==
  /\ m.type = "DREQ"
  /\ IF cm_acquire_id(m.to, m.from) /\ state[m.to] # "timewait"
     THEN /\ state[m.to] \in {"rep_sent", "dreq_sent", "established"}
          /\ Keep(m.to, "dreq_rcvd") /\ Report(m.to, "DREQ") /\ UNCHANGED net
     ELSE /\ UNCHANGED <<state, work, timewait_info, oops>>
          /\ Send({Msg("DREP", m.to, m.from)})
  /\ UNCHANGED <<remote, destroy, qpn>>

\* Mutant: a DREP may come twice.
cm_drep_handler_dup(m) ==
  /\ m.type = "DREP" /\ cm_acquire_id(m.to, m.from)
  /\ state[m.to] \in {"dreq_sent", "dreq_rcvd", "timewait"}
  /\ cm_enter_timewait(m.to) /\ Report(m.to, "DREP")
  /\ UNCHANGED <<remote, destroy, qpn, net>>

cm_drep_handler(m) ==
  /\ m.type = "DREP" /\ cm_acquire_id(m.to, m.from)
  /\ state[m.to] \in {"dreq_sent", "dreq_rcvd"}
  /\ cm_enter_timewait(m.to) /\ Report(m.to, "DREP")
  /\ UNCHANGED <<remote, destroy, qpn, net>>

\* cm_acquire_rejected_id().
cm_acquire_rejected_id(m, i) ==
  \/ m.type = "REJ_TIMEOUT" /\ Live(i) /\ i \in SameRemoteId(PassiveIds, m.from)
  \/ m.type \in {"REJ_REQ", "REJ_REQ_STALE"} /\ i = m.to /\ cm_acquire_id(i, NoId)
  \/ m.type \in {"REJ", "REJ_STALE"} /\ i = m.to /\ cm_acquire_id(i, m.from)

Stale(m) == m.type \in {"REJ_REQ_STALE", "REJ_STALE"}

\* Without alternate paths lap_state is always IB_CM_LAP_UNINIT.
cm_rej_handler(m) ==
  \E i \in Ids :
    /\ cm_acquire_rejected_id(m, i)
    /\ \/ /\ state[i] \in {"req_sent", "rep_sent", "req_rcvd"}
          /\ IF Stale(m) THEN cm_enter_timewait(i)
                         ELSE cm_reset_to_idle(i)
       \/ /\ state[i] \in {"dreq_sent", "rep_rcvd", "established"}
          /\ cm_enter_timewait(i)
    /\ Report(i, IF Stale(m) THEN "REJ_STALE" ELSE "REJ")
    /\ UNCHANGED <<remote, destroy, qpn, net>>
-----------------------------------------------------------------------------
\* Mutant: an REQ without answer leads to the time wait, as a DREQ does.
cm_process_send_error_wait(i) ==
  /\ state[i] \in {"req_sent", "dreq_sent"} /\ cm_enter_timewait(i)
  /\ Report(i, IF state[i] = "req_sent" THEN "REQ_ERROR" ELSE "DREQ_ERROR")
  /\ UNCHANGED <<remote, destroy, qpn, net>>

\* The retries of an REQ, REP or DREQ are used up.
cm_process_send_error(i) ==
  /\ \/ state[i] = "req_sent" /\ cm_reset_to_idle(i) /\ Report(i, "REQ_ERROR")
     \/ state[i] = "rep_sent" /\ cm_reset_to_idle(i) /\ Report(i, "REP_ERROR")
     \/ /\ state[i] = "dreq_sent" /\ cm_enter_timewait(i)
        /\ Report(i, "DREQ_ERROR")
  /\ UNCHANGED <<remote, destroy, qpn, net>>

cm_timewait_handler(i) ==
  /\ state[i] = "timewait" /\ Keep(i, "idle") /\ Report(i, "TIMEWAIT_EXIT")
  /\ UNCHANGED <<remote, destroy, qpn, net>>

Receive(m) ==
  \/ cm_req_handler(m) \/ cm_req_handler_refused(m) \/ cm_rep_handler(m)
  \/ cm_dup_rep_handler(m) \/ cm_rtu_handler(m) \/ cm_dreq_handler(m)
  \/ cm_drep_handler(m) \/ cm_rej_handler(m)

Next ==
  \/ \E m \in net : Receive(m)
  \/ \E i \in Ids : \/ ib_send_cm_req(i) \/ Disconnect(i) \/ Withdraw(i)
                    \/ cm_destroy_id(i) \/ cm_destroy_id_call(i)
                    \/ cm_destroy_id_free(i)
                    \/ cm_process_work(i) \/ cm_process_send_error(i)
                    \/ cm_timewait_handler(i)

Spec == Init /\ [][Next]_vars
-----------------------------------------------------------------------------
IdStates == CmStates \cup {"req_rcvd", "rep_sent", "gone"}

\* Neither side has a CM ID in a state of the other one.
StateTypes ==
  /\ state \in [Ids -> IdStates]
  /\ \A a \in ActiveIds : state[a] \notin {"req_rcvd", "rep_sent"}
  /\ \A p \in PassiveIds : state[p] \notin {"req_sent", "rep_rcvd"}
  /\ remote \in [Ids -> Ids \cup {NoId}]
  /\ timewait_info \subseteq Ids /\ oops \in BOOLEAN
  /\ qpn \in [Ids -> Nat]

DestroyTypes ==
  destroy \in [Ids -> {"no", "rej_timeout", "rej", "dreq", "retest", "drep", "free"}]

WorkTypes == work \in [Ids -> Seq(CmEvents \cup {"REQ"})]

Messages == [type : MsgTypes, from : Ids \cup {NoId}, to : Ids \cup {NoId}]

\* The values the variables may have.
TypeOK == StateTypes /\ DestroyTypes /\ WorkTypes /\ net \subseteq Messages

\* The state of a live CM ID changes as the client of CmClient expects.
ClientStep(a) ==
  \/ /\ work'[a] = work[a]
     /\ \/ state'[a] \in {state[a]} \cup CmSendDreq(state[a])
        \/ state'[a] \in CmSendReq(state[a]) /\ work[a] = <<>>
        \/ state'[a] \in CmDestroy(state[a]) /\ destroy'[a] # "no"
  \/ /\ work[a] # <<>> /\ work'[a] = Tail(work[a])
     /\ \/ state'[a] = state[a]
        \/ Head(work[a]) = "REP" /\ state'[a] \in CmSendRtu(state[a]) \cup CmSendRej(state[a])
        \/ Head(work[a]) = "DREQ" /\ state'[a] \in CmSendDrep(state[a])
  \/ \E x \in CmIndications :
       /\ x[1] = state[a] /\ x[3] = state'[a] /\ work'[a] = Append(work[a], x[2])
       /\ x \in CmSendErrors => work[a] = <<>>

(***************************************************************************)
(* Whatever the network and the peer do, a live CM ID of the active side   *)
(* changes its state only as CmClient says: with the event that it lists,  *)
(* or in a call of the client, also while ib_destroy_cm_id() is under way. *)
(* The events of cm_process_send_error(), which do not go through the      *)
(* work_list, do not overtake another event ("No other events can occur on *)
(* the cm_id at this point."): the client may leave an REP unanswered and  *)
(* send several REQs on a CM ID, if its handler has seen the events of one *)
(* when it sends the next.                                                 *)
(***************************************************************************)
KeepsToClient ==
  [][\A a \in ActiveIds : Live(a) /\ Live(a)' => ClientStep(a)]_vars

(***************************************************************************)
(* When the target takes a connection for established, the initiator has   *)
(* accepted the REP of that very connection and has sent the RTU: a        *)
(* delayed REQ or REP never makes a connection of which the other end does *)
(* not know, also when the initiator sends an REQ again.                   *)
(***************************************************************************)
EndsAgree ==
  \A p \in PassiveIds : state[p] = "established" =>
    remote[remote[p]] = p /\ state[remote[p]] # "rep_rcvd"

(***************************************************************************)
(* cm_enter_timewait() always finds the timewait_info that the connection  *)
(* got at its REQ, also when a message comes twice or while cm_destroy_id()*)
(* is under way; a CM ID whose connection is over, and which may get       *)
(* another one, holds none; and cm_destroy_id() leaves one behind only for *)
(* a connection that an RTU or a DREQ has carried past the state in which  *)
(* it can be rejected, never for a login that is broken off.               *)
(***************************************************************************)
TimewaitInfoHeld ==
  /\ ~oops
  /\ \A i \in timewait_info :
       /\ state[i] \notin {"none", "idle", "timewait"}
       /\ destroy[i] = "free" => state[i] \in {"established", "dreq_sent", "dreq_rcvd"}
-----------------------------------------------------------------------------
(* The inductive invariant behind the properties above.                    *)

\* A connection has its timewait_info from the REQ to the end.
TimewaitInv ==
  /\ ~oops
  /\ \A i \in Ids : state[i] # "gone" =>
       (i \in timewait_info <=> state[i] \notin {"none", "idle", "timewait"})

\* Each side knows a peer of the other side from the REQ or REP on.
PeerInv ==
  /\ \A p \in PassiveIds : state[p] # "none" => remote[p] \in ActiveIds
  /\ \A a \in ActiveIds : state[a] = "none" => remote[a] = NoId
  /\ \A a \in ActiveIds : state[a] = "rep_rcvd" => remote[a] \in PassiveIds

\* The initiator has accepted an REP, and has answered it or has given up.
Accepted(a) == state[a] # "rep_rcvd" /\ remote[a] # NoId

\* However old a message is, what it says of its sender is still true.
Truthful(m) ==
  /\ m.type = "REQ" => m.from \in ActiveIds
  /\ m.type = "REP" => /\ m.from \in PassiveIds /\ state[m.from] # "none"
                       /\ remote[m.from] = m.to
  /\ m.type = "RTU" => /\ m.from \in ActiveIds /\ m.to \in PassiveIds
                       /\ Accepted(m.from) /\ remote[m.from] = m.to

NetInv == \A m \in net : Truthful(m)

\* While an answer is awaited, no event waits for the handler.
WorkInv ==
  \A a \in ActiveIds :
    /\ state[a] \in {"none", "req_sent", "established", "dreq_sent"} => work[a] = <<>>
    /\ state[a] = "rep_rcvd" => work[a] \in {<<>>, <<"REP">>}

\* Only a CM ID that exists is destroyed, and what cm_destroy_id() has found or
\* done is not undone.
DestroyInv ==
  \A i \in Ids :
    /\ ~Live(i) => destroy[i] = "no"
    /\ destroy[i] = "free" => ~CanReject(i)
    /\ destroy[i] = "drep" => state[i] \in {"dreq_rcvd", "timewait", "idle"}

IInv ==
  /\ TypeOK /\ TimewaitInv /\ PeerInv /\ NetInv /\ WorkInv /\ DestroyInv /\ EndsAgree
=============================================================================
