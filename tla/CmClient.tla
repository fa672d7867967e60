------------------------------- MODULE CmClient -------------------------------
(***************************************************************************)
(* What the InfiniBand connection manager (src/drivers/infiniband/core/    *)
(* cm.c) shows to the client that requested a connection, the active side: *)
(* the states of its CM ID, the events that the client's handler gets, and *)
(* what the calls of the client do.  IbCm models the manager itself and    *)
(* shows that it keeps to this module; SrpLogin is built on it.            *)
(*                                                                         *)
(* An MRA only lengthens a timeout, so the two states in which one was     *)
(* received or sent are not told apart from "req_sent" and "rep_rcvd".     *)
(***************************************************************************)

CmStates == {"none", "idle", "req_sent", "rep_rcvd", "established",
             "dreq_sent", "dreq_rcvd", "timewait"}

\* A reject is "REJ_STALE" if its reason is IB_CM_REJ_STALE_CONN.
CmEvents == {"REQ_ERROR", "REP", "REJ", "REJ_STALE", "DREQ", "DREP",
             "DREQ_ERROR", "TIMEWAIT_EXIT"}

(***************************************************************************)
(* <<state, event, next state>>: in a state, the manager may take the CM   *)
(* ID to the next state and queue the event for the handler.               *)
(***************************************************************************)

\* cm_process_send_error(): no answer to a REQ or DREQ after all retries.
CmSendErrors == {<<"req_sent", "REQ_ERROR", "idle">>,
                 <<"dreq_sent", "DREQ_ERROR", "timewait">>}

CmRepReceived == {<<"req_sent", "REP", "rep_rcvd">>}

CmRejReceived ==
  {<<"req_sent", "REJ", "idle">>, <<"req_sent", "REJ_STALE", "timewait">>}
    \cup ({"rep_rcvd", "established", "dreq_sent"}
            \X {"REJ", "REJ_STALE"} \X {"timewait"})

CmDreqReceived == {"established", "dreq_sent"} \X {"DREQ"} \X {"dreq_rcvd"}

CmDrepReceived == {"dreq_sent", "dreq_rcvd"} \X {"DREP"} \X {"timewait"}

CmTimewaitExit == {<<"timewait", "TIMEWAIT_EXIT", "idle">>}

CmIndications ==
  CmSendErrors \cup CmRepReceived \cup CmRejReceived \cup CmDreqReceived
    \cup CmDrepReceived \cup CmTimewaitExit

(***************************************************************************)
(* The states after a call; a call that the state does not allow fails and *)
(* changes nothing.  A DREQ that cannot be posted starts the time wait.    *)
(***************************************************************************)
CmSendReq(s) == IF s = "idle" THEN {"req_sent"} ELSE {}
CmSendRtu(s) == IF s = "rep_rcvd" THEN {"established"} ELSE {}
CmSendDreq(s) == IF s = "established" THEN {"dreq_sent", "timewait"} ELSE {}
CmSendDrep(s) == IF s = "dreq_rcvd" THEN {"timewait"} ELSE {}
CmSendRej(s) == IF s \in {"req_sent", "rep_rcvd"} THEN {"idle"} ELSE {}

\* The calls that ib_destroy_cm_id() makes while handlers may still run.
CmDestroy(s) ==
  CmSendRej(s) \cup CmSendDreq(s) \cup CmSendDrep(s)
    \cup (IF s = "dreq_sent" THEN {"timewait"} ELSE {})
==============================================================================
