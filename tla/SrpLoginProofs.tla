--------------------------- MODULE SrpLoginProofs ---------------------------
(***************************************************************************)
(* Proofs about SrpLogin, for any number of reconnects and redirects and   *)
(* for every set of things that the environment may do, also several of    *)
(* them at a time.                                                         *)
(*                                                                         *)
(* ch->done does not say who has completed it.  So the invariant says, for *)
(* each place where the thread waits, which of the callbacks can still     *)
(* come: no CM ID but the current one has events, and that one is silent   *)
(* until the login request is sent.                                        *)
(***************************************************************************)
EXTENDS SrpLogin, TLAPS

Ids == {"cur", "other"}
LookupEvents == {"ADDR_RESOLVED", "ADDR_ERROR", "ROUTE_RESOLVED", "ROUTE_ERROR"}
Events == CmEvents \cup {"REDIRECT"} \cup LookupEvents
Redirected == {"port_redirect", "dlid_redirect"}

\* The types of the CM IDs and of the events that are queued for them, ...
IdTypes == cm \in [Ids -> CmIds] /\ events \in [Ids -> Seq(Events)]

\* ... of the flags, ...
FlagTypes ==
  /\ using_rdma_cm \in BOOLEAN /\ connected \in BOOLEAN
  /\ last_wr \in BOOLEAN /\ accepted \in BOOLEAN
  /\ tl_err \in BOOLEAN /\ recovering \in BOOLEAN
  /\ lost \in BOOLEAN /\ too_early \in BOOLEAN

\* ... and of the other variables.
ThreadTypes ==
  /\ phase \in {"new", "scanning", "live", "freed", "abandoned"}
  /\ pc \in Labels /\ op \in {"none", "create", "reconnect", "free"}
  /\ ret \in {"ok", "err"}
  /\ done \in Nat /\ status \in Statuses
  /\ qp \in {"none", "init", "rts", "err"}
  /\ queries \in Nat
  /\ reconnects \in 0..MaxReconnects
  /\ env \in Envs

TypeInv == IdTypes /\ FlagTypes /\ ThreadTypes

\* What the thread does fits its task and the phase of the target.  A channel
\* is connected only between two tasks and while srp_add_target() runs.
ControlInv ==
  /\ op = "none" <=> pc = "idle" /\ phase = "new"
  /\ pc # "idle" /\ op = "create" => phase = "new"
  /\ pc # "idle" /\ op = "reconnect" => phase = "live"
  /\ pc \in {"add_target", "give_up"} => op = "create"
  /\ pc \in {"wait_addr", "addr"} => using_rdma_cm
  /\ pc \in {"free_cm_id", "free_qp"} => op = "free"
  /\ op = "free" => pc \in {"free_cm_id", "destroy_cm_id", "free_qp", "wait_last_wr",
                            "idle"}
  /\ phase \in {"freed", "abandoned"} <=> op = "free" /\ pc = "idle"
  /\ connected => \/ pc = "idle" /\ phase \in {"scanning", "live"}
                 \/ pc \in {"add_target", "give_up"}
  /\ last_wr => pc = "wait_last_wr"

Gone(i) == cm[i] = NoId /\ events[i] = <<>>

\* The CM ID that ch does not refer to exists during the address lookup and
\* until it is destroyed, the one that ch refers to until the channel is freed.
IdInv ==
  /\ pc \notin {"wait_addr", "addr", "destroy_cm_id"} => Gone("other")
  /\ op = "free" /\ pc # "free_cm_id" => Gone("cur")
  /\ phase = "freed" => ~tl_err

\* A connection that was lost is noticed, also while the login goes on:
\* srp_tl_err_work() cannot run before a reconnect has ended.  During the first
\* login it can, and finds no port.
LossInv ==
  /\ phase = "new" => reconnects = 0
  /\ lost /\ pc \in {"wait_login", "login"} => tl_err \/ (too_early /\ reconnects = 0)
  /\ lost /\ connected => tl_err \/ recovering \/ (too_early /\ reconnects = 0)

\* The thread waits for the path record query, and nothing else wakes it.
QueryInv ==
  /\ using_rdma_cm => queries = 0
  /\ "lookup_signal" \notin env /\ queries # 0 =>
       queries = 1 /\ pc = "wait_path" /\ done = 0

\* The connection manager has nothing to tell about the current CM ID.
IbQuiet == cm["cur"].ib = "idle" /\ events["cur"] = <<>>

\* With the IB CM: the CM ID is silent from srp_new_ib_cm_id() to srp_send_req(),
\* and again when the login was redirected.
IbInv ==
  ~using_rdma_cm =>
    /\ cm["cur"].rdma = "none"
    /\ pc \in {"lookup_path", "wait_path", "path", "send_req"} => IbQuiet
    /\ pc \in {"destroy_cm_id", "create_ch_ib", "wait_last_wr"} /\ ret = "ok"
         /\ op # "free" => IbQuiet
    /\ pc = "wait_login" /\ done > 0 /\ status \in Redirected => IbQuiet
    /\ pc = "login" /\ status \in Redirected => IbQuiet
    /\ \A n \in 1..Len(events["cur"]) : events["cur"][n] = "REDIRECT" =>
         n = Len(events["cur"]) /\ cm["cur"].ib = "idle"

\* Where srp_new_cm_id() cannot have failed.
RetInv ==
  /\ pc \in {"new_cm_id", "wait_addr", "addr"} => ret = "ok"
  /\ op = "create" /\ pc \in {"create_ch_ib", "wait_last_wr"} => ret = "ok"
  /\ op = "reconnect" /\ pc \in {"destroy_cm_id", "create_ch_ib", "wait_last_wr"}
       /\ env \subseteq {"short_timewait"} => ret = "ok"

\* The lookups of the RDMA CM end only by their own events.
Calm == "lookup_signal" \notin env /\ "old_event" \notin env

\* The new CM ID between the address lookup and the route lookup.
RdmaQuiet ==
  cm["cur"].rdma = "addr_resolved" /\ cm["cur"].ib = "none" /\ events["cur"] = <<>>

\* The address lookup on the new CM ID is under way, its event is queued, or the
\* event has completed ch->done.
AddrInv ==
  /\ pc = "wait_addr" =>
       /\ cm["other"].ib = "none"
       /\ \/ cm["other"].rdma = "addr_query" /\ events["other"] = <<>> /\ done = 0
          \/ /\ cm["other"].rdma = "addr_resolved"
             /\ \/ events["other"] = <<"ADDR_RESOLVED">> /\ done = 0
                \/ events["other"] = <<>> /\ done = 1 /\ status = "ok"
          \/ /\ cm["other"].rdma = "addr_bound" /\ MayFail
             /\ \/ events["other"] = <<"ADDR_ERROR">> /\ done = 0
                \/ events["other"] = <<>> /\ done = 1 /\ status = "err"
  /\ pc = "addr" =>
       /\ cm["other"].ib = "none" /\ events["other"] = <<>>
       /\ \/ status = "ok" /\ cm["other"].rdma = "addr_resolved"
          \/ status = "err" /\ cm["other"].rdma = "addr_bound" /\ MayFail

\* The same for the route lookup.  When the login request is sent, no event of a
\* lookup is left.
RouteInv ==
  /\ pc \in {"destroy_cm_id", "create_ch_ib", "wait_last_wr", "lookup_path"}
       /\ ret = "ok" /\ op # "free" => RdmaQuiet
  /\ pc = "lookup_path" => ret = "ok"
  /\ pc = "wait_path" =>
       /\ cm["cur"].ib = "none"
       /\ \/ cm["cur"].rdma = "route_query" /\ events["cur"] = <<>> /\ done = 0
          \/ /\ cm["cur"].rdma = "route_resolved"
             /\ \/ events["cur"] = <<"ROUTE_RESOLVED">> /\ done = 0
                \/ events["cur"] = <<>> /\ done = 1 /\ status = "ok"
          \/ /\ cm["cur"].rdma = "addr_resolved"
             /\ \/ events["cur"] = <<"ROUTE_ERROR">> /\ done = 0
                \/ events["cur"] = <<>> /\ done = 1 /\ status = "err"
  /\ pc = "path" =>
       /\ cm["cur"].ib = "none" /\ events["cur"] = <<>>
       /\ \/ status = "ok" /\ cm["cur"].rdma = "route_resolved"
          \/ status = "err" /\ cm["cur"].rdma = "addr_resolved"
  /\ pc = "send_req" =>
       /\ cm["cur"].rdma = "route_resolved"
       /\ cm["cur"].ib = "none" /\ events["cur"] = <<>>
  /\ pc \in {"wait_login", "login"} =>
       /\ cm["cur"].rdma \in {"connect", "disconnect"}
       /\ \A n \in 1..Len(events["cur"]) : events["cur"][n] \notin LookupEvents

RdmaInv ==
  using_rdma_cm => status \notin Redirected /\ (Calm => AddrInv /\ RouteInv)

\* The completion that ends the wait for the login says what it is taken for.
AcceptInv ==
  env \subseteq {"cm_id_failure"} =>
    /\ pc = "wait_login" /\ done > 0 /\ status = "ok" => accepted
    /\ pc = "login" /\ status = "ok" => accepted

\* Nothing but the last work request ends the wait of srp_destroy_qp().
DrainInv == env \subseteq {"short_timewait"} /\ last_wr => done = 0

IInv == /\ TypeInv /\ ControlInv /\ IdInv /\ LossInv /\ QueryInv /\ IbInv /\ RetInv
        /\ RdmaInv /\ AcceptInv /\ DrainInv

\* What is left when a handler has taken an event.
LEMMA TailEvents ==
  ASSUME NEW q \in Seq(Events), q # <<>>
  PROVE  /\ \A n \in 1..Len(Tail(q)) : n + 1 \in 1..Len(q) /\ Tail(q)[n] = q[n + 1]
         /\ \A e : q = <<e>> => Tail(q) = <<>>
  OBVIOUS

USE DEF thread, wait, queue_pair, ids, recovery, Goto, Return, AtDestroyQp, ib_destroy_qp

-----------------------------------------------------------------------------
(* CM IDs and their events.                                                *)

\* The CM IDs that the thread creates are CM IDs.
LEMMA CmIdTypes == NoId \in CmIds /\ NewIbCmId \in CmIds /\ NewRdmaCmId \in CmIds
  BY DEF NoId, NewIbCmId, NewRdmaCmId, CmIds, CmStates

\* ib_destroy_cm_id() and rdma_destroy_id() begin: ch refers to the CM ID new.
LEMMA Replaced ==
  ASSUME TypeInv, NEW i \in Ids, NEW new \in CmIds, NEW q \in Seq(Events),
         Replace(i, new, q)
  PROVE  /\ cm' \in [Ids -> CmIds] /\ cm'["cur"] = new
         /\ events' \in [Ids -> Seq(Events)] /\ events'["cur"] = q
<1>1. PICK p \in Pending(events[i]) :
        events' = [events EXCEPT !["cur"] = q, !["other"] = p]
  BY Zenon DEF Replace
<1>2. /\ events \in [Ids -> Seq(Events)] /\ events[i] \in Seq(Events)
      /\ cm \in [Ids -> CmIds] /\ cm[i] \in CmIds
  BY DEF TypeInv, IdTypes, Ids
<1>3. p \in Seq(Events)
  <2>1. ASSUME NEW e \in {events[i][n] : n \in 1..Len(events[i])}, p = <<e>>
        PROVE  p \in Seq(Events)
    BY <1>2, <2>1
  <2>2. <<>> \in Seq(Events)
    OBVIOUS
  <2> QED BY <1>1, <1>2, <2>1, <2>2, Zenon DEF Pending
<1>4. PICK s \in {cm[i].ib} \cup CmDestroy(cm[i].ib) :
        cm' = [cm EXCEPT !["cur"] = new, !["other"] = [rdma |-> "destroying", ib |-> s]]
  BY Zenon DEF Replace
<1>5. s \in CmStates
  BY <1>2 DEF CmIds, CmStates, CmDestroy, CmSendRej, CmSendDreq, CmSendDrep
<1>6. [rdma |-> "destroying", ib |-> s] \in CmIds
  BY <1>5 DEF CmIds
<1> QED BY <1>1, <1>2, <1>3, <1>4, <1>6, Zenon DEF Ids

\* srp_disconnect_target() sends a DREQ only for a connection.
LEMMA Disconnects ==
  ASSUME TypeInv, srp_disconnect_target
  PROVE  /\ cm' \in [Ids -> CmIds] /\ cm'["other"] = cm["other"]
         /\ cm'["cur"].rdma = cm["cur"].rdma
         /\ cm["cur"].ib = "idle" => cm'["cur"].ib = "idle"
         /\ cm["cur"].ib = "none" => cm'["cur"] = cm["cur"]
         /\ connected' = FALSE /\ qp' \in {"none", "init", "rts", "err"}
<1>1. PICK s \in CmStates :
        /\ IF using_rdma_cm
           THEN rdma_disconnect(s)
           ELSE s \in After(CmSendDreq(cm["cur"].ib), cm["cur"].ib) /\ UNCHANGED qp
        /\ cm' = [cm EXCEPT !["cur"].ib = s]
  BY Zenon DEF srp_disconnect_target
<1>2. cm \in [Ids -> CmIds]
  BY DEF TypeInv, IdTypes, Ids
<1>3. /\ cm["cur"].ib = "idle" => s = "idle"
      /\ cm["cur"].ib = "none" => s = "none"
  BY <1>1 DEF rdma_disconnect, After, CmSendDreq, CmSendDrep
<1> QED BY <1>1, <1>2, <1>3
        DEF srp_disconnect_target, rdma_disconnect, Ids, CmIds, TypeInv, ThreadTypes

\* Only a CM ID that exists gets events, and they are its own.
LEMMA Arrival ==
  ASSUME TypeInv, NEW i \in Ids,
         ib_cm_event(i) \/ redirect(i) \/ addr_handler(i) \/ cma_work_handler(i)
  PROVE  /\ cm[i] # NoId /\ cm' \in [Ids -> CmIds]
         /\ \A j \in Ids \ {i} : cm'[j] = cm[j] /\ events'[j] = events[j]
         /\ events' \in [Ids -> Seq(Events)]
<1>0. cm \in [Ids -> CmIds] /\ events \in [Ids -> Seq(Events)] /\ cm[i] \in CmIds
  BY DEF TypeInv, IdTypes, Ids
<1>1. PICK id \in CmIds, e \in Events : Queue(i, id, e)
  <2>1. CASE ib_cm_event(i)
    <3>1. PICK x \in CmIndications :
            x[1] = cm[i].ib /\ Queue(i, [cm[i] EXCEPT !.ib = x[3]], x[2])
      BY <2>1 DEF ib_cm_event
    <3>2. x[3] \in CmStates /\ x[2] \in Events
      BY DEF CmIndications, CmSendErrors, CmRepReceived, CmRejReceived,
              CmDreqReceived, CmDrepReceived, CmTimewaitExit, Events, CmEvents, CmStates
    <3>3. /\ [cm[i] EXCEPT !.ib = x[3]] \in CmIds
      BY <1>0, <3>2, Zenon DEF CmIds
    <3> QED BY <3>1, <3>2, <3>3, Zenon
  <2>2. CASE redirect(i)
    <3>1. "idle" \in CmStates /\ "REDIRECT" \in Events
      BY DEF CmStates, Events
    <3>2. /\ [cm[i] EXCEPT !.ib = "idle"] \in CmIds
      BY <1>0, <3>1 DEF CmIds
    <3> QED BY <2>2, <3>1, <3>2, Zenon DEF redirect
  <2>3. CASE addr_handler(i)
    <3>1. "ADDR_RESOLVED" \in Events /\ "ADDR_ERROR" \in Events
      BY DEF LookupEvents, Events
    <3>2. /\ [cm[i] EXCEPT !.rdma = "addr_resolved"] \in CmIds
          /\ [cm[i] EXCEPT !.rdma = "addr_bound"] \in CmIds
      BY <1>0 DEF CmIds
    <3> QED BY <2>3, <3>1, <3>2, Zenon DEF addr_handler
  <2>4. CASE cma_work_handler(i)
    <3>1. "ROUTE_RESOLVED" \in Events /\ "ROUTE_ERROR" \in Events
      BY DEF LookupEvents, Events
    <3>2. /\ [cm[i] EXCEPT !.rdma = "route_resolved"] \in CmIds
          /\ [cm[i] EXCEPT !.rdma = "addr_resolved"] \in CmIds
      BY <1>0 DEF CmIds
    <3> QED BY <2>4, <3>1, <3>2, Zenon DEF cma_work_handler
  <2> QED BY <2>1, <2>2, <2>3, <2>4
<1>2. cm[i] # NoId
  <2>1. CASE ib_cm_event(i)
    <3>1. PICK x \in CmIndications : x[1] = cm[i].ib
      BY <2>1 DEF ib_cm_event
    <3>2. x[1] # "none"
      BY DEF CmIndications, CmSendErrors, CmRepReceived, CmRejReceived, CmDreqReceived,
             CmDrepReceived, CmTimewaitExit
    <3> QED BY <3>1, <3>2 DEF NoId
  <2>2. CASE redirect(i) \/ addr_handler(i) \/ cma_work_handler(i)
    BY <2>2 DEF redirect, addr_handler, cma_work_handler, NoId
  <2> QED BY <2>1, <2>2
<1>4. Append(events[i], e) \in Seq(Events)
  BY <1>0
<1>5. cm' = [cm EXCEPT ![i] = id] /\ events' = [events EXCEPT ![i] = Append(events[i], e)]
  BY <1>1 DEF Queue
<1> QED BY <1>0, <1>1, <1>2, <1>4, <1>5, Zenon

\* A handler takes the oldest event of its CM ID.  It changes no other CM ID,
\* and it completes ch->done at most once and sets ch->status when it does.
LEMMA Handling ==
  ASSUME TypeInv, ControlInv, IdInv, NEW i \in Ids,
         srp_ib_cm_handler(i) \/ srp_rdma_cm_handler(i)
  PROVE  /\ events[i] # <<>> /\ events'[i] = Tail(events[i])
         /\ events' \in [Ids -> Seq(Events)]
         /\ cm' \in [Ids -> CmIds]
         /\ \A j \in Ids \ {i} : cm'[j] = cm[j] /\ events'[j] = events[j]
         /\ UNCHANGED <<using_rdma_cm, phase, thread, last_wr, queries, recovering,
                        too_early, reconnects>>
         /\ connected' \in {connected, FALSE} /\ tl_err' \in {tl_err, TRUE}
         /\ lost' \in BOOLEAN /\ accepted' \in {accepted, TRUE}
         /\ qp' \in {"none", "init", "rts", "err"}
         /\ status' \in Statuses
         /\ \/ UNCHANGED wait
            \/ done' = done + 1
<1>0. /\ cm \in [Ids -> CmIds] /\ events \in [Ids -> Seq(Events)]
      /\ cm[i] \in CmIds /\ cm["cur"] \in CmIds /\ events[i] \in Seq(Events)
      /\ qp \in {"none", "init", "rts", "err"} /\ status \in Statuses
      /\ connected \in BOOLEAN /\ lost \in BOOLEAN
  BY DEF TypeInv, IdTypes, FlagTypes, ThreadTypes, Ids
<1>1. PICK e \in Events : Handles(i, e)
  BY DEF srp_ib_cm_handler, srp_rdma_cm_handler, Events, LookupEvents
<1>2. /\ events[i] # <<>> /\ events' = [events EXCEPT ![i] = Tail(events[i])]
      /\ UNCHANGED <<using_rdma_cm, phase, thread, last_wr, queries, recovering,
                        too_early, reconnects>>
  BY <1>1 DEF Handles
<1>3. /\ events'[i] = Tail(events[i]) /\ events' \in [Ids -> Seq(Events)]
      /\ \A j \in Ids \ {i} : events'[j] = events[j]
  BY <1>0, <1>2
<1>4. connected => i = "cur"
  BY <1>2 DEF ControlInv, IdInv, Gone, Ids
<1>5. /\ cm' \in [Ids -> CmIds]
      /\ \A j \in Ids \ {i} : cm'[j] = cm[j]
  <2>1. CASE UNCHANGED cm
    BY <1>0, <2>1
  <2>2. ASSUME NEW s \in CmStates, cm' = [cm EXCEPT ![i].ib = s]
        PROVE  /\ cm' \in [Ids -> CmIds]
               /\ \A j \in Ids \ {i} : cm'[j] = cm[j]
    BY <1>0, <2>2 DEF CmIds
  <2>3. CASE disconnected(i)
    <3>1. CASE connected
      <4>1. PICK s \in CmStates :
              cm' = [cm EXCEPT ![i].rdma = "disconnect", !["cur"].ib = s]
        BY <2>3, <3>1 DEF disconnected
      <4>2. i = "cur"
        BY <1>4, <3>1
      <4>3. [cm["cur"] EXCEPT !.rdma = "disconnect", !.ib = s] \in CmIds
        BY <1>0, Zenon DEF CmIds
      <4>4. cm' = [cm EXCEPT ![i] = [cm["cur"] EXCEPT !.rdma = "disconnect", !.ib = s]]
        BY <1>0, <4>1, <4>2, Zenon
      <4> QED BY <1>0, <4>2, <4>3, <4>4 DEF CmIds
    <3>2. CASE ~connected
      <4>1. cm' = [cm EXCEPT ![i].rdma = "disconnect"]
        BY <2>3, <3>2 DEF disconnected
      <4>2. [cm[i] EXCEPT !.rdma = "disconnect"] \in CmIds
        BY <1>0 DEF CmIds
      <4> QED BY <1>0, <4>1, <4>2 DEF CmIds
    <3> QED BY <3>1, <3>2
  <2>4. /\ CmSendRtu(cm[i].ib) \subseteq CmStates
        /\ After(CmSendDrep(cm[i].ib), cm[i].ib) \subseteq CmStates
        /\ After(CmSendRej(cm[i].ib), cm[i].ib) \subseteq CmStates
    BY <1>0 DEF CmSendRtu, After, CmSendDrep, CmSendRej, CmStates, CmIds
  <2>5. CASE srp_ib_cm_handler(i)
    BY <2>1, <2>2, <2>4, <2>5 DEF srp_ib_cm_handler, srp_cm_rep_handler, dreq_received
  <2>6. CASE srp_rdma_cm_handler(i)
    BY <2>1, <2>2, <2>3, <2>4, <2>6 DEF srp_rdma_cm_handler, cma_rep_recv
  <2> QED BY <2>5, <2>6
<1>6. /\ connected' \in {connected, FALSE} /\ tl_err' \in {tl_err, TRUE}
      /\ lost' \in BOOLEAN /\ accepted' \in {accepted, TRUE}
  <2>1. CASE srp_ib_cm_handler(i)
    BY <1>0, <2>1, Zenon DEF srp_ib_cm_handler, srp_cm_rep_handler, dreq_received
  <2>2. CASE srp_rdma_cm_handler(i)
    BY <1>0, <2>2, Zenon DEF srp_rdma_cm_handler, cma_rep_recv, disconnected
  <2> QED BY <2>1, <2>2, Zenon
<1>7. qp' \in {"none", "init", "rts", "err"}
  <2>1. CASE srp_ib_cm_handler(i)
    BY <1>0, <2>1 DEF srp_ib_cm_handler, srp_cm_rep_handler
  <2>2. CASE srp_rdma_cm_handler(i)
    BY <1>0, <2>2 DEF srp_rdma_cm_handler, cma_rep_recv, disconnected, rdma_disconnect
  <2> QED BY <2>1, <2>2
<1>8. UNCHANGED wait \/ \E s \in Statuses : Complete(s)
  <2>1. CASE srp_ib_cm_handler(i)
    BY <1>0, <2>1 DEF srp_ib_cm_handler, srp_cm_rep_handler, srp_ib_cm_rej_handler,
                      req_error, Statuses
  <2>2. CASE srp_rdma_cm_handler(i)
    BY <1>0, <2>2 DEF srp_rdma_cm_handler, cma_rep_recv, disconnected, req_error, Statuses
  <2> QED BY <2>1, <2>2
<1> QED BY <1>0, <1>2, <1>3, <1>5, <1>6, <1>7, <1>8, Zenon DEF Complete

\* srp_new_ib_cm_id() and srp_free_ch_ib() destroy the CM ID ch refers to.
LEMMA Installs ==
  ASSUME TypeInv
  PROVE  /\ srp_new_ib_cm_id => /\ cm'["cur"] = NewIbCmId /\ events'["cur"] = <<>>
                                /\ cm' \in [Ids -> CmIds] /\ events' \in [Ids -> Seq(Events)]
         /\ srp_free_ch_ib_cm_id => /\ cm'["cur"] = NoId /\ events'["cur"] = <<>>
                                    /\ cm' \in [Ids -> CmIds] /\ events' \in [Ids -> Seq(Events)]
<1>1. "cur" \in Ids /\ <<>> \in Seq(Events)
  BY DEF Ids
<1>2. ASSUME srp_new_ib_cm_id
      PROVE  Replace("cur", NewIbCmId, <<>>)
  BY <1>2 DEF srp_new_ib_cm_id
<1>3. ASSUME srp_free_ch_ib_cm_id
      PROVE  Replace("cur", NoId, <<>>)
  BY <1>3 DEF srp_free_ch_ib_cm_id
<1> QED BY <1>1, <1>2, <1>3, CmIdTypes, Replaced, Zenon

\* Every step keeps the types of the flags.
LEMMA FlagTypesKept ==
  ASSUME TypeInv, ControlInv, IdInv, Step, UNCHANGED env
  PROVE  FlagTypes'
<1>1. CASE srp_create_target \/ scan_done \/ srp_add_target \/
           srp_add_target_error \/ srp_new_cm_id_error \/
           srp_new_ib_cm_id \/ rdma_resolve_addr \/ srp_new_rdma_cm_id \/
           ib_destroy_cm_id \/ srp_create_ch_ib_error \/ srp_free_ch_ib_cm_id
           \/ srp_lookup_path \/ srp_lookup_path_error \/ lookup_interrupted
           \/ path_found \/ srp_send_req_error \/ login_interrupted \/
           login_refused \/ srp_path_rec_completion \/ Waits
  BY <1>1 DEF srp_create_target, scan_done, srp_add_target,
              srp_add_target_error, srp_new_cm_id_error,
              srp_new_ib_cm_id, rdma_resolve_addr, srp_new_rdma_cm_id,
              ib_destroy_cm_id, srp_create_ch_ib_error, srp_free_ch_ib_cm_id,
              srp_lookup_path, srp_lookup_path_error, lookup_interrupted,
              path_found, srp_send_req_error, login_interrupted, login_refused,
              srp_path_rec_completion, Waits, AfterNewCmId, AfterCreateChIb,
              LoginFailed, Woken, TypeInv, FlagTypes
<1>2. CASE srp_rport_reconnect
  BY <1>2, Disconnects, Zenon DEF srp_rport_reconnect, TypeInv, FlagTypes
<1>3. CASE srp_remove_target
  BY <1>3, Disconnects, Zenon DEF srp_remove_target, TypeInv, FlagTypes
<1>4. CASE srp_create_ch_ib_first
  BY <1>4, Zenon DEF srp_create_ch_ib_first, NewQp, TypeInv, FlagTypes
<1>5. CASE srp_destroy_qp
  BY <1>5 DEF srp_destroy_qp, TypeInv, FlagTypes
<1>6. CASE srp_create_ch_ib
  BY <1>6, Zenon DEF srp_create_ch_ib, NewQp, TypeInv, FlagTypes
<1>7. CASE srp_free_ch_ib
  BY <1>7, Zenon DEF srp_free_ch_ib, TypeInv, FlagTypes
<1>8. CASE srp_send_req
  BY <1>8, Zenon DEF srp_send_req, TypeInv, FlagTypes
<1>9. CASE login_succeeded
  BY <1>9 DEF login_succeeded, TypeInv, FlagTypes
<1>10. CASE last_wr_completion
  BY <1>10, Zenon DEF last_wr_completion, TypeInv, FlagTypes
<1>11. CASE srp_tl_err_work
  BY <1>11, Zenon DEF srp_tl_err_work, TypeInv, FlagTypes
<1>12. ASSUME NEW i \in Ids,
         ib_cm_event(i) \/ redirect(i) \/ addr_handler(i) \/ cma_work_handler(i)
    PROVE  FlagTypes'
  BY <1>12 DEF ib_cm_event, redirect, addr_handler, cma_work_handler, Queue,
            TypeInv, FlagTypes
<1>13. ASSUME NEW i \in Ids, srp_ib_cm_handler(i) \/ srp_rdma_cm_handler(i)
    PROVE  FlagTypes'
  BY <1>13, Handling, Zenon DEF TypeInv, FlagTypes
<1> QED BY <1>1, <1>2, <1>3, <1>4, <1>5, <1>6, <1>7, <1>8, <1>9, <1>10, <1>11,
        <1>12, <1>13, Zenon DEF Step, Tasks, ThreadStep, CmStep, Ids

\* Every step that loses the connection queues tl_err_work.
LEMMA LossKept ==
  ASSUME TypeInv, ControlInv, IdInv, LossInv, Step, UNCHANGED env
  PROVE  LossInv'
<1>1. CASE srp_create_target \/ srp_new_cm_id_error \/ srp_new_ib_cm_id \/
           rdma_resolve_addr \/ srp_new_rdma_cm_id \/ ib_destroy_cm_id \/
           srp_create_ch_ib_error \/ srp_create_ch_ib_first \/ srp_destroy_qp
           \/ srp_create_ch_ib \/ srp_free_ch_ib_cm_id \/ srp_lookup_path \/
           srp_lookup_path_error \/ lookup_interrupted \/ path_found \/
           srp_send_req_error \/ login_interrupted \/ login_refused \/
           last_wr_completion \/ srp_path_rec_completion
  BY <1>1 DEF srp_create_target, srp_new_cm_id_error, srp_new_ib_cm_id,
              rdma_resolve_addr, srp_new_rdma_cm_id, ib_destroy_cm_id,
              srp_create_ch_ib_error, srp_create_ch_ib_first, srp_destroy_qp,
              srp_create_ch_ib, srp_free_ch_ib_cm_id, srp_lookup_path,
              srp_lookup_path_error, lookup_interrupted, path_found,
              srp_send_req_error, login_interrupted, login_refused,
              last_wr_completion, srp_path_rec_completion, AfterNewCmId,
              AfterCreateChIb, NewQp, LoginFailed, LossInv
<1>2. CASE srp_rport_reconnect
  BY <1>2, Disconnects, Zenon DEF srp_rport_reconnect, ControlInv, LossInv
<1>3. CASE srp_remove_target
  BY <1>3, Disconnects, Zenon DEF srp_remove_target, ControlInv, LossInv
<1>4. CASE scan_done \/ srp_add_target \/ srp_add_target_error
  BY <1>4 DEF scan_done, srp_add_target,
              srp_add_target_error, ControlInv, LossInv
<1>5. CASE srp_free_ch_ib
  BY <1>5 DEF srp_free_ch_ib, ControlInv, LossInv
<1>6. CASE srp_send_req
  BY <1>6 DEF srp_send_req, ControlInv, LossInv
<1>7. CASE login_succeeded
  BY <1>7 DEF login_succeeded, ControlInv, LossInv
<1>8. CASE srp_tl_err_work
  BY <1>8, Zenon DEF srp_tl_err_work, TypeInv, ThreadTypes, ControlInv, LossInv
<1>9. CASE Waits
  BY <1>9 DEF Waits, Woken, ControlInv, LossInv
<1>10. ASSUME NEW i \in Ids,
         ib_cm_event(i) \/ redirect(i) \/ addr_handler(i) \/ cma_work_handler(i)
    PROVE  LossInv'
  BY <1>10 DEF ib_cm_event, redirect, addr_handler, cma_work_handler, Queue,
            LossInv
<1>11. ASSUME NEW i \in Ids, srp_ib_cm_handler(i) \/ srp_rdma_cm_handler(i)
    PROVE  LossInv'
  <2>1. \/ (connected' => connected) /\ (lost' => lost)
        \/ ~connected' /\ tl_err'
    BY <1>11, Zenon DEF srp_ib_cm_handler, srp_rdma_cm_handler, dreq_received
  <2>2. UNCHANGED <<phase, pc, too_early, reconnects>> /\ (tl_err => tl_err') /\ (recovering => recovering')
    BY <1>11, Handling, Zenon DEF TypeInv, FlagTypes
  <2> QED BY <2>1, <2>2, Zenon DEF LossInv
<1> QED BY <1>1, <1>2, <1>3, <1>4, <1>5, <1>6, <1>7, <1>8, <1>9, <1>10, <1>11,
        Zenon DEF Step, Tasks, ThreadStep, CmStep, Ids

\* Every step leaves ret "ok" while srp_new_cm_id() has not failed.
LEMMA RetKept ==
  ASSUME TypeInv, ControlInv, IdInv, RetInv, RdmaInv, Step, UNCHANGED env
  PROVE  RetInv'
<1>1. CASE srp_create_target \/ srp_rport_reconnect \/ srp_remove_target \/
           scan_done \/ srp_add_target \/
           srp_add_target_error \/ rdma_resolve_addr \/ srp_create_ch_ib_error \/
           srp_create_ch_ib_first \/ srp_destroy_qp \/ srp_create_ch_ib \/
           srp_free_ch_ib_cm_id \/ srp_free_ch_ib \/ srp_lookup_path \/
           srp_lookup_path_error \/ lookup_interrupted \/ path_found \/
           srp_send_req \/ srp_send_req_error \/ login_interrupted \/
           login_succeeded \/ login_refused \/ last_wr_completion \/
           srp_path_rec_completion \/ srp_tl_err_work \/ Waits
  BY <1>1 DEF srp_create_target, srp_rport_reconnect, srp_remove_target,
              scan_done, srp_add_target,
              srp_add_target_error, rdma_resolve_addr, srp_create_ch_ib_error,
              srp_create_ch_ib_first, srp_destroy_qp, srp_create_ch_ib,
              srp_free_ch_ib_cm_id, srp_free_ch_ib, srp_lookup_path,
              srp_lookup_path_error, lookup_interrupted, path_found,
              srp_send_req, srp_send_req_error, login_interrupted,
              login_succeeded, login_refused, last_wr_completion,
              srp_path_rec_completion, srp_tl_err_work, Waits, AfterCreateChIb,
              NewQp, LoginFailed, Woken, ControlInv, RetInv
<1>2. CASE srp_new_cm_id_error
  BY <1>2 DEF srp_new_cm_id_error, AfterNewCmId, MayFail, RetInv
<1>3. CASE srp_new_ib_cm_id
  BY <1>3 DEF srp_new_ib_cm_id, TypeInv, ThreadTypes, ControlInv, RetInv
<1>4. CASE srp_new_rdma_cm_id
  BY <1>4 DEF srp_new_rdma_cm_id, MayFail, ControlInv, RdmaInv, Calm, AddrInv,
           RetInv
<1>5. CASE ib_destroy_cm_id
  BY <1>5 DEF ib_destroy_cm_id, AfterNewCmId, TypeInv, ThreadTypes, ControlInv,
              RetInv
<1>6. ASSUME NEW i \in Ids,
         ib_cm_event(i) \/ redirect(i) \/ addr_handler(i) \/ cma_work_handler(i)
    PROVE  RetInv'
  BY <1>6 DEF ib_cm_event, redirect, addr_handler, cma_work_handler, Queue, RetInv
<1>7. ASSUME NEW i \in Ids, srp_ib_cm_handler(i) \/ srp_rdma_cm_handler(i)
    PROVE  RetInv'
  BY <1>7, Handling, Zenon DEF RetInv
<1> QED BY <1>1, <1>2, <1>3, <1>4, <1>5, <1>6, <1>7, Zenon DEF Step, Tasks,
        ThreadStep, CmStep, Ids

\* Every step leaves somebody waiting for the path record query.
LEMMA QueryKept ==
  ASSUME TypeInv, ControlInv, IdInv, IbInv, QueryInv, Step, UNCHANGED env
  PROVE  QueryInv'
<1>1. CASE srp_create_target \/ srp_rport_reconnect \/ srp_remove_target \/
           scan_done \/ srp_add_target \/
           srp_add_target_error \/ srp_new_cm_id_error \/ srp_new_ib_cm_id \/
           rdma_resolve_addr \/ srp_new_rdma_cm_id \/ ib_destroy_cm_id \/
           srp_create_ch_ib_error \/ srp_create_ch_ib_first \/ srp_destroy_qp
           \/ srp_create_ch_ib \/ srp_free_ch_ib_cm_id \/ srp_free_ch_ib \/
           srp_lookup_path_error \/ path_found \/ srp_send_req \/
           srp_send_req_error \/ login_interrupted \/ login_succeeded \/
           login_refused \/ srp_tl_err_work
  BY <1>1 DEF srp_create_target, srp_rport_reconnect, srp_remove_target,
              scan_done, srp_add_target,
              srp_add_target_error, srp_new_cm_id_error, srp_new_ib_cm_id,
              rdma_resolve_addr, srp_new_rdma_cm_id, ib_destroy_cm_id,
              srp_create_ch_ib_error, srp_create_ch_ib_first, srp_destroy_qp,
              srp_create_ch_ib, srp_free_ch_ib_cm_id, srp_free_ch_ib,
              srp_lookup_path_error, path_found, srp_send_req,
              srp_send_req_error, login_interrupted, login_succeeded,
              login_refused, srp_tl_err_work, AfterNewCmId, AfterCreateChIb,
              NewQp, LoginFailed, QueryInv
<1>2. CASE srp_lookup_path
  BY <1>2 DEF srp_lookup_path, TypeInv, ThreadTypes, QueryInv
<1>3. CASE lookup_interrupted
  BY <1>3 DEF lookup_interrupted, LoginFailed, TypeInv, ThreadTypes, QueryInv
<1>4. CASE last_wr_completion
  BY <1>4 DEF last_wr_completion, ControlInv, QueryInv
<1>5. CASE srp_path_rec_completion
  BY <1>5 DEF srp_path_rec_completion, TypeInv, ThreadTypes, QueryInv
<1>6. CASE Waits
  BY <1>6 DEF Waits, Woken, TypeInv, ThreadTypes, QueryInv
<1>7. ASSUME NEW i \in Ids,
         ib_cm_event(i) \/ redirect(i) \/ addr_handler(i) \/ cma_work_handler(i)
    PROVE  QueryInv'
  BY <1>7 DEF ib_cm_event, redirect, addr_handler, cma_work_handler, Queue,
            QueryInv
<1>8. ASSUME NEW i \in Ids, srp_ib_cm_handler(i) \/ srp_rdma_cm_handler(i)
    PROVE  QueryInv'
  <2>1. ASSUME ~using_rdma_cm, pc = "wait_path"
        PROVE  FALSE
    BY <1>8, <2>1, Handling, Zenon DEF IdInv, Gone, IbInv, IbQuiet, Ids
  <2> QED BY <1>8, <2>1, Handling, Zenon DEF QueryInv
<1> QED BY <1>1, <1>2, <1>3, <1>4, <1>5, <1>6, <1>7, <1>8, Zenon DEF Step,
        Tasks, ThreadStep, CmStep, Ids

\* Every completion of ch->done during srp_destroy_qp() is that of the last
\* receive work request.
LEMMA DrainKept ==
  ASSUME TypeInv, ControlInv, IdInv, QueryInv, IbInv, RetInv, RdmaInv,
         DrainInv, Step, UNCHANGED env
  PROVE  DrainInv'
<1>1. CASE srp_create_target \/ scan_done \/ srp_add_target \/
           srp_add_target_error \/ srp_new_cm_id_error \/
           srp_new_ib_cm_id \/ srp_new_rdma_cm_id \/ ib_destroy_cm_id \/
           srp_create_ch_ib_error \/ srp_create_ch_ib_first \/
           srp_free_ch_ib_cm_id \/ lookup_interrupted \/ path_found \/
           login_interrupted \/ login_succeeded \/ login_refused \/
           srp_tl_err_work
  BY <1>1, Zenon DEF srp_create_target, scan_done, srp_add_target,
              srp_add_target_error, srp_new_cm_id_error,
              srp_new_ib_cm_id, srp_new_rdma_cm_id, ib_destroy_cm_id,
              srp_create_ch_ib_error, srp_create_ch_ib_first,
              srp_free_ch_ib_cm_id, lookup_interrupted, path_found,
              login_interrupted, login_succeeded, login_refused,
              srp_tl_err_work, AfterNewCmId, AfterCreateChIb, NewQp,
              LoginFailed, DrainInv
<1>2. CASE srp_rport_reconnect
  BY <1>2 DEF srp_rport_reconnect, TypeInv, ThreadTypes, DrainInv, ControlInv
<1>3. CASE srp_remove_target
  BY <1>3 DEF srp_remove_target, TypeInv, ThreadTypes, DrainInv, ControlInv
<1>4. CASE rdma_resolve_addr
  BY <1>4 DEF rdma_resolve_addr, TypeInv, ThreadTypes, DrainInv, ControlInv
<1>5. CASE srp_destroy_qp
  BY <1>5 DEF srp_destroy_qp, TypeInv, ThreadTypes, DrainInv, ControlInv
<1>6. CASE srp_create_ch_ib
  BY <1>6 DEF srp_create_ch_ib, AfterCreateChIb, NewQp, TypeInv, ThreadTypes,
              DrainInv, ControlInv
<1>7. CASE srp_free_ch_ib
  BY <1>7 DEF srp_free_ch_ib, TypeInv, ThreadTypes, DrainInv, ControlInv
<1>8. CASE srp_lookup_path
  BY <1>8 DEF srp_lookup_path, TypeInv, ThreadTypes, DrainInv, ControlInv
<1>9. CASE srp_lookup_path_error
  BY <1>9 DEF srp_lookup_path_error, LoginFailed, TypeInv, ThreadTypes,
              DrainInv, ControlInv
<1>10. CASE srp_send_req
  BY <1>10 DEF srp_send_req, TypeInv, ThreadTypes, DrainInv, ControlInv
<1>11. CASE srp_send_req_error
  BY <1>11 DEF srp_send_req_error, LoginFailed, TypeInv, ThreadTypes, DrainInv,
               ControlInv
<1>12. CASE last_wr_completion
  BY <1>12 DEF last_wr_completion, TypeInv, ThreadTypes, DrainInv, ControlInv
<1>13. CASE srp_path_rec_completion
  BY <1>13 DEF srp_path_rec_completion, QueryInv, DrainInv, ControlInv
<1>14. CASE Waits
  BY <1>14, Zenon DEF Waits, Woken, DrainInv, ControlInv
<1>15. ASSUME NEW i \in Ids,
         ib_cm_event(i) \/ redirect(i) \/ addr_handler(i) \/ cma_work_handler(i)
    PROVE  DrainInv'
  BY <1>15, Zenon DEF ib_cm_event, redirect, addr_handler, cma_work_handler, Queue,
                   DrainInv
<1>16. ASSUME NEW i \in Ids, srp_ib_cm_handler(i) \/ srp_rdma_cm_handler(i)
    PROVE  DrainInv'
  <2>1. ASSUME env \subseteq {"short_timewait"}, last_wr
        PROVE  FALSE
    <3>1. pc = "wait_last_wr" /\ i = "cur" /\ op # "free"
      BY <1>16, <2>1, Handling, Zenon DEF ControlInv, IdInv, Gone, Ids
    <3>2. ret = "ok"
      BY <2>1, <3>1 DEF RetInv, ControlInv, TypeInv, ThreadTypes
    <3>3. events["cur"] = <<>>
      BY <2>1, <3>1, <3>2 DEF IbInv, IbQuiet, RdmaInv, Calm, RouteInv, RdmaQuiet
    <3> QED BY <1>16, <3>1, <3>3, Handling, Zenon
  <2> QED BY <1>16, <2>1, Handling, Zenon DEF DrainInv
<1> QED BY <1>1, <1>2, <1>3, <1>4, <1>5, <1>6, <1>7, <1>8, <1>9, <1>10, <1>11,
        <1>12, <1>13, <1>14, <1>15, <1>16, Zenon DEF Step, Tasks, ThreadStep,
        CmStep, Ids

\* Every completion of ch->done with status 0 during a login is that of an
\* accepted one.
LEMMA AcceptKept ==
  ASSUME TypeInv, ControlInv, IdInv, QueryInv, RdmaInv, AcceptInv, Step,
         UNCHANGED env
  PROVE  AcceptInv'
<1>1. CASE srp_create_target \/ srp_rport_reconnect \/ srp_remove_target \/
           scan_done \/ srp_add_target \/
           srp_add_target_error \/ srp_new_cm_id_error \/ srp_new_ib_cm_id \/
           rdma_resolve_addr \/ srp_new_rdma_cm_id \/ ib_destroy_cm_id \/
           srp_create_ch_ib_error \/ srp_create_ch_ib_first \/ srp_destroy_qp
           \/ srp_create_ch_ib \/ srp_free_ch_ib_cm_id \/ srp_free_ch_ib \/
           srp_lookup_path \/ srp_lookup_path_error \/ lookup_interrupted \/
           path_found \/ srp_send_req_error \/ login_interrupted \/
           login_succeeded \/ login_refused \/ srp_tl_err_work
  BY <1>1 DEF srp_create_target, srp_rport_reconnect, srp_remove_target,
              scan_done, srp_add_target,
              srp_add_target_error, srp_new_cm_id_error, srp_new_ib_cm_id,
              rdma_resolve_addr, srp_new_rdma_cm_id, ib_destroy_cm_id,
              srp_create_ch_ib_error, srp_create_ch_ib_first, srp_destroy_qp,
              srp_create_ch_ib, srp_free_ch_ib_cm_id, srp_free_ch_ib,
              srp_lookup_path, srp_lookup_path_error, lookup_interrupted,
              path_found, srp_send_req_error, login_interrupted,
              login_succeeded, login_refused, srp_tl_err_work, AfterNewCmId,
              AfterCreateChIb, NewQp, LoginFailed, AcceptInv
<1>2. CASE srp_send_req
  BY <1>2 DEF srp_send_req, TypeInv, ThreadTypes, AcceptInv
<1>3. CASE last_wr_completion
  BY <1>3 DEF last_wr_completion, ControlInv, AcceptInv
<1>4. CASE srp_path_rec_completion
  BY <1>4 DEF srp_path_rec_completion, AcceptInv, QueryInv
<1>5. CASE Waits
  BY <1>5 DEF Waits, Woken, TypeInv, ThreadTypes, AcceptInv
<1>6. ASSUME NEW i \in Ids,
         ib_cm_event(i) \/ redirect(i) \/ addr_handler(i) \/ cma_work_handler(i)
    PROVE  AcceptInv'
  BY <1>6 DEF ib_cm_event, redirect, addr_handler, cma_work_handler, Queue,
            AcceptInv
<1>7. ASSUME NEW i \in Ids, srp_ib_cm_handler(i) \/ srp_rdma_cm_handler(i)
    PROVE  AcceptInv'
  <2>1. ASSUME env \subseteq {"cm_id_failure"}, pc \in {"wait_login", "login"},
               ~UNCHANGED wait, status' = "ok"
        PROVE  accepted'
    <3>1. i = "cur" /\ ~connected
      BY <1>7, <2>1, Handling, Zenon DEF ControlInv, IdInv, Gone, Ids
    <3>2. CASE srp_ib_cm_handler(i)
      BY <2>1, <3>2 DEF srp_ib_cm_handler, Handles, Complete, req_error, srp_cm_rep_handler,
                        srp_ib_cm_rej_handler
    <3>3. CASE srp_rdma_cm_handler(i)
      <4>1. \A n \in 1..Len(events["cur"]) : events["cur"][n] \notin LookupEvents
        BY <2>1, <3>3 DEF srp_rdma_cm_handler, RdmaInv, Calm, RouteInv
      <4>2. events["cur"] \in Seq(Events) /\ events["cur"] # <<>>
        BY <1>7, <3>1, Handling, Zenon DEF TypeInv, IdTypes, Ids
      <4>3. Head(events[i]) \notin {"ADDR_RESOLVED", "ROUTE_RESOLVED"}
        BY <3>1, <4>1, <4>2 DEF LookupEvents
      <4> QED BY <2>1, <3>1, <3>3, <4>3 DEF srp_rdma_cm_handler, Handles, Complete,
              req_error, cma_rep_recv, disconnected
    <3> QED BY <1>7, <3>2, <3>3
  <2> QED BY <1>7, <2>1, Handling, Zenon DEF AcceptInv
<1> QED BY <1>1, <1>2, <1>3, <1>4, <1>5, <1>6, <1>7, Zenon DEF Step, Tasks,
        ThreadStep, CmStep, Ids

\* Every step keeps the types of the other variables, the CM IDs left aside.
LEMMA ThreadTypesKept ==
  ASSUME TypeInv, ControlInv, IdInv, Step, UNCHANGED env
  PROVE  ThreadTypes'
<1>1. CASE srp_create_target \/ scan_done \/ srp_add_target \/
           srp_add_target_error \/ srp_new_cm_id_error \/
           srp_new_ib_cm_id \/ rdma_resolve_addr \/ srp_new_rdma_cm_id \/
           ib_destroy_cm_id \/ srp_create_ch_ib_error \/
           srp_create_ch_ib_first \/ srp_destroy_qp \/ srp_create_ch_ib \/
           srp_free_ch_ib_cm_id \/ srp_free_ch_ib \/ srp_lookup_path \/
           srp_lookup_path_error \/ lookup_interrupted \/ path_found \/
           srp_send_req \/ srp_send_req_error \/ login_interrupted \/
           login_succeeded \/ login_refused \/ last_wr_completion \/
           srp_path_rec_completion \/ srp_tl_err_work \/ Waits
  BY <1>1 DEF srp_create_target, scan_done, srp_add_target,
              srp_add_target_error, srp_new_cm_id_error,
              srp_new_ib_cm_id, rdma_resolve_addr, srp_new_rdma_cm_id,
              ib_destroy_cm_id, srp_create_ch_ib_error, srp_create_ch_ib_first,
              srp_destroy_qp, srp_create_ch_ib, srp_free_ch_ib_cm_id,
              srp_free_ch_ib, srp_lookup_path, srp_lookup_path_error,
              lookup_interrupted, path_found, srp_send_req, srp_send_req_error,
              login_interrupted, login_succeeded, login_refused,
              last_wr_completion, srp_path_rec_completion, srp_tl_err_work,
              Waits, AfterNewCmId, AfterCreateChIb, NewQp, LoginFailed, Woken,
              TypeInv, ThreadTypes, Labels, Statuses
<1>2. CASE srp_rport_reconnect
  <2>1. qp' \in {"none", "init", "rts", "err"}
    BY <1>2, Disconnects DEF srp_rport_reconnect
  <2>2. reconnects' \in 0..MaxReconnects
    BY <1>2, LoginConstants DEF srp_rport_reconnect, TypeInv, ThreadTypes
  <2> QED BY <1>2, <2>1, <2>2 DEF srp_rport_reconnect, TypeInv, ThreadTypes, Labels
<1>3. CASE srp_remove_target
  BY <1>3, Disconnects, Zenon DEF srp_remove_target, TypeInv, ThreadTypes, Labels,
                        Statuses
<1>4. ASSUME NEW i \in Ids,
         ib_cm_event(i) \/ redirect(i) \/ addr_handler(i) \/ cma_work_handler(i)
    PROVE  ThreadTypes'
  BY <1>4, Arrival DEF ib_cm_event, redirect, addr_handler, cma_work_handler,
                     Queue, TypeInv, ThreadTypes
<1>5. ASSUME NEW i \in Ids, srp_ib_cm_handler(i) \/ srp_rdma_cm_handler(i)
    PROVE  ThreadTypes'
  <2>1. /\ UNCHANGED <<phase, thread, queries, reconnects>> /\ status' \in Statuses
        /\ qp' \in {"none", "init", "rts", "err"} /\ done' \in {done, done + 1}
    BY <1>5, Handling, Zenon
  <2> QED BY <2>1 DEF TypeInv, ThreadTypes
<1> QED BY <1>1, <1>2, <1>3, <1>4, <1>5, Zenon DEF Step, Tasks, ThreadStep,
        CmStep, Ids

\* Every step leaves the thread where its task has to be.
LEMMA ControlKept ==
  ASSUME TypeInv, ControlInv, IdInv, Step, UNCHANGED env
  PROVE  ControlInv'
<1>1. CASE srp_create_target
  BY <1>1 DEF srp_create_target, TypeInv, ThreadTypes, ControlInv
<1>2. CASE srp_rport_reconnect
  BY <1>2, Disconnects, Zenon DEF srp_rport_reconnect, TypeInv, ThreadTypes, ControlInv
<1>3. CASE srp_remove_target
  BY <1>3, Disconnects, Zenon DEF srp_remove_target, TypeInv, ThreadTypes, ControlInv
<1>4. CASE scan_done \/ srp_add_target \/ srp_add_target_error
  BY <1>4 DEF scan_done, srp_add_target,
              srp_add_target_error, TypeInv, ThreadTypes, ControlInv
<1>5. CASE srp_new_cm_id_error
  BY <1>5 DEF srp_new_cm_id_error, AfterNewCmId, TypeInv, ThreadTypes,
              ControlInv
<1>6. CASE srp_new_ib_cm_id
  BY <1>6 DEF srp_new_ib_cm_id, TypeInv, ThreadTypes, ControlInv
<1>7. CASE rdma_resolve_addr
  BY <1>7 DEF rdma_resolve_addr, TypeInv, ThreadTypes, ControlInv
<1>8. CASE srp_new_rdma_cm_id
  BY <1>8 DEF srp_new_rdma_cm_id, TypeInv, ThreadTypes, ControlInv
<1>9. CASE ib_destroy_cm_id
  BY <1>9 DEF ib_destroy_cm_id, AfterNewCmId, TypeInv, ThreadTypes, ControlInv
<1>10. CASE srp_create_ch_ib_error
  BY <1>10 DEF srp_create_ch_ib_error, AfterCreateChIb, TypeInv, ThreadTypes,
               ControlInv
<1>11. CASE srp_create_ch_ib_first
  BY <1>11 DEF srp_create_ch_ib_first, AfterCreateChIb, NewQp, TypeInv,
               ThreadTypes, ControlInv
<1>12. CASE srp_destroy_qp
  BY <1>12 DEF srp_destroy_qp, TypeInv, ThreadTypes, ControlInv
<1>13. CASE srp_create_ch_ib
  BY <1>13 DEF srp_create_ch_ib, AfterCreateChIb, NewQp, TypeInv, ThreadTypes,
               ControlInv
<1>14. CASE srp_free_ch_ib_cm_id
  BY <1>14 DEF srp_free_ch_ib_cm_id, TypeInv, ThreadTypes, ControlInv
<1>15. CASE srp_free_ch_ib
  BY <1>15 DEF srp_free_ch_ib, TypeInv, ThreadTypes, ControlInv
<1>16. CASE srp_lookup_path
  BY <1>16 DEF srp_lookup_path, TypeInv, ThreadTypes, ControlInv
<1>17. CASE srp_lookup_path_error
  BY <1>17 DEF srp_lookup_path_error, LoginFailed, TypeInv, ThreadTypes,
               ControlInv
<1>18. CASE lookup_interrupted
  BY <1>18 DEF lookup_interrupted, LoginFailed, TypeInv, ThreadTypes, ControlInv
<1>19. CASE path_found
  BY <1>19 DEF path_found, LoginFailed, TypeInv, ThreadTypes, ControlInv
<1>20. CASE srp_send_req
  BY <1>20 DEF srp_send_req, TypeInv, ThreadTypes, ControlInv
<1>21. CASE srp_send_req_error
  BY <1>21 DEF srp_send_req_error, LoginFailed, TypeInv, ThreadTypes, ControlInv
<1>22. CASE login_interrupted
  BY <1>22 DEF login_interrupted, LoginFailed, TypeInv, ThreadTypes, ControlInv
<1>23. CASE login_succeeded
  BY <1>23 DEF login_succeeded, TypeInv, ThreadTypes, ControlInv
<1>24. CASE login_refused
  BY <1>24 DEF login_refused, LoginFailed, TypeInv, ThreadTypes, ControlInv
<1>25. CASE last_wr_completion
  BY <1>25 DEF last_wr_completion, TypeInv, ThreadTypes, ControlInv
<1>26. CASE srp_path_rec_completion
  BY <1>26 DEF srp_path_rec_completion, TypeInv, ThreadTypes, ControlInv
<1>27. CASE srp_tl_err_work
  BY <1>27 DEF srp_tl_err_work, TypeInv, ThreadTypes, ControlInv
<1>28. CASE Waits
  BY <1>28 DEF Waits, Woken, TypeInv, ThreadTypes, ControlInv
<1>29. ASSUME NEW i \in Ids,
         ib_cm_event(i) \/ redirect(i) \/ addr_handler(i) \/ cma_work_handler(i)
    PROVE  ControlInv'
  BY <1>29 DEF ib_cm_event, redirect, addr_handler, cma_work_handler, Queue,
            ControlInv
<1>30. ASSUME NEW i \in Ids, srp_ib_cm_handler(i) \/ srp_rdma_cm_handler(i)
    PROVE  ControlInv'
  BY <1>30, Handling, Zenon DEF ControlInv
<1> QED BY <1>1, <1>2, <1>3, <1>4, <1>5, <1>6, <1>7, <1>8, <1>9, <1>10, <1>11,
        <1>12, <1>13, <1>14, <1>15, <1>16, <1>17, <1>18, <1>19, <1>20, <1>21,
        <1>22, <1>23, <1>24, <1>25, <1>26, <1>27, <1>28, <1>29, <1>30, Zenon
        DEF Step, Tasks, ThreadStep, CmStep, Ids

\* Every step keeps track of the CM IDs that exist.
LEMMA IdKept ==
  ASSUME TypeInv, ControlInv, IdInv, Step, UNCHANGED env
  PROVE  IdInv'
<1>1. CASE srp_create_target \/ scan_done \/ srp_add_target \/
           srp_add_target_error \/ srp_new_cm_id_error \/
           srp_create_ch_ib_error \/ srp_create_ch_ib_first \/ srp_destroy_qp
           \/ srp_create_ch_ib \/ srp_free_ch_ib \/ srp_lookup_path_error \/
           lookup_interrupted \/ path_found \/ srp_send_req_error \/
           login_interrupted \/ login_succeeded \/ login_refused \/
           last_wr_completion \/ srp_path_rec_completion \/ srp_tl_err_work \/
           Waits
  BY <1>1 DEF srp_create_target, scan_done, srp_add_target,
              srp_add_target_error, srp_new_cm_id_error,
              srp_create_ch_ib_error, srp_create_ch_ib_first, srp_destroy_qp,
              srp_create_ch_ib, srp_free_ch_ib, srp_lookup_path_error,
              lookup_interrupted, path_found, srp_send_req_error,
              login_interrupted, login_succeeded, login_refused,
              last_wr_completion, srp_path_rec_completion, srp_tl_err_work,
              Waits, AfterNewCmId, AfterCreateChIb, NewQp, LoginFailed, Woken,
              TypeInv, ThreadTypes, ControlInv, IdInv, Gone
<1>2. CASE srp_rport_reconnect
  BY <1>2, Disconnects DEF srp_rport_reconnect, ControlInv, IdInv, Gone, NoId
<1>3. CASE srp_remove_target
  BY <1>3, Disconnects DEF srp_remove_target, ControlInv, IdInv, Gone, NoId
<1>4. CASE srp_new_ib_cm_id
  BY <1>4, Installs DEF srp_new_ib_cm_id, ControlInv, IdInv, Gone
<1>5. CASE rdma_resolve_addr
  BY <1>5 DEF rdma_resolve_addr, TypeInv, IdTypes, Ids, ControlInv, IdInv, Gone
<1>6. CASE srp_new_rdma_cm_id
  <2>1. /\ cm["cur"] \in CmIds /\ events["cur"] \in Seq(Events)
        /\ cm["other"] \in CmIds /\ events["other"] \in Seq(Events)
    BY DEF TypeInv, IdTypes, Ids
  <2> QED BY <1>6, <2>1, Replaced DEF srp_new_rdma_cm_id, ControlInv, IdInv, Gone, Ids
<1>7. CASE ib_destroy_cm_id
  BY <1>7 DEF ib_destroy_cm_id, AfterNewCmId, TypeInv, IdTypes, Ids, ControlInv,
           IdInv, Gone
<1>8. CASE srp_free_ch_ib_cm_id
  BY <1>8, Installs DEF srp_free_ch_ib_cm_id, ControlInv, IdInv, Gone
<1>9. CASE srp_lookup_path
  BY <1>9 DEF srp_lookup_path, TypeInv, IdTypes, Ids, ControlInv, IdInv, Gone
<1>10. CASE srp_send_req
  BY <1>10 DEF srp_send_req, TypeInv, IdTypes, Ids, ControlInv, IdInv, Gone
<1>11. ASSUME NEW i \in Ids,
         ib_cm_event(i) \/ redirect(i) \/ addr_handler(i) \/ cma_work_handler(i)
    PROVE  IdInv'
  BY <1>11, Arrival, SMTT(20) DEF ib_cm_event, redirect, addr_handler, cma_work_handler,
                     Queue, ControlInv, IdInv, Gone, NoId, Ids
<1>12. ASSUME NEW i \in Ids, srp_ib_cm_handler(i) \/ srp_rdma_cm_handler(i)
    PROVE  IdInv'
  BY <1>12, Handling, Zenon DEF ControlInv, IdInv, Gone, NoId, Ids
<1> QED BY <1>1, <1>2, <1>3, <1>4, <1>5, <1>6, <1>7, <1>8, <1>9, <1>10, <1>11,
        <1>12, Zenon DEF Step, Tasks, ThreadStep, CmStep, Ids

\* Every step leaves the CM ID silent where the thread relies on it.
LEMMA IbKept ==
  ASSUME TypeInv, ControlInv, IdInv, QueryInv, IbInv, RetInv, Step, UNCHANGED
         env
  PROVE  IbInv'
<1>1. CASE srp_create_target \/ scan_done \/ srp_add_target \/
           srp_add_target_error \/ srp_new_cm_id_error \/
           srp_create_ch_ib_error \/ srp_create_ch_ib_first \/ srp_destroy_qp
           \/ srp_create_ch_ib \/ srp_free_ch_ib \/ srp_lookup_path_error \/
           lookup_interrupted \/ path_found \/ srp_send_req_error \/
           login_interrupted \/ login_succeeded \/ login_refused \/
           last_wr_completion \/ srp_path_rec_completion \/ srp_tl_err_work \/
           Waits
  BY <1>1 DEF srp_create_target, scan_done, srp_add_target,
              srp_add_target_error, srp_new_cm_id_error,
              srp_create_ch_ib_error, srp_create_ch_ib_first, srp_destroy_qp,
              srp_create_ch_ib, srp_free_ch_ib, srp_lookup_path_error,
              lookup_interrupted, path_found, srp_send_req_error,
              login_interrupted, login_succeeded, login_refused,
              last_wr_completion, srp_path_rec_completion, srp_tl_err_work,
              Waits, AfterNewCmId, AfterCreateChIb, NewQp, LoginFailed, Woken,
              TypeInv, ThreadTypes, ControlInv, IbInv, IbQuiet, Redirected
<1>2. CASE srp_rport_reconnect
  BY <1>2, Disconnects DEF srp_rport_reconnect, ControlInv, IbInv, IbQuiet,
                        Redirected
<1>3. CASE srp_remove_target
  BY <1>3, Disconnects DEF srp_remove_target, ControlInv, IbInv, IbQuiet,
                        Redirected
<1>4. CASE srp_new_ib_cm_id
  BY <1>4, Installs DEF srp_new_ib_cm_id, NewIbCmId, ControlInv, IbInv, IbQuiet,
                     Redirected
<1>5. CASE rdma_resolve_addr
  BY <1>5 DEF rdma_resolve_addr, IbInv
<1>6. CASE srp_new_rdma_cm_id
  BY <1>6 DEF srp_new_rdma_cm_id, ControlInv, IbInv
<1>7. CASE ib_destroy_cm_id
  BY <1>7 DEF ib_destroy_cm_id, AfterNewCmId, TypeInv, ThreadTypes, ControlInv,
              IbInv, IbQuiet, Redirected
<1>8. CASE srp_free_ch_ib_cm_id
  BY <1>8, Installs DEF srp_free_ch_ib_cm_id, NoId, ControlInv, IbInv, IbQuiet,
                     Redirected
<1>9. CASE srp_lookup_path
  BY <1>9 DEF srp_lookup_path, TypeInv, ThreadTypes, ControlInv, IbInv,
               IbQuiet, Redirected
<1>10. CASE srp_send_req
  <2> SUFFICES ASSUME ~using_rdma_cm PROVE IbInv'
    BY <1>10 DEF srp_send_req, IbInv
  <2>1. events'["cur"] = <<>> /\ pc' = "wait_login" /\ done' = 0
    BY <1>10 DEF srp_send_req, IbInv, IbQuiet
  <2>2. cm'["cur"].rdma = cm["cur"].rdma
    BY <1>10 DEF srp_send_req, TypeInv, IdTypes, Ids, CmIds
  <2> QED BY <2>1, <2>2 DEF IbInv
<1>11. ASSUME NEW i \in Ids,
         ib_cm_event(i) \/ redirect(i) \/ addr_handler(i) \/ cma_work_handler(i)
    PROVE  IbInv'
  <2> SUFFICES ASSUME ~using_rdma_cm PROVE IbInv'
    BY <1>11 DEF ib_cm_event, redirect, addr_handler, cma_work_handler, Queue, IbInv
  <2>0. /\ UNCHANGED <<using_rdma_cm, pc, op, ret, done, status>>
        /\ events["cur"] \in Seq(Events) /\ cm["cur"] \in CmIds
        /\ cm \in [Ids -> CmIds] /\ events \in [Ids -> Seq(Events)]
    BY <1>11 DEF ib_cm_event, redirect, addr_handler, cma_work_handler, Queue, TypeInv,
              IdTypes, Ids
  <2>1. CASE i = "other"
    <3>1. cm'["cur"] = cm["cur"] /\ events'["cur"] = events["cur"]
      BY <1>11, <2>1, Arrival DEF Ids
    <3> QED BY <2>0, <3>1 DEF IbInv, IbQuiet
  <2>2. CASE i = "cur"
    <3>1. ib_cm_event(i) \/ redirect(i)
      BY <1>11, <2>2 DEF addr_handler, cma_work_handler, IbInv
    <3>2. PICK e \in Events :
            /\ events'["cur"] = Append(events["cur"], e) /\ cm["cur"].ib # "idle"
            /\ cm'["cur"].rdma = "none" /\ (e = "REDIRECT" => cm'["cur"].ib = "idle")
      <4>1. CASE ib_cm_event(i)
        <5>1. PICK x \in CmIndications :
                x[1] = cm[i].ib /\ Queue(i, [cm[i] EXCEPT !.ib = x[3]], x[2])
          BY <4>1 DEF ib_cm_event
        <5>2. x[1] # "idle" /\ x[2] \in Events /\ x[2] # "REDIRECT"
          BY DEF CmIndications, CmSendErrors, CmRepReceived, CmRejReceived,
              CmDreqReceived, CmDrepReceived, CmTimewaitExit, Events, CmEvents
        <5> QED BY <2>0, <2>2, <5>1, <5>2 DEF Queue, IbInv, CmIds
      <4>2. CASE redirect(i)
        BY <2>0, <2>2, <4>2 DEF redirect, Queue, IbInv, CmIds, Events
      <4> QED BY <3>1, <4>1, <4>2
    <3>3. \A n \in 1..Len(events["cur"]) : events["cur"][n] # "REDIRECT"
      BY <3>2 DEF IbInv
    <3>4. \A n \in 1..Len(events'["cur"]) : events'["cur"][n] = "REDIRECT" =>
            n = Len(events'["cur"]) /\ cm'["cur"].ib = "idle"
      BY <2>0, <3>2, <3>3
    <3> QED BY <2>0, <3>2, <3>4 DEF IbInv, IbQuiet
  <2> QED BY <2>1, <2>2 DEF Ids
<1>12. ASSUME NEW i \in Ids, srp_ib_cm_handler(i) \/ srp_rdma_cm_handler(i)
    PROVE  IbInv'
  <2> SUFFICES ASSUME ~using_rdma_cm PROVE IbInv'
    BY <1>12, Handling, Zenon DEF IbInv
  <2>0. /\ UNCHANGED <<using_rdma_cm, pc, op, ret>>
        /\ events["cur"] \in Seq(Events) /\ cm["cur"] \in CmIds
        /\ cm \in [Ids -> CmIds]
    BY <1>12, Handling, Zenon DEF TypeInv, IdTypes, Ids
  <2>1. CASE i = "other"
    <3>1. /\ cm'["cur"] = cm["cur"] /\ events'["cur"] = events["cur"]
          /\ events["other"] # <<>>
      BY <1>12, <2>1, Handling, Zenon DEF Ids
    <3> QED BY <2>0, <3>1 DEF IbInv, IbQuiet, IdInv, Gone
  <2>2. CASE i = "cur"
    <3>1. events["cur"] # <<>> /\ events'["cur"] = Tail(events["cur"])
      BY <1>12, <2>2, Handling, Zenon
    <3>2. PICK e \in Events : e = Head(events["cur"]) /\ Handles(i, e)
      BY <1>12, <2>2 DEF srp_ib_cm_handler, srp_rdma_cm_handler, Handles, Events
    <3>3. /\ cm'["cur"].rdma = cm["cur"].rdma
          /\ cm["cur"].ib = "idle" => cm'["cur"].ib = "idle"
      BY <1>12, <2>0, <2>2 DEF srp_ib_cm_handler, srp_rdma_cm_handler, srp_cm_rep_handler,
         dreq_received, CmSendRtu, CmSendDrep, After, CmIds
    <3>4. status' \in Redirected => e = "REDIRECT" \/ UNCHANGED wait
      BY <1>12, <2>2, <3>2 DEF srp_ib_cm_handler, srp_rdma_cm_handler, srp_cm_rep_handler,
         srp_ib_cm_rej_handler, req_error, Complete, Handles, Redirected
    <3>5. e = "REDIRECT" => cm["cur"].ib = "idle" /\ Tail(events["cur"]) = <<>>
      BY <2>0, <3>1, <3>2 DEF IbInv
    <3>6. \A n \in 1..Len(events'["cur"]) : events'["cur"][n] = "REDIRECT" =>
            n = Len(events'["cur"]) /\ cm'["cur"].ib = "idle"
      BY <2>0, <3>1, <3>3 DEF IbInv
    <3> QED BY <2>0, <3>1, <3>3, <3>4, <3>5, <3>6 DEF IbInv, IbQuiet
  <2> QED BY <2>1, <2>2 DEF Ids
<1> QED BY <1>1, <1>2, <1>3, <1>4, <1>5, <1>6, <1>7, <1>8, <1>9, <1>10, <1>11,
        <1>12, Zenon DEF Step, Tasks, ThreadStep, CmStep, Ids

\* The event of a lookup completes ch->done with the outcome of the lookup.
LEMMA LookupEnds ==
  ASSUME NEW i \in Ids, srp_rdma_cm_handler(i), Head(events[i]) \in LookupEvents
  PROVE  /\ UNCHANGED cm /\ done' = done + 1
         /\ Head(events[i]) \in {"ADDR_RESOLVED", "ROUTE_RESOLVED"} => status' = "ok"
         /\ Head(events[i]) \in {"ADDR_ERROR", "ROUTE_ERROR"} => status' = "err"
<1> DEFINE e == Head(events[i])
<1>1. \/ Dropped(i, e)
      \/ e \in {"ADDR_RESOLVED", "ROUTE_RESOLVED"} /\ Complete("ok") /\ UNCHANGED cm
      \/ e \in {"ADDR_ERROR", "ROUTE_ERROR"} /\ Complete("err") /\ UNCHANGED cm
      \/ e \in CmEvents \cup {"REDIRECT"}
  BY SMTT(20) DEF srp_rdma_cm_handler, Handles, CmEvents
<1>2. e \notin CmEvents \cup {"REDIRECT"}
  BY DEF LookupEvents, CmEvents
<1> QED BY <1>1, <1>2 DEF Dropped, Complete

\* Every step keeps track of the lookups of the RDMA CM.
LEMMA RdmaKept ==
  ASSUME TypeInv, ControlInv, IdInv, QueryInv, RetInv, RdmaInv, Step,
         UNCHANGED env
  PROVE  RdmaInv'
<1>1. CASE srp_create_target
  BY <1>1 DEF srp_create_target, TypeInv, ThreadTypes, ControlInv, RdmaInv,
              Redirected, Calm, AddrInv, RouteInv, RdmaQuiet, MayFail
<1>2. CASE srp_rport_reconnect
  BY <1>2 DEF srp_rport_reconnect, ControlInv, RdmaInv, Redirected, Calm, AddrInv,
           RouteInv, RdmaQuiet, MayFail
<1>3. CASE srp_remove_target
  BY <1>3 DEF srp_remove_target, ControlInv, RdmaInv, Redirected, Calm, AddrInv,
           RouteInv, RdmaQuiet, MayFail
<1>4. CASE scan_done \/ srp_add_target \/ srp_add_target_error
  BY <1>4 DEF scan_done, srp_add_target,
              srp_add_target_error, TypeInv, ThreadTypes, ControlInv, RdmaInv, Redirected,
              Calm, AddrInv, RouteInv, RdmaQuiet, MayFail
<1>5. CASE srp_new_cm_id_error
  BY <1>5 DEF srp_new_cm_id_error, AfterNewCmId, TypeInv, ThreadTypes,
              ControlInv, RdmaInv, Redirected, Calm, AddrInv, RouteInv,
              RdmaQuiet, MayFail
<1>6. CASE srp_new_ib_cm_id
  BY <1>6 DEF srp_new_ib_cm_id, RdmaInv
<1>7. CASE rdma_resolve_addr
  <2> SUFFICES ASSUME using_rdma_cm, Calm
               PROVE  AddrInv' /\ RouteInv'
    BY <1>7 DEF rdma_resolve_addr, RdmaInv, Redirected, Calm
  <2>1. cm'["other"] = NewRdmaCmId /\ events'["other"] = <<>> /\ done' = 0
    BY <1>7 DEF rdma_resolve_addr, IdInv, Gone, TypeInv, IdTypes, Ids
  <2> QED BY <1>7, <2>1 DEF rdma_resolve_addr, NewRdmaCmId, AddrInv, RouteInv
<1>8. CASE srp_new_rdma_cm_id
  BY <1>8 DEF srp_new_rdma_cm_id, Replace, ControlInv, RdmaInv, Redirected, Calm,
           AddrInv, RouteInv, RdmaQuiet, MayFail, TypeInv, IdTypes, Ids
<1>9. CASE ib_destroy_cm_id
  BY <1>9 DEF ib_destroy_cm_id, AfterNewCmId, ControlInv, RdmaInv, Redirected,
           Calm, AddrInv, RouteInv, RdmaQuiet, MayFail, TypeInv, IdTypes, Ids
<1>10. CASE srp_create_ch_ib_error
  BY <1>10 DEF srp_create_ch_ib_error, AfterCreateChIb, TypeInv, ThreadTypes,
               ControlInv, RdmaInv, Redirected, Calm, AddrInv, RouteInv,
               RdmaQuiet, MayFail
<1>11. CASE srp_create_ch_ib_first
  BY <1>11 DEF srp_create_ch_ib_first, AfterCreateChIb, NewQp, TypeInv,
               ThreadTypes, ControlInv, RdmaInv, Redirected, Calm, AddrInv,
               RouteInv, RdmaQuiet, MayFail
<1>12. CASE srp_destroy_qp
  BY <1>12 DEF srp_destroy_qp, TypeInv, ThreadTypes, ControlInv, RdmaInv,
               Redirected, Calm, AddrInv, RouteInv, RdmaQuiet, MayFail
<1>13. CASE srp_create_ch_ib
  BY <1>13 DEF srp_create_ch_ib, AfterCreateChIb, NewQp, TypeInv, ThreadTypes,
               ControlInv, RdmaInv, Redirected, Calm, AddrInv, RouteInv,
               RdmaQuiet, MayFail
<1>14. CASE srp_free_ch_ib_cm_id
  BY <1>14 DEF srp_free_ch_ib_cm_id, ControlInv, RdmaInv, Redirected, Calm, AddrInv,
           RouteInv, RdmaQuiet, MayFail
<1>15. CASE srp_free_ch_ib
  BY <1>15 DEF srp_free_ch_ib, TypeInv, ThreadTypes, ControlInv, RdmaInv,
               Redirected, Calm, AddrInv, RouteInv, RdmaQuiet, MayFail
<1>16. CASE srp_lookup_path
  <2> SUFFICES ASSUME using_rdma_cm, Calm
               PROVE  AddrInv' /\ RouteInv'
    BY <1>16 DEF srp_lookup_path, RdmaInv, Redirected, Calm
  <2>1. cm'["cur"].rdma = "route_query" /\ cm'["cur"].ib = cm["cur"].ib
    BY <1>16 DEF srp_lookup_path, TypeInv, IdTypes, Ids, CmIds
  <2>2. cm["cur"].ib = "none" /\ events'["cur"] = <<>>
    BY <1>16 DEF srp_lookup_path, RdmaInv, RouteInv, RdmaQuiet, ControlInv
  <2> QED BY <1>16, <2>1, <2>2 DEF srp_lookup_path, AddrInv, RouteInv
<1>17. CASE srp_lookup_path_error
  BY <1>17 DEF srp_lookup_path_error, LoginFailed, TypeInv, ThreadTypes,
               ControlInv, RdmaInv, Redirected, Calm, AddrInv, RouteInv,
               RdmaQuiet, MayFail
<1>18. CASE lookup_interrupted
  BY <1>18 DEF lookup_interrupted, LoginFailed, TypeInv, ThreadTypes,
               ControlInv, RdmaInv, Redirected, Calm, AddrInv, RouteInv,
               RdmaQuiet, MayFail
<1>19. CASE path_found
  BY <1>19 DEF path_found, LoginFailed, TypeInv, ThreadTypes, ControlInv,
               RdmaInv, Redirected, Calm, AddrInv, RouteInv, RdmaQuiet, MayFail
<1>20. CASE srp_send_req
  <2> SUFFICES ASSUME using_rdma_cm, Calm
               PROVE  AddrInv' /\ RouteInv'
    BY <1>20 DEF srp_send_req, RdmaInv, Redirected, Calm
  <2>1. cm'["cur"].rdma = "connect"
    BY <1>20 DEF srp_send_req, TypeInv, IdTypes, Ids, CmIds
  <2>2. events'["cur"] = <<>>
    BY <1>20 DEF srp_send_req, RdmaInv, RouteInv
  <2> QED BY <1>20, <2>1, <2>2 DEF srp_send_req, AddrInv, RouteInv
<1>21. CASE srp_send_req_error
  BY <1>21 DEF srp_send_req_error, LoginFailed, TypeInv, ThreadTypes,
               ControlInv, RdmaInv, Redirected, Calm, AddrInv, RouteInv,
               RdmaQuiet, MayFail
<1>22. CASE login_interrupted
  BY <1>22 DEF login_interrupted, LoginFailed, TypeInv, ThreadTypes, ControlInv,
               RdmaInv, Redirected, Calm, AddrInv, RouteInv, RdmaQuiet, MayFail
<1>23. CASE login_succeeded
  BY <1>23 DEF login_succeeded, TypeInv, ThreadTypes, ControlInv, RdmaInv,
               Redirected, Calm, AddrInv, RouteInv, RdmaQuiet, MayFail
<1>24. CASE login_refused
  BY <1>24 DEF login_refused, LoginFailed, TypeInv, ThreadTypes, ControlInv,
               RdmaInv, Redirected, Calm, AddrInv, RouteInv, RdmaQuiet, MayFail
<1>25. CASE last_wr_completion
  BY <1>25 DEF last_wr_completion, TypeInv, ThreadTypes, ControlInv, RdmaInv,
               Redirected, Calm, AddrInv, RouteInv, RdmaQuiet, MayFail
<1>26. CASE srp_path_rec_completion
  BY <1>26 DEF srp_path_rec_completion, QueryInv, RdmaInv, TypeInv, ThreadTypes
<1>27. CASE srp_tl_err_work
  BY <1>27 DEF srp_tl_err_work, TypeInv, ThreadTypes, ControlInv, RdmaInv,
               Redirected, Calm, AddrInv, RouteInv, RdmaQuiet, MayFail
<1>28. CASE Waits
  <2>1. CASE Woken("wait_addr", "addr")
    BY <2>1, SMTT(20) DEF Woken, RdmaInv, Calm, AddrInv, RouteInv, MayFail
  <2>2. CASE Woken("wait_path", "path")
    <3>1. /\ pc = "wait_path" /\ pc' = "path" /\ done > 0
          /\ UNCHANGED <<using_rdma_cm, op, ret, status, cm, events, env>>
      BY <2>2 DEF Woken
    <3>2. using_rdma_cm /\ Calm => RouteInv'
      BY <3>1, SMTT(20) DEF RdmaInv, Calm, RouteInv
    <3>3. AddrInv'
      BY <3>1 DEF AddrInv
    <3> QED BY <3>1, <3>2, <3>3 DEF RdmaInv, Calm
  <2>3. CASE Woken("wait_login", "login")
    BY <2>3 DEF Woken, RdmaInv, Calm, AddrInv, RouteInv
  <2> QED BY <1>28, <2>1, <2>2, <2>3 DEF Waits
<1>29. ASSUME NEW i \in Ids,
         ib_cm_event(i) \/ redirect(i) \/ addr_handler(i) \/ cma_work_handler(i)
    PROVE  RdmaInv'
  <2> SUFFICES ASSUME using_rdma_cm, Calm
               PROVE  AddrInv' /\ RouteInv'
    BY <1>29, Zenon DEF ib_cm_event, redirect, addr_handler, cma_work_handler, Queue, RdmaInv,
              Redirected, Calm
  <2>0. /\ UNCHANGED <<pc, op, ret, done, status>> /\ AddrInv /\ RouteInv
        /\ cm \in [Ids -> CmIds] /\ events \in [Ids -> Seq(Events)]
        /\ cm[i] \in CmIds /\ events[i] \in Seq(Events)
    BY <1>29, Zenon DEF ib_cm_event, redirect, addr_handler, cma_work_handler, Queue, TypeInv,
              IdTypes, RdmaInv
  <2>1. \A j \in Ids \ {i} : cm'[j] = cm[j] /\ events'[j] = events[j]
    BY <1>29, Arrival
  <2>2. CASE ib_cm_event(i) \/ redirect(i)
    <3>1. PICK e \in CmEvents \cup {"REDIRECT"} :
            /\ events'[i] = Append(events[i], e) /\ cm[i].ib # "none"
            /\ cm'[i].rdma = cm[i].rdma
      <4>1. CASE ib_cm_event(i)
        <5>1. PICK x \in CmIndications :
                x[1] = cm[i].ib /\ Queue(i, [cm[i] EXCEPT !.ib = x[3]], x[2])
          BY <4>1 DEF ib_cm_event
        <5>2. x[1] # "none" /\ x[2] \in CmEvents
          BY DEF CmIndications, CmSendErrors, CmRepReceived, CmRejReceived,
              CmDreqReceived, CmDrepReceived, CmTimewaitExit, CmEvents
        <5> QED BY <2>0, <5>1, <5>2 DEF Queue, CmIds
      <4>2. CASE redirect(i)
        BY <2>0, <4>2 DEF redirect, Queue, CmIds
      <4> QED BY <2>2, <4>1, <4>2, Zenon
    <3>2. CASE i = "other"
      BY <2>0, <2>1, <3>1, <3>2 DEF AddrInv, RouteInv, RdmaQuiet, IdInv, Ids
    <3>3. CASE i = "cur"
      <4>1. \A n \in 1..Len(events'["cur"]) :
              events'["cur"][n] \in LookupEvents => n \in 1..Len(events["cur"]) /\ events["cur"][n] \in LookupEvents
        BY <2>0, <3>1, <3>3 DEF LookupEvents, CmEvents
      <4> QED BY <2>0, <2>1, <3>1, <3>3, <4>1 DEF AddrInv, RouteInv, RdmaQuiet, MayFail, Ids
    <3> QED BY <3>2, <3>3 DEF Ids
  <2>3. ASSUME NEW s, NEW e, Queue(i, [cm[i] EXCEPT !.rdma = s], e)
        PROVE  /\ cm'[i].rdma = s /\ cm'[i].ib = cm[i].ib
               /\ events'[i] = Append(events[i], e)
    BY <2>0, <2>3 DEF Queue, CmIds
  <2>4. CASE addr_handler(i)
    <3>1. /\ cm[i].rdma = "addr_query" /\ cm'[i].ib = cm[i].ib
          /\ \/ /\ cm'[i].rdma = "addr_resolved"
                /\ events'[i] = Append(events[i], "ADDR_RESOLVED")
             \/ /\ cm'[i].rdma = "addr_bound" /\ MayFail
                /\ events'[i] = Append(events[i], "ADDR_ERROR")
      BY <2>3, <2>4, Zenon DEF addr_handler
    <3>2. CASE i = "other"
      BY <2>0, <2>1, <3>1, <3>2 DEF AddrInv, RouteInv, RdmaQuiet, MayFail, Ids
    <3>3. CASE i = "cur"
      BY <2>0, <2>1, <3>1, <3>3 DEF AddrInv, RouteInv, RdmaQuiet, MayFail, Ids
    <3> QED BY <3>2, <3>3 DEF Ids
  <2>5. CASE cma_work_handler(i)
    <3>1. /\ cm[i].rdma = "route_query" /\ cm'[i].ib = cm[i].ib
          /\ \/ /\ cm'[i].rdma = "route_resolved"
                /\ events'[i] = Append(events[i], "ROUTE_RESOLVED")
             \/ /\ cm'[i].rdma = "addr_resolved"
                /\ events'[i] = Append(events[i], "ROUTE_ERROR")
      BY <2>3, <2>5, Zenon DEF cma_work_handler
    <3>2. CASE i = "other"
      BY <2>0, <2>1, <3>1, <3>2 DEF AddrInv, RouteInv, RdmaQuiet, MayFail, Ids
    <3>3. CASE i = "cur"
      BY <2>0, <2>1, <3>1, <3>3, SMTT(20) DEF AddrInv, RouteInv, RdmaQuiet, MayFail, Ids
    <3> QED BY <3>2, <3>3 DEF Ids
  <2> QED BY <1>29, <2>2, <2>4, <2>5
<1>30. ASSUME NEW i \in Ids, srp_ib_cm_handler(i) \/ srp_rdma_cm_handler(i)
    PROVE  RdmaInv'
  <2> SUFFICES ASSUME using_rdma_cm
               PROVE  /\ status' \notin Redirected
                      /\ Calm => AddrInv' /\ RouteInv'
    BY <1>30, Handling, Zenon DEF RdmaInv, Calm
  <2>0. srp_rdma_cm_handler(i)
    BY <1>30 DEF srp_ib_cm_handler
  <2>1. status' \notin Redirected
    BY <2>0 DEF srp_rdma_cm_handler, Complete, cma_rep_recv, disconnected, req_error,
                RdmaInv, Redirected
  <2>2. ASSUME Calm PROVE AddrInv' /\ RouteInv'
    <3>0. /\ AddrInv /\ RouteInv /\ UNCHANGED <<pc, op, ret>> /\ UNCHANGED env
          /\ events[i] \in Seq(Events) /\ events[i] # <<>> /\ events'[i] = Tail(events[i])
          /\ \A j \in Ids \ {i} : cm'[j] = cm[j] /\ events'[j] = events[j]
      BY <1>30, <2>2, Handling, Zenon DEF RdmaInv, TypeInv, IdTypes
    <3>1. CASE i = "other"
      <4>1. cm'["cur"] = cm["cur"] /\ events'["cur"] = events["cur"]
        BY <3>0, <3>1 DEF Ids
      <4>2. pc \in {"wait_addr", "destroy_cm_id"}
        BY <3>0, <3>1 DEF IdInv, Gone, AddrInv
      <4>3. CASE pc = "wait_addr"
        <5>1. events["other"] \in {<<"ADDR_RESOLVED">>, <<"ADDR_ERROR">>}
          BY <3>0, <3>1, <4>3, Zenon DEF AddrInv
        <5>2. /\ UNCHANGED cm /\ done' = done + 1
              /\ events[i] = <<"ADDR_RESOLVED">> => status' = "ok"
              /\ events[i] = <<"ADDR_ERROR">> => status' = "err"
          BY <2>0, <3>1, <5>1, LookupEnds DEF LookupEvents
        <5>3. events'["other"] = <<>>
          BY <3>0, <3>1, <5>1, TailEvents, Zenon
        <5> QED BY <3>0, <3>1, <4>3, <5>1, <5>2, <5>3, SMTT(20) DEF AddrInv, RouteInv, MayFail
      <4>4. CASE pc = "destroy_cm_id"
        BY <3>0, <4>1, <4>4 DEF AddrInv, RouteInv, RdmaQuiet
      <4> QED BY <4>2, <4>3, <4>4
    <3>2. CASE i = "cur"
      <4>1. pc \notin {"wait_addr", "addr"}
        BY <2>0, <2>2, <3>2 DEF srp_rdma_cm_handler, Handles, Calm
      <4>2. CASE pc = "wait_path"
        <5>1. events["cur"] \in {<<"ROUTE_RESOLVED">>, <<"ROUTE_ERROR">>}
          BY <3>0, <3>2, <4>2, Zenon DEF RouteInv
        <5>2. /\ UNCHANGED cm /\ done' = done + 1
              /\ events[i] = <<"ROUTE_RESOLVED">> => status' = "ok"
              /\ events[i] = <<"ROUTE_ERROR">> => status' = "err"
          BY <2>0, <3>2, <5>1, LookupEnds DEF LookupEvents
        <5>3. events'["cur"] = <<>>
          BY <3>0, <3>2, <5>1, TailEvents, Zenon
        <5> QED BY <3>0, <3>2, <4>2, <5>1, <5>2, <5>3, SMTT(20) DEF AddrInv, RouteInv
      <4>3. CASE pc \in {"wait_login", "login"}
        <5>1. cm'["cur"].rdma \in {cm["cur"].rdma, "disconnect"}
          BY <2>0, <3>2 DEF srp_rdma_cm_handler, cma_rep_recv, disconnected, TypeInv,
             IdTypes, Ids, CmIds
        <5>2. \A n \in 1..Len(events'["cur"]) : events'["cur"][n] \notin LookupEvents
          <6>1. \A n \in 1..Len(events["cur"]) : events["cur"][n] \notin LookupEvents
            BY <3>0, <4>3 DEF RouteInv
          <6>2. /\ events["cur"] \in Seq(Events) /\ events["cur"] # <<>>
                /\ events'["cur"] = Tail(events["cur"])
            BY <3>0, <3>2
          <6>3. \A n \in 1..Len(Tail(events["cur"])) :
                  /\ n + 1 \in 1..Len(events["cur"])
                  /\ Tail(events["cur"])[n] = events["cur"][n + 1]
            BY <6>2, TailEvents
          <6> QED BY <6>1, <6>2, <6>3
        <5> QED BY <3>0, <4>3, <5>1, <5>2 DEF AddrInv, RouteInv
      <4>4. CASE pc \notin {"wait_path", "wait_login", "login"}
        BY <3>0, <3>2, <4>1, <4>4 DEF AddrInv, RouteInv, RdmaQuiet
      <4> QED BY <4>2, <4>3, <4>4
    <3> QED BY <3>1, <3>2 DEF Ids
  <2> QED BY <2>1, <2>2
<1> QED BY <1>1, <1>2, <1>3, <1>4, <1>5, <1>6, <1>7, <1>8, <1>9, <1>10, <1>11,
        <1>12, <1>13, <1>14, <1>15, <1>16, <1>17, <1>18, <1>19, <1>20, <1>21,
        <1>22, <1>23, <1>24, <1>25, <1>26, <1>27, <1>28, <1>29, <1>30, Zenon
        DEF Step, Tasks, ThreadStep, CmStep, Ids

\* Every step keeps the types of the CM IDs and of their events.
LEMMA IdTypesKept ==
  ASSUME TypeInv, ControlInv, IdInv, Step, UNCHANGED env
  PROVE  IdTypes'
<1>1. CASE srp_rport_reconnect
  BY <1>1, Disconnects, Zenon DEF srp_rport_reconnect, TypeInv, IdTypes
<1>2. CASE srp_remove_target
  BY <1>2, Disconnects, Zenon DEF srp_remove_target, TypeInv, IdTypes
<1>3. CASE srp_new_ib_cm_id
  BY <1>3, Installs DEF IdTypes
<1>4. CASE rdma_resolve_addr
  BY <1>4, CmIdTypes DEF rdma_resolve_addr, TypeInv, IdTypes, Ids
<1>5. CASE srp_new_rdma_cm_id
  <2>1. /\ cm["cur"] \in CmIds /\ events["cur"] \in Seq(Events)
        /\ cm["other"] \in CmIds /\ events["other"] \in Seq(Events)
    BY DEF TypeInv, IdTypes, Ids
  <2> QED BY <1>5, <2>1, Replaced DEF srp_new_rdma_cm_id, IdTypes, Ids
<1>6. CASE ib_destroy_cm_id
  BY <1>6, CmIdTypes DEF ib_destroy_cm_id, TypeInv, IdTypes, Ids
<1>7. CASE srp_free_ch_ib_cm_id
  BY <1>7, Installs DEF IdTypes
<1>8. CASE srp_lookup_path
  <2>1. [cm["cur"] EXCEPT !.rdma = "route_query"] \in CmIds
    BY DEF TypeInv, IdTypes, Ids, CmIds
  <2> QED BY <1>8, <2>1, Zenon DEF srp_lookup_path, TypeInv, IdTypes, Ids
<1>9. CASE srp_send_req
  <2>1. /\ [cm["cur"] EXCEPT !.rdma = "connect", !.ib = "req_sent"] \in CmIds
        /\ [cm["cur"] EXCEPT !.ib = "req_sent"] \in CmIds
    BY Zenon DEF TypeInv, IdTypes, Ids, CmIds, CmStates
  <2>2. \/ UNCHANGED cm
        \/ cm' = [cm EXCEPT !["cur"] = [cm["cur"] EXCEPT !.rdma = "connect", !.ib = "req_sent"]]
        \/ cm' = [cm EXCEPT !["cur"] = [cm["cur"] EXCEPT !.ib = "req_sent"]]
    BY <1>9, Zenon DEF srp_send_req, CmSendReq, TypeInv, IdTypes, Ids
  <2> QED BY <1>9, <2>1, <2>2 DEF srp_send_req, TypeInv, IdTypes, Ids
<1>10. ASSUME NEW i \in Ids,
         ib_cm_event(i) \/ redirect(i) \/ addr_handler(i) \/ cma_work_handler(i)
    PROVE  IdTypes'
  BY <1>10, Arrival DEF IdTypes
<1>11. ASSUME NEW i \in Ids, srp_ib_cm_handler(i) \/ srp_rdma_cm_handler(i)
    PROVE  IdTypes'
  BY <1>11, Handling, Zenon DEF IdTypes
<1>12. CASE srp_create_target \/ scan_done \/ srp_add_target \/
           srp_add_target_error \/ srp_new_cm_id_error \/
          srp_create_ch_ib_error \/ srp_create_ch_ib_first \/
          srp_destroy_qp \/ srp_create_ch_ib \/ srp_free_ch_ib \/
          srp_lookup_path_error \/ lookup_interrupted \/ path_found \/
          srp_send_req_error \/ login_interrupted \/ login_succeeded
          \/ login_refused \/ last_wr_completion \/
          srp_path_rec_completion \/ srp_tl_err_work \/ Waits
  BY <1>12 DEF srp_create_target, scan_done, srp_add_target,
              srp_add_target_error, srp_new_cm_id_error,
           srp_create_ch_ib_error, srp_create_ch_ib_first, srp_destroy_qp,
           srp_create_ch_ib, srp_free_ch_ib, srp_lookup_path_error,
           lookup_interrupted, path_found, srp_send_req_error,
           login_interrupted, login_succeeded, login_refused,
           last_wr_completion, srp_path_rec_completion, srp_tl_err_work, Waits,
           Woken, TypeInv, IdTypes
<1> QED BY <1>1, <1>2, <1>3, <1>4, <1>5, <1>6, <1>7, <1>8, <1>9, <1>10, <1>11,
        <1>12, Zenon DEF Step, Tasks, ThreadStep, CmStep, Ids

\* A channel that srp_create_target() has just allocated.
LEMMA InitInv == Init => IInv
<1> SUFFICES ASSUME Init PROVE IInv
  OBVIOUS
<1>1. /\ cm["cur"] = NoId /\ cm["other"] = NoId
      /\ events["cur"] = <<>> /\ events["other"] = <<>>
  BY DEF Init
<1>2. IdTypes
  BY CmIdTypes DEF Init, IdTypes, Ids
<1>3. FlagTypes
  BY Zenon DEF Init, FlagTypes
<1>4. ThreadTypes
  BY LoginConstants DEF Init, ThreadTypes, Labels, Statuses
<1>5. ControlInv /\ LossInv /\ QueryInv /\ RetInv /\ AcceptInv /\ DrainInv
  BY DEF Init, ControlInv, LossInv, QueryInv, RetInv, AcceptInv, DrainInv
<1>6. IdInv /\ IbInv /\ RdmaInv
  BY <1>1 DEF Init, IdInv, Gone, IbInv, NoId, RdmaInv, AddrInv, RouteInv, Redirected
<1> QED BY <1>2, <1>3, <1>4, <1>5, <1>6 DEF IInv, TypeInv

\* Every step of the thread, of the CM and of the callbacks keeps the invariant.
LEMMA NextInv == ASSUME IInv, [Next]_<<vars, env>> PROVE IInv'
<1>1. CASE Next
  <2>1. Step /\ UNCHANGED env
    BY <1>1 DEF Next
  <2>2. /\ TypeInv /\ ControlInv /\ IdInv /\ LossInv /\ QueryInv /\ IbInv /\ RetInv
        /\ RdmaInv /\ AcceptInv /\ DrainInv
    BY DEF IInv
  <2>3. TypeInv'
    BY <2>1, <2>2, IdTypesKept, FlagTypesKept, ThreadTypesKept DEF TypeInv
  <2>4. ControlInv' /\ IdInv' /\ LossInv' /\ QueryInv' /\ RetInv'
    BY <2>1, <2>2, ControlKept, IdKept, LossKept, QueryKept, RetKept
  <2>5. IbInv' /\ RdmaInv' /\ AcceptInv' /\ DrainInv'
    BY <2>1, <2>2, IbKept, RdmaKept, AcceptKept, DrainKept
  <2> QED BY <2>3, <2>4, <2>5 DEF IInv
<1>2. CASE UNCHANGED <<vars, env>>
  <2>1. TypeInv'
    <3>1. IdTypes'
      BY <1>2, Zenon DEF vars, IInv, TypeInv, IdTypes
    <3>2. FlagTypes'
      BY <1>2, Zenon DEF vars, IInv, TypeInv, FlagTypes
    <3>3. ThreadTypes'
      BY <1>2 DEF vars, IInv, TypeInv, ThreadTypes
    <3> QED BY <3>1, <3>2, <3>3 DEF TypeInv
  <2>2. ControlInv' /\ IdInv' /\ LossInv' /\ QueryInv' /\ RetInv'
    BY <1>2, Zenon DEF vars, IInv, ControlInv, IdInv, Gone, LossInv, QueryInv, RetInv
  <2>3. IbInv' /\ AcceptInv' /\ DrainInv'
    BY <1>2, Zenon DEF vars, IInv, IbInv, IbQuiet, AcceptInv, DrainInv
  <2>4. RdmaInv'
    BY <1>2, Zenon DEF vars, IInv, RdmaInv, Calm, AddrInv, MayFail, RouteInv, RdmaQuiet
  <2> QED BY <2>1, <2>2, <2>3, <2>4 DEF IInv
<1> QED BY <1>1, <1>2

\* The invariant holds in every state, for every Envs and all bounds.
THEOREM LoginInvariance == Spec => []IInv
BY InitInv, NextInv, PTL DEF Spec

\* The variables of the channel keep their types.
THEOREM LoginTypes == Spec => []TypeOK
<1>1. IInv => TypeOK
  BY DEF IInv, TypeInv, IdTypes, FlagTypes, ThreadTypes, TypeOK, Ids
<1> QED BY <1>1, LoginInvariance, PTL

\* A channel that srp_free_ch_ib() has freed is not used by a callback, if no
\* signal has ended the wait for a path record.
THEOREM FreedChannelUnused == Spec => []NoCallbackAfterFree
<1>1. IInv => NoCallbackAfterFree
  BY DEF IInv, NoCallbackAfterFree, ControlInv, IdInv, Gone, QueryInv
<1> QED BY <1>1, LoginInvariance, PTL

\* A connection that the target closes is noticed, at whatever moment of the
\* login srp_ib_cm_handler() gets the DREQ; only for the first connection may
\* srp_tl_err_work() run before there is a port, and then the loss is forgotten.
THEOREM LossNoticed == Spec => []LossIsNoticed
<1>1. IInv => LossIsNoticed
  BY DEF IInv, LossInv, LossIsNoticed
<1> QED BY <1>1, LoginInvariance, PTL

\* Only the end of srp_connect_ch() marks a channel as connected.
LEMMA Connects ==
  ASSUME IInv, Step
  PROVE  ~connected /\ connected' => pc = "login" /\ status = "ok"
<1>1. CASE login_succeeded
  BY <1>1 DEF login_succeeded
<1>2. CASE srp_create_target \/ srp_rport_reconnect \/ srp_remove_target
          \/ scan_done \/ srp_add_target \/
           srp_add_target_error \/ srp_new_cm_id_error \/ srp_new_ib_cm_id \/
          rdma_resolve_addr \/ srp_new_rdma_cm_id \/ ib_destroy_cm_id
          \/ srp_create_ch_ib_error \/ srp_create_ch_ib_first \/
          srp_destroy_qp \/ srp_create_ch_ib \/ srp_free_ch_ib_cm_id
          \/ srp_free_ch_ib \/ srp_lookup_path \/
          srp_lookup_path_error \/ lookup_interrupted \/ path_found \/
          srp_send_req \/ srp_send_req_error \/ login_interrupted \/
          login_refused \/ last_wr_completion \/
          srp_path_rec_completion \/ srp_tl_err_work \/ Waits
  BY <1>2, Zenon DEF srp_create_target, srp_rport_reconnect, srp_remove_target,
              scan_done, srp_add_target,
              srp_add_target_error, srp_new_cm_id_error, srp_new_ib_cm_id,
              rdma_resolve_addr, srp_new_rdma_cm_id, ib_destroy_cm_id,
              srp_create_ch_ib_error, srp_create_ch_ib_first, srp_destroy_qp,
              srp_create_ch_ib, srp_free_ch_ib_cm_id, srp_free_ch_ib,
              srp_lookup_path, srp_lookup_path_error, lookup_interrupted,
              path_found, srp_send_req, srp_send_req_error, login_interrupted,
              login_refused, last_wr_completion, srp_path_rec_completion,
              srp_tl_err_work, Waits, NewQp, LoginFailed, Woken,
              srp_disconnect_target
<1>3. ASSUME NEW i \in Ids, CmStep(i)
      PROVE  ~connected /\ connected' => pc = "login" /\ status = "ok"
  <2>1. CASE srp_ib_cm_handler(i) \/ srp_rdma_cm_handler(i)
    BY <2>1, Handling, Zenon DEF IInv
  <2>2. CASE ib_cm_event(i) \/ redirect(i) \/ addr_handler(i) \/ cma_work_handler(i)
    BY <2>2, Zenon DEF ib_cm_event, redirect, addr_handler, cma_work_handler, Queue
  <2> QED BY <1>3, <2>1, <2>2 DEF CmStep
<1> QED BY <1>1, <1>2, <1>3, Zenon DEF Step, Tasks, ThreadStep, Ids

\* A channel gets connected only if the login of its queue pair was accepted.
THEOREM LoginWasAccepted == Spec => ConnectedMeansAccepted
<1>1. ASSUME IInv, [Next]_<<vars, env>>
      PROVE  [env \subseteq {"cm_id_failure"} /\ ~connected /\ connected' => accepted]_vars
  <2>1. CASE Next
    BY <1>1, <2>1, Connects DEF Next, IInv, AcceptInv
  <2>2. CASE UNCHANGED <<vars, env>>
    BY <2>2
  <2> QED BY <1>1, <2>1, <2>2
<1> QED BY <1>1, LoginInvariance, PTL DEF Spec, ConnectedMeansAccepted

\* srp_destroy_qp() waits until ch->done is completed.
LEMMA LeavesWait ==
  ASSUME IInv, Step
  PROVE  pc = "wait_last_wr" /\ pc' # pc => done > 0
<1>1. CASE srp_create_ch_ib
  BY <1>1 DEF srp_create_ch_ib
<1>2. CASE srp_free_ch_ib
  BY <1>2 DEF srp_free_ch_ib
<1>3. CASE srp_create_target \/ srp_rport_reconnect \/ srp_remove_target
          \/ scan_done \/ srp_add_target \/
           srp_add_target_error \/ srp_new_cm_id_error \/ srp_new_ib_cm_id \/
          rdma_resolve_addr \/ srp_new_rdma_cm_id \/ ib_destroy_cm_id
          \/ srp_create_ch_ib_error \/ srp_create_ch_ib_first \/
          srp_destroy_qp \/ srp_free_ch_ib_cm_id \/ srp_lookup_path \/
          srp_lookup_path_error \/ lookup_interrupted \/ path_found \/
          srp_send_req \/ srp_send_req_error \/ login_interrupted \/
          login_succeeded \/ login_refused \/ last_wr_completion \/
          srp_path_rec_completion \/ srp_tl_err_work \/ Waits
  BY <1>3 DEF srp_create_target, srp_rport_reconnect, srp_remove_target,
              scan_done, srp_add_target,
              srp_add_target_error, srp_new_cm_id_error, srp_new_ib_cm_id,
              rdma_resolve_addr, srp_new_rdma_cm_id, ib_destroy_cm_id,
              srp_create_ch_ib_error, srp_create_ch_ib_first, srp_destroy_qp,
              srp_free_ch_ib_cm_id, srp_lookup_path, srp_lookup_path_error,
              lookup_interrupted, path_found, srp_send_req, srp_send_req_error,
              login_interrupted, login_succeeded, login_refused,
              last_wr_completion, srp_path_rec_completion, srp_tl_err_work,
              Waits, NewQp, LoginFailed, Woken, srp_disconnect_target
<1>4. ASSUME NEW i \in Ids, CmStep(i)
      PROVE  pc = "wait_last_wr" /\ pc' # pc => done > 0
  <2>1. CASE srp_ib_cm_handler(i) \/ srp_rdma_cm_handler(i)
    BY <2>1, Handling, Zenon DEF IInv
  <2>2. CASE ib_cm_event(i) \/ redirect(i) \/ addr_handler(i) \/ cma_work_handler(i)
    BY <2>2 DEF ib_cm_event, redirect, addr_handler, cma_work_handler, Queue
  <2> QED BY <1>4, <2>1, <2>2 DEF CmStep
<1> QED BY <1>1, <1>2, <1>3, <1>4, Zenon DEF Step, Tasks, ThreadStep, Ids

\* The wait of srp_destroy_qp(), to which it comes if its two verbs succeed, ends
\* after the last receive completion and never for a connected channel, if
\* srp_new_cm_id() does not fail and no signal and no event of the old connection
\* interferes with a lookup.
THEOREM QueuePairDrained == Spec => DrainedBeforeDestroyed
<1>1. ASSUME IInv, [Next]_<<vars, env>>
      PROVE  [env \subseteq {"short_timewait"} /\ pc = "wait_last_wr" /\ pc' # pc
                => ~last_wr /\ ~connected]_vars
  <2>1. CASE Next
    BY <1>1, <2>1, LeavesWait DEF Next, IInv, DrainInv, ControlInv
  <2>2. CASE UNCHANGED <<vars, env>>
    BY <2>2
  <2> QED BY <1>1, <2>1, <2>2
<1> QED BY <1>1, LoginInvariance, PTL DEF Spec, DrainedBeforeDestroyed
=============================================================================
