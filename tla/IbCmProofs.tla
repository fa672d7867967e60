----------------------------- MODULE IbCmProofs -----------------------------
(***************************************************************************)
(* Proofs about IbCm, for any number of connections, any assignment of QP  *)
(* numbers and any network.  The inductive invariant is IInv of IbCm.      *)
(***************************************************************************)
EXTENDS IbCm, TLAPS

\* What no step undoes: a passive CM ID keeps its peer, and so does an active
\* one that has accepted its REP.
Settled ==
  /\ \A p \in PassiveIds : state[p] # "none" =>
       state'[p] # "none" /\ remote'[p] = remote[p]
  /\ \A a \in ActiveIds : Accepted(a) => Accepted(a)' /\ remote'[a] = remote[a]

\* Appending an event to the work_list keeps its type.
LEMMA ReportTypes ==
  ASSUME WorkTypes, NEW i \in Ids, NEW e, Report(i, e),
         i \in ActiveIds => e \in CmEvents
  PROVE  /\ WorkTypes'
         /\ \A a \in ActiveIds : a # i => work'[a] = work[a]
<1>1. CASE UNCHANGED work
  BY <1>1 DEF WorkTypes
<1>2. CASE work' = [work EXCEPT ![i] = Append(@, e)] /\ e \in CmEvents \cup {"REQ"}
  <2>1. Append(work[i], e) \in Seq(CmEvents \cup {"REQ"})
    BY <1>2 DEF WorkTypes
  <2> QED BY <1>2, <2>1 DEF WorkTypes, Ids
<1> QED BY <1>1, <1>2 DEF Report, CmEvents

\* What becomes of the destruction of other CM IDs when one changes its state.
LEMMA DestroyKept ==
  ASSUME StateTypes, DestroyInv, NEW i \in Ids, NEW s, s \notin {"none", "gone"},
         SetState(i, s), \A j \in Ids : j # i => destroy'[j] = destroy[j],
         destroy'[i] = "free" => s \notin {"req_sent", "req_rcvd", "rep_rcvd", "rep_sent"},
         destroy'[i] = "drep" => s \in {"dreq_rcvd", "timewait", "idle"}
  PROVE  DestroyInv'
BY DEF StateTypes, DestroyInv, SetState, Live, CanReject

\* Messages stay truthful and the ends stay in agreement when nothing that is
\* settled changes and only truthful messages are sent.
LEMMA SettledInv ==
  ASSUME IInv, Settled, StateTypes', WorkTypes', TimewaitInv', PeerInv', WorkInv',
         DestroyTypes', DestroyInv',
         NEW M \in SUBSET Messages, net' \subseteq net \cup M,
         \A n \in M : Truthful(n)',
         \A p \in PassiveIds : state'[p] = "established" =>
           \/ state[p] = "established"
           \/ remote'[remote'[p]] = p /\ state'[remote'[p]] # "rep_rcvd"
  PROVE  IInv'
<1> USE DEF IInv, TypeOK
<1>1. (net \subseteq Messages)'
  OBVIOUS
<1>2. ASSUME NEW m \in net PROVE Truthful(m)'
  BY <1>2 DEF NetInv, Truthful, Settled, Accepted
<1>3. NetInv'
  BY <1>2 DEF NetInv
<1>4. EndsAgree'
  BY CmConstants DEF EndsAgree, Settled, PeerInv, Accepted, Ids
<1> QED BY <1>1, <1>3, <1>4

\* A step that only sends messages, or lets the handler of a client see one.
LEMMA MessageInv ==
  ASSUME IInv, UNCHANGED <<state, remote, timewait_info, oops, qpn>>,
         WorkTypes', WorkInv', DestroyTypes', DestroyInv',
         NEW M \in SUBSET Messages, net' \subseteq net \cup M,
         \A n \in M : Truthful(n)'
  PROVE  IInv'
<1>1. StateTypes' /\ TimewaitInv' /\ PeerInv'
  BY DEF IInv, TypeOK, StateTypes, TimewaitInv, PeerInv
<1>2. Settled
  BY DEF Settled, Accepted
<1> QED BY <1>1, <1>2, SettledInv

\* The end of a connection.
Ends(i) ==
  \/ /\ state[i] \notin {"none", "idle", "timewait", "gone"}
     /\ cm_reset_to_idle(i) \/ cm_enter_timewait(i)
  \/ state[i] = "timewait" /\ Keep(i, "idle")

\* A connection ends.
LEMMA EndInv ==
  ASSUME IInv, NEW i \in Ids, Ends(i), UNCHANGED <<remote, qpn>>,
         DestroyTypes', \A j \in Ids : j # i => destroy'[j] = destroy[j],
         WorkTypes', \A a \in ActiveIds : a # i => work'[a] = work[a],
         NEW M \in SUBSET Messages, net' \subseteq net \cup M,
         \A n \in M : n.type \notin {"REQ", "REP", "RTU"}
  PROVE  IInv'
<1> USE DEF IInv, TypeOK
<1>1. PICK s \in {"idle", "timewait"} : SetState(i, s)
  BY DEF Ends, cm_reset_to_idle, cm_enter_timewait, Keep
<1>2. /\ state' = [state EXCEPT ![i] = s] /\ state[i] \notin {"none", "gone"}
      /\ timewait_info' = timewait_info \ {i} /\ oops' = FALSE
  <2>1. state' = [state EXCEPT ![i] = s]
    BY <1>1 DEF SetState
  <2>2. timewait_info' = timewait_info \ {i}
    <3>1. CASE state[i] = "timewait" /\ Keep(i, "idle")
      BY <3>1 DEF Keep, TimewaitInv
    <3> QED BY <3>1 DEF Ends, cm_reset_to_idle, cm_enter_timewait
  <2>3. oops' = FALSE /\ state[i] \notin {"none", "gone"}
    BY DEF Ends, cm_reset_to_idle, cm_enter_timewait, Keep, TimewaitInv, StateTypes
  <2> QED BY <2>1, <2>2, <2>3
<1>3. StateTypes'
  <2>1. s \in IdStates /\ s \notin {"req_rcvd", "rep_sent", "req_sent", "rep_rcvd"}
    BY DEF IdStates, CmStates
  <2> QED BY <1>2, <2>1, Zenon DEF StateTypes, Ids
<1>4. TimewaitInv'
  BY <1>2 DEF TimewaitInv, StateTypes
<1>5. PeerInv'
  BY <1>2 DEF PeerInv, StateTypes, Ids
<1>6. WorkInv'
  BY <1>2 DEF WorkInv, StateTypes, Ids
<1>7. Settled
  BY <1>2 DEF Settled, StateTypes, Ids, Accepted
<1>8. \A p \in PassiveIds : state'[p] = "established" => state[p] = "established"
  BY <1>2 DEF StateTypes, Ids
<1>9. \A n \in M : Truthful(n)'
  BY DEF Truthful
<1>10. DestroyInv'
  BY <1>1, DestroyKept
<1> QED BY <1>3, <1>4, <1>5, <1>6, <1>7, <1>8, <1>9, <1>10, SettledInv

\* A connection gets further.
LEMMA KeepInv ==
  ASSUME IInv, NEW i \in Ids,
         NEW s \in {"rep_sent", "established", "dreq_sent", "dreq_rcvd"},
         state[i] \notin {"none", "idle", "timewait", "gone", "dreq_rcvd"}, Keep(i, s),
         s = "rep_sent" => state[i] = "req_rcvd",
         destroy'[i] \in {destroy[i], "retest"}, UNCHANGED <<remote, qpn>>,
         i \in ActiveIds => s # "rep_sent" /\ (s = "dreq_rcvd" \/ work'[i] = <<>>),
         DestroyTypes', \A j \in Ids : j # i => destroy'[j] = destroy[j],
         i \in PassiveIds /\ s = "established" =>
           /\ remote[remote[i]] = i
           /\ remote[i] \in ActiveIds /\ state[remote[i]] # "rep_rcvd",
         WorkTypes', \A a \in ActiveIds : a # i => work'[a] = work[a],
         NEW M \in SUBSET Messages, net' \subseteq net \cup M,
         \A n \in M : Truthful(n)'
  PROVE  IInv'
<1> USE CmConstants DEF IInv, TypeOK, Ids
<1>1. /\ state' = [state EXCEPT ![i] = s] /\ UNCHANGED <<timewait_info, oops>>
  BY DEF Keep, SetState
<1>2. StateTypes'
  BY <1>1 DEF StateTypes, IdStates, CmStates
<1>3. TimewaitInv'
  BY <1>1 DEF TimewaitInv, StateTypes
<1>4. PeerInv'
  BY <1>1 DEF PeerInv, StateTypes
<1>5. WorkInv'
  BY <1>1 DEF WorkInv, StateTypes
<1>6. Settled
  BY <1>1 DEF Settled, StateTypes, Accepted
<1>7. \A p \in PassiveIds : state'[p] = "established" =>
        \/ state[p] = "established"
        \/ remote'[remote'[p]] = p /\ state'[remote'[p]] # "rep_rcvd"
  BY <1>1 DEF StateTypes
<1>8. DestroyInv'
  <2>1. destroy'[i] = "free" =>
          s \notin {"req_sent", "req_rcvd", "rep_rcvd", "rep_sent"}
    BY DEF DestroyInv, CanReject
  <2>2. destroy'[i] # "drep"
    BY DEF DestroyInv
  <2> QED BY <2>1, <2>2, DestroyKept, Zenon DEF Keep
<1> QED BY <1>2, <1>3, <1>4, <1>5, <1>6, <1>7, <1>8, SettledInv, Zenon

-----------------------------------------------------------------------------
\* The messages that a CM ID sends to its peer.
LEMMA MsgTypesOK ==
  ASSUME IInv, NEW i \in Ids
  PROVE  /\ \A t \in MsgTypes : Msg(t, i, remote[i]) \in Messages
         /\ cm_format_rej(i) \in Messages
         /\ cm_format_rej(i).type \notin {"REQ", "REP", "RTU"}
BY DEF IInv, TypeOK, StateTypes, Msg, Messages, MsgTypes, cm_format_rej

\* A REQ, the first one on a CM ID or another one.
LEMMA RequestInv ==
  ASSUME IInv, NEW i \in Ids, ib_send_cm_req(i)
  PROVE  IInv'
<1> USE CmConstants DEF IInv, TypeOK
<1>1. /\ i \in ActiveIds /\ state[i] \in {"none", "idle"} /\ work[i] = <<>>
      /\ state' = [state EXCEPT ![i] = "req_sent"]
      /\ timewait_info' = timewait_info \cup {i}
      /\ net' \subseteq net \cup {Msg("REQ", i, NoId)}
      /\ UNCHANGED <<remote, work, destroy, oops, qpn>>
  BY DEF ib_send_cm_req, SetState, Send
<1>2. StateTypes' /\ WorkTypes' /\ DestroyTypes'
  BY <1>1 DEF StateTypes, WorkTypes, DestroyTypes, Ids, IdStates, CmStates
<1>3. TimewaitInv'
  BY <1>1 DEF TimewaitInv, StateTypes
<1>4. PeerInv' /\ WorkInv'
  BY <1>1 DEF PeerInv, WorkInv, StateTypes, Ids
<1>5. Settled
  BY <1>1 DEF Settled, StateTypes, Ids, Accepted
<1>6. {Msg("REQ", i, NoId)} \in SUBSET Messages
      /\ \A n \in {Msg("REQ", i, NoId)} : Truthful(n)'
  BY <1>1 DEF Msg, Messages, MsgTypes, Truthful
<1>7. \A p \in PassiveIds : state'[p] = "established" => state[p] = "established"
  BY <1>1 DEF StateTypes, Ids
<1>8. DestroyInv'
  <2>1. destroy'[i] = "no"
    BY <1>1 DEF ib_send_cm_req
  <2> QED BY <1>1, <2>1, DestroyKept DEF SetState
<1> QED BY <1>1, <1>2, <1>3, <1>4, <1>5, <1>6, <1>7, <1>8, SettledInv, Zenon

\* What the other calls send: nothing that a later step has to be true to.
CallMessages(i) == {Msg("REJ_TIMEOUT", i, NoId), cm_format_rej(i),
                    Msg("DREQ", i, remote[i]), Msg("DREP", i, remote[i])}

\* The calls that end a connection, of a client or of cm_destroy_id().
EndCall(i) ==
  \/ \E rej \in {Msg("REJ_TIMEOUT", i, NoId), cm_format_rej(i)} : ib_send_cm_rej(i, rej)
  \/ ib_send_cm_dreq(i) \/ ib_send_cm_drep(i)

\* Such a call preserves the invariant.
LEMMA EndCallInv ==
  ASSUME IInv, NEW i \in Ids, EndCall(i), UNCHANGED <<remote, qpn>>,
         WorkTypes', \A a \in ActiveIds : a # i => work'[a] = work[a],
         i \in ActiveIds /\ state[i] = "established" => work'[i] = <<>>,
         state[i] = "established" => destroy'[i] \in {destroy[i], "retest"},
         DestroyTypes', \A j \in Ids : j # i => destroy'[j] = destroy[j]
  PROVE  IInv'
<1> USE CmConstants DEF IInv, TypeOK
<1>1. CallMessages(i) \in SUBSET Messages
      /\ \A n \in CallMessages(i) : n.type \notin {"REQ", "REP", "RTU"}
  <2> DEFINE T == {Msg("REJ_TIMEOUT", i, NoId), Msg("DREQ", i, remote[i]),
                   Msg("DREP", i, remote[i])}
  <2>1. Msg("REJ_TIMEOUT", i, NoId) \in Messages
    BY DEF Msg, Messages, MsgTypes
  <2>2. Msg("DREQ", i, remote[i]) \in Messages /\ Msg("DREP", i, remote[i]) \in Messages
    BY MsgTypesOK DEF MsgTypes
  <2>3. \A n \in T : n.type \notin {"REQ", "REP", "RTU"}
    BY DEF Msg
  <2> QED BY MsgTypesOK, <2>1, <2>2, <2>3 DEF CallMessages
<1>2. net' \subseteq net \cup CallMessages(i)
  BY DEF EndCall, ib_send_cm_rej, ib_send_cm_dreq, ib_send_cm_drep, Send, CallMessages
<1>3. CASE Keep(i, "dreq_sent") /\ state[i] = "established"
  <2>1. \A n \in CallMessages(i) : Truthful(n)'
    BY <1>1 DEF Truthful
  <2> QED BY <1>1, <1>2, <1>3, <2>1, KeepInv, Zenon
<1>4. CASE Ends(i)
  BY <1>1, <1>2, <1>4, EndInv, Zenon
<1>5. Ends(i) \/ (Keep(i, "dreq_sent") /\ state[i] = "established")
  BY DEF EndCall, ib_send_cm_rej, CanReject, ib_send_cm_dreq, ib_send_cm_drep, Ends
<1> QED BY <1>3, <1>4, <1>5

\* The calls of the clients outside of their handlers.
LEMMA CallInv ==
  ASSUME IInv, NEW i \in Ids, Disconnect(i) \/ Withdraw(i)
  PROVE  IInv'
<1> USE DEF IInv, TypeOK
<1>1. EndCall(i) /\ UNCHANGED <<remote, work, destroy, qpn>>
  BY DEF Disconnect, Withdraw, EndCall
<1>2. WorkTypes' /\ DestroyTypes'
  BY <1>1 DEF WorkTypes, DestroyTypes
<1>3. i \in ActiveIds /\ state[i] = "established" => work'[i] = <<>>
  BY <1>1 DEF WorkInv
<1> QED BY <1>1, <1>2, <1>3, EndCallInv, Zenon

\* The steps of cm_destroy_id().
LEMMA DestroyStepInv ==
  ASSUME IInv, NEW i \in Ids,
         cm_destroy_id(i) \/ cm_destroy_id_call(i) \/ cm_destroy_id_free(i)
  PROVE  IInv'
<1> USE CmConstants DEF IInv, TypeOK
<1>1. DestroyTypes' /\ \A j \in Ids : j # i => destroy'[j] = destroy[j]
  BY DEF DestroyTypes, cm_destroy_id, cm_destroy_id_call, cm_destroy_id_free
<1>2. net' \subseteq net \cup {} <=> net' \subseteq net
  OBVIOUS
<1>3. CASE /\ UNCHANGED <<state, remote, work, timewait_info, oops, qpn, net>> /\ Live(i)
           /\ destroy'[i] = "free" => ~CanReject(i)
           /\ destroy'[i] = "drep" => state[i] \in {"dreq_rcvd", "timewait", "idle"}
  <2>1. WorkTypes' /\ WorkInv'
    BY <1>3 DEF WorkTypes, WorkInv
  <2>2. DestroyInv'
    BY <1>1, <1>3 DEF DestroyInv, Live, CanReject
  <2>3. net' \subseteq net \cup {} /\ {} \in SUBSET Messages
    BY <1>3
  <2> QED BY <1>1, <1>3, <2>1, <2>2, <2>3, MessageInv, Zenon
<1>4. CASE cm_destroy_id(i)
  <2>1. CASE state[i] = "dreq_sent"
    <3>1. Ends(i) /\ UNCHANGED <<remote, work, qpn, net>>
      BY <1>4, <2>1 DEF cm_destroy_id, Ends
    <3>2. WorkTypes' /\ net' \subseteq net \cup {} /\ {} \in SUBSET Messages
      BY <3>1 DEF WorkTypes
    <3> QED BY <1>1, <3>1, <3>2, EndInv, Zenon
  <2>2. CASE state[i] # "dreq_sent"
    <3>1. destroy'[i] = "free" => ~CanReject(i)
      BY <1>4 DEF cm_destroy_id, DestroyTypes, CanReject
    <3>2. destroy'[i] = "drep" => state[i] = "dreq_rcvd"
      BY <1>4 DEF cm_destroy_id, DestroyTypes
    <3> QED BY <1>3, <1>4, <2>2, <3>1, <3>2 DEF cm_destroy_id
  <2> QED BY <2>1, <2>2
<1>5. CASE cm_destroy_id_call(i)
  <2>1. CASE Overtaken(i)
    <3>1. Live(i)
      BY <2>1 DEF Overtaken, DestroyInv
    <3>2. destroy'[i] = "free" => ~CanReject(i)
      BY <1>5, <2>1 DEF cm_destroy_id_call, Overtaken, DestroyTypes, DestroyInv, CanReject
    <3>3. destroy'[i] # "drep"
      BY <1>5 DEF cm_destroy_id_call, DestroyTypes
    <3> QED BY <1>3, <1>5, <2>1, <3>1, <3>2, <3>3 DEF cm_destroy_id_call, Overtaken
  <2>2. CASE EndCall(i)
    <3>1. UNCHANGED <<remote, work, qpn>>
      BY <1>5 DEF cm_destroy_id_call
    <3>2. WorkTypes' /\ (i \in ActiveIds /\ state[i] = "established" => work'[i] = <<>>)
      BY <3>1 DEF WorkTypes, WorkInv
    <3>3. CASE state[i] = "established" /\ destroy[i] # "dreq"
      BY <1>5, <2>1, <3>3
         DEF cm_destroy_id_call, ib_send_cm_rej, CanReject, ib_send_cm_drep
    <3>4. CASE state[i] = "established" /\ destroy[i] = "dreq"
      <4>1. destroy'[i] = "retest"
        BY <1>5, <3>4 DEF cm_destroy_id_call, DestroyTypes
      <4> QED BY <1>1, <2>2, <3>1, <3>2, <4>1, EndCallInv, Zenon
    <3>5. CASE state[i] # "established"
      BY <1>1, <2>2, <3>1, <3>2, <3>5, EndCallInv, Zenon
    <3> QED BY <3>3, <3>4, <3>5
  <2> QED BY <1>5, <2>1, <2>2 DEF cm_destroy_id_call, EndCall
<1>6. CASE cm_destroy_id_free(i)
  <2>1. /\ state[i] \notin {"none", "gone"} /\ destroy'[i] = "no"
        /\ state' = [state EXCEPT ![i] = "gone"]
        /\ work' = [work EXCEPT ![i] = <<>>]
        /\ UNCHANGED <<remote, qpn, net, timewait_info, oops>>
    BY <1>6 DEF cm_destroy_id_free, DestroyInv, Live, Keep, SetState, DestroyTypes
  <2>2. StateTypes'
    BY <2>1 DEF StateTypes, IdStates, Ids
  <2>3. WorkTypes'
    <3>1. <<>> \in Seq(CmEvents \cup {"REQ"})
      OBVIOUS
    <3> QED BY <2>1, <3>1 DEF WorkTypes
  <2>4. TimewaitInv'
    BY <2>1 DEF TimewaitInv, StateTypes
  <2>5. PeerInv'
    BY <2>1 DEF PeerInv, StateTypes, Ids
  <2>6. WorkInv'
    BY <2>1 DEF WorkInv, StateTypes, WorkTypes, Ids
  <2>7. Settled
    BY <2>1 DEF Settled, Accepted, StateTypes, Ids
  <2>8. DestroyInv'
    BY <1>1, <2>1 DEF DestroyInv, Live, CanReject, StateTypes
  <2>9. \A p \in PassiveIds : state'[p] = "established" => state[p] = "established"
    BY <2>1 DEF StateTypes, Ids
  <2>10. net' \subseteq net \cup {} /\ {} \in SUBSET Messages
    BY <2>1
  <2> QED BY <1>1, <2>2, <2>3, <2>4, <2>5, <2>6, <2>7, <2>8, <2>9, <2>10, SettledInv, Zenon
<1> QED BY <1>4, <1>5, <1>6

\* The handler of a client sees an event, and the client answers it.
LEMMA WorkStepInv ==
  ASSUME IInv, NEW i \in Ids, cm_process_work(i)
  PROVE  IInv'
<1> USE CmConstants DEF IInv, TypeOK
<1>1. /\ work[i] # <<>> /\ work' = [work EXCEPT ![i] = Tail(@)]
      /\ UNCHANGED <<remote, destroy, qpn>>
  BY DEF cm_process_work
<1>2. WorkTypes' /\ DestroyTypes'
  <2>1. Tail(work[i]) \in Seq(CmEvents \cup {"REQ"})
    BY <1>1 DEF WorkTypes
  <2> QED BY <1>1, <2>1 DEF WorkTypes, DestroyTypes
<1>3. \A a \in ActiveIds : a # i => work'[a] = work[a]
  BY <1>1 DEF WorkTypes, Ids
<1>4. CASE UNCHANGED <<state, timewait_info, oops, net>>
  <2>1. WorkInv'
    BY <1>1, <1>3, <1>4 DEF WorkInv, WorkTypes, Ids
  <2>2. DestroyInv' /\ net' \subseteq net \cup {} /\ {} \in SUBSET Messages
    BY <1>1, <1>4 DEF DestroyInv, Live, CanReject
  <2> QED BY <1>1, <1>2, <1>4, <2>1, <2>2, MessageInv, Zenon
<1>5. CASE ib_send_cm_rep(i)
  <2>1. /\ i \notin ActiveIds /\ state[i] = "req_rcvd" /\ Keep(i, "rep_sent")
        /\ net' \subseteq net \cup {Msg("REP", i, remote[i])}
    BY <1>5 DEF ib_send_cm_rep, StateTypes, Send
  <2>2. {Msg("REP", i, remote[i])} \in SUBSET Messages
    BY MsgTypesOK DEF MsgTypes
  <2>3. \A n \in {Msg("REP", i, remote[i])} : Truthful(n)'
    BY <1>1, <2>1 DEF Truthful, Msg, Ids, Keep, SetState, StateTypes
  <2> QED BY <1>1, <1>2, <1>3, <2>1, <2>2, <2>3, KeepInv, Zenon
<1>6. CASE ib_send_cm_rtu(i)
  <2>1. /\ i \in ActiveIds /\ state[i] = "rep_rcvd" /\ Keep(i, "established")
        /\ net' \subseteq net \cup {Msg("RTU", i, remote[i])}
    BY <1>6 DEF ib_send_cm_rtu, StateTypes, Send, Ids
  <2>2. {Msg("RTU", i, remote[i])} \in SUBSET Messages
    BY MsgTypesOK DEF MsgTypes
  <2>3. \A n \in {Msg("RTU", i, remote[i])} : Truthful(n)'
    BY <1>1, <2>1 DEF Truthful, Msg, Keep, SetState, StateTypes, PeerInv, Accepted, Ids
  <2>4. work'[i] = <<>>
    BY <1>1, <2>1 DEF WorkInv, WorkTypes
  <2> QED BY <1>1, <1>2, <1>3, <2>1, <2>2, <2>3, <2>4, KeepInv, Zenon
<1>7. CASE ib_send_cm_rej(i, cm_format_rej(i)) \/ ib_send_cm_drep(i)
  <2>1. EndCall(i)
    BY <1>7 DEF EndCall
  <2>2. state[i] # "established"
    BY <1>7 DEF ib_send_cm_rej, CanReject, ib_send_cm_drep
  <2> QED BY <1>1, <1>2, <1>3, <2>1, <2>2, EndCallInv, Zenon
<1> QED BY <1>4, <1>5, <1>6, <1>7 DEF cm_process_work, Answer

\* The retries or the time wait are over.
LEMMA TimerInv ==
  ASSUME IInv, NEW i \in Ids, cm_process_send_error(i) \/ cm_timewait_handler(i)
  PROVE  IInv'
<1>1. Ends(i) /\ UNCHANGED <<remote, destroy, qpn, net>>
  BY DEF cm_process_send_error, cm_timewait_handler, Ends
<1>2. PICK e : Report(i, e) /\ (i \in ActiveIds => e \in CmEvents)
  BY DEF cm_process_send_error, cm_timewait_handler, IInv, TypeOK, StateTypes, CmEvents
<1>3. WorkTypes' /\ \A a \in ActiveIds : a # i => work'[a] = work[a]
  BY <1>2, ReportTypes DEF IInv, TypeOK
<1>4. DestroyTypes' /\ net' \subseteq net \cup {} /\ {} \in SUBSET Messages
  BY <1>1 DEF IInv, TypeOK, DestroyTypes
<1> QED BY <1>1, <1>3, <1>4, EndInv, Zenon

-----------------------------------------------------------------------------
\* The handlers of the messages of the login.
LEMMA LoginMessagesInv ==
  ASSUME IInv, NEW m \in net,
         \/ cm_req_handler(m) \/ cm_req_handler_refused(m) \/ cm_rep_handler(m)
         \/ cm_dup_rep_handler(m) \/ cm_rtu_handler(m)
  PROVE  IInv'
<1> USE CmConstants DEF IInv, TypeOK
<1>0. m \in Messages /\ Truthful(m)
  BY DEF NetInv
<1>1. ASSUME UNCHANGED <<state, remote, work, timewait_info, oops, destroy, qpn>>,
             NEW n \in Messages, net' \subseteq net \cup {n}, Truthful(n)'
      PROVE  IInv'
  <2>1. WorkTypes' /\ WorkInv' /\ DestroyTypes' /\ DestroyInv'
    BY <1>1 DEF WorkTypes, WorkInv, DestroyTypes, DestroyInv, Live, CanReject
  <2>2. {n} \in SUBSET Messages /\ \A k \in {n} : Truthful(k)'
    BY <1>1
  <2> QED BY <1>1, <2>1, <2>2, MessageInv, Zenon
<1>2. CASE cm_req_handler_refused(m)
  <2> DEFINE n == Msg("REJ_REQ", NoId, m.from)
  <2>1. n \in Messages /\ Truthful(n)'
    BY <1>0 DEF Msg, Messages, MsgTypes, Truthful
  <2> QED BY <1>1, <1>2, <2>1 DEF cm_req_handler_refused, Send
<1>3. CASE cm_req_handler(m)
  <2> DEFINE n == Msg("REJ_REQ_STALE", NoId, m.from)
  <2>1. CASE /\ UNCHANGED <<state, remote, work, timewait_info, oops, destroy, qpn>>
             /\ Send({n})
    <3>1. n \in Messages /\ Truthful(n)'
      BY <1>0 DEF Msg, Messages, MsgTypes, Truthful
    <3> QED BY <1>1, <2>1, <3>1 DEF Send
  <2>2. ASSUME NEW i \in PassiveIds, state[i] = "none", SetState(i, "req_rcvd"),
               remote' = [remote EXCEPT ![i] = m.from], Report(i, "REQ"),
               timewait_info' = timewait_info \cup {i},
               UNCHANGED <<oops, destroy, net, qpn>>,
               m.type = "REQ"
        PROVE  IInv'
    <3>1. m.from \in ActiveIds /\ state' = [state EXCEPT ![i] = "req_rcvd"]
      BY <1>0, <2>2 DEF Truthful, SetState
    <3>2. WorkTypes' /\ \A a \in ActiveIds : work'[a] = work[a]
      BY <2>2, ReportTypes DEF Ids
    <3>3. StateTypes'
      BY <2>2, <3>1 DEF StateTypes, Ids, IdStates
    <3>4. TimewaitInv'
      BY <2>2, <3>1 DEF TimewaitInv, StateTypes, Ids
    <3>5. PeerInv'
      BY <2>2, <3>1 DEF PeerInv, StateTypes, Ids
    <3>6. WorkInv'
      BY <2>2, <3>1, <3>2 DEF WorkInv, StateTypes, Ids
    <3>7. Settled
      BY <2>2, <3>1 DEF Settled, StateTypes, Ids, Accepted
    <3>8. \A p \in PassiveIds : state'[p] = "established" => state[p] = "established"
      BY <2>2, <3>1 DEF StateTypes, Ids
    <3>9. net' \subseteq net \cup {} /\ {} \in SUBSET Messages /\ DestroyTypes'
      BY <2>2 DEF DestroyTypes
    <3>10. DestroyInv'
      <4>1. destroy'[i] = "no"
        BY <2>2 DEF DestroyInv, Live, Ids
      <4> QED BY <2>2, <4>1, DestroyKept DEF Ids
    <3> QED BY <3>10, <3>2, <3>3, <3>4, <3>5, <3>6, <3>7, <3>8, <3>9, SettledInv, Zenon
  <2> QED BY <1>3, <2>1, <2>2 DEF cm_req_handler
<1>4. CASE cm_rep_handler(m)
  <2> DEFINE n == Msg("REJ_STALE", m.to, m.from)
  <2>1. CASE /\ UNCHANGED <<state, remote, work, timewait_info, oops, destroy, qpn>>
             /\ Send({n})
    <3>1. n \in Messages /\ Truthful(n)'
      BY <1>0 DEF Msg, Messages, MsgTypes, Truthful
    <3> QED BY <1>1, <2>1, <3>1 DEF Send
  <2>2. CASE /\ Keep(m.to, "rep_rcvd") /\ Report(m.to, "REP")
             /\ remote' = [remote EXCEPT ![m.to] = m.from]
             /\ UNCHANGED <<destroy, net, qpn>>
    <3>1. /\ m.to \in ActiveIds /\ m.from \in PassiveIds /\ state[m.to] = "req_sent"
          /\ m.type = "REP" /\ remote[m.to] = NoId
      BY <1>0, <1>4 DEF cm_rep_handler, cm_acquire_id, Truthful, StateTypes, Ids
    <3>2. state' = [state EXCEPT ![m.to] = "rep_rcvd"] /\ UNCHANGED <<timewait_info, oops>>
      BY <2>2 DEF Keep, SetState
    <3>3. WorkTypes' /\ \A a \in ActiveIds : a # m.to => work'[a] = work[a]
      <4>1. "REP" \in CmEvents /\ m.to \in Ids
        BY <3>1 DEF CmEvents, Ids
      <4> QED BY <2>2, <4>1, ReportTypes
    <3>4. StateTypes'
      BY <2>2, <3>1, <3>2 DEF StateTypes, Ids, IdStates, CmStates
    <3>5. TimewaitInv'
      BY <3>1, <3>2 DEF TimewaitInv, StateTypes, Ids
    <3>6. PeerInv'
      BY <2>2, <3>1, <3>2 DEF PeerInv, StateTypes, Ids
    <3>7. WorkInv'
      <4>1. work'[m.to] = <<"REP">>
        BY <2>2, <3>1 DEF Report, WorkInv, WorkTypes, Ids
      <4> QED BY <3>1, <3>2, <3>3, <4>1, Zenon DEF WorkInv, StateTypes, Ids
    <3>8. Settled
      BY <2>2, <3>1, <3>2 DEF Settled, StateTypes, Ids, Accepted
    <3>9. \A p \in PassiveIds : state'[p] = "established" => state[p] = "established"
      BY <3>1, <3>2 DEF StateTypes, Ids
    <3>10. net' \subseteq net \cup {} /\ {} \in SUBSET Messages /\ DestroyTypes'
      BY <2>2 DEF DestroyTypes
    <3>11. DestroyInv'
      <4>1. destroy'[m.to] \notin {"free", "drep"}
        BY <2>2, <3>1 DEF DestroyInv, CanReject, Ids
      <4> QED BY <2>2, <3>1, <4>1, DestroyKept DEF Keep, Ids
    <3> QED BY <3>11, <3>3, <3>4, <3>5, <3>6, <3>7, <3>8, <3>9, <3>10, SettledInv, Zenon
  <2> QED BY <1>4, <2>1, <2>2 DEF cm_rep_handler
<1>5. CASE cm_dup_rep_handler(m)
  <2> DEFINE n == Msg("RTU", m.to, m.from)
  <2>1. /\ m.to \in ActiveIds /\ state[m.to] = "established" /\ remote[m.to] = m.from
        /\ m.from \in PassiveIds
        /\ UNCHANGED <<state, remote, work, timewait_info, oops, destroy, qpn>>
        /\ Send({n})
    BY <1>0, <1>5 DEF cm_dup_rep_handler, cm_acquire_id, Truthful, PeerInv, Ids
  <2>2. n \in Messages /\ Truthful(n)'
    BY <1>0, <2>1 DEF Msg, Messages, MsgTypes, Truthful, Accepted, Ids
  <2> QED BY <1>1, <2>1, <2>2 DEF Send
<1>6. CASE cm_rtu_handler(m)
  <2>1. /\ m.to \in PassiveIds /\ remote[m.to] = m.from /\ state[m.to] = "rep_sent"
        /\ m.from \in ActiveIds /\ remote[m.from] = m.to /\ state[m.from] # "rep_rcvd"
        /\ Keep(m.to, "established") /\ Report(m.to, "RTU")
        /\ UNCHANGED <<remote, destroy, qpn, net>>
    BY <1>0, <1>6 DEF cm_rtu_handler, cm_acquire_id, Truthful, Accepted
  <2>2. WorkTypes' /\ \A a \in ActiveIds : work'[a] = work[a]
    BY <2>1, ReportTypes DEF Ids
  <2>3. net' \subseteq net \cup {} /\ {} \in SUBSET Messages /\ DestroyTypes'
    BY <2>1 DEF DestroyTypes
  <2> QED BY <2>1, <2>2, <2>3, KeepInv, Zenon DEF Ids
<1> QED BY <1>2, <1>3, <1>4, <1>5, <1>6

\* The handlers of the messages that end a connection.
LEMMA EndMessagesInv ==
  ASSUME IInv, NEW m \in net,
         cm_dreq_handler(m) \/ cm_drep_handler(m) \/ cm_rej_handler(m)
  PROVE  IInv'
<1> USE CmConstants DEF IInv, TypeOK
<1>1. CASE cm_dreq_handler(m)
  <2> DEFINE n == Msg("DREP", m.to, m.from)
  <2>1. CASE /\ UNCHANGED <<state, remote, work, timewait_info, oops, destroy, qpn>>
             /\ Send({n})
    <3>1. WorkTypes' /\ WorkInv' /\ DestroyTypes' /\ DestroyInv'
      BY <2>1 DEF WorkTypes, WorkInv, DestroyTypes, DestroyInv, Live, CanReject
    <3>2. {n} \in SUBSET Messages /\ \A k \in {n} : Truthful(k)'
      <4>1. n \in Messages
        BY DEF Msg, Messages, MsgTypes
      <4> QED BY <4>1 DEF Msg, Truthful
    <3>3. net' \subseteq net \cup {n}
      BY <2>1 DEF Send
    <3> QED BY <2>1, <3>1, <3>2, <3>3, MessageInv
  <2>2. CASE /\ m.to \in Ids /\ state[m.to] \in {"rep_sent", "dreq_sent", "established"}
             /\ Keep(m.to, "dreq_rcvd") /\ Report(m.to, "DREQ")
             /\ UNCHANGED <<remote, destroy, qpn, net>>
    <3>1. WorkTypes' /\ \A a \in ActiveIds : a # m.to => work'[a] = work[a]
      BY <2>2, ReportTypes DEF CmEvents
    <3>2. net' \subseteq net \cup {} /\ {} \in SUBSET Messages /\ DestroyTypes'
      BY <2>2 DEF DestroyTypes
    <3> QED BY <2>2, <3>1, <3>2, KeepInv, Zenon
  <2> QED BY <1>1, <2>1, <2>2 DEF cm_dreq_handler, cm_acquire_id
<1>2. CASE cm_drep_handler(m) \/ cm_rej_handler(m)
  <2>1. PICK i \in Ids, e \in CmEvents :
          Ends(i) /\ Report(i, e) /\ UNCHANGED <<remote, destroy, qpn, net>>
    <3>1. CASE cm_drep_handler(m)
      BY <3>1 DEF cm_drep_handler, cm_acquire_id, CmEvents, Ends
    <3>2. CASE cm_rej_handler(m)
      BY <3>2 DEF cm_rej_handler, CmEvents, Ends
    <3> QED BY <1>2, <3>1, <3>2
  <2>2. WorkTypes' /\ \A a \in ActiveIds : a # i => work'[a] = work[a]
    BY <2>1, ReportTypes
  <2>3. net' \subseteq net \cup {} /\ {} \in SUBSET Messages /\ DestroyTypes'
    BY <2>1 DEF DestroyTypes
  <2> QED BY <2>1, <2>2, <2>3, EndInv, Zenon
<1> QED BY <1>1, <1>2

-----------------------------------------------------------------------------
\* No CM ID exists initially.
LEMMA InitInv == Init => IInv
<1> SUFFICES ASSUME Init PROVE IInv
  OBVIOUS
<1>1. StateTypes
  BY CmConstants, Zenon DEF Init, StateTypes, IdStates, CmStates, Ids
<1>2. WorkTypes
  <2>1. <<>> \in Seq(CmEvents \cup {"REQ"})
    OBVIOUS
  <2> QED BY <2>1 DEF Init, WorkTypes
<1>3. DestroyTypes /\ DestroyInv
  BY DEF Init, DestroyTypes, DestroyInv, CanReject
<1> QED BY <1>1, <1>2, <1>3
       DEF Init, IInv, TypeOK, TimewaitInv, PeerInv, NetInv, WorkInv, EndsAgree, Ids

\* Every step preserves the invariant.
LEMMA NextInv == IInv /\ [Next]_vars => IInv'
<1> SUFFICES ASSUME IInv, [Next]_vars PROVE IInv'
  OBVIOUS
<1>1. CASE Next
  BY <1>1, RequestInv, CallInv, DestroyStepInv, WorkStepInv, TimerInv,
     LoginMessagesInv, EndMessagesInv
     DEF Next, Receive
<1>2. CASE UNCHANGED vars
  <2>1. WorkTypes' /\ WorkInv' /\ net' \subseteq net \cup {} /\ {} \in SUBSET Messages
    BY <1>2 DEF vars, IInv, TypeOK, WorkTypes, WorkInv
  <2>2. DestroyTypes' /\ DestroyInv'
    BY <1>2 DEF vars, IInv, TypeOK, DestroyTypes, DestroyInv, Live, CanReject
  <2> QED BY <1>2, <2>1, <2>2, MessageInv, Zenon DEF vars
<1> QED BY <1>1, <1>2

(***************************************************************************)
(* The invariant of the connection manager at both ends.                   *)
(***************************************************************************)
THEOREM CmInvariance == Spec => []IInv
BY InitInv, NextInv, PTL DEF Spec

(***************************************************************************)
(* The CM IDs, the timewait records and the messages under way keep their  *)
(* types.                                                                  *)
(***************************************************************************)
THEOREM CmTypes == Spec => []TypeOK
<1>1. IInv => TypeOK
  BY DEF IInv
<1> QED BY <1>1, CmInvariance, PTL

(***************************************************************************)
(* However often and late messages come and whichever QP numbers are used  *)
(* again: a connection that the target takes for established is one for    *)
(* which the initiator has accepted the REP and sent the RTU.              *)
(***************************************************************************)
THEOREM ConnectionsAgree == Spec => []EndsAgree
<1>1. IInv => EndsAgree
  BY DEF IInv
<1> QED BY <1>1, CmInvariance, PTL

(***************************************************************************)
(* cm_enter_timewait() never uses a timewait_info that is gone, and a CM   *)
(* ID has none when its connection is over, also if messages come while    *)
(* cm_destroy_id() does not hold the lock.  It frees a CM ID that still    *)
(* has one only if the login was completed or the peer disconnected.       *)
(***************************************************************************)
THEOREM TimewaitInfoIsHeld == Spec => []TimewaitInfoHeld
<1>1. IInv => TimewaitInfoHeld
  <2> SUFFICES ASSUME IInv, NEW i \in timewait_info, state[i] # "gone"
               PROVE  /\ state[i] \notin {"none", "idle", "timewait"}
                      /\ destroy[i] = "free" =>
                           state[i] \in {"established", "dreq_sent", "dreq_rcvd"}
    BY DEF IInv, TypeOK, StateTypes, TimewaitInv, TimewaitInfoHeld, DestroyInv, Live
  <2> QED BY DEF IInv, TypeOK, StateTypes, IdStates, CmStates, TimewaitInv,
                 DestroyInv, CanReject
<1> QED BY <1>1, CmInvariance, PTL

-----------------------------------------------------------------------------
\* What a step does to the CM IDs of the active side.
LEMMA ClientSteps ==
  IInv /\ [Next]_vars
    => [\A a \in ActiveIds : Live(a) /\ Live(a)' => ClientStep(a)]_vars
<1> SUFFICES ASSUME IInv, Next, NEW a \in ActiveIds, Live(a), Live(a)'
             PROVE  ClientStep(a)
  OBVIOUS
<1> USE CmConstants DEF IInv, TypeOK, StateTypes, WorkTypes, Ids, Keep, SetState,
      cm_enter_timewait, cm_reset_to_idle
<1>0. CASE state'[a] = state[a] /\ work'[a] = work[a]
  BY <1>0 DEF ClientStep
<1>1. ASSUME NEW i \in Ids, Disconnect(i) PROVE ClientStep(a)
  BY <1>1 DEF Disconnect, ib_send_cm_dreq, ClientStep, CmSendDreq
<1>2. ASSUME NEW i \in Ids, Withdraw(i) PROVE ClientStep(a)
  BY <1>2, <1>0 DEF Withdraw, ib_send_cm_rej
<1>3. ASSUME NEW i \in Ids, ib_send_cm_req(i) PROVE ClientStep(a)
  BY <1>3 DEF ib_send_cm_req, ClientStep, Live, CmSendReq
<1>4. ASSUME NEW i \in Ids,
             cm_destroy_id(i) \/ cm_destroy_id_call(i) \/ cm_destroy_id_free(i)
      PROVE  ClientStep(a)
  <2>1. CASE cm_destroy_id(i)
    <3>1. CASE i = a /\ state[a] = "dreq_sent"
      <4>1. destroy'[a] = "free" /\ state'[a] = "timewait" /\ work'[a] = work[a]
        BY <2>1, <3>1 DEF cm_destroy_id, DestroyTypes
      <4> QED BY <3>1, <4>1 DEF ClientStep, CmDestroy
    <3> QED BY <2>1, <3>1, <1>0 DEF cm_destroy_id
  <2>2. CASE cm_destroy_id_call(i)
    <3>1. CASE i = a
      <4>1. work'[a] = work[a] /\ destroy'[a] # "no"
        BY <2>2, <3>1 DEF cm_destroy_id_call, DestroyTypes
      <4>2. state'[a] = state[a] \/ state'[a] \in CmDestroy(state[a])
        BY <2>2, <3>1 DEF cm_destroy_id_call, ib_send_cm_rej, CanReject, ib_send_cm_dreq,
           ib_send_cm_drep, Overtaken, CmDestroy, CmSendRej, CmSendDreq, CmSendDrep
      <4> QED BY <4>1, <4>2 DEF ClientStep
    <3>2. CASE i # a
      BY <2>2, <3>2, <1>0 DEF cm_destroy_id_call, ib_send_cm_rej, ib_send_cm_dreq,
         ib_send_cm_drep, Overtaken
    <3> QED BY <3>1, <3>2
  <2>3. CASE cm_destroy_id_free(i)
    BY <2>3, <1>0 DEF cm_destroy_id_free, Live
  <2> QED BY <1>4, <2>1, <2>2, <2>3
<1>5. ASSUME NEW i \in Ids, cm_process_work(i) PROVE ClientStep(a)
  <2>1. CASE a # i
    BY <1>5, <2>1, <1>0 DEF cm_process_work, Answer, ib_send_cm_rep, ib_send_cm_rtu,
         ib_send_cm_rej, ib_send_cm_drep
  <2>2. CASE a = i
    <3>1. work[a] # <<>> /\ work'[a] = Tail(work[a])
      BY <1>5, <2>2 DEF cm_process_work
    <3>2. \/ state'[a] = state[a]
          \/ /\ Head(work[a]) = "REP"
             /\ state'[a] \in CmSendRtu(state[a]) \cup CmSendRej(state[a])
          \/ Head(work[a]) = "DREQ" /\ state'[a] \in CmSendDrep(state[a])
      <4>1. CASE UNCHANGED state
        BY <4>1
      <4>2. CASE Answer(a, Head(work[a]))
        <5>1. CanReject(a) => state[a] = "rep_rcvd" /\ Head(work[a]) = "REP"
          BY <3>1 DEF CanReject, WorkInv
        <5> QED BY <4>2, <5>1 DEF Answer, ib_send_cm_rep, ib_send_cm_rtu,
           ib_send_cm_rej, ib_send_cm_drep, CmSendRtu, CmSendRej, CmSendDrep
      <4> QED BY <1>5, <2>2, <4>1, <4>2 DEF cm_process_work
    <3> QED BY <3>1, <3>2 DEF ClientStep
  <2> QED BY <2>1, <2>2
<1>6. ASSUME NEW i \in Ids, NEW e, NEW s, Report(i, e), SetState(i, s),
             i = a => /\ <<state[a], e, s>> \in CmIndications
                      /\ <<state[a], e, s>> \in CmSendErrors => work[a] = <<>>
      PROVE  ClientStep(a)
  <2>1. CASE a # i
    BY <1>6, <2>1, <1>0 DEF Report
  <2>2. CASE a = i
    <3>1. state'[a] = s /\ work'[a] = Append(work[a], e)
      BY <1>6, <2>2 DEF Report
    <3> QED BY <1>6, <2>2, <3>1, Zenon DEF ClientStep
  <2> QED BY <2>1, <2>2
<1>7. ASSUME NEW i \in Ids, cm_process_send_error(i) PROVE ClientStep(a)
  BY <1>7, <1>6, Zenon DEF cm_process_send_error, CmIndications, CmSendErrors, WorkInv
<1>8. ASSUME NEW i \in Ids, cm_timewait_handler(i) PROVE ClientStep(a)
  BY <1>8, <1>6, Zenon
     DEF cm_timewait_handler, CmIndications, CmTimewaitExit, CmSendErrors
<1>9. ASSUME NEW m \in net, Receive(m) PROVE ClientStep(a)
  <2>1. CASE cm_req_handler(m)
    <3>1. CASE UNCHANGED <<state, work>>
      BY <3>1, <1>0
    <3>2. ASSUME NEW i \in PassiveIds, SetState(i, "req_rcvd"), Report(i, "REQ")
          PROVE  ClientStep(a)
      BY <3>2, <1>0 DEF Report
    <3> QED BY <2>1, <3>1, <3>2, Zenon DEF cm_req_handler
  <2>2. CASE cm_req_handler_refused(m) \/ cm_dup_rep_handler(m)
    BY <2>2, <1>0 DEF cm_req_handler_refused, cm_dup_rep_handler
  <2>3. CASE cm_rep_handler(m)
    BY <2>3, <1>0, <1>6, Zenon
       DEF Messages, cm_rep_handler, cm_acquire_id, CmIndications, CmRepReceived,
           CmSendErrors
  <2>4. CASE cm_rtu_handler(m)
    BY <2>4, <1>0 DEF cm_rtu_handler, cm_acquire_id, Report
  <2>5. CASE cm_dreq_handler(m)
    BY <2>5, <1>0, <1>6, Zenon DEF cm_dreq_handler, cm_acquire_id, CmIndications,
         CmDreqReceived, CmSendErrors
  <2>6. CASE cm_drep_handler(m)
    BY <2>6, <1>6, Zenon
       DEF cm_drep_handler, cm_acquire_id, CmIndications, CmDrepReceived, CmSendErrors
  <2>7. CASE cm_rej_handler(m)
    BY <2>7, <1>6, Zenon
       DEF cm_rej_handler, Stale, CmIndications, CmRejReceived, CmSendErrors
  <2> QED BY <1>9, <2>1, <2>2, <2>3, <2>4, <2>5, <2>6, <2>7 DEF Receive
<1> QED BY <1>1, <1>2, <1>3, <1>4, <1>5, <1>7, <1>8, <1>9 DEF Next

(***************************************************************************)
(* The client of the active side sees what CmClient lists and nothing      *)
(* else: the state of its CM ID changes with the event that goes with it   *)
(* or in a call, ib_destroy_cm_id() included, and the event of a send that *)
(* failed never overtakes another one, although the client may leave an    *)
(* REP without an answer and send an REQ again.                            *)
(***************************************************************************)
THEOREM ClientContract == Spec => KeepsToClient
BY CmInvariance, ClientSteps, PTL DEF Spec, KeepsToClient
=============================================================================
