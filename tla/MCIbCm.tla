------------------------------- MODULE MCIbCm -------------------------------
(* Two connections of an initiator to a target; at one end at least the
   second one has the QP number of the first one. *)
EXTENDS IbCm, TLC

MCQpNumbers ==
  {f \in [Ids -> {1, 2}] :
     /\ \E side \in {ActiveIds, PassiveIds} : \A i \in side : f[i] = 1
     /\ \A side \in {ActiveIds, PassiveIds} : \E i \in side : f[i] = 1}

MCSymmetry == Permutations(ActiveIds) \cup Permutations(PassiveIds)

(***************************************************************************)
(* What the future of a state does not depend on is left out of the view   *)
(* of it: messages on which no handler acts any more, and the events that  *)
(* the client only takes note of, but for the fact that there are some.    *)
(***************************************************************************)
\* There may be another connection at the target.
MoreIds == \E p \in PassiveIds : state[p] = "none"

Over(i) == state[i] \in {"idle", "timewait"}

\* The CM ID i has, or may get, the connection with j; it gets one only once.
Open(i, j) ==
  /\ i \in Ids /\ Live(i) /\ remote[i] \in {NoId, j}
  /\ remote[i] = j => ~Over(i) /\ state[i] # "req_sent"

Matters(m) ==
  CASE m.type = "REQ" -> MoreIds \/ (Live(m.from) /\ remote[m.from] = NoId)
    [] m.type = "RTU" -> state[m.to] = "rep_sent"
    [] m.type \in {"REP", "DREP"} -> Open(m.to, m.from)
    [] m.type = "DREQ" -> Open(m.to, m.from) \/ Open(m.from, m.to)
    [] m.type \in {"REJ", "REJ_STALE"} ->
         /\ m.to \in Ids /\ Live(m.to) /\ remote[m.to] \in {NoId, m.from}
         /\ m.to \in PassiveIds => ~Over(m.to)
    [] m.type \in {"REJ_REQ", "REJ_REQ_STALE"} -> Live(m.to) /\ remote[m.to] = NoId
    [] m.type = "REJ_TIMEOUT" ->
         MoreIds \/ \E p \in PassiveIds : Live(p) /\ ~Over(p) /\ remote[p] = m.from

\* The event e can still be answered.
Asks(i, e) ==
  \/ e = "REQ" /\ state[i] \in {"req_rcvd", "rep_sent"}
  \/ e = "REP" /\ state[i] = "rep_rcvd"
  \/ e = "DREQ" /\ state[i] = "dreq_rcvd"

\* Whether an event asks for an answer, and whether others follow it.
WorkView(i) ==
  LET asks == {k \in DOMAIN work[i] : Asks(i, work[i][k])}
  IN  <<asks # {}, i \in ActiveIds /\ work[i] # <<>> /\ Len(work[i]) \notin asks>>

MCView == <<state, remote, [i \in Ids |-> WorkView(i)], timewait_info, destroy, oops,
            qpn, {m \in net : Matters(m)}>>
=============================================================================
