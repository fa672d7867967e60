-------------------------- MODULE SrpChannelTypes ---------------------------
(***************************************************************************)
(* Proofs about SrpChannel: types, the steps of srp_rport_reconnect() and  *)
(* task management functions, for any number of commands, channels and     *)
(* tags, any queue size and any number of credits.                         *)
(***************************************************************************)
EXTENDS SrpChannel, FiniteSetTheorems, TLAPS

\* The parts of TypeOK, and what it leaves out: the target has finitely many
\* requests, and a request, a response handler or an abort that works on a
\* command has the slot of a command.
CountTypes ==
  /\ req_lim \in [Chans -> Int] /\ free_tx \in [Chans -> Int]
  /\ posted \in [Chans -> Nat] /\ owed \in [Chans -> Nat]
  /\ granted \in Nat \ {0}

SlotTypes ==
  /\ free_reqs \subseteq Slots
  /\ scmnd \in [Slots -> Cmds \cup {NoCmd}]
  /\ cmd \in [Cmds -> [at : {"core", "map", "lld"}, slot : Slots \cup {NoCmd}]]
  /\ \A c \in Cmds : cmd[c].at # "core" => cmd[c].slot \in Slots

Requests == [ch : Chans, kind : {"cmd", "abort", "lun_reset"},
             tag : Tags \cup {NoCmd}, cmd : Cmds \cup {NoCmd}, n : Nat]

WireTypes ==
  /\ wire \subseteq Requests /\ IsFiniteSet(wire)
  /\ \A r \in wire : r.kind = "cmd" => r.tag \in Tags /\ r.cmd \in Cmds

LinkTypes ==
  /\ connected \in [Chans -> BOOLEAN] /\ alive \in [Chans -> BOOLEAN]
  /\ qp_in_error \in BOOLEAN /\ tl_err \in BOOLEAN
  /\ port \in {"running", "down"}
  /\ tsk_mgmt_done \in [Chans -> BOOLEAN]
  /\ xport \in {"idle", "reset", "create", "connect", "failed"}

HandlerTypes ==
  /\ rx \in [Chans -> [cmd : Cmds \cup {NoCmd}, tag : Tags \cup {NoCmd},
                       delta : Nat, answers : Cmds \cup {NoCmd}]]
  /\ \A ch \in Chans : rx[ch] # RxIdle => rx[ch].cmd \in Cmds /\ rx[ch].tag \in Tags
  /\ tm \in [at : {"idle", "claim", "check", "lock", "wait", "done", "failed"},
             cmd : Cmds \cup {NoCmd}, slot : Chans \X (Tags \cup {NoCmd})]
  /\ tm.at = "idle" => tm = TmIdle
  /\ tm.at = "claim" => tm.cmd # NoCmd
  /\ IF tm.cmd = NoCmd THEN tm.slot = TmIdle.slot ELSE tm.slot \in Slots

TypeInv == CountTypes /\ SlotTypes /\ WireTypes /\ LinkTypes /\ HandlerTypes

\* The steps of srp_rport_reconnect(): no channel is connected before the new
\* queue pairs exist, and nothing of the old ones is left afterwards.
XportInv ==
  /\ xport # "idle" => InQueuecommand = {}
  /\ xport \in {"reset", "create"} => \A ch \in Chans : ~connected[ch]
  /\ xport = "connect" =>
       /\ wire = {}
       /\ \A ch \in Chans : /\ owed[ch] = 0 /\ posted[ch] = 0
                            /\ free_tx[ch] = QueueSize /\ rx[ch] = RxIdle

\* The task management functions that the target has not answered.
TaskFunctions(rs) == {r \in rs : r.kind # "cmd"}

\* A task management function on the wire is the one that srp_send_tsk_mgmt()
\* waits for, and ch->tsk_mgmt_done is not left over from an earlier one.
TaskRequests ==
  /\ \A q, r \in wire : q.kind # "cmd" /\ r.kind # "cmd" => q = r
  /\ \A r \in wire : r.kind # "cmd" =>
       /\ tm.at = "wait" /\ r.ch = tm.slot[1] /\ ~tsk_mgmt_done[r.ch]
       /\ r.kind = "lun_reset" <=> tm.cmd = NoCmd
  /\ tm.at = "lock" => ~tsk_mgmt_done[tm.slot[1]]

\* srp_reset_device(): no command is queued meanwhile, and a target that has
\* answered the LUN reset has forgotten every command.
ResetInv ==
  /\ tm.cmd = NoCmd /\ tm.at # "idle" => InQueuecommand = {}
  /\ tm.cmd = NoCmd /\ (tm.at = "done" \/ (tm.at = "wait" /\ tsk_mgmt_done[tm.slot[1]])) =>
       \A r \in wire : r.kind # "cmd"

TaskInv == NoRaces => TaskRequests /\ ResetInv

\* The inductive invariant.
TypesInv == TypeInv /\ XportInv /\ TaskInv

-----------------------------------------------------------------------------
(* Counting.                                                               *)

\* The number of a new request is new: a set of n requests does not use all
\* of the n + 1 numbers it is taken from.
LEMMA FreshIsNew ==
  ASSUME IsFiniteSet(wire)
  PROVE  Fresh \in Nat /\ \A r \in wire : r.n # Fresh
<1> DEFINE k == Cardinality(wire)
           f == [r \in wire |-> r.n]
           ns == {f[r] : r \in wire}
<1>1. k \in Nat
  BY FS_CardinalityType
<1>2. f \in Surjection(wire, ns)
  BY DEF Surjection
<1>3. IsFiniteSet(ns) /\ Cardinality(ns) <= k /\ Cardinality(ns) \in Nat
  BY <1>2, FS_Surjection, FS_CardinalityType, Zenon
<1>4. IsFiniteSet(0..k) /\ Cardinality(0..k) = k + 1
  BY <1>1, FS_Interval
<1>5. ~(0..k \subseteq ns)
  <2>1. 0..k \in SUBSET ns => Cardinality(0..k) <= Cardinality(ns)
    BY <1>3, FS_Subset, Zenon
  <2> QED BY <1>1, <1>3, <1>4, <2>1
<1>6. \E n \in 0..k : \A r \in wire : r.n # n
  BY <1>5
<1> QED BY <1>1, <1>6 DEF Fresh

\* The credits that requests use are counted request by request.
LEMMA CreditsType ==
  ASSUME NEW rs, IsFiniteSet(rs), NEW ch
  PROVE  CreditsOf(rs, ch) \in Nat /\ IsFiniteSet({q \in rs : q.ch = ch})
<1>1. {q \in rs : q.ch = ch} \in SUBSET rs
  OBVIOUS
<1> QED BY <1>1, FS_Subset, FS_CardinalityType, Zenon DEF CreditsOf

LEMMA CreditsAdded ==
  ASSUME NEW rs, IsFiniteSet(rs), NEW r, r \notin rs, NEW ch
  PROVE  CreditsOf(rs \cup {r}, ch) = CreditsOf(rs, ch) + IF r.ch = ch THEN 1 ELSE 0
<1> DEFINE S == {q \in rs : q.ch = ch}
<1>1. IsFiniteSet(S) /\ Cardinality(S) \in Nat
  BY CreditsType DEF CreditsOf
<1>2. CASE r.ch = ch
  <2>1. {q \in rs \cup {r} : q.ch = ch} = S \cup {r} /\ r \notin S
    BY <1>2
  <2> QED BY <1>1, <1>2, <2>1, FS_AddElement, Zenon DEF CreditsOf
<1>3. CASE r.ch # ch
  <2>1. {q \in rs \cup {r} : q.ch = ch} = S
    BY <1>3
  <2>2. CreditsOf(rs \cup {r}, ch) = CreditsOf(rs, ch)
    BY <2>1 DEF CreditsOf
  <2>3. CreditsOf(rs, ch) \in Nat
    BY CreditsType, Zenon
  <2> QED BY <1>3, <2>2, <2>3
<1> QED BY <1>2, <1>3

LEMMA CreditsRemoved ==
  ASSUME NEW rs, IsFiniteSet(rs), NEW gone \in SUBSET rs, NEW ch
  PROVE  /\ CreditsOf(rs \ gone, ch) = CreditsOf(rs, ch) - CreditsOf(gone, ch)
         /\ CreditsOf(rs, ch) \in Nat /\ CreditsOf(gone, ch) \in Nat
         /\ CreditsOf(rs \ gone, ch) \in Nat
<1> DEFINE S == {q \in rs : q.ch = ch}
           G == {q \in gone : q.ch = ch}
<1>1. IsFiniteSet(gone) /\ IsFiniteSet(rs \ gone)
  BY FS_Subset, FS_Difference, Zenon
<1>2. IsFiniteSet(S)
  BY CreditsType, Zenon
<1>3. S \cap G = G /\ {q \in rs \ gone : q.ch = ch} = S \ G
  OBVIOUS
<1>4. Cardinality(S \ G) = Cardinality(S) - Cardinality(G)
  <2>1. Cardinality(S \ G) = Cardinality(S) - Cardinality(S \cap G)
    BY <1>2, FS_Difference, Zenon
  <2> HIDE DEF S, G
  <2> QED BY <1>3, <2>1
<1> QED BY <1>1, <1>3, <1>4, CreditsType, Zenon DEF CreditsOf

LEMMA CreditOfOne ==
  ASSUME NEW r, NEW ch
  PROVE  CreditsOf({r}, ch) = IF r.ch = ch THEN 1 ELSE 0
<1>1. CASE r.ch = ch
  <2>1. {q \in {r} : q.ch = ch} = {r}
    BY <1>1
  <2> QED BY <1>1, <2>1, FS_Singleton DEF CreditsOf
<1>2. CASE r.ch # ch
  <2>1. {q \in {r} : q.ch = ch} = {}
    BY <1>2
  <2> QED BY <1>2, <2>1, FS_EmptySet DEF CreditsOf
<1> QED BY <1>1, <1>2

-----------------------------------------------------------------------------
(* Types.                                                                  *)

\* What srp_send_completion() polls was posted.
LEMMA PollTypes ==
  ASSUME CountTypes, NEW ch \in Chans, NEW p \in Polls(ch)
  PROVE  p.ok \in Nat /\ p.failed \in Nat /\ p.ok + p.failed <= posted[ch]
BY DEF CountTypes, Polls

LEMMA QpErrTypes ==
  ASSUME LinkTypes, NEW ch \in Chans, NEW err, srp_handle_qp_err(ch, err),
         UNCHANGED <<connected, alive, port, tsk_mgmt_done, xport>>
  PROVE  LinkTypes'
<1>1. tl_err' \in BOOLEAN /\ qp_in_error' \in BOOLEAN
  BY Zenon DEF srp_handle_qp_err
<1> QED BY <1>1 DEF LinkTypes

\* scsi_done() changes the commands that were posted, and no other.
LEMMA DoneEffect ==
  ASSUME SlotTypes, NEW cs, cmd' = Done(cs)
  PROVE  /\ \A c \in Cmds : cmd'[c] = IF c \in cs /\ cmd[c].at = "lld" THEN InCore ELSE cmd[c]
         /\ cmd' \in [Cmds -> [at : {"core", "map", "lld"}, slot : Slots \cup {NoCmd}]]
         /\ \A c \in Cmds : cmd'[c].at # "core" => cmd'[c].slot \in Slots
         /\ InQueuecommand' = InQueuecommand
         /\ \A ch : Held(ch)' = Held(ch)
<1>1. \A c \in Cmds : cmd'[c] = IF c \in cs /\ cmd[c].at = "lld" THEN InCore ELSE cmd[c]
  BY DEF Done
<1>2. cmd' \in [Cmds -> [at : {"core", "map", "lld"}, slot : Slots \cup {NoCmd}]]
  BY DEF Done, SlotTypes, InCore
<1>3. \A c \in Cmds : /\ cmd'[c].at = "map" <=> cmd[c].at = "map"
                      /\ cmd[c].at = "map" => cmd'[c] = cmd[c]
  BY <1>1 DEF InCore
<1>4. InQueuecommand' = InQueuecommand
  BY <1>3 DEF InQueuecommand
<1>5. \A ch : Held(ch)' = Held(ch)
  BY <1>3, <1>4 DEF Held, InQueuecommand
<1>6. \A c \in Cmds : cmd'[c].at # "core" => cmd'[c].slot \in Slots
  BY <1>1 DEF SlotTypes, InCore
<1> QED BY <1>1, <1>2, <1>4, <1>5, <1>6

LEMMA FinishTypes ==
  ASSUME SlotTypes, NEW slots \in SUBSET Slots, srp_finish_req(slots), NEW cs, cmd' = Done(cs)
  PROVE  SlotTypes'
<1>1. free_reqs' \subseteq Slots
  BY DEF srp_finish_req, Busy, SlotTypes
<1>2. scmnd' \in [Slots -> Cmds \cup {NoCmd}]
  BY DEF srp_finish_req, SlotTypes
<1> QED BY <1>1, <1>2, DoneEffect, Zenon DEF SlotTypes

\* A request that is sent is new to the target.
LEMMA SentTypes ==
  ASSUME WireTypes, NEW r \in Requests, r.n = Fresh,
         r.kind = "cmd" => r.tag \in Tags /\ r.cmd \in Cmds, wire' = wire \cup {r}
  PROVE  WireTypes' /\ r \notin wire
<1>1. r \notin wire
  BY FreshIsNew DEF WireTypes
<1>2. IsFiniteSet(wire')
  BY FS_AddElement DEF WireTypes
<1> QED BY <1>1, <1>2 DEF WireTypes

LEMMA AnsweredTypes ==
  ASSUME WireTypes, wire' \subseteq wire
  PROVE  WireTypes'
<1>1. IsFiniteSet(wire')
  BY FS_Subset, Zenon DEF WireTypes
<1> QED BY <1>1 DEF WireTypes

LEMMA RequestTypes ==
  ASSUME WireTypes, NEW ch \in Chans, NEW kind \in {"cmd", "abort", "lun_reset"},
         NEW tag \in Tags \cup {NoCmd}, NEW c \in Cmds \cup {NoCmd}
  PROVE  /\ Request(ch, kind, tag, c) \in Requests
         /\ Request(ch, kind, tag, c).n = Fresh
         /\ Request(ch, kind, tag, c).ch = ch /\ Request(ch, kind, tag, c).kind = kind
         /\ Request(ch, kind, tag, c).tag = tag /\ Request(ch, kind, tag, c).cmd = c
BY FreshIsNew DEF Request, Requests, WireTypes

\* Requests that are given up count as owed.
LEMMA GiveUpTypes ==
  ASSUME TypeInv, NEW rs \in SUBSET wire, GiveUp(rs), UNCHANGED lists
  PROVE  /\ WireTypes' /\ owed' \in [Chans -> Nat]
         /\ \E gone \in SUBSET rs :
              /\ wire' = wire \ gone
              /\ \A ch \in Chans : owed'[ch] = owed[ch] + CreditsOf(gone, ch)
              /\ "late_response" \notin races => gone = rs
<1> DEFINE gone == IF "late_response" \in races THEN {} ELSE rs
<1>1. /\ gone \in SUBSET rs /\ wire' = wire \ gone
      /\ owed' = [ch \in Chans |-> owed[ch] + CreditsOf(gone, ch)]
      /\ "late_response" \notin races => gone = rs
  BY DEF GiveUp
<1>2. WireTypes'
  BY <1>1, AnsweredTypes DEF TypeInv
<1> HIDE DEF gone
<1>3. IsFiniteSet(gone)
  <2>1. gone \in SUBSET wire
    BY <1>1
  <2> QED BY <2>1, FS_Subset, Zenon DEF TypeInv, WireTypes
<1>4. \A ch \in Chans : CreditsOf(gone, ch) \in Nat
  BY <1>3, CreditsType, Zenon
<1>5. owed' \in [Chans -> Nat]
  BY <1>1, <1>4 DEF TypeInv, CountTypes
<1> QED BY <1>1, <1>2, <1>5

\* Every step keeps the types.
LEMMA QueueTypes ==
  ASSUME TypeInv, UNCHANGED setting, NEW c \in Cmds, NEW ch \in Chans,
         \/ srp_queuecommand(c, ch) \/ srp_queuecommand_busy(c, ch)
         \/ srp_post_send(c) \/ srp_queuecommand_err(c)
  PROVE  TypeInv'
<1> USE ChannelConstants DEF TypeInv, setting
<1>1. CASE srp_queuecommand(c, ch)
  <2>1. PICK p \in Polls(ch), s \in free_reqs :
          /\ free_tx' = [free_tx EXCEPT ![ch] = @ + p.ok - 1]
          /\ posted' = [posted EXCEPT ![ch] = @ - p.ok - p.failed]
          /\ srp_handle_qp_err(ch, p.failed > 0)
          /\ free_reqs' = free_reqs \ {s}
          /\ scmnd' = [scmnd EXCEPT ![s] = c]
          /\ cmd' = [cmd EXCEPT ![c] = [at |-> "map", slot |-> s]]
    BY <1>1, Zenon DEF srp_queuecommand
  <2>2. CountTypes'
    BY <1>1, <2>1, PollTypes DEF CountTypes, srp_queuecommand, target
  <2>3. SlotTypes'
    BY <2>1 DEF SlotTypes
  <2>4. LinkTypes'
    BY <1>1, <2>1, QpErrTypes, Zenon DEF srp_queuecommand
  <2> QED BY <1>1, <2>2, <2>3, <2>4 DEF srp_queuecommand, target, WireTypes, HandlerTypes
<1>2. CASE srp_queuecommand_busy(c, ch)
  <2>1. PICK p \in Polls(ch) :
          /\ free_tx' = [free_tx EXCEPT ![ch] = @ + p.ok]
          /\ posted' = [posted EXCEPT ![ch] = @ - p.ok - p.failed]
          /\ srp_handle_qp_err(ch, p.failed > 0)
    BY <1>2, Zenon DEF srp_queuecommand_busy
  <2>2. CountTypes'
    BY <1>2, <2>1, PollTypes DEF CountTypes, srp_queuecommand_busy, target
  <2>3. LinkTypes'
    BY <1>2, <2>1, QpErrTypes, Zenon DEF srp_queuecommand_busy
  <2> QED BY <1>2, <2>2, <2>3
        DEF srp_queuecommand_busy, target, requests, WireTypes, HandlerTypes, SlotTypes
<1>3. CASE srp_post_send(c)
  <2> DEFINE s == cmd[c].slot
  <2>1. s \in Slots /\ s[1] \in Chans /\ s[2] \in Tags
    BY <1>3 DEF srp_post_send, SlotTypes, Slots
  <2>2. WireTypes'
    BY <1>3, <2>1, RequestTypes, SentTypes DEF srp_post_send
  <2>3. CountTypes' /\ SlotTypes'
    BY <1>3, <2>1 DEF srp_post_send, CountTypes, SlotTypes
  <2> QED BY <1>3, <2>2, <2>3 DEF srp_post_send, link, LinkTypes, HandlerTypes
<1>4. CASE srp_queuecommand_err(c)
  <2>1. cmd[c].slot \in Slots /\ cmd[c].slot[1] \in Chans
    BY <1>4 DEF srp_queuecommand_err, SlotTypes, Slots
  <2>2. CountTypes' /\ SlotTypes'
    BY <1>4, <2>1 DEF srp_queuecommand_err, target, CountTypes, SlotTypes, InCore
  <2> QED BY <1>4, <2>2 DEF srp_queuecommand_err, target, link, WireTypes, LinkTypes, HandlerTypes
<1> QED BY <1>1, <1>2, <1>3, <1>4

LEMMA ReceiveTypes ==
  ASSUME TypeInv, UNCHANGED setting, Receive
  PROVE  TypeInv'
<1> USE ChannelConstants DEF TypeInv, setting
<1>1. ASSUME NEW r \in wire, srp_process_rsp(r)
      PROVE  TypeInv'
  <2> DEFINE s == <<r.ch, r.tag>>
  <2>1. r.ch \in Chans /\ r.tag \in Tags /\ r.cmd \in Cmds /\ s \in Slots
    BY <1>1 DEF srp_process_rsp, WireTypes, Requests, Slots
  <2>2. PICK delta \in 0..(owed[r.ch] + 1) :
          /\ owed' = [owed EXCEPT ![r.ch] = @ + 1 - delta]
          /\ \/ /\ scmnd[s] # NoCmd
                /\ rx' = [rx EXCEPT ![r.ch] =
                            [cmd |-> scmnd[s], tag |-> r.tag, delta |-> delta,
                             answers |-> r.cmd]]
                /\ scmnd' = [scmnd EXCEPT ![s] = NoCmd]
                /\ UNCHANGED req_lim
             \/ /\ scmnd[s] = NoCmd
                /\ req_lim' = [req_lim EXCEPT ![r.ch] = @ + delta]
                /\ UNCHANGED <<rx, scmnd>>
    BY <1>1, Zenon DEF srp_process_rsp
  <2>3. CountTypes'
    BY <1>1, <2>1, <2>2 DEF CountTypes, srp_process_rsp
  <2>4. SlotTypes'
    BY <1>1, <2>1, <2>2 DEF SlotTypes, srp_process_rsp
  <2>5. HandlerTypes'
    <3>1. scmnd[s] # NoCmd => scmnd[s] \in Cmds
      BY <2>1 DEF SlotTypes
    <3>2. delta \in Nat
      BY <2>1 DEF CountTypes
    <3> QED BY <1>1, <2>1, <2>2, <3>1, <3>2 DEF HandlerTypes, srp_process_rsp
  <2>6. WireTypes'
    BY <1>1, AnsweredTypes DEF srp_process_rsp
  <2> QED BY <1>1, <2>3, <2>4, <2>5, <2>6 DEF LinkTypes, link, srp_process_rsp
<1>2. ASSUME NEW r \in wire, srp_process_rsp_tsk_mgmt(r)
      PROVE  TypeInv'
  <2> DEFINE gone == Aborted(r)
  <2>1. r.ch \in Chans
    BY DEF WireTypes, Requests
  <2>2. \A ch \in Chans : CreditsOf(gone, ch) \in Nat
    <3>1. gone \in SUBSET wire
      BY DEF Aborted
    <3>2. IsFiniteSet(gone)
      BY <3>1, FS_Subset, Zenon DEF WireTypes
    <3> QED BY <3>2, CreditsType, Zenon
  <2>3. PICK delta \in 0..(owed[r.ch] + CreditsOf(gone, r.ch) + 1) :
          /\ owed' = [ch \in Chans |->
                        owed[ch] + CreditsOf(gone, ch)
                                 + IF ch = r.ch THEN 1 - delta ELSE 0]
          /\ req_lim' = [req_lim EXCEPT ![r.ch] = @ + delta]
    BY <1>2, Zenon DEF srp_process_rsp_tsk_mgmt
  <2> HIDE DEF gone
  <2>4. CountTypes'
    BY <1>2, <2>1, <2>2, <2>3 DEF CountTypes, srp_process_rsp_tsk_mgmt
  <2>5. WireTypes'
    BY <1>2, AnsweredTypes DEF srp_process_rsp_tsk_mgmt
  <2>6. LinkTypes'
    BY <1>2, <2>1 DEF LinkTypes, link, srp_process_rsp_tsk_mgmt
  <2> QED BY <1>2, <2>4, <2>5, <2>6 DEF SlotTypes, HandlerTypes, requests, srp_process_rsp_tsk_mgmt
<1>3. ASSUME NEW ch \in Chans, srp_process_rsp_done(ch)
      PROVE  TypeInv'
  <2>1. rx[ch].delta \in Nat /\ rx[ch].tag \in Tags
    BY <1>3 DEF HandlerTypes, srp_process_rsp_done
  <2>2. CountTypes'
    BY <1>3, <2>1 DEF CountTypes, target, srp_process_rsp_done
  <2>3. free_reqs' \subseteq Slots /\ UNCHANGED scmnd
    BY <1>3, <2>1 DEF SlotTypes, Slots, srp_process_rsp_done
  <2>4. SlotTypes'
    BY <1>3, <2>3, DoneEffect, Zenon DEF SlotTypes, srp_process_rsp_done
  <2>5. HandlerTypes'
    BY <1>3 DEF HandlerTypes, RxIdle, srp_process_rsp_done
  <2> QED BY <1>3, <2>2, <2>4, <2>5 DEF LinkTypes, WireTypes, link, target, srp_process_rsp_done
<1>4. ASSUME NEW ch \in Chans, srp_response_common(ch)
      PROVE  TypeInv'
  <2>1. PICK delta \in 1..owed[ch] :
          /\ req_lim' = [req_lim EXCEPT ![ch] = @ + delta]
          /\ owed' = [owed EXCEPT ![ch] = @ - delta]
    BY <1>4, Zenon DEF srp_response_common
  <2>2. PICK p \in Polls(ch), sent \in 0..1 :
          /\ free_tx' = [free_tx EXCEPT ![ch] = @ + p.ok - sent]
          /\ posted' = [posted EXCEPT ![ch] = @ - p.ok - p.failed + sent]
          /\ srp_handle_qp_err(ch, p.failed > 0)
    BY <1>4, Zenon DEF srp_response_common
  <2>3. CountTypes'
    BY <2>1, <2>2, PollTypes DEF CountTypes
  <2>4. LinkTypes'
    BY <1>4, <2>2, QpErrTypes, Zenon DEF srp_response_common
  <2> QED BY <1>4, <2>3, <2>4 DEF SlotTypes, WireTypes, HandlerTypes, requests, srp_response_common
<1>5. ASSUME NEW ch \in Chans, ConnectionLost(ch)
      PROVE  TypeInv'
  BY <1>5 DEF ConnectionLost, CountTypes, SlotTypes, WireTypes, LinkTypes, HandlerTypes,
              lists, requests, target
<1>6. ASSUME NEW ch \in Chans, srp_recv_completion_err(ch)
      PROVE  TypeInv'
  <2>1. LinkTypes'
    BY <1>6, QpErrTypes, Zenon DEF srp_recv_completion_err
  <2> QED BY <1>6, <2>1 DEF srp_recv_completion_err, CountTypes, SlotTypes, WireTypes,
                            HandlerTypes, lists, requests, target
<1> QED BY <1>1, <1>2, <1>3, <1>4, <1>5, <1>6 DEF Receive

LEMMA TskMgmtTypes ==
  ASSUME TypeInv, UNCHANGED setting, TskMgmt
  PROVE  TypeInv'
<1> USE ChannelConstants DEF TypeInv, setting
<1>0. tm.slot[1] \in Chans
  BY DEF HandlerTypes
<1>1. ASSUME NEW c \in Cmds, Timeout(c)
      PROVE  TypeInv'
  <2>1. HandlerTypes'
    BY <1>1 DEF Timeout, HandlerTypes, SlotTypes, Slots
  <2> QED BY <1>1, <2>1 DEF Timeout, CountTypes, SlotTypes, WireTypes, LinkTypes,
                            lists, requests, target, link
<1>2. ASSUME NEW c \in Cmds, srp_abort(c)
      PROVE  TypeInv'
  BY <1>2, Zenon DEF srp_abort, CountTypes, SlotTypes, WireTypes, LinkTypes, HandlerTypes,
              lists, target, link
<1>3. ASSUME NEW c \in Cmds, srp_abort_too_late(c)
      PROVE  TypeInv'
  <2>1. UNCHANGED <<free_reqs, scmnd>> /\ cmd' = Done({c}) /\ tm' = TmIdle
    BY <1>3 DEF srp_abort_too_late
  <2>2. SlotTypes'
    BY <2>1, DoneEffect, Zenon DEF SlotTypes
  <2>3. HandlerTypes'
    BY <1>3, <2>1 DEF HandlerTypes, TmIdle, srp_abort_too_late
  <2> QED BY <1>3, <2>2, <2>3 DEF srp_abort_too_late, CountTypes, WireTypes, LinkTypes,
                                  lists, target, link
<1>4. CASE srp_reset_device
  BY <1>4, Zenon DEF srp_reset_device, CountTypes, SlotTypes, WireTypes, LinkTypes, HandlerTypes,
              TmIdle, lists, requests, target, link
<1>5. CASE srp_send_tsk_mgmt_check
  <2>1. HandlerTypes'
    BY <1>5 DEF srp_send_tsk_mgmt_check, HandlerTypes
  <2>2. LinkTypes'
    BY <1>0, <1>5 DEF srp_send_tsk_mgmt_check, LinkTypes, link
  <2> QED BY <1>5, <2>1, <2>2 DEF srp_send_tsk_mgmt_check, CountTypes, SlotTypes, WireTypes,
                                  lists, requests, target
<1>6. CASE srp_send_tsk_mgmt_err
  <2>1. PICK p \in Polls(tm.slot[1]) :
          /\ free_tx' = [free_tx EXCEPT ![tm.slot[1]] = @ + p.ok]
          /\ posted' = [posted EXCEPT ![tm.slot[1]] = @ - p.ok - p.failed]
          /\ srp_handle_qp_err(tm.slot[1], p.failed > 0)
    BY <1>6, Zenon DEF srp_send_tsk_mgmt_err
  <2>2. CountTypes'
    BY <1>0, <1>6, <2>1, PollTypes DEF CountTypes, srp_send_tsk_mgmt_err, target
  <2>3. LinkTypes'
    BY <1>0, <1>6, <2>1, QpErrTypes, Zenon DEF srp_send_tsk_mgmt_err
  <2>4. HandlerTypes'
    BY <1>6 DEF HandlerTypes, srp_send_tsk_mgmt_err
  <2> QED BY <1>6, <2>2, <2>3, <2>4 DEF srp_send_tsk_mgmt_err, target, requests, WireTypes,
                                        SlotTypes
<1>7. CASE srp_send_tsk_mgmt
  <2>1. PICK p \in Polls(tm.slot[1]) :
          /\ free_tx' = [free_tx EXCEPT ![tm.slot[1]] = @ + p.ok - 1]
          /\ posted' = [posted EXCEPT ![tm.slot[1]] = @ - p.ok - p.failed + 1]
          /\ srp_handle_qp_err(tm.slot[1], p.failed > 0)
    BY <1>7, Zenon DEF srp_send_tsk_mgmt
  <2>2. CountTypes'
    BY <1>0, <1>7, <2>1, PollTypes DEF CountTypes, srp_send_tsk_mgmt, target
  <2>3. LinkTypes'
    BY <1>0, <1>7, <2>1, QpErrTypes, Zenon DEF srp_send_tsk_mgmt
  <2>4. HandlerTypes'
    BY <1>7 DEF HandlerTypes, srp_send_tsk_mgmt
  <2>5. /\ tm.slot[2] \in Tags \cup {NoCmd} /\ tm.cmd \in Cmds \cup {NoCmd}
        /\ TskMgmtKind \in {"abort", "lun_reset"}
    BY DEF HandlerTypes, TskMgmtKind
  <2>6. WireTypes'
    BY <1>0, <1>7, <2>5, RequestTypes, SentTypes DEF srp_send_tsk_mgmt
  <2> QED BY <1>7, <2>2, <2>3, <2>4, <2>6 DEF srp_send_tsk_mgmt, requests, SlotTypes
<1>8. CASE srp_send_tsk_mgmt_ok
  BY <1>0, <1>8, Zenon DEF srp_send_tsk_mgmt_ok, CountTypes, SlotTypes, WireTypes, LinkTypes,
                    HandlerTypes, lists, requests, target, link
<1>9. CASE srp_send_tsk_mgmt_timeout
  <2>1. WireTypes' /\ owed' \in [Chans -> Nat]
    BY <1>9, GiveUpTypes, Zenon DEF srp_send_tsk_mgmt_timeout
  <2>2. CountTypes' /\ HandlerTypes'
    BY <1>9, <2>1, Zenon DEF CountTypes, HandlerTypes, lists, srp_send_tsk_mgmt_timeout
  <2> QED BY <1>9, <2>1, <2>2 DEF SlotTypes, LinkTypes, requests, link, srp_send_tsk_mgmt_timeout
<1>10. CASE srp_abort_done
  <2>1. tm.slot \in Slots /\ tm' = TmIdle
    BY <1>10 DEF srp_abort_done, HandlerTypes
  <2>2. WireTypes' /\ owed' \in [Chans -> Nat]
    BY <1>10, GiveUpTypes, Zenon DEF srp_abort_done
  <2>3. CountTypes' /\ HandlerTypes'
    BY <1>10, <2>1, <2>2 DEF CountTypes, HandlerTypes, TmIdle, lists, srp_abort_done
  <2>4. free_reqs' \subseteq Slots /\ UNCHANGED scmnd
    BY <1>10, <2>1 DEF srp_abort_done, SlotTypes
  <2>5. SlotTypes'
    BY <1>10, <2>4, DoneEffect, Zenon DEF SlotTypes, srp_abort_done
  <2> QED BY <1>10, <2>2, <2>3, <2>5 DEF LinkTypes, link, srp_abort_done
<1>11. CASE srp_reset_device_failed
  <2>1. HandlerTypes'
    BY <1>11 DEF srp_reset_device_failed, HandlerTypes, TmIdle
  <2> QED BY <1>11, <2>1 DEF srp_reset_device_failed, CountTypes, SlotTypes, WireTypes,
                             LinkTypes, lists, requests, target, link
<1>12. CASE srp_reset_device_done
  <2>1. {FirstChan} \X Tags \in SUBSET Slots
    BY DEF Slots
  <2>2. SlotTypes'
    BY <1>12, <2>1, FinishTypes, Zenon DEF srp_reset_device_done
  <2>3. HandlerTypes'
    BY <1>12 DEF srp_reset_device_done, HandlerTypes, TmIdle
  <2> QED BY <1>12, <2>2, <2>3 DEF srp_reset_device_done, CountTypes, WireTypes, LinkTypes,
                                   lists, target, link
<1> QED BY <1>1, <1>2, <1>3, <1>4, <1>5, <1>6, <1>7, <1>8, <1>9, <1>10, <1>11, <1>12 DEF TskMgmt

LEMMA TransportTypes ==
  ASSUME TypeInv, UNCHANGED setting, Transport
  PROVE  TypeInv'
<1> USE ChannelConstants DEF TypeInv, setting
<1>1. CASE srp_tl_err_work
  BY <1>1, Zenon DEF srp_tl_err_work, CountTypes, SlotTypes, WireTypes, LinkTypes, HandlerTypes,
              lists, requests, target
<1>2. CASE srp_terminate_io
  <2>1. SlotTypes'
    BY <1>2, FinishTypes, Zenon DEF srp_terminate_io
  <2> QED BY <1>2, <2>1 DEF srp_terminate_io, CountTypes, WireTypes, LinkTypes, HandlerTypes,
                            lists, target, link
<1>3. CASE srp_disconnect_target
  BY <1>3 DEF srp_disconnect_target, CountTypes, SlotTypes, WireTypes, LinkTypes, HandlerTypes,
              lists, requests, target
<1>4. CASE srp_rport_reconnect_reset
  <2>1. SlotTypes'
    BY <1>4, FinishTypes, Zenon DEF srp_rport_reconnect_reset
  <2> QED BY <1>4, <2>1 DEF srp_rport_reconnect_reset, CountTypes, WireTypes, LinkTypes,
                            HandlerTypes, lists, target, link
<1>5. CASE srp_rport_reconnect_scanning
  BY <1>5 DEF srp_rport_reconnect_scanning, CountTypes, SlotTypes, WireTypes, LinkTypes,
              HandlerTypes, lists, requests, target, link
<1>6. CASE srp_create_ch_ib
  <2>1. PICK new \in SUBSET Chans, ret \in BOOLEAN :
          /\ wire' = {r \in wire : r.ch \notin new}
          /\ owed' = [ch \in Chans |-> IF ch \in new THEN 0 ELSE owed[ch]]
          /\ posted' = [ch \in Chans |-> IF ch \in new THEN 0 ELSE posted[ch]]
          /\ alive' = [ch \in Chans |-> ch \notin new /\ alive[ch]]
          /\ xport' = IF ret THEN "connect" ELSE "failed"
    BY <1>6 DEF srp_create_ch_ib
  <2>2. CountTypes'
    BY <1>6, <2>1 DEF srp_create_ch_ib, CountTypes
  <2>3. WireTypes'
    BY <2>1, AnsweredTypes
  <2>4. alive' \in [Chans -> BOOLEAN]
    BY <2>1
  <2>5. xport' \in {"connect", "failed"}
    BY <2>1
  <2>6. LinkTypes'
    BY <1>6, <2>4, <2>5, Zenon DEF srp_create_ch_ib, LinkTypes
  <2> QED BY <1>6, <2>2, <2>3, <2>6 DEF srp_create_ch_ib, SlotTypes, HandlerTypes, requests
<1>7. ASSUME NEW ch \in Chans, srp_connect_ch(ch)
      PROVE  TypeInv'
  BY <1>7 DEF srp_connect_ch, CountTypes, SlotTypes, WireTypes, LinkTypes, HandlerTypes,
              requests, target
<1>8. CASE srp_connect_ch_failed
  BY <1>8 DEF srp_connect_ch_failed, CountTypes, SlotTypes, WireTypes, LinkTypes,
              HandlerTypes, lists, requests, target, link
<1>9. CASE srp_rport_reconnect_done
  BY <1>9 DEF srp_rport_reconnect_done, CountTypes, SlotTypes, WireTypes, LinkTypes,
              HandlerTypes, lists, requests, target
<1> QED BY <1>1, <1>2, <1>3, <1>4, <1>5, <1>6, <1>7, <1>8, <1>9 DEF Transport

LEMMA TypeStep ==
  ASSUME TypeInv, Next
  PROVE  TypeInv'
<1>1. CASE Queuecommand
  BY <1>1, ChannelConstants, QueueTypes, Zenon DEF Queuecommand, Next
<1> QED BY <1>1, ReceiveTypes, TskMgmtTypes, TransportTypes, Zenon DEF Next

-----------------------------------------------------------------------------
(* The steps of srp_rport_reconnect().                                     *)

LEMMA NoCredits ==
  ASSUME NEW ch
  PROVE  CreditsOf({}, ch) = 0
<1>1. {q \in {} : q.ch = ch} = {}
  OBVIOUS
<1> QED BY <1>1, FS_EmptySet DEF CreditsOf

\* Giving up changes nothing when the target has no request.
LEMMA GiveUpNothing ==
  ASSUME TypeInv, NEW rs \in SUBSET wire, GiveUp(rs), wire = {}
  PROVE  UNCHANGED <<wire, owed>>
<1>1. wire' = {} /\ owed' = [ch \in Chans |-> owed[ch] + CreditsOf({}, ch)]
  BY DEF GiveUp
<1>2. \A ch \in Chans : owed'[ch] = owed[ch]
  BY <1>1, NoCredits DEF TypeInv, CountTypes
<1> QED BY <1>1, <1>2 DEF TypeInv, CountTypes

LEMMA XportKept ==
  ASSUME XportInv, UNCHANGED xport,
         xport # "idle" => UNCHANGED connected /\ InQueuecommand' = InQueuecommand,
         xport = "connect" => UNCHANGED <<wire, owed, posted, free_tx, rx>>
  PROVE  XportInv'
BY DEF XportInv

LEMMA XportStep ==
  ASSUME TypeInv, XportInv, Next
  PROVE  XportInv'
<1> USE DEF TypeInv
<1>1. CASE Queuecommand
  <2>1. UNCHANGED xport
    BY <1>1 DEF Queuecommand, srp_queuecommand, srp_queuecommand_busy, srp_post_send,
                srp_queuecommand_err
  <2>2. xport = "idle"
    BY <1>1 DEF Queuecommand, srp_queuecommand, srp_queuecommand_busy, srp_post_send,
                srp_queuecommand_err, MayQueue, XportInv, InQueuecommand
  <2> QED BY <2>1, <2>2, XportKept
<1>2. CASE Receive
  <2>1. UNCHANGED <<xport, connected>>
    BY <1>2, Zenon DEF Receive, srp_process_rsp, srp_process_rsp_tsk_mgmt, srp_process_rsp_done,
                srp_response_common, ConnectionLost, srp_recv_completion_err, link
  <2>2. InQueuecommand' = InQueuecommand
    <3>1. ASSUME NEW ch \in Chans, srp_process_rsp_done(ch)
          PROVE  InQueuecommand' = InQueuecommand
      BY <3>1, DoneEffect, Zenon DEF srp_process_rsp_done
    <3>2. CASE UNCHANGED cmd
      BY <3>2 DEF InQueuecommand
    <3> QED BY <1>2, <3>1, <3>2, Zenon DEF Receive, srp_process_rsp, srp_process_rsp_tsk_mgmt,
               srp_response_common, ConnectionLost, srp_recv_completion_err, requests
  <2>3. ASSUME xport = "connect" PROVE UNCHANGED <<wire, owed, posted, free_tx, rx>>
    <3>1. wire = {} /\ \A ch \in Chans : owed[ch] = 0 /\ rx[ch] = RxIdle
      BY <2>3 DEF XportInv
    <3>2. \E ch \in Chans : ConnectionLost(ch) \/ srp_recv_completion_err(ch)
      <4>1. \A ch \in Chans : ~srp_process_rsp_done(ch) /\ ~srp_response_common(ch)
        BY <3>1 DEF srp_process_rsp_done, srp_response_common
      <4> QED BY <1>2, <3>1, <4>1 DEF Receive
    <3> QED BY <3>2, Zenon DEF ConnectionLost, srp_recv_completion_err, lists, target
  <2> QED BY <2>1, <2>2, <2>3, XportKept
<1>3. CASE TskMgmt
  <2>1. UNCHANGED <<xport, connected>>
    BY <1>3, Zenon DEF TskMgmt, Timeout, srp_abort, srp_abort_too_late, srp_reset_device,
                srp_send_tsk_mgmt_check, srp_send_tsk_mgmt_err, srp_send_tsk_mgmt,
                srp_send_tsk_mgmt_ok, srp_send_tsk_mgmt_timeout, srp_abort_done,
                srp_reset_device_failed, srp_reset_device_done, link
  <2>2. InQueuecommand' = InQueuecommand
    <3>1. ASSUME NEW cs, cmd' = Done(cs)
          PROVE  InQueuecommand' = InQueuecommand
      BY <3>1, DoneEffect, Zenon
    <3>2. CASE UNCHANGED cmd
      BY <3>2 DEF InQueuecommand
    <3> QED BY <1>3, <3>1, <3>2, Zenon DEF TskMgmt, Timeout, srp_abort, srp_abort_too_late,
               srp_reset_device, srp_send_tsk_mgmt_check, srp_send_tsk_mgmt_err,
               srp_send_tsk_mgmt, srp_send_tsk_mgmt_ok, srp_send_tsk_mgmt_timeout,
               srp_abort_done, srp_reset_device_failed, srp_reset_device_done, requests
  <2>3. ASSUME xport = "connect" PROVE UNCHANGED <<wire, owed, posted, free_tx, rx>>
    <3>1. wire = {}
      BY <2>3 DEF XportInv
    <3>2. CASE srp_send_tsk_mgmt_timeout \/ srp_abort_done
      <4>1. UNCHANGED <<wire, owed>>
        BY <3>1, <3>2, GiveUpNothing, Zenon DEF srp_send_tsk_mgmt_timeout, srp_abort_done
      <4> QED BY <3>2, <4>1 DEF srp_send_tsk_mgmt_timeout, srp_abort_done, lists
    <3> QED BY <1>3, <2>3, <3>2, Zenon DEF TskMgmt, Timeout, srp_abort, srp_abort_too_late,
               srp_reset_device, srp_send_tsk_mgmt_check, srp_send_tsk_mgmt_err,
               srp_send_tsk_mgmt, srp_send_tsk_mgmt_ok, srp_reset_device_failed,
               srp_reset_device_done, lists, target
  <2> QED BY <2>1, <2>2, <2>3, XportKept
<1>4. CASE srp_tl_err_work \/ srp_terminate_io
  BY <1>4 DEF srp_tl_err_work, srp_terminate_io, XportInv
<1>5. CASE srp_disconnect_target
  BY <1>5 DEF srp_disconnect_target, XportInv, InQueuecommand, requests
<1>6. CASE srp_rport_reconnect_reset
  <2>1. InQueuecommand' = InQueuecommand
    BY <1>6, DoneEffect, Zenon DEF srp_rport_reconnect_reset
  <2> QED BY <1>6, <2>1 DEF srp_rport_reconnect_reset, XportInv, link
<1>7. CASE srp_rport_reconnect_scanning \/ srp_connect_ch_failed
  BY <1>7 DEF srp_rport_reconnect_scanning, srp_connect_ch_failed, XportInv, InQueuecommand,
              requests
<1>8. CASE srp_create_ch_ib
  <2>1. InQueuecommand' = {}
    BY <1>8 DEF srp_create_ch_ib, XportInv, InQueuecommand, requests
  <2>2. xport' = "connect" =>
          /\ wire' = {}
          /\ \A ch \in Chans : /\ owed'[ch] = 0 /\ posted'[ch] = 0
                               /\ free_tx'[ch] = QueueSize /\ rx'[ch] = RxIdle
    BY <1>8 DEF srp_create_ch_ib, WireTypes, Requests
  <2>3. xport' \in {"connect", "failed"}
    BY <1>8 DEF srp_create_ch_ib
  <2> QED BY <2>1, <2>2, <2>3 DEF XportInv
<1>9. ASSUME NEW ch \in Chans, srp_connect_ch(ch)
      PROVE  XportInv'
  BY <1>9 DEF srp_connect_ch, XportInv, InQueuecommand, requests, target
<1>10. CASE srp_rport_reconnect_done
  BY <1>10 DEF srp_rport_reconnect_done, XportInv
<1> QED BY <1>1, <1>2, <1>3, <1>4, <1>5, <1>6, <1>7, <1>8, <1>9, <1>10 DEF Next, Transport

-----------------------------------------------------------------------------
(* Task management functions.                                              *)

\* Nothing happens to srp_send_tsk_mgmt().
LEMMA TaskKept ==
  ASSUME TaskRequests, UNCHANGED <<tm, tsk_mgmt_done>>, TaskFunctions(wire') \subseteq wire
  PROVE  TaskRequests'
BY DEF TaskRequests, TaskFunctions

\* No task management function is on the wire after the step.
LEMMA NoTask ==
  ASSUME TaskFunctions(wire') = {}, tm'.at = "lock" => ~tsk_mgmt_done'[tm'.slot[1]]
  PROVE  TaskRequests'
<1>1. \A r \in wire' : r.kind = "cmd"
  BY DEF TaskFunctions
<1> QED BY <1>1 DEF TaskRequests

LEMMA TaskStep ==
  ASSUME TypeInv, NoRaces, TaskRequests, ResetInv, Next
  PROVE  TaskRequests'
<1>1. CASE Queuecommand
  <2>1. UNCHANGED <<tm, tsk_mgmt_done>>
    BY <1>1 DEF Queuecommand, srp_queuecommand, srp_queuecommand_busy, srp_post_send,
                srp_queuecommand_err
  <2>2. ASSUME NEW c \in Cmds, srp_post_send(c) PROVE TaskFunctions(wire') \subseteq wire
    <3>1. Request(cmd[c].slot[1], "cmd", cmd[c].slot[2], c).kind = "cmd"
      BY DEF Request
    <3> QED BY <2>2, <3>1 DEF srp_post_send, TaskFunctions
  <2>3. TaskFunctions(wire') \subseteq wire
    BY <1>1, <2>2 DEF Queuecommand, srp_queuecommand, srp_queuecommand_busy,
                      srp_queuecommand_err, TaskFunctions, target
  <2> QED BY <2>1, <2>3, TaskKept
<1>2. CASE Receive
  <2>1. ASSUME NEW r \in wire, srp_process_rsp_tsk_mgmt(r) PROVE TaskRequests'
    <3>1. r.kind # "cmd" /\ wire' \subseteq wire \ {r} /\ UNCHANGED tm
      BY <2>1 DEF srp_process_rsp_tsk_mgmt
    <3>2. TaskFunctions(wire') = {} /\ tm.at # "lock"
      BY <3>1 DEF TaskRequests, TaskFunctions
    <3> QED BY <3>1, <3>2, NoTask
  <2>2. CASE ~\E r \in wire : srp_process_rsp_tsk_mgmt(r)
    <3>1. UNCHANGED <<tm, tsk_mgmt_done>> /\ wire' \subseteq wire
      BY <1>2, <2>2, Zenon DEF Receive, srp_process_rsp, srp_process_rsp_done, srp_response_common,
                        ConnectionLost, srp_recv_completion_err, target
    <3> QED BY <3>1, TaskKept DEF TaskFunctions
  <2> QED BY <2>1, <2>2
<1>3. CASE TskMgmt
  <2>1. CASE /\ tm.at # "wait" /\ wire' \subseteq wire
             /\ tm'.at = "lock" => ~tsk_mgmt_done'[tm'.slot[1]]
    <3>1. TaskFunctions(wire') = {}
      BY <2>1 DEF TaskRequests, TaskFunctions
    <3> QED BY <2>1, <3>1, NoTask
  <2>2. CASE \/ \E c \in Cmds : Timeout(c) \/ srp_abort(c) \/ srp_abort_too_late(c)
             \/ srp_reset_device \/ srp_send_tsk_mgmt_err
             \/ srp_abort_done \/ srp_reset_device_failed \/ srp_reset_device_done
    <3>1. tm.at # "wait"
      <4>1. tm = TmIdle \/ tm.at = "claim" \/ tm.at = "lock" \/ tm.at \in {"done", "failed"}
        BY <2>2, Zenon DEF Timeout, srp_abort, srp_abort_too_late, srp_reset_device,
                    srp_send_tsk_mgmt_err, srp_abort_done, srp_reset_device_failed,
                    srp_reset_device_done
      <4> QED BY <4>1 DEF TmIdle
    <3>2. \/ tm' = TmIdle \/ (\E a \in {"check", "failed"} : tm' = [tm EXCEPT !.at = a])
          \/ tm' = [TmIdle EXCEPT !.at = "check"]
          \/ (\E c, s : tm' = [at |-> "claim", cmd |-> c, slot |-> s])
      BY <2>2, Zenon DEF Timeout, srp_abort, srp_abort_too_late, srp_reset_device,
                  srp_send_tsk_mgmt_err, srp_abort_done, srp_reset_device_failed,
                  srp_reset_device_done
    <3>3. wire' \subseteq wire
      BY <2>2, Zenon DEF Timeout, srp_abort, srp_abort_too_late, srp_reset_device,
                  srp_send_tsk_mgmt_err, srp_abort_done, srp_reset_device_failed,
                  srp_reset_device_done, GiveUp, target
    <3>4. tm'.at # "lock"
      BY <3>2 DEF TypeInv, HandlerTypes, TmIdle
    <3> QED BY <2>1, <3>1, <3>3, <3>4
  <2>3. CASE srp_send_tsk_mgmt_check
    <3>1. /\ tm.at = "check" /\ UNCHANGED wire
          /\ \/ tm' = [tm EXCEPT !.at = "failed"]
             \/ /\ tm' = [tm EXCEPT !.at = "lock"]
                /\ tsk_mgmt_done' = [tsk_mgmt_done EXCEPT ![tm.slot[1]] = FALSE]
      BY <2>3 DEF srp_send_tsk_mgmt_check, target
    <3>2. tm'.at = "lock" => ~tsk_mgmt_done'[tm'.slot[1]]
      BY <3>1 DEF TypeInv, HandlerTypes, LinkTypes
    <3> QED BY <2>1, <3>1, <3>2
  <2>4. CASE srp_send_tsk_mgmt
    <3> DEFINE q == Request(tm.slot[1], TskMgmtKind, tm.slot[2], tm.cmd)
    <3>1. /\ tm.at = "lock" /\ wire' = wire \cup {q} /\ tm' = [tm EXCEPT !.at = "wait"]
          /\ UNCHANGED tsk_mgmt_done
      BY <2>4 DEF srp_send_tsk_mgmt
    <3>2. q.ch = tm.slot[1] /\ q.kind = TskMgmtKind
      BY DEF Request
    <3>3. \A r \in wire' : r.kind # "cmd" => r = q
      BY <3>1 DEF TaskRequests
    <3>4. /\ tm'.at = "wait" /\ tm'.slot = tm.slot /\ tm'.cmd = tm.cmd
          /\ ~tsk_mgmt_done[tm.slot[1]]
      BY <3>1 DEF TypeInv, HandlerTypes, TaskRequests
    <3> HIDE DEF q
    <3> QED BY <3>1, <3>2, <3>3, <3>4 DEF TaskRequests, TskMgmtKind
  <2>5. CASE srp_send_tsk_mgmt_ok
    <3>1. tsk_mgmt_done[tm.slot[1]] /\ UNCHANGED wire /\ tm' = [tm EXCEPT !.at = "done"]
      BY <2>5 DEF srp_send_tsk_mgmt_ok, target
    <3>2. TaskFunctions(wire') = {} /\ tm'.at # "lock"
      BY <3>1 DEF TaskRequests, TaskFunctions, TypeInv, HandlerTypes
    <3> QED BY <3>2, NoTask
  <2>6. CASE srp_send_tsk_mgmt_timeout
    <3>1. /\ wire' = wire \ {q \in wire : q.kind # "cmd" /\ q.ch = tm.slot[1]}
          /\ tm' = [tm EXCEPT !.at = "failed"]
      BY <2>6 DEF srp_send_tsk_mgmt_timeout, GiveUp, NoRaces
    <3>2. TaskFunctions(wire') = {} /\ tm'.at # "lock"
      BY <3>1 DEF TaskRequests, TaskFunctions, TypeInv, HandlerTypes
    <3> QED BY <3>2, NoTask
  <2> QED BY <1>3, <2>2, <2>3, <2>4, <2>5, <2>6 DEF TskMgmt
<1>4. CASE Transport
  <2>1. UNCHANGED <<tm, tsk_mgmt_done>> /\ wire' \subseteq wire
    BY <1>4 DEF Transport, srp_tl_err_work, srp_terminate_io, srp_disconnect_target,
                srp_rport_reconnect_reset, srp_rport_reconnect_scanning, srp_create_ch_ib,
                srp_connect_ch, srp_connect_ch_failed, srp_rport_reconnect_done, target
  <2> QED BY <2>1, TaskKept DEF TaskFunctions
<1> QED BY <1>1, <1>2, <1>3, <1>4 DEF Next

\* srp_reset_device() does not get further, and no command is queued or sent.
LEMMA ResetKept ==
  ASSUME ResetInv, InQueuecommand' \subseteq InQueuecommand,
         \A r \in wire' : r.kind = "cmd" => r \in wire,
         tm'.cmd = NoCmd /\ tm'.at # "idle" =>
           tm.cmd = NoCmd /\ tm.at # "idle",
         tm'.cmd = NoCmd /\ (tm'.at = "done" \/ (tm'.at = "wait" /\ tsk_mgmt_done'[tm'.slot[1]])) =>
           tm.cmd = NoCmd /\ (tm.at = "done" \/ (tm.at = "wait" /\ tsk_mgmt_done[tm.slot[1]]))
  PROVE  ResetInv'
BY DEF ResetInv

LEMMA ResetStep ==
  ASSUME TypeInv, NoRaces, TaskRequests, ResetInv, Next
  PROVE  ResetInv'
<1>1. CASE Queuecommand
  <2>0. UNCHANGED <<tm, tsk_mgmt_done>>
    BY <1>1 DEF Queuecommand, srp_queuecommand, srp_queuecommand_busy, srp_post_send,
                srp_queuecommand_err
  <2>1. ASSUME NEW c \in Cmds, NEW ch \in Chans, srp_queuecommand(c, ch) PROVE ResetInv'
    <3>1. tm.cmd = NoCmd => tm.at = "idle"
      BY <2>1 DEF srp_queuecommand, MayQueue
    <3> QED BY <2>0, <3>1 DEF ResetInv
  <2>2. ASSUME NEW c \in Cmds, NEW ch \in Chans, srp_queuecommand_busy(c, ch) PROVE ResetInv'
    <3>1. UNCHANGED <<cmd, wire>>
      BY <2>2 DEF srp_queuecommand_busy, target, requests
    <3> QED BY <2>0, <3>1, ResetKept DEF InQueuecommand
  <2>3. ASSUME NEW c \in Cmds, srp_post_send(c) \/ srp_queuecommand_err(c) PROVE ResetInv'
    <3>1. c \in InQueuecommand
      BY <2>3 DEF InQueuecommand, srp_post_send, srp_queuecommand_err
    <3>2. ~(tm.cmd = NoCmd /\ tm.at # "idle")
      BY <3>1 DEF ResetInv
    <3> QED BY <2>0, <3>2 DEF ResetInv
  <2> QED BY <1>1, <2>1, <2>2, <2>3 DEF Queuecommand
<1>2. CASE Receive
  <2>1. ASSUME NEW r \in wire, srp_process_rsp_tsk_mgmt(r) PROVE ResetInv'
    <3>1. r.kind # "cmd" /\ wire' = wire \ ({r} \cup Aborted(r)) /\ UNCHANGED <<tm, cmd>>
      BY <2>1 DEF srp_process_rsp_tsk_mgmt, requests
    <3>2. tm.cmd = NoCmd => \A q \in wire' : q.kind # "cmd"
      <4> HAVE tm.cmd = NoCmd
      <4>1. r.kind = "lun_reset"
        BY <3>1 DEF TaskRequests
      <4> QED BY <3>1, <4>1 DEF Aborted
    <3> QED BY <3>1, <3>2 DEF ResetInv, InQueuecommand
  <2>2. ASSUME NEW ch \in Chans, srp_process_rsp_done(ch) PROVE ResetInv'
    <3>1. UNCHANGED <<wire, tm, tsk_mgmt_done>> /\ cmd' = Done({rx[ch].cmd})
      BY <2>2 DEF srp_process_rsp_done, target
    <3>2. InQueuecommand' = InQueuecommand
      BY <3>1, DoneEffect DEF TypeInv
    <3> QED BY <3>1, <3>2, ResetKept
  <2>3. CASE \/ \E r \in wire : srp_process_rsp(r)
             \/ \E ch \in Chans : srp_response_common(ch) \/ ConnectionLost(ch)
                                    \/ srp_recv_completion_err(ch)
    <3>1. UNCHANGED <<cmd, tm, tsk_mgmt_done>> /\ wire' \subseteq wire
      BY <2>3, Zenon DEF srp_process_rsp, srp_response_common, ConnectionLost,
                  srp_recv_completion_err, target, requests
    <3> QED BY <3>1, ResetKept DEF InQueuecommand
  <2> QED BY <1>2, <2>1, <2>2, <2>3 DEF Receive
<1>3. CASE TskMgmt
  <2> USE DEF TypeInv, HandlerTypes
  <2>1. CASE \/ \E c \in Cmds : Timeout(c) \/ srp_abort(c)
             \/ srp_send_tsk_mgmt_check \/ srp_send_tsk_mgmt_err \/ srp_send_tsk_mgmt_ok
             \/ srp_send_tsk_mgmt_timeout
    <3>1. /\ UNCHANGED cmd /\ wire' \subseteq wire
          /\ tm'.cmd = NoCmd /\ tm'.at # "idle" => tm.cmd = NoCmd /\ tm.at # "idle"
      BY <2>1, ChannelConstants DEF Timeout, srp_abort, srp_send_tsk_mgmt_check, srp_send_tsk_mgmt_err,
                  srp_send_tsk_mgmt_ok, srp_send_tsk_mgmt_timeout, GiveUp, requests, target
    <3>2. tm'.at = "done" \/ tm'.at = "wait" =>
            tm'.at = "done" /\ tm.at = "wait" /\ tsk_mgmt_done[tm.slot[1]] /\ tm'.cmd = tm.cmd
      BY <2>1 DEF Timeout, srp_abort, srp_send_tsk_mgmt_check, srp_send_tsk_mgmt_err,
                  srp_send_tsk_mgmt_ok, srp_send_tsk_mgmt_timeout
    <3> QED BY <3>1, <3>2, ResetKept DEF InQueuecommand
  <2>2. CASE srp_send_tsk_mgmt
    <3>1. /\ UNCHANGED <<cmd, tsk_mgmt_done>> /\ tm.at = "lock" /\ tm' = [tm EXCEPT !.at = "wait"]
      BY <2>2 DEF srp_send_tsk_mgmt, requests
    <3>2. ~tsk_mgmt_done'[tm'.slot[1]] /\ tm'.at = "wait" /\ tm'.cmd = tm.cmd
      BY <3>1 DEF TaskRequests
    <3> QED BY <3>1, <3>2 DEF ResetInv, InQueuecommand
  <2>3. CASE srp_reset_device
    <3>1. UNCHANGED cmd /\ InQueuecommand = {} /\ tm'.at = "check"
      BY <2>3 DEF srp_reset_device, NoRaces, requests, TmIdle
    <3> QED BY <3>1 DEF ResetInv, InQueuecommand
  <2>4. CASE \/ \E c \in Cmds : srp_abort_too_late(c)
             \/ srp_abort_done \/ srp_reset_device_failed \/ srp_reset_device_done
    <3>1. tm' = TmIdle
      BY <2>4, Zenon DEF srp_abort_too_late, srp_abort_done, srp_reset_device_failed,
                  srp_reset_device_done
    <3> QED BY <3>1 DEF ResetInv, TmIdle
  <2> QED BY <1>3, <2>1, <2>2, <2>3, <2>4 DEF TskMgmt
<1>4. CASE Transport
  <2>1. UNCHANGED <<tm, tsk_mgmt_done>> /\ wire' \subseteq wire
    BY <1>4 DEF Transport, srp_tl_err_work, srp_terminate_io, srp_disconnect_target,
                srp_rport_reconnect_reset, srp_rport_reconnect_scanning, srp_create_ch_ib,
                srp_connect_ch, srp_connect_ch_failed, srp_rport_reconnect_done, target
  <2>2. cmd' = cmd \/ (\E cs : cmd' = Done(cs))
    BY <1>4 DEF Transport, srp_tl_err_work, srp_terminate_io, srp_disconnect_target,
                srp_rport_reconnect_reset, srp_rport_reconnect_scanning, srp_create_ch_ib,
                srp_connect_ch, srp_connect_ch_failed, srp_rport_reconnect_done, requests
  <2>3. InQueuecommand' = InQueuecommand
    BY <2>2, DoneEffect DEF InQueuecommand, TypeInv
  <2> QED BY <2>1, <2>3, ResetKept
<1> QED BY <1>1, <1>2, <1>3, <1>4 DEF Next

-----------------------------------------------------------------------------
(* The invariant holds in every state.                                     *)

LEMMA InitTypes == Init => TypesInv
<1> SUFFICES ASSUME Init PROVE TypesInv
  OBVIOUS
<1> USE ChannelConstants DEF Init
<1>1. TypeInv
  <2>1. granted \in Nat \ {0}
    OBVIOUS
  <2>2. CountTypes
    BY <2>1 DEF CountTypes
  <2>3. SlotTypes
    BY DEF SlotTypes, InCore
  <2>4. WireTypes
    BY FS_EmptySet DEF WireTypes
  <2>5. LinkTypes
    BY Zenon DEF LinkTypes
  <2>6. HandlerTypes
    BY DEF HandlerTypes, RxIdle, TmIdle
  <2> QED BY <2>2, <2>3, <2>4, <2>5, <2>6 DEF TypeInv
<1>2. XportInv
  BY DEF XportInv
<1>3. TaskInv
  BY DEF TaskInv, TaskRequests, ResetInv, TmIdle
<1> QED BY <1>1, <1>2, <1>3 DEF TypesInv

LEMMA NextTypes == TypesInv /\ [Next]_<<vars, setting>> => TypesInv'
<1> SUFFICES ASSUME TypesInv, [Next]_<<vars, setting>> PROVE TypesInv'
  OBVIOUS
<1>1. CASE Next
  <2>1. TypeInv' /\ XportInv'
    BY <1>1, TypeStep, XportStep DEF TypesInv
  <2>2. ASSUME NoRaces PROVE TaskRequests' /\ ResetInv'
    BY <1>1, <2>2, TaskStep, ResetStep DEF TypesInv, TaskInv
  <2>3. NoRaces' = NoRaces
    BY <1>1 DEF Next, setting, NoRaces
  <2> QED BY <2>1, <2>2, <2>3 DEF TypesInv, TaskInv
<1>2. CASE UNCHANGED <<vars, setting>>
  <2>1. /\ UNCHANGED <<req_lim, free_tx, posted, free_reqs, scmnd, cmd, wire, owed>>
        /\ UNCHANGED <<connected, alive, qp_in_error, tl_err, port>>
        /\ UNCHANGED <<rx, tm, tsk_mgmt_done, xport, races, granted>>
    BY <1>2 DEF vars, setting, lists, requests, target, link
  <2>2. TypeInv'
    BY <2>1 DEF TypesInv, TypeInv, CountTypes, SlotTypes, WireTypes, LinkTypes, HandlerTypes
  <2>3. InQueuecommand' = InQueuecommand /\ XportInv'
    BY <2>1 DEF TypesInv, XportInv, InQueuecommand
  <2>4. TaskInv'
    BY <2>1, <2>3 DEF TypesInv, TaskInv, TaskRequests, ResetInv, NoRaces
  <2> QED BY <2>2, <2>3, <2>4 DEF TypesInv
<1> QED BY <1>1, <1>2

\* The types, what srp_rport_reconnect() has done in each of its steps and
\* what srp_send_tsk_mgmt() waits for hold in every state.
THEOREM TypesInvariance == Spec => []TypesInv
<1> QED BY InitTypes, NextTypes, PTL DEF Spec

\* Every variable has its type in every state.
THEOREM TypeCorrect == Spec => []TypeOK
<1>1. TypesInv => TypeOK
  BY DEF TypesInv, TypeInv, CountTypes, SlotTypes, WireTypes, Requests, LinkTypes, HandlerTypes, TypeOK
<1> QED BY <1>1, TypesInvariance, PTL
=============================================================================
