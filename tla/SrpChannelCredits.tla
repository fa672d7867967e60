------------------------- MODULE SrpChannelCredits --------------------------
(***************************************************************************)
(* Proofs about SrpChannel: credits and information units, for any number  *)
(* of commands, channels, tags and credits and any queue size.  They hold  *)
(* whatever the environment does.                                          *)
(***************************************************************************)
EXTENDS SrpChannelTypes

\* A credit that is not used for a SCSI command.
SpareCredit ==
  \A ch \in Chans : connected[ch] =>
    req_lim[ch] + owed[ch] + rx[ch].delta + CreditsOf(TaskFunctions(wire), ch) >= 1

CreditInv == CreditsConserved /\ TxIusNotShared /\ SpareCredit

\* The inductive invariant.
IInv == TypesInv /\ CreditInv

-----------------------------------------------------------------------------
(* Credits and information units.                                          *)

\* The sums that CreditsConserved, TxIusNotShared and SpareCredit bound.
Balance(ch) ==
  req_lim[ch] + Cardinality(Held(ch)) + CreditsOf(wire, ch) + owed[ch] + rx[ch].delta

TxInUse(ch) == free_tx[ch] + posted[ch] + Cardinality(Held(ch))

Spare(ch) == req_lim[ch] + owed[ch] + rx[ch].delta + CreditsOf(TaskFunctions(wire), ch)

LEMMA CountsAreNumbers ==
  ASSUME TypeInv, NEW ch \in Chans
  PROVE  /\ IsFiniteSet(Held(ch)) /\ Cardinality(Held(ch)) \in Nat
         /\ CreditsOf(wire, ch) \in Nat
         /\ IsFiniteSet(TaskFunctions(wire)) /\ CreditsOf(TaskFunctions(wire), ch) \in Nat
         /\ rx[ch].delta \in Nat /\ req_lim[ch] \in Int /\ free_tx[ch] \in Int
         /\ posted[ch] \in Nat /\ owed[ch] \in Nat
<1>1. Held(ch) \in SUBSET Cmds
  BY DEF Held, InQueuecommand
<1>2. IsFiniteSet(Held(ch)) /\ Cardinality(Held(ch)) \in Nat
  BY <1>1, ChannelConstants, FS_Subset, FS_CardinalityType, Zenon
<1>3. TaskFunctions(wire) \in SUBSET wire
  BY DEF TaskFunctions
<1>4. IsFiniteSet(TaskFunctions(wire))
  BY <1>3, FS_Subset, Zenon DEF TypeInv, WireTypes
<1>5. CreditsOf(wire, ch) \in Nat /\ CreditsOf(TaskFunctions(wire), ch) \in Nat
  BY <1>4, CreditsType, Zenon DEF TypeInv, WireTypes
<1> QED BY <1>2, <1>4, <1>5 DEF TypeInv, CountTypes, HandlerTypes

\* A step keeps the sums of a channel that stays connected.
ChannelKept(ch) ==
  connected'[ch] =>
    /\ connected[ch]
    /\ Balance(ch)' = Balance(ch)
    /\ TxInUse(ch)' \in Int /\ TxInUse(ch)' <= TxInUse(ch)
    /\ free_tx[ch] >= 0 => free_tx'[ch] >= 0
    /\ Spare(ch)' \in Int /\ (Spare(ch)' >= Spare(ch) \/ Spare(ch)' >= 1)

\* A step leaves a channel as a login does.
ChannelFresh(ch) ==
  /\ Balance(ch)' = granted'
  /\ free_tx'[ch] >= 0 /\ TxInUse(ch)' <= QueueSize
  /\ Spare(ch)' >= 1

LEMMA CreditKept ==
  ASSUME TypeInv, CreditInv, UNCHANGED granted,
         \A ch \in Chans : ChannelKept(ch) \/ ChannelFresh(ch)
  PROVE  CreditInv'
<1> SUFFICES ASSUME NEW ch \in Chans, connected'[ch], ChannelKept(ch)
             PROVE  ChannelFresh(ch)
  BY DEF CreditInv, CreditsConserved, TxIusNotShared, SpareCredit, Balance, TxInUse, Spare,
         ChannelFresh
<1>1. /\ Balance(ch) = granted /\ free_tx[ch] >= 0 /\ TxInUse(ch) <= QueueSize
      /\ Spare(ch) >= 1
  BY DEF ChannelKept, CreditInv, CreditsConserved, TxIusNotShared, SpareCredit, Balance,
              TxInUse, Spare
<1>2. TxInUse(ch) \in Int /\ Spare(ch) \in Int
  BY CountsAreNumbers DEF TxInUse, Spare
<1> QED BY <1>1, <1>2, ChannelConstants DEF ChannelKept, ChannelFresh

\* No credit, information unit or request of a channel changes hands.
LEMMA ChannelUntouched ==
  ASSUME TypeInv, NEW ch \in Chans, connected'[ch] => connected[ch],
         req_lim'[ch] = req_lim[ch], free_tx'[ch] = free_tx[ch], posted'[ch] = posted[ch],
         owed'[ch] = owed[ch], rx'[ch] = rx[ch],
         Cardinality(Held(ch)') = Cardinality(Held(ch)),
         CreditsOf(wire', ch) = CreditsOf(wire, ch),
         CreditsOf(TaskFunctions(wire'), ch) = CreditsOf(TaskFunctions(wire), ch)
  PROVE  ChannelKept(ch)
<1>1. /\ Balance(ch)' = Balance(ch) /\ TxInUse(ch)' = TxInUse(ch)
      /\ Spare(ch)' = Spare(ch)
  BY DEF Balance, TxInUse, Spare
<1>2. TxInUse(ch) \in Int /\ Spare(ch) \in Int
  BY CountsAreNumbers DEF TxInUse, Spare
<1> QED BY <1>1, <1>2 DEF ChannelKept

LEMMA CreditUnchanged ==
  ASSUME TypeInv, CreditInv, UNCHANGED <<granted, lists, target, rx>>,
         \A ch \in Chans : Held(ch)' = Held(ch) /\ (connected'[ch] => connected[ch])
  PROVE  CreditInv'
<1>1. ASSUME NEW ch \in Chans PROVE ChannelKept(ch)
  BY ChannelUntouched DEF lists, target
<1> QED BY <1>1, CreditKept

\* A command enters or leaves srp_queuecommand().
LEMMA HeldTaken ==
  ASSUME TypeInv, NEW c \in Cmds, cmd[c].at # "map", NEW s \in Slots,
         cmd' = [cmd EXCEPT ![c] = [at |-> "map", slot |-> s]], NEW ch \in Chans
  PROVE  Cardinality(Held(ch)') = Cardinality(Held(ch)) + IF ch = s[1] THEN 1 ELSE 0
<1>1. /\ cmd'[c].at = "map" /\ cmd'[c].slot = s
      /\ \A d \in Cmds : d # c => cmd'[d] = cmd[d]
  BY DEF TypeInv, SlotTypes
<1>2. CASE ch = s[1]
  <2>1. Held(ch)' = Held(ch) \cup {c} /\ c \notin Held(ch)
    BY <1>1, <1>2 DEF Held, InQueuecommand
  <2> QED BY <1>2, <2>1, CountsAreNumbers, FS_AddElement, Zenon
<1>3. CASE ch # s[1]
  <2>1. Held(ch)' = Held(ch)
    BY <1>1, <1>3 DEF Held, InQueuecommand
  <2> QED BY <1>3, <2>1, CountsAreNumbers
<1> QED BY <1>2, <1>3

LEMMA HeldReleased ==
  ASSUME TypeInv, NEW c \in Cmds, cmd[c].at = "map", cmd'[c].at # "map",
         \A d \in Cmds : d # c => cmd'[d] = cmd[d], NEW ch \in Chans
  PROVE  Cardinality(Held(ch)') =
           Cardinality(Held(ch)) - IF ch = cmd[c].slot[1] THEN 1 ELSE 0
<1>2. CASE ch = cmd[c].slot[1]
  <2>1. Held(ch)' = Held(ch) \ {c} /\ c \in Held(ch)
    BY <1>2 DEF Held, InQueuecommand
  <2>2. Cardinality(Held(ch) \ {c}) = Cardinality(Held(ch)) - 1
    BY <2>1, CountsAreNumbers, FS_RemoveElement, Zenon
  <2> QED BY <1>2, <2>1, <2>2
<1>3. CASE ch # cmd[c].slot[1]
  <2>1. Held(ch)' = Held(ch)
    BY <1>3 DEF Held, InQueuecommand
  <2> QED BY <1>3, <2>1, CountsAreNumbers
<1> QED BY <1>2, <1>3

\* A request is sent or is no longer with the target.
LEMMA WireSent ==
  ASSUME TypeInv, NEW r \in Requests, r \notin wire, wire' = wire \cup {r}, NEW ch \in Chans
  PROVE  /\ CreditsOf(wire', ch) = CreditsOf(wire, ch) + IF r.ch = ch THEN 1 ELSE 0
         /\ CreditsOf(TaskFunctions(wire'), ch) =
              CreditsOf(TaskFunctions(wire), ch)
                + IF r.ch = ch /\ r.kind # "cmd" THEN 1 ELSE 0
<1>1. CreditsOf(wire', ch) = CreditsOf(wire, ch) + IF r.ch = ch THEN 1 ELSE 0
  BY CreditsAdded DEF TypeInv, WireTypes
<1>2. CASE r.kind = "cmd"
  <2>1. TaskFunctions(wire') = TaskFunctions(wire)
    BY <1>2 DEF TaskFunctions
  <2> QED BY <1>1, <1>2, <2>1, CountsAreNumbers
<1>3. CASE r.kind # "cmd"
  <2>1. TaskFunctions(wire') = TaskFunctions(wire) \cup {r} /\ r \notin TaskFunctions(wire)
    BY <1>3 DEF TaskFunctions
  <2>2. CreditsOf(TaskFunctions(wire'), ch) =
          CreditsOf(TaskFunctions(wire), ch) + IF r.ch = ch THEN 1 ELSE 0
    <3>1. IsFiniteSet(TaskFunctions(wire))
      BY CountsAreNumbers, Zenon
    <3> QED BY <2>1, <3>1, CreditsAdded
  <2> QED BY <1>1, <1>3, <2>2
<1> QED BY <1>2, <1>3

LEMMA WireAnswered ==
  ASSUME TypeInv, NEW gone \in SUBSET wire, wire' = wire \ gone, NEW ch \in Chans
  PROVE  /\ CreditsOf(gone, ch) \in Nat
         /\ CreditsOf(wire', ch) = CreditsOf(wire, ch) - CreditsOf(gone, ch)
         /\ CreditsOf(TaskFunctions(wire'), ch) \in Nat
         /\ CreditsOf(TaskFunctions(wire'), ch) >=
              CreditsOf(TaskFunctions(wire), ch) - CreditsOf(gone, ch)
         /\ (\A r \in gone : r.kind = "cmd") =>
              CreditsOf(TaskFunctions(wire'), ch) = CreditsOf(TaskFunctions(wire), ch)
<1>1. /\ CreditsOf(gone, ch) \in Nat
      /\ CreditsOf(wire', ch) = CreditsOf(wire, ch) - CreditsOf(gone, ch)
  BY CreditsRemoved DEF TypeInv, WireTypes
<1> DEFINE f == TaskFunctions(gone)
<1>2. /\ f \in SUBSET TaskFunctions(wire) /\ f \in SUBSET gone
      /\ TaskFunctions(wire') = TaskFunctions(wire) \ f
  BY DEF TaskFunctions
<1>3. IsFiniteSet(gone)
  BY FS_Subset, Zenon DEF TypeInv, WireTypes
<1>4. (\A r \in gone : r.kind = "cmd") => f = {}
  BY DEF TaskFunctions
<1> HIDE DEF f
<1>5. /\ CreditsOf(TaskFunctions(wire'), ch) \in Nat /\ CreditsOf(f, ch) \in Nat
      /\ CreditsOf(TaskFunctions(wire'), ch) =
           CreditsOf(TaskFunctions(wire), ch) - CreditsOf(f, ch)
  <2>1. IsFiniteSet(TaskFunctions(wire))
    BY CountsAreNumbers, Zenon
  <2> QED BY <1>2, <2>1, CreditsRemoved
<1>6. CreditsOf(f, ch) <= CreditsOf(gone, ch)
  <2>1. CreditsOf(gone \ f, ch) = CreditsOf(gone, ch) - CreditsOf(f, ch)
        /\ CreditsOf(gone \ f, ch) \in Nat
    BY <1>2, <1>3, CreditsRemoved
  <2> QED BY <1>1, <1>5, <2>1
<1>7. (\A r \in gone : r.kind = "cmd") => CreditsOf(f, ch) = 0
  BY <1>4, NoCredits
<1> QED BY <1>1, <1>5, <1>6, <1>7, CountsAreNumbers

LEMMA QueueCredits ==
  ASSUME TypeInv, CreditInv, UNCHANGED setting, NEW c \in Cmds, NEW ch \in Chans,
         \/ srp_queuecommand(c, ch) \/ srp_queuecommand_busy(c, ch)
         \/ srp_post_send(c) \/ srp_queuecommand_err(c)
  PROVE  CreditInv'
<1> SUFFICES ASSUME NEW x \in Chans PROVE ChannelKept(x)
  BY CreditKept DEF setting
<1>0. /\ Cardinality(Held(x)) \in Nat /\ CreditsOf(wire, x) \in Nat
      /\ CreditsOf(TaskFunctions(wire), x) \in Nat
      /\ rx[x].delta \in Nat /\ req_lim[x] \in Int /\ free_tx[x] \in Int
      /\ posted[x] \in Nat /\ owed[x] \in Nat
  BY CountsAreNumbers
<1>1. CASE srp_queuecommand(c, ch)
  <2>1. PICK p \in Polls(ch), s \in free_reqs :
          /\ s[1] = ch
          /\ free_tx[ch] + p.ok > 0 /\ req_lim[ch] > 1
          /\ free_tx' = [free_tx EXCEPT ![ch] = @ + p.ok - 1]
          /\ posted' = [posted EXCEPT ![ch] = @ - p.ok - p.failed]
          /\ cmd' = [cmd EXCEPT ![c] = [at |-> "map", slot |-> s]]
    BY <1>1, Zenon DEF srp_queuecommand, HasTxIu, rsv
  <2>2. /\ UNCHANGED <<wire, owed, connected, rx>> /\ cmd[c].at = "core" /\ s \in Slots
        /\ req_lim' = [req_lim EXCEPT ![ch] = @ - 1]
    BY <1>1, <2>1 DEF srp_queuecommand, MayQueue, target, TypeInv, SlotTypes
  <2>3. Cardinality(Held(x)') = Cardinality(Held(x)) + IF x = ch THEN 1 ELSE 0
    BY <2>1, <2>2, HeldTaken, Zenon
  <2>4. CASE x # ch
    BY <1>0, <2>1, <2>2, <2>3, <2>4, ChannelUntouched DEF TypeInv, CountTypes
  <2>5. CASE x = ch
    <3>1. p.ok \in Nat /\ p.failed \in Nat
      BY PollTypes DEF TypeInv
    <3>2. /\ req_lim'[x] = req_lim[x] - 1 /\ free_tx'[x] = free_tx[x] + p.ok - 1
          /\ posted'[x] = posted[x] - p.ok - p.failed
      BY <2>1, <2>2, <2>5 DEF TypeInv, CountTypes
    <3>3. Balance(x)' = Balance(x) /\ Spare(x)' \in Int /\ Spare(x)' >= 1
      BY <1>0, <2>1, <2>2, <2>3, <2>5, <3>2 DEF Balance, Spare
    <3>4. TxInUse(x)' \in Int /\ TxInUse(x)' <= TxInUse(x) /\ free_tx'[x] >= 0
      BY <1>0, <2>1, <2>3, <2>5, <3>1, <3>2 DEF TxInUse
    <3> QED BY <2>2, <3>3, <3>4 DEF ChannelKept
  <2> QED BY <2>4, <2>5
<1>2. CASE srp_queuecommand_busy(c, ch)
  <2>1. PICK p \in Polls(ch) :
          /\ free_tx' = [free_tx EXCEPT ![ch] = @ + p.ok]
          /\ posted' = [posted EXCEPT ![ch] = @ - p.ok - p.failed]
    BY <1>2, Zenon DEF srp_queuecommand_busy
  <2>2. UNCHANGED <<wire, owed, connected, rx, req_lim, cmd>>
    BY <1>2 DEF srp_queuecommand_busy, target, requests
  <2>3. Held(x)' = Held(x)
    BY <2>2 DEF Held, InQueuecommand
  <2>4. CASE x # ch
    BY <2>1, <2>2, <2>3, <2>4, ChannelUntouched DEF TypeInv, CountTypes
  <2>5. CASE x = ch
    <3>1. p.ok \in Nat /\ p.failed \in Nat
      BY PollTypes DEF TypeInv
    <3>2. /\ free_tx'[x] = free_tx[x] + p.ok
          /\ posted'[x] = posted[x] - p.ok - p.failed
      BY <2>1, <2>2, <2>5 DEF TypeInv, CountTypes
    <3>3. Balance(x)' = Balance(x) /\ Spare(x)' = Spare(x) /\ Spare(x) \in Int
      BY <1>0, <2>2, <2>3 DEF Balance, Spare
    <3>4. /\ TxInUse(x)' \in Int /\ TxInUse(x)' <= TxInUse(x)
          /\ free_tx[x] >= 0 => free_tx'[x] >= 0
      BY <1>0, <2>3, <3>1, <3>2 DEF TxInUse
    <3> QED BY <2>2, <3>3, <3>4 DEF ChannelKept
  <2> QED BY <2>4, <2>5
<1>3. CASE srp_post_send(c)
  <2> DEFINE s == cmd[c].slot
             r == Request(s[1], "cmd", s[2], c)
  <2>1. s \in Slots /\ s[1] \in Chans /\ s[2] \in Tags /\ cmd[c].at = "map"
    BY <1>3 DEF srp_post_send, TypeInv, SlotTypes, Slots
  <2>2. r \in Requests /\ r.n = Fresh /\ r.ch = s[1] /\ r.kind = "cmd" /\ r.tag = s[2] /\ r.cmd = c
    BY <2>1, RequestTypes DEF TypeInv
  <2>3. /\ wire' = wire \cup {r} /\ UNCHANGED <<req_lim, free_tx, owed, connected, rx>>
        /\ posted' = [posted EXCEPT ![s[1]] = @ + 1]
        /\ cmd'[c].at = "lld" /\ \A d \in Cmds : d # c => cmd'[d] = cmd[d]
    BY <1>3 DEF srp_post_send, link, TypeInv, SlotTypes
  <2> HIDE DEF r
  <2>4. r \notin wire
    BY <2>1, <2>2, <2>3, SentTypes DEF TypeInv
  <2>5. /\ CreditsOf(wire', x) = CreditsOf(wire, x) + IF s[1] = x THEN 1 ELSE 0
        /\ CreditsOf(TaskFunctions(wire'), x) = CreditsOf(TaskFunctions(wire), x)
    <3>1. /\ CreditsOf(wire', x) = CreditsOf(wire, x) + IF r.ch = x THEN 1 ELSE 0
          /\ CreditsOf(TaskFunctions(wire'), x) =
               CreditsOf(TaskFunctions(wire), x) + IF r.ch = x /\ r.kind # "cmd" THEN 1 ELSE 0
      BY <2>2, <2>3, <2>4, WireSent, Zenon
    <3> QED BY <1>0, <2>2, <3>1
  <2>6. Cardinality(Held(x)') = Cardinality(Held(x)) - IF x = s[1] THEN 1 ELSE 0
    BY <2>1, <2>3, HeldReleased
  <2>7. posted'[x] = posted[x] + IF x = s[1] THEN 1 ELSE 0
    BY <1>0, <2>1, <2>3 DEF TypeInv, CountTypes
  <2>8. Balance(x)' = Balance(x) /\ Spare(x)' = Spare(x) /\ Spare(x) \in Int
    BY <1>0, <2>3, <2>5, <2>6 DEF Balance, Spare
  <2>9. TxInUse(x)' = TxInUse(x) /\ TxInUse(x) \in Int
    BY <1>0, <2>3, <2>6, <2>7 DEF TxInUse
  <2> QED BY <2>3, <2>8, <2>9 DEF ChannelKept
<1>4. CASE srp_queuecommand_err(c)
  <2> DEFINE s == cmd[c].slot
  <2>1. s \in Slots /\ s[1] \in Chans /\ cmd[c].at = "map"
    BY <1>4 DEF srp_queuecommand_err, TypeInv, SlotTypes, Slots
  <2>2. /\ UNCHANGED <<wire, posted, owed, connected, rx>>
        /\ free_tx' = [free_tx EXCEPT ![s[1]] = @ + 1]
        /\ req_lim' = [req_lim EXCEPT ![s[1]] = @ + 1]
        /\ cmd'[c].at # "map" /\ \A d \in Cmds : d # c => cmd'[d] = cmd[d]
    BY <1>4 DEF srp_queuecommand_err, target, link, InCore, TypeInv, SlotTypes
  <2>3. Cardinality(Held(x)') = Cardinality(Held(x)) - IF x = s[1] THEN 1 ELSE 0
    BY <2>1, <2>2, HeldReleased
  <2>4. /\ free_tx'[x] = free_tx[x] + IF x = s[1] THEN 1 ELSE 0
        /\ req_lim'[x] = req_lim[x] + IF x = s[1] THEN 1 ELSE 0
    BY <1>0, <2>1, <2>2 DEF TypeInv, CountTypes
  <2>5. /\ Balance(x)' = Balance(x) /\ Spare(x)' >= Spare(x)
        /\ Spare(x)' \in Int /\ Spare(x) \in Int
    BY <1>0, <2>2, <2>3, <2>4, SMTT(20) DEF Balance, Spare
  <2>6. /\ TxInUse(x)' = TxInUse(x) /\ TxInUse(x) \in Int
        /\ free_tx[x] >= 0 => free_tx'[x] >= 0
    BY <1>0, <2>2, <2>3, <2>4, SMTT(20) DEF TxInUse
  <2> QED BY <2>2, <2>5, <2>6 DEF ChannelKept
<1> QED BY <1>1, <1>2, <1>3, <1>4

LEMMA ReceiveCredits ==
  ASSUME TypeInv, CreditInv, UNCHANGED setting, Receive
  PROVE  CreditInv'
<1> SUFFICES ASSUME NEW x \in Chans PROVE ChannelKept(x)
  BY CreditKept DEF setting
<1>0. /\ Cardinality(Held(x)) \in Nat /\ CreditsOf(wire, x) \in Nat
      /\ CreditsOf(TaskFunctions(wire), x) \in Nat
      /\ rx[x].delta \in Nat /\ req_lim[x] \in Int /\ free_tx[x] \in Int
      /\ posted[x] \in Nat /\ owed[x] \in Nat
  BY CountsAreNumbers
<1>1. ASSUME NEW r \in wire, srp_process_rsp(r)
      PROVE  ChannelKept(x)
  <2>1. /\ r.ch \in Chans /\ r.kind = "cmd" /\ rx[r.ch].delta = 0
        /\ wire' = wire \ {r} /\ UNCHANGED <<free_tx, posted, cmd, connected>>
    BY <1>1 DEF srp_process_rsp, link, TypeInv, WireTypes, Requests, RxIdle
  <2>2. PICK delta \in 0..(owed[r.ch] + 1) :
          /\ owed' = [owed EXCEPT ![r.ch] = @ + 1 - delta]
          /\ \/ /\ rx' = [rx EXCEPT ![r.ch] =
                            [cmd |-> scmnd[<<r.ch, r.tag>>], tag |-> r.tag, delta |-> delta,
                             answers |-> r.cmd]]
                /\ UNCHANGED req_lim
             \/ /\ req_lim' = [req_lim EXCEPT ![r.ch] = @ + delta]
                /\ UNCHANGED rx
    BY <1>1, Zenon DEF srp_process_rsp
  <2>3. /\ CreditsOf(wire', x) = CreditsOf(wire, x) - IF r.ch = x THEN 1 ELSE 0
        /\ CreditsOf(TaskFunctions(wire'), x) = CreditsOf(TaskFunctions(wire), x)
    <3>1. {r} \in SUBSET wire /\ \A q \in {r} : q.kind = "cmd"
      BY <2>1
    <3>2. /\ CreditsOf(wire', x) = CreditsOf(wire, x) - CreditsOf({r}, x)
          /\ CreditsOf(TaskFunctions(wire'), x) = CreditsOf(TaskFunctions(wire), x)
      BY <2>1, <3>1, WireAnswered, Zenon
    <3> QED BY <3>2, CreditOfOne
  <2>4. Held(x)' = Held(x)
    BY <2>1 DEF Held, InQueuecommand
  <2>5. CASE x # r.ch
    <3>1. /\ owed'[x] = owed[x] /\ rx'[x] = rx[x] /\ req_lim'[x] = req_lim[x]
          /\ CreditsOf(wire', x) = CreditsOf(wire, x)
      BY <1>0, <2>1, <2>2, <2>3, <2>5 DEF TypeInv, CountTypes, HandlerTypes
    <3> QED BY <2>1, <2>3, <2>4, <3>1, ChannelUntouched
  <2>6. CASE x = r.ch
    <3>1. /\ owed'[x] = owed[x] + 1 - delta /\ delta \in Nat
          /\ \/ rx'[x].delta = delta /\ req_lim'[x] = req_lim[x]
             \/ rx'[x].delta = 0 /\ req_lim'[x] = req_lim[x] + delta
      BY <1>0, <2>1, <2>2, <2>6 DEF TypeInv, CountTypes, HandlerTypes
    <3>2. /\ Balance(x)' = Balance(x) /\ Spare(x)' >= Spare(x)
          /\ Spare(x)' \in Int /\ Spare(x) \in Int
      BY <1>0, <2>1, <2>3, <2>4, <2>6, <3>1 DEF Balance, Spare
    <3>3. TxInUse(x)' = TxInUse(x) /\ TxInUse(x) \in Int
      BY <1>0, <2>1, <2>4 DEF TxInUse
    <3> QED BY <2>1, <3>2, <3>3 DEF ChannelKept
  <2> QED BY <2>5, <2>6
<1>2. ASSUME NEW r \in wire, srp_process_rsp_tsk_mgmt(r)
      PROVE  ChannelKept(x)
  <2> DEFINE gone == Aborted(r)
  <2>1. r.ch \in Chans /\ gone \in SUBSET wire /\ r \notin gone /\ gone \cup {r} \in SUBSET wire
    BY <1>2 DEF srp_process_rsp_tsk_mgmt, Aborted, TypeInv, WireTypes, Requests
  <2>2. /\ wire' = wire \ (gone \cup {r})
        /\ UNCHANGED <<free_tx, posted, cmd, connected, rx>>
    BY <1>2 DEF srp_process_rsp_tsk_mgmt, requests, link
  <2>3. PICK delta \in 0..(owed[r.ch] + CreditsOf(gone, r.ch) + 1) :
          /\ owed' = [ch \in Chans |->
                        owed[ch] + CreditsOf(gone, ch)
                                 + IF ch = r.ch THEN 1 - delta ELSE 0]
          /\ req_lim' = [req_lim EXCEPT ![r.ch] = @ + delta]
    BY <1>2, Zenon DEF srp_process_rsp_tsk_mgmt
  <2> HIDE DEF gone
  <2>4. /\ CreditsOf(gone, x) \in Nat
        /\ CreditsOf(gone \cup {r}, x) = CreditsOf(gone, x) + IF r.ch = x THEN 1 ELSE 0
    <3>1. IsFiniteSet(gone)
      BY <2>1, FS_Subset, Zenon DEF TypeInv, WireTypes
    <3> QED BY <2>1, <3>1, CreditsType, CreditsAdded, Zenon
  <2>5. /\ CreditsOf(wire', x) = CreditsOf(wire, x) - CreditsOf(gone \cup {r}, x)
        /\ CreditsOf(TaskFunctions(wire'), x) >=
             CreditsOf(TaskFunctions(wire), x) - CreditsOf(gone \cup {r}, x)
        /\ CreditsOf(TaskFunctions(wire'), x) \in Nat
    BY <2>1, <2>2, WireAnswered, Zenon
  <2>6. Held(x)' = Held(x)
    BY <2>2 DEF Held, InQueuecommand
  <2>7. /\ owed'[x] = owed[x] + CreditsOf(gone, x) + IF x = r.ch THEN 1 - delta ELSE 0
        /\ req_lim'[x] = req_lim[x] + IF x = r.ch THEN delta ELSE 0
        /\ x = r.ch => delta \in Nat
    BY <1>0, <2>1, <2>3, <2>4 DEF TypeInv, CountTypes
  <2>8. /\ Balance(x)' = Balance(x) /\ Spare(x)' >= Spare(x)
        /\ Spare(x)' \in Int /\ Spare(x) \in Int
    BY <1>0, <2>2, <2>4, <2>5, <2>6, <2>7, SMTT(20) DEF Balance, Spare
  <2>9. TxInUse(x)' = TxInUse(x) /\ TxInUse(x) \in Int
    BY <1>0, <2>2, <2>6 DEF TxInUse
  <2> QED BY <2>2, <2>8, <2>9 DEF ChannelKept
<1>3. ASSUME NEW ch \in Chans, srp_process_rsp_done(ch)
      PROVE  ChannelKept(x)
  <2>1. /\ UNCHANGED <<free_tx, posted, wire, owed, connected>>
        /\ Held(x)' = Held(x)
    BY <1>3, DoneEffect, Zenon DEF srp_process_rsp_done, target, link, TypeInv
  <2>2. /\ req_lim'[x] = req_lim[x] + IF x = ch THEN rx[x].delta ELSE 0
        /\ rx'[x].delta = IF x = ch THEN 0 ELSE rx[x].delta
    BY <1>0, <1>3 DEF srp_process_rsp_done, RxIdle, TypeInv, CountTypes, HandlerTypes
  <2>3. /\ Balance(x)' = Balance(x) /\ Spare(x)' = Spare(x) /\ Spare(x) \in Int
        /\ TxInUse(x)' = TxInUse(x) /\ TxInUse(x) \in Int
    BY <1>0, <2>1, <2>2 DEF Balance, Spare, TxInUse
  <2> QED BY <2>1, <2>3, SMTT(20) DEF ChannelKept
<1>4. ASSUME NEW ch \in Chans, srp_response_common(ch)
      PROVE  ChannelKept(x)
  <2>1. PICK delta \in 1..owed[ch] :
          /\ req_lim' = [req_lim EXCEPT ![ch] = @ + delta]
          /\ owed' = [owed EXCEPT ![ch] = @ - delta]
    BY <1>4, Zenon DEF srp_response_common
  <2>2. PICK p \in Polls(ch), sent \in 0..1 :
          /\ sent = 1 => free_tx[ch] + p.ok > 0
          /\ free_tx' = [free_tx EXCEPT ![ch] = @ + p.ok - sent]
          /\ posted' = [posted EXCEPT ![ch] = @ - p.ok - p.failed + sent]
    BY <1>4, Zenon DEF srp_response_common, HasTxIu
  <2>3. UNCHANGED <<cmd, wire, connected, rx>>
    BY <1>4 DEF srp_response_common, requests
  <2>4. Held(x)' = Held(x)
    BY <2>3 DEF Held, InQueuecommand
  <2>5. CASE x # ch
    BY <2>1, <2>2, <2>3, <2>4, <2>5, ChannelUntouched DEF TypeInv, CountTypes
  <2>6. CASE x = ch
    <3>1. p.ok \in Nat /\ p.failed \in Nat /\ delta \in Nat
      BY PollTypes, <1>0, <2>6 DEF TypeInv
    <3>2. /\ req_lim'[x] = req_lim[x] + delta /\ owed'[x] = owed[x] - delta
          /\ free_tx'[x] = free_tx[x] + p.ok - sent
          /\ posted'[x] = posted[x] - p.ok - p.failed + sent
      BY <2>1, <2>2, <2>6 DEF TypeInv, CountTypes
    <3>3. Balance(x)' = Balance(x) /\ Spare(x)' = Spare(x) /\ Spare(x) \in Int
      BY <1>0, <2>3, <2>4, <3>1, <3>2 DEF Balance, Spare
    <3>4. /\ TxInUse(x)' \in Int /\ TxInUse(x)' <= TxInUse(x)
          /\ free_tx[x] >= 0 => free_tx'[x] >= 0
      BY <1>0, <2>2, <2>4, <2>6, <3>1, <3>2, SMTT(20) DEF TxInUse
    <3> QED BY <2>3, <3>3, <3>4 DEF ChannelKept
  <2> QED BY <2>5, <2>6
<1>5. ASSUME NEW ch \in Chans, ConnectionLost(ch) \/ srp_recv_completion_err(ch)
      PROVE  ChannelKept(x)
  <2>1. UNCHANGED <<cmd, lists, target, connected, rx>>
    BY <1>5, Zenon DEF ConnectionLost, srp_recv_completion_err, requests
  <2>2. Held(x)' = Held(x)
    BY <2>1 DEF Held, InQueuecommand
  <2> QED BY <2>1, <2>2, ChannelUntouched DEF lists, target
<1> QED BY <1>1, <1>2, <1>3, <1>4, <1>5 DEF Receive

LEMMA TskMgmtCredits ==
  ASSUME TypeInv, CreditInv, UNCHANGED setting, TskMgmt
  PROVE  CreditInv'
<1> SUFFICES ASSUME NEW x \in Chans PROVE ChannelKept(x)
  BY CreditKept DEF setting
<1>0. /\ Cardinality(Held(x)) \in Nat /\ CreditsOf(wire, x) \in Nat
      /\ CreditsOf(TaskFunctions(wire), x) \in Nat
      /\ rx[x].delta \in Nat /\ req_lim[x] \in Int /\ free_tx[x] \in Int
      /\ posted[x] \in Nat /\ owed[x] \in Nat
  BY CountsAreNumbers
<1>1. UNCHANGED <<connected, rx>>
  BY Zenon DEF TskMgmt, Timeout, srp_abort, srp_abort_too_late, srp_reset_device,
         srp_send_tsk_mgmt_check, srp_send_tsk_mgmt_err, srp_send_tsk_mgmt,
         srp_send_tsk_mgmt_ok, srp_send_tsk_mgmt_timeout, srp_abort_done,
         srp_reset_device_failed, srp_reset_device_done, link
<1>2. Held(x)' = Held(x)
  <2>1. ASSUME NEW cs, cmd' = Done(cs)
        PROVE  Held(x)' = Held(x)
    BY <2>1, DoneEffect, Zenon DEF TypeInv
  <2>2. CASE UNCHANGED cmd
    BY <2>2 DEF Held, InQueuecommand
  <2> QED BY <2>1, <2>2, Zenon DEF TskMgmt, Timeout, srp_abort, srp_abort_too_late,
             srp_reset_device, srp_send_tsk_mgmt_check, srp_send_tsk_mgmt_err,
             srp_send_tsk_mgmt, srp_send_tsk_mgmt_ok, srp_send_tsk_mgmt_timeout,
             srp_abort_done, srp_reset_device_failed, srp_reset_device_done, requests
<1>3. CASE UNCHANGED <<lists, target>>
  BY <1>1, <1>2, <1>3, ChannelUntouched DEF lists, target
<1>4. CASE srp_send_tsk_mgmt_err
  <2> DEFINE ch == tm.slot[1]
  <2>1. ch \in Chans
    BY DEF TypeInv, HandlerTypes
  <2>2. PICK p \in Polls(ch) :
          /\ free_tx' = [free_tx EXCEPT ![ch] = @ + p.ok]
          /\ posted' = [posted EXCEPT ![ch] = @ - p.ok - p.failed]
    BY <1>4, Zenon DEF srp_send_tsk_mgmt_err
  <2>3. UNCHANGED <<wire, owed, req_lim>>
    BY <1>4 DEF srp_send_tsk_mgmt_err, target
  <2> HIDE DEF ch
  <2>4. CASE x # ch
    BY <1>1, <1>2, <2>1, <2>2, <2>3, <2>4, ChannelUntouched DEF TypeInv, CountTypes
  <2>5. CASE x = ch
    <3>1. p.ok \in Nat /\ p.failed \in Nat
      BY <2>1, PollTypes DEF TypeInv
    <3>2. /\ free_tx'[x] = free_tx[x] + p.ok
          /\ posted'[x] = posted[x] - p.ok - p.failed
      BY <2>1, <2>2, <2>5 DEF TypeInv, CountTypes
    <3>3. Balance(x)' = Balance(x) /\ Spare(x)' = Spare(x) /\ Spare(x) \in Int
      BY <1>0, <1>1, <1>2, <2>3 DEF Balance, Spare
    <3>4. /\ TxInUse(x)' \in Int /\ TxInUse(x)' <= TxInUse(x)
          /\ free_tx[x] >= 0 => free_tx'[x] >= 0
      BY <1>0, <1>2, <3>1, <3>2, SMTT(20) DEF TxInUse
    <3> QED BY <1>1, <3>3, <3>4 DEF ChannelKept
  <2> QED BY <2>4, <2>5
<1>5. CASE srp_send_tsk_mgmt
  <2> DEFINE ch == tm.slot[1]
             r == Request(ch, TskMgmtKind, tm.slot[2], tm.cmd)
  <2>1. /\ ch \in Chans /\ tm.slot[2] \in Tags \cup {NoCmd} /\ tm.cmd \in Cmds \cup {NoCmd}
        /\ TskMgmtKind \in {"abort", "lun_reset"}
    BY DEF TypeInv, HandlerTypes, TskMgmtKind
  <2>2. PICK p \in Polls(ch) :
          /\ free_tx[ch] + p.ok > 0
          /\ free_tx' = [free_tx EXCEPT ![ch] = @ + p.ok - 1]
          /\ posted' = [posted EXCEPT ![ch] = @ - p.ok - p.failed + 1]
    BY <1>5, Zenon DEF srp_send_tsk_mgmt, HasTxIu
  <2>3. /\ req_lim' = [req_lim EXCEPT ![ch] = @ - 1] /\ wire' = wire \cup {r}
        /\ UNCHANGED owed
    BY <1>5 DEF srp_send_tsk_mgmt
  <2>4. r \in Requests /\ r.n = Fresh /\ r.ch = ch /\ r.kind # "cmd"
    <3>1. r \in Requests
      BY <2>1, RequestTypes DEF TypeInv
    <3> QED BY <2>1, <3>1 DEF Request
  <2> HIDE DEF r, ch
  <2>5. r \notin wire
    BY <2>3, <2>4, SentTypes DEF TypeInv
  <2>6. /\ CreditsOf(wire', x) = CreditsOf(wire, x) + IF r.ch = x THEN 1 ELSE 0
        /\ CreditsOf(TaskFunctions(wire'), x) =
             CreditsOf(TaskFunctions(wire), x) + IF r.ch = x /\ r.kind # "cmd" THEN 1 ELSE 0
    BY <2>3, <2>4, <2>5, WireSent
  <2>7. CASE x # ch
    <3>1. /\ req_lim'[x] = req_lim[x] /\ free_tx'[x] = free_tx[x] /\ posted'[x] = posted[x]
      BY <2>1, <2>2, <2>3, <2>7 DEF TypeInv, CountTypes
    <3>2. /\ CreditsOf(wire', x) = CreditsOf(wire, x)
          /\ CreditsOf(TaskFunctions(wire'), x) = CreditsOf(TaskFunctions(wire), x)
      BY <1>0, <2>4, <2>6, <2>7
    <3> QED BY <1>1, <1>2, <2>3, <3>1, <3>2, ChannelUntouched
  <2>8. CASE x = ch
    <3>1. p.ok \in Nat /\ p.failed \in Nat
      BY <2>1, PollTypes DEF TypeInv
    <3>2. /\ req_lim'[x] = req_lim[x] - 1 /\ free_tx'[x] = free_tx[x] + p.ok - 1
          /\ posted'[x] = posted[x] - p.ok - p.failed + 1
      BY <2>1, <2>2, <2>3, <2>8 DEF TypeInv, CountTypes
    <3>3. Balance(x)' = Balance(x) /\ Spare(x)' = Spare(x) /\ Spare(x) \in Int
      BY <1>0, <1>1, <1>2, <2>3, <2>4, <2>6, <2>8, <3>2, SMTT(20) DEF Balance, Spare
    <3>4. /\ TxInUse(x)' \in Int /\ TxInUse(x)' <= TxInUse(x)
          /\ free_tx'[x] >= 0
      BY <1>0, <1>2, <2>2, <2>8, <3>1, <3>2, SMTT(20) DEF TxInUse
    <3> QED BY <1>1, <3>3, <3>4 DEF ChannelKept
  <2> QED BY <2>7, <2>8
<1>6. CASE srp_send_tsk_mgmt_timeout \/ srp_abort_done
  <2>1. PICK rs \in SUBSET wire : GiveUp(rs)
    <3>1. CASE srp_send_tsk_mgmt_timeout
      BY <3>1, Zenon DEF srp_send_tsk_mgmt_timeout
    <3>2. CASE srp_abort_done
      BY <3>2, Zenon DEF srp_abort_done
    <3> QED BY <1>6, <3>1, <3>2
  <2>2. UNCHANGED lists
    BY <1>6 DEF srp_send_tsk_mgmt_timeout, srp_abort_done
  <2>3. PICK gone \in SUBSET wire :
          /\ wire' = wire \ gone
          /\ owed'[x] = owed[x] + CreditsOf(gone, x)
    BY <2>1, <2>2, GiveUpTypes, Zenon
  <2>4. /\ CreditsOf(gone, x) \in Nat
        /\ CreditsOf(wire', x) = CreditsOf(wire, x) - CreditsOf(gone, x)
        /\ CreditsOf(TaskFunctions(wire'), x) \in Nat
        /\ CreditsOf(TaskFunctions(wire'), x) >=
             CreditsOf(TaskFunctions(wire), x) - CreditsOf(gone, x)
    BY <2>3, WireAnswered, Zenon
  <2>5. /\ Balance(x)' = Balance(x) /\ Spare(x)' >= Spare(x)
        /\ Spare(x)' \in Int /\ Spare(x) \in Int
    BY <1>0, <1>1, <1>2, <2>2, <2>3, <2>4, SMTT(20) DEF Balance, Spare, lists
  <2>6. TxInUse(x)' = TxInUse(x) /\ TxInUse(x) \in Int /\ free_tx'[x] = free_tx[x]
    BY <1>0, <1>2, <2>2, SMTT(20) DEF TxInUse, lists
  <2> QED BY <1>1, <2>5, <2>6 DEF ChannelKept
<1> QED BY <1>3, <1>4, <1>5, <1>6, Zenon DEF TskMgmt, Timeout, srp_abort, srp_abort_too_late,
           srp_reset_device, srp_send_tsk_mgmt_check, srp_send_tsk_mgmt_ok,
           srp_reset_device_failed, srp_reset_device_done

LEMMA TransportCredits ==
  ASSUME TypeInv, XportInv, CreditInv, UNCHANGED setting, Transport
  PROVE  CreditInv'
<1>1. ASSUME UNCHANGED <<lists, target, rx, cmd>>,
             \A ch \in Chans : connected'[ch] => connected[ch]
      PROVE  CreditInv'
  <2>1. \A ch \in Chans : Held(ch)' = Held(ch)
    BY <1>1 DEF Held, InQueuecommand
  <2> QED BY <1>1, <2>1, CreditUnchanged DEF setting
<1>2. CASE \/ srp_tl_err_work \/ srp_disconnect_target \/ srp_rport_reconnect_scanning
           \/ srp_connect_ch_failed \/ srp_rport_reconnect_done
  BY <1>1, <1>2 DEF srp_tl_err_work, srp_disconnect_target, srp_rport_reconnect_scanning,
                    srp_connect_ch_failed, srp_rport_reconnect_done, requests, link
<1>3. CASE srp_terminate_io \/ srp_rport_reconnect_reset
  <2>1. PICK cs : cmd' = Done(cs)
    BY <1>3 DEF srp_terminate_io, srp_rport_reconnect_reset
  <2>2. \A ch \in Chans : Held(ch)' = Held(ch)
    BY <2>1, DoneEffect, Zenon DEF TypeInv
  <2>3. UNCHANGED <<lists, target, rx, connected>>
    BY <1>3 DEF srp_terminate_io, srp_rport_reconnect_reset, link
  <2> QED BY <2>2, <2>3, CreditUnchanged DEF setting
<1>4. CASE srp_create_ch_ib
  <2>1. \A ch \in Chans : ~connected'[ch]
    BY <1>4 DEF srp_create_ch_ib, XportInv
  <2> QED BY <2>1 DEF CreditInv, CreditsConserved, TxIusNotShared, SpareCredit
<1>5. ASSUME NEW ch \in Chans, srp_connect_ch(ch)
      PROVE  CreditInv'
  <2>1. /\ req_lim' = [req_lim EXCEPT ![ch] = granted]
        /\ connected' = [connected EXCEPT ![ch] = TRUE]
        /\ UNCHANGED <<free_tx, posted, cmd, wire, owed, rx>>
    BY <1>5 DEF srp_connect_ch, requests, target
  <2>2. \A x : Held(x)' = Held(x)
    BY <2>1 DEF Held, InQueuecommand
  <2>3. ASSUME NEW x \in Chans, x # ch PROVE ChannelKept(x)
    BY <2>1, <2>2, <2>3, ChannelUntouched DEF TypeInv, CountTypes, LinkTypes
  <2>4. ChannelFresh(ch)
    <3>1. /\ wire = {} /\ owed[ch] = 0 /\ posted[ch] = 0 /\ free_tx[ch] = QueueSize
          /\ rx[ch].delta = 0 /\ InQueuecommand = {}
      BY <1>5 DEF srp_connect_ch, XportInv, RxIdle
    <3>2. Held(ch) = {} /\ TaskFunctions(wire) = {}
      BY <3>1 DEF Held, TaskFunctions
    <3>3. Cardinality(Held(ch)) = 0 /\ CreditsOf(wire, ch) = 0
          /\ CreditsOf(TaskFunctions(wire), ch) = 0
      BY <3>1, <3>2, NoCredits, FS_EmptySet
    <3>4. req_lim'[ch] = granted /\ granted \in Nat \ {0} /\ granted' = granted
      BY <2>1 DEF TypeInv, CountTypes, setting
    <3> QED BY <2>1, <2>2, <3>1, <3>3, <3>4, ChannelConstants
            DEF ChannelFresh, Balance, TxInUse, Spare
  <2> QED BY <2>3, <2>4, CreditKept DEF setting
<1> QED BY <1>2, <1>3, <1>4, <1>5 DEF Transport

LEMMA CreditStep ==
  ASSUME TypeInv, XportInv, CreditInv, Next
  PROVE  CreditInv'
<1>1. CASE Queuecommand
  BY <1>1, ChannelConstants, QueueCredits, Zenon DEF Queuecommand, Next
<1> QED BY <1>1, ReceiveCredits, TskMgmtCredits, TransportCredits, Zenon DEF Next

-----------------------------------------------------------------------------
(* The invariant holds in every state.                                     *)

LEMMA InitCredits == Init => IInv
<1> SUFFICES ASSUME Init PROVE CreditInv
  BY InitTypes DEF IInv
<1> USE ChannelConstants DEF Init
<1>1. \A ch : Held(ch) = {}
  BY DEF Held, InQueuecommand, InCore
<1>2. TaskFunctions(wire) = {} /\ \A ch : CreditsOf(wire, ch) = 0
  BY NoCredits DEF TaskFunctions
<1>3. Cardinality({}) = 0
  BY FS_EmptySet
<1>4. granted \in Nat \ {0} /\ \A ch \in Chans : rx[ch].delta = 0
  BY DEF RxIdle
<1> SUFFICES ASSUME NEW ch \in Chans
             PROVE  /\ req_lim[ch] + Cardinality(Held(ch)) + CreditsOf(wire, ch) + owed[ch]
                         + rx[ch].delta = granted
                    /\ free_tx[ch] >= 0
                    /\ free_tx[ch] + posted[ch] + Cardinality(Held(ch)) <= QueueSize
                    /\ req_lim[ch] + owed[ch] + rx[ch].delta
                         + CreditsOf(TaskFunctions(wire), ch) >= 1
  BY DEF CreditInv, CreditsConserved, TxIusNotShared, SpareCredit
<1>5. /\ req_lim[ch] = granted /\ owed[ch] = 0 /\ posted[ch] = 0 /\ free_tx[ch] = QueueSize
      /\ Cardinality(Held(ch)) = 0 /\ CreditsOf(wire, ch) = 0 /\ TaskFunctions(wire) = wire
      /\ rx[ch].delta = 0
  BY <1>1, <1>2, <1>3, <1>4, Zenon
<1> HIDE DEF Init
<1> QED BY <1>4, <1>5, SMTT(20)

LEMMA NextCredits == IInv /\ [Next]_<<vars, setting>> => IInv'
<1> SUFFICES ASSUME IInv, [Next]_<<vars, setting>> PROVE IInv'
  OBVIOUS
<1>1. TypeInv /\ XportInv /\ CreditInv /\ TypesInv'
  BY NextTypes DEF IInv, TypesInv
<1>2. TypeInv' /\ XportInv'
  BY <1>1 DEF TypesInv
<1>3. CASE Next
  BY <1>1, <1>2, <1>3, CreditStep DEF IInv
<1>4. CASE UNCHANGED <<vars, setting>>
  <2>1. /\ UNCHANGED <<req_lim, free_tx, posted, cmd, wire, owed, connected, rx, granted>>
    BY <1>4 DEF vars, setting, lists, requests, target, link
  <2>2. \A ch : Held(ch)' = Held(ch)
    BY <2>1 DEF Held, InQueuecommand
  <2>3. CreditInv'
    BY <1>1, <2>1, <2>2 DEF CreditInv, CreditsConserved, TxIusNotShared, SpareCredit
  <2> QED BY <1>1, <2>3 DEF IInv
<1> QED BY <1>3, <1>4

\* The sums of credits and information units hold in every state.
THEOREM CreditsInvariance == Spec => []IInv
<1> QED BY InitCredits, NextCredits, PTL DEF Spec

-----------------------------------------------------------------------------
(* What the runs check for small instances.                                *)

\* ch->req_lim is exact whatever races happen: on a connected channel the
\* credits add up to those the login response granted, for any number of
\* commands, channels and credits.
THEOREM NoCreditLost == Spec => []CreditsConserved
<1>1. IInv => CreditsConserved
  BY DEF IInv, CreditInv
<1> QED BY <1>1, CreditsInvariance, PTL

\* ch->free_tx never holds an information unit that a send still uses, nor
\* does it run below zero, whatever races happen.
THEOREM NoTxIuShared == Spec => []TxIusNotShared
<1>1. IInv => TxIusNotShared
  BY DEF IInv, CreditInv
<1> QED BY <1>1, CreditsInvariance, PTL

\* The credit __srp_get_tx_iu() reserves is there for srp_send_tsk_mgmt().
THEOREM TskMgmtHasCredit == Spec => []TskMgmtCredit
<1>1. IInv => TskMgmtCredit
  <2> SUFFICES ASSUME IInv, NEW ch \in Chans, connected[ch], owed[ch] = 0, rx[ch].delta = 0,
                      \A r \in wire : r.ch = ch => r.kind = "cmd"
               PROVE  req_lim[ch] > 0
    BY DEF TskMgmtCredit
  <2>1. {q \in TaskFunctions(wire) : q.ch = ch} = {}
    BY DEF TaskFunctions
  <2>2. CreditsOf(TaskFunctions(wire), ch) = 0
    BY <2>1, FS_EmptySet DEF CreditsOf
  <2>3. req_lim[ch] + owed[ch] + rx[ch].delta + CreditsOf(TaskFunctions(wire), ch) >= 1
        /\ req_lim[ch] \in Int
    BY DEF IInv, CreditInv, SpareCredit, TypesInv, TypeInv, CountTypes
  <2> QED BY <2>2, <2>3
<1> QED BY <1>1, CreditsInvariance, PTL
=============================================================================
