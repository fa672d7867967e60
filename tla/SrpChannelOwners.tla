-------------------------- MODULE SrpChannelOwners --------------------------
(***************************************************************************)
(* Proofs about SrpChannel: who has a request and a command, for any       *)
(* number of commands, channels and tags.  They hold as long as no race of *)
(* RaceKinds happens.                                                      *)
(***************************************************************************)
EXTENDS SrpChannelTypes

\* Who has a request slot: the command that the ring points at, the response
\* handler, srp_abort() from the moment it has claimed the request, or nobody.
OwnedByRing ==
  \A s \in Slots : scmnd[s] # NoCmd =>
    cmd[scmnd[s]].at # "core" /\ cmd[scmnd[s]].slot = s

OwnedByRx ==
  \A ch \in Chans : rx[ch] # RxIdle =>
    /\ cmd[rx[ch].cmd] = [at |-> "lld", slot |-> <<ch, rx[ch].tag>>]
    /\ scmnd[<<ch, rx[ch].tag>>] = NoCmd
    /\ rx[ch].answers = rx[ch].cmd

OwnedByAbort ==
  /\ TmClaimed => /\ cmd[tm.cmd] = [at |-> "lld", slot |-> tm.slot]
                  /\ scmnd[tm.slot] = NoCmd
                  /\ rx[tm.slot[1]].tag # tm.slot[2]
  /\ tm.at = "claim" => \/ cmd[tm.cmd].at = "core"
                        \/ cmd[tm.cmd] = [at |-> "lld", slot |-> tm.slot]

HasOwner ==
  \A c \in Cmds : cmd[c].at # "core" =>
    \/ scmnd[cmd[c].slot] = c
    \/ cmd[c].at = "lld" /\ rx[cmd[c].slot[1]].cmd = c
    \/ cmd[c].at = "lld" /\ TmClaimed /\ tm.cmd = c

FreeSlots ==
  \A s \in Slots :
    s \in free_reqs <=> /\ scmnd[s] = NoCmd
                        /\ rx[s[1]].tag # s[2]
                        /\ ~(TmClaimed /\ tm.slot = s)

OwnerInv == OwnedByRing /\ OwnedByRx /\ OwnedByAbort /\ HasOwner /\ FreeSlots

\* Of the commands on the wire no two have the same slot; the ring points at
\* such a command or has forgotten it, no response handler has claimed it,
\* and its slot is not given to another command while commands are queued.
CmdRequests ==
  /\ \A q, r \in wire :
       q.kind = "cmd" /\ r.kind = "cmd" /\ q.ch = r.ch /\ q.tag = r.tag => q = r
  /\ \A r \in wire : r.kind = "cmd" =>
       /\ scmnd[<<r.ch, r.tag>>] # NoCmd =>
            scmnd[<<r.ch, r.tag>>] = r.cmd /\ cmd[r.cmd].at = "lld"
       /\ rx[r.ch].tag # r.tag
       /\ port = "running" /\ xport = "idle" => <<r.ch, r.tag>> \notin free_reqs

\* The inductive invariant.
OwnersInv == TypesInv /\ (NoRaces => OwnerInv /\ CmdRequests)

-----------------------------------------------------------------------------
(* Requests and commands.                                                  *)

\* Nobody gets or gives up a request.
LEMMA OwnersUnchanged ==
  ASSUME TypeInv, OwnerInv, UNCHANGED <<requests, rx>>,
         TmClaimed' <=> TmClaimed,
         TmClaimed => tm'.cmd = tm.cmd /\ tm'.slot = tm.slot,
         tm'.at = "claim" => \/ tm' = tm
                             \/ cmd[tm'.cmd] = [at |-> "lld", slot |-> tm'.slot]
  PROVE  OwnerInv'
<1> USE DEF OwnerInv, requests
<1>1. OwnedByRing' /\ OwnedByRx'
  BY DEF OwnedByRing, OwnedByRx
<1>2. OwnedByAbort'
  BY DEF OwnedByAbort
<1>3. HasOwner'
  BY DEF HasOwner
<1>4. FreeSlots'
  BY DEF FreeSlots
<1> QED BY <1>1, <1>2, <1>3, <1>4

\* A request of the ring belongs to nobody else.
LEMMA RingAlone ==
  ASSUME TypeInv, OwnerInv, NEW s \in Slots, scmnd[s] # NoCmd
  PROVE  rx[s[1]].tag # s[2] /\ ~(TmClaimed /\ tm.slot = s) /\ s \notin free_reqs
<1>1. s = <<s[1], s[2]>> /\ s[1] \in Chans /\ s[2] \in Tags
  BY DEF Slots
<1>2. rx[s[1]].tag = s[2] => rx[s[1]] # RxIdle
  BY <1>1, ChannelConstants DEF RxIdle
<1>3. rx[s[1]].tag # s[2]
  BY <1>1, <1>2, Zenon DEF OwnerInv, OwnedByRx
<1>4. ~(TmClaimed /\ tm.slot = s)
  BY DEF OwnerInv, OwnedByAbort
<1>5. s \notin free_reqs
  BY DEF OwnerInv, FreeSlots
<1> QED BY <1>3, <1>4, <1>5

LEMMA RxCommand ==
  ASSUME TypeInv, OwnerInv, NEW ch \in Chans, rx[ch] # RxIdle
  PROVE  /\ rx[ch].cmd \in Cmds /\ rx[ch].tag \in Tags /\ <<ch, rx[ch].tag>> \in Slots
         /\ cmd[rx[ch].cmd].at = "lld" /\ cmd[rx[ch].cmd].slot = <<ch, rx[ch].tag>>
<1>1. rx[ch].cmd \in Cmds /\ rx[ch].tag \in Tags /\ <<ch, rx[ch].tag>> \in Slots
  BY DEF TypeInv, HandlerTypes, Slots
<1>2. cmd[rx[ch].cmd] = [at |-> "lld", slot |-> <<ch, rx[ch].tag>>]
  BY DEF OwnerInv, OwnedByRx
<1> QED BY <1>1, <1>2

\* srp_finish_req() for a set of requests, while nobody queues a command.
LEMMA FinishOwners ==
  ASSUME TypeInv, OwnerInv, InQueuecommand = {},
         NEW slots \in SUBSET Slots, srp_finish_req(slots),
         cmd' = Done({scmnd[s] : s \in Busy(slots)}), UNCHANGED rx,
         tm' = tm \/ (~TmClaimed /\ tm' = TmIdle)
  PROVE  OwnerInv'
<1> USE ChannelConstants DEF OwnerInv, TypeInv
<1> DEFINE cs == {scmnd[s] : s \in Busy(slots)}
<1>1. \A c \in Cmds : cmd[c].at # "map"
  BY DEF InQueuecommand
<1>2. \A c \in Cmds : cmd'[c] = IF c \in cs THEN InCore ELSE cmd[c]
  <2>1. \A c \in Cmds : cmd'[c] = IF c \in cs /\ cmd[c].at = "lld" THEN InCore ELSE cmd[c]
    BY DoneEffect, Zenon
  <2>2. \A c \in cs : cmd[c].at # "core" /\ c \in Cmds
    BY DEF Busy, OwnedByRing, SlotTypes
  <2> QED BY <1>1, <2>1, <2>2 DEF SlotTypes
<1>3. /\ \A s \in Slots : scmnd'[s] = IF s \in slots THEN NoCmd ELSE scmnd[s]
      /\ free_reqs' = free_reqs \cup {s \in slots : scmnd[s] # NoCmd}
  BY DEF srp_finish_req, Busy
<1>4. \A c \in Cmds : c \in cs <=> cmd[c].at # "core" /\ cmd[c].slot \in slots /\ scmnd[cmd[c].slot] = c
  BY DEF Busy, OwnedByRing, SlotTypes
<1> HIDE DEF cs
<1>5. OwnedByRing'
  BY <1>2, <1>3, <1>4 DEF OwnedByRing, SlotTypes
<1>6. OwnedByRx'
  <2> SUFFICES ASSUME NEW ch \in Chans, rx[ch] # RxIdle
               PROVE  /\ cmd'[rx[ch].cmd] = [at |-> "lld", slot |-> <<ch, rx[ch].tag>>]
                      /\ scmnd'[<<ch, rx[ch].tag>>] = NoCmd
                      /\ rx[ch].answers = rx[ch].cmd
    BY DEF OwnedByRx
  <2>1. rx[ch].cmd \in Cmds /\ rx[ch].tag \in Tags
    BY DEF HandlerTypes
  <2> QED BY <1>2, <1>3, <1>4, <2>1 DEF OwnedByRx, Slots
<1>7. ~TmClaimed' \/ (TmClaimed /\ tm' = tm)
  BY DEF TmClaimed, TmIdle
<1>8. OwnedByAbort'
  <2>1. ASSUME TmClaimed, tm' = tm
        PROVE  /\ cmd'[tm.cmd] = [at |-> "lld", slot |-> tm.slot]
               /\ scmnd'[tm.slot] = NoCmd
               /\ rx'[tm.slot[1]].tag # tm.slot[2]
    <3>1. tm.cmd \in Cmds /\ tm.slot \in Slots
      BY <2>1 DEF TmClaimed, HandlerTypes
    <3> QED BY <1>2, <1>3, <1>4, <2>1, <3>1 DEF OwnedByAbort
  <2>2. ASSUME tm'.at = "claim"
        PROVE  \/ cmd'[tm'.cmd].at = "core"
               \/ cmd'[tm'.cmd] = [at |-> "lld", slot |-> tm'.slot]
    <3>1. tm' = tm /\ tm.at = "claim" /\ tm.cmd \in Cmds
      BY <2>2 DEF HandlerTypes, TmIdle
    <3> QED BY <1>2, <3>1 DEF OwnedByAbort, InCore
  <2> QED BY <1>7, <2>1, <2>2 DEF OwnedByAbort
<1>9. HasOwner'
  <2> SUFFICES ASSUME NEW c \in Cmds, cmd'[c].at # "core"
               PROVE  \/ scmnd'[cmd'[c].slot] = c
                      \/ cmd'[c].at = "lld" /\ rx'[cmd'[c].slot[1]].cmd = c
                      \/ cmd'[c].at = "lld" /\ TmClaimed' /\ tm'.cmd = c
    BY DEF HasOwner
  <2>1. cmd'[c] = cmd[c] /\ c \notin cs /\ cmd[c].slot \in Slots
    BY <1>2 DEF InCore, SlotTypes
  <2>2. CASE scmnd[cmd[c].slot] = c
    BY <1>3, <1>4, <2>1, <2>2
  <2>3. CASE TmClaimed /\ tm.cmd = c
    <3>1. tm' = tm
      BY <2>3
    <3> QED BY <2>1, <2>3, <3>1 DEF TmClaimed, OwnedByAbort
  <2> QED BY <2>1, <2>2, <2>3 DEF HasOwner
<1>10. FreeSlots'
  <2> SUFFICES ASSUME NEW s \in Slots
               PROVE  s \in free_reqs' <=> /\ scmnd'[s] = NoCmd
                                           /\ rx'[s[1]].tag # s[2]
                                           /\ ~(TmClaimed' /\ tm'.slot = s)
    BY DEF FreeSlots
  <2>1. (TmClaimed' /\ tm'.slot = s) <=> (TmClaimed /\ tm.slot = s)
    BY <1>7 DEF TmClaimed
  <2>2. CASE scmnd[s] = NoCmd
    BY <1>3, <2>1, <2>2 DEF FreeSlots
  <2>3. CASE scmnd[s] # NoCmd
    <3>1. rx[s[1]].tag # s[2] /\ ~(TmClaimed /\ tm.slot = s) /\ s \notin free_reqs
      BY <2>3, RingAlone
    <3> QED BY <1>3, <2>1, <2>3, <3>1
  <2> QED BY <2>2, <2>3
<1> QED BY <1>5, <1>6, <1>8, <1>9, <1>10

LEMMA QueueOwners ==
  ASSUME TypeInv, OwnerInv, NEW c \in Cmds, NEW ch \in Chans,
         srp_queuecommand(c, ch) \/ srp_post_send(c) \/ srp_queuecommand_err(c)
  PROVE  OwnerInv'
<1> USE ChannelConstants DEF OwnerInv, TypeInv
<1>1. CASE srp_queuecommand(c, ch)
  <2>1. PICK s \in free_reqs :
          /\ free_reqs' = free_reqs \ {s}
          /\ scmnd' = [scmnd EXCEPT ![s] = c]
          /\ cmd' = [cmd EXCEPT ![c] = [at |-> "map", slot |-> s]]
    BY <1>1, Zenon DEF srp_queuecommand
  <2>2. /\ UNCHANGED <<rx, tm>> /\ cmd[c].at = "core" /\ tm.cmd # c /\ s \in Slots
        /\ TmClaimed' = TmClaimed
    BY <1>1 DEF srp_queuecommand, MayQueue, SlotTypes, TmClaimed
  <2>3. /\ \A t \in Slots : scmnd'[t] = IF t = s THEN c ELSE scmnd[t]
        /\ \A d \in Cmds : cmd'[d] = IF d = c THEN [at |-> "map", slot |-> s] ELSE cmd[d]
    BY <2>1, <2>2 DEF SlotTypes
  <2>4. scmnd[s] = NoCmd /\ rx[s[1]].tag # s[2] /\ ~(TmClaimed /\ tm.slot = s)
    BY <2>2 DEF FreeSlots
  <2>5. OwnedByRing'
    BY <2>2, <2>3 DEF OwnedByRing, SlotTypes
  <2>6. OwnedByRx'
    <3> SUFFICES ASSUME NEW x \in Chans, rx[x] # RxIdle
                 PROVE  /\ cmd'[rx[x].cmd] = [at |-> "lld", slot |-> <<x, rx[x].tag>>]
                        /\ scmnd'[<<x, rx[x].tag>>] = NoCmd
                        /\ rx[x].answers = rx[x].cmd
      BY <2>2 DEF OwnedByRx
    <3>1. rx[x].cmd \in Cmds /\ rx[x].tag \in Tags /\ <<x, rx[x].tag>> \in Slots
      BY DEF HandlerTypes, Slots
    <3>2. rx[x].cmd # c /\ <<x, rx[x].tag>> # s
      <4>1. cmd[rx[x].cmd].at = "lld"
        BY RxCommand, Zenon
      <4>2. <<x, rx[x].tag>>[1] = x /\ <<x, rx[x].tag>>[2] = rx[x].tag
        OBVIOUS
      <4> QED BY <2>2, <2>4, <4>1, <4>2
    <3> QED BY <2>3, <3>1, <3>2 DEF OwnedByRx
  <2>7. OwnedByAbort'
    BY <2>2, <2>3, <2>4 DEF OwnedByAbort, HandlerTypes, TmClaimed
  <2>8. HasOwner'
    BY <2>2, <2>3, <2>4 DEF HasOwner, SlotTypes
  <2>9. FreeSlots'
    BY <2>1, <2>2, <2>3, <2>4 DEF FreeSlots
  <2> QED BY <2>5, <2>6, <2>7, <2>8, <2>9
<1>2. CASE srp_post_send(c) \/ srp_queuecommand_err(c)
  <2> DEFINE s == cmd[c].slot
  <2>1. /\ cmd[c].at = "map" /\ s \in Slots /\ UNCHANGED <<rx, tm>> /\ TmClaimed' = TmClaimed
    BY <1>2 DEF srp_post_send, srp_queuecommand_err, SlotTypes, TmClaimed
  <2>2. scmnd[s] = c
    BY <2>1 DEF HasOwner
  <2>3. /\ rx[s[1]].tag # s[2] /\ ~(TmClaimed /\ tm.slot = s) /\ s \notin free_reqs
    BY <2>1, <2>2, RingAlone
  <2>4. /\ \A x \in Chans : rx[x] # RxIdle => rx[x].cmd # c /\ rx[x].cmd \in Cmds
        /\ tm.at = "claim" \/ TmClaimed => tm.cmd # c /\ tm.cmd \in Cmds
    <3>1. \A x \in Chans : rx[x] # RxIdle => cmd[rx[x].cmd].at = "lld" /\ rx[x].cmd \in Cmds
      BY RxCommand, Zenon
    <3>2. tm.at = "claim" \/ TmClaimed => cmd[tm.cmd].at # "map" /\ tm.cmd \in Cmds
      BY DEF OwnedByAbort, HandlerTypes, TmClaimed
    <3> QED BY <2>1, <3>1, <3>2
  <2>5. /\ \A d \in Cmds : d # c => cmd'[d] = cmd[d]
        /\ \/ /\ cmd'[c] = [at |-> "lld", slot |-> s] /\ UNCHANGED <<scmnd, free_reqs>>
           \/ /\ cmd'[c] = InCore /\ free_reqs' = free_reqs \cup {s}
              /\ scmnd' = [scmnd EXCEPT ![s] = NoCmd]
    BY <1>2 DEF srp_post_send, srp_queuecommand_err, SlotTypes
  <2>6. OwnedByRing'
    BY <2>1, <2>2, <2>5 DEF OwnedByRing, SlotTypes
  <2>7. OwnedByRx'
    <3>1. \A x \in Chans : rx[x] # RxIdle => <<x, rx[x].tag>> \in Slots /\ <<x, rx[x].tag>> # s
      BY <2>3 DEF HandlerTypes, Slots
    <3> QED BY <2>1, <2>4, <2>5, <3>1 DEF OwnedByRx, SlotTypes
  <2>8. OwnedByAbort'
    BY <2>1, <2>3, <2>4, <2>5 DEF OwnedByAbort, SlotTypes, HandlerTypes, TmClaimed
  <2>9. HasOwner'
    BY <2>1, <2>2, <2>4, <2>5, SMTT(20) DEF HasOwner, SlotTypes, InCore
  <2>10. FreeSlots'
    BY <2>1, <2>2, <2>3, <2>5 DEF FreeSlots, SlotTypes
  <2> QED BY <2>6, <2>7, <2>8, <2>9, <2>10
<1> QED BY <1>1, <1>2

\* The response handler takes a request and gives it back.
LEMMA RxOwners ==
  ASSUME TypeInv, OwnerInv,
         \A r \in wire : r.kind = "cmd" /\ scmnd[<<r.ch, r.tag>>] # NoCmd =>
           scmnd[<<r.ch, r.tag>>] = r.cmd /\ cmd[r.cmd].at = "lld",
         (\E r \in wire : srp_process_rsp(r)) \/ (\E ch \in Chans : srp_process_rsp_done(ch))
  PROVE  OwnerInv'
<1> USE ChannelConstants DEF OwnerInv, TypeInv
<1>1. ASSUME NEW r \in wire, srp_process_rsp(r)
      PROVE  OwnerInv'
  <2> DEFINE s == <<r.ch, r.tag>>
             c == scmnd[s]
  <2>1. /\ r.ch \in Chans /\ r.tag \in Tags /\ s \in Slots /\ r.kind = "cmd" /\ rx[r.ch] = RxIdle
        /\ UNCHANGED <<free_reqs, cmd, tm>>
    BY <1>1 DEF srp_process_rsp, WireTypes, Requests, Slots
  <2>2. CASE c = NoCmd
    <3>1. UNCHANGED <<scmnd, rx>>
      BY <1>1, <2>2 DEF srp_process_rsp
    <3> QED BY <2>1, <3>1, OwnersUnchanged DEF requests, TmClaimed
  <2>3. CASE c # NoCmd
    <3>1. PICK delta : /\ scmnd' = [scmnd EXCEPT ![s] = NoCmd]
                       /\ rx' = [rx EXCEPT ![r.ch] = [cmd |-> c, tag |-> r.tag, delta |-> delta,
                                                     answers |-> r.cmd]]
      BY <1>1, <2>3, Zenon DEF srp_process_rsp
    <3>2. c \in Cmds /\ r.cmd = c /\ cmd[c] = [at |-> "lld", slot |-> s]
      <4>1. c \in Cmds /\ c = r.cmd /\ cmd[c].at = "lld" /\ cmd[c].slot = s
        BY <2>1, <2>3 DEF OwnedByRing, SlotTypes
      <4> QED BY <4>1 DEF SlotTypes
    <3>3. /\ ~(TmClaimed /\ tm.slot = s) /\ s \notin free_reqs
      BY <2>1, <2>3, RingAlone
    <3>4. /\ \A t \in Slots : scmnd'[t] = IF t = s THEN NoCmd ELSE scmnd[t]
          /\ \A x \in Chans : x # r.ch => rx'[x] = rx[x]
          /\ rx'[r.ch].cmd = c /\ rx'[r.ch].tag = r.tag /\ rx'[r.ch].answers = c
      BY <2>1, <3>1, <3>2 DEF SlotTypes, HandlerTypes
    <3>5. OwnedByRing'
      BY <2>1, <3>4 DEF OwnedByRing
    <3>6. OwnedByRx'
      <4> SUFFICES ASSUME NEW x \in Chans, rx'[x] # RxIdle
                   PROVE  /\ cmd'[rx'[x].cmd] = [at |-> "lld", slot |-> <<x, rx'[x].tag>>]
                          /\ scmnd'[<<x, rx'[x].tag>>] = NoCmd
                          /\ rx'[x].answers = rx'[x].cmd
        BY DEF OwnedByRx
      <4>1. CASE x = r.ch
        BY <2>1, <3>2, <3>4, <4>1
      <4>2. CASE x # r.ch
        <5>1. rx'[x] = rx[x] /\ rx[x] # RxIdle /\ <<x, rx[x].tag>> \in Slots
          BY <3>4, <4>2 DEF HandlerTypes, Slots
        <5> QED BY <2>1, <3>4, <5>1 DEF OwnedByRx
      <4> QED BY <4>1, <4>2
    <3>7. OwnedByAbort'
      <4>1. TmClaimed' = TmClaimed
        BY <2>1 DEF TmClaimed
      <4>2. TmClaimed => tm.slot \in Slots /\ tm.slot = <<tm.slot[1], tm.slot[2]>>
        BY DEF TmClaimed, HandlerTypes, Slots
      <4>3. TmClaimed => scmnd'[tm.slot] = NoCmd /\ rx'[tm.slot[1]].tag # tm.slot[2]
        BY <2>1, <3>3, <3>4, <4>2, SMTT(20) DEF OwnedByAbort, Slots
      <4> QED BY <2>1, <4>1, <4>3 DEF OwnedByAbort
    <3>8. HasOwner'
      <4> SUFFICES ASSUME NEW d \in Cmds, cmd[d].at # "core"
                   PROVE  \/ scmnd'[cmd[d].slot] = d
                          \/ cmd[d].at = "lld" /\ rx'[cmd[d].slot[1]].cmd = d
                          \/ cmd[d].at = "lld" /\ TmClaimed /\ tm.cmd = d
        BY <2>1 DEF HasOwner, TmClaimed
      <4>1. CASE d = c
        BY <3>2, <3>4, <4>1, SMTT(20)
      <4>2. CASE d # c
        <5>1. cmd[d].slot \in Slots /\ cmd[d].slot[1] \in Chans
          BY DEF SlotTypes, Slots
        <5>2. scmnd[cmd[d].slot] = d => cmd[d].slot # s
          BY <4>2
        <5>3. rx[cmd[d].slot[1]].cmd = d => cmd[d].slot[1] # r.ch
          BY <2>1 DEF RxIdle
        <5> QED BY <3>4, <5>1, <5>2, <5>3 DEF HasOwner
      <4> QED BY <4>1, <4>2
    <3>9. FreeSlots'
      <4> SUFFICES ASSUME NEW t \in Slots
                   PROVE  t \in free_reqs <=> /\ scmnd'[t] = NoCmd
                                              /\ rx'[t[1]].tag # t[2]
                                              /\ ~(TmClaimed /\ tm.slot = t)
        BY <2>1 DEF FreeSlots, TmClaimed
      <4>1. t[1] \in Chans /\ t[2] \in Tags /\ t = <<t[1], t[2]>>
        BY DEF Slots
      <4>2. CASE t = s
        BY <3>3, <3>4, <4>2
      <4>3. CASE t # s
        <5>1. rx'[t[1]].tag # t[2] <=> rx[t[1]].tag # t[2]
          BY <2>1, <3>4, <4>1, <4>3 DEF RxIdle
        <5> QED BY <3>4, <4>3, <5>1 DEF FreeSlots
      <4> QED BY <4>2, <4>3
    <3> QED BY <3>5, <3>6, <3>7, <3>8, <3>9
  <2> QED BY <2>2, <2>3
<1>2. ASSUME NEW ch \in Chans, srp_process_rsp_done(ch)
      PROVE  OwnerInv'
  <2> DEFINE c == rx[ch].cmd
             s == <<ch, rx[ch].tag>>
  <2>1. /\ rx[ch] # RxIdle /\ free_reqs' = free_reqs \cup {s} /\ UNCHANGED <<scmnd, tm>>
        /\ rx' = [rx EXCEPT ![ch] = RxIdle] /\ cmd' = Done({c})
    BY <1>2 DEF srp_process_rsp_done
  <2>2. c \in Cmds /\ rx[ch].tag \in Tags /\ s \in Slots
    BY <2>1 DEF HandlerTypes, Slots
  <2>3. cmd[c] = [at |-> "lld", slot |-> s] /\ scmnd[s] = NoCmd
    BY <2>1 DEF OwnedByRx
  <2>4. \A d \in Cmds : cmd'[d] = IF d = c THEN InCore ELSE cmd[d]
    <3>1. \A d \in Cmds : cmd'[d] = IF d \in {c} /\ cmd[d].at = "lld" THEN InCore ELSE cmd[d]
      BY <2>1, DoneEffect, Zenon
    <3> QED BY <2>3, <3>1, SMTT(20)
  <2>5. \A x \in Chans : rx'[x] = IF x = ch THEN RxIdle ELSE rx[x]
    BY <2>1 DEF HandlerTypes
  <2>6. \A t \in Slots : scmnd[t] # c
    BY <2>2, <2>3 DEF OwnedByRing
  <2>7. \A x \in Chans : x # ch /\ rx[x] # RxIdle => rx[x].cmd # c /\ rx[x].cmd \in Cmds
    <3>1. \A x \in Chans : rx[x] # RxIdle =>
            rx[x].cmd \in Cmds /\ cmd[rx[x].cmd].slot = <<x, rx[x].tag>>
      BY RxCommand, Zenon
    <3>2. cmd[c].slot = <<ch, rx[ch].tag>>
      BY <2>3
    <3> HIDE DEF c
    <3> QED BY <3>1, <3>2
  <2>8. /\ TmClaimed' = TmClaimed
        /\ TmClaimed => tm.cmd # c /\ tm.cmd \in Cmds /\ tm.slot # s /\ tm.slot \in Slots
    BY <2>1, <2>3, SMTT(20) DEF TmClaimed, OwnedByAbort, HandlerTypes
  <2>9. OwnedByRing'
    <3> SUFFICES ASSUME NEW t \in Slots, scmnd[t] # NoCmd
                 PROVE  cmd'[scmnd[t]].at # "core" /\ cmd'[scmnd[t]].slot = t
      BY <2>1, Zenon DEF OwnedByRing
    <3>1. scmnd[t] \in Cmds /\ cmd'[scmnd[t]] = cmd[scmnd[t]]
      BY <2>4, <2>6 DEF SlotTypes
    <3> QED BY <3>1 DEF OwnedByRing
  <2>10. OwnedByRx'
    <3> SUFFICES ASSUME NEW x \in Chans, rx'[x] # RxIdle
                 PROVE  /\ cmd'[rx'[x].cmd] = [at |-> "lld", slot |-> <<x, rx'[x].tag>>]
                        /\ scmnd[<<x, rx'[x].tag>>] = NoCmd
                        /\ rx'[x].answers = rx'[x].cmd
      BY <2>1, Zenon DEF OwnedByRx
    <3>1. x # ch /\ rx'[x] = rx[x] /\ rx[x] # RxIdle
      BY <2>5
    <3>2. cmd'[rx[x].cmd] = cmd[rx[x].cmd]
      BY <2>4, <2>7, <3>1
    <3> QED BY <3>1, <3>2 DEF OwnedByRx
  <2>11. OwnedByAbort'
    <3>1. TmClaimed => rx'[tm.slot[1]].tag # tm.slot[2]
      <4>1. TmClaimed => tm.slot[1] \in Chans /\ tm.slot[2] \in Tags
        BY <2>8 DEF Slots
      <4> QED BY <2>5, <4>1, SMTT(20) DEF OwnedByAbort, RxIdle
    <3>2. TmClaimed => cmd'[tm.cmd] = cmd[tm.cmd]
      BY <2>4, <2>8
    <3>3. tm.at = "claim" => cmd'[tm.cmd] \in {InCore, cmd[tm.cmd]}
      BY <2>4 DEF HandlerTypes
    <3> QED BY <2>1, <2>8, <3>1, <3>2, <3>3, SMTT(20) DEF OwnedByAbort, InCore
  <2>12. HasOwner'
    <3> SUFFICES ASSUME NEW d \in Cmds, cmd'[d].at # "core"
                 PROVE  \/ scmnd[cmd'[d].slot] = d
                        \/ cmd'[d].at = "lld" /\ rx'[cmd'[d].slot[1]].cmd = d
                        \/ cmd'[d].at = "lld" /\ TmClaimed /\ tm.cmd = d
      BY <2>1, <2>8, Zenon DEF HasOwner
    <3>1. d # c /\ cmd'[d] = cmd[d]
      BY <2>4 DEF InCore
    <3>2. cmd[d].slot \in Slots /\ cmd[d].slot[1] \in Chans
      BY <3>1 DEF SlotTypes, Slots
    <3> QED BY <2>5, <3>1, <3>2, SMTT(20) DEF HasOwner
  <2>13. FreeSlots'
    <3> SUFFICES ASSUME NEW t \in Slots
                 PROVE  t \in free_reqs' <=> /\ scmnd[t] = NoCmd
                                             /\ rx'[t[1]].tag # t[2]
                                             /\ ~(TmClaimed /\ tm.slot = t)
      BY <2>1, <2>8 DEF FreeSlots
    <3>1. t[1] \in Chans /\ t[2] \in Tags /\ t = <<t[1], t[2]>>
      BY DEF Slots
    <3>2. CASE t = s
      BY <2>1, <2>3, <2>5, <2>8, <3>1, <3>2, SMTT(20) DEF RxIdle
    <3>3. CASE t # s
      <4>1. rx'[t[1]].tag # t[2] <=> rx[t[1]].tag # t[2]
        BY <2>5, <3>1, <3>3 DEF RxIdle
      <4> QED BY <2>1, <3>3, <4>1 DEF FreeSlots
    <3> QED BY <3>2, <3>3
  <2> QED BY <2>9, <2>10, <2>11, <2>12, <2>13
<1> QED BY <1>1, <1>2

\* srp_abort() claims a request, finds it gone, and gives it back.
LEMMA AbortOwners ==
  ASSUME TypeInv, OwnerInv, NoRaces,
         (\E c \in Cmds : srp_abort(c) \/ srp_abort_too_late(c)) \/ srp_abort_done
  PROVE  OwnerInv'
<1> USE ChannelConstants DEF OwnerInv, TypeInv
<1>1. ASSUME NEW c \in Cmds, srp_abort(c)
      PROVE  OwnerInv'
  <2> DEFINE s == tm.slot
  <2>1. /\ tm.at = "claim" /\ tm.cmd = c /\ scmnd[s] = c /\ UNCHANGED <<free_reqs, cmd, rx>>
        /\ scmnd' = [scmnd EXCEPT ![s] = NoCmd] /\ tm' = [tm EXCEPT !.at = "check"]
    BY <1>1 DEF srp_abort
  <2>2. s \in Slots /\ c # NoCmd
    BY <2>1 DEF HandlerTypes
  <2>3. cmd[c] = [at |-> "lld", slot |-> s]
    BY <2>1, <2>2 DEF OwnedByRing, OwnedByAbort
  <2>4. rx[s[1]].tag # s[2] /\ s \notin free_reqs
    BY <2>1, <2>2, RingAlone
  <2>5. ~TmClaimed /\ TmClaimed' /\ tm'.cmd = c /\ tm'.slot = s /\ tm'.at = "check"
    BY <2>1, <2>2 DEF TmClaimed, HandlerTypes
  <2>6. \A t \in Slots : scmnd'[t] = IF t = s THEN NoCmd ELSE scmnd[t]
    BY <2>1, <2>2 DEF SlotTypes
  <2>7. OwnedByRing'
    BY <2>1, <2>6 DEF OwnedByRing
  <2>8. OwnedByRx'
    <3>1. \A x \in Chans : rx[x] # RxIdle => <<x, rx[x].tag>> \in Slots
      BY RxCommand
    <3> QED BY <2>1, <2>6, <3>1 DEF OwnedByRx
  <2>9. OwnedByAbort'
    BY <2>1, <2>2, <2>3, <2>4, <2>5, <2>6 DEF OwnedByAbort
  <2>10. HasOwner'
    <3> SUFFICES ASSUME NEW d \in Cmds, cmd[d].at # "core"
                 PROVE  \/ scmnd'[cmd[d].slot] = d
                        \/ cmd[d].at = "lld" /\ rx[cmd[d].slot[1]].cmd = d
                        \/ cmd[d].at = "lld" /\ d = c
      BY <2>1, <2>5 DEF HasOwner
    <3>1. cmd[d].slot \in Slots /\ cmd[c].at = "lld"
      BY <2>3 DEF SlotTypes
    <3> QED BY <2>1, <2>5, <2>6, <3>1 DEF HasOwner
  <2>11. FreeSlots'
    BY <2>1, <2>2, <2>4, <2>5, <2>6 DEF FreeSlots
  <2> QED BY <2>7, <2>8, <2>9, <2>10, <2>11
<1>2. ASSUME NEW c \in Cmds, srp_abort_too_late(c)
      PROVE  OwnerInv'
  <2>1. /\ tm.at = "claim" /\ tm.cmd = c /\ scmnd[tm.slot] # c /\ tm.slot \in Slots
        /\ \A ch \in Chans : rx[ch].cmd # c
    BY <1>2 DEF srp_abort_too_late, NoRaces, HandlerTypes
  <2>2. ~TmClaimed
    BY <2>1 DEF TmClaimed
  <2>3. cmd[c].at = "core"
    <3> SUFFICES ASSUME cmd[c].at # "core" PROVE FALSE
      OBVIOUS
    <3>1. cmd[c] = [at |-> "lld", slot |-> tm.slot]
      BY <2>1 DEF OwnedByAbort
    <3>2. cmd[c].slot = tm.slot /\ tm.slot[1] \in Chans
      BY <2>1, <3>1 DEF Slots
    <3> QED BY <2>1, <2>2, <3>2 DEF HasOwner
  <2>4. cmd' = cmd
    <3>1. \A d \in Cmds : cmd'[d] = cmd[d]
      BY <1>2, <2>3 DEF srp_abort_too_late, Done
    <3>2. cmd' \in [Cmds -> [at : {"core", "map", "lld"}, slot : Slots \cup {NoCmd}]]
      BY <1>2, DoneEffect, Zenon DEF srp_abort_too_late
    <3> QED BY <3>1, <3>2 DEF SlotTypes
  <2>5. UNCHANGED <<free_reqs, scmnd, rx>> /\ tm' = TmIdle
    BY <1>2 DEF srp_abort_too_late
  <2>6. ~TmClaimed' /\ tm'.at # "claim"
    BY <2>5 DEF TmClaimed, TmIdle
  <2> QED BY <2>2, <2>4, <2>5, <2>6, OwnersUnchanged DEF requests
<1>3. CASE srp_abort_done
  <2> DEFINE c == tm.cmd
             s == tm.slot
  <2>1. /\ TmClaimed /\ c \in Cmds /\ s \in Slots /\ tm' = TmIdle
        /\ free_reqs' = free_reqs \cup {s} /\ cmd' = Done({c}) /\ UNCHANGED <<scmnd, rx>>
    BY <1>3 DEF srp_abort_done, TmClaimed, HandlerTypes
  <2>2. ~TmClaimed' /\ tm'.at # "claim"
    BY <2>1 DEF TmClaimed, TmIdle
  <2>3. cmd[c] = [at |-> "lld", slot |-> s] /\ scmnd[s] = NoCmd /\ rx[s[1]].tag # s[2]
    BY <2>1 DEF OwnedByAbort
  <2>4. \A d \in Cmds : cmd'[d] = IF d = c THEN InCore ELSE cmd[d]
    <3>1. \A d \in Cmds : cmd'[d] = IF d \in {c} /\ cmd[d].at = "lld" THEN InCore ELSE cmd[d]
      BY <2>1, DoneEffect, Zenon
    <3> QED BY <2>3, <3>1
  <2>5. OwnedByRing'
    <3> SUFFICES ASSUME NEW t \in Slots, scmnd[t] # NoCmd
                 PROVE  cmd'[scmnd[t]].at # "core" /\ cmd'[scmnd[t]].slot = t
      BY <2>1, Zenon DEF OwnedByRing
    <3>1. scmnd[t] \in Cmds /\ cmd[scmnd[t]].at # "core" /\ cmd[scmnd[t]].slot = t /\ t # s
      BY <2>3 DEF SlotTypes, OwnedByRing
    <3>2. cmd[c].slot = s
      BY <2>3
    <3> QED BY <2>4, <3>1, <3>2
  <2>6. OwnedByRx'
    <3> SUFFICES ASSUME NEW x \in Chans, rx[x] # RxIdle
                 PROVE  /\ cmd'[rx[x].cmd] = [at |-> "lld", slot |-> <<x, rx[x].tag>>]
                        /\ scmnd[<<x, rx[x].tag>>] = NoCmd
                        /\ rx[x].answers = rx[x].cmd
      BY <2>1 DEF OwnedByRx
    <3>1. /\ rx[x].cmd \in Cmds /\ cmd[rx[x].cmd].slot = <<x, rx[x].tag>>
          /\ <<x, rx[x].tag>> \in Slots
      BY RxCommand
    <3>2. rx[x].cmd # c
      <4>1. <<x, rx[x].tag>> # s
        BY <2>3
      <4>2. cmd[c].slot = s
        BY <2>3
      <4> QED BY <3>1, <4>1, <4>2
    <3> QED BY <2>4, <3>1, <3>2 DEF OwnedByRx
  <2>7. OwnedByAbort'
    BY <2>2 DEF OwnedByAbort
  <2>8. HasOwner'
    <3> SUFFICES ASSUME NEW d \in Cmds, cmd'[d].at # "core"
                 PROVE  \/ scmnd[cmd'[d].slot] = d
                        \/ cmd'[d].at = "lld" /\ rx[cmd'[d].slot[1]].cmd = d
      BY <2>1, Zenon DEF HasOwner
    <3>1. d # c /\ cmd'[d] = cmd[d]
      BY <2>4 DEF InCore
    <3> QED BY <3>1 DEF HasOwner
  <2>9. FreeSlots'
    BY <2>1, <2>2, <2>3 DEF FreeSlots
  <2> QED BY <2>5, <2>6, <2>7, <2>8, <2>9
<1> QED BY <1>1, <1>2, <1>3

LEMMA OwnerStep ==
  ASSUME TypeInv, XportInv, NoRaces, OwnerInv, CmdRequests, ResetInv, Next
  PROVE  OwnerInv'
<1>1. ASSUME UNCHANGED <<requests, rx, tm>> PROVE OwnerInv'
  BY <1>1, OwnersUnchanged DEF TmClaimed
<1>2. CASE Queuecommand
  <2>1. ASSUME NEW c \in Cmds, NEW ch \in Chans, srp_queuecommand_busy(c, ch) PROVE OwnerInv'
    BY <1>1, <2>1 DEF srp_queuecommand_busy
  <2> QED BY <1>2, <2>1, ChannelConstants, QueueOwners, Zenon DEF Queuecommand
<1>3. CASE Receive
  <2>1. CASE (\E r \in wire : srp_process_rsp(r)) \/ (\E ch \in Chans : srp_process_rsp_done(ch))
    BY <2>1, RxOwners, Zenon DEF CmdRequests
  <2> QED BY <1>1, <1>3, <2>1, Zenon DEF Receive, srp_process_rsp_tsk_mgmt, srp_response_common,
             ConnectionLost, srp_recv_completion_err
<1>4. CASE TskMgmt
  <2>1. ASSUME NEW c \in Cmds, Timeout(c) PROVE OwnerInv'
    <3>1. /\ tm = TmIdle /\ cmd[c].at = "lld" /\ UNCHANGED <<requests, rx>>
          /\ tm' = [at |-> "claim", cmd |-> c, slot |-> cmd[c].slot]
      BY <2>1 DEF Timeout
    <3>2. cmd[tm'.cmd] = [at |-> "lld", slot |-> tm'.slot] /\ ~TmClaimed /\ ~TmClaimed'
      BY <3>1 DEF TmClaimed, TmIdle, TypeInv, SlotTypes
    <3> QED BY <3>1, <3>2, OwnersUnchanged
  <2>2. CASE (\E c \in Cmds : srp_abort(c) \/ srp_abort_too_late(c)) \/ srp_abort_done
    BY <2>2, AbortOwners
  <2>3. CASE srp_reset_device \/ srp_reset_device_failed
    <3>1. /\ UNCHANGED <<requests, rx>> /\ ~TmClaimed /\ ~TmClaimed' /\ tm'.at # "claim"
      BY <2>3 DEF srp_reset_device, srp_reset_device_failed, TmClaimed, TmIdle
    <3> QED BY <3>1, OwnersUnchanged
  <2>4. CASE \/ srp_send_tsk_mgmt_check \/ srp_send_tsk_mgmt_err \/ srp_send_tsk_mgmt
             \/ srp_send_tsk_mgmt_ok \/ srp_send_tsk_mgmt_timeout
    <3>1. /\ UNCHANGED <<requests, rx>>
          /\ tm.at \in {"check", "lock", "wait"}
          /\ \E a \in {"lock", "wait", "done", "failed"} : tm' = [tm EXCEPT !.at = a]
      BY <2>4 DEF srp_send_tsk_mgmt_check, srp_send_tsk_mgmt_err, srp_send_tsk_mgmt,
                  srp_send_tsk_mgmt_ok, srp_send_tsk_mgmt_timeout
    <3>2. /\ tm'.cmd = tm.cmd /\ tm'.slot = tm.slot /\ tm'.at \in {"lock", "wait", "done", "failed"}
      BY <3>1 DEF TypeInv, HandlerTypes
    <3> QED BY <3>1, <3>2, OwnersUnchanged DEF TmClaimed
  <2>5. CASE srp_reset_device_done
    <3> DEFINE ring == {FirstChan} \X Tags
    <3>1. /\ tm.at = "done" /\ tm.cmd = NoCmd /\ srp_finish_req(ring) /\ UNCHANGED rx
          /\ cmd' = Done({scmnd[s] : s \in Busy(ring)}) /\ tm' = TmIdle
      BY <2>5 DEF srp_reset_device_done
    <3>2. ring \in SUBSET Slots /\ ~TmClaimed /\ InQueuecommand = {}
      BY <3>1, ChannelConstants DEF Slots, TmClaimed, ResetInv
    <3> HIDE DEF ring
    <3> QED BY <3>1, <3>2, FinishOwners, Zenon
  <2> QED BY <1>4, <2>1, <2>2, <2>3, <2>4, <2>5 DEF TskMgmt
<1>5. CASE Transport
  <2>1. CASE srp_terminate_io \/ srp_rport_reconnect_reset
    <3>1. /\ srp_finish_req(Slots) /\ cmd' = Done({scmnd[s] : s \in Busy(Slots)})
          /\ UNCHANGED <<rx, tm>>
      BY <2>1 DEF srp_terminate_io, srp_rport_reconnect_reset
    <3>2. InQueuecommand = {}
      BY <2>1 DEF srp_terminate_io, srp_rport_reconnect_reset, XportInv
    <3> QED BY <3>1, <3>2, FinishOwners, Zenon
  <2> QED BY <1>1, <1>5, <2>1 DEF Transport, srp_tl_err_work, srp_disconnect_target,
             srp_rport_reconnect_scanning, srp_create_ch_ib, srp_connect_ch,
             srp_connect_ch_failed, srp_rport_reconnect_done
<1> QED BY <1>2, <1>3, <1>4, <1>5 DEF Next

-----------------------------------------------------------------------------
(* Requests the target has not answered.                                   *)

\* No command is sent, and no request is given a command.
LEMMA CmdRequestsKept ==
  ASSUME TypeInv, CmdRequests, TypeInv', OwnerInv',
         \A r \in wire' : r.kind = "cmd" => r \in wire,
         \A s \in Slots : scmnd'[s] # NoCmd => scmnd'[s] = scmnd[s],
         \A c \in Cmds : cmd[c].at = "lld" => cmd'[c].at # "map",
         \A r \in wire' : r.kind = "cmd" => rx'[r.ch].tag # r.tag,
         \A r \in wire' : r.kind = "cmd" /\ port' = "running" /\ xport' = "idle" =>
           <<r.ch, r.tag>> \notin free_reqs'
  PROVE  CmdRequests'
<1>1. ASSUME NEW r \in wire', r.kind = "cmd", scmnd'[<<r.ch, r.tag>>] # NoCmd
      PROVE  scmnd'[<<r.ch, r.tag>>] = r.cmd /\ cmd'[r.cmd].at = "lld"
  <2>1. r \in wire /\ <<r.ch, r.tag>> \in Slots /\ r.cmd \in Cmds
    BY <1>1 DEF TypeInv, WireTypes, Requests, Slots
  <2>2. scmnd'[<<r.ch, r.tag>>] = r.cmd /\ cmd[r.cmd].at = "lld"
    BY <1>1, <2>1 DEF CmdRequests
  <2>3. cmd'[r.cmd].at # "core" /\ cmd'[r.cmd].at \in {"core", "map", "lld"}
    BY <1>1, <2>1, <2>2 DEF OwnerInv, OwnedByRing, TypeInv, SlotTypes
  <2> QED BY <2>1, <2>2, <2>3
<1> QED BY <1>1 DEF CmdRequests

\* A command that is being queued is not on the wire yet.
LEMMA NotSentYet ==
  ASSUME TypeInv, OwnerInv, CmdRequests, NEW c \in Cmds, cmd[c].at = "map",
         NEW r \in wire, r.kind = "cmd"
  PROVE  <<r.ch, r.tag>> # cmd[c].slot
<1>1. scmnd[cmd[c].slot] = c /\ c # NoCmd
  BY ChannelConstants DEF OwnerInv, HasOwner
<1>2. scmnd[<<r.ch, r.tag>>] # NoCmd => scmnd[<<r.ch, r.tag>>] = r.cmd /\ cmd[r.cmd].at = "lld"
  BY DEF CmdRequests
<1> QED BY <1>1, <1>2

LEMMA QueueCmds ==
  ASSUME TypeInv, OwnerInv, CmdRequests, TypeInv', OwnerInv', NEW c \in Cmds, NEW ch \in Chans,
         srp_queuecommand(c, ch) \/ srp_post_send(c) \/ srp_queuecommand_err(c)
  PROVE  CmdRequests'
<1> USE DEF TypeInv
<1>0. \A r \in wire : r.kind = "cmd" => <<r.ch, r.tag>> \in Slots /\ r.cmd \in Cmds
  BY DEF WireTypes, Requests, Slots
<1>1. CASE srp_queuecommand(c, ch)
  <2>1. PICK s \in free_reqs :
          /\ port = "running" /\ xport = "idle" /\ cmd[c].at = "core"
          /\ free_reqs' = free_reqs \ {s} /\ scmnd' = [scmnd EXCEPT ![s] = c]
          /\ cmd' = [cmd EXCEPT ![c] = [at |-> "map", slot |-> s]]
          /\ UNCHANGED <<wire, rx, port, xport>>
    BY <1>1, Zenon DEF srp_queuecommand, MayQueue, target
  <2> SUFFICES ASSUME NEW r \in wire, r.kind = "cmd"
               PROVE  /\ scmnd'[<<r.ch, r.tag>>] # NoCmd =>
                           scmnd'[<<r.ch, r.tag>>] = r.cmd /\ cmd'[r.cmd].at = "lld"
                      /\ rx[r.ch].tag # r.tag
                      /\ <<r.ch, r.tag>> \notin free_reqs'
    BY <2>1 DEF CmdRequests
  <2>2. <<r.ch, r.tag>> \notin free_reqs /\ rx[r.ch].tag # r.tag
    BY <2>1 DEF CmdRequests
  <2>3. scmnd'[<<r.ch, r.tag>>] = scmnd[<<r.ch, r.tag>>]
    BY <1>0, <2>1, <2>2 DEF SlotTypes
  <2>4. scmnd[<<r.ch, r.tag>>] # NoCmd =>
          scmnd[<<r.ch, r.tag>>] = r.cmd /\ cmd[r.cmd].at = "lld" /\ r.cmd # c
    BY <2>1 DEF CmdRequests
  <2> QED BY <1>0, <2>1, <2>2, <2>3, <2>4 DEF SlotTypes
<1>2. CASE srp_post_send(c)
  <2> DEFINE s == cmd[c].slot
             q == Request(s[1], "cmd", s[2], c)
  <2>1. /\ cmd[c].at = "map" /\ cmd' = [cmd EXCEPT ![c].at = "lld"] /\ wire' = wire \cup {q}
        /\ UNCHANGED <<free_reqs, scmnd, rx, port, xport>>
    BY <1>2 DEF srp_post_send, link
  <2>2. s \in Slots /\ s = <<s[1], s[2]>> /\ s[1] \in Chans /\ s[2] \in Tags
    BY <2>1 DEF SlotTypes, Slots
  <2>3. q.ch = s[1] /\ q.tag = s[2] /\ q.kind = "cmd" /\ q.cmd = c
    BY DEF Request
  <2>4. scmnd[s] = c /\ c # NoCmd
    BY <2>1, ChannelConstants DEF OwnerInv, HasOwner
  <2>5. rx[s[1]].tag # s[2] /\ s \notin free_reqs
    BY <2>2, <2>4, RingAlone
  <2>6. \A d \in Cmds : cmd'[d].at = IF d = c THEN "lld" ELSE cmd[d].at
    BY <2>1 DEF SlotTypes
  <2>7. \A r \in wire : r.kind = "cmd" => <<r.ch, r.tag>> # s
    BY <2>1, NotSentYet
  <2> HIDE DEF s, q
  <2>8. ASSUME NEW a \in wire', NEW b \in wire',
               a.kind = "cmd", b.kind = "cmd", a.ch = b.ch, a.tag = b.tag
        PROVE  a = b
    BY <2>1, <2>2, <2>3, <2>7, <2>8 DEF CmdRequests
  <2>9. ASSUME NEW r \in wire', r.kind = "cmd"
        PROVE  /\ scmnd'[<<r.ch, r.tag>>] # NoCmd =>
                    scmnd'[<<r.ch, r.tag>>] = r.cmd /\ cmd'[r.cmd].at = "lld"
               /\ rx'[r.ch].tag # r.tag
               /\ port' = "running" /\ xport' = "idle" => <<r.ch, r.tag>> \notin free_reqs'
    <3>1. CASE r = q
      BY <2>1, <2>2, <2>3, <2>4, <2>5, <2>6, <3>1
    <3>2. CASE r \in wire
      BY <1>0, <2>1, <2>6, <2>9, <3>2 DEF CmdRequests
    <3> QED BY <2>1, <3>1, <3>2
  <2> QED BY <2>8, <2>9 DEF CmdRequests
<1>3. CASE srp_queuecommand_err(c)
  <2> DEFINE s == cmd[c].slot
  <2>1. /\ cmd[c].at = "map" /\ cmd' = [cmd EXCEPT ![c] = InCore]
        /\ scmnd' = [scmnd EXCEPT ![s] = NoCmd] /\ free_reqs' = free_reqs \cup {s}
        /\ UNCHANGED <<wire, rx, port, xport>>
    BY <1>3 DEF srp_queuecommand_err, link, target
  <2>2. \A r \in wire : r.kind = "cmd" => <<r.ch, r.tag>> # s
    BY <2>1, NotSentYet
  <2>3. \A t \in Slots : scmnd'[t] # NoCmd => scmnd'[t] = scmnd[t]
    BY <2>1 DEF SlotTypes
  <2>4. \A d \in Cmds : cmd'[d].at # "map" \/ cmd[d].at = "map"
    BY <2>1 DEF SlotTypes, InCore
  <2>5. \A r \in wire : r.kind = "cmd" => rx[r.ch].tag # r.tag
    BY Zenon DEF CmdRequests
  <2>6. \A r \in wire : r.kind = "cmd" /\ port = "running" /\ xport = "idle" =>
          <<r.ch, r.tag>> \notin free_reqs \cup {s}
    BY <2>2 DEF CmdRequests
  <2> QED BY <2>1, <2>3, <2>4, <2>5, <2>6, CmdRequestsKept
<1> QED BY <1>1, <1>2, <1>3

\* The request of a response is no longer on the wire when its slot is freed.
LEMMA RxCmds ==
  ASSUME TypeInv, OwnerInv, CmdRequests, TypeInv', OwnerInv',
         (\E r \in wire : srp_process_rsp(r)) \/ (\E ch \in Chans : srp_process_rsp_done(ch))
  PROVE  CmdRequests'
<1> USE DEF TypeInv
<1>1. ASSUME NEW r \in wire, srp_process_rsp(r)
      PROVE  CmdRequests'
  <2>1. /\ r.kind = "cmd" /\ wire' = wire \ {r} /\ UNCHANGED <<free_reqs, cmd, port, xport>>
        /\ \/ /\ scmnd' = [scmnd EXCEPT ![<<r.ch, r.tag>>] = NoCmd]
              /\ \E x : rx' = [rx EXCEPT ![r.ch] = x] /\ x.tag = r.tag
           \/ UNCHANGED <<scmnd, rx>>
    <3> DEFINE x(delta) == [cmd |-> scmnd[<<r.ch, r.tag>>], tag |-> r.tag, delta |-> delta,
                            answers |-> r.cmd]
    <3>1. /\ r.kind = "cmd" /\ wire' = wire \ {r} /\ UNCHANGED <<free_reqs, cmd, port, xport>>
          /\ \E delta \in 0..(owed[r.ch] + 1) :
               \/ /\ rx' = [rx EXCEPT ![r.ch] = x(delta)]
                  /\ scmnd' = [scmnd EXCEPT ![<<r.ch, r.tag>>] = NoCmd]
               \/ UNCHANGED <<scmnd, rx>>
      BY <1>1 DEF srp_process_rsp, link
    <3>2. \A delta : x(delta).tag = r.tag
      OBVIOUS
    <3> HIDE DEF x
    <3> QED BY <3>1, <3>2
  <2>2. \A s \in Slots : scmnd'[s] # NoCmd => scmnd'[s] = scmnd[s]
    BY <2>1 DEF SlotTypes
  <2>3. ASSUME NEW q \in wire', q.kind = "cmd"
        PROVE  rx'[q.ch].tag # q.tag
    <3>1. q \in wire /\ ~(q.ch = r.ch /\ q.tag = r.tag) /\ rx[q.ch].tag # q.tag
      BY <2>1, <2>3, Zenon DEF CmdRequests
    <3>2. q.ch \in Chans
      BY <3>1 DEF WireTypes, Requests
    <3>3. ASSUME NEW x, rx' = [rx EXCEPT ![r.ch] = x], x.tag = r.tag
          PROVE  rx'[q.ch].tag # q.tag
      BY <3>1, <3>2, <3>3 DEF HandlerTypes
    <3> QED BY <2>1, <3>1, <3>3
  <2>4. \A q \in wire' : q.kind = "cmd" /\ port' = "running" /\ xport' = "idle" =>
          <<q.ch, q.tag>> \notin free_reqs'
    BY <2>1 DEF CmdRequests
  <2> QED BY <2>1, <2>2, <2>3, <2>4, CmdRequestsKept
<1>2. ASSUME NEW ch \in Chans, srp_process_rsp_done(ch)
      PROVE  CmdRequests'
  <2>1. /\ UNCHANGED <<scmnd, wire, port, xport>> /\ free_reqs' = free_reqs \cup {<<ch, rx[ch].tag>>}
        /\ rx' = [rx EXCEPT ![ch] = RxIdle] /\ cmd' = Done({rx[ch].cmd})
    BY <1>2 DEF srp_process_rsp_done, target, link
  <2>2. \A c \in Cmds : cmd[c].at = "lld" => cmd'[c].at # "map"
    BY <2>1 DEF Done, InCore
  <2>3. ASSUME NEW r \in wire, r.kind = "cmd"
        PROVE  /\ rx'[r.ch].tag # r.tag
               /\ port = "running" /\ xport = "idle" => <<r.ch, r.tag>> \notin free_reqs'
    <3>1. r.ch \in Chans /\ r.tag \in Tags /\ rx[r.ch].tag # r.tag
      BY <2>3, Zenon DEF WireTypes, Requests, CmdRequests
    <3>2. rx'[r.ch].tag \in {rx[r.ch].tag, NoCmd}
      BY <2>1, <3>1 DEF HandlerTypes, RxIdle
    <3> QED BY <2>1, <2>3, <3>1, <3>2, ChannelConstants DEF CmdRequests
  <2> QED BY <2>1, <2>2, <2>3, CmdRequestsKept, Zenon
<1> QED BY <1>1, <1>2

\* All requests of a set are finished while no command is queued, or when
\* none of them is on the wire.
LEMMA FinishCmds ==
  ASSUME TypeInv, OwnerInv, CmdRequests, TypeInv', OwnerInv',
         NEW slots \in SUBSET Slots, srp_finish_req(slots),
         cmd' = Done({scmnd[s] : s \in Busy(slots)}), UNCHANGED <<wire, rx>>,
         port' # "running" \/ xport' # "idle" \/ \A r \in wire : r.kind # "cmd"
  PROVE  CmdRequests'
<1>1. \A s \in Slots : scmnd'[s] # NoCmd => scmnd'[s] = scmnd[s]
  BY DEF srp_finish_req
<1>2. \A c \in Cmds : cmd[c].at = "lld" => cmd'[c].at # "map"
  BY DEF Done, InCore
<1>3. \A r \in wire : r.kind = "cmd" => rx[r.ch].tag # r.tag
  BY Zenon DEF CmdRequests
<1> QED BY <1>1, <1>2, <1>3, CmdRequestsKept

LEMMA CmdStep ==
  ASSUME TypeInv, XportInv, NoRaces, OwnerInv, CmdRequests, ResetInv,
         TypeInv', OwnerInv', Next
  PROVE  CmdRequests'
<1>1. ASSUME UNCHANGED <<requests, rx>>, \A r \in wire' : r.kind = "cmd" => r \in wire,
             port' = "running" /\ xport' = "idle" =>
               (port = "running" /\ xport = "idle") \/ wire' = {}
      PROVE  CmdRequests'
  BY <1>1 DEF CmdRequests, requests
<1>2. CASE Queuecommand
  <2>1. ASSUME NEW c \in Cmds, NEW ch \in Chans, srp_queuecommand_busy(c, ch) PROVE CmdRequests'
    BY <1>1, <2>1 DEF srp_queuecommand_busy, target
  <2> QED BY <1>2, <2>1, ChannelConstants, QueueCmds, Zenon DEF Queuecommand
<1>3. CASE Receive
  <2>1. CASE (\E r \in wire : srp_process_rsp(r)) \/ (\E ch \in Chans : srp_process_rsp_done(ch))
    BY <2>1, RxCmds, Zenon
  <2> QED BY <1>1, <1>3, <2>1, Zenon DEF Receive, srp_process_rsp_tsk_mgmt, srp_response_common,
             ConnectionLost, srp_recv_completion_err, link, target
<1>4. CASE TskMgmt
  <2>1. CASE \/ \E c \in Cmds : Timeout(c)
             \/ srp_reset_device \/ srp_send_tsk_mgmt_check \/ srp_send_tsk_mgmt_err
             \/ srp_send_tsk_mgmt_ok \/ srp_reset_device_failed
    <3>1. UNCHANGED <<requests, rx, wire, port, xport>>
      BY <2>1 DEF Timeout, srp_reset_device, srp_send_tsk_mgmt_check, srp_send_tsk_mgmt_err,
                  srp_send_tsk_mgmt_ok, srp_reset_device_failed, link, target
    <3> QED BY <1>1, <3>1
  <2>2. CASE srp_send_tsk_mgmt
    <3>1. Request(tm.slot[1], TskMgmtKind, tm.slot[2], tm.cmd).kind # "cmd"
      BY DEF Request, TskMgmtKind
    <3> QED BY <1>1, <2>2, <3>1 DEF srp_send_tsk_mgmt
  <2>3. CASE srp_send_tsk_mgmt_timeout
    BY <1>1, <2>3 DEF srp_send_tsk_mgmt_timeout, GiveUp, link
  <2>4. ASSUME NEW c \in Cmds, srp_abort(c) \/ srp_abort_too_late(c) PROVE CmdRequests'
    <3>1. \A s \in Slots : scmnd'[s] # NoCmd => scmnd'[s] = scmnd[s]
      BY <2>4 DEF srp_abort, srp_abort_too_late, TypeInv, SlotTypes
    <3>2. \A d \in Cmds : cmd[d].at = "lld" => cmd'[d].at # "map"
      BY <2>4 DEF srp_abort, srp_abort_too_late, Done, InCore
    <3>3. UNCHANGED <<free_reqs, wire, rx, port, xport>>
      BY <2>4 DEF srp_abort, srp_abort_too_late, target, link
    <3>4. \A r \in wire : r.kind = "cmd" =>
            /\ rx[r.ch].tag # r.tag
            /\ port = "running" /\ xport = "idle" => <<r.ch, r.tag>> \notin free_reqs
      BY DEF CmdRequests
    <3> QED BY <3>1, <3>2, <3>3, <3>4, CmdRequestsKept, Zenon
  <2>5. CASE srp_abort_done
    <3>1. /\ UNCHANGED <<scmnd, rx, port, xport>> /\ free_reqs' = free_reqs \cup {tm.slot}
          /\ wire' = wire \ {q \in wire : q.kind = "cmd" /\ <<q.ch, q.tag>> = tm.slot}
      BY <2>5 DEF srp_abort_done, GiveUp, NoRaces, link
    <3>2. \A d \in Cmds : cmd[d].at = "lld" => cmd'[d].at # "map"
      BY <2>5 DEF srp_abort_done, Done, InCore
    <3>3. \A r \in wire' : r.kind = "cmd" =>
            /\ rx[r.ch].tag # r.tag
            /\ port = "running" /\ xport = "idle" => <<r.ch, r.tag>> \notin free_reqs'
      BY <3>1 DEF CmdRequests
    <3> QED BY <3>1, <3>2, <3>3, CmdRequestsKept, Zenon
  <2>6. CASE srp_reset_device_done
    <3> DEFINE ring == {FirstChan} \X Tags
    <3>1. /\ srp_finish_req(ring) /\ cmd' = Done({scmnd[s] : s \in Busy(ring)})
          /\ UNCHANGED <<wire, rx>>
      BY <2>6 DEF srp_reset_device_done, target
    <3>2. \A r \in wire : r.kind # "cmd"
      BY <2>6 DEF srp_reset_device_done, ResetInv
    <3>3. ring \in SUBSET Slots
      BY ChannelConstants DEF Slots
    <3> HIDE DEF ring
    <3> QED BY <3>1, <3>2, <3>3, FinishCmds, Zenon
  <2> QED BY <1>4, <2>1, <2>2, <2>3, <2>4, <2>5, <2>6 DEF TskMgmt
<1>5. CASE Transport
  <2>1. CASE srp_terminate_io \/ srp_rport_reconnect_reset
    <3>1. /\ srp_finish_req(Slots) /\ cmd' = Done({scmnd[s] : s \in Busy(Slots)})
          /\ UNCHANGED <<wire, rx>>
      BY <2>1 DEF srp_terminate_io, srp_rport_reconnect_reset, target
    <3>2. port' # "running" \/ xport' # "idle"
      BY <2>1 DEF srp_terminate_io, srp_rport_reconnect_reset, link
    <3> QED BY <3>1, <3>2, FinishCmds, Zenon
  <2>2. CASE srp_create_ch_ib
    BY <1>1, <2>2 DEF srp_create_ch_ib
  <2>3. CASE srp_rport_reconnect_done
    <3>1. /\ UNCHANGED <<requests, rx, wire>>
          /\ port' = "running" => wire = {}
      BY <2>3 DEF srp_rport_reconnect_done, XportInv, target
    <3> QED BY <1>1, <3>1
  <2>4. CASE \/ srp_tl_err_work \/ srp_disconnect_target \/ srp_rport_reconnect_scanning
             \/ (\E ch \in Chans : srp_connect_ch(ch)) \/ srp_connect_ch_failed
    <3>1. /\ UNCHANGED <<requests, rx, wire>>
          /\ port' = "running" /\ xport' = "idle" => port = "running" /\ xport = "idle"
      BY <2>4 DEF srp_tl_err_work, srp_disconnect_target, srp_rport_reconnect_scanning,
                  srp_connect_ch, srp_connect_ch_failed, target, link
    <3> QED BY <1>1, <3>1
  <2> QED BY <1>5, <2>1, <2>2, <2>3, <2>4 DEF Transport
<1> QED BY <1>2, <1>3, <1>4, <1>5 DEF Next

-----------------------------------------------------------------------------
(* The invariant holds in every state.                                     *)

LEMMA InitOwners == Init => OwnersInv
<1> SUFFICES ASSUME Init PROVE OwnerInv /\ CmdRequests
  BY InitTypes DEF OwnersInv
<1> USE ChannelConstants DEF Init
<1>1. OwnerInv
  <2>1. ~TmClaimed /\ tm.at = "idle"
    BY DEF TmClaimed, TmIdle
  <2>2. \A s \in Slots : rx[s[1]].tag # s[2]
    BY DEF Slots, RxIdle
  <2> QED BY <2>1, <2>2 DEF OwnerInv, OwnedByRing, OwnedByRx, OwnedByAbort, HasOwner,
                            FreeSlots, InCore
<1>2. CmdRequests
  BY DEF CmdRequests
<1> QED BY <1>1, <1>2

LEMMA NextOwners == OwnersInv /\ [Next]_<<vars, setting>> => OwnersInv'
<1> SUFFICES ASSUME OwnersInv, [Next]_<<vars, setting>> PROVE OwnersInv'
  OBVIOUS
<1>1. TypesInv /\ TypesInv'
  BY NextTypes DEF OwnersInv
<1>2. TypeInv /\ XportInv /\ TypeInv' /\ (NoRaces => ResetInv)
  BY <1>1 DEF TypesInv, TaskInv
<1>3. CASE Next
  <2>1. NoRaces' = NoRaces
    BY <1>3 DEF Next, setting, NoRaces
  <2>2. ASSUME NoRaces PROVE OwnerInv' /\ CmdRequests'
    <3>1. OwnerInv'
      BY <1>2, <1>3, <2>2, OwnerStep DEF OwnersInv
    <3>2. CmdRequests'
      BY <1>2, <1>3, <2>2, <3>1, CmdStep DEF OwnersInv
    <3> QED BY <3>1, <3>2
  <2> QED BY <1>1, <2>1, <2>2 DEF OwnersInv
<1>4. CASE UNCHANGED <<vars, setting>>
  <2>1. /\ UNCHANGED <<free_reqs, scmnd, cmd, wire, port>>
        /\ UNCHANGED <<rx, tm, tsk_mgmt_done, xport, races>>
    BY <1>4 DEF vars, setting, requests, target, link
  <2>2. ASSUME NoRaces PROVE OwnerInv'
    BY <1>2, <2>1, <2>2, OwnersUnchanged DEF OwnersInv, TmClaimed, requests
  <2>3. ASSUME NoRaces PROVE CmdRequests'
    BY <2>1, <2>3 DEF OwnersInv, CmdRequests
  <2>4. NoRaces' = NoRaces
    BY <2>1 DEF NoRaces
  <2> QED BY <1>1, <2>2, <2>3, <2>4 DEF OwnersInv
<1> QED BY <1>3, <1>4

\* OwnersInv is an invariant of the channels of a target port.
THEOREM RequestInvariance == Spec => []OwnersInv
<1> QED BY InitOwners, NextOwners, PTL DEF Spec

-----------------------------------------------------------------------------
(* What the runs check for small instances.                                *)

\* scsi_done() is called exactly once for a command: one of the request ring,
\* srp_process_rsp() and srp_abort() has it.
THEOREM CommandHasOneHolder == Spec => []OneHolder
<1>1. OwnersInv => OneHolder
  <2> SUFFICES ASSUME OwnersInv, NoRaces, NEW c \in Cmds
               PROVE  Cardinality(Holders(c)) = IF cmd[c].at = "core" THEN 0 ELSE 1
    BY DEF OneHolder
  <2> USE ChannelConstants DEF OwnersInv, TypesInv, TypeInv, OwnerInv
  <2> DEFINE ring == {s \in Slots : scmnd[s] = c}
             resp == {ch \in Chans : rx[ch].cmd = c}
             abrt == IF TmClaimed /\ tm.cmd = c THEN {"tm"} ELSE {}
  <2>1. c # NoCmd /\ \A ch \in Chans : rx[ch].cmd = c => rx[ch] # RxIdle
    BY DEF RxIdle
  <2>2. ring \subseteq {cmd[c].slot} /\ (ring # {} => cmd[c].at # "core" /\ cmd[c].slot \in ring)
    BY <2>1, SMTT(20) DEF OwnedByRing
  <2>3. /\ resp \subseteq {cmd[c].slot[1]}
        /\ resp # {} => cmd[c].at # "core" /\ scmnd[cmd[c].slot] = NoCmd /\ cmd[c].slot[1] \in resp
                        /\ rx[cmd[c].slot[1]].tag = cmd[c].slot[2]
    <3>1. ASSUME NEW ch \in resp
          PROVE  /\ cmd[c].slot = <<ch, rx[ch].tag>> /\ cmd[c].at = "lld"
                 /\ scmnd[cmd[c].slot] = NoCmd
      <4>1. ch \in Chans /\ rx[ch] # RxIdle /\ rx[ch].cmd = c
        BY <2>1, <3>1
      <4>2. cmd[c].at = "lld" /\ cmd[c].slot = <<ch, rx[ch].tag>>
        BY <4>1, RxCommand, Zenon
      <4> QED BY <4>1, <4>2, Zenon DEF OwnedByRx
    <3>2. ASSUME NEW ch \in resp PROVE cmd[c].slot[1] = ch /\ cmd[c].slot[2] = rx[ch].tag
      BY <3>1, <3>2
    <3> QED BY <3>1, <3>2
  <2>4. abrt # {} => /\ cmd[c].at # "core" /\ scmnd[cmd[c].slot] = NoCmd
                     /\ rx[cmd[c].slot[1]].tag # cmd[c].slot[2]
    BY SMTT(20) DEF OwnedByAbort
  <2>5. abrt \in {{}, {"tm"}}
    OBVIOUS
  <2>6. cmd[c].at # "core" => ring # {} \/ resp # {} \/ abrt # {}
    <3> HAVE cmd[c].at # "core"
    <3>1. cmd[c].slot \in Slots /\ cmd[c].slot[1] \in Chans
      BY DEF SlotTypes, Slots
    <3> QED BY <3>1 DEF HasOwner
  <2>7. Holders(c) = ring \cup resp \cup abrt
    BY DEF Holders
  <2>8. ring # {} => scmnd[cmd[c].slot] # NoCmd
    BY <2>1, <2>2
  <2> HIDE DEF ring, resp, abrt
  <2>9. CASE cmd[c].at = "core"
    <3>1. Holders(c) = {}
      BY <2>2, <2>3, <2>4, <2>7, <2>9
    <3> QED BY <2>9, <3>1, FS_EmptySet
  <2>10. CASE cmd[c].at # "core"
    <3>1. \E h : Holders(c) = {h}
      <4>1. CASE ring # {}
        <5>1. resp = {} /\ abrt = {} /\ ring = {cmd[c].slot}
          BY <2>2, <2>3, <2>4, <2>8, <4>1
        <5> QED BY <2>7, <5>1, Zenon
      <4>2. CASE resp # {}
        <5>1. ring = {} /\ abrt = {} /\ resp = {cmd[c].slot[1]}
          BY <2>3, <2>4, <2>8, <4>2
        <5> QED BY <2>7, <5>1, Zenon
      <4>3. CASE ring = {} /\ resp = {}
        BY <2>5, <2>6, <2>7, <2>10, <4>3
      <4> QED BY <4>1, <4>2, <4>3, Zenon
    <3> QED BY <2>10, <3>1, FS_Singleton, Zenon
  <2> QED BY <2>9, <2>10
<1> QED BY <1>1, RequestInvariance, PTL

\* ch->free_reqs is exact, and because req_ring_size is not less than
\* can_queue, srp_queuecommand() always finds a request: if every tag of a
\* channel were in use, distinct commands would use them, and none would be
\* left for the SCSI core to queue.
THEOREM RequestAvailable == Spec => []FreeReqsSound
<1>1. OwnersInv => FreeReqsSound
  <2> SUFFICES ASSUME OwnersInv, NoRaces
               PROVE  /\ FreeSlots
                      /\ \A ch \in Chans : (\E c \in Cmds : cmd[c].at = "core") =>
                           \E s \in free_reqs : s[1] = ch
    BY DEF FreeReqsSound, FreeSlots
  <2> USE ChannelConstants DEF OwnersInv, TypesInv, TypeInv, OwnerInv
  <2>1. ASSUME NEW ch \in Chans, NEW d \in Cmds, cmd[d].at = "core",
               ~\E s \in free_reqs : s[1] = ch
        PROVE  FALSE
    <3> DEFINE User(t) == CHOOSE c \in Cmds : cmd[c].at # "core" /\ cmd[c].slot = <<ch, t>>
               g == [t \in Tags |-> User(t)]
    <3>1. ASSUME NEW t \in Tags
          PROVE  \E c \in Cmds : cmd[c].at # "core" /\ cmd[c].slot = <<ch, t>>
      <4> DEFINE s == <<ch, t>>
      <4>1. s \in Slots /\ s[1] = ch /\ s[2] = t /\ s \notin free_reqs
        BY <2>1 DEF Slots
      <4>2. CASE scmnd[s] # NoCmd
        BY <4>1, <4>2 DEF OwnedByRing, SlotTypes
      <4>3. CASE rx[ch].tag = t
        <5>1. rx[ch] # RxIdle
          BY <4>3 DEF RxIdle
        <5> QED BY <4>3, <5>1, RxCommand, Zenon
      <4>4. CASE TmClaimed /\ tm.slot = s
        <5>1. tm.cmd \in Cmds
          BY <4>4 DEF TmClaimed, HandlerTypes
        <5> QED BY <4>4, <5>1, SMTT(20) DEF OwnedByAbort
      <4> QED BY <4>1, <4>2, <4>3, <4>4 DEF FreeSlots
    <3>2. \A t \in Tags : g[t] \in Cmds /\ cmd[g[t]].at # "core" /\ cmd[g[t]].slot = <<ch, t>>
      BY <3>1, Zenon
    <3> HIDE DEF g
    <3>3. g \in [Tags -> Cmds \ {d}]
      BY <2>1, <3>2, Zenon DEF g
    <3>4. g \in Injection(Tags, Cmds \ {d})
      BY <3>2, <3>3 DEF Injection, IsInjective
    <3>5. IsFiniteSet(Cmds \ {d}) /\ Cardinality(Cmds \ {d}) = Cardinality(Cmds) - 1
      BY FS_RemoveElement
    <3>6. Cardinality(Tags) <= Cardinality(Cmds \ {d})
      BY <3>4, <3>5, FS_Injection, Zenon
    <3>7. Cardinality(Cmds) \in Nat /\ Cardinality(Tags) \in Nat
      BY FS_CardinalityType
    <3> QED BY <3>5, <3>6, <3>7
  <2> QED BY <2>1
<1> QED BY <1>1, RequestInvariance, PTL

\* srp_process_rsp() completes the command whose response it received.
THEOREM AnswerForCommand == Spec => []RightCommandCompleted
<1>1. OwnersInv => RightCommandCompleted
  <2> SUFFICES ASSUME OwnersInv, NoRaces, NEW ch \in Chans PROVE rx[ch].cmd = rx[ch].answers
    BY DEF RightCommandCompleted
  <2>1. CASE rx[ch] = RxIdle
    BY <2>1 DEF RxIdle
  <2>2. CASE rx[ch] # RxIdle
    BY <2>2, Zenon DEF OwnersInv, OwnerInv, OwnedByRx
  <2> QED BY <2>1, <2>2
<1> QED BY <1>1, RequestInvariance, PTL
=============================================================================
