------------------------------ MODULE SrpTarget ------------------------------
(***************************************************************************)
(* The life of one SRP target port in src/drivers/infiniband/ulp/srp/      *)
(* ib_srp.c: srp_create_target() spreads the channels over the NUMA nodes, *)
(* CPUs and completion vectors and connects them, srp_add_target() scans   *)
(* the target, and srp_remove_target(), on another thread, takes it down.  *)
(*                                                                         *)
(* The kernel variant without HAVE_USE_BLK_TAGS is modelled: mq_map[] maps *)
(* a CPU to its channel.  A channel is connected or not and has some of    *)
(* three resources: a CM ID, a queue pair with its rings, a request ring.  *)
(***************************************************************************)
EXTENDS Integers, FiniteSets

CONSTANTS
  Configs  \* machines and parameters, see IsConfig

\* nodes: num_online_nodes(); node: cpu_to_node() of the online CPUs;
\* possible: the possible CPUs; vectors: ibdev->num_comp_vectors;
\* ch_count: the module parameter, 0 if not set; comp_vector: the option.
IsConfig(c) ==
  /\ c.nodes \in Nat \ {0} /\ c.vectors \in Nat \ {0}
  /\ c.ch_count \in Nat /\ c.comp_vector \in Nat
  /\ DOMAIN c.node # {} /\ DOMAIN c.node \subseteq c.possible
  /\ c.possible \subseteq Nat /\ IsFiniteSet(c.possible)
  /\ \A cpu \in DOMAIN c.node : c.node[cpu] \in 0..(c.nodes - 1)

ASSUME TargetConstants == \A c \in Configs : IsConfig(c)

VARIABLES
  cfg,          \* the machine
  pc,           \* where srp_create_target() is
  ch_count,     \* target->ch_count
  ch,           \* target->ch[]
  ch_alloc,     \* target->ch points at allocated memory
  mq_map,       \* target->mq_map[]
  first_cpu,
  node_idx,
  cpu,          \* the loop over the online CPUs has come to this one
  cpu_idx,
  state,        \* target->state
  qp_in_error,  \* target->qp_in_error
  listed,       \* target is on host->target_list
  rm            \* where remove_work is

loop == <<node_idx, cpu, cpu_idx, first_cpu, mq_map>>
vars == <<cfg, pc, ch_count, ch, ch_alloc, loop, state, qp_in_error, listed, rm>>

-----------------------------------------------------------------------------
(* The arithmetic of srp_create_target().                                  *)

Smaller(a, b) == IF a < b THEN a ELSE b
Larger(a, b) == IF a < b THEN b ELSE a

channels(c) ==
  Larger(c.nodes,
         Smaller(IF c.ch_count # 0 THEN c.ch_count
                 ELSE Smaller(4 * c.nodes, c.vectors),
                 Cardinality(DOMAIN c.node)))

\* The channels and completion vectors of node n: first, and first after.
ch_start(n) == (n * ch_count) \div cfg.nodes
ch_end(n) == ((n + 1) * ch_count) \div cfg.nodes
cv_start(n) == ((n * cfg.vectors) \div cfg.nodes + cfg.comp_vector) % cfg.vectors
cv_end(n) == (((n + 1) * cfg.vectors) \div cfg.nodes + cfg.comp_vector)
               % cfg.vectors

\* start + idx % (end - start) as C computes it: the sign of the divisor
\* does not matter.
spread(start, end, idx) ==
  IF start = end THEN start
  ELSE start + (idx % (IF end > start THEN end - start ELSE start - end))

-----------------------------------------------------------------------------
Resources == {"cm_id", "qp", "req_ring"}
NoChannel == [res |-> {}, connected |-> FALSE, comp_vector |-> 0]

Init ==
  /\ cfg \in Configs
  /\ pc = "channels"
  /\ ch_count = channels(cfg)
  /\ ch = [i \in 0..(ch_count - 1) |-> NoChannel]
  /\ ch_alloc = TRUE
  /\ mq_map = [c \in cfg.possible |-> 0]
  /\ first_cpu = -1 /\ node_idx = 0 /\ cpu = 0 /\ cpu_idx = 0
  /\ state = "none"
  /\ qp_in_error = FALSE
  /\ listed = FALSE
  /\ rm = "idle"

\* The online CPUs of the current node that the loop has not seen.
CpusLeft == {c \in DOMAIN cfg.node : cfg.node[c] = node_idx /\ c >= cpu}
NextCpu == CHOOSE c \in CpusLeft : \A d \in CpusLeft : c <= d

\* Mutant: the first CPU is not recorded.
map_cpu_no_first(target_ch) ==
  /\ mq_map' = [mq_map EXCEPT ![NextCpu] = target_ch]
  /\ cpu' = NextCpu + 1
  /\ UNCHANGED first_cpu

\* cpu_to_node(cpu) = node: map the CPU to a channel of the node.
map_cpu(target_ch) ==
  /\ first_cpu' = IF first_cpu < 0 THEN NextCpu ELSE first_cpu
  /\ mq_map' = [mq_map EXCEPT ![NextCpu] = target_ch]
  /\ cpu' = NextCpu + 1

\* The node has no channel left for this CPU: it shares one.
srp_create_target_shared_cpu ==
  /\ pc = "channels" /\ CpusLeft # {}
  /\ ch_start(node_idx) + cpu_idx >= ch_end(node_idx)
  /\ map_cpu(spread(ch_start(node_idx), ch_end(node_idx), cpu_idx))
  /\ UNCHANGED <<cfg, pc, ch_count, ch, ch_alloc, node_idx, cpu_idx, state,
                 qp_in_error, listed, rm>>

\* The channel of this CPU, and what srp_create_target() has allocated for it
\* when a step fails: srp_new_cm_id(), srp_create_ch_ib(),
\* srp_alloc_req_data() (which may leave a part of the ring).
Current == ch_start(node_idx) + cpu_idx
Partial == {{}, {"cm_id"}, {"cm_id", "qp"}, Resources}

NewChannel(res, connected) ==
  [ch EXCEPT ![Current] =
     [res |-> res, connected |-> connected,
      comp_vector |-> spread(cv_start(node_idx), cv_end(node_idx), cpu_idx)]]

\* A channel is created and connected.
srp_create_target_channel ==
  /\ pc = "channels" /\ CpusLeft # {} /\ Current < ch_end(node_idx)
  /\ map_cpu(spread(ch_start(node_idx), ch_end(node_idx), cpu_idx))
  /\ ch' = NewChannel(Resources, TRUE)
  /\ cpu_idx' = cpu_idx + 1
  /\ UNCHANGED <<cfg, pc, ch_count, ch_alloc, node_idx, state, qp_in_error,
                 listed, rm>>

\* Creating a channel, or connecting the first one, fails.
srp_create_target_error ==
  /\ pc = "channels" /\ CpusLeft # {} /\ Current < ch_end(node_idx)
  /\ map_cpu(spread(ch_start(node_idx), ch_end(node_idx), cpu_idx))
  /\ \E res \in Partial : ch' = NewChannel(res, FALSE)
  /\ pc' = "err_disconnect"
  /\ UNCHANGED <<cfg, ch_count, ch_alloc, node_idx, cpu_idx, state,
                 qp_in_error, listed, rm>>

\* for_each_possible_cpu() after the label "connected".
FillMap(map, first) ==
  [c \in cfg.possible |-> IF first # 0 /\ map[c] = 0 THEN first ELSE map[c]]

\* Mutant: the number of channels is not reduced.
srp_create_target_fewer_keeps_count ==
  /\ pc = "channels" /\ CpusLeft # {} /\ Current < ch_end(node_idx)
  /\ ~(node_idx = 0 /\ cpu_idx = 0)
  /\ first_cpu' = first_cpu
  /\ mq_map' = FillMap([mq_map EXCEPT ![NextCpu] = first_cpu], first_cpu)
  /\ ch' = [ch EXCEPT ![Current] = NoChannel]
  /\ pc' = "add"
  /\ UNCHANGED <<cfg, ch_count, ch_alloc, node_idx, cpu, cpu_idx, state,
                 qp_in_error, listed, rm>>

\* Connecting a further channel fails: go on with the ones there are.
srp_create_target_fewer ==
  LET first == IF first_cpu < 0 THEN NextCpu ELSE first_cpu IN
  /\ pc = "channels" /\ CpusLeft # {} /\ Current < ch_end(node_idx)
  /\ ~(node_idx = 0 /\ cpu_idx = 0)
  /\ first_cpu' = first
  /\ mq_map' = FillMap([mq_map EXCEPT ![NextCpu] = first], first)
  /\ ch' = [ch EXCEPT ![Current] = NoChannel]
  /\ ch_count' = Current
  /\ pc' = "add"
  /\ UNCHANGED <<cfg, ch_alloc, node_idx, cpu, cpu_idx, state, qp_in_error,
                 listed, rm>>

\* The end of the loop over the CPUs of a node.
srp_create_target_node ==
  /\ pc = "channels" /\ CpusLeft = {}
  /\ node_idx' = node_idx + 1 /\ cpu' = 0 /\ cpu_idx' = 0
  /\ \/ /\ node_idx' < cfg.nodes
        /\ UNCHANGED <<pc, mq_map>>
     \/ /\ node_idx' = cfg.nodes
        /\ pc' = "add"
        /\ mq_map' = FillMap(mq_map, first_cpu)
  /\ UNCHANGED <<cfg, ch_count, ch, ch_alloc, first_cpu, state, qp_in_error,
                 listed, rm>>

\* Mutant: only the connected channels are freed.
srp_create_target_err_connected ==
  /\ pc = "err_disconnect"
  /\ ch' = [i \in DOMAIN ch |-> IF i < ch_count /\ ch[i].connected
                                THEN NoChannel ELSE ch[i]]
  /\ ch_alloc' = FALSE
  /\ pc' = "failed"
  /\ UNCHANGED <<cfg, ch_count, loop, state, qp_in_error, listed, rm>>

\* err_disconnect: disconnect and free target->ch_count channels.
srp_create_target_err ==
  /\ pc = "err_disconnect"
  /\ ch' = [i \in DOMAIN ch |-> IF i < ch_count THEN NoChannel ELSE ch[i]]
  /\ ch_alloc' = FALSE
  /\ pc' = "failed"
  /\ UNCHANGED <<cfg, ch_count, loop, state, qp_in_error, listed, rm>>

-----------------------------------------------------------------------------
(* srp_add_target().                                                       *)

\* scsi_add_host() or srp_rport_add() fails.
srp_add_target_failed ==
  /\ pc = "add"
  /\ state' = "scanning"
  /\ pc' = "err_disconnect"
  /\ UNCHANGED <<cfg, ch_count, ch, ch_alloc, loop, qp_in_error, listed, rm>>

\* The target gets its rport.  From here on it can be removed.
srp_add_target ==
  /\ pc = "add"
  /\ state' = "scanning"
  /\ pc' = "rport"
  /\ UNCHANGED <<cfg, ch_count, ch, ch_alloc, loop, qp_in_error, listed, rm>>

\* A removal that stopped in list_del() has left target_lock locked.
srp_add_target_list ==
  /\ pc = "rport" /\ rm # "oops"
  /\ listed' = TRUE
  /\ pc' = "listed"
  /\ UNCHANGED <<cfg, ch_count, ch, ch_alloc, loop, state, qp_in_error, rm>>

\* scsi_scan_target() locks the host's scan_mutex, which scsi_remove_host()
\* needs too, and unlocks it.
scsi_scan_target ==
  /\ \/ pc = "listed" /\ pc' = "scan"
     \/ pc = "scan" /\ pc' = "scanned"
  /\ UNCHANGED <<cfg, ch_count, ch, ch_alloc, loop, state, qp_in_error, listed,
                 rm>>

\* srp_queue_remove_work(): the first caller queues remove_work.
srp_queue_remove_work ==
  /\ state' = "removed"
  /\ rm' = IF state # "removed" THEN "queued" ELSE rm

AllConnected == \A i \in 0..(ch_count - 1) : ch[i].connected

\* The scan failed.
srp_add_target_scan_failed ==
  /\ pc = "scanned" /\ ch_alloc
  /\ ~AllConnected \/ qp_in_error
  /\ srp_queue_remove_work
  /\ pc' = "created"
  /\ UNCHANGED <<cfg, ch_count, ch, ch_alloc, loop, qp_in_error, listed>>

\* The scan succeeded.  Between looking at the channels and setting the state
\* the target may be removed.
srp_add_target_scan_ok ==
  /\ pc = "scanned" /\ ch_alloc
  /\ AllConnected /\ ~qp_in_error
  /\ pc' = "live"
  /\ UNCHANGED <<cfg, ch_count, ch, ch_alloc, loop, state, qp_in_error, listed,
                 rm>>

\* srp_connected_ch() reads target->ch after srp_remove_target() freed it.
srp_add_target_oops ==
  /\ pc = "scanned" /\ ~ch_alloc
  /\ pc' = "oops"
  /\ UNCHANGED <<cfg, ch_count, ch, ch_alloc, loop, state, qp_in_error, listed,
                 rm>>

\* Mutant: the state is set without looking at it.
srp_add_target_live_always ==
  /\ pc = "live"
  /\ state' = "live"
  /\ pc' = "created"
  /\ UNCHANGED <<cfg, ch_count, ch, ch_alloc, loop, qp_in_error, listed, rm>>

\* Under target->lock.
srp_add_target_live ==
  /\ pc = "live"
  /\ state' = IF state = "scanning" THEN "live" ELSE state
  /\ pc' = "created"
  /\ UNCHANGED <<cfg, ch_count, ch, ch_alloc, loop, qp_in_error, listed, rm>>

-----------------------------------------------------------------------------
(* Other threads.                                                          *)

\* A failed work completion of a queue pair.
srp_handle_qp_err ==
  /\ ~qp_in_error
  /\ \E i \in DOMAIN ch : "qp" \in ch[i].res
  /\ qp_in_error' = TRUE
  /\ UNCHANGED <<cfg, pc, ch_count, ch, ch_alloc, loop, state, listed, rm>>

\* A disconnect request of the target, or a reconnect of a target that is being
\* scanned, which only disconnects.
ChannelLost(i) ==
  /\ ch_alloc /\ i < ch_count /\ ch[i].connected
  /\ ch' = [ch EXCEPT ![i].connected = FALSE]
  /\ UNCHANGED <<cfg, pc, ch_count, ch_alloc, loop, state, qp_in_error, listed,
                 rm>>

\* The rport's delete attribute, dev_loss_tmo or srp_remove_one().
srp_rport_delete ==
  /\ listed \/ pc = "rport"
  /\ srp_queue_remove_work
  /\ UNCHANGED <<cfg, pc, ch_count, ch, ch_alloc, loop, qp_in_error, listed>>

\* srp_remove_target() up to srp_stop_rport_timers().
srp_remove_target_host ==
  /\ rm = "queued" /\ pc # "scan"
  /\ rm' = "host_gone"
  /\ UNCHANGED <<cfg, pc, ch_count, ch, ch_alloc, loop, state, qp_in_error,
                 listed>>

\* srp_disconnect_target() and srp_free_ch_ib() for each channel.
srp_remove_target_channels ==
  /\ rm = "host_gone"
  /\ ch' = [i \in DOMAIN ch |->
              IF i < ch_count
              THEN [ch[i] EXCEPT !.res = @ \ {"cm_id", "qp"},
                                 !.connected = FALSE]
              ELSE ch[i]]
  /\ rm' = "channels_gone"
  /\ UNCHANGED <<cfg, pc, ch_count, ch_alloc, loop, state, qp_in_error, listed>>

\* The rest of srp_remove_target().  list_del() of a target that is not on the
\* list yet follows pointers that are NULL.
srp_remove_target ==
  /\ rm = "channels_gone"
  /\ ch' = [i \in DOMAIN ch |->
              IF i < ch_count THEN [ch[i] EXCEPT !.res = @ \ {"req_ring"}]
              ELSE ch[i]]
  /\ ch_alloc' = FALSE
  /\ listed' = FALSE
  /\ rm' = IF listed THEN "done" ELSE "oops"
  /\ UNCHANGED <<cfg, pc, ch_count, loop, state, qp_in_error>>

-----------------------------------------------------------------------------
Create ==
  \/ srp_create_target_shared_cpu \/ srp_create_target_channel
  \/ srp_create_target_error \/ srp_create_target_fewer
  \/ srp_create_target_node \/ srp_create_target_err
  \/ srp_add_target_failed \/ srp_add_target
  \/ srp_add_target_list \/ scsi_scan_target
  \/ srp_add_target_scan_failed \/ srp_add_target_scan_ok
  \/ srp_add_target_oops \/ srp_add_target_live

Remove ==
  \/ srp_remove_target_host \/ srp_remove_target_channels \/ srp_remove_target

Next ==
  \/ Create
  \/ Remove
  \/ srp_handle_qp_err
  \/ \E i \in DOMAIN ch : ChannelLost(i)
  \/ srp_rport_delete

Spec == Init /\ [][Next]_vars

-----------------------------------------------------------------------------
(* Correctness.                                                            *)

\* Every variable has its type, and the loop has not run past its arrays.
TypeOK ==
  /\ cfg \in Configs
  /\ pc \in {"channels", "err_disconnect", "failed", "add", "rport", "listed",
             "scan", "scanned", "live", "created", "oops"}
  /\ ch_count \in Nat /\ ch_count <= channels(cfg)
  /\ ch \in [0..(channels(cfg) - 1) ->
               [res : SUBSET Resources, connected : BOOLEAN, comp_vector : Nat]]
  /\ ch_alloc \in BOOLEAN
  /\ mq_map \in [cfg.possible -> Nat]
  /\ first_cpu \in cfg.possible \cup {-1}
  /\ node_idx \in 0..cfg.nodes /\ cpu \in Nat /\ cpu_idx \in Nat
  /\ state \in {"none", "scanning", "live", "removed"}
  /\ qp_in_error \in BOOLEAN
  /\ listed \in BOOLEAN
  /\ rm \in {"idle", "queued", "host_gone", "channels_gone", "done", "oops"}

\* CPU 0 is on the first node, and no node has more channels than CPUs.
IsRegular(c) ==
  /\ 0 \in DOMAIN c.node /\ c.node[0] = 0
  /\ \A n \in 0..(c.nodes - 1) :
       ((n + 1) * channels(c)) \div c.nodes - (n * channels(c)) \div c.nodes
         <= Cardinality({u \in DOMAIN c.node : c.node[u] = n})

Created == pc \in {"add", "rport", "listed", "scan", "scanned", "live", "created"}

\* On a regular machine srp_map_cpu_to_ch() gives every possible CPU one of the
\* channels that srp_add_target() counts, also if a failed connection made them
\* fewer than the map was computed for; all of these have been created; and
\* unless there was such a failure, the channel was created for the node of the
\* CPU.
MapUsable ==
  Created /\ IsRegular(cfg) =>
    /\ \A c \in cfg.possible : mq_map[c] < ch_count
    /\ rm \notin {"channels_gone", "done", "oops"} =>
         \A i \in 0..(ch_count - 1) : ch[i].res = Resources
    /\ node_idx = cfg.nodes =>
         \A c \in DOMAIN cfg.node :
           mq_map[c] \in ch_start(cfg.node[c])..(ch_end(cfg.node[c]) - 1)

\* No CM ID, queue pair or ring of a channel is leaked by a failed
\* srp_create_target(), wherever it failed, or by a removal that came to its end,
\* whichever channels there were, and such a target is no longer on the list.
NothingLeaked ==
  pc = "failed" \/ rm = "done" =>
    /\ ~listed
    /\ \A i \in DOMAIN ch : ch[i].res = {}

\* A target that is being removed does not come back to life at the end of
\* the scan, and the removal is started exactly once.
RemovedIsFinal ==
  [][/\ state = "removed" => state' = "removed"
     /\ rm # "idle" => rm' # "queued" \/ rm = "queued"]_vars

\* A completion vector is a number in the range 0..n-1, as the description of
\* the login parameter comp_vector says.
CompVectorInRange ==
  \A i \in DOMAIN ch : ch[i].comp_vector < cfg.vectors
=============================================================================
