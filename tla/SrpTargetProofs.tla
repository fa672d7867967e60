--------------------------- MODULE SrpTargetProofs ---------------------------
(***************************************************************************)
(* Proofs about SrpTarget, for all machines, HCAs and parameters.          *)
(*                                                                         *)
(* srp_create_target() walks over the nodes and their CPUs; what it has    *)
(* done up to then is described by Current, the number of the channel it   *)
(* has come to.  Every channel from Current on owns nothing, also when     *)
(* target->ch_count becomes Current because a connection failed.           *)
(***************************************************************************)
EXTENDS SrpTarget, FiniteSetTheorems, WellFoundedInduction, TLAPS

\* The types of the thread's place and of the flags, ...
ThreadTypes ==
  /\ cfg \in Configs
  /\ pc \in {"channels", "err_disconnect", "failed", "add", "rport", "listed",
             "scan", "scanned", "live", "created", "oops"}
  /\ state \in {"none", "scanning", "live", "removed"}
  /\ rm \in {"idle", "queued", "host_gone", "channels_gone", "done", "oops"}

FlagTypes == ch_alloc \in BOOLEAN /\ qp_in_error \in BOOLEAN /\ listed \in BOOLEAN

\* ... of the loop in srp_create_target(), ...
LoopTypes ==
  /\ ch_count \in Nat /\ ch_count <= channels(cfg)
  /\ mq_map \in [cfg.possible -> Nat]
  /\ first_cpu \in cfg.possible \cup {-1}
  /\ node_idx \in 0..cfg.nodes /\ cpu \in Nat /\ cpu_idx \in Nat

\* ... and of target->ch[].
ChTypes ==
  ch \in [0..(channels(cfg) - 1) ->
            [res : SUBSET Resources, connected : BOOLEAN, comp_vector : Nat]]

\* The loop of srp_create_target() has come to Current.  No channel from there
\* on has a resource.  first_cpu is set as soon as there was a CPU.
LoopInv ==
  pc = "channels" =>
    /\ ch_count = channels(cfg) /\ node_idx < cfg.nodes
    /\ Current <= ch_end(node_idx)
    /\ \A i \in DOMAIN ch : i >= Current => ch[i].res = {}
    /\ first_cpu = -1 =>
         \A u \in DOMAIN cfg.node :
           cfg.node[u] >= node_idx /\ (cfg.node[u] = node_idx => u >= cpu)

\* The channels that ch_count no longer counts own nothing, and the others lose
\* what they own in the order of srp_remove_target().
LeakInv ==
  /\ \A i \in DOMAIN ch : i >= ch_count => ch[i].res = {}
  /\ pc = "failed" => \A i \in DOMAIN ch : ch[i].res = {}
  /\ rm = "channels_gone" => \A i \in DOMAIN ch : ch[i].res \subseteq {"req_ring"}
  /\ rm = "done" => \A i \in DOMAIN ch : ch[i].res = {}

\* Nobody removes a target that has no rport, and a removal is complete only if
\* it found the target on the list.
RemoveInv ==
  /\ pc \in {"channels", "err_disconnect", "failed", "add"} =>
       ~listed /\ rm = "idle" /\ state \in {"none", "scanning"}
  /\ pc = "rport" => ~listed
  /\ rm = "done" => ~listed /\ pc # "rport"
  /\ rm # "idle" <=> state = "removed"
\* On a regular machine first_cpu is CPU 0, ...
FirstInv ==
  /\ first_cpu = IF node_idx = 0 /\ cpu = 0 THEN -1 ELSE 0
  /\ pc = "channels" /\ node_idx = 0 /\ cpu = 0 => cpu_idx = 0

\* ... there are CPUs left for the channels that are missing, ...
CpuInv == pc = "channels" => ch_end(node_idx) - Current <= Cardinality(CpusLeft)

\* ... the channels before Current have been created, ...
PrefixInv == pc = "channels" => \A i \in 0..(Current - 1) : ch[i].res = Resources

\* ... and the CPUs that the loop has seen have one of them, of their node.
SeenInv ==
  pc = "channels" =>
    /\ \A u \in cfg.possible : mq_map[u] = 0 \/ mq_map[u] < Current
    /\ \A u \in DOMAIN cfg.node :
         cfg.node[u] < node_idx \/ (cfg.node[u] = node_idx /\ u < cpu) =>
           mq_map[u] \in ch_start(cfg.node[u])..(ch_end(cfg.node[u]) - 1)

MapInv == IsRegular(cfg) => FirstInv /\ CpuInv /\ PrefixInv /\ SeenInv

\* Integer division, as the arithmetic of the channel ranges needs it.
LEMMA DivMono ==
  ASSUME NEW a \in Nat, NEW b \in Nat, NEW n \in Nat \ {0}, a <= b
  PROVE  a \div n \in Nat /\ a \div n <= b \div n
<1>1. a \div n \in Int /\ b \div n \in Int /\ a % n \in 0..(n - 1) /\ b % n \in 0..(n - 1)
  OBVIOUS
<1>2. a = n * (a \div n) + (a % n) /\ b = n * (b \div n) + (b % n)
  OBVIOUS
<1>3. ASSUME a \div n > b \div n PROVE FALSE
  <2>1. n * (a \div n) >= n * (b \div n + 1)
    BY <1>1, <1>3
  <2> QED BY <1>1, <1>2, <2>1
<1>4. ASSUME a \div n < 0 PROVE FALSE
  BY <1>1, <1>2, <1>4
<1> QED BY <1>1, <1>3, <1>4

\* A multiple is divided exactly.
LEMMA DivExact ==
  ASSUME NEW c \in Nat, NEW n \in Nat \ {0}
  PROVE  (n * c) \div n = c
OBVIOUS

\* One more multiple of the divisor adds one.
LEMMA DivAdd ==
  ASSUME NEW a \in Nat, NEW n \in Nat \ {0}
  PROVE  (a + n) \div n = a \div n + 1
OBVIOUS

\* Multiplication with a number of channels.
LEMMA MulMono ==
  ASSUME NEW c \in Nat, NEW m \in Nat, NEW n \in Nat, m <= n
  PROVE  m * c \in Nat /\ m * c <= n * c /\ (m + 1) * c = m * c + c
OBVIOUS

\* The remainder that spread() takes.
LEMMA Mod ==
  ASSUME NEW a \in Nat, NEW n \in Nat \ {0}
  PROVE  a % n \in Nat /\ a % n \in 0..(n-1) /\ (a < n => a % n = a) /\ n % n = 0
OBVIOUS

\* What is known of a machine and its parameters.
LEMMA Config ==
  ASSUME NEW c \in Configs
  PROVE  /\ c.nodes \in Nat \ {0} /\ c.vectors \in Nat \ {0}
         /\ c.ch_count \in Nat /\ c.comp_vector \in Nat
         /\ DOMAIN c.node # {} /\ DOMAIN c.node \subseteq c.possible
         /\ c.possible \subseteq Nat /\ IsFiniteSet(DOMAIN c.node)
         /\ \A u \in DOMAIN c.node : c.node[u] \in 0..(c.nodes - 1)
<1>1. IsConfig(c)
  BY TargetConstants
<1>2. IsFiniteSet(DOMAIN c.node)
  BY <1>1, FS_Subset DEF IsConfig
<1> QED BY <1>1, <1>2 DEF IsConfig

\* There is at least one channel per node.
LEMMA ChannelCount ==
  ASSUME NEW c \in Configs
  PROVE  channels(c) \in Nat \ {0} /\ channels(c) >= c.nodes
<1>1. Cardinality(DOMAIN c.node) \in Nat
  BY Config, FS_CardinalityType
<1> QED BY <1>1, Config DEF channels, Larger, Smaller

\* The channels of a node: the ranges of the nodes are not empty, follow each
\* other and end with the last channel.
LEMMA NodeRange ==
  ASSUME cfg \in Configs, ch_count \in Nat, NEW n \in Nat
  PROVE  /\ ch_start(n) \in Nat /\ ch_end(n) \in Nat
         /\ ch_start(n) <= ch_end(n)
         /\ n < cfg.nodes => ch_end(n) <= ch_count
         /\ cfg.nodes <= ch_count => ch_start(n) < ch_end(n)
         /\ ch_start(0) = 0
         /\ n + 1 = cfg.nodes => ch_end(n) = ch_count
<1>1. cfg.nodes \in Nat \ {0}
  BY Config
<1>2. /\ n * ch_count \in Nat /\ (n + 1) * ch_count \in Nat
      /\ (n + 1) * ch_count = n * ch_count + ch_count
  BY MulMono
<1>3. ch_start(n) \in Nat /\ ch_end(n) \in Nat /\ ch_start(n) <= ch_end(n)
  BY <1>1, <1>2, DivMono DEF ch_start, ch_end
<1>4. ASSUME n < cfg.nodes PROVE ch_end(n) <= ch_count
  <2>1. (n + 1) * ch_count <= cfg.nodes * ch_count /\ cfg.nodes * ch_count \in Nat
    BY <1>1, <1>4, MulMono
  <2>2. (cfg.nodes * ch_count) \div cfg.nodes = ch_count
    BY <1>1, DivExact
  <2> QED BY <1>1, <1>2, <2>1, <2>2, DivMono DEF ch_end
<1>5. ASSUME cfg.nodes <= ch_count PROVE ch_start(n) < ch_end(n)
  <2>1. (n * ch_count + cfg.nodes) \div cfg.nodes = ch_start(n) + 1
    BY <1>1, <1>2, DivAdd, Zenon DEF ch_start
  <2>2. ch_start(n) + 1 <= ch_end(n)
    BY <1>1, <1>2, <1>5, <2>1, DivMono DEF ch_end
  <2> QED BY <1>3, <2>2
<1>6. ch_start(0) = 0
  BY <1>1 DEF ch_start
<1>7. n + 1 = cfg.nodes => ch_end(n) = ch_count
  BY <1>1, DivExact DEF ch_end
<1> QED BY <1>3, <1>4, <1>5, <1>6, <1>7

\* spread() stays in its range; the first CPU without a channel of its own shares
\* the first channel.
LEMMA SpreadRange ==
  ASSUME NEW s \in Nat, NEW e \in Nat, NEW i \in Nat
  PROVE  /\ spread(s, e, i) \in Nat
         /\ s < e => spread(s, e, i) \in s..(e - 1)
         /\ s + i < e => spread(s, e, i) = s + i
         /\ s < e /\ s + i = e => spread(s, e, i) = s
<1>1. CASE s = e
  BY <1>1 DEF spread
<1>2. CASE s < e
  <2>1. PICK d \in Nat \ {0} : e = s + d /\ spread(s, e, i) = s + (i % d)
    BY <1>2 DEF spread
  <2>2. i % d \in 0..(d - 1) /\ (i < d => i % d = i) /\ d % d = 0
    BY Mod, Zenon
  <2>3. s + i = e => i = d
    BY <2>1
  <2> QED BY <1>2, <2>1, <2>2, <2>3
<1>3. CASE s > e
  <2>1. s - e \in Nat \ {0} /\ spread(s, e, i) = s + (i % (s - e))
    BY <1>3 DEF spread
  <2>2. i % (s - e) \in Nat
    BY <2>1, Mod
  <2> QED BY <1>3, <2>1, <2>2
<1> QED BY <1>1, <1>2, <1>3

\* The completion vectors of a node.
LEMMA VectorRange ==
  ASSUME cfg \in Configs, NEW n \in Nat
  PROVE  cv_start(n) \in Nat /\ cv_end(n) \in Nat
<1>1. ASSUME NEW k \in Nat
      PROVE  ((k * cfg.vectors) \div cfg.nodes + cfg.comp_vector) % cfg.vectors \in Nat
  <2>1. k * cfg.vectors \in Nat
    BY Config, MulMono
  <2>2. (k * cfg.vectors) \div cfg.nodes \in Nat
    BY <2>1, Config, DivMono
  <2>3. cfg.vectors \in Nat \ {0} /\ cfg.comp_vector \in Nat
    BY Config
  <2>4. (k * cfg.vectors) \div cfg.nodes + cfg.comp_vector \in Nat
    BY <2>2, <2>3
  <2> QED BY <2>3, <2>4, Mod, Zenon
<1> QED BY <1>1 DEF cv_start, cv_end

\* The loop takes the smallest CPU that is left.
LEMMA SmallestCpu ==
  ASSUME cfg \in Configs, CpusLeft # {}
  PROVE  /\ NextCpu \in CpusLeft /\ \A d \in CpusLeft : NextCpu <= d
         /\ NextCpu \in cfg.possible /\ NextCpu \in Nat
<1>1. CpusLeft \subseteq Nat /\ CpusLeft \subseteq cfg.possible
  BY Config DEF CpusLeft
<1>2. PICK x \in CpusLeft : \A y \in CpusLeft : ~(<<y, x>> \in OpToRel(<, Nat))
  BY <1>1, NatLessThanWellFounded, WFMin, Zenon
<1>3. \A y \in CpusLeft : x <= y
  <2> SUFFICES ASSUME NEW y \in CpusLeft, y < x PROVE FALSE
    BY <1>1
  <2>1. <<y, x>> \in Nat \X Nat /\ <<y, x>>[1] < <<y, x>>[2]
    BY <1>1
  <2>2. <<y, x>> \in OpToRel(<, Nat)
    BY <2>1, Zenon DEF OpToRel
  <2> QED BY <1>2, <2>2, Zenon
<1> QED BY <1>1, <1>3, Zenon DEF NextCpu

\* srp_create_target() and srp_remove_target() go from one place to the next.
LEMMA ThreadTypesKept ==
  ASSUME ThreadTypes, Next
  PROVE  ThreadTypes'
<1>1. CASE srp_create_target_shared_cpu \/ srp_create_target_channel \/
          srp_create_target_error \/ srp_create_target_fewer \/
          srp_create_target_node \/ srp_create_target_err \/
          srp_add_target_failed \/ srp_add_target \/
          srp_add_target_list \/ scsi_scan_target \/
          srp_add_target_scan_failed \/ srp_add_target_scan_ok \/
          srp_add_target_oops \/ srp_add_target_live \/ srp_remove_target_host
          \/ srp_remove_target_channels \/ srp_remove_target \/
          srp_handle_qp_err \/ srp_rport_delete \/ \E i \in DOMAIN ch :
          ChannelLost(i)
  BY <1>1, Zenon DEF srp_create_target_shared_cpu, srp_create_target_channel,
     srp_create_target_error, srp_create_target_fewer, srp_create_target_node,
     srp_create_target_err, srp_add_target_failed, srp_add_target,
       srp_add_target_list, scsi_scan_target, srp_add_target_scan_failed, srp_add_target_scan_ok,
     srp_add_target_oops, srp_add_target_live, srp_remove_target_host,
     srp_remove_target_channels, srp_remove_target, srp_handle_qp_err,
     srp_rport_delete, ChannelLost, srp_queue_remove_work, ThreadTypes
<1> QED BY <1>1 DEF Next, Create, Remove

\* The flags stay flags.
LEMMA FlagTypesKept ==
  ASSUME FlagTypes, Next
  PROVE  FlagTypes'
<1>1. CASE srp_create_target_shared_cpu \/ srp_create_target_channel \/
          srp_create_target_error \/ srp_create_target_fewer \/
          srp_create_target_node \/ srp_create_target_err \/
          srp_add_target_failed \/ srp_add_target \/
          srp_add_target_list \/ scsi_scan_target \/
          srp_add_target_scan_failed \/ srp_add_target_scan_ok \/
          srp_add_target_oops \/ srp_add_target_live \/ srp_remove_target_host
          \/ srp_remove_target_channels \/ srp_remove_target \/
          srp_handle_qp_err \/ srp_rport_delete \/ \E i \in DOMAIN ch :
          ChannelLost(i)
  BY <1>1, Zenon DEF srp_create_target_shared_cpu, srp_create_target_channel,
     srp_create_target_error, srp_create_target_fewer, srp_create_target_node,
     srp_create_target_err, srp_add_target_failed, srp_add_target,
       srp_add_target_list, scsi_scan_target, srp_add_target_scan_failed, srp_add_target_scan_ok,
     srp_add_target_oops, srp_add_target_live, srp_remove_target_host,
     srp_remove_target_channels, srp_remove_target, srp_handle_qp_err,
     srp_rport_delete, ChannelLost, FlagTypes
<1> QED BY <1>1 DEF Next, Create, Remove

\* A CPU gets a channel.
LEMMA MapsCpu ==
  ASSUME ThreadTypes, LoopTypes, CpusLeft # {}, NEW k \in Nat, map_cpu(k)
  PROVE  /\ mq_map' \in [cfg.possible -> Nat]
         /\ first_cpu' \in cfg.possible /\ cpu' \in Nat
<1>1. NextCpu \in cfg.possible /\ NextCpu \in Nat
  BY SmallestCpu DEF ThreadTypes
<1> QED BY <1>1 DEF map_cpu, LoopTypes

\* Where the loop is, for a CPU of the current node.
LEMMA AtCurrent ==
  ASSUME ThreadTypes, LoopTypes, LoopInv, pc = "channels"
  PROVE  /\ ch_start(node_idx) \in Nat /\ ch_end(node_idx) \in Nat
         /\ ch_start(node_idx) < ch_end(node_idx) /\ ch_end(node_idx) <= ch_count
         /\ Current \in Nat /\ Current <= ch_end(node_idx)
         /\ spread(ch_start(node_idx), ch_end(node_idx), cpu_idx) \in Nat
         /\ spread(cv_start(node_idx), cv_end(node_idx), cpu_idx) \in Nat
<1>1. /\ cfg \in Configs /\ ch_count \in Nat /\ node_idx \in Nat /\ cpu_idx \in Nat
      /\ node_idx < cfg.nodes /\ ch_count = channels(cfg)
  BY Config DEF ThreadTypes, LoopTypes, LoopInv
<1>2. cfg.nodes <= ch_count /\ cfg.nodes \in Nat
  BY <1>1, ChannelCount, Config
<1>3. /\ ch_start(node_idx) \in Nat /\ ch_end(node_idx) \in Nat
      /\ ch_start(node_idx) < ch_end(node_idx) /\ ch_end(node_idx) <= ch_count
  BY <1>1, <1>2, NodeRange
<1>4. cv_start(node_idx) \in Nat /\ cv_end(node_idx) \in Nat
  BY <1>1, VectorRange
<1>5. /\ spread(ch_start(node_idx), ch_end(node_idx), cpu_idx) \in Nat
      /\ spread(cv_start(node_idx), cv_end(node_idx), cpu_idx) \in Nat
  BY <1>1, <1>3, <1>4, SpreadRange, Zenon
<1>6. Current \in Nat /\ Current <= ch_end(node_idx)
  BY <1>1, <1>3 DEF Current, LoopInv
<1> QED BY <1>3, <1>5, <1>6

\* The variables of the loop keep their types.
LEMMA LoopTypesKept ==
  ASSUME ThreadTypes, LoopTypes, LoopInv, Next
  PROVE  LoopTypes'
<1>1. CASE srp_create_target_shared_cpu
  BY <1>1, MapsCpu, AtCurrent DEF srp_create_target_shared_cpu, LoopTypes
<1>2. CASE srp_create_target_channel
  BY <1>2, MapsCpu, AtCurrent DEF srp_create_target_channel, LoopTypes
<1>3. CASE srp_create_target_error
  BY <1>3, MapsCpu, AtCurrent DEF srp_create_target_error, LoopTypes
<1>4. CASE srp_create_target_fewer
  <2> DEFINE first == IF first_cpu < 0 THEN NextCpu ELSE first_cpu
             map == [mq_map EXCEPT ![NextCpu] = first]
  <2>1. NextCpu \in cfg.possible /\ cfg.possible \subseteq Nat
    BY <1>4, SmallestCpu, Config DEF srp_create_target_fewer, ThreadTypes
  <2>2. first \in cfg.possible
    BY <2>1 DEF LoopTypes
  <2>3. map \in [cfg.possible -> Nat] /\ mq_map' = FillMap(map, first)
    BY <1>4, <2>1, <2>2 DEF srp_create_target_fewer, LoopTypes
  <2>4. mq_map' \in [cfg.possible -> Nat]
    BY <2>1, <2>2, <2>3 DEF FillMap
  <2>5. ch_count' \in Nat /\ ch_count' <= channels(cfg)
    BY <1>4, AtCurrent DEF srp_create_target_fewer, LoopTypes, LoopInv
  <2> QED BY <1>4, <2>2, <2>4, <2>5, Zenon DEF srp_create_target_fewer, LoopTypes
<1>5. CASE srp_create_target_node
  <2>1. node_idx' \in 0..cfg.nodes
    BY <1>5, Config DEF srp_create_target_node, ThreadTypes, LoopTypes, LoopInv
  <2>2. mq_map' \in [cfg.possible -> Nat]
    <3>1. CASE node_idx' < cfg.nodes
      BY <1>5, <3>1, <2>1, Config DEF srp_create_target_node, LoopTypes, ThreadTypes
    <3>2. CASE node_idx' = cfg.nodes
      <4>1. first_cpu # -1
        BY <1>5, <3>2, Config DEF srp_create_target_node, LoopInv, LoopTypes,
           ThreadTypes, CpusLeft
      <4>2. first_cpu \in Nat
        BY <4>1, Config DEF LoopTypes, ThreadTypes
      <4> QED BY <1>5, <3>2, <4>2, Config DEF srp_create_target_node, FillMap,
             LoopTypes, ThreadTypes
    <3> QED BY <1>5, <3>1, <3>2 DEF srp_create_target_node
  <2> QED BY <1>5, <2>1, <2>2 DEF srp_create_target_node, LoopTypes
<1>6. CASE srp_create_target_err \/ srp_add_target_failed \/ srp_add_target \/
          srp_add_target_list \/ scsi_scan_target \/ srp_add_target_scan_failed \/
          srp_add_target_scan_ok \/ srp_add_target_oops \/ srp_add_target_live
          \/ srp_remove_target_host \/ srp_remove_target_channels \/
          srp_remove_target \/ srp_handle_qp_err \/ srp_rport_delete \/ \E i \in
          DOMAIN ch : ChannelLost(i)
  BY <1>6, Zenon DEF srp_create_target_err, srp_add_target_failed, srp_add_target,
       srp_add_target_list, scsi_scan_target, srp_add_target_scan_failed, srp_add_target_scan_ok,
     srp_add_target_oops, srp_add_target_live, srp_remove_target_host,
     srp_remove_target_channels, srp_remove_target, srp_handle_qp_err,
     srp_rport_delete, ChannelLost, loop, LoopTypes
<1> QED BY <1>1, <1>2, <1>3, <1>4, <1>5, <1>6 DEF Next, Create, Remove

\* The channels keep their type.
LEMMA ChTypesKept ==
  ASSUME ThreadTypes, LoopTypes, ChTypes, LoopInv, Next
  PROVE  ChTypes'
<1> DEFINE Channel == [res : SUBSET Resources, connected : BOOLEAN, comp_vector : Nat]
<1>0. NoChannel \in Channel
  BY DEF NoChannel
<1>1. CASE srp_create_target_channel \/ srp_create_target_error
  <2>1. PICK r \in SUBSET Resources, b \in BOOLEAN : ch' = NewChannel(r, b)
    BY <1>1, Zenon DEF srp_create_target_channel, srp_create_target_error, Partial, Resources
  <2>2. spread(cv_start(node_idx), cv_end(node_idx), cpu_idx) \in Nat
    BY <1>1, AtCurrent, Zenon DEF srp_create_target_channel, srp_create_target_error
  <2>3. [res |-> r, connected |-> b,
         comp_vector |-> spread(cv_start(node_idx), cv_end(node_idx), cpu_idx)]
          \in Channel
    BY <2>2
  <2> QED BY <1>1, <2>1, <2>3, Zenon DEF NewChannel, ChTypes, srp_create_target_channel,
          srp_create_target_error
<1>2. CASE srp_create_target_fewer
  BY <1>0, <1>2, Zenon DEF srp_create_target_fewer, ChTypes
<1>3. CASE srp_create_target_err
  BY <1>0, <1>3 DEF srp_create_target_err, ChTypes
<1>4. CASE srp_remove_target_channels
  BY <1>4, Zenon DEF srp_remove_target_channels, ChTypes
<1>5. CASE srp_remove_target
  BY <1>5 DEF srp_remove_target, ChTypes
<1>6. CASE \E i \in DOMAIN ch : ChannelLost(i)
  BY <1>6, Zenon DEF ChannelLost, ChTypes
<1>7. CASE srp_create_target_shared_cpu \/ srp_create_target_node \/
          srp_add_target_failed \/ srp_add_target \/
          srp_add_target_list \/ scsi_scan_target \/
          srp_add_target_scan_failed \/ srp_add_target_scan_ok \/
          srp_add_target_oops \/ srp_add_target_live \/ srp_remove_target_host
          \/ srp_handle_qp_err \/ srp_rport_delete
  BY <1>7 DEF srp_create_target_shared_cpu, srp_create_target_node,
     srp_add_target_failed, srp_add_target,
       srp_add_target_list, scsi_scan_target,
     srp_add_target_scan_failed, srp_add_target_scan_ok, srp_add_target_oops,
     srp_add_target_live, srp_remove_target_host, srp_handle_qp_err,
     srp_rport_delete, ChTypes
<1> QED BY <1>1, <1>2, <1>3, <1>4, <1>5, <1>6, <1>7 DEF Next, Create, Remove

\* The steps before the scan leave the removal alone; srp_queue_remove_work()
\* starts it once.
LEMMA RemoveKept ==
  ASSUME ThreadTypes, RemoveInv, Next
  PROVE  RemoveInv'
<1>1. CASE srp_create_target_shared_cpu
  BY <1>1 DEF srp_create_target_shared_cpu, ThreadTypes, RemoveInv
<1>2. CASE srp_create_target_channel
  BY <1>2 DEF srp_create_target_channel, ThreadTypes, RemoveInv
<1>3. CASE srp_create_target_error
  BY <1>3 DEF srp_create_target_error, ThreadTypes, RemoveInv
<1>4. CASE srp_create_target_fewer
  BY <1>4 DEF srp_create_target_fewer, ThreadTypes, RemoveInv
<1>5. CASE srp_create_target_node
  BY <1>5 DEF srp_create_target_node, ThreadTypes, RemoveInv
<1>6. CASE srp_create_target_err
  BY <1>6 DEF srp_create_target_err, ThreadTypes, RemoveInv
<1>7. CASE srp_add_target_failed
  BY <1>7 DEF srp_add_target_failed, ThreadTypes, RemoveInv
<1>8. CASE srp_add_target \/ srp_add_target_list
  BY <1>8 DEF srp_add_target, srp_add_target_list, ThreadTypes, RemoveInv
<1>9. CASE scsi_scan_target
  BY <1>9 DEF scsi_scan_target, ThreadTypes, RemoveInv
<1>10. CASE srp_add_target_scan_failed
  BY <1>10 DEF srp_add_target_scan_failed, srp_queue_remove_work, ThreadTypes,
     RemoveInv
<1>11. CASE srp_add_target_scan_ok
  BY <1>11 DEF srp_add_target_scan_ok, ThreadTypes, RemoveInv
<1>12. CASE srp_add_target_oops
  BY <1>12 DEF srp_add_target_oops, ThreadTypes, RemoveInv
<1>13. CASE srp_add_target_live
  BY <1>13 DEF srp_add_target_live, ThreadTypes, RemoveInv
<1>14. CASE srp_remove_target_host
  BY <1>14 DEF srp_remove_target_host, ThreadTypes, RemoveInv
<1>15. CASE srp_remove_target_channels
  BY <1>15, Zenon DEF srp_remove_target_channels, ThreadTypes, RemoveInv
<1>16. CASE srp_remove_target
  BY <1>16 DEF srp_remove_target, ThreadTypes, RemoveInv
<1>17. CASE srp_handle_qp_err
  BY <1>17 DEF srp_handle_qp_err, ThreadTypes, RemoveInv
<1>18. CASE srp_rport_delete
  BY <1>18 DEF srp_rport_delete, srp_queue_remove_work, ThreadTypes, RemoveInv
<1>19. CASE  \/ \E i \in DOMAIN ch : ChannelLost(i)
  BY <1>19 DEF ChannelLost, ThreadTypes, RemoveInv
<1> QED BY <1>1, <1>2, <1>3, <1>4, <1>5, <1>6, <1>7, <1>8, <1>9, <1>10, <1>11,
    <1>12, <1>13, <1>14, <1>15, <1>16, <1>17, <1>18, <1>19 DEF Next, Create,
    Remove

\* What a channel owns, when the loop has made or failed to make it.
LEMMA LoopKept ==
  ASSUME ThreadTypes, LoopTypes, ChTypes, RemoveInv, LoopInv, Next
  PROVE  LoopInv'
<1> SUFFICES ASSUME pc = "channels", pc' = "channels" PROVE LoopInv'
  <2>1. pc' = "channels" => pc = "channels"
    BY Zenon DEF Next, Create, Remove, srp_create_target_shared_cpu,
       srp_create_target_channel, srp_create_target_error,
       srp_create_target_fewer, srp_create_target_node, srp_create_target_err,
       srp_add_target_failed, srp_add_target,
       srp_add_target_list, scsi_scan_target,
       srp_add_target_scan_failed, srp_add_target_scan_ok, srp_add_target_oops,
       srp_add_target_live, srp_remove_target_host, srp_remove_target_channels,
       srp_remove_target, srp_handle_qp_err, srp_rport_delete, ChannelLost
  <2> QED BY <2>1 DEF LoopInv
<1>0. rm = "idle" /\ ~listed
  BY DEF RemoveInv
<1>a. cfg' = cfg /\ ch_count' = ch_count /\ ch_count = channels(cfg)
  BY <1>0, Zenon DEF LoopInv, Next, Create, Remove, loop, srp_create_target_shared_cpu,
     srp_create_target_channel, srp_create_target_error,
     srp_create_target_fewer, srp_create_target_node, srp_create_target_err,
     srp_add_target_failed, srp_add_target,
       srp_add_target_list, scsi_scan_target,
     srp_add_target_scan_failed, srp_add_target_scan_ok, srp_add_target_oops,
     srp_add_target_live, srp_remove_target_host, srp_remove_target_channels,
     srp_remove_target, srp_handle_qp_err, srp_rport_delete, ChannelLost
<1>b. \A n : ch_start(n)' = ch_start(n) /\ ch_end(n)' = ch_end(n)
  BY <1>a DEF ch_start, ch_end
<1>1. CASE srp_create_target_shared_cpu
  <2>1. first_cpu' # -1
    BY <1>1, SmallestCpu DEF srp_create_target_shared_cpu, map_cpu, ThreadTypes,
       LoopTypes
  <2>2. UNCHANGED <<node_idx, cpu_idx, ch>> /\ Current' = Current
    BY <1>1, <1>b DEF srp_create_target_shared_cpu, Current
  <2> QED BY <1>a, <1>b, <2>1, <2>2 DEF LoopInv
<1>2. CASE srp_create_target_channel
  <2>1. first_cpu' # -1
    BY <1>2, SmallestCpu DEF srp_create_target_channel, map_cpu, ThreadTypes, LoopTypes
  <2>2. /\ UNCHANGED node_idx /\ Current' = Current + 1
        /\ Current < ch_end(node_idx) /\ Current \in Nat /\ ch_end(node_idx) \in Nat
    BY <1>2, <1>b, AtCurrent DEF srp_create_target_channel, Current, LoopTypes
  <2>3. /\ DOMAIN ch' = DOMAIN ch /\ DOMAIN ch \subseteq Nat
        /\ \A i \in DOMAIN ch : i # Current => ch'[i] = ch[i]
    BY <1>2 DEF srp_create_target_channel, NewChannel, ChTypes
  <2> QED BY <1>a, <1>b, <2>1, <2>2, <2>3 DEF LoopInv
<1>3. CASE srp_create_target_node
  <2>1. /\ node_idx \in Nat /\ node_idx' = node_idx + 1 /\ node_idx' < cfg.nodes
        /\ cpu' = 0 /\ cpu_idx' = 0 /\ UNCHANGED <<ch, first_cpu>> /\ CpusLeft = {}
        /\ cfg.nodes \in Nat
    BY <1>3, Config DEF srp_create_target_node, LoopTypes, ThreadTypes
  <2>2. ch_start(node_idx + 1) = ch_end(node_idx)
    BY DEF ch_start, ch_end
  <2>3. ch_start(node_idx + 1) \in Nat /\ ch_start(node_idx + 1) <= ch_end(node_idx + 1)
    BY <2>1, NodeRange DEF ThreadTypes, LoopTypes
  <2>4. Current' = ch_end(node_idx) /\ Current <= ch_end(node_idx) /\ Current \in Nat
    BY <1>b, <2>1, <2>2, <2>3, AtCurrent DEF Current
  <2>5. \A i \in DOMAIN ch' : i >= Current' => ch'[i].res = {}
    BY <2>1, <2>2, <2>3, <2>4 DEF LoopInv, ChTypes
  <2>6. first_cpu' = -1 => \A u \in DOMAIN cfg.node :
          cfg.node[u] >= node_idx' /\ (cfg.node[u] = node_idx' => u >= cpu')
    BY <2>1, Config DEF LoopInv, CpusLeft, ThreadTypes
  <2> QED BY <1>a, <1>b, <2>1, <2>2, <2>3, <2>4, <2>5, <2>6 DEF LoopInv
<1>4. CASE \E i \in DOMAIN ch : ChannelLost(i)
  <2>1. DOMAIN ch' = DOMAIN ch /\ \A i \in DOMAIN ch : ch'[i].res = ch[i].res
    BY <1>4 DEF ChannelLost, ChTypes
  <2>2. UNCHANGED loop /\ Current' = Current
    BY <1>4, <1>b DEF ChannelLost, loop, Current
  <2> QED BY <1>a, <1>b, <2>1, <2>2 DEF LoopInv, loop
<1>5. CASE srp_handle_qp_err
  BY <1>5, <1>b DEF srp_handle_qp_err, loop, LoopInv, Current
<1> QED BY <1>0, <1>1, <1>2, <1>3, <1>4, <1>5 DEF Next, Create, Remove,
    srp_create_target_error, srp_create_target_fewer, srp_create_target_err,
       srp_add_target_failed, srp_add_target,
       srp_add_target_list, scsi_scan_target,
       srp_add_target_scan_failed, srp_add_target_scan_ok, srp_add_target_oops,
       srp_add_target_live, srp_remove_target_host, srp_remove_target_channels,
       srp_remove_target, srp_rport_delete

\* What the channels own.
LEMMA LeakKept ==
  ASSUME ThreadTypes, LoopTypes, ChTypes, RemoveInv, LoopInv, LeakInv, Next
  PROVE  LeakInv'
<1>1. CASE srp_create_target_channel \/ srp_create_target_error
  <2>1. /\ rm' = "idle" /\ pc' # "failed" /\ DOMAIN ch' = DOMAIN ch
        /\ ch_count' = channels(cfg)
    BY <1>1 DEF srp_create_target_channel, srp_create_target_error, NewChannel,
       RemoveInv, LoopInv, ChTypes
  <2>2. \A i \in DOMAIN ch : i < channels(cfg) /\ i \in Nat /\ channels(cfg) \in Nat
    BY ChannelCount DEF ChTypes, ThreadTypes
  <2> QED BY <2>1, <2>2 DEF LeakInv
<1>2. CASE srp_create_target_fewer
  <2>1. /\ rm' = "idle" /\ pc' # "failed" /\ DOMAIN ch' = DOMAIN ch
        /\ ch_count' = Current
    BY <1>2 DEF srp_create_target_fewer, RemoveInv, ChTypes
  <2>2. \A i \in DOMAIN ch : i >= Current => ch'[i].res = {}
    BY <1>2 DEF srp_create_target_fewer, LoopInv, NoChannel, ChTypes
  <2> QED BY <2>1, <2>2 DEF LeakInv
<1>3. CASE srp_create_target_err
  <2>1. /\ rm' = "idle" /\ DOMAIN ch' = DOMAIN ch /\ ch_count \in Nat
        /\ DOMAIN ch \subseteq Nat
    BY <1>3 DEF srp_create_target_err, RemoveInv, ChTypes, LoopTypes
  <2>2. \A i \in DOMAIN ch : ch'[i].res = {}
    BY <1>3, <2>1 DEF srp_create_target_err, LeakInv, NoChannel
  <2> QED BY <2>1, <2>2 DEF LeakInv
<1>4. CASE srp_remove_target_channels
  <2>1. /\ rm' = "channels_gone" /\ pc' # "failed" /\ DOMAIN ch' = DOMAIN ch
        /\ ch_count \in Nat /\ DOMAIN ch \subseteq Nat /\ UNCHANGED ch_count
    <3>1. rm = "host_gone" /\ rm' = "channels_gone" /\ UNCHANGED <<pc, ch_count>>
      BY <1>4, Zenon DEF srp_remove_target_channels
    <3>2. DOMAIN ch' = DOMAIN ch
      BY <1>4, Zenon DEF srp_remove_target_channels
    <3>3. DOMAIN ch \subseteq Nat
      BY DEF ChTypes
    <3> QED BY <3>1, <3>2, <3>3 DEF RemoveInv, LoopTypes
  <2>2. \A i \in DOMAIN ch : ch'[i].res = IF i < ch_count THEN ch[i].res \ {"cm_id", "qp"}
                                         ELSE ch[i].res
    BY <1>4, Zenon DEF srp_remove_target_channels, ChTypes
  <2>3. \A i \in DOMAIN ch : ch[i].res \subseteq Resources
    BY DEF ChTypes
  <2>4. \A i \in DOMAIN ch : i >= ch_count => ch'[i].res = {}
    BY <2>1, <2>2 DEF LeakInv
  <2>5. \A i \in DOMAIN ch : i < ch_count => ch'[i].res \subseteq {"req_ring"}
    BY <2>1, <2>2, <2>3, Zenon DEF Resources
  <2>6. \A i \in DOMAIN ch : ch'[i].res \subseteq {"req_ring"}
    BY <2>1, <2>4, <2>5
  <2> QED BY <2>1, <2>4, <2>6 DEF LeakInv
<1>5. CASE srp_remove_target
  <2>1. /\ rm' \in {"done", "oops"} /\ rm = "channels_gone" /\ DOMAIN ch' = DOMAIN ch
        /\ ch_count \in Nat /\ DOMAIN ch \subseteq Nat /\ UNCHANGED ch_count
    BY <1>5 DEF srp_remove_target, ChTypes, LoopTypes
  <2>2. \A i \in DOMAIN ch : ch'[i].res = IF i < ch_count THEN ch[i].res \ {"req_ring"}
                                         ELSE ch[i].res
    BY <1>5 DEF srp_remove_target, ChTypes
  <2>3. ASSUME NEW i \in DOMAIN ch PROVE ch'[i].res = {}
    <3>1. CASE i < ch_count
      <4>1. ch[i].res \subseteq {"req_ring"}
        BY <2>1 DEF LeakInv
      <4> QED BY <2>2, <3>1, <4>1, Zenon
    <3>2. CASE i >= ch_count
      BY <2>1, <2>2, <3>2 DEF LeakInv
    <3> QED BY <2>1, <3>1, <3>2
  <2> QED BY <2>1, <2>3 DEF LeakInv
<1>6. CASE \E i \in DOMAIN ch : ChannelLost(i)
  <2>1. /\ DOMAIN ch' = DOMAIN ch /\ \A i \in DOMAIN ch : ch'[i].res = ch[i].res
        /\ UNCHANGED <<pc, rm, ch_count>>
    BY <1>6 DEF ChannelLost, ChTypes
  <2> QED BY <2>1 DEF LeakInv
<1>7. CASE srp_create_target_shared_cpu \/ srp_create_target_node \/
          srp_add_target_failed \/ srp_add_target \/
          srp_add_target_list \/ scsi_scan_target \/
          srp_add_target_scan_failed \/ srp_add_target_scan_ok \/
          srp_add_target_oops \/ srp_add_target_live \/ srp_remove_target_host
          \/ srp_handle_qp_err \/ srp_rport_delete
  BY <1>7 DEF srp_create_target_shared_cpu, srp_create_target_node,
     srp_add_target_failed, srp_add_target,
       srp_add_target_list, scsi_scan_target,
     srp_add_target_scan_failed, srp_add_target_scan_ok, srp_add_target_oops,
     srp_add_target_live, srp_remove_target_host, srp_handle_qp_err,
     srp_rport_delete, srp_queue_remove_work, LeakInv, RemoveInv
<1> QED BY <1>1, <1>2, <1>3, <1>4, <1>5, <1>6, <1>7 DEF Next, Create, Remove

\* The CPUs that the loop has still to see on the current node.
LEMMA CpusShrink ==
  ASSUME cfg \in Configs, cpu \in Nat, CpusLeft # {}, UNCHANGED <<cfg, node_idx>>,
         cpu' = NextCpu + 1
  PROVE  /\ CpusLeft' = CpusLeft \ {NextCpu}
         /\ IsFiniteSet(CpusLeft) /\ Cardinality(CpusLeft) \in Nat
         /\ Cardinality(CpusLeft') = Cardinality(CpusLeft) - 1
         /\ \A u \in DOMAIN cfg.node :
              cfg.node[u] = node_idx /\ u < cpu' => u < cpu \/ u = NextCpu
<1>1. /\ NextCpu \in CpusLeft /\ \A u \in CpusLeft : NextCpu <= u
      /\ NextCpu \in Nat
  BY SmallestCpu
<1>2. DOMAIN cfg.node \subseteq Nat /\ IsFiniteSet(DOMAIN cfg.node)
  BY Config
<1>3. CpusLeft' = CpusLeft \ {NextCpu}
  BY <1>1, <1>2 DEF CpusLeft
<1>4. IsFiniteSet(CpusLeft)
  BY <1>2, FS_Subset DEF CpusLeft
<1>5. \A u \in DOMAIN cfg.node :
        cfg.node[u] = node_idx /\ u < cpu' => u < cpu \/ u = NextCpu
  BY <1>1, <1>2 DEF CpusLeft
<1> QED BY <1>1, <1>3, <1>4, <1>5, FS_RemoveElement, FS_CardinalityType

\* The channels of a node on a regular machine.
LEMMA NodeCpus ==
  ASSUME cfg \in Configs, ch_count = channels(cfg), IsRegular(cfg), NEW n \in Nat,
         n < cfg.nodes
  PROVE  ch_end(n) - ch_start(n)
           <= Cardinality({u \in DOMAIN cfg.node : cfg.node[u] = n})
BY Config DEF IsRegular, ch_start, ch_end

\* The channels before Current are channels of the target.
LEMMA PrefixDomain ==
  ASSUME ThreadTypes, LoopTypes, ChTypes, LoopInv, pc = "channels"
  PROVE  /\ 0..(Current - 1) \subseteq DOMAIN ch
         /\ Current < ch_end(node_idx) => Current \in DOMAIN ch
<1>1. channels(cfg) \in Nat /\ ch_count = channels(cfg)
  BY ChannelCount DEF ThreadTypes, LoopInv
<1>2. DOMAIN ch = 0..(channels(cfg) - 1)
  BY DEF ChTypes
<1> QED BY <1>1, <1>2, AtCurrent

\* CPU 0 is the first one.
LEMMA FirstIsZero ==
  ASSUME ThreadTypes, LoopTypes, LoopInv, FirstInv, IsRegular(cfg), pc = "channels"
  PROVE  /\ node_idx = 0 /\ cpu = 0 => CpusLeft # {} /\ NextCpu = 0
         /\ ~(node_idx = 0 /\ cpu = 0) => first_cpu = 0
<1>1. ASSUME node_idx = 0, cpu = 0 PROVE CpusLeft # {} /\ NextCpu = 0
  <2>1. 0 \in CpusLeft
    BY <1>1, Config DEF CpusLeft, IsRegular, ThreadTypes
  <2> QED BY <2>1, SmallestCpu DEF ThreadTypes
<1> QED BY <1>1 DEF FirstInv

\* The channels before the ones of a node other than the first.
LEMMA LaterNode ==
  ASSUME ThreadTypes, LoopTypes, LoopInv, pc = "channels", node_idx # 0
  PROVE  ch_start(node_idx) > 0
<1>1. /\ node_idx - 1 \in Nat /\ node_idx - 1 < cfg.nodes /\ cfg \in Configs
      /\ ch_count \in Nat /\ cfg.nodes <= ch_count
  BY Config, ChannelCount DEF LoopTypes, ThreadTypes, LoopInv
<1>2. ch_start(node_idx - 1) \in Nat /\ ch_start(node_idx - 1) < ch_end(node_idx - 1)
  BY <1>1, NodeRange
<1>3. ch_end(node_idx - 1) = ch_start(node_idx)
  <2>1. (node_idx - 1) + 1 = node_idx
    BY <1>1 DEF LoopTypes
  <2> QED BY <2>1 DEF ch_start, ch_end
<1>4. ch_start(node_idx) \in Nat
  BY AtCurrent
<1> QED BY <1>2, <1>3, <1>4

\* A CPU is given the channel k, and the loop goes on with the next CPU.
LEMMA MapGrows ==
  ASSUME ThreadTypes, LoopTypes, LoopInv, FirstInv, SeenInv, IsRegular(cfg),
         pc = "channels", CpusLeft # {}, NEW k \in Nat, map_cpu(k),
         UNCHANGED <<cfg, node_idx, ch_count>>,
         k \in ch_start(node_idx)..(ch_end(node_idx) - 1),
         k < Current', Current' \in Nat, Current <= Current'
  PROVE  /\ first_cpu' = 0 /\ cpu' # 0
         /\ \A u \in cfg.possible : mq_map'[u] = 0 \/ mq_map'[u] < Current'
         /\ \A u \in DOMAIN cfg.node :
              cfg.node[u] < node_idx \/ (cfg.node[u] = node_idx /\ u < cpu') =>
                mq_map'[u] \in ch_start(cfg.node[u])..(ch_end(cfg.node[u]) - 1)
<1>1. /\ cfg \in Configs /\ cpu \in Nat /\ mq_map \in [cfg.possible -> Nat]
      /\ Current \in Nat
  BY AtCurrent DEF ThreadTypes, LoopTypes
<1>2. NextCpu \in CpusLeft /\ NextCpu \in cfg.possible /\ NextCpu \in Nat
  BY <1>1, SmallestCpu
<1>3. first_cpu' = 0
  BY FirstIsZero DEF map_cpu, FirstInv
<1>4. cpu' = NextCpu + 1 /\ mq_map' = [mq_map EXCEPT ![NextCpu] = k]
  BY DEF map_cpu
<1>5. \A u \in cfg.possible : mq_map'[u] = IF u = NextCpu THEN k ELSE mq_map[u]
  BY <1>1, <1>4
<1>6. \A u \in cfg.possible : mq_map'[u] = 0 \/ mq_map'[u] < Current'
  BY <1>1, <1>5 DEF SeenInv
<1>7. ASSUME NEW u \in DOMAIN cfg.node,
             cfg.node[u] < node_idx \/ (cfg.node[u] = node_idx /\ u < cpu')
      PROVE  mq_map'[u] \in ch_start(cfg.node[u])..(ch_end(cfg.node[u]) - 1)
  <2>1. u \in cfg.possible
    BY <1>1, Config
  <2>2. CASE u = NextCpu
    BY <1>2, <1>5, <2>1, <2>2 DEF CpusLeft
  <2>3. CASE u # NextCpu
    BY <1>1, <1>4, <1>5, <1>7, <2>1, <2>3, CpusShrink DEF SeenInv
  <2> QED BY <2>2, <2>3
<1> QED BY <1>2, <1>3, <1>4, <1>6, <1>7

\* On a regular machine the loop maps the CPUs to channels that exist.
LEMMA MapKept ==
  ASSUME ThreadTypes, LoopTypes, ChTypes, RemoveInv, LoopInv, MapInv, Next
  PROVE  MapInv'
<1> SUFFICES ASSUME IsRegular(cfg), FirstInv, CpuInv, PrefixInv, SeenInv
             PROVE  FirstInv' /\ CpuInv' /\ PrefixInv' /\ SeenInv'
  <2>1. cfg' = cfg
    BY Zenon DEF Next, Create, Remove, srp_create_target_shared_cpu,
       srp_create_target_channel, srp_create_target_error,
       srp_create_target_fewer, srp_create_target_node, srp_create_target_err,
       srp_add_target_failed, srp_add_target,
       srp_add_target_list, scsi_scan_target,
       srp_add_target_scan_failed, srp_add_target_scan_ok, srp_add_target_oops,
       srp_add_target_live, srp_remove_target_host, srp_remove_target_channels,
       srp_remove_target, srp_handle_qp_err, srp_rport_delete, ChannelLost
  <2> QED BY <2>1 DEF MapInv
<1>1. CASE srp_create_target_shared_cpu
  <2> DEFINE k == spread(ch_start(node_idx), ch_end(node_idx), cpu_idx)
  <2>1. /\ UNCHANGED <<cfg, node_idx, cpu_idx, ch_count, ch, pc>> /\ pc = "channels"
        /\ CpusLeft # {} /\ map_cpu(k) /\ Current >= ch_end(node_idx)
    BY <1>1 DEF srp_create_target_shared_cpu, Current
  <2>2. Current' = Current /\ \A n : ch_start(n)' = ch_start(n) /\ ch_end(n)' = ch_end(n)
    BY <2>1 DEF Current, ch_start, ch_end
  <2>3. /\ Current = ch_end(node_idx) /\ Current \in Nat
        /\ ch_start(node_idx) \in Nat /\ ch_start(node_idx) < ch_end(node_idx)
    BY <2>1, AtCurrent
  <2>4. k = ch_start(node_idx)
    BY <2>3, SpreadRange DEF Current, LoopTypes
  <2>5. k \in Nat /\ k \in ch_start(node_idx)..(ch_end(node_idx) - 1) /\ k < Current'
    BY <2>2, <2>3, <2>4
  <2>6. FirstInv' /\ SeenInv'
    <3> HIDE DEF k
    <3> QED BY <2>1, <2>2, <2>3, <2>5, MapGrows DEF FirstInv, SeenInv
  <2>7. Cardinality(CpusLeft') \in Nat
    BY <2>1, CpusShrink, FS_CardinalityType, FS_RemoveElement
       DEF map_cpu, ThreadTypes, LoopTypes
  <2>8. CpuInv'
    BY <2>2, <2>1, <2>3, <2>7 DEF CpuInv
  <2> QED BY <2>1, <2>2, <2>6, <2>8 DEF PrefixInv
<1>2. CASE srp_create_target_channel
  <2> DEFINE k == spread(ch_start(node_idx), ch_end(node_idx), cpu_idx)
  <2>1. /\ UNCHANGED <<cfg, node_idx, ch_count, pc>> /\ pc = "channels"
        /\ CpusLeft # {} /\ map_cpu(k) /\ Current < ch_end(node_idx)
        /\ ch' = NewChannel(Resources, TRUE) /\ cpu_idx' = cpu_idx + 1
    BY <1>2 DEF srp_create_target_channel
  <2>2. /\ Current \in Nat /\ ch_start(node_idx) \in Nat /\ ch_end(node_idx) \in Nat
        /\ ch_end(node_idx) <= ch_count /\ cpu_idx \in Nat
    BY <2>1, AtCurrent DEF LoopTypes
  <2>3. \A n : ch_start(n)' = ch_start(n) /\ ch_end(n)' = ch_end(n)
    BY <2>1 DEF ch_start, ch_end
  <2>4. Current' = Current + 1
    BY <2>1, <2>2, <2>3 DEF Current
  <2>5. k = Current
    BY <2>1, <2>2, SpreadRange DEF Current
  <2>6. FirstInv' /\ SeenInv'
    <3>1. k \in Nat /\ k \in ch_start(node_idx)..(ch_end(node_idx) - 1) /\ k < Current'
      BY <2>1, <2>2, <2>4, <2>5 DEF Current
    <3> HIDE DEF k
    <3> QED BY <2>1, <2>2, <2>3, <2>4, <3>1, MapGrows DEF FirstInv, SeenInv
  <2>7. CpuInv'
    <3>1. /\ Cardinality(CpusLeft') = Cardinality(CpusLeft) - 1
          /\ Cardinality(CpusLeft) \in Nat
      BY <2>1, CpusShrink DEF map_cpu, ThreadTypes, LoopTypes
    <3> QED BY <2>1, <2>2, <2>3, <2>4, <3>1 DEF CpuInv
  <2>8. PrefixInv'
    <3>1. Current \in DOMAIN ch /\ 0..(Current - 1) \subseteq DOMAIN ch
      BY <2>1, PrefixDomain
    <3>2. ch'[Current].res = Resources /\ \A i \in DOMAIN ch : i # Current => ch'[i] = ch[i]
      BY <2>1, <3>1 DEF NewChannel
    <3>3. ASSUME NEW i \in 0..(Current' - 1) PROVE ch'[i].res = Resources
      <4>1. i = Current \/ i \in 0..(Current - 1)
        BY <2>2, <2>4
      <4>2. CASE i \in 0..(Current - 1)
        BY <2>1, <2>2, <3>1, <3>2, <4>2, Zenon DEF PrefixInv
      <4> QED BY <3>2, <4>1, <4>2
    <3> QED BY <3>3 DEF PrefixInv
  <2> QED BY <2>6, <2>7, <2>8
<1>3. CASE srp_create_target_error
  <2>1. /\ pc = "channels" /\ pc' # "channels" /\ CpusLeft # {} /\ UNCHANGED node_idx
        /\ first_cpu' = (IF first_cpu < 0 THEN NextCpu ELSE first_cpu)
        /\ cpu' = NextCpu + 1
    BY <1>3 DEF srp_create_target_error, map_cpu
  <2>2. first_cpu' = 0 /\ cpu' # 0
    BY <2>1, FirstIsZero, SmallestCpu DEF FirstInv, ThreadTypes
  <2> QED BY <2>1, <2>2 DEF FirstInv, CpuInv, PrefixInv, SeenInv
<1>4. CASE srp_create_target_fewer
  <2>1. /\ pc = "channels" /\ pc' # "channels" /\ UNCHANGED <<node_idx, cpu>>
        /\ ~(node_idx = 0 /\ cpu_idx = 0)
        /\ first_cpu' = (IF first_cpu < 0 THEN NextCpu ELSE first_cpu)
    BY <1>4 DEF srp_create_target_fewer
  <2>2. first_cpu = 0 /\ first_cpu' = 0 /\ ~(node_idx = 0 /\ cpu = 0)
    BY <2>1 DEF FirstInv
  <2> QED BY <2>1, <2>2 DEF FirstInv, CpuInv, PrefixInv, SeenInv
<1>5. CASE srp_create_target_node
  <2>1. /\ pc = "channels" /\ CpusLeft = {} /\ UNCHANGED <<cfg, ch_count, ch, first_cpu>>
        /\ node_idx' = node_idx + 1 /\ cpu' = 0 /\ cpu_idx' = 0 /\ node_idx \in Nat
        /\ \/ node_idx' < cfg.nodes /\ UNCHANGED mq_map /\ pc' = pc
           \/ node_idx' = cfg.nodes /\ pc' = "add"
    BY <1>5, Config DEF srp_create_target_node, LoopTypes, ThreadTypes
  <2>2. first_cpu = 0
    BY <2>1, FirstIsZero
  <2>3. FirstInv'
    BY <2>1, <2>2 DEF FirstInv
  <2>4. CASE pc' # "channels"
    BY <2>3, <2>4 DEF CpuInv, PrefixInv, SeenInv
  <2>5. CASE pc' = "channels"
    <3>1. node_idx' < cfg.nodes /\ UNCHANGED <<mq_map, pc>>
      BY <2>1, <2>5
    <3>2. \A n : ch_start(n)' = ch_start(n) /\ ch_end(n)' = ch_end(n)
      BY <2>1 DEF ch_start, ch_end
    <3>3. Current' = Current /\ Current \in Nat
      <4>1. Current = ch_end(node_idx) /\ Current \in Nat
        BY <2>1, AtCurrent, FS_EmptySet DEF CpuInv
      <4>2. ch_start(node_idx + 1) = ch_end(node_idx)
        BY DEF ch_start, ch_end
      <4> QED BY <2>1, <3>2, <4>1, <4>2 DEF Current
    <3>4. CpuInv'
      <4>1. ch_end(node_idx + 1) - ch_start(node_idx + 1)
              <= Cardinality({u \in DOMAIN cfg.node : cfg.node[u] = node_idx + 1})
        BY <2>1, <3>1, NodeCpus DEF ThreadTypes, LoopInv
      <4>2. CpusLeft' = {u \in DOMAIN cfg.node : cfg.node[u] = node_idx + 1}
        BY <2>1, Config DEF CpusLeft, ThreadTypes
      <4>3. Current' = ch_start(node_idx + 1)
        BY <2>1, <3>2, NodeRange DEF Current, ThreadTypes, LoopTypes
      <4> QED BY <2>1, <3>2, <4>1, <4>2, <4>3 DEF CpuInv
    <3>5. PrefixInv'
      BY <2>1, <3>3 DEF PrefixInv
    <3>6. SeenInv'
      <4>1. ASSUME NEW u \in DOMAIN cfg.node, cfg.node[u] < node_idx'
            PROVE  cfg.node[u] < node_idx \/ (cfg.node[u] = node_idx /\ u < cpu)
        BY <2>1, <4>1, Config DEF CpusLeft, ThreadTypes, LoopTypes
      <4>2. \A u \in DOMAIN cfg.node : u \in Nat
        BY Config DEF ThreadTypes
      <4> QED BY <2>1, <3>1, <3>2, <3>3, <4>1, <4>2 DEF SeenInv
    <3> QED BY <2>3, <3>4, <3>5, <3>6
  <2> QED BY <2>4, <2>5
<1>6. CASE \E i \in DOMAIN ch : ChannelLost(i)
  <2>1. /\ DOMAIN ch' = DOMAIN ch /\ \A i \in DOMAIN ch : ch'[i].res = ch[i].res
        /\ UNCHANGED <<cfg, pc, ch_count, loop>>
    BY <1>6 DEF ChannelLost, ChTypes
  <2>2. Current' = Current /\ \A n : ch_start(n)' = ch_start(n) /\ ch_end(n)' = ch_end(n)
    BY <2>1 DEF Current, ch_start, ch_end, loop
  <2>3. PrefixInv'
    BY <2>1, <2>2, PrefixDomain DEF PrefixInv
  <2>4. FirstInv' /\ CpuInv' /\ SeenInv'
    BY <2>1, <2>2 DEF FirstInv, CpuInv, SeenInv, CpusLeft, loop
  <2> QED BY <2>3, <2>4
<1>7. CASE srp_create_target_err \/ srp_add_target_failed \/ srp_add_target \/
          srp_add_target_list \/ scsi_scan_target \/ srp_add_target_scan_failed \/
           srp_add_target_scan_ok \/ srp_add_target_oops \/ srp_add_target_live
           \/ srp_remove_target_host \/ srp_remove_target_channels \/
           srp_remove_target \/ srp_handle_qp_err \/ srp_rport_delete
  <2>1. UNCHANGED <<cfg, pc, ch_count, loop, ch>> \/ (pc' # "channels" /\ UNCHANGED loop)
    BY <1>7, Zenon DEF srp_create_target_err, srp_add_target_failed, srp_add_target,
       srp_add_target_list, scsi_scan_target, srp_add_target_scan_failed, srp_add_target_scan_ok,
       srp_add_target_oops, srp_add_target_live, srp_remove_target_host,
       srp_remove_target_channels, srp_remove_target, srp_handle_qp_err,
       srp_rport_delete, RemoveInv
  <2> QED BY <2>1, Zenon DEF FirstInv, CpuInv, PrefixInv, SeenInv, Current, ch_start, ch_end,
          CpusLeft, loop
<1> QED BY <1>1, <1>2, <1>3, <1>4, <1>5, <1>6, <1>7 DEF Next, Create, Remove

\* A failed connection or the end of the loop leaves a map of channels that have
\* been created.
LEMMA UsableKept ==
  ASSUME ThreadTypes, LoopTypes, ChTypes, RemoveInv, LoopInv, MapInv, MapUsable, Next
  PROVE  MapUsable'
<1> SUFFICES ASSUME IsRegular(cfg), FirstInv, CpuInv, PrefixInv, SeenInv, Created'
             PROVE  MapUsable'
  <2>1. cfg' = cfg
    BY Zenon DEF Next, Create, Remove, srp_create_target_shared_cpu,
       srp_create_target_channel, srp_create_target_error,
       srp_create_target_fewer, srp_create_target_node, srp_create_target_err,
       srp_add_target_failed, srp_add_target,
       srp_add_target_list, scsi_scan_target,
       srp_add_target_scan_failed, srp_add_target_scan_ok, srp_add_target_oops,
       srp_add_target_live, srp_remove_target_host, srp_remove_target_channels,
       srp_remove_target, srp_handle_qp_err, srp_rport_delete, ChannelLost
  <2> QED BY <2>1 DEF MapInv, MapUsable
<1>1. CASE srp_create_target_fewer
  <2>1. /\ pc = "channels" /\ CpusLeft # {} /\ Current < ch_end(node_idx)
        /\ ~(node_idx = 0 /\ cpu_idx = 0) /\ UNCHANGED <<cfg, node_idx>>
        /\ ch_count' = Current /\ ch' = [ch EXCEPT ![Current] = NoChannel]
    BY <1>1 DEF srp_create_target_fewer
  <2>2. first_cpu = 0
    BY <2>1 DEF FirstInv
  <2>3. mq_map' = FillMap([mq_map EXCEPT ![NextCpu] = 0], 0)
    BY <1>1, <2>2 DEF srp_create_target_fewer
  <2>4. \A u \in cfg.possible : mq_map'[u] \in {0, mq_map[u]}
    BY <2>3 DEF FillMap, LoopTypes
  <2>5. Current \in Nat /\ Current > 0
    BY <2>1, AtCurrent, LaterNode DEF Current, LoopTypes
  <2>6. \A u \in cfg.possible : mq_map'[u] < ch_count'
    BY <2>1, <2>4, <2>5 DEF SeenInv
  <2>7. \A i \in 0..(ch_count' - 1) : ch'[i].res = Resources
    BY <2>1, <2>5, PrefixDomain DEF PrefixInv
  <2>8. node_idx' # cfg.nodes
    BY <2>1, Config DEF LoopInv, ThreadTypes, LoopTypes
  <2> QED BY <2>1, <2>6, <2>7, <2>8 DEF MapUsable
<1>2. CASE srp_create_target_node
  <2>1. /\ pc = "channels" /\ CpusLeft = {} /\ UNCHANGED <<cfg, ch_count, ch>>
        /\ node_idx' = node_idx + 1 /\ node_idx \in Nat /\ node_idx' = cfg.nodes
        /\ mq_map' = FillMap(mq_map, first_cpu)
    BY <1>2 DEF srp_create_target_node, LoopTypes, Created
  <2>2. first_cpu = 0
    BY <2>1, FirstIsZero
  <2>3. \A u \in cfg.possible : mq_map'[u] = mq_map[u]
    BY <2>1, <2>2 DEF FillMap
  <2>4. Current = ch_count /\ ch_count \in Nat /\ ch_count > 0
    <3>1. Current = ch_end(node_idx)
      BY <2>1, AtCurrent, FS_EmptySet DEF CpuInv
    <3>2. ch_end(node_idx) = ch_count
      BY <2>1, NodeRange DEF ThreadTypes, LoopTypes
    <3> QED BY <2>1, <3>1, <3>2, AtCurrent DEF LoopTypes
  <2>5. \A u \in cfg.possible : mq_map'[u] < ch_count'
    BY <2>1, <2>3, <2>4 DEF SeenInv
  <2>6. \A i \in 0..(ch_count' - 1) : ch'[i].res = Resources
    BY <2>1, <2>4 DEF PrefixInv
  <2>7. \A n : ch_start(n)' = ch_start(n) /\ ch_end(n)' = ch_end(n)
    BY <2>1 DEF ch_start, ch_end
  <2>8. ASSUME NEW u \in DOMAIN cfg.node
        PROVE  mq_map'[u] \in ch_start(cfg.node[u])..(ch_end(cfg.node[u]) - 1)
    <3>1. cfg.node[u] < node_idx \/ (cfg.node[u] = node_idx /\ u < cpu)
      BY <2>1, Config DEF CpusLeft, ThreadTypes, LoopTypes
    <3>2. u \in cfg.possible
      BY Config DEF ThreadTypes
    <3> QED BY <2>1, <2>3, <3>1, <3>2 DEF SeenInv
  <2> QED BY <2>1, <2>5, <2>6, <2>7, <2>8 DEF MapUsable
<1>3. CASE srp_create_target_shared_cpu \/ srp_create_target_channel
           \/ srp_create_target_error \/ srp_create_target_err \/ srp_add_target_failed
  BY <1>3, Zenon DEF srp_create_target_shared_cpu, srp_create_target_channel,
     srp_create_target_error, srp_create_target_err, srp_add_target_failed, Created
<1>4. CASE srp_remove_target_channels \/ srp_remove_target
  <2>1. /\ UNCHANGED <<cfg, pc, ch_count, loop>> /\ rm' \in {"channels_gone", "done", "oops"}
    BY <1>4, Zenon DEF srp_remove_target_channels, srp_remove_target
  <2>2. \A n : ch_start(n)' = ch_start(n) /\ ch_end(n)' = ch_end(n)
    BY <2>1 DEF ch_start, ch_end
  <2> QED BY <2>1, <2>2 DEF MapUsable, Created, loop
<1>5. CASE \E i \in DOMAIN ch : ChannelLost(i)
  <2>1. /\ DOMAIN ch' = DOMAIN ch /\ \A i \in DOMAIN ch : ch'[i].res = ch[i].res
        /\ UNCHANGED <<cfg, pc, ch_count, loop, rm>>
    BY <1>5 DEF ChannelLost, ChTypes
  <2>2. \A n : ch_start(n)' = ch_start(n) /\ ch_end(n)' = ch_end(n)
    BY <2>1 DEF ch_start, ch_end
  <2>3. 0..(ch_count - 1) \subseteq DOMAIN ch
    BY ChannelCount DEF ChTypes, LoopTypes, ThreadTypes
  <2> QED BY <2>1, <2>2, <2>3 DEF MapUsable, Created, loop
<1>6. CASE srp_add_target \/
          srp_add_target_list \/ scsi_scan_target \/ srp_add_target_scan_failed \/
           srp_add_target_scan_ok \/ srp_add_target_oops \/ srp_add_target_live
           \/ srp_remove_target_host \/ srp_handle_qp_err \/ srp_rport_delete
  <2>1. UNCHANGED <<cfg, ch_count, loop, ch>> /\ Created
    BY <1>6 DEF srp_add_target,
       srp_add_target_list, scsi_scan_target, srp_add_target_scan_failed,
       srp_add_target_scan_ok, srp_add_target_oops, srp_add_target_live,
       srp_remove_target_host, srp_handle_qp_err, srp_rport_delete, Created
  <2>2. rm' \notin {"channels_gone", "done", "oops"} => rm \notin {"channels_gone", "done", "oops"}
    BY <1>6 DEF srp_add_target,
       srp_add_target_list, scsi_scan_target, srp_add_target_scan_failed,
       srp_add_target_scan_ok, srp_add_target_oops, srp_add_target_live,
       srp_remove_target_host, srp_handle_qp_err, srp_rport_delete,
       srp_queue_remove_work, RemoveInv
  <2>3. \A n : ch_start(n)' = ch_start(n) /\ ch_end(n)' = ch_end(n)
    BY <2>1 DEF ch_start, ch_end
  <2> QED BY <2>1, <2>2, <2>3 DEF MapUsable, loop
<1> QED BY <1>1, <1>2, <1>3, <1>4, <1>5, <1>6 DEF Next, Create, Remove

\* The inductive invariant.
IInv ==
  /\ ThreadTypes /\ FlagTypes /\ LoopTypes /\ ChTypes
  /\ RemoveInv /\ LoopInv /\ LeakInv /\ MapInv /\ MapUsable

\* The target that srp_create_target() has allocated.
LEMMA InitInv == Init => IInv
<1> SUFFICES ASSUME Init PROVE IInv
  OBVIOUS
<1>1. ThreadTypes /\ RemoveInv
  BY DEF Init, ThreadTypes, RemoveInv
<1>2. FlagTypes
  BY Zenon DEF Init, FlagTypes
<1>3. /\ cfg \in Configs /\ ch_count = channels(cfg) /\ channels(cfg) \in Nat \ {0}
      /\ cfg.nodes \in Nat \ {0} /\ cfg.possible \subseteq Nat
  BY Config, ChannelCount DEF Init
<1>4. LoopTypes
  BY <1>3 DEF Init, LoopTypes
<1>5. ChTypes /\ LeakInv
  BY <1>3 DEF Init, ChTypes, LeakInv, NoChannel
<1>6. /\ ch_start(0) = 0 /\ ch_end(0) \in Nat /\ Current = 0
  BY <1>3, NodeRange DEF Init, Current
<1>7. LoopInv
  <2>1. \A u \in DOMAIN cfg.node : cfg.node[u] >= 0 /\ u >= 0
    BY <1>3, Config
  <2> QED BY <1>3, <1>6, <2>1 DEF Init, LoopInv, NoChannel
<1>8. IsRegular(cfg) => CpuInv
  <2>1. CpusLeft = {u \in DOMAIN cfg.node : cfg.node[u] = 0}
    BY <1>3, Config DEF Init, CpusLeft
  <2> QED BY <1>3, <1>6, <2>1, NodeCpus DEF Init, CpuInv
<1>9. FirstInv /\ PrefixInv /\ SeenInv
  BY <1>3, <1>6, Config DEF Init, FirstInv, PrefixInv, SeenInv
<1> QED BY <1>1, <1>2, <1>4, <1>5, <1>7, <1>8, <1>9 DEF Init, IInv, MapInv, MapUsable,
       Created

\* Every step of the creation, the scan and the removal keeps the invariant.
LEMMA NextInv == ASSUME IInv, [Next]_vars PROVE IInv'
<1>1. CASE Next
  <2>1. ThreadTypes' /\ FlagTypes' /\ RemoveInv'
    BY <1>1, ThreadTypesKept, FlagTypesKept, RemoveKept DEF IInv
  <2>2. LoopTypes' /\ ChTypes'
    BY <1>1, LoopTypesKept, ChTypesKept DEF IInv
  <2>3. LoopInv' /\ LeakInv'
    BY <1>1, LoopKept, LeakKept DEF IInv
  <2>4. MapInv' /\ MapUsable'
    BY <1>1, MapKept, UsableKept DEF IInv
  <2> QED BY <2>1, <2>2, <2>3, <2>4 DEF IInv
<1>2. CASE UNCHANGED vars
  <2>1. ThreadTypes' /\ LoopTypes' /\ ChTypes' /\ RemoveInv' /\ LeakInv'
    BY <1>2, Zenon DEF vars, loop, IInv, ThreadTypes, LoopTypes, ChTypes,
       RemoveInv, LeakInv
  <2>2. FlagTypes'
    BY <1>2, Zenon DEF vars, IInv, FlagTypes
  <2>3. Current' = Current /\ \A n : ch_start(n)' = ch_start(n) /\ ch_end(n)' = ch_end(n)
    BY <1>2 DEF vars, loop, Current, ch_start, ch_end
  <2>4. LoopInv' /\ MapInv' /\ MapUsable'
    BY <1>2, <2>3, Zenon DEF vars, loop, IInv, LoopInv, MapInv, FirstInv, CpuInv,
       CpusLeft, PrefixInv, SeenInv, MapUsable, Created
  <2> QED BY <2>1, <2>2, <2>4 DEF IInv
<1> QED BY <1>1, <1>2

\* The invariant holds in every state, for all machines and parameters.
THEOREM TargetInvariance == Spec => []IInv
BY InitInv, NextInv, PTL DEF Spec

\* The variables keep their types; srp_create_target() does not run past
\* target->ch[] and target->mq_map[].
THEOREM TargetTypes == Spec => []TypeOK
<1>1. IInv => TypeOK
  BY DEF IInv, ThreadTypes, FlagTypes, LoopTypes, ChTypes, TypeOK
<1> QED BY <1>1, TargetInvariance, PTL

\* On every regular machine, and for all parameters, each CPU is mapped to a
\* channel of its node that exists, or to one that exists if the connections of
\* some channels failed.
THEOREM CpuMapUsable == Spec => []MapUsable
<1>1. IInv => MapUsable
  BY DEF IInv
<1> QED BY <1>1, TargetInvariance, PTL

\* Neither a failed srp_create_target() nor srp_remove_target() leaks a resource
\* of a channel, also if target->ch_count was reduced in between.
THEOREM NoResourceLeaked == Spec => []NothingLeaked
<1>1. IInv => NothingLeaked
  BY DEF IInv, LeakInv, RemoveInv, NothingLeaked
<1> QED BY <1>1, TargetInvariance, PTL

\* A target that is being removed stays so, and is removed once.
THEOREM RemovalIsFinal == Spec => RemovedIsFinal
<1>1. ASSUME IInv, [Next]_vars
      PROVE  [/\ state = "removed" => state' = "removed"
              /\ rm # "idle" => rm' # "queued" \/ rm = "queued"]_vars
  <2>1. CASE Next
    BY <1>1, <2>1, Zenon DEF Next, Create, Remove, srp_create_target_shared_cpu,
       srp_create_target_channel, srp_create_target_error,
       srp_create_target_fewer, srp_create_target_node, srp_create_target_err,
       srp_add_target_failed, srp_add_target,
       srp_add_target_list, scsi_scan_target,
       srp_add_target_scan_failed, srp_add_target_scan_ok, srp_add_target_oops,
       srp_add_target_live, srp_remove_target_host, srp_remove_target_channels,
       srp_remove_target, srp_handle_qp_err, srp_rport_delete, ChannelLost,
       srp_queue_remove_work, IInv, ThreadTypes, RemoveInv
  <2>2. CASE UNCHANGED vars
    BY <2>2
  <2> QED BY <1>1, <2>1, <2>2
<1> QED BY <1>1, TargetInvariance, PTL DEF Spec, RemovedIsFinal
====
