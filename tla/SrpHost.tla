------------------------------- MODULE SrpHost -------------------------------
(***************************************************************************)
(* The targets of an HCA, from src/drivers/infiniband/ulp/srp/ib_srp.c:    *)
(* srp_add_one() makes an SRP host of each port of the HCA, a write to the *)
(* add_target attribute of a host logs in to a target (srp_create_target), *)
(* a target is removed by a work of srp_remove_wq (srp_remove_target), and *)
(* srp_remove_one() removes all targets and hosts of an HCA that goes      *)
(* away.  A target uses its host until its removal is complete, and the    *)
(* memory of the target is that of its Scsi_Host, which is counted.        *)
(*                                                                         *)
(* A target is also the thread that creates it.  What happens between the  *)
(* login and the scan is in SrpLogin and SrpTarget, the removal of a port  *)
(* from the SRP transport layer in SrpRport.                               *)
(***************************************************************************)
EXTENDS Integers, FiniteSets

CONSTANTS
  Ports,     \* the ports of the HCA; srp_remove_one() takes them in order
  Targets,   \* the writes to add_target
  Ids,       \* what id_ext, ioc_guid and initiator_ext identify
  Logins,    \* which targets the writes are for: functions to port and id
  Deleters,  \* who calls srp_rport_delete(), a subset of DeleterKinds
  Nobody

\* rport_dev_loss_timedout() runs on system_long_wq, which srp_remove_one()
\* flushes; store_srp_rport_delete() runs in the process that writes "delete".
DeleterKinds == {"dev_loss", "sysfs"}

ASSUME HostConstants ==
  /\ Ports \subseteq Nat /\ IsFiniteSet(Ports)
  /\ Logins \subseteq [Targets -> Ports \X Ids]
  /\ Deleters \subseteq DeleterKinds
  /\ Nobody \notin Targets \cup DeleterKinds

VARIABLES
  hca,       \* "absent", "present", "removing" or "gone"
  host,      \* per port, the srp_host
  mutex,     \* per port, the owner of add_target_mutex
  pc,        \* per target, where srp_create_target() is
  port, id,  \* per target, its host and what it logs in to
  refs,      \* per target, the references to its Scsi_Host
  channels,  \* the targets that have channels
  listed,    \* the targets on the target_list of their host
  state,     \* per target, target->state
  deleter,   \* per target, who is about to queue remove_work
  work       \* per target, remove_work

creation == <<pc, port, id>>
removal == <<state, deleter, work>>
vars == <<hca, host, mutex, creation, refs, channels, listed, removal>>

Init ==
  /\ hca = "absent"
  /\ host = [p \in Ports |-> "none"]
  /\ mutex = [p \in Ports |-> Nobody]
  /\ pc = [t \in Targets |-> "new"]
  /\ \E l \in Logins : /\ port = [t \in Targets |-> l[t][1]]
                       /\ id = [t \in Targets |-> l[t][2]]
  /\ refs = [t \in Targets |-> 0]
  /\ channels = {} /\ listed = {}
  /\ state = [t \in Targets |-> "none"]
  /\ deleter = [t \in Targets |-> Nobody]
  /\ work = [t \in Targets |-> "idle"]

\* srp_add_one() and srp_add_port(); a port that fails is left out.
srp_add_one ==
  /\ hca = "absent" /\ hca' = "present"
  /\ \E up \in SUBSET Ports : host' = [p \in Ports |-> IF p \in up THEN "up" ELSE "none"]
  /\ UNCHANGED <<mutex, creation, refs, channels, listed, removal>>
-----------------------------------------------------------------------------
(* srp_create_target().                                                    *)

\* Mutant: no reference for srp_create_target() itself.
srp_create_target_one_ref(t) ==
  /\ pc[t] = "new" /\ host[port[t]] = "up"
  /\ refs' = [refs EXCEPT ![t] = 1]
  /\ pc' = [pc EXCEPT ![t] = "mutex"]
  /\ UNCHANGED <<hca, host, mutex, port, id, channels, listed, removal>>

\* A write begins: scsi_host_alloc() and scsi_host_get().
srp_create_target(t) ==
  /\ pc[t] = "new" /\ host[port[t]] = "up"
  /\ refs' = [refs EXCEPT ![t] = 2]
  /\ pc' = [pc EXCEPT ![t] = "mutex"]
  /\ UNCHANGED <<hca, host, mutex, port, id, channels, listed, removal>>

add_target_mutex(t) ==
  /\ pc[t] = "mutex" /\ mutex[port[t]] = Nobody
  /\ mutex' = [mutex EXCEPT ![port[t]] = t]
  /\ pc' = [pc EXCEPT ![t] = "check"]
  /\ UNCHANGED <<hca, host, port, id, refs, channels, listed, removal>>

Duplicates(t) == {u \in listed : u # t /\ port[u] = port[t] /\ id[u] = id[t]}

\* Mutant: a target that is being removed does not count.
srp_conn_unique_live(t) ==
  /\ pc[t] = "check"
  /\ pc' = [pc EXCEPT ![t] = IF \E u \in Duplicates(t) : state[u] # "removed"
                             THEN "out" ELSE "connect"]
  /\ UNCHANGED <<hca, host, mutex, port, id, refs, channels, listed, removal>>

srp_conn_unique(t) ==
  /\ pc[t] = "check"
  /\ pc' = [pc EXCEPT ![t] = IF Duplicates(t) # {} THEN "out" ELSE "connect"]
  /\ UNCHANGED <<hca, host, mutex, port, id, refs, channels, listed, removal>>

\* srp_parse_options(), ib_query_gid() or an allocation fails.
srp_create_target_refused(t) ==
  /\ pc[t] \in {"check", "connect"} /\ t \notin channels
  /\ pc' = [pc EXCEPT ![t] = "out"]
  /\ UNCHANGED <<hca, host, mutex, port, id, refs, channels, listed, removal>>

\* The channels log in; one that fails leads to the error path.
srp_connect_ch(t) ==
  /\ pc[t] = "connect" /\ t \notin channels
  /\ channels' = channels \cup {t}
  /\ \E next \in {"add", "err_disconnect"} : pc' = [pc EXCEPT ![t] = next]
  /\ UNCHANGED <<hca, host, mutex, port, id, refs, listed, removal>>

\* srp_add_target() up to the scan, or its error.
srp_add_target(t) ==
  /\ pc[t] = "add"
  /\ state' = [state EXCEPT ![t] = "scanning"]
  /\ \/ pc' = [pc EXCEPT ![t] = "scan"] /\ listed' = listed \cup {t}
     \/ pc' = [pc EXCEPT ![t] = "err_disconnect"] /\ UNCHANGED listed
  /\ UNCHANGED <<hca, host, mutex, port, id, refs, channels, deleter, work>>

srp_create_target_err(t) ==
  /\ pc[t] = "err_disconnect"
  /\ channels' = channels \ {t}
  /\ pc' = [pc EXCEPT ![t] = "out"]
  /\ UNCHANGED <<hca, host, mutex, port, id, refs, listed, removal>>

\* srp_queue_remove_work(), for the callers that srp_remove_one() waits for.
srp_queue_remove_work(ts) ==
  /\ state' = [t \in Targets |-> IF t \in ts THEN "removed" ELSE state[t]]
  /\ work' = [t \in Targets |-> IF t \in ts /\ state[t] # "removed"
                                THEN "queued" ELSE work[t]]
  /\ UNCHANGED deleter

scsi_scan_target(t) ==
  /\ pc[t] = "scan"
  /\ pc' = [pc EXCEPT ![t] = "scanned"]
  /\ UNCHANGED <<hca, host, mutex, port, id, refs, channels, listed, removal>>

\* The scan has failed, or the target is live unless it was removed.
srp_add_target_scanned(t) ==
  /\ pc[t] = "scanned"
  /\ pc' = [pc EXCEPT ![t] = "out"]
  /\ \/ srp_queue_remove_work({t})
     \/ /\ state' = [state EXCEPT ![t] = IF @ = "scanning" THEN "live" ELSE @]
        /\ UNCHANGED <<deleter, work>>
  /\ UNCHANGED <<hca, host, mutex, port, id, refs, channels, listed>>

\* Mutant: add_target_mutex is not released on the way out of an error.
scsi_host_put_locked(t) ==
  /\ pc[t] = "out"
  /\ mutex' = [mutex EXCEPT ![port[t]] = IF t \in listed THEN Nobody ELSE @]
  /\ refs' = [refs EXCEPT ![t] = @ - 1]
  /\ pc' = [pc EXCEPT ![t] = "done"]
  /\ UNCHANGED <<hca, host, port, id, channels, listed, removal>>

\* The end of srp_create_target(), with and without error.
scsi_host_put(t) ==
  /\ pc[t] = "out"
  /\ mutex' = [mutex EXCEPT ![port[t]] = Nobody]
  /\ refs' = [refs EXCEPT ![t] = @ - 1]
  /\ pc' = [pc EXCEPT ![t] = "done"]
  /\ UNCHANGED <<hca, host, port, id, channels, listed, removal>>
-----------------------------------------------------------------------------
(* srp_rport_delete(), srp_remove_work() and srp_remove_target().          *)

\* srp_queue_remove_work() up to the unlock ...
srp_rport_delete(t, d) ==
  /\ t \in listed /\ state[t] # "removed" /\ d \in Deleters
  /\ state' = [state EXCEPT ![t] = "removed"]
  /\ deleter' = [deleter EXCEPT ![t] = d]
  /\ UNCHANGED <<hca, host, mutex, creation, refs, channels, listed, work>>

\* ... and its queue_work().
queue_remove_work(t) ==
  /\ deleter[t] # Nobody
  /\ deleter' = [deleter EXCEPT ![t] = Nobody]
  /\ work' = [work EXCEPT ![t] = "queued"]
  /\ UNCHANGED <<hca, host, mutex, creation, refs, channels, listed, state>>

\* scsi_remove_host() waits for the scan; then the channels are freed.
srp_remove_target_channels(t) ==
  /\ work[t] = "queued" /\ pc[t] # "scan"
  /\ work' = [work EXCEPT ![t] = "channels_gone"]
  /\ channels' = channels \ {t}
  /\ UNCHANGED <<hca, host, mutex, creation, refs, listed, state, deleter>>

\* Mutant: the reference of srp_create_target() is put here as well.
srp_remove_target_put_twice(t) ==
  /\ work[t] = "channels_gone"
  /\ work' = [work EXCEPT ![t] = "done"]
  /\ listed' = listed \ {t}
  /\ refs' = [refs EXCEPT ![t] = @ - 2]
  /\ UNCHANGED <<hca, host, mutex, creation, channels, state, deleter>>

\* The target leaves the list of its host and is put.
srp_remove_target(t) ==
  /\ work[t] = "channels_gone"
  /\ work' = [work EXCEPT ![t] = "done"]
  /\ listed' = listed \ {t}
  /\ refs' = [refs EXCEPT ![t] = @ - 1]
  /\ UNCHANGED <<hca, host, mutex, creation, channels, state, deleter>>
-----------------------------------------------------------------------------
(* srp_remove_one().                                                       *)

Of(p) == {t \in Targets : port[t] = p}
Writing(t) == pc[t] \notin {"new", "done"}

srp_remove_one ==
  /\ hca = "present" /\ hca' = "removing"
  /\ UNCHANGED <<host, mutex, creation, refs, channels, listed, removal>>

\* Host p is the next one of dev_list.
Next1(p, s) ==
  /\ hca = "removing" /\ host[p] = s
  /\ \A q \in Ports : q < p => host[q] \in {"none", "freed"}

HostStep(p, s) ==
  host' = [host EXCEPT ![p] = s] /\ UNCHANGED <<hca, mutex, creation, refs, channels>>

\* device_unregister(): no write can begin any more.
device_unregister(p) ==
  Next1(p, "up") /\ HostStep(p, "closing") /\ UNCHANGED <<listed, removal>>

\* The attribute is gone when no write is under way; all targets are removed.
remove_all(p) ==
  /\ Next1(p, "closing") /\ \A t \in Of(p) : ~Writing(t)
  /\ srp_queue_remove_work(listed \cap Of(p))
  /\ HostStep(p, "flush_long") /\ UNCHANGED listed

\* flush_workqueue(system_long_wq).
flush_system_long_wq(p) ==
  /\ Next1(p, "flush_long") /\ \A t \in Targets : deleter[t] # "dev_loss"
  /\ HostStep(p, "flush_remove") /\ UNCHANGED <<listed, removal>>

\* flush_workqueue(srp_remove_wq), then the host is freed.
flush_srp_remove_wq(p) ==
  /\ Next1(p, "flush_remove")
  /\ \A t \in Targets : work[t] \notin {"queued", "channels_gone"}
  /\ HostStep(p, "freed") /\ UNCHANGED <<listed, removal>>

\* The memory region and the protection domain of the HCA are freed.
srp_remove_one_done ==
  /\ hca = "removing" /\ \A p \in Ports : host[p] \in {"none", "freed"}
  /\ hca' = "gone"
  /\ UNCHANGED <<host, mutex, creation, refs, channels, listed, removal>>
-----------------------------------------------------------------------------
CreateStep(t) ==
  \/ add_target_mutex(t) \/ srp_conn_unique(t) \/ srp_create_target_refused(t)
  \/ srp_connect_ch(t) \/ srp_add_target(t) \/ srp_create_target_err(t)
  \/ scsi_scan_target(t) \/ srp_add_target_scanned(t) \/ scsi_host_put(t)

RemoveStep(t) == srp_remove_target_channels(t) \/ srp_remove_target(t)

RemoveOneStep ==
  \/ \E p \in Ports : \/ device_unregister(p) \/ remove_all(p)
                      \/ flush_system_long_wq(p) \/ flush_srp_remove_wq(p)
  \/ srp_remove_one_done

Next ==
  \/ srp_add_one \/ srp_remove_one \/ RemoveOneStep
  \/ \E t \in Targets :
       \/ srp_create_target(t) \/ CreateStep(t)
       \/ \E d \in Deleters : srp_rport_delete(t, d)
       \/ queue_remove_work(t) \/ RemoveStep(t)

Spec == Init /\ [][Next]_vars

(***************************************************************************)
(* The threads run, the works are executed and a write that has begun goes *)
(* on: logins and scans end (WaitsEnd of SrpLogin, timeouts of the SCSI    *)
(* core), and add_target_mutex is granted in the order of the requests.    *)
(***************************************************************************)
FairSpec ==
  /\ Spec
  /\ WF_vars(RemoveOneStep)
  /\ \A t \in Targets :
       /\ WF_vars(CreateStep(t)) /\ SF_vars(add_target_mutex(t))
       /\ WF_vars(queue_remove_work(t)) /\ WF_vars(RemoveStep(t))
-----------------------------------------------------------------------------
\* The values the variables may have.
TypeOK ==
  /\ hca \in {"absent", "present", "removing", "gone"}
  /\ host \in [Ports -> {"none", "up", "closing", "flush_long", "flush_remove", "freed"}]
  /\ mutex \in [Ports -> Targets \cup {Nobody}]
  /\ pc \in [Targets -> {"new", "mutex", "check", "connect", "add", "scan",
                         "scanned", "err_disconnect", "out", "done"}]
  /\ port \in [Targets -> Ports] /\ id \in [Targets -> Ids]
  /\ refs \in [Targets -> 0..2]
  /\ channels \subseteq Targets /\ listed \subseteq Targets
  /\ state \in [Targets -> {"none", "scanning", "live", "removed"}]
  /\ deleter \in [Targets -> DeleterKinds \cup {Nobody}]
  /\ work \in [Targets -> {"idle", "queued", "channels_gone", "done"}]

(***************************************************************************)
(* Two targets of a host that are connected at the same time differ in     *)
(* what they log in to, also if one of them is being created or removed:   *)
(* otherwise the second login would close the connections of the first.    *)
(***************************************************************************)
OneLogin ==
  \A t, u \in channels : t # u /\ port[t] = port[u] => id[t] # id[u]

\* Somebody has a pointer to target t and will follow it.
Used(t) == \/ Writing(t) \/ t \in listed \/ deleter[t] # Nobody
           \/ work[t] \in {"queued", "channels_gone"}

(***************************************************************************)
(* Nobody uses memory that is freed: neither a host that srp_remove_one()  *)
(* has freed nor a Scsi_Host without references is that of a target on a   *)
(* list, in creation or with a removal that is queued or about to be       *)
(* queued; and an HCA that is gone has no channels.                        *)
(***************************************************************************)
NoUseAfterFree ==
  /\ \A t \in Targets : Used(t) => host[port[t]] # "freed" /\ refs[t] > 0
  /\ hca = "gone" => channels = {}

(***************************************************************************)
(* srp_remove_one() returns: the writes to add_target, the removals and    *)
(* the two flushes do not wait for each other in a circle.                 *)
(***************************************************************************)
HcaRemovalEnds == hca = "removing" ~> hca = "gone"
-----------------------------------------------------------------------------
(* The inductive invariant behind OneLogin and NoUseAfterFree.             *)

Locked == {"check", "connect", "add", "scan", "scanned", "err_disconnect", "out"}

\* Whoever is past add_target_mutex owns it; a target has channels while it is
\* being added or on the list; and what srp_conn_unique() has found stays true.
LoginInv ==
  \A t \in Targets :
    /\ pc[t] \in Locked => mutex[port[t]] = t
    /\ t \in channels \ listed => pc[t] \in {"add", "err_disconnect"}
    /\ pc[t] = "connect" => Duplicates(t) = {}

\* How the steps of a removal, the list and the target's state go together.
RemovalInv ==
  \A t \in Targets :
    /\ pc[t] \in {"new", "mutex", "check", "connect", "add"} =>
         state[t] = "none" /\ t \notin listed
    /\ pc[t] = "err_disconnect" => state[t] # "removed" /\ t \notin listed
    /\ pc[t] \in {"scan", "scanned"} => t \in listed \/ work[t] = "done"
    /\ deleter[t] # Nobody => t \in listed /\ state[t] = "removed" /\ work[t] = "idle"
    /\ work[t] # "idle" => state[t] = "removed"
    /\ work[t] \in {"queued", "channels_gone"} => t \in listed
    /\ work[t] \in {"channels_gone", "done"} => t \notin channels
    /\ work[t] = "done" => t \notin listed
    /\ t \in listed /\ state[t] = "removed" =>
         deleter[t] # Nobody \/ work[t] \in {"queued", "channels_gone"}

\* One reference of the creation, one that the removal puts.
RefsInv ==
  \A t \in Targets :
    refs[t] = IF pc[t] = "new" THEN 0
              ELSE (IF pc[t] = "done" THEN 0 ELSE 1) + (IF work[t] = "done" THEN 0 ELSE 1)

\* What each stage of srp_remove_one() has established stays established.
HostInv ==
  /\ hca = "absent" => /\ \A t \in Targets : pc[t] = "new"
                       /\ \A p \in Ports : host[p] = "none"
  /\ hca = "gone" => \A p \in Ports : host[p] \in {"none", "freed"}
  /\ \A t \in Targets :
       /\ pc[t] # "new" => host[port[t]] # "none"
       /\ Writing(t) => host[port[t]] \in {"up", "closing"}
       /\ t \in listed /\ host[port[t]] \in {"flush_long", "flush_remove"} =>
            state[t] = "removed"

\* The same for the flushes, which wait for no process that writes "delete".
FlushInv ==
  \A t \in Targets :
    /\ deleter[t] # "sysfs"
    /\ t \in listed /\ host[port[t]] = "flush_remove" => deleter[t] = Nobody
    /\ t \in listed => host[port[t]] # "freed"

IInv ==
  /\ TypeOK /\ OneLogin /\ LoginInv /\ RemovalInv /\ RefsInv /\ HostInv
  /\ "sysfs" \notin Deleters => FlushInv
=============================================================================
