--------------------------- MODULE SrpHostProofs ---------------------------
(***************************************************************************)
(* Proofs about SrpHost, for any number of ports of the HCA and of writes  *)
(* to add_target.  The inductive invariant is IInv of SrpHost: LoginInv    *)
(* carries OneLogin from srp_conn_unique() to the login, RemovalInv and    *)
(* RefsInv say who still refers to a target, HostInv and FlushInv what the *)
(* stages of srp_remove_one() have established.                            *)
(***************************************************************************)
EXTENDS SrpHost, TLAPS

-----------------------------------------------------------------------------
(* A write to add_target: srp_create_target() and srp_add_target().        *)
LEMMA CreateInv ==
  ASSUME IInv, NEW t \in Targets,
         srp_create_target(t) \/ CreateStep(t)
  PROVE  IInv'
<1> USE DEF IInv, TypeOK, creation, removal
<1>1. CASE srp_create_target(t)
  <2> USE <1>1 DEF srp_create_target
  <2>1. TypeOK'
    BY DEF RefsInv
  <2>2. RefsInv'
    BY DEF RefsInv, RemovalInv
  <2>3. HostInv'
    BY DEF HostInv, RemovalInv, Writing
  <2>4. OneLogin' /\ LoginInv' /\ RemovalInv'
         /\ ("sysfs" \notin Deleters => FlushInv')
    BY DEF OneLogin, LoginInv, Locked, Duplicates, RemovalInv, FlushInv
  <2> QED BY <2>1, <2>2, <2>3, <2>4
<1>2. CASE add_target_mutex(t)
  <2> USE <1>2 DEF add_target_mutex
  <2>1. TypeOK'
    OBVIOUS
  <2>2. LoginInv'
    BY HostConstants DEF LoginInv, RemovalInv, Locked, Duplicates, DeleterKinds
  <2>3. OneLogin' /\ RemovalInv' /\ RefsInv' /\ HostInv'
         /\ ("sysfs" \notin Deleters => FlushInv')
    BY DEF OneLogin, RemovalInv, RefsInv, HostInv, Writing, FlushInv
  <2> QED BY <2>1, <2>2, <2>3
<1>3. CASE srp_conn_unique(t)
  <2> USE <1>3 DEF srp_conn_unique
  <2>1. TypeOK'
    OBVIOUS
  <2>2. LoginInv'
    BY DEF LoginInv, RemovalInv, Locked, Duplicates
  <2>3. OneLogin' /\ RemovalInv' /\ RefsInv' /\ HostInv'
         /\ ("sysfs" \notin Deleters => FlushInv')
    BY DEF OneLogin, RemovalInv, RefsInv, HostInv, Writing, FlushInv
  <2> QED BY <2>1, <2>2, <2>3
<1>4. CASE srp_create_target_refused(t)
  <2> USE <1>4 DEF srp_create_target_refused
  <2>1. TypeOK'
    OBVIOUS
  <2>2. LoginInv'
    BY DEF LoginInv, RemovalInv, Locked, Duplicates
  <2>3. OneLogin' /\ RemovalInv' /\ RefsInv' /\ HostInv'
         /\ ("sysfs" \notin Deleters => FlushInv')
    BY DEF OneLogin, RemovalInv, RefsInv, HostInv, Writing, FlushInv
  <2> QED BY <2>1, <2>2, <2>3
<1>5. CASE srp_connect_ch(t)
  <2> USE <1>5 DEF srp_connect_ch
  <2>1. TypeOK'
    OBVIOUS
  <2>2. OneLogin'
    BY DEF OneLogin, LoginInv, Locked, Duplicates
  <2>3. LoginInv'
    BY DEF LoginInv, RemovalInv, Locked, Duplicates
  <2>4. RemovalInv'
    BY DEF RemovalInv, LoginInv
  <2>5. RefsInv' /\ HostInv' /\ ("sysfs" \notin Deleters => FlushInv')
    BY DEF RefsInv, HostInv, Writing, FlushInv
  <2> QED BY <2>1, <2>2, <2>3, <2>4, <2>5
<1>6. CASE srp_add_target(t)
  <2> USE <1>6 DEF srp_add_target
  <2>1. TypeOK'
    OBVIOUS
  <2>2. LoginInv'
    BY DEF LoginInv, RemovalInv, Locked, Duplicates
  <2>3. RemovalInv'
    BY DEF RemovalInv, LoginInv
  <2>4. HostInv'
    BY DEF HostInv, RemovalInv, Writing
  <2>5. ASSUME "sysfs" \notin Deleters PROVE FlushInv'
    BY <2>5 DEF FlushInv, HostInv, RemovalInv, Writing
  <2>6. OneLogin' /\ RefsInv'
    BY DEF OneLogin, RefsInv
  <2> QED BY <2>1, <2>2, <2>3, <2>4, <2>5, <2>6
<1>7. CASE srp_create_target_err(t)
  <2> USE <1>7 DEF srp_create_target_err
  <2>1. TypeOK'
    OBVIOUS
  <2>2. OneLogin'
    BY DEF OneLogin
  <2>3. LoginInv'
    BY DEF LoginInv, RemovalInv, Locked, Duplicates
  <2>4. RemovalInv'
    BY DEF RemovalInv, LoginInv
  <2>5. RefsInv' /\ HostInv' /\ ("sysfs" \notin Deleters => FlushInv')
    BY DEF RefsInv, HostInv, Writing, FlushInv
  <2> QED BY <2>1, <2>2, <2>3, <2>4, <2>5
<1>8. CASE scsi_scan_target(t)
  <2> USE <1>8 DEF scsi_scan_target
  <2>1. TypeOK'
    OBVIOUS
  <2>2. RemovalInv'
    BY DEF RemovalInv, LoginInv
  <2>3. OneLogin' /\ LoginInv' /\ RefsInv' /\ HostInv'
         /\ ("sysfs" \notin Deleters => FlushInv')
    BY DEF OneLogin, LoginInv, Locked, Duplicates, RefsInv, HostInv, Writing,
         FlushInv
  <2> QED BY <2>1, <2>2, <2>3
<1>9. CASE srp_add_target_scanned(t)
  <2> USE <1>9 DEF srp_add_target_scanned, srp_queue_remove_work
  <2>1. TypeOK'
    OBVIOUS
  <2>2. RemovalInv'
    BY DEF RemovalInv, LoginInv
  <2>3. RefsInv'
    BY DEF RefsInv, RemovalInv
  <2>4. HostInv'
    BY DEF HostInv, RemovalInv, Writing
  <2>5. OneLogin' /\ LoginInv' /\ ("sysfs" \notin Deleters => FlushInv')
    BY DEF OneLogin, LoginInv, Locked, Duplicates, FlushInv
  <2> QED BY <2>1, <2>2, <2>3, <2>4, <2>5
<1>10. CASE scsi_host_put(t)
  <2> USE <1>10 DEF scsi_host_put
  <2>1. TypeOK'
    BY DEF RefsInv
  <2>2. LoginInv'
    BY DEF LoginInv, RemovalInv, Locked, Duplicates
  <2>3. RefsInv'
    BY DEF RefsInv, RemovalInv
  <2>4. HostInv'
    BY DEF HostInv, RemovalInv, Writing
  <2>5. OneLogin' /\ RemovalInv' /\ ("sysfs" \notin Deleters => FlushInv')
    BY DEF OneLogin, RemovalInv, FlushInv
  <2> QED BY <2>1, <2>2, <2>3, <2>4, <2>5
<1> QED BY <1>1, <1>2, <1>3, <1>4, <1>5, <1>6, <1>7, <1>8, <1>9, <1>10
       DEF CreateStep

-----------------------------------------------------------------------------
(* A target is removed: srp_queue_remove_work() and srp_remove_target().   *)
LEMMA RemoveInv ==
  ASSUME IInv, NEW t \in Targets,
         \/ \E d \in Deleters : srp_rport_delete(t, d)
         \/ queue_remove_work(t) \/ RemoveStep(t)
  PROVE  IInv'
<1> USE DEF IInv, TypeOK, creation, removal
<1>1. ASSUME NEW d \in Deleters, srp_rport_delete(t, d) PROVE IInv'
  <2> USE <1>1 DEF srp_rport_delete
  <2>1. TypeOK'
    BY HostConstants DEF DeleterKinds
  <2>2. RemovalInv'
    BY HostConstants DEF RemovalInv, LoginInv, DeleterKinds
  <2>3. ASSUME "sysfs" \notin Deleters PROVE FlushInv'
    BY HostConstants, <2>3 DEF FlushInv, HostInv, RemovalInv, Writing,
         DeleterKinds
  <2>4. OneLogin' /\ LoginInv' /\ RefsInv' /\ HostInv'
    BY DEF OneLogin, LoginInv, Locked, Duplicates, RefsInv, HostInv, Writing
  <2> QED BY <2>1, <2>2, <2>3, <2>4
<1>2. CASE queue_remove_work(t)
  <2> USE <1>2 DEF queue_remove_work
  <2>1. TypeOK'
    OBVIOUS
  <2>2. RemovalInv'
    BY DEF RemovalInv, LoginInv
  <2>3. RefsInv'
    BY DEF RefsInv, RemovalInv
  <2>4. ASSUME "sysfs" \notin Deleters PROVE FlushInv'
    BY HostConstants, <2>4 DEF FlushInv, HostInv, RemovalInv, Writing,
         DeleterKinds
  <2>5. OneLogin' /\ LoginInv' /\ HostInv'
    BY DEF OneLogin, LoginInv, Locked, Duplicates, HostInv, Writing
  <2> QED BY <2>1, <2>2, <2>3, <2>4, <2>5
<1>3. CASE srp_remove_target_channels(t)
  <2> USE <1>3 DEF srp_remove_target_channels
  <2>1. TypeOK'
    OBVIOUS
  <2>2. OneLogin'
    BY DEF OneLogin
  <2>3. LoginInv'
    BY DEF LoginInv, RemovalInv, Locked, Duplicates
  <2>4. RemovalInv'
    BY DEF RemovalInv, LoginInv
  <2>5. RefsInv'
    BY DEF RefsInv, RemovalInv
  <2>6. HostInv' /\ ("sysfs" \notin Deleters => FlushInv')
    BY DEF HostInv, Writing, FlushInv
  <2> QED BY <2>1, <2>2, <2>3, <2>4, <2>5, <2>6
<1>4. CASE srp_remove_target(t)
  <2> USE <1>4 DEF srp_remove_target
  <2>1. TypeOK'
    BY DEF RefsInv, RemovalInv
  <2>2. LoginInv'
    BY DEF LoginInv, RemovalInv, Locked, Duplicates
  <2>3. RemovalInv'
    BY DEF RemovalInv, LoginInv
  <2>4. RefsInv'
    BY DEF RefsInv, RemovalInv
  <2>5. OneLogin' /\ HostInv' /\ ("sysfs" \notin Deleters => FlushInv')
    BY DEF OneLogin, HostInv, Writing, FlushInv
  <2> QED BY <2>1, <2>2, <2>3, <2>4, <2>5
<1> QED BY <1>1, <1>2, <1>3, <1>4
       DEF RemoveStep

-----------------------------------------------------------------------------
(* The HCA comes and goes: srp_add_one() and srp_remove_one().             *)
LEMMA HcaInv ==
  ASSUME IInv,
         srp_add_one \/ srp_remove_one \/ RemoveOneStep
  PROVE  IInv'
<1> USE DEF IInv, TypeOK, creation, removal
<1>1. CASE srp_add_one
  <2> USE <1>1 DEF srp_add_one
  <2>1. TypeOK'
    OBVIOUS
  <2>2. HostInv'
    BY DEF HostInv, RemovalInv, Writing
  <2>3. ASSUME "sysfs" \notin Deleters PROVE FlushInv'
    BY <2>3 DEF FlushInv, HostInv, RemovalInv, Writing
  <2>4. OneLogin' /\ LoginInv' /\ RemovalInv' /\ RefsInv'
    BY DEF OneLogin, LoginInv, Locked, Duplicates, RemovalInv, RefsInv
  <2> QED BY <2>1, <2>2, <2>3, <2>4
<1>2. CASE srp_remove_one
  <2> USE <1>2 DEF srp_remove_one
  <2>1. TypeOK'
    OBVIOUS
  <2>2. HostInv'
    BY DEF HostInv, RemovalInv, Writing
  <2>3. OneLogin' /\ LoginInv' /\ RemovalInv' /\ RefsInv'
         /\ ("sysfs" \notin Deleters => FlushInv')
    BY DEF OneLogin, LoginInv, Locked, Duplicates, RemovalInv, RefsInv, FlushInv
  <2> QED BY <2>1, <2>2, <2>3
<1>3. ASSUME NEW p \in Ports, device_unregister(p) PROVE IInv'
  <2> USE <1>3 DEF device_unregister, Next1, HostStep
  <2>1. TypeOK'
    OBVIOUS
  <2>2. HostInv'
    BY DEF HostInv, RemovalInv, Writing
  <2>3. ASSUME "sysfs" \notin Deleters PROVE FlushInv'
    BY <2>3 DEF FlushInv, HostInv, RemovalInv, Writing
  <2>4. OneLogin' /\ LoginInv' /\ RemovalInv' /\ RefsInv'
    BY DEF OneLogin, LoginInv, Locked, Duplicates, RemovalInv, RefsInv
  <2> QED BY <2>1, <2>2, <2>3, <2>4
<1>4. ASSUME NEW p \in Ports, remove_all(p) PROVE IInv'
  <2> USE <1>4 DEF remove_all, srp_queue_remove_work, Next1, HostStep, Of
  <2>1. TypeOK'
    OBVIOUS
  <2>2. RemovalInv'
    BY DEF RemovalInv, LoginInv
  <2>3. RefsInv'
    BY DEF RefsInv, RemovalInv
  <2>4. HostInv'
    BY DEF HostInv, RemovalInv, Writing
  <2>5. ASSUME "sysfs" \notin Deleters PROVE FlushInv'
    BY <2>5 DEF FlushInv, HostInv, RemovalInv, Writing
  <2>6. OneLogin' /\ LoginInv'
    BY DEF OneLogin, LoginInv, Locked, Duplicates
  <2> QED BY <2>1, <2>2, <2>3, <2>4, <2>5, <2>6
<1>5. ASSUME NEW p \in Ports, flush_system_long_wq(p) PROVE IInv'
  <2> USE <1>5 DEF flush_system_long_wq, Next1, HostStep
  <2>1. TypeOK'
    OBVIOUS
  <2>2. HostInv'
    BY DEF HostInv, RemovalInv, Writing
  <2>3. ASSUME "sysfs" \notin Deleters PROVE FlushInv'
    BY <2>3 DEF FlushInv, HostInv, RemovalInv, Writing, DeleterKinds
  <2>4. OneLogin' /\ LoginInv' /\ RemovalInv' /\ RefsInv'
    BY DEF OneLogin, LoginInv, Locked, Duplicates, RemovalInv, RefsInv
  <2> QED BY <2>1, <2>2, <2>3, <2>4
<1>6. ASSUME NEW p \in Ports, flush_srp_remove_wq(p) PROVE IInv'
  <2> USE <1>6 DEF flush_srp_remove_wq, Next1, HostStep
  <2>1. TypeOK'
    OBVIOUS
  <2>2. HostInv'
    BY DEF HostInv, RemovalInv, Writing
  <2>3. ASSUME "sysfs" \notin Deleters PROVE FlushInv'
    BY <2>3 DEF FlushInv, HostInv, RemovalInv, Writing
  <2>4. OneLogin' /\ LoginInv' /\ RemovalInv' /\ RefsInv'
    BY DEF OneLogin, LoginInv, Locked, Duplicates, RemovalInv, RefsInv
  <2> QED BY <2>1, <2>2, <2>3, <2>4
<1>7. CASE srp_remove_one_done
  <2> USE <1>7 DEF srp_remove_one_done
  <2>1. TypeOK'
    OBVIOUS
  <2>2. HostInv'
    BY DEF HostInv, RemovalInv, Writing
  <2>3. OneLogin' /\ LoginInv' /\ RemovalInv' /\ RefsInv'
         /\ ("sysfs" \notin Deleters => FlushInv')
    BY DEF OneLogin, LoginInv, Locked, Duplicates, RemovalInv, RefsInv, FlushInv
  <2> QED BY <2>1, <2>2, <2>3
<1> QED BY <1>1, <1>2, <1>3, <1>4, <1>5, <1>6, <1>7
       DEF RemoveOneStep

-----------------------------------------------------------------------------
\* No target and no port of the HCA exists initially.
LEMMA InitInv == Init => IInv
<1> SUFFICES ASSUME Init PROVE IInv
  OBVIOUS
<1> USE DEF Init
<1>1. TypeOK
  BY HostConstants DEF TypeOK
<1>2. OneLogin /\ LoginInv /\ RemovalInv /\ RefsInv
  BY DEF OneLogin, LoginInv, Locked, RemovalInv, RefsInv
<1>3. HostInv
  BY DEF HostInv, Writing
<1>4. FlushInv
  BY HostConstants DEF FlushInv, DeleterKinds
<1> QED BY <1>1, <1>2, <1>3, <1>4 DEF IInv

\* Every step preserves the invariant.
LEMMA NextInv == IInv /\ [Next]_vars => IInv'
<1> SUFFICES ASSUME IInv, [Next]_vars PROVE IInv'
  OBVIOUS
<1>1. CASE Next
  BY <1>1, CreateInv, RemoveInv, HcaInv DEF Next
<1>2. CASE UNCHANGED vars
  <2> USE <1>2 DEF IInv, vars, creation, removal
  <2>1. TypeOK' /\ OneLogin'
    BY DEF TypeOK, OneLogin
  <2>2. RemovalInv' /\ RefsInv'
    BY DEF RemovalInv, RefsInv
  <2>3. LoginInv' /\ HostInv' /\ ("sysfs" \notin Deleters => FlushInv')
    BY DEF LoginInv, Duplicates, HostInv, Writing, FlushInv
  <2> QED BY <2>1, <2>2, <2>3
<1> QED BY <1>1, <1>2

(***************************************************************************)
(* The invariant of the targets of an HCA, for any number of ports and of  *)
(* concurrent writes to add_target, whichever targets they name.           *)
(***************************************************************************)
THEOREM HostInvariance == Spec => []IInv
BY InitInv, NextInv, PTL DEF Spec

(***************************************************************************)
(* The processes, the works and the reference counts of the targets keep   *)
(* their types, whatever order they run in.                                *)
(***************************************************************************)
THEOREM HostTypes == Spec => []TypeOK
<1>1. IInv => TypeOK
  BY DEF IInv
<1> QED BY <1>1, HostInvariance, PTL

(***************************************************************************)
(* srp_conn_unique() under add_target_mutex suffices: two targets of a     *)
(* host that have channels at the same time have different logins, also    *)
(* if processes write "delete" at any moment.                              *)
(***************************************************************************)
THEOREM OneLoginAtATime == Spec => []OneLogin
<1>1. IInv => OneLogin
  BY DEF IInv
<1> QED BY <1>1, HostInvariance, PTL

(***************************************************************************)
(* If nobody but a work of system_long_wq calls srp_queue_remove_work()    *)
(* behind the back of srp_remove_one(), its two flushes suffice: nobody    *)
(* uses an SRP host or a Scsi_Host that was freed, and no channel outlives *)
(* the HCA.                                                                *)
(***************************************************************************)
THEOREM MemoryOutlivesUse ==
  ASSUME "sysfs" \notin Deleters
  PROVE  Spec => []NoUseAfterFree
<1>1. IInv => NoUseAfterFree
  <2> SUFFICES ASSUME IInv PROVE NoUseAfterFree
    OBVIOUS
  <2> USE DEF IInv, TypeOK
  <2>1. ASSUME NEW t \in Targets, Used(t)
        PROVE  host[port[t]] # "freed" /\ refs[t] > 0
    <3>1. Writing(t) \/ t \in listed
      BY <2>1 DEF Used, RemovalInv
    <3>2. host[port[t]] # "freed"
      BY <3>1 DEF HostInv, FlushInv
    <3>3. refs[t] > 0
      BY <3>1 DEF RefsInv, RemovalInv, Writing
    <3> QED BY <3>2, <3>3
  <2>2. ASSUME hca = "gone", NEW t \in channels
        PROVE  FALSE
    <3>1. t \in listed \/ pc[t] \in {"add", "err_disconnect"}
      BY DEF LoginInv
    <3>2. pc[t] # "new" /\ (Writing(t) \/ t \in listed)
      BY <3>1 DEF RemovalInv, Writing
    <3> QED BY <2>2, <3>2 DEF HostInv, FlushInv
  <2> QED BY <2>1, <2>2 DEF NoUseAfterFree
<1> QED BY <1>1, HostInvariance, PTL
=============================================================================
