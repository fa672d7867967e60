--------------------------- MODULE SrpRportProofs ---------------------------
(***************************************************************************)
(* Proofs about SrpRport, for any set of devices, submitters and writers   *)
(* and any values of the tunables.                                         *)
(***************************************************************************)
EXTENDS SrpRport, TLAPS

(***************************************************************************)
(* Every step keeps the fields of the port and the program counters inside *)
(* their types.                                                            *)
(***************************************************************************)
LEMMA TypeStep ==
    ASSUME TypeOK, [Next]_vars
    PROVE  TypeOK'
<1> USE DEF Goto, tunables, Threads, Works, RportWorks, NoThread, Labels,
    Holding, CancelLabels, TypeOK, States, SdevStates, Queue, Cancel,
    scsi_target_block, scsi_target_unblock, Reconnecters, Attrs, NoSubmit,
    NoStore, StoredInRange
<1>1. CASE TransportError
    BY <1>1 DEF TransportError
<1>2. CASE store_srp_rport_delete
    BY <1>2 DEF store_srp_rport_delete, srp_queue_remove_work
<1>3. ASSUME NEW w \in Works, Expire(w) PROVE TypeOK'
    BY <1>3 DEF Expire
<1>4. CASE srp_start_tl_fail_timers
    BY <1>4 DEF srp_start_tl_fail_timers, start_tl_fail_timers
<1>5. ASSUME NEW t \in Threads, terminate_rport_io(t) PROVE TypeOK'
    BY <1>5 DEF terminate_rport_io
<1>6. CASE rport_fast_io_fail_timedout
    BY <1>6 DEF rport_fast_io_fail_timedout, rport_fail_io_fast
<1>7. CASE rport_fast_io_fail_done
    BY <1>7 DEF rport_fast_io_fail_done
<1>8. CASE rport_dev_loss_timedout
    BY <1>8 DEF rport_dev_loss_timedout
<1>9. CASE rport_dev_loss_delete
    BY <1>9 DEF rport_dev_loss_delete, srp_queue_remove_work
<1>10. CASE srp_reconnect_work
    BY <1>10 DEF srp_reconnect_work
<1>11. ASSUME NEW t \in Reconnecters, srp_reconnect_rport(t) PROVE TypeOK'
    BY <1>11 DEF srp_reconnect_rport
<1>12. ASSUME NEW t \in Reconnecters, srp_reconnect_call(t) PROVE TypeOK'
    BY <1>12 DEF srp_reconnect_call, AfterFailure
<1>13. ASSUME NEW t \in Reconnecters, srp_reconnect_ok(t) PROVE TypeOK'
    BY <1>13 DEF srp_reconnect_ok, AfterSuccess
<1>14. ASSUME NEW t \in Reconnecters, srp_reconnect_failed(t) PROVE TypeOK'
    BY <1>14 DEF srp_reconnect_failed, AfterFailure, rport_fail_io_fast
<1>15. ASSUME NEW t \in Reconnecters, srp_reconnect_failed_timers(t) PROVE TypeOK'
    BY <1>15 DEF srp_reconnect_failed_timers, AfterFailure,
        start_tl_fail_timers
<1>16. CASE EhStart
    BY <1>16 DEF EhStart
<1>17. ASSUME NEW l \in {"lock", "eh_lock", "idle"}, EhNext(l) PROVE TypeOK'
    BY <1>17 DEF EhNext
<1>18. ASSUME NEW d \in Devs, EhOffline(d) PROVE TypeOK'
    BY <1>18 DEF EhOffline
<1>19. CASE srp_reconnect_interrupted
    BY <1>19 DEF srp_reconnect_interrupted
<1>20. ASSUME NEW d \in Devs, srp_queuecommand_eh(d) PROVE TypeOK'
    BY <1>20 DEF srp_queuecommand_eh
<1>21. CASE srp_queuecommand_eh_done
    BY <1>21 DEF srp_queuecommand_eh_done
<1>22. ASSUME NEW s \in Submitters, NEW d \in Devs, Dispatch(s, d) PROVE TypeOK'
    BY <1>22 DEF Dispatch
<1>23. ASSUME NEW s \in Submitters, srp_queuecommand(s) PROVE TypeOK'
    BY <1>23 DEF srp_queuecommand
<1>24. ASSUME NEW s \in Submitters, srp_queuecommand_done(s) PROVE TypeOK'
    BY <1>24, RportConstants DEF srp_queuecommand_done
<1>25. ASSUME NEW w \in Writers, NEW a \in Attrs, NEW v \in Values(a), store_begin(w, a, v) PROVE TypeOK'
  <2>1. v \in TmoRange(a)
    <3>1. v \in Int
        BY <1>25, RportConstants DEF Values
    <3> QED
        BY <1>25, <3>1 DEF store_begin, srp_tmo_valid, TmoRange
  <2>2. v \in Int
    BY <2>1 DEF TmoRange
  <2>3. \A u \in Writers :
          /\ store'[u].val \in TmoRange(store'[u].attr)
          /\ store'[u].at = "rearm" => store'[u].attr = "reconnect_delay"
    BY <1>25, <2>1 DEF store_begin
  <2> QED
    BY <1>25, <2>2, <2>3 DEF store_begin
<1>26. ASSUME NEW w \in Writers, store_reconnect_delay(w) PROVE TypeOK'
  <2>1. store[w].attr = "reconnect_delay"
    BY <1>26 DEF store_reconnect_delay, TypeOK
  <2>2. \A u \in Writers :
          /\ store'[u].val \in TmoRange(store'[u].attr)
          /\ store'[u].at = "rearm" => store'[u].attr = "reconnect_delay"
    BY <1>26, <2>1 DEF store_reconnect_delay
  <2> QED
    BY <1>26, <2>2 DEF store_reconnect_delay
<1>27. ASSUME NEW w \in Writers, store_assign(w) PROVE TypeOK'
  <2>1. Off \in TmoRange("reconnect_delay") /\ Off \in Int
    BY DEF Off, TmoRange
  <2>2. \A u \in Writers :
          /\ store'[u].val \in TmoRange(store'[u].attr)
          /\ store'[u].at = "rearm" => store'[u].attr = "reconnect_delay"
    BY <1>27, <2>1 DEF store_assign
  <2>3. /\ (reconnect_delay \in TmoRange("reconnect_delay"))'
        /\ (fast_io_fail_tmo \in TmoRange("fast_io_fail_tmo"))'
        /\ (dev_loss_tmo \in TmoRange("dev_loss_tmo"))'
    BY <1>27 DEF store_assign
  <2> QED
    BY <1>27, <2>1, <2>2, <2>3 DEF store_assign
<1>28. CASE srp_remove_work
    BY <1>28 DEF srp_remove_work
<1>29. CASE srp_remove_host
    BY <1>29 DEF srp_remove_host
<1>30. ASSUME NEW d \in Devs, scsi_remove_device(d) PROVE TypeOK'
    BY <1>30 DEF scsi_remove_device
<1>31. CASE scsi_remove_host
    BY <1>31 DEF scsi_remove_host
<1>32. CASE srp_stop_rport_timers
    BY <1>32 DEF srp_stop_rport_timers, rport_fail_io_fast
<1>33. CASE srp_stop_rport_timers_lost
    BY <1>33 DEF srp_stop_rport_timers_lost, StartCancel
<1>34. CASE cancel_reconnect_work_sync
    BY <1>34 DEF cancel_reconnect_work_sync, StartCancel
<1>35. CASE cancel_fast_io_fail_work_sync
    BY <1>35 DEF cancel_fast_io_fail_work_sync, StartCancel
<1>36. CASE cancel_dev_loss_work_sync
    BY <1>36 DEF cancel_dev_loss_work_sync
<1>37. CASE srp_free_ch_ib
    BY <1>37 DEF srp_free_ch_ib, StartCancel
<1>38. CASE srp_rport_put
    BY <1>38 DEF srp_rport_put
<1>39. CASE UNCHANGED vars
    BY <1>39 DEF vars
<1> HIDE DEF Goto, tunables, Threads, Works, RportWorks, NoThread, Labels,
    Holding, CancelLabels, TypeOK, States, SdevStates, Queue, Cancel,
    scsi_target_block, scsi_target_unblock, Reconnecters, Attrs, NoSubmit,
    NoStore, StoredInRange
<1> QED
    BY <1>1, <1>2, <1>3, <1>4, <1>5, <1>6, <1>7, <1>8, <1>9, <1>10, <1>11,
       <1>12, <1>13, <1>14, <1>15, <1>16, <1>17, <1>18, <1>19, <1>20, <1>21,
       <1>22, <1>23, <1>24, <1>25, <1>26, <1>27, <1>28, <1>29, <1>30, <1>31,
       <1>32, <1>33, <1>34, <1>35, <1>36, <1>37, <1>38, <1>39 DEF Next,
       WorkerStep, ReconnectStep, EhStep, SubmitStep, StoreStep, RemoveStep

(***************************************************************************)
(* Every step keeps the owner of rport->mutex in agreement with the        *)
(* program counters.                                                       *)
(***************************************************************************)
LEMMA MutexStep ==
    ASSUME TypeOK, MutexInv, [Next]_vars
    PROVE  MutexInv'
<1> USE DEF Goto, tunables, Threads, Works, RportWorks, NoThread, Labels,
    Holding, CancelLabels, TypeOK, MutexInv, Reconnecters
<1>1. CASE TransportError
    BY <1>1 DEF TransportError
<1>2. CASE store_srp_rport_delete
    BY <1>2 DEF store_srp_rport_delete, srp_queue_remove_work
<1>3. ASSUME NEW w \in Works, Expire(w) PROVE MutexInv'
    BY <1>3 DEF Expire
<1>4. CASE srp_start_tl_fail_timers
    BY <1>4 DEF srp_start_tl_fail_timers, start_tl_fail_timers
<1>5. ASSUME NEW t \in Threads, terminate_rport_io(t) PROVE MutexInv'
    BY <1>5 DEF terminate_rport_io
<1>6. CASE rport_fast_io_fail_timedout
    BY <1>6 DEF rport_fast_io_fail_timedout, rport_fail_io_fast
<1>7. CASE rport_fast_io_fail_done
    BY <1>7 DEF rport_fast_io_fail_done
<1>8. CASE rport_dev_loss_timedout
    BY <1>8 DEF rport_dev_loss_timedout
<1>9. CASE rport_dev_loss_delete
    BY <1>9 DEF rport_dev_loss_delete, srp_queue_remove_work
<1>10. CASE srp_reconnect_work
    BY <1>10 DEF srp_reconnect_work
<1>11. ASSUME NEW t \in Reconnecters, srp_reconnect_rport(t) PROVE MutexInv'
    BY <1>11 DEF srp_reconnect_rport
<1>12. ASSUME NEW t \in Reconnecters, srp_reconnect_call(t) PROVE MutexInv'
    BY <1>12 DEF srp_reconnect_call, AfterFailure
<1>13. ASSUME NEW t \in Reconnecters, srp_reconnect_ok(t) PROVE MutexInv'
    BY <1>13 DEF srp_reconnect_ok, AfterSuccess
<1>14. ASSUME NEW t \in Reconnecters, srp_reconnect_failed(t) PROVE MutexInv'
    BY <1>14 DEF srp_reconnect_failed, AfterFailure, rport_fail_io_fast
<1>15. ASSUME NEW t \in Reconnecters, srp_reconnect_failed_timers(t) PROVE MutexInv'
    BY <1>15 DEF srp_reconnect_failed_timers, AfterFailure,
        start_tl_fail_timers
<1>16. CASE EhStart
    BY <1>16 DEF EhStart
<1>17. ASSUME NEW l \in {"lock", "eh_lock", "idle"}, EhNext(l) PROVE MutexInv'
    BY <1>17 DEF EhNext
<1>18. ASSUME NEW d \in Devs, EhOffline(d) PROVE MutexInv'
    BY <1>18 DEF EhOffline
<1>19. CASE srp_reconnect_interrupted
    BY <1>19 DEF srp_reconnect_interrupted
<1>20. ASSUME NEW d \in Devs, srp_queuecommand_eh(d) PROVE MutexInv'
    BY <1>20 DEF srp_queuecommand_eh
<1>21. CASE srp_queuecommand_eh_done
    BY <1>21 DEF srp_queuecommand_eh_done
<1>22. ASSUME NEW s \in Submitters, NEW d \in Devs, Dispatch(s, d) PROVE MutexInv'
    BY <1>22 DEF Dispatch
<1>23. ASSUME NEW s \in Submitters, srp_queuecommand(s) PROVE MutexInv'
    BY <1>23 DEF srp_queuecommand
<1>24. ASSUME NEW s \in Submitters, srp_queuecommand_done(s) PROVE MutexInv'
    BY <1>24 DEF srp_queuecommand_done
<1>25. ASSUME NEW w \in Writers, NEW a \in Attrs, NEW v \in Values(a), store_begin(w, a, v) PROVE MutexInv'
    BY <1>25 DEF store_begin
<1>26. ASSUME NEW w \in Writers, store_reconnect_delay(w) PROVE MutexInv'
    BY <1>26 DEF store_reconnect_delay
<1>27. ASSUME NEW w \in Writers, store_assign(w) PROVE MutexInv'
    BY <1>27 DEF store_assign
<1>28. CASE srp_remove_work
    BY <1>28 DEF srp_remove_work
<1>29. CASE srp_remove_host
    BY <1>29 DEF srp_remove_host
<1>30. ASSUME NEW d \in Devs, scsi_remove_device(d) PROVE MutexInv'
    BY <1>30 DEF scsi_remove_device
<1>31. CASE scsi_remove_host
    BY <1>31 DEF scsi_remove_host
<1>32. CASE srp_stop_rport_timers
    BY <1>32 DEF srp_stop_rport_timers, rport_fail_io_fast
<1>33. CASE srp_stop_rport_timers_lost
    BY <1>33 DEF srp_stop_rport_timers_lost, StartCancel
<1>34. CASE cancel_reconnect_work_sync
    BY <1>34 DEF cancel_reconnect_work_sync, StartCancel
<1>35. CASE cancel_fast_io_fail_work_sync
    BY <1>35 DEF cancel_fast_io_fail_work_sync, StartCancel
<1>36. CASE cancel_dev_loss_work_sync
    BY <1>36 DEF cancel_dev_loss_work_sync
<1>37. CASE srp_free_ch_ib
    BY <1>37 DEF srp_free_ch_ib, StartCancel
<1>38. CASE srp_rport_put
    BY <1>38 DEF srp_rport_put
<1>39. CASE UNCHANGED vars
    BY <1>39 DEF vars
<1> HIDE DEF Goto, tunables, Threads, Works, RportWorks, NoThread, Labels,
    Holding, CancelLabels, TypeOK, MutexInv, Reconnecters
<1> QED
    BY <1>1, <1>2, <1>3, <1>4, <1>5, <1>6, <1>7, <1>8, <1>9, <1>10, <1>11,
       <1>12, <1>13, <1>14, <1>15, <1>16, <1>17, <1>18, <1>19, <1>20, <1>21,
       <1>22, <1>23, <1>24, <1>25, <1>26, <1>27, <1>28, <1>29, <1>30, <1>31,
       <1>32, <1>33, <1>34, <1>35, <1>36, <1>37, <1>38, <1>39 DEF Next,
       WorkerStep, ReconnectStep, EhStep, SubmitStep, StoreStep, RemoveStep

(***************************************************************************)
(* No command is submitted while the error handler runs.                   *)
(***************************************************************************)
LEMMA EhStepInv ==
    ASSUME TypeOK, EhInv, [Next]_vars
    PROVE  EhInv'
<1> USE DEF Goto, tunables, Threads, Works, RportWorks, NoThread, TypeOK,
    EhInv, NoSubmit, Reconnecters
<1>1. CASE TransportError
    BY <1>1 DEF TransportError
<1>2. CASE store_srp_rport_delete
    BY <1>2 DEF store_srp_rport_delete, srp_queue_remove_work
<1>3. ASSUME NEW w \in Works, Expire(w) PROVE EhInv'
    BY <1>3 DEF Expire
<1>4. CASE srp_start_tl_fail_timers
    BY <1>4 DEF srp_start_tl_fail_timers, start_tl_fail_timers
<1>5. ASSUME NEW t \in Threads, terminate_rport_io(t) PROVE EhInv'
    BY <1>5 DEF terminate_rport_io
<1>6. CASE rport_fast_io_fail_timedout
    BY <1>6 DEF rport_fast_io_fail_timedout, rport_fail_io_fast
<1>7. CASE rport_fast_io_fail_done
    BY <1>7 DEF rport_fast_io_fail_done
<1>8. CASE rport_dev_loss_timedout
    BY <1>8 DEF rport_dev_loss_timedout
<1>9. CASE rport_dev_loss_delete
    BY <1>9 DEF rport_dev_loss_delete, srp_queue_remove_work
<1>10. CASE srp_reconnect_work
    BY <1>10 DEF srp_reconnect_work
<1>11. ASSUME NEW t \in Reconnecters, srp_reconnect_rport(t) PROVE EhInv'
    BY <1>11 DEF srp_reconnect_rport
<1>12. ASSUME NEW t \in Reconnecters, srp_reconnect_call(t) PROVE EhInv'
    BY <1>12 DEF srp_reconnect_call, AfterFailure
<1>13. ASSUME NEW t \in Reconnecters, srp_reconnect_ok(t) PROVE EhInv'
    BY <1>13 DEF srp_reconnect_ok, AfterSuccess
<1>14. ASSUME NEW t \in Reconnecters, srp_reconnect_failed(t) PROVE EhInv'
    BY <1>14 DEF srp_reconnect_failed, AfterFailure, rport_fail_io_fast
<1>15. ASSUME NEW t \in Reconnecters, srp_reconnect_failed_timers(t) PROVE EhInv'
    BY <1>15 DEF srp_reconnect_failed_timers, AfterFailure,
        start_tl_fail_timers
<1>16. CASE EhStart
    BY <1>16 DEF EhStart, scsi_request_fn_active
<1>17. ASSUME NEW l \in {"lock", "eh_lock", "idle"}, EhNext(l) PROVE EhInv'
    BY <1>17 DEF EhNext
<1>18. ASSUME NEW d \in Devs, EhOffline(d) PROVE EhInv'
    BY <1>18 DEF EhOffline
<1>19. CASE srp_reconnect_interrupted
    BY <1>19 DEF srp_reconnect_interrupted
<1>20. ASSUME NEW d \in Devs, srp_queuecommand_eh(d) PROVE EhInv'
    BY <1>20 DEF srp_queuecommand_eh
<1>21. CASE srp_queuecommand_eh_done
    BY <1>21 DEF srp_queuecommand_eh_done
<1>22. ASSUME NEW s \in Submitters, NEW d \in Devs, Dispatch(s, d) PROVE EhInv'
    BY <1>22 DEF Dispatch
<1>23. ASSUME NEW s \in Submitters, srp_queuecommand(s) PROVE EhInv'
    BY <1>23 DEF srp_queuecommand
<1>24. ASSUME NEW s \in Submitters, srp_queuecommand_done(s) PROVE EhInv'
    BY <1>24 DEF srp_queuecommand_done
<1>25. ASSUME NEW w \in Writers, NEW a \in Attrs, NEW v \in Values(a), store_begin(w, a, v) PROVE EhInv'
    BY <1>25 DEF store_begin
<1>26. ASSUME NEW w \in Writers, store_reconnect_delay(w) PROVE EhInv'
    BY <1>26 DEF store_reconnect_delay
<1>27. ASSUME NEW w \in Writers, store_assign(w) PROVE EhInv'
    BY <1>27 DEF store_assign
<1>28. CASE srp_remove_work
    BY <1>28 DEF srp_remove_work
<1>29. CASE srp_remove_host
    BY <1>29 DEF srp_remove_host
<1>30. ASSUME NEW d \in Devs, scsi_remove_device(d) PROVE EhInv'
    BY <1>30 DEF scsi_remove_device
<1>31. CASE scsi_remove_host
    BY <1>31 DEF scsi_remove_host
<1>32. CASE srp_stop_rport_timers
    BY <1>32 DEF srp_stop_rport_timers, rport_fail_io_fast
<1>33. CASE srp_stop_rport_timers_lost
    BY <1>33 DEF srp_stop_rport_timers_lost, StartCancel
<1>34. CASE cancel_reconnect_work_sync
    BY <1>34 DEF cancel_reconnect_work_sync, StartCancel
<1>35. CASE cancel_fast_io_fail_work_sync
    BY <1>35 DEF cancel_fast_io_fail_work_sync, StartCancel
<1>36. CASE cancel_dev_loss_work_sync
    BY <1>36 DEF cancel_dev_loss_work_sync
<1>37. CASE srp_free_ch_ib
    BY <1>37 DEF srp_free_ch_ib, StartCancel
<1>38. CASE srp_rport_put
    BY <1>38 DEF srp_rport_put
<1>39. CASE UNCHANGED vars
    BY <1>39 DEF vars
<1> HIDE DEF Goto, tunables, Threads, Works, RportWorks, NoThread, TypeOK,
    EhInv, NoSubmit, Reconnecters
<1> QED
    BY <1>1, <1>2, <1>3, <1>4, <1>5, <1>6, <1>7, <1>8, <1>9, <1>10, <1>11,
       <1>12, <1>13, <1>14, <1>15, <1>16, <1>17, <1>18, <1>19, <1>20, <1>21,
       <1>22, <1>23, <1>24, <1>25, <1>26, <1>27, <1>28, <1>29, <1>30, <1>31,
       <1>32, <1>33, <1>34, <1>35, <1>36, <1>37, <1>38, <1>39 DEF Next,
       WorkerStep, ReconnectStep, EhStep, SubmitStep, StoreStep, RemoveStep

(***************************************************************************)
(* Between blocking the devices and the end of reconnect() no command      *)
(* passes the checks of srp_queuecommand().                                *)
(***************************************************************************)
LEMMA ReconnectStepInv ==
    ASSUME TypeOK, MutexInv, EhInv, ReconnectInv, [Next]_vars
    PROVE  ReconnectInv'
<1> USE DEF Goto, tunables, Threads, Works, RportWorks, NoThread, Labels,
    Holding, CancelLabels, TypeOK, MutexInv, EhInv, ReconnectInv,
    Reconnecters, NoSubmit, scsi_target_block, scsi_target_unblock,
    scsi_request_fn_active, srp_chkready, srp_rport_set_state, States,
    SdevStates
<1>1. CASE TransportError
    BY <1>1 DEF TransportError
<1>2. CASE store_srp_rport_delete
    BY <1>2 DEF store_srp_rport_delete, srp_queue_remove_work
<1>3. ASSUME NEW w \in Works, Expire(w) PROVE ReconnectInv'
    BY <1>3 DEF Expire
<1>4. CASE srp_start_tl_fail_timers
    BY <1>4 DEF srp_start_tl_fail_timers, start_tl_fail_timers
<1>5. ASSUME NEW t \in Threads, terminate_rport_io(t) PROVE ReconnectInv'
    BY <1>5 DEF terminate_rport_io
<1>6. CASE rport_fast_io_fail_timedout
    BY <1>6 DEF rport_fast_io_fail_timedout, rport_fail_io_fast
<1>7. CASE rport_fast_io_fail_done
    BY <1>7 DEF rport_fast_io_fail_done
<1>8. CASE rport_dev_loss_timedout
    BY <1>8 DEF rport_dev_loss_timedout
<1>9. CASE rport_dev_loss_delete
    BY <1>9 DEF rport_dev_loss_delete, srp_queue_remove_work
<1>10. CASE srp_reconnect_work
    BY <1>10 DEF srp_reconnect_work
<1>11. ASSUME NEW t \in Reconnecters, srp_reconnect_rport(t) PROVE ReconnectInv'
    BY <1>11 DEF srp_reconnect_rport
<1>12. ASSUME NEW t \in Reconnecters, srp_reconnect_call(t) PROVE ReconnectInv'
    BY <1>12 DEF srp_reconnect_call, AfterFailure
<1>13. ASSUME NEW t \in Reconnecters, srp_reconnect_ok(t) PROVE ReconnectInv'
    BY <1>13 DEF srp_reconnect_ok, AfterSuccess
<1>14. ASSUME NEW t \in Reconnecters, srp_reconnect_failed(t) PROVE ReconnectInv'
    BY <1>14 DEF srp_reconnect_failed, AfterFailure, rport_fail_io_fast
<1>15. ASSUME NEW t \in Reconnecters, srp_reconnect_failed_timers(t) PROVE ReconnectInv'
    BY <1>15 DEF srp_reconnect_failed_timers, AfterFailure,
        start_tl_fail_timers
<1>16. CASE EhStart
    BY <1>16 DEF EhStart
<1>17. ASSUME NEW l \in {"lock", "eh_lock", "idle"}, EhNext(l) PROVE ReconnectInv'
    BY <1>17 DEF EhNext
<1>18. ASSUME NEW d \in Devs, EhOffline(d) PROVE ReconnectInv'
    BY <1>18 DEF EhOffline
<1>19. CASE srp_reconnect_interrupted
    BY <1>19 DEF srp_reconnect_interrupted
<1>20. ASSUME NEW d \in Devs, srp_queuecommand_eh(d) PROVE ReconnectInv'
    BY <1>20 DEF srp_queuecommand_eh
<1>21. CASE srp_queuecommand_eh_done
    BY <1>21 DEF srp_queuecommand_eh_done
<1>22. ASSUME NEW s \in Submitters, NEW d \in Devs, Dispatch(s, d) PROVE ReconnectInv'
    BY <1>22 DEF Dispatch
<1>23. ASSUME NEW s \in Submitters, srp_queuecommand(s) PROVE ReconnectInv'
    BY <1>23 DEF srp_queuecommand
<1>24. ASSUME NEW s \in Submitters, srp_queuecommand_done(s) PROVE ReconnectInv'
    BY <1>24 DEF srp_queuecommand_done
<1>25. ASSUME NEW w \in Writers, NEW a \in Attrs, NEW v \in Values(a), store_begin(w, a, v) PROVE ReconnectInv'
    BY <1>25 DEF store_begin
<1>26. ASSUME NEW w \in Writers, store_reconnect_delay(w) PROVE ReconnectInv'
    BY <1>26 DEF store_reconnect_delay
<1>27. ASSUME NEW w \in Writers, store_assign(w) PROVE ReconnectInv'
    BY <1>27 DEF store_assign
<1>28. CASE srp_remove_work
    BY <1>28 DEF srp_remove_work
<1>29. CASE srp_remove_host
    BY <1>29 DEF srp_remove_host
<1>30. ASSUME NEW d \in Devs, scsi_remove_device(d) PROVE ReconnectInv'
    BY <1>30 DEF scsi_remove_device
<1>31. CASE scsi_remove_host
    BY <1>31 DEF scsi_remove_host
<1>32. CASE srp_stop_rport_timers
    BY <1>32 DEF srp_stop_rport_timers, rport_fail_io_fast
<1>33. CASE srp_stop_rport_timers_lost
    BY <1>33 DEF srp_stop_rport_timers_lost, StartCancel
<1>34. CASE cancel_reconnect_work_sync
    BY <1>34 DEF cancel_reconnect_work_sync, StartCancel
<1>35. CASE cancel_fast_io_fail_work_sync
    BY <1>35 DEF cancel_fast_io_fail_work_sync, StartCancel
<1>36. CASE cancel_dev_loss_work_sync
    BY <1>36 DEF cancel_dev_loss_work_sync
<1>37. CASE srp_free_ch_ib
    BY <1>37 DEF srp_free_ch_ib, StartCancel
<1>38. CASE srp_rport_put
    BY <1>38 DEF srp_rport_put
<1>39. CASE UNCHANGED vars
    BY <1>39 DEF vars
<1> HIDE DEF Goto, tunables, Threads, Works, RportWorks, NoThread, Labels,
    Holding, CancelLabels, TypeOK, MutexInv, EhInv, ReconnectInv,
    Reconnecters, NoSubmit, scsi_target_block, scsi_target_unblock,
    scsi_request_fn_active, srp_chkready, srp_rport_set_state, States,
    SdevStates
<1> QED
    BY <1>1, <1>2, <1>3, <1>4, <1>5, <1>6, <1>7, <1>8, <1>9, <1>10, <1>11,
       <1>12, <1>13, <1>14, <1>15, <1>16, <1>17, <1>18, <1>19, <1>20, <1>21,
       <1>22, <1>23, <1>24, <1>25, <1>26, <1>27, <1>28, <1>29, <1>30, <1>31,
       <1>32, <1>33, <1>34, <1>35, <1>36, <1>37, <1>38, <1>39 DEF Next,
       WorkerStep, ReconnectStep, EhStep, SubmitStep, StoreStep, RemoveStep

(***************************************************************************)
(* Every step keeps the devices in agreement with the port.                *)
(***************************************************************************)
LEMMA DeviceStep ==
    ASSUME TypeOK, MutexInv, ReconnectInv, DeviceInv, [Next]_vars
    PROVE  DeviceInv'
<1> USE DEF Goto, tunables, Threads, Works, RportWorks, NoThread, Labels,
    Holding, CancelLabels, TypeOK, MutexInv, ReconnectInv, DeviceInv,
    Reconnecting, Reconnecters, scsi_target_block, scsi_target_unblock,
    srp_rport_set_state, States, SdevStates
<1>1. CASE TransportError
    BY <1>1 DEF TransportError
<1>2. CASE store_srp_rport_delete
    BY <1>2 DEF store_srp_rport_delete, srp_queue_remove_work
<1>3. ASSUME NEW w \in Works, Expire(w) PROVE DeviceInv'
    BY <1>3 DEF Expire
<1>4. CASE srp_start_tl_fail_timers
    BY <1>4 DEF srp_start_tl_fail_timers, start_tl_fail_timers
<1>5. ASSUME NEW t \in Threads, terminate_rport_io(t) PROVE DeviceInv'
    BY <1>5 DEF terminate_rport_io
<1>6. CASE rport_fast_io_fail_timedout
    BY <1>6 DEF rport_fast_io_fail_timedout, rport_fail_io_fast
<1>7. CASE rport_fast_io_fail_done
    BY <1>7 DEF rport_fast_io_fail_done
<1>8. CASE rport_dev_loss_timedout
    BY <1>8 DEF rport_dev_loss_timedout
<1>9. CASE rport_dev_loss_delete
    BY <1>9 DEF rport_dev_loss_delete, srp_queue_remove_work
<1>10. CASE srp_reconnect_work
    BY <1>10 DEF srp_reconnect_work
<1>11. ASSUME NEW t \in Reconnecters, srp_reconnect_rport(t) PROVE DeviceInv'
    BY <1>11 DEF srp_reconnect_rport
<1>12. ASSUME NEW t \in Reconnecters, srp_reconnect_call(t) PROVE DeviceInv'
    BY <1>12 DEF srp_reconnect_call, AfterFailure
<1>13. ASSUME NEW t \in Reconnecters, srp_reconnect_ok(t) PROVE DeviceInv'
    BY <1>13 DEF srp_reconnect_ok, AfterSuccess
<1>14. ASSUME NEW t \in Reconnecters, srp_reconnect_failed(t) PROVE DeviceInv'
    BY <1>14 DEF srp_reconnect_failed, AfterFailure, rport_fail_io_fast
<1>15. ASSUME NEW t \in Reconnecters, srp_reconnect_failed_timers(t) PROVE DeviceInv'
    BY <1>15 DEF srp_reconnect_failed_timers, AfterFailure,
        start_tl_fail_timers
<1>16. CASE EhStart
    BY <1>16 DEF EhStart
<1>17. ASSUME NEW l \in {"lock", "eh_lock", "idle"}, EhNext(l) PROVE DeviceInv'
    BY <1>17 DEF EhNext
<1>18. ASSUME NEW d \in Devs, EhOffline(d) PROVE DeviceInv'
    BY <1>18 DEF EhOffline
<1>19. CASE srp_reconnect_interrupted
    BY <1>19 DEF srp_reconnect_interrupted
<1>20. ASSUME NEW d \in Devs, srp_queuecommand_eh(d) PROVE DeviceInv'
    BY <1>20 DEF srp_queuecommand_eh
<1>21. CASE srp_queuecommand_eh_done
    BY <1>21 DEF srp_queuecommand_eh_done
<1>22. ASSUME NEW s \in Submitters, NEW d \in Devs, Dispatch(s, d) PROVE DeviceInv'
    BY <1>22 DEF Dispatch
<1>23. ASSUME NEW s \in Submitters, srp_queuecommand(s) PROVE DeviceInv'
    BY <1>23 DEF srp_queuecommand
<1>24. ASSUME NEW s \in Submitters, srp_queuecommand_done(s) PROVE DeviceInv'
    BY <1>24 DEF srp_queuecommand_done
<1>25. ASSUME NEW w \in Writers, NEW a \in Attrs, NEW v \in Values(a), store_begin(w, a, v) PROVE DeviceInv'
    BY <1>25 DEF store_begin
<1>26. ASSUME NEW w \in Writers, store_reconnect_delay(w) PROVE DeviceInv'
    BY <1>26 DEF store_reconnect_delay
<1>27. ASSUME NEW w \in Writers, store_assign(w) PROVE DeviceInv'
    BY <1>27 DEF store_assign
<1>28. CASE srp_remove_work
    BY <1>28 DEF srp_remove_work
<1>29. CASE srp_remove_host
    BY <1>29 DEF srp_remove_host
<1>30. ASSUME NEW d \in Devs, scsi_remove_device(d) PROVE DeviceInv'
    BY <1>30 DEF scsi_remove_device
<1>31. CASE scsi_remove_host
    BY <1>31 DEF scsi_remove_host
<1>32. CASE srp_stop_rport_timers
    BY <1>32 DEF srp_stop_rport_timers, rport_fail_io_fast
<1>33. CASE srp_stop_rport_timers_lost
    BY <1>33 DEF srp_stop_rport_timers_lost, StartCancel
<1>34. CASE cancel_reconnect_work_sync
    BY <1>34 DEF cancel_reconnect_work_sync, StartCancel
<1>35. CASE cancel_fast_io_fail_work_sync
    BY <1>35 DEF cancel_fast_io_fail_work_sync, StartCancel
<1>36. CASE cancel_dev_loss_work_sync
    BY <1>36 DEF cancel_dev_loss_work_sync
<1>37. CASE srp_free_ch_ib
    BY <1>37 DEF srp_free_ch_ib, StartCancel
<1>38. CASE srp_rport_put
    BY <1>38 DEF srp_rport_put
<1>39. CASE UNCHANGED vars
    BY <1>39 DEF vars
<1> HIDE DEF Goto, tunables, Threads, Works, RportWorks, NoThread, Labels,
    Holding, CancelLabels, TypeOK, MutexInv, ReconnectInv, DeviceInv,
    Reconnecting, Reconnecters, scsi_target_block, scsi_target_unblock,
    srp_rport_set_state, States, SdevStates
<1> QED
    BY <1>1, <1>2, <1>3, <1>4, <1>5, <1>6, <1>7, <1>8, <1>9, <1>10, <1>11,
       <1>12, <1>13, <1>14, <1>15, <1>16, <1>17, <1>18, <1>19, <1>20, <1>21,
       <1>22, <1>23, <1>24, <1>25, <1>26, <1>27, <1>28, <1>29, <1>30, <1>31,
       <1>32, <1>33, <1>34, <1>35, <1>36, <1>37, <1>38, <1>39 DEF Next,
       WorkerStep, ReconnectStep, EhStep, SubmitStep, StoreStep, RemoveStep

(***************************************************************************)
(* What the removal has established stays established.                     *)
(***************************************************************************)
LEMMA StopStep ==
    ASSUME TypeOK, MutexInv, EhInv, ReconnectInv, StopInv, [Next]_vars
    PROVE  StopInv'
<1> USE DEF Goto, tunables, Threads, Works, RportWorks, NoThread, Labels,
    Holding, CancelLabels, TypeOK, MutexInv, EhInv, ReconnectInv, StopInv,
    Quiet, StagesFreed, StagesLost, StagesHostGone, Queue, Cancel,
    Cancelling, Reconnecters, scsi_target_block, scsi_target_unblock,
    srp_rport_set_state, NoSubmit, NoStore, States, SdevStates
<1>1. CASE TransportError
    BY <1>1 DEF TransportError
<1>2. CASE store_srp_rport_delete
    BY <1>2 DEF store_srp_rport_delete, srp_queue_remove_work
<1>3. ASSUME NEW w \in Works, Expire(w) PROVE StopInv'
    BY <1>3 DEF Expire
<1>4. CASE srp_start_tl_fail_timers
    BY <1>4 DEF srp_start_tl_fail_timers, start_tl_fail_timers
<1>5. ASSUME NEW t \in Threads, terminate_rport_io(t) PROVE StopInv'
    BY <1>5 DEF terminate_rport_io
<1>6. CASE rport_fast_io_fail_timedout
    BY <1>6 DEF rport_fast_io_fail_timedout, rport_fail_io_fast
<1>7. CASE rport_fast_io_fail_done
    BY <1>7 DEF rport_fast_io_fail_done
<1>8. CASE rport_dev_loss_timedout
    BY <1>8 DEF rport_dev_loss_timedout
<1>9. CASE rport_dev_loss_delete
    BY <1>9 DEF rport_dev_loss_delete, srp_queue_remove_work
<1>10. CASE srp_reconnect_work
    BY <1>10 DEF srp_reconnect_work
<1>11. ASSUME NEW t \in Reconnecters, srp_reconnect_rport(t) PROVE StopInv'
    BY <1>11 DEF srp_reconnect_rport
<1>12. ASSUME NEW t \in Reconnecters, srp_reconnect_call(t) PROVE StopInv'
    BY <1>12 DEF srp_reconnect_call, AfterFailure
<1>13. ASSUME NEW t \in Reconnecters, srp_reconnect_ok(t) PROVE StopInv'
    BY <1>13 DEF srp_reconnect_ok, AfterSuccess
<1>14. ASSUME NEW t \in Reconnecters, srp_reconnect_failed(t) PROVE StopInv'
    BY <1>14 DEF srp_reconnect_failed, AfterFailure, rport_fail_io_fast
<1>15. ASSUME NEW t \in Reconnecters, srp_reconnect_failed_timers(t) PROVE StopInv'
    BY <1>15 DEF srp_reconnect_failed_timers, AfterFailure,
        start_tl_fail_timers
<1>16. CASE EhStart
    BY <1>16 DEF EhStart, scsi_request_fn_active
<1>17. ASSUME NEW l \in {"lock", "eh_lock", "idle"}, EhNext(l) PROVE StopInv'
    BY <1>17 DEF EhNext
<1>18. ASSUME NEW d \in Devs, EhOffline(d) PROVE StopInv'
    BY <1>18 DEF EhOffline
<1>19. CASE srp_reconnect_interrupted
    BY <1>19 DEF srp_reconnect_interrupted
<1>20. ASSUME NEW d \in Devs, srp_queuecommand_eh(d) PROVE StopInv'
    BY <1>20 DEF srp_queuecommand_eh
<1>21. CASE srp_queuecommand_eh_done
    BY <1>21 DEF srp_queuecommand_eh_done
<1>22. ASSUME NEW s \in Submitters, NEW d \in Devs, Dispatch(s, d) PROVE StopInv'
    BY <1>22 DEF Dispatch
<1>23. ASSUME NEW s \in Submitters, srp_queuecommand(s) PROVE StopInv'
    BY <1>23 DEF srp_queuecommand
<1>24. ASSUME NEW s \in Submitters, srp_queuecommand_done(s) PROVE StopInv'
    BY <1>24 DEF srp_queuecommand_done
<1>25. ASSUME NEW w \in Writers, NEW a \in Attrs, NEW v \in Values(a), store_begin(w, a, v) PROVE StopInv'
    BY <1>25 DEF store_begin
<1>26. ASSUME NEW w \in Writers, store_reconnect_delay(w) PROVE StopInv'
    BY <1>26 DEF store_reconnect_delay
<1>27. ASSUME NEW w \in Writers, store_assign(w) PROVE StopInv'
    BY <1>27 DEF store_assign
<1>28. CASE srp_remove_work
    BY <1>28 DEF srp_remove_work
<1>29. CASE srp_remove_host
    BY <1>29 DEF srp_remove_host
<1>30. ASSUME NEW d \in Devs, scsi_remove_device(d) PROVE StopInv'
    BY <1>30 DEF scsi_remove_device
<1>31. CASE scsi_remove_host
    BY <1>31 DEF scsi_remove_host
<1>32. CASE srp_stop_rport_timers
    BY <1>32 DEF srp_stop_rport_timers, rport_fail_io_fast
<1>33. CASE srp_stop_rport_timers_lost
    <2>1. /\ pc' = [pc EXCEPT !["remove_work"] = "cancel_reconnect_work"]
          /\ state' = "lost" /\ UNCHANGED <<sdev, submit, store>>
        BY <1>33 DEF srp_stop_rport_timers_lost, StartCancel
    <2>2. pc["remove_work"] \in {"lock", "terminate"}
        BY <1>33 DEF srp_stop_rport_timers_lost
    <2>3. pend' = Cancel({"reconnect_work"})
        BY <1>33 DEF srp_stop_rport_timers_lost, StartCancel
    <2> QED BY <2>1, <2>2, <2>3, Zenon
<1>34. CASE cancel_reconnect_work_sync
    BY <1>34 DEF cancel_reconnect_work_sync, StartCancel
<1>35. CASE cancel_fast_io_fail_work_sync
    BY <1>35 DEF cancel_fast_io_fail_work_sync, StartCancel
<1>36. CASE cancel_dev_loss_work_sync
    BY <1>36 DEF cancel_dev_loss_work_sync
<1>37. CASE srp_free_ch_ib
    BY <1>37 DEF srp_free_ch_ib, StartCancel
<1>38. CASE srp_rport_put
    BY <1>38 DEF srp_rport_put
<1>39. CASE UNCHANGED vars
    BY <1>39 DEF vars
<1> HIDE DEF Goto, tunables, Threads, Works, RportWorks, NoThread, Labels,
    Holding, CancelLabels, TypeOK, MutexInv, EhInv, ReconnectInv, StopInv,
    Quiet, StagesFreed, StagesLost, StagesHostGone, Queue, Cancel,
    Cancelling, Reconnecters, scsi_target_block, scsi_target_unblock,
    srp_rport_set_state, NoSubmit, NoStore, States, SdevStates
<1> QED
    BY <1>1, <1>2, <1>3, <1>4, <1>5, <1>6, <1>7, <1>8, <1>9, <1>10, <1>11,
       <1>12, <1>13, <1>14, <1>15, <1>16, <1>17, <1>18, <1>19, <1>20, <1>21,
       <1>22, <1>23, <1>24, <1>25, <1>26, <1>27, <1>28, <1>29, <1>30, <1>31,
       <1>32, <1>33, <1>34, <1>35, <1>36, <1>37, <1>38, <1>39 DEF Next,
       WorkerStep, ReconnectStep, EhStep, SubmitStep, StoreStep, RemoveStep

(***************************************************************************)
(* Every step keeps a timer behind the blocked state.                      *)
(***************************************************************************)
LEMMA BlockedStep ==
    ASSUME TypeOK, MutexInv, ReconnectInv, StopInv, BlockedIsTimed, [Next]_vars
    PROVE  BlockedIsTimed'
<1> USE DEF Goto, tunables, Threads, Works, RportWorks, NoThread, Labels,
    Holding, CancelLabels, TypeOK, MutexInv, ReconnectInv, StopInv,
    BlockedIsTimed, StagesFreed, StagesLost, Queue, Cancel, Cancelling,
    Reconnecters, srp_rport_set_state, States
<1>1. CASE TransportError
    BY <1>1 DEF TransportError
<1>2. CASE store_srp_rport_delete
    BY <1>2 DEF store_srp_rport_delete, srp_queue_remove_work
<1>3. ASSUME NEW w \in Works, Expire(w) PROVE BlockedIsTimed'
    BY <1>3 DEF Expire
<1>4. CASE srp_start_tl_fail_timers
    <2>1. CASE UNCHANGED state
        <3>1. \A w \in Works : pend[w] => pend'[w]
            BY <1>4 DEF srp_start_tl_fail_timers, start_tl_fail_timers
        <3>2. \A w \in {"fast_io_fail_work", "dev_loss_work"} : pc'[w] = pc[w]
            BY <1>4 DEF srp_start_tl_fail_timers
        <3> QED BY <2>1, <3>1, <3>2
    <2>2. CASE state' = "blocked" /\ state # "blocked"
        <3>1. state # "lost" /\ (fast_io_fail_tmo >= 0 \/ dev_loss_tmo >= 0)
            BY <1>4, <2>2 DEF srp_start_tl_fail_timers, start_tl_fail_timers
        <3>2. \A w \in RportWorks : ~Cancelling(w)
            BY <3>1
        <3>3. srp_rport_set_state(state, "blocked")
            BY <1>4, <2>2 DEF srp_start_tl_fail_timers, start_tl_fail_timers
        <3>4. CASE fast_io_fail_tmo >= 0
            <4>1. pend'["fast_io_fail_work"]
                BY <1>4, <3>1, <3>2, <3>3, <3>4, Zenon
                   DEF srp_start_tl_fail_timers, start_tl_fail_timers
            <4> QED BY <4>1
        <3>5. CASE dev_loss_tmo >= 0
            <4>1. pend'["dev_loss_work"]
                BY <1>4, <3>1, <3>2, <3>3, <3>5, Zenon
                   DEF srp_start_tl_fail_timers, start_tl_fail_timers
            <4> QED BY <4>1
        <3> QED BY <3>1, <3>4, <3>5
    <2> QED BY <1>4, <2>1, <2>2 DEF srp_start_tl_fail_timers, start_tl_fail_timers
<1>5. ASSUME NEW t \in Threads, terminate_rport_io(t) PROVE BlockedIsTimed'
    BY <1>5 DEF terminate_rport_io
<1>6. CASE rport_fast_io_fail_timedout
    BY <1>6 DEF rport_fast_io_fail_timedout, rport_fail_io_fast
<1>7. CASE rport_fast_io_fail_done
    BY <1>7 DEF rport_fast_io_fail_done
<1>8. CASE rport_dev_loss_timedout
    BY <1>8 DEF rport_dev_loss_timedout
<1>9. CASE rport_dev_loss_delete
    BY <1>9 DEF rport_dev_loss_delete, srp_queue_remove_work
<1>10. CASE srp_reconnect_work
    BY <1>10 DEF srp_reconnect_work
<1>11. ASSUME NEW t \in Reconnecters, srp_reconnect_rport(t) PROVE BlockedIsTimed'
    BY <1>11 DEF srp_reconnect_rport
<1>12. ASSUME NEW t \in Reconnecters, srp_reconnect_call(t) PROVE BlockedIsTimed'
    BY <1>12 DEF srp_reconnect_call, AfterFailure
<1>13. ASSUME NEW t \in Reconnecters, srp_reconnect_ok(t) PROVE BlockedIsTimed'
    BY <1>13 DEF srp_reconnect_ok, AfterSuccess
<1>14. ASSUME NEW t \in Reconnecters, srp_reconnect_failed(t) PROVE BlockedIsTimed'
    BY <1>14 DEF srp_reconnect_failed, AfterFailure, rport_fail_io_fast
<1>15. ASSUME NEW t \in Reconnecters, srp_reconnect_failed_timers(t) PROVE BlockedIsTimed'
    BY <1>15 DEF srp_reconnect_failed_timers, AfterFailure,
        start_tl_fail_timers
<1>16. CASE EhStart
    BY <1>16 DEF EhStart
<1>17. ASSUME NEW l \in {"lock", "eh_lock", "idle"}, EhNext(l) PROVE BlockedIsTimed'
    BY <1>17 DEF EhNext
<1>18. ASSUME NEW d \in Devs, EhOffline(d) PROVE BlockedIsTimed'
    BY <1>18 DEF EhOffline
<1>19. CASE srp_reconnect_interrupted
    BY <1>19 DEF srp_reconnect_interrupted
<1>20. ASSUME NEW d \in Devs, srp_queuecommand_eh(d) PROVE BlockedIsTimed'
    BY <1>20 DEF srp_queuecommand_eh
<1>21. CASE srp_queuecommand_eh_done
    BY <1>21 DEF srp_queuecommand_eh_done
<1>22. ASSUME NEW s \in Submitters, NEW d \in Devs, Dispatch(s, d) PROVE BlockedIsTimed'
    BY <1>22 DEF Dispatch
<1>23. ASSUME NEW s \in Submitters, srp_queuecommand(s) PROVE BlockedIsTimed'
    BY <1>23 DEF srp_queuecommand
<1>24. ASSUME NEW s \in Submitters, srp_queuecommand_done(s) PROVE BlockedIsTimed'
    BY <1>24 DEF srp_queuecommand_done
<1>25. ASSUME NEW w \in Writers, NEW a \in Attrs, NEW v \in Values(a), store_begin(w, a, v) PROVE BlockedIsTimed'
    BY <1>25 DEF store_begin
<1>26. ASSUME NEW w \in Writers, store_reconnect_delay(w) PROVE BlockedIsTimed'
    BY <1>26 DEF store_reconnect_delay
<1>27. ASSUME NEW w \in Writers, store_assign(w) PROVE BlockedIsTimed'
    BY <1>27 DEF store_assign
<1>28. CASE srp_remove_work
    BY <1>28 DEF srp_remove_work
<1>29. CASE srp_remove_host
    BY <1>29 DEF srp_remove_host
<1>30. ASSUME NEW d \in Devs, scsi_remove_device(d) PROVE BlockedIsTimed'
    BY <1>30 DEF scsi_remove_device
<1>31. CASE scsi_remove_host
    BY <1>31 DEF scsi_remove_host
<1>32. CASE srp_stop_rport_timers
    BY <1>32 DEF srp_stop_rport_timers, rport_fail_io_fast
<1>33. CASE srp_stop_rport_timers_lost
    BY <1>33 DEF srp_stop_rport_timers_lost, StartCancel
<1>34. CASE cancel_reconnect_work_sync
    BY <1>34 DEF cancel_reconnect_work_sync, StartCancel
<1>35. CASE cancel_fast_io_fail_work_sync
    BY <1>35 DEF cancel_fast_io_fail_work_sync, StartCancel
<1>36. CASE cancel_dev_loss_work_sync
    BY <1>36 DEF cancel_dev_loss_work_sync
<1>37. CASE srp_free_ch_ib
    BY <1>37 DEF srp_free_ch_ib, StartCancel
<1>38. CASE srp_rport_put
    BY <1>38 DEF srp_rport_put
<1>39. CASE UNCHANGED vars
    BY <1>39 DEF vars
<1> HIDE DEF Goto, tunables, Threads, Works, RportWorks, NoThread, Labels,
    Holding, CancelLabels, TypeOK, MutexInv, ReconnectInv, StopInv,
    BlockedIsTimed, StagesFreed, StagesLost, Queue, Cancel, Cancelling,
    Reconnecters, srp_rport_set_state, States
<1> QED
    BY <1>1, <1>2, <1>3, <1>4, <1>5, <1>6, <1>7, <1>8, <1>9, <1>10, <1>11,
       <1>12, <1>13, <1>14, <1>15, <1>16, <1>17, <1>18, <1>19, <1>20, <1>21,
       <1>22, <1>23, <1>24, <1>25, <1>26, <1>27, <1>28, <1>29, <1>30, <1>31,
       <1>32, <1>33, <1>34, <1>35, <1>36, <1>37, <1>38, <1>39 DEF Next,
       WorkerStep, ReconnectStep, EhStep, SubmitStep, StoreStep, RemoveStep

(***************************************************************************)
(* A port that srp_rport_add() has just published satisfies the invariant. *)
(***************************************************************************)
LEMMA InitInv == Init => IInv
<1> SUFFICES ASSUME Init PROVE IInv
    OBVIOUS
<1> USE RportConstants DEF Init, Threads, Works, RportWorks, NoThread
<1>1. TypeOK
  <2>1. /\ reconnect_delay \in TmoRange("reconnect_delay")
        /\ fast_io_fail_tmo \in TmoRange("fast_io_fail_tmo")
        /\ dev_loss_tmo \in TmoRange("dev_loss_tmo")
    BY DEF TmoRange, srp_tmo_valid
  <2>2. Off \in TmoRange("reconnect_delay") /\ Off \in Int
    BY DEF Off, TmoRange
  <2> QED
    BY <2>1, <2>2 DEF TypeOK, StoredInRange, States, SdevStates, Labels, Holding, CancelLabels,
       Attrs, NoSubmit, NoStore
<1>2. MutexInv /\ EhInv /\ BlockedIsTimed
    BY DEF MutexInv, EhInv, BlockedIsTimed, Holding, NoSubmit
<1>3. ReconnectInv /\ DeviceInv
    BY DEF ReconnectInv, DeviceInv, Reconnecting
<1>4. StopInv
    BY DEF StopInv, StagesFreed, StagesLost, StagesHostGone, CancelLabels,
           NoSubmit, NoStore
<1> QED
    BY <1>1, <1>2, <1>3, <1>4 DEF IInv

(***************************************************************************)
(* The invariant IInv holds in every behaviour of the transport layer.     *)
(***************************************************************************)
THEOREM Invariance == Spec => []IInv
<1>1. IInv /\ [Next]_vars => IInv'
    BY TypeStep, MutexStep, EhStepInv, ReconnectStepInv, DeviceStep, StopStep,
       BlockedStep DEF IInv
<1> QED
    BY InitInv, <1>1, PTL DEF Spec

(***************************************************************************)
(* The fields of struct srp_rport and the threads keep their types.        *)
(***************************************************************************)
THEOREM TypeCorrect == Spec => []TypeOK
<1>1. IInv => TypeOK
    BY DEF IInv
<1> QED
    BY Invariance, <1>1, PTL

(***************************************************************************)
(* A blocked port always has a fast_io_fail or dev_loss timer behind it,   *)
(* whatever the writers, the error handler and a removal do.               *)
(***************************************************************************)
THEOREM BlockedIsAlwaysTimed == Spec => []BlockedIsTimed
<1>1. IInv => BlockedIsTimed
    BY DEF IInv
<1> QED
    BY Invariance, <1>1, PTL

(***************************************************************************)
(* reconnect() and terminate_rport_io() never overlap with                 *)
(* srp_queuecommand(), for any number of submitters and devices.           *)
(***************************************************************************)
THEOREM Exclusion == Spec => []QueuecommandExcluded
<1>1. IInv => QueuecommandExcluded
  <2> SUFFICES ASSUME IInv, NEW t \in Threads,
                      pc[t] \in {"reconnect", "terminate"}
               PROVE  /\ \A s \in Submitters : submit[s].at # "queuecommand"
                      /\ pc["eh"] # "eh_queuecommand"
      BY DEF QueuecommandExcluded
  <2>1. \A s \in Submitters : submit[s].at # "queuecommand"
      BY DEF IInv, ReconnectInv
  <2>2. pc["eh"] # "eh_queuecommand"
      BY DEF IInv, MutexInv, Holding, Threads, Works, RportWorks
  <2> QED
      BY <2>1, <2>2
<1> QED
    BY Invariance, <1>1, PTL

(***************************************************************************)
(* Whenever rport->mutex is free no device of a running, failed or lost    *)
(* port is blocked and every device of a blocked port is.                  *)
(***************************************************************************)
THEOREM DevicesAgree == Spec => []DevicesFollowPort
<1>1. IInv => DevicesFollowPort
  <2> SUFFICES ASSUME IInv, mutex = NoThread, NEW d \in Devs
               PROVE  sdev[d] \in
                        CASE state = "running" -> {"running", "offline", "del"}
                          [] state = "blocked" -> {"block", "offline", "del"}
                          [] OTHER -> SdevStates \ {"block"}
      BY DEF DevicesFollowPort
  <2>1. ~Reconnecting
      BY DEF IInv, MutexInv, Reconnecting, Holding, NoThread, Threads, Works,
             RportWorks
  <2>2. state \in States /\ sdev[d] \in SdevStates
      BY DEF IInv, TypeOK
  <2> QED
      BY <2>1, <2>2 DEF IInv, DeviceInv, States
<1> QED
    BY Invariance, <1>1, PTL

(***************************************************************************)
(* After srp_stop_rport_timers() no work of the port is armed or running,  *)
(* and when srp_remove_target() drops its reference nobody uses the port.  *)
(***************************************************************************)
THEOREM StoppedStaysQuiet == Spec => []StoppedIsQuiet
<1>1. IInv => StoppedIsQuiet
  <2> SUFFICES ASSUME IInv PROVE StoppedIsQuiet
      OBVIOUS
  <2>1. ASSUME pc["remove_work"] \in StagesFreed
        PROVE  /\ \A w \in RportWorks : ~pend[w] /\ pc[w] = "idle"
               /\ state = "lost" /\ \A d \in Devs : sdev[d] = "del"
      BY <2>1 DEF IInv, StopInv, StagesFreed, StagesLost, StagesHostGone,
             CancelLabels, Quiet, RportWorks
  <2>2. ASSUME pc["remove_work"] \in StagesFreed
        PROVE  pc["eh"] \notin {"reconnect", "terminate", "eh_queuecommand"}
      BY <2>1, <2>2 DEF IInv, ReconnectInv, srp_chkready, Threads
  <2>3. ASSUME pc["remove_work"] \in StagesFreed PROVE ~scsi_request_fn_active
      BY <2>1, <2>3 DEF IInv, TypeOK, StopInv, scsi_request_fn_active
  <2>4. ASSUME pc["remove_work"] = "gone"
        PROVE  /\ \A t \in Threads \ {"remove_work", "eh"} : pc[t] = "idle"
               /\ ~pend["tl_err_work"]
               /\ \A w \in Writers : store[w].at = "idle"
      BY <2>1, <2>4 DEF IInv, StopInv, StagesFreed, StagesLost, StagesHostGone,
             Quiet, Threads, Works
  <2> QED
      BY <2>1, <2>2, <2>3, <2>4 DEF StoppedIsQuiet, StagesFreed
<1> QED
    BY Invariance, <1>1, PTL

-----------------------------------------------------------------------------
(***************************************************************************)
(* SrpRport implements SrpPortService: every step of the works, the sysfs  *)
(* writers, the SCSI core and the removal is a step of the service or      *)
(* leaves its three variables alone.                                       *)
(***************************************************************************)

(***************************************************************************)
(* The values the refinement mapping gives to held and attempt.            *)
(***************************************************************************)
Held == {d \in Devs : sdev[d] = "block"}
Attempt == \E t \in Reconnecters : mutex = t /\ pc[t] # "eh_queuecommand"

ServiceStep == UNCHANGED <<state, Held, Attempt>> \/ Service!Next

(***************************************************************************)
(* A step that leaves the state of the port, the blocked devices, the      *)
(* mutex and the error handler's place under it alone is invisible.        *)
(***************************************************************************)
LEMMA Invisible ==
    ASSUME UNCHANGED <<state, mutex>>, Held' = Held,
           \A t \in Reconnecters :
              mutex = t => (pc[t] = "eh_queuecommand" <=> pc'[t] = "eh_queuecommand")
    PROVE  ServiceStep
<1>1. Attempt' <=> Attempt
    BY DEF Attempt
<1>2. Attempt' = Attempt
    BY <1>1 DEF Attempt
<1> QED
    BY <1>2 DEF ServiceStep

(***************************************************************************)
(* No reconnection attempt is in progress while the mutex is free.         *)
(***************************************************************************)
LEMMA FreeMutex == mutex = NoThread => ~Attempt
BY DEF Attempt, Reconnecters, NoThread

(***************************************************************************)
(* srp_start_tl_fail_timers() is Block, or invisible.                      *)
(***************************************************************************)
LEMMA TimersStep ==
    ASSUME IInv, srp_start_tl_fail_timers
    PROVE  ServiceStep
<1>1. ~Attempt /\ ~Attempt'
    BY DEF srp_start_tl_fail_timers, Attempt, Reconnecters, NoThread
<1>2. CASE state' = state /\ sdev' = sdev
    BY <1>1, <1>2 DEF ServiceStep, Held, Attempt
<1>3. CASE state = "running" /\ state' = "blocked"
  <2>1. Service!Block
      BY <1>1, <1>3 DEF Service!Block, Held, Attempt
  <2> QED
      BY <2>1 DEF ServiceStep, Service!Next
<1> QED
    BY <1>2, <1>3 DEF srp_start_tl_fail_timers, start_tl_fail_timers,
       srp_rport_set_state

(***************************************************************************)
(* __rport_fail_io_fast() is FailFast, when it is called for a blocked     *)
(* port outside, or for a running port inside, a reconnection.             *)
(***************************************************************************)
LEMMA FailIoStep ==
    ASSUME IInv, NEW t \in Threads, rport_fail_io_fast(t),
           \/ state = "blocked" /\ mutex = NoThread /\ t \notin Reconnecters
           \/ state = "running" /\ pc[t] = "reconnect" /\ t \in Reconnecters
    PROVE  ServiceStep
<1>1. state' = "fail_fast" /\ Held' = {}
    BY DEF rport_fail_io_fast, scsi_target_unblock, Held
<1>2. CASE state = "blocked" /\ mutex = NoThread /\ t \notin Reconnecters
  <2>1. ~Attempt /\ ~Attempt'
      BY <1>2 DEF rport_fail_io_fast, Attempt, Reconnecters, NoThread
  <2> QED
      BY <1>1, <1>2, <2>1 DEF Service!FailFast, Service!Next, ServiceStep,
         Held, Attempt
<1>3. CASE state = "running" /\ pc[t] = "reconnect" /\ t \in Reconnecters
  <2>1. mutex = t
      BY <1>3 DEF IInv, MutexInv, Holding
  <2>2. Attempt /\ Attempt'
      BY <1>3, <2>1 DEF rport_fail_io_fast, Attempt, Goto, IInv, TypeOK
  <2> QED
      BY <1>1, <1>3, <2>2 DEF Service!FailFast, Service!Next, ServiceStep,
         Held, Attempt
<1> QED
    BY <1>2, <1>3

(***************************************************************************)
(* rport_dev_loss_timedout() is Lose, or LoseRunning if it comes too late. *)
(***************************************************************************)
LEMMA DevLossStep ==
    ASSUME IInv, rport_dev_loss_timedout
    PROVE  ServiceStep
<1>1. ~Attempt /\ ~Attempt'
    BY DEF rport_dev_loss_timedout, Attempt, Reconnecters, NoThread
<1>2. state' = "lost" /\ Held' = {}
    BY DEF rport_dev_loss_timedout, scsi_target_unblock, Held
<1> QED
    BY <1>1, <1>2 DEF Service!Lose, Service!LoseRunning, Service!Next, ServiceStep,
       Held, Attempt

(***************************************************************************)
(* The end of the locked part of srp_stop_rport_timers() is Lose or        *)
(* LoseRunning: all devices are gone.                                      *)
(***************************************************************************)
LEMMA LostStep ==
    ASSUME IInv, srp_stop_rport_timers_lost
    PROVE  ServiceStep
<1>1. mutex = NoThread \/ mutex = "remove_work"
    BY DEF srp_stop_rport_timers_lost, IInv, MutexInv, Holding, Threads, Works, RportWorks
<1>2. ~Attempt /\ ~Attempt'
    BY <1>1 DEF srp_stop_rport_timers_lost, Attempt, Reconnecters, NoThread
<1>3. Held' = {}
    BY DEF srp_stop_rport_timers_lost, IInv, StopInv, StagesHostGone, Held
<1>4. Service!Lose \/ Service!LoseRunning
    BY <1>2, <1>3 DEF srp_stop_rport_timers_lost, Service!Lose, Service!LoseRunning,
         Held, Attempt
<1> QED
    BY <1>4 DEF Service!Next, ServiceStep

(***************************************************************************)
(* srp_reconnect_rport() begins an attempt when it has the mutex.          *)
(***************************************************************************)
LEMMA BeginStep ==
    ASSUME IInv, NEW t \in Reconnecters, srp_reconnect_rport(t)
    PROVE  ServiceStep
<1>1. ~Attempt
    BY FreeMutex DEF srp_reconnect_rport
<1>2. Attempt'
    BY DEF srp_reconnect_rport, Attempt, Goto, IInv, TypeOK, Reconnecters, Threads, Works, RportWorks
<1>3. Held \subseteq Held' /\ Held' \subseteq Devs
    BY DEF srp_reconnect_rport, scsi_target_block, Held
<1>4. Service!Begin
    BY <1>1, <1>2, <1>3 DEF srp_reconnect_rport, Service!Begin, Held, Attempt
<1> QED
    BY <1>4 DEF Service!Next, ServiceStep

(***************************************************************************)
(* A successful reconnect() is Succeed.                                    *)
(***************************************************************************)
LEMMA SucceedStep ==
    ASSUME IInv, NEW t \in Reconnecters, srp_reconnect_ok(t)
    PROVE  ServiceStep
<1>1. Attempt
    BY DEF srp_reconnect_ok, IInv, MutexInv, Holding, Attempt, Reconnecters,
       Threads, Works, RportWorks
<1>2. ~Attempt'
    BY DEF srp_reconnect_ok, Attempt, Reconnecters, NoThread
<1>3. state # "lost"
    BY DEF srp_reconnect_ok, IInv, ReconnectInv, Reconnecters, Threads, Works, RportWorks
<1>4. state' = "running"
    BY <1>3 DEF srp_reconnect_ok, srp_rport_set_state
<1>5. Held' = {}
    BY DEF srp_reconnect_ok, scsi_target_unblock, Held
<1>6. Service!Succeed
    BY <1>1, <1>2, <1>3, <1>4, <1>5 DEF Service!Succeed, Held, Attempt
<1> QED
    BY <1>6 DEF Service!Next, ServiceStep

(***************************************************************************)
(* Giving up on a lost port is Fail; calling reconnect() is invisible.     *)
(***************************************************************************)
LEMMA CallStep ==
    ASSUME IInv, NEW t \in Reconnecters, srp_reconnect_call(t)
    PROVE  ServiceStep
<1>1. CASE state # "lost"
  <2>1. UNCHANGED <<state, mutex, sdev>> /\ Goto(t, "reconnect")
      BY <1>1 DEF srp_reconnect_call
  <2> QED
      BY <2>1, Invisible DEF srp_reconnect_call, Held, Goto, IInv, TypeOK
<1>2. CASE state = "lost"
  <2>1. Attempt
      BY DEF srp_reconnect_call, IInv, MutexInv, Holding, Attempt,
         Reconnecters, Threads, Works, RportWorks
  <2>2. ~Attempt'
      BY <1>2 DEF srp_reconnect_call, Attempt, Reconnecters, NoThread
  <2>3. UNCHANGED state /\ Held' = {}
      BY <1>2 DEF srp_reconnect_call, scsi_target_unblock, Held
  <2>4. Service!Fail
      BY <1>2, <2>1, <2>2, <2>3 DEF Service!Fail, Held, Attempt
  <2> QED
      BY <2>4 DEF Service!Next, ServiceStep
<1> QED
    BY <1>1, <1>2

(***************************************************************************)
(* A failed reconnect() is FailFast for a running port and Fail otherwise. *)
(***************************************************************************)
LEMMA FailedStep ==
    ASSUME IInv, NEW t \in Reconnecters, srp_reconnect_failed(t)
    PROVE  ServiceStep
<1>1. CASE state = "running"
    BY <1>1, FailIoStep DEF srp_reconnect_failed, Reconnecters, Threads, Works, RportWorks
<1>2. CASE state # "running"
  <2>1. Attempt
      BY DEF srp_reconnect_failed, IInv, MutexInv, Holding, Attempt,
         Reconnecters, Threads, Works, RportWorks
  <2>2. ~Attempt'
      BY <1>2 DEF srp_reconnect_failed, Attempt, Reconnecters, NoThread
  <2>3. UNCHANGED state
      BY <1>2 DEF srp_reconnect_failed
  <2>4. Held' = (IF state = "blocked" THEN Held ELSE {})
    <3>1. CASE state = "blocked"
        BY <3>1 DEF srp_reconnect_failed, Held
    <3>2. CASE state # "blocked"
      <4>1. sdev' = scsi_target_unblock(sdev, "transport_offline")
          BY <1>2, <3>2 DEF srp_reconnect_failed
      <4> QED
          BY <3>2, <4>1 DEF scsi_target_unblock, Held
    <3> QED
        BY <3>1, <3>2
  <2>5. Service!Fail
      BY <1>2, <2>1, <2>2, <2>3, <2>4 DEF Service!Fail, Held, Attempt
  <2> QED
      BY <2>5 DEF Service!Next, ServiceStep
<1> QED
    BY <1>1, <1>2

(***************************************************************************)
(* The end of a failed attempt on a port that was running is Fail.         *)
(***************************************************************************)
LEMMA FailedTimersStep ==
    ASSUME IInv, NEW t \in Reconnecters, srp_reconnect_failed_timers(t)
    PROVE  ServiceStep
<1>1. Attempt
    BY DEF srp_reconnect_failed_timers, IInv, MutexInv, Holding, Attempt, Reconnecters,
       Threads, Works, RportWorks
<1>2. ~Attempt'
    BY DEF srp_reconnect_failed_timers, Attempt, Reconnecters, NoThread
<1>3. state = "fail_fast"
    BY DEF srp_reconnect_failed_timers, IInv, ReconnectInv, Reconnecters,
       Threads, Works, RportWorks
<1>4. ~srp_rport_set_state(state, "blocked")
    BY <1>3 DEF srp_rport_set_state
<1>5. /\ state' = state
      /\ sdev' = scsi_target_unblock(sdev, "transport_offline")
    BY <1>4 DEF srp_reconnect_failed_timers, start_tl_fail_timers
<1>6. Held' = {}
    BY <1>5 DEF scsi_target_unblock, Held
<1>7. Service!Fail
    BY <1>1, <1>2, <1>3, <1>5, <1>6 DEF Service!Fail, Held, Attempt
<1> QED
    BY <1>7 DEF Service!Next, ServiceStep

(***************************************************************************)
(* The error handler taking a device offline is Offline, or invisible for  *)
(* a device that was not blocked.                                          *)
(***************************************************************************)
LEMMA OfflineStep ==
    ASSUME IInv, NEW d \in Devs, EhOffline(d)
    PROVE  ServiceStep
<1> USE DEF EhOffline, IInv, TypeOK
<1>1. UNCHANGED <<state, mutex, pc>>
    OBVIOUS
<1>2. CASE sdev[d] = "block"
  <2>1. d \in Held /\ Held' = Held \ {d}
      BY <1>2 DEF Held
  <2>2. Service!Offline(d)
      BY <1>1, <2>1 DEF Service!Offline, Held, Attempt
  <2> QED
      BY <2>2 DEF Service!Next, ServiceStep
<1>3. CASE sdev[d] # "block"
  <2>1. Held' = Held
      BY <1>3 DEF Held
  <2> QED
      BY <1>1, <2>1, Invisible
<1> QED
    BY <1>2, <1>3

(***************************************************************************)
(* The error handler's own srp_queuecommand() holds the mutex, but is not  *)
(* a reconnection attempt.                                                 *)
(***************************************************************************)
LEMMA EhCommandStep ==
    ASSUME IInv, (\E d \in Devs : srp_queuecommand_eh(d)) \/ srp_queuecommand_eh_done
    PROVE  ServiceStep
<1>1. UNCHANGED <<state, sdev>>
    BY DEF srp_queuecommand_eh, srp_queuecommand_eh_done
<1>2. ~Attempt
    BY DEF srp_queuecommand_eh, srp_queuecommand_eh_done, IInv, MutexInv,
       Holding, Attempt, Reconnecters, NoThread, Threads, Works, RportWorks
<1>3. ~Attempt'
    BY DEF srp_queuecommand_eh, srp_queuecommand_eh_done, IInv, TypeOK, Goto,
       Attempt, Reconnecters, NoThread, Threads, Works, RportWorks
<1> QED
    BY <1>1, <1>2, <1>3 DEF ServiceStep, Held, Attempt

(***************************************************************************)
(* Every step from a state of the invariant is a service step.             *)
(***************************************************************************)
LEMMA StepRefines == ASSUME IInv, [Next]_vars PROVE ServiceStep
<1> USE DEF Goto, tunables
<1>1. CASE TransportError
    BY <1>1, Invisible DEF TransportError, Held, IInv, TypeOK, Reconnecters
<1>2. CASE store_srp_rport_delete
    BY <1>2, Invisible DEF store_srp_rport_delete, srp_queue_remove_work,
       Held, IInv, TypeOK, Reconnecters
<1>3. ASSUME NEW w \in Works, Expire(w) PROVE ServiceStep
    BY <1>3, Invisible DEF Expire, Held, IInv, TypeOK, Reconnecters
<1>4. CASE srp_start_tl_fail_timers
    BY <1>4, TimersStep
<1>5. ASSUME NEW t \in Threads, terminate_rport_io(t) PROVE ServiceStep
    BY <1>5, Invisible DEF terminate_rport_io, Held, IInv, TypeOK,
       Reconnecters
<1>6. CASE rport_fast_io_fail_timedout
  <2>1. CASE state = "blocked"
      BY <1>6, <2>1, FailIoStep DEF rport_fast_io_fail_timedout,
         Reconnecters, Threads, Works, RportWorks
  <2>2. CASE state # "blocked"
    <3>1. UNCHANGED <<state, sdev, mutex>> /\ mutex = NoThread
        BY <1>6, <2>2 DEF rport_fast_io_fail_timedout
    <3> QED
        BY <3>1, Invisible DEF Held, Reconnecters, NoThread
  <2> QED
      BY <2>1, <2>2
<1>7. CASE rport_fast_io_fail_done
  <2>1. mutex = "fast_io_fail_work"
      BY <1>7 DEF rport_fast_io_fail_done, IInv, MutexInv, Holding,
         Threads, Works, RportWorks
  <2>2. ~Attempt /\ ~Attempt'
      BY <1>7, <2>1 DEF rport_fast_io_fail_done, Attempt, Reconnecters,
         NoThread
  <2> QED
      BY <1>7, <2>2 DEF rport_fast_io_fail_done, ServiceStep, Held, Attempt
<1>8. CASE rport_dev_loss_timedout
    BY <1>8, DevLossStep
<1>9. CASE rport_dev_loss_delete
  <2>1. \A t \in Reconnecters : pc'[t] = pc[t]
    <3>1. pc \in [Threads -> Labels]
        BY DEF IInv, TypeOK
    <3>2. CASE pc["remove_work"] = "idle"
        BY <1>9, <3>1, <3>2 DEF rport_dev_loss_delete,
           srp_queue_remove_work, Reconnecters, Threads, Works, RportWorks
    <3>3. CASE pc["remove_work"] # "idle"
        BY <1>9, <3>1, <3>3 DEF rport_dev_loss_delete,
           srp_queue_remove_work, Reconnecters, Threads, Works, RportWorks
    <3> QED
        BY <3>2, <3>3
  <2> QED
      BY <1>9, <2>1, Invisible, Zenon DEF rport_dev_loss_delete, Held
<1>10. CASE srp_reconnect_work
    BY <1>10, Invisible DEF srp_reconnect_work, Held, IInv, TypeOK,
       Reconnecters
<1>11. ASSUME NEW t \in Reconnecters, srp_reconnect_rport(t) PROVE ServiceStep
    BY <1>11, BeginStep
<1>12. ASSUME NEW t \in Reconnecters, srp_reconnect_call(t) PROVE ServiceStep
    BY <1>12, CallStep
<1>13. ASSUME NEW t \in Reconnecters, srp_reconnect_ok(t) PROVE ServiceStep
    BY <1>13, SucceedStep
<1>14. ASSUME NEW t \in Reconnecters, srp_reconnect_failed(t) PROVE ServiceStep
    BY <1>14, FailedStep
<1>15. ASSUME NEW t \in Reconnecters, srp_reconnect_failed_timers(t) PROVE ServiceStep
    BY <1>15, FailedTimersStep
<1>16. CASE EhStart
    BY <1>16, Invisible DEF EhStart, Held, IInv, TypeOK, MutexInv, Holding,
       Reconnecters, Threads, Works, RportWorks
<1>17. ASSUME NEW l \in {"lock", "eh_lock", "idle"}, EhNext(l) PROVE ServiceStep
    BY <1>17, Invisible DEF EhNext, Held, IInv, TypeOK, MutexInv, Holding,
       Reconnecters, Threads, Works, RportWorks
<1>18. ASSUME NEW d \in Devs, EhOffline(d) PROVE ServiceStep
    BY <1>18, OfflineStep
<1>19. CASE srp_reconnect_interrupted
    BY <1>19, Invisible DEF srp_reconnect_interrupted, Held, IInv, TypeOK,
       MutexInv, Holding, Reconnecters, Threads, Works, RportWorks
<1>20. ASSUME NEW d \in Devs, srp_queuecommand_eh(d) PROVE ServiceStep
    BY <1>20, EhCommandStep
<1>21. CASE srp_queuecommand_eh_done
    BY <1>21, EhCommandStep
<1>22. ASSUME NEW s \in Submitters, NEW d \in Devs, Dispatch(s, d) PROVE ServiceStep
    BY <1>22, Invisible DEF Dispatch, Held, IInv, TypeOK, Reconnecters
<1>23. ASSUME NEW s \in Submitters, srp_queuecommand(s) PROVE ServiceStep
    BY <1>23, Invisible DEF srp_queuecommand, Held, IInv, TypeOK,
       Reconnecters
<1>24. ASSUME NEW s \in Submitters, srp_queuecommand_done(s) PROVE ServiceStep
    BY <1>24, Invisible DEF srp_queuecommand_done, Held, IInv, TypeOK,
       Reconnecters
<1>25. ASSUME NEW w \in Writers, NEW a \in Attrs, NEW v \in Values(a), store_begin(w, a, v) PROVE ServiceStep
    BY <1>25, Invisible DEF store_begin, Held, IInv, TypeOK, Reconnecters
<1>26. ASSUME NEW w \in Writers, store_reconnect_delay(w) PROVE ServiceStep
    BY <1>26, Invisible DEF store_reconnect_delay, Held, IInv, TypeOK,
       Reconnecters
<1>27. ASSUME NEW w \in Writers, store_assign(w) PROVE ServiceStep
    BY <1>27, Invisible DEF store_assign, Held, IInv, TypeOK, Reconnecters
<1>28. CASE srp_remove_work
    BY <1>28, Invisible DEF srp_remove_work, Held, IInv, TypeOK,
       Reconnecters
<1>29. CASE srp_remove_host
    BY <1>29, Invisible DEF srp_remove_host, Held, IInv, TypeOK,
       Reconnecters
<1>30. ASSUME NEW d \in Devs, scsi_remove_device(d) PROVE ServiceStep
  <2>1. Held' = Held
      BY <1>30 DEF scsi_remove_device, Held, IInv, TypeOK
  <2> QED
      BY <1>30, <2>1, Invisible DEF scsi_remove_device
<1>31. CASE scsi_remove_host
    BY <1>31, Invisible DEF scsi_remove_host, Held, IInv, TypeOK,
       Reconnecters
<1>32. CASE srp_stop_rport_timers
    BY <1>32, FailIoStep DEF srp_stop_rport_timers, Reconnecters,
       Threads, Works, RportWorks
<1>33. CASE srp_stop_rport_timers_lost
    BY <1>33, LostStep
<1>34. CASE cancel_reconnect_work_sync
    BY <1>34, Invisible DEF cancel_reconnect_work_sync, StartCancel, Held,
       IInv, TypeOK, Reconnecters
<1>35. CASE cancel_fast_io_fail_work_sync
    BY <1>35, Invisible DEF cancel_fast_io_fail_work_sync, StartCancel,
       Held, IInv, TypeOK, Reconnecters
<1>36. CASE cancel_dev_loss_work_sync
    BY <1>36, Invisible DEF cancel_dev_loss_work_sync, Held, IInv, TypeOK,
       Reconnecters
<1>37. CASE srp_free_ch_ib
    BY <1>37, Invisible DEF srp_free_ch_ib, StartCancel, Held, IInv, TypeOK,
       Reconnecters
<1>38. CASE srp_rport_put
    BY <1>38, Invisible DEF srp_rport_put, Held, IInv, TypeOK, Reconnecters
<1>39. CASE UNCHANGED vars
    BY <1>39, Invisible DEF vars, Held
<1> QED
    BY <1>1, <1>2, <1>3, <1>4, <1>5, <1>6, <1>7, <1>8, <1>9, <1>10, <1>11,
       <1>12, <1>13, <1>14, <1>15, <1>16, <1>17, <1>18, <1>19, <1>20, <1>21,
       <1>22, <1>23, <1>24, <1>25, <1>26, <1>27, <1>28, <1>29, <1>30, <1>31,
       <1>32, <1>33, <1>34, <1>35, <1>36, <1>37, <1>38, <1>39 DEF Next,
       WorkerStep, ReconnectStep, EhStep, SubmitStep, StoreStep, RemoveStep

(***************************************************************************)
(* The transport layer implements the port service: for any devices,       *)
(* submitters, writers and tunables, a port moves only along the edges of  *)
(* SrpPortService, and I/O is held back and released with them.            *)
(***************************************************************************)
THEOREM Refinement == Spec => ImplementsService
<1>1. Init => Service!Init
    BY DEF Init, Service!Init, Reconnecters, NoThread
<1>2. IInv /\ [Next]_vars => [Service!Next]_(Service!vars)
    BY StepRefines DEF ServiceStep, Held, Attempt, Service!vars
<1> QED
    BY <1>1, <1>2, Invariance, PTL DEF Spec, ImplementsService, Service!Spec

-----------------------------------------------------------------------------
(***************************************************************************)
(* The chain of reconnection attempts.  A blocked or failed port has       *)
(* reconnect_work armed or running, unless srp_reset_host() has just       *)
(* failed the port and has still to start the timers.  That needs a        *)
(* reconnect_delay that store_reconnect_delay() does not change meanwhile. *)
(***************************************************************************)
TimersFollow == pc["eh"] \in {"fail_io", "terminate"}

ScheduledInv ==
    state \in {"blocked", "fail_fast"} /\ reconnect_delay > 0 =>
        pend["reconnect_work"] \/ pc["reconnect_work"] # "idle" \/ TimersFollow

DelayInv ==
    \A w \in Writers : store[w].at = "assign" => store[w].attr # "reconnect_delay"

DelayNotWritten == [][\A w \in Writers : ~store_reconnect_delay(w)]_vars

(***************************************************************************)
(* No write of reconnect_delay gets as far as the assignment.              *)
(***************************************************************************)
LEMMA DelayStep ==
    ASSUME IInv, DelayInv, Next, \A w \in Writers : ~store_reconnect_delay(w)
    PROVE  DelayInv' /\ reconnect_delay' = reconnect_delay
<1>1. store \in [Writers -> [at : {"idle", "rearm", "assign"}, attr : Attrs, val : Int]]
    BY DEF IInv, TypeOK
<1>2. ASSUME NEW w \in Writers, NEW a \in Attrs, NEW v \in Values(a),
             store_begin(w, a, v)
      PROVE  DelayInv' /\ reconnect_delay' = reconnect_delay
    BY <1>1, <1>2 DEF store_begin, DelayInv, tunables
<1>3. ASSUME NEW w \in Writers, store_assign(w)
      PROVE  DelayInv' /\ reconnect_delay' = reconnect_delay
    BY <1>1, <1>3 DEF store_assign, DelayInv, NoStore
<1>4. CASE StoreStep
    BY <1>2, <1>3, <1>4 DEF StoreStep
<1>5. CASE ~StoreStep
  <2>1. UNCHANGED <<store, reconnect_delay>>
      BY <1>5 DEF Next, TransportError, store_srp_rport_delete, WorkerStep,
         Expire, srp_start_tl_fail_timers, terminate_rport_io,
         rport_fast_io_fail_timedout, rport_fast_io_fail_done,
         rport_dev_loss_timedout, rport_dev_loss_delete, srp_reconnect_work,
         ReconnectStep, srp_reconnect_rport, srp_reconnect_call,
         srp_reconnect_ok, srp_reconnect_failed, srp_reconnect_failed_timers,
         EhStep, EhStart, EhNext, EhOffline, srp_reconnect_interrupted,
         srp_queuecommand_eh, srp_queuecommand_eh_done, SubmitStep, Dispatch,
         srp_queuecommand, srp_queuecommand_done, RemoveStep, srp_remove_work,
         srp_remove_host, scsi_remove_device, scsi_remove_host,
         srp_stop_rport_timers, srp_stop_rport_timers_lost,
         cancel_reconnect_work_sync, cancel_fast_io_fail_work_sync,
         cancel_dev_loss_work_sync, srp_free_ch_ib, srp_rport_put, tunables
  <2> QED
      BY <2>1 DEF DelayInv
<1> QED
    BY <1>4, <1>5

(***************************************************************************)
(* start_tl_fail_timers() arms reconnect_work, if the port is not lost.    *)
(***************************************************************************)
LEMMA TimersArm ==
    ASSUME IInv, NEW st, NEW sd, start_tl_fail_timers(st, sd), state # "lost",
           st # "lost", reconnect_delay > 0
    PROVE  pend'["reconnect_work"]
<1>1. ~Cancelling("reconnect_work")
    BY DEF Cancelling, IInv, StopInv, StagesLost, CancelLabels
<1>2. "reconnect_work" \in RportWorks /\ "reconnect_work" \in Works
    BY DEF Works, RportWorks
<1> QED
    BY <1>1, <1>2, Zenon DEF start_tl_fail_timers, Queue

(***************************************************************************)
(* Every step keeps the chain.                                             *)
(***************************************************************************)
LEMMA ScheduledStep ==
    ASSUME IInv, ScheduledInv, Next, reconnect_delay' = reconnect_delay,
           \A w \in Writers : ~store_reconnect_delay(w)
    PROVE  ScheduledInv'
<1>0. /\ pc \in [Threads -> Labels] /\ state \in States /\ pend \in [Works -> BOOLEAN]
      /\ "reconnect_work" \in Works /\ "reconnect_work" \in Threads /\ "eh" \in Threads
    BY DEF IInv, TypeOK, Threads, Works, RportWorks
<1>1. CASE TransportError
    BY <1>1, Zenon DEF TransportError, Queue, ScheduledInv, TimersFollow, Works,
       RportWorks
<1>2. CASE store_srp_rport_delete \/ rport_dev_loss_delete
    BY <1>0, <1>2 DEF store_srp_rport_delete, rport_dev_loss_delete,
       srp_queue_remove_work, ScheduledInv, TimersFollow
<1>3. ASSUME NEW w \in Works, Expire(w) PROVE ScheduledInv'
    BY <1>0, <1>3 DEF Expire, Goto, ScheduledInv, TimersFollow, Works, RportWorks
<1>4. CASE srp_start_tl_fail_timers
  <2>1. CASE state = "lost"
      BY <1>4, <2>1 DEF srp_start_tl_fail_timers, start_tl_fail_timers, ScheduledInv
  <2>2. CASE state # "lost"
      BY <1>4, <2>2, TimersArm DEF srp_start_tl_fail_timers, ScheduledInv
  <2> QED
      BY <2>1, <2>2
<1>5. ASSUME NEW t \in Threads, terminate_rport_io(t) PROVE ScheduledInv'
    BY <1>0, <1>5 DEF terminate_rport_io, Goto, ScheduledInv, TimersFollow
<1>6. CASE rport_fast_io_fail_timedout \/ rport_fast_io_fail_done
    BY <1>0, <1>6 DEF rport_fast_io_fail_timedout, rport_fast_io_fail_done,
       rport_fail_io_fast, Goto, ScheduledInv, TimersFollow
<1>7. CASE rport_dev_loss_timedout
    BY <1>7 DEF rport_dev_loss_timedout, ScheduledInv
<1>8. CASE srp_reconnect_work
  <2>1. CASE state = "lost"
      BY <1>8, <2>1 DEF srp_reconnect_work, ScheduledInv
  <2>2. CASE state # "lost" /\ reconnect_delay > 0
    <3>1. ~Cancelling("reconnect_work")
        BY <2>2 DEF Cancelling, IInv, StopInv, StagesLost, CancelLabels
    <3>2. pend'["reconnect_work"]
        BY <1>0, <1>8, <2>2, <3>1, Zenon DEF srp_reconnect_work, Queue
    <3> QED
        BY <3>2 DEF ScheduledInv
  <2> QED
      BY <2>1, <2>2 DEF ScheduledInv
<1>9. ASSUME NEW t \in Reconnecters, srp_reconnect_rport(t) \/ srp_reconnect_call(t)
      PROVE  ScheduledInv'
    BY <1>0, <1>9 DEF srp_reconnect_rport, srp_reconnect_call, AfterFailure, Goto,
       Reconnecters, ScheduledInv, TimersFollow
<1>10. ASSUME NEW t \in Reconnecters, srp_reconnect_ok(t) PROVE ScheduledInv'
    BY <1>10 DEF srp_reconnect_ok, srp_rport_set_state, IInv, ReconnectInv,
       ScheduledInv, Reconnecters, Threads, Works, RportWorks
<1>11. ASSUME NEW t \in Reconnecters, srp_reconnect_failed(t) PROVE ScheduledInv'
    BY <1>0, <1>11 DEF srp_reconnect_failed, rport_fail_io_fast, AfterFailure, Goto,
       Reconnecters, ScheduledInv, TimersFollow
<1>12. ASSUME NEW t \in Reconnecters, srp_reconnect_failed_timers(t)
       PROVE  ScheduledInv'
  <2>1. state = "fail_fast"
      BY <1>12 DEF srp_reconnect_failed_timers, IInv, ReconnectInv, Reconnecters,
         Threads, Works, RportWorks
  <2> QED
      BY <1>12, <2>1, TimersArm DEF srp_reconnect_failed_timers, ScheduledInv
<1>13. CASE EhStep
    BY <1>0, <1>13 DEF EhStep, EhStart, EhNext, EhOffline, srp_reconnect_interrupted,
       srp_queuecommand_eh, srp_queuecommand_eh_done, Goto, ScheduledInv, TimersFollow
<1>14. CASE SubmitStep
    BY <1>14 DEF SubmitStep, Dispatch, srp_queuecommand, srp_queuecommand_done,
       ScheduledInv, TimersFollow
<1>15. CASE StoreStep
    BY <1>15 DEF StoreStep, store_begin, store_assign, ScheduledInv, TimersFollow
<1>16. CASE srp_stop_rport_timers_lost
    BY <1>16 DEF srp_stop_rport_timers_lost, ScheduledInv
<1>17. CASE srp_remove_work \/ srp_remove_host \/ (\E d \in Devs : scsi_remove_device(d))
            \/ scsi_remove_host \/ srp_stop_rport_timers \/ cancel_dev_loss_work_sync
            \/ srp_rport_put
    BY <1>0, <1>17 DEF srp_remove_work, srp_remove_host, scsi_remove_device,
       scsi_remove_host, srp_stop_rport_timers, rport_fail_io_fast,
       cancel_dev_loss_work_sync, srp_rport_put, Goto, ScheduledInv, TimersFollow
<1>18. CASE cancel_reconnect_work_sync \/ cancel_fast_io_fail_work_sync
            \/ srp_free_ch_ib
    BY <1>18 DEF cancel_reconnect_work_sync, cancel_fast_io_fail_work_sync,
       srp_free_ch_ib, IInv, StopInv, StagesLost, StagesFreed, CancelLabels,
       ScheduledInv
<1> QED
    BY <1>1, <1>2, <1>3, <1>4, <1>5, <1>6, <1>7, <1>8, <1>9, <1>10, <1>11, <1>12,
       <1>13, <1>14, <1>15, <1>16, <1>17, <1>18 DEF Next, WorkerStep,
       ReconnectStep, RemoveStep

(***************************************************************************)
(* As long as nobody writes reconnect_delay, whoever may write the other   *)
(* two tunables, a blocked or failed port always has its next              *)
(* reconnection attempt scheduled.                                         *)
(***************************************************************************)
THEOREM AttemptScheduled == Spec /\ DelayNotWritten => []ReconnectScheduled
<1>1. Init => ScheduledInv /\ DelayInv
    BY DEF Init, ScheduledInv, DelayInv, NoStore
<1>2. ASSUME IInv, ScheduledInv, DelayInv, [Next]_vars,
             [\A w \in Writers : ~store_reconnect_delay(w)]_vars
      PROVE  ScheduledInv' /\ DelayInv'
  <2>1. CASE UNCHANGED vars
      BY <1>2, <2>1 DEF vars, tunables, ScheduledInv, TimersFollow, DelayInv
  <2>2. CASE Next /\ \A w \in Writers : ~store_reconnect_delay(w)
      BY <1>2, <2>2, DelayStep, ScheduledStep
  <2> QED
      BY <1>2, <2>1, <2>2
<1>3. IInv /\ ScheduledInv => ReconnectScheduled
    BY DEF IInv, MutexInv, Holding, Threads, NoThread, ScheduledInv, TimersFollow,
       ReconnectScheduled, Works, RportWorks
<1> QED
    BY <1>1, <1>2, <1>3, Invariance, PTL DEF Spec, DelayNotWritten
=============================================================================
