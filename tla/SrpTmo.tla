------------------------------- MODULE SrpTmo -------------------------------
(***************************************************************************)
(* The three recovery tunables of an SRP remote port and the predicate     *)
(* that scsi_transport_srp.c applies to every combination of them.  A      *)
(* negative value means "off" (srp_parse_tmo() turns "off" into -1).       *)
(***************************************************************************)
EXTENDS Integers

CONSTANTS
    SCSI_DEVICE_BLOCK_MAX_TIMEOUT, \* SCSI core limit on a blocked device [s]
    LONG_MAX_HZ                    \* LONG_MAX / HZ

ASSUME TmoLimits ==
    /\ SCSI_DEVICE_BLOCK_MAX_TIMEOUT \in Nat
    /\ LONG_MAX_HZ \in Nat
    /\ SCSI_DEVICE_BLOCK_MAX_TIMEOUT < LONG_MAX_HZ

Off == -1

(***************************************************************************)
(* TRUE iff srp_tmo_valid() returns 0.                                     *)
(***************************************************************************)
srp_tmo_valid(reconnect_delay, fast_io_fail_tmo, dev_loss_tmo) ==
    /\ ~(reconnect_delay < 0 /\ fast_io_fail_tmo < 0 /\ dev_loss_tmo < 0)
    /\ reconnect_delay # 0
    /\ fast_io_fail_tmo <= SCSI_DEVICE_BLOCK_MAX_TIMEOUT
    /\ fast_io_fail_tmo < 0 => dev_loss_tmo <= SCSI_DEVICE_BLOCK_MAX_TIMEOUT
    /\ dev_loss_tmo < LONG_MAX_HZ
    /\ fast_io_fail_tmo >= 0 /\ dev_loss_tmo >= 0
          => fast_io_fail_tmo < dev_loss_tmo
=============================================================================
