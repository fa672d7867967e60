----------------------------- MODULE MCSrpRport -----------------------------
(***************************************************************************)
(* Small instances of SrpRport for TLC.                                    *)
(***************************************************************************)
EXTENDS SrpRport, TLC

\* "off" and one value each, ordered as srp_tmo_valid() wants them, and a delay
\* that it refuses.
MCReconnectDelays == {Off, 0, 10}
MCFastIoFailTmos == {Off, 15}
MCDevLossTmos == {Off, 600}

\* For the liveness run: reconnecting on, and one of the two timers at most,
\* because fast_io_fail_tmo must be below dev_loss_tmo when both are on.
LiveReconnectDelays == {10}
LiveFastIoFailTmos == {Off, 600}
LiveDevLossTmos == {Off, 600}
=============================================================================
