--------------------------- MODULE RpcController ---------------------------
(***************************************************************************)
(* The part of talon::RpcController (net/rpc/rpc_controller.cc) that the   *)
(* life of a call depends on, as a record and one operator per critical    *)
(* section.  Every method of the class locks m_mutex for its whole body,   *)
(* or for a block of it, so each operator is one atomic step of whichever  *)
(* thread calls it.                                                        *)
(***************************************************************************)

\* Error codes of common/error_code.h that a call can end with; "none" is 0
\* and "REMOTE" stands for any non-zero code the server put in its response.
Errors == {"none", "CHANNEL_INIT", "CANCELLED", "PEER_ADDR", "SERIALIZE",
           "TIMEOUT", "TRANSPORT", "PEER_CLOSED", "FAILED_CONNECT", "REMOTE"}

\* cancelCb: m_cancel_callback is set; notify: m_cancel_closure is set.
ControllerState ==
  [error : Errors, failed : BOOLEAN, finished : BOOLEAN,
   cancelled : BOOLEAN, cancelCb : BOOLEAN, notify : BOOLEAN]

NewController ==
  [error |-> "none", failed |-> FALSE, finished |-> FALSE,
   cancelled |-> FALSE, cancelCb |-> FALSE, notify |-> FALSE]

SetError(ctl, e) == [ctl EXCEPT !.error = e, !.failed = TRUE]

SetFinished(ctl) == [ctl EXCEPT !.finished = TRUE]

\* StartCancel returns at once on a cancelled or a finished controller.
MayCancel(ctl) == ~ctl.cancelled /\ ~ctl.finished

\* The locked block of StartCancel: both callbacks are moved out of the
\* controller, and are run by the caller after the lock is released.
TakeCallbacks(ctl) ==
  [ctl EXCEPT !.cancelled = TRUE, !.cancelCb = FALSE, !.notify = FALSE]

\* A callback is stored only while the controller is not cancelled; on a
\* cancelled one the caller runs it at once.
SetCancelCallback(ctl) ==
  IF ctl.cancelled THEN ctl ELSE [ctl EXCEPT !.cancelCb = TRUE]

NotifyOnCancel(ctl) ==
  IF ctl.cancelled THEN ctl ELSE [ctl EXCEPT !.notify = TRUE]

ClearCancelCallback(ctl) == [ctl EXCEPT !.cancelCb = FALSE]
=============================================================================
