---------------------------- MODULE MCEventLoop ----------------------------
(* EventLoop with two timed callbacks of different intervals. *)
EXTENDS EventLoop, TLC

CONSTANTS t1, t2
Callbacks == {t1, t2}
OneInterval == t1 :> 1
Intervals == t1 :> 1 @@ t2 :> 2
=============================================================================
