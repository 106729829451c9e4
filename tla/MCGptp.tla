------------------------------- MODULE MCGptp -------------------------------
(* A small instance of Gptp: a bridge whose clock is ahead or behind, and    *)
(* answers that may come after the next request has been sent.               *)
EXTENDS Gptp

MCPdelayInitialOffsets == {0, 4}
MCInitialErrors == {-3, 3}

(* What the theorems about Gptp assume of its constants holds of these with  *)
(* the interval of requests as long as that of the Syncs.                    *)
FewerRequests == INSTANCE Gptp WITH PdelayInterval <- SyncInterval
ASSUME FewerRequests!IntervalsSuffice /\ FewerRequests!LossesLeaveIds

=============================================================================
