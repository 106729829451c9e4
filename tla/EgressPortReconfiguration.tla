---------------------- MODULE EgressPortReconfiguration ----------------------
(***************************************************************************)
(* An EgressPort whose transmission gates are configured while the port      *)
(* runs: PeriodicGate::handleParameterChange restarts the gating of the gate *)
(* from the beginning of its schedule, for every parameter written.          *)
(***************************************************************************)
EXTENDS EgressPort

(* initializeGating assigns isOpen_ and reschedules the timer; unlike open() *)
(* and close() it tells neither the queue nor the server.                    *)
Restart(c) ==
    /\ isOpen' = [isOpen EXCEPT ![c] = InitiallyOpen[c]]
    /\ index' = [index EXCEPT ![c] = FirstIndex[c]]
    /\ changeTimer' = [changeTimer EXCEPT ![c] = FirstDuration[c]]
    /\ UNCHANGED <<queue, serveTimer, phy, arrivals, wait>>

ReconfigurableNext == Next \/ \E c \in Classes : Restart(c)

ReconfigurableSpec == Init /\ [][ReconfigurableNext]_vars

(* IActivePacketSink.h: handleCanPullPacketChanged "notifies about a change  *)
(* in the possibility of pulling some packet", so that the server is never   *)
(* left asleep on an idle line while a gate would let a frame pass.          *)
SinkIsNotified == NoLostWakeup

=============================================================================
