---------------------------- MODULE MCEthernetMac ----------------------------
(* Small instances of EthernetMac: a gap of two units, pauses of three and    *)
(* five, and a stop that may time out in a pause.                            *)
EXTENDS EthernetMac

MCLengths == {1, 3}
MCPauseTimes == {0, 3, 5}

=============================================================================
