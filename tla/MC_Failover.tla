----------------------------- MODULE MC_Failover -----------------------------
(* Instances of Failover for TLC.                                          *)
EXTENDS Failover

CONSTANTS near, far

BothEnds == {near, far}
OtherEnd == [e \in BothEnds |-> IF e = near THEN far ELSE near]
OneEnd == {near}
AtMostTwo == [e \in BothEnds |-> 2]
OneXid == {7}

(* A packet for the address behind the VLC and the WLAN link, a broadcast, *)
(* and PACKET_OUTs to the VLC port, to all ports and to the controller.    *)
TwoArrivals == {<<P!ETHERPORT, "OTHERHOST", "ETH213">>, <<P!ETHERPORT, "BROADCAST", "other">>}
ThreePacketOuts == {<<P!OFPP_ANY, P!VLCPORT>>, <<P!OFPP_CONTROLLER, P!OFPP_FLOOD>>, <<P!OFPP_ANY, 0>>}
=============================================================================
