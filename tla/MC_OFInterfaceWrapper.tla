------------------------ MODULE MC_OFInterfaceWrapper ------------------------
(* Instances of OFInterfaceWrapper for TLC.                                *)
EXTENDS OFInterfaceWrapper

CONSTANTS near, far

BothEnds == {near, far}
OtherEnd == [e \in BothEnds |-> IF e = near THEN far ELSE near]
FourAndOne == [e \in BothEnds |-> IF e = near THEN 4 ELSE 1]
=============================================================================
