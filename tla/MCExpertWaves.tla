--------------------------- MODULE MCExpertWaves ---------------------------
EXTENDS ExpertWaves

(* All Experts of a call belong to one layer, whose device is the first;   *)
(* the hash of their keys spreads them over both devices.                  *)
OneLayer == [e \in Expert |-> 1]
Hash == [e \in Expert |-> IF e = 2 THEN 1 ELSE 2]

(* Every Expert has weights that the devices support, or all but one.      *)
Supported == {Expert, Expert \ {2}}
=============================================================================
