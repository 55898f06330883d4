----------------------------- MODULE MCBacklogDB -----------------------------
(* Consumers and entities are model values; Addresses are the entities of  *)
(* type IPAddress, the others are of type FQDN.                            *)
EXTENDS BacklogDB, TLC

CONSTANT Addresses

MCTypeOf == [e \in Entities |-> IF e \in Addresses THEN "IPAddress" ELSE "FQDN"]

MCSymmetry == Permutations(Owners) \cup Permutations(Entities \ (Addresses \cup Resubmitted))
==============================================================================
