-------------------------- MODULE MCUsageDelivery --------------------------
(* Instances of UsageDelivery for TLC. *)
EXTENDS UsageDelivery, TLC

CONSTANTS oA, oB, p1, p2

MCOrgs == {oA, oB}
OneOrg == {oA}
\* Events go to the orgs in turn, as one proxy serving two credentials does.
MCOrgOf == [s \in Seqs |-> IF s % 2 = 1 THEN oA ELSE oB]
OneOrgOf == [s \in Seqs |-> oA]
TwoProcs == {p1, p2}
OneProc == {p1}
Symmetry == Permutations(Procs)
=============================================================================
