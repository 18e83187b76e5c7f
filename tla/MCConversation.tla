--------------------------- MODULE MCConversation ---------------------------
(* Instances of Conversation for TLC. *)
EXTENDS Conversation, TLC

CONSTANTS oA, oB, p1, p2, laptop, copy

\* Two turns of one proxy, and one of a copy of its vault that claims the
\* second number too.
CopiedSeq == <<1, 2, 2>>
CopiedProxy == <<laptop, laptop, copy>>
OneOrg == {oA}
CopiedOrg == <<oA, oA, oA>>

\* Turns of two orgs that one proxy numbers in turn, of which LossIsGenuine fails.
MixedSeq == <<1, 2>>
MixedProxy == <<laptop, laptop>>
TwoOrgs == {oA, oB}
MixedOrg == <<oA, oB>>

TwoProcs == {p1, p2}
OneProc == {p1}
Symmetry == Permutations(Procs)
=============================================================================
