----------------------------- MODULE MCPodEvents ----------------------------
(***************************************************************************)
(* An instance of PodEvents for TLC: one name under which pods follow each *)
(* other, the first of the burstable class, one pid that is used again.    *)
(***************************************************************************)
EXTENDS PodEvents

CONSTANTS u1, u2

MCUid == {u1, u2}
MCBurstable == {u1}
=============================================================================
