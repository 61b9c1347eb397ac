---------------------------- MODULE MCGovernance ----------------------------
(* Instances of Governance for TLC: the document of the second proposal    *)
(* lacks a field. *)
EXTENDS Governance

CONSTANTS c1, c2, good, bad

MCHashOf == <<good, bad>>
MCPages == {[skip |-> 0, limit |-> 2]}
MCHashes == {good, bad}
MCWellFormed == {good}
TwoCalls == {c1, c2}
MCPowerAt == [p \in 0..1 |-> 2]
=============================================================================
