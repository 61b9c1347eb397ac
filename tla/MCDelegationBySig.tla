------------------------- MODULE MCDelegationBySig -------------------------
(* Instances of DelegationBySig for TLC: two delegations of one user, who *)
(* may or may not have spent a nonce before, and one of another user. *)
EXTENDS DelegationBySig

CONSTANTS c1, c2, ann, bob, name, x, y

Wants(u, d, powers, bySig) ==
  [user |-> u, delegatee |-> d, powers |-> powers, bySig |-> bySig]

MCAsks ==
  {Wants(ann, name, Powers, TRUE), Wants(ann, x, {"voting"}, TRUE),
   Wants(ann, name, {"proposition"}, FALSE), Wants(bob, name, Powers, TRUE),
   Wants(bob, Malformed, Powers, FALSE)}
TwoCalls == {c1, c2}
TwoUsers == {ann, bob}
OneName == {name}
TwoAddresses == {x, y}
=============================================================================
