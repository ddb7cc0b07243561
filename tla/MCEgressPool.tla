---------------------------- MODULE MCEgressPool ----------------------------
(* EgressPool for TLC: interchangeable callers, one account, few proxies. *)
EXTENDS EgressPool, TLC

CallerSymmetry == Permutations(Callers)
=============================================================================
