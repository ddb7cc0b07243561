------------------------------ MODULE MCApiKeys -----------------------------
EXTENDS ApiKeys, TLC

AdminSymmetry == Permutations(Admins)
=============================================================================
