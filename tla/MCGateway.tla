----------------------------- MODULE MCGateway ------------------------------
EXTENDS Gateway, TLC

RequestSymmetry == Permutations(Requests)
=============================================================================
