--------------------------- MODULE MCGeminiClient ---------------------------
EXTENDS GeminiClient, TLC

CallerSymmetry == Permutations(Callers)
=============================================================================
