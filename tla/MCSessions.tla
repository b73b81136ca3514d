----------------------------- MODULE MCSessions -----------------------------
EXTENDS Sessions, TLC

\* Incarnations are interchangeable.
VoSymmetry == Permutations(Vo)
=============================================================================
