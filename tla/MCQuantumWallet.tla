-------------------------- MODULE MCQuantumWallet --------------------------
EXTENDS QuantumWallet, TLC

CONSTANTS s1, s2, o1, o2

Symmetry == Permutations(Seeds)
=============================================================================
