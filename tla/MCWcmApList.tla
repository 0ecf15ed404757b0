---------------------------- MODULE MCWcmApList ----------------------------
EXTENDS WcmApList, TLC

Symmetry == Permutations(Bssids)
=============================================================================
