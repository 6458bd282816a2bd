-------------------------------- MODULE MCWal --------------------------------
EXTENDS Wal, TLC

\* The connections of Wal.cfg play the same parts.
Symmetry == Permutations(Conn)
=============================================================================
