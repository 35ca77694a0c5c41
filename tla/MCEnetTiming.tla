---------------------------- MODULE MCEnetTiming ----------------------------
\* The commands are told apart by their names only.
EXTENDS EnetTiming

Symmetry == Permutations(Commands)
=============================================================================
