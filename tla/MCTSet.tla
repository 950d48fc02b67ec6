-------------------------------- MODULE MCTSet --------------------------------
(***************************************************************************)
(* TSet on small instances.  Names are interchangeable.                        *)
(***************************************************************************)
EXTENDS TSet, TLC

Symmetry == Permutations(Node)

(* From before the first member to after the last one of five.                    *)
MCBound == -1 .. 5
=============================================================================
