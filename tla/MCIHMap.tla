-------------------------------- MODULE MCIHMap --------------------------------
(***************************************************************************)
(* IHMap on a small instance.  A pair that is removed, inserted and removed again is on   *)
(* the stack twice, and so on without end: as many entries as there are cells are enough.   *)
(***************************************************************************)
EXTENDS IHMap

StackIsShort == Len(free_list) <= Cardinality(Cell)
=============================================================================
