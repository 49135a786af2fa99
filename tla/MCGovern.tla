------------------------------ MODULE MCGovern -------------------------------
(* A small instance of Govern for TLC.  Nothing tells one category from    *)
(* another, so that states which differ in their names only are explored   *)
(* once.                                                                   *)
EXTENDS Govern, TLC

Interchangeable == Permutations(Cat)
=============================================================================
