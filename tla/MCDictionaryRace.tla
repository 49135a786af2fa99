-------------------------- MODULE MCDictionaryRace --------------------------
(* Small instances of DictionaryRace for TLC: requests are model values,   *)
(* interchangeable within their kind.  The symmetry is for the runs of     *)
(* invariants; the run that checks a liveness property goes without it.    *)
EXTENDS DictionaryRace, TLC

Symmetry == Permutations(Decider) \cup Permutations(Reseeder)
              \cup Permutations(Replacer) \cup Permutations(Restorer)
              \cup Permutations(Wiper)
=============================================================================
