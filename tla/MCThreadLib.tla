----------------------------- MODULE MCThreadLib -----------------------------
(* TLC instance of ThreadLib.  The threads other than Main, the mutexes and *)
(* the condition variables are interchangeable.                             *)
EXTENDS ThreadLib, TLC

Sym == Permutations(Thread \ {Main}) \cup Permutations(Mutex) \cup Permutations(Cv)
=============================================================================
