------------------------------- MODULE MCRunner -------------------------------
(* Instances of Runner for TLC. Durations are in ticks of the model's      *)
(* clock; DurationRange is far above every duration of these runs.         *)
EXTENDS Runner

conf == [active |-> TRUE, everyCycles |-> 0, failure |-> 2, success |-> 2,
         timeout |-> 1, hash |-> 3, mail |-> FALSE]

(* One spec with mail that fails after two failures and recovers at once   *)
(* (its success threshold is defaulted), one of every other cycle that     *)
(* starts without delay and flips at once (its failure threshold is        *)
(* defaulted), and one that is inactive.                                   *)
MixedConf == [a |-> [conf EXCEPT !.mail = TRUE, !.success = -1],
              b |-> [conf EXCEPT !.hash = 0, !.failure = 0, !.success = 1, !.everyCycles = 2],
              c |-> [conf EXCEPT !.active = FALSE]]

(* README.md's example of a sparse check, 3 for 60: failure is 2.          *)
SparseConf == [a |-> [conf EXCEPT !.everyCycles = 3, !.success = 1]]

MixedSpecs  == DOMAIN MixedConf
SparseSpecs == DOMAIN SparseConf
===============================================================================
