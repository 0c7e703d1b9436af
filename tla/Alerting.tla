------------------------------- MODULE Alerting -------------------------------
(***************************************************************************)
(* What the monitor promises to the people it alerts, independently of     *)
(* goroutines, time and the state store (README.md, "Monitoring            *)
(* Semantics"):                                                            *)
(*                                                                         *)
(*   - a spec turns failing only after FailAfter consecutive failed        *)
(*     checks, and healthy again only after RecoverAfter consecutive       *)
(*     successful ones;                                                    *)
(*   - each of the two transitions owes one notice (script and mail), and  *)
(*     no further check of the spec is counted until that notice is out.   *)
(*                                                                         *)
(* Reaching a threshold permits the transition and does not force it: the  *)
(* program may forget its counters when checks are far apart.              *)
(***************************************************************************)
EXTENDS Integers

CONSTANTS Specs,
          FailAfter,     \* [Specs -> Nat], each at least 1
          RecoverAfter   \* [Specs -> Nat], each at least 1

VARIABLES status,      \* [Specs -> {"healthy", "failing"}]
          failures,    \* length of the current run of failed checks
          successes,   \* length of the current run of successful checks
          owed,        \* the notice a transition still owes, or "none"
          told         \* the last notice sent, or "none"

vars == <<status, failures, successes, owed, told>>

Init ==
  /\ status    = [s \in Specs |-> "healthy"]
  /\ failures  = [s \in Specs |-> 0]
  /\ successes = [s \in Specs |-> 0]
  /\ owed      = [s \in Specs |-> "none"]
  /\ told      = [s \in Specs |-> "none"]

CountFailure(s) ==
  /\ failures'  = [failures EXCEPT ![s] = @ + 1]
  /\ successes' = [successes EXCEPT ![s] = 0]

CountSuccess(s) ==
  /\ successes' = [successes EXCEPT ![s] = @ + 1]
  /\ failures'  = [failures EXCEPT ![s] = 0]

(* A check result that crosses no threshold.                               *)
Observe(s) ==
  /\ owed[s] = "none"
  /\ CountFailure(s) \/ CountSuccess(s)
  /\ UNCHANGED <<status, owed, told>>

Fail(s) ==
  /\ owed[s] = "none"
  /\ status[s] = "healthy"
  /\ failures[s] + 1 >= FailAfter[s]
  /\ CountFailure(s)
  /\ status' = [status EXCEPT ![s] = "failing"]
  /\ owed'   = [owed EXCEPT ![s] = "failure"]
  /\ UNCHANGED told

Recover(s) ==
  /\ owed[s] = "none"
  /\ status[s] = "failing"
  /\ successes[s] + 1 >= RecoverAfter[s]
  /\ CountSuccess(s)
  /\ status' = [status EXCEPT ![s] = "healthy"]
  /\ owed'   = [owed EXCEPT ![s] = "recovery"]
  /\ UNCHANGED told

Notify(s) ==
  /\ owed[s] # "none"
  /\ told' = [told EXCEPT ![s] = owed[s]]
  /\ owed' = [owed EXCEPT ![s] = "none"]
  /\ UNCHANGED <<status, failures, successes>>

Next == \E s \in Specs : Observe(s) \/ Fail(s) \/ Recover(s) \/ Notify(s)

Safety == Init /\ [][Next]_vars

(* An owed notice goes out: the goroutine that owes it keeps running.      *)
Spec == Safety /\ \A s \in Specs : WF_vars(Notify(s))
===============================================================================
