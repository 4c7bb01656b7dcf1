------------------------------- MODULE TurnGuard -------------------------------
(***************************************************************************)
(* What the plugin promises about one prompt, without files, locks or      *)
(* processes: a write-ahead guard.  A baseline is armed once; the decision *)
(* to ask is recorded before the one request it covers; the continuation   *)
(* is reserved before the one output it covers; whatever is lost between   *)
(* the record and the effect is never done twice.                          *)
(***************************************************************************)
EXTENDS Naturals

CONSTANT Prompts

VARIABLES phase,      \* what the saved record says of each prompt
          requests,   \* API requests issued for each prompt
          owed,       \* continuations reserved and not yet written to the host
          grants      \* continuations written to the host

vars == <<phase, requests, owed, grants>>

Phases == {"none", "armed", "asked", "continued", "closed"}

Init ==
    /\ phase = [p \in Prompts |-> "none"]
    /\ requests = [p \in Prompts |-> 0]
    /\ owed = [p \in Prompts |-> 0]
    /\ grants = [p \in Prompts |-> 0]

\* UserPromptSubmit saves the baseline.
Arm(p) ==
    /\ phase[p] = "none"
    /\ phase' = [phase EXCEPT ![p] = "armed"]
    /\ UNCHANGED <<requests, owed, grants>>

\* Stop records the hash it is about to have evaluated.
Record(p) ==
    /\ phase[p] = "armed"
    /\ phase' = [phase EXCEPT ![p] = "asked"]
    /\ UNCHANGED <<requests, owed, grants>>

\* The request that the record covers.
Request(p) ==
    /\ phase[p] = "asked"
    /\ requests[p] = 0
    /\ requests' = [requests EXCEPT ![p] = @ + 1]
    /\ UNCHANGED <<phase, owed, grants>>

\* An answer with risks reserves the continuation.
Reserve(p) ==
    /\ phase[p] = "asked"
    /\ requests[p] = 1
    /\ phase' = [phase EXCEPT ![p] = "continued"]
    /\ owed' = [owed EXCEPT ![p] = @ + 1]
    /\ UNCHANGED <<requests, grants>>

\* The continuation reaches the host, whatever happened to the record since.
Grant(p) ==
    /\ owed[p] > 0
    /\ owed' = [owed EXCEPT ![p] = @ - 1]
    /\ grants' = [grants EXCEPT ![p] = @ + 1]
    /\ UNCHANGED <<phase, requests>>

\* The process that owed the continuation dies before writing it.
Lose(p) ==
    /\ owed[p] > 0
    /\ owed' = [owed EXCEPT ![p] = @ - 1]
    /\ UNCHANGED <<phase, requests, grants>>

\* The record is removed.
Close(p) ==
    /\ phase[p] \in {"armed", "asked", "continued"}
    /\ phase' = [phase EXCEPT ![p] = "closed"]
    /\ UNCHANGED <<requests, owed, grants>>

Next == \E p \in Prompts :
            Arm(p) \/ Record(p) \/ Request(p) \/ Reserve(p)
              \/ Grant(p) \/ Lose(p) \/ Close(p)

Spec == Init /\ [][Next]_vars

TypeOK ==
    /\ phase \in [Prompts -> Phases]
    /\ requests \in [Prompts -> Nat]
    /\ owed \in [Prompts -> Nat]
    /\ grants \in [Prompts -> Nat]

\* README.md "Failure behavior": at most one continuation per prompt, and it
\* is only ever the answer to a request.
AtMostOne == \A p \in Prompts : grants[p] <= 1 /\ grants[p] <= requests[p]
================================================================================
