-------------------------- MODULE FailingPublisher --------------------------
(***************************************************************************)
(* The publisher that injects failures                                     *)
(* (internal/event/application/failing_publisher.go).  Its mutex makes     *)
(* injectFailure one step; the inner Publish is called after the unlock.   *)
(***************************************************************************)
EXTENDS Naturals

CONSTANTS
    Events,       \* the events that may be published
    Permanent,    \* those whose type is in permanentTypes
    Failing,      \* rate > 0
    MaxFailures   \* maxFailuresPerEvent; 0: no cap

VARIABLES
    failures,     \* failures[e]: transient failures injected into e
    reached,      \* attempts: the publishes that reached this publisher
    injected      \* the publishes it failed

vars == <<failures, reached, injected>>

TypeOK ==
    /\ failures \in [Events -> Nat]
    /\ reached \in Nat
    /\ injected \in Nat

Init ==
    /\ failures = [e \in Events |-> 0]
    /\ reached = 0
    /\ injected = 0

\* The cap: an event that failed this often is let through from then on.
SparedLate(e) == MaxFailures > 0 /\ failures[e] > MaxFailures  \* faulty: off by one
Spared(e) == MaxFailures > 0 /\ failures[e] >= MaxFailures

InjectPermanent(e) ==
    /\ e \in Permanent
    /\ UNCHANGED failures

\* The random number is below the rate.
InjectTransient(e) ==
    /\ e \notin Permanent
    /\ Failing
    /\ ~Spared(e)
    /\ failures' = [failures EXCEPT ![e] = @ + 1]

\* injectFailure returns an error
Inject(e) ==
    /\ InjectPermanent(e) \/ InjectTransient(e)
    /\ reached' = reached + 1
    /\ injected' = injected + 1

\* injectFailure returns nil: always possible, the rate is below 1
Pass(e) ==
    /\ e \notin Permanent
    /\ reached' = reached + 1
    /\ UNCHANGED <<failures, injected>>
=============================================================================
