------------------------------ MODULE RetryDelay ------------------------------
(***************************************************************************)
(* RetryDelay (internal/event/application/retry.go): the exponential       *)
(* backoff with equal jitter, step by step, on the integers of a           *)
(* time.Duration.  Doubling wraps around past MaxInt, as int64 does.       *)
(*                                                                         *)
(*   retry, baseDelay, maxDelay  the arguments                             *)
(*   pc                          where the function is                     *)
(*   i, delay                    its loop                                  *)
(*   result                      what it returns                           *)
(***************************************************************************)
EXTENDS Integers

CONSTANTS
    MaxInt,    \* 2^(w-1) - 1 for a w-bit Duration
    MaxRetry   \* bound on the retries tried

ASSUME RetryAssumption ==
    /\ MaxInt \in Nat \ {0}
    /\ MaxRetry \in Nat

VARIABLES retry, baseDelay, maxDelay, pc, i, delay, result

args == <<retry, baseDelay, maxDelay>>
vars == <<args, pc, i, delay, result>>

Duration == (-MaxInt - 1)..MaxInt

TypeOK ==
    /\ retry \in -1..MaxRetry
    /\ baseDelay \in Duration
    /\ maxDelay \in Duration
    /\ pc \in {"begin", "loop", "cap", "jitter", "done"}
    /\ i \in 0..MaxRetry
    /\ delay \in Duration
    /\ result \in Duration

\* Two's complement, for a number that overflowed once
Wrap(x) ==
    CASE x > MaxInt -> x - 2 * (MaxInt + 1)
      [] x < -MaxInt - 1 -> x + 2 * (MaxInt + 1)
      [] OTHER -> x

\* Go's division truncates.
Half(x) == IF x >= 0 THEN x \div 2 ELSE -((-x) \div 2)

Init ==
    /\ retry \in -1..MaxRetry
    /\ baseDelay \in Duration
    /\ maxDelay \in Duration
    /\ pc = "begin"
    /\ i = 0
    /\ delay = 0
    /\ result = 0

Return(x) ==
    /\ pc' = "done"
    /\ result' = x
    /\ UNCHANGED <<args, i, delay>>

\* The two early returns, and delay := baseDelay
Begin ==
    /\ pc = "begin"
    /\ IF retry <= 0 THEN Return(baseDelay)
       ELSE IF baseDelay <= 0 THEN Return(0)
       ELSE /\ pc' = "loop"
            /\ i' = 1
            /\ delay' = baseDelay
            /\ UNCHANGED <<args, result>>

\* delay >= maxDelay/2
NearCapNever == FALSE                    \* faulty: doubles without a look
NearCap == delay >= Half(maxDelay)

\* delay *= 2
Double ==
    /\ pc = "loop" /\ i < retry /\ ~NearCap
    /\ delay' = Wrap(2 * delay)
    /\ i' = i + 1
    /\ UNCHANGED <<args, pc, result>>

\* delay = maxDelay; break
JumpToCap ==
    /\ pc = "loop" /\ i < retry /\ NearCap
    /\ delay' = maxDelay
    /\ pc' = "cap"
    /\ UNCHANGED <<args, i, result>>

LoopEnds ==
    /\ pc = "loop" /\ i >= retry
    /\ pc' = "cap"
    /\ UNCHANGED <<args, i, delay, result>>

\* if delay > maxDelay
CappedNot == delay  \* faulty: baseDelay above maxDelay is let through
Capped == IF delay > maxDelay THEN maxDelay ELSE delay
Cap ==
    /\ pc = "cap"
    /\ delay' = Capped
    /\ pc' = "jitter"
    /\ UNCHANGED <<args, i, result>>

\* half + rand.N(half): N draws from 0..half - 1
Jitter ==
    /\ pc = "jitter"
    /\ LET half == Half(delay)
       IN  IF half <= 0 THEN Return(delay)
           ELSE \E draw \in 0..half - 1 : Return(half + draw)

Next == Begin \/ Double \/ JumpToCap \/ LoopEnds \/ Cap \/ Jitter

Spec == Init /\ [][Next]_vars

-----------------------------------------------------------------------------
(* Properties *)

\* The doubling never overflows, for any baseDelay and maxDelay: a delay is
\* doubled only below half the cap (retry.go:30-37).
DoublingIsExact ==
    [][i' = i + 1 /\ pc = "loop" => delay' = 2 * delay]_vars

\* Positive bounds give a positive delay, and none above maxDelay.
ResultInBounds ==
    pc = "done" /\ retry > 0 /\ baseDelay > 0 /\ maxDelay > 0
        => result \in 1..maxDelay

\* 2^n
Power[n \in Nat] == IF n = 0 THEN 1 ELSE 2 * Power[n - 1]

\* baseDelay * 2^(retry-1), capped (retry.go:11)
Exact == baseDelay * Power[retry - 1]
Documented == IF Exact > maxDelay THEN maxDelay ELSE Exact

\* The delay is the documented one, or a nanosecond more: an odd maxDelay is
\* reached one doubling early.
DelayNearDocumented ==
    pc = "jitter" /\ maxDelay > 0 => delay \in {Documented, Documented + 1}

\* The delay stays in its bounds, ...
BoundsInv ==
    /\ TypeOK
    /\ pc \in {"loop", "cap", "jitter"} => retry > 0 /\ baseDelay > 0
    /\ pc = "loop" => delay > 0
    /\ pc = "cap" => delay > 0 \/ delay = maxDelay
    /\ pc = "jitter" => delay <= maxDelay /\ (maxDelay > 0 => delay > 0)
    /\ ResultInBounds

\* ... and the loop, which has doubled i - 1 times, jumps to the cap only where
\* the exact delay has reached it, but for one.
DoublingInv ==
    /\ pc = "loop" => i \in 1..retry /\ delay = baseDelay * Power[i - 1]
    /\ pc = "cap" => \/ delay = Exact
                     \/ delay = maxDelay /\ (maxDelay > 0 => Exact >= maxDelay - 1)
    /\ DelayNearDocumented

\* The inductive invariant
RetryInv == BoundsInv /\ DoublingInv
=============================================================================
