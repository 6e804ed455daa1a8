--------------------------- MODULE RetryDelayProofs ---------------------------
(***************************************************************************)
(* RetryDelay for durations of any width: the doubling never overflows,    *)
(* the delay stays within its bounds, and it is the documented one.        *)
(***************************************************************************)
EXTENDS RetryDelay, Induction

-----------------------------------------------------------------------------
(* The powers of two *)

\* The first powers, as a function that satisfies the recursion
PowersTo(n, g) == g = [k \in 0..n |-> IF k = 0 THEN 1 ELSE 2 * g[k - 1]]

\* There are such functions, of every length.
LEMMA PowersExist == \A n \in Nat : \E g : PowersTo(n, g)
<1> DEFINE Q == {n \in Nat : \E g : PowersTo(n, g)}
<1>1. 0 \in Q
  <2> DEFINE g == [k \in 0..0 |-> 1]
  <2>1. PowersTo(0, g)
    BY DEF PowersTo
  <2> QED
    BY <2>1
<1>2. ASSUME NEW n \in Nat, n \in Q PROVE n + 1 \in Q
  <2>1. PICK g : PowersTo(n, g)
    BY <1>2
  <2> DEFINE h == [k \in 0..(n + 1) |-> IF k = 0 THEN 1 ELSE 2 * g[k - 1]]
  <2>2. \A k \in 0..n : k \in 0..(n + 1) /\ h[k] = g[k]
    BY <2>1 DEF PowersTo
  <2>3. \A k \in 0..(n + 1) : k # 0 => k - 1 \in 0..n
    OBVIOUS
  <2>4. PowersTo(n + 1, h)
    BY <2>2, <2>3 DEF PowersTo
  <2>5. n + 1 \in Nat /\ \E k : PowersTo(n + 1, k)
    BY <2>4
  <2> QED
    BY <2>5
<1>3. Nat \subseteq Q
  <2> HIDE DEF Q
  <2> QED
    BY <1>1, <1>2, NatSetInduction
<1> QED
  BY <1>3

\* They agree where both are defined.
LEMMA PowersAgree ==
    ASSUME NEW m \in Nat, NEW n \in Nat, NEW g, NEW h, PowersTo(m, g), PowersTo(n, h)
    PROVE  \A k \in Nat : k <= m /\ k <= n => g[k] = h[k]
<1> DEFINE Q == {k \in Nat : k <= m /\ k <= n => g[k] = h[k]}
<1>1. 0 \in Q
  BY DEF PowersTo
<1>2. ASSUME NEW k \in Nat, k \in Q PROVE k + 1 \in Q
  <2> SUFFICES ASSUME k + 1 <= m, k + 1 <= n PROVE g[k + 1] = h[k + 1]
    OBVIOUS
  <2>1. g[k + 1] = 2 * g[k]
    BY DEF PowersTo
  <2>2. h[k + 1] = 2 * h[k]
    BY DEF PowersTo
  <2>3. g[k] = h[k]
    BY <1>2
  <2> QED
    BY <2>1, <2>2, <2>3
<1>3. Nat \subseteq Q
  <2> HIDE DEF Q
  <2> QED
    BY <1>1, <1>2, NatSetInduction
<1> QED
  BY <1>3

\* Power satisfies its own recursion.
LEMMA PowerUnfolds ==
    Power = [n \in Nat |-> IF n = 0 THEN 1 ELSE 2 * Power[n - 1]]
<1> DEFINE first(n) == CHOOSE g : PowersTo(n, g)
           G == [n \in Nat |-> first(n)[n]]
<1>1. \A n \in Nat : PowersTo(n, first(n))
  BY PowersExist
<1> HIDE DEF first
<1>2. ASSUME NEW n \in Nat PROVE G[n] = IF n = 0 THEN 1 ELSE 2 * G[n - 1]
  <2>1. CASE n = 0
    BY <1>1, <2>1 DEF PowersTo
  <2>2. CASE n # 0
    <3>1. n - 1 \in Nat /\ n - 1 <= n
      BY <2>2
    <3>2. first(n)[n] = 2 * first(n)[n - 1]
      <4>1. PowersTo(n, first(n))
        BY <1>1
      <4> QED
        BY <2>2, <4>1 DEF PowersTo
    <3>3. first(n)[n - 1] = first(n - 1)[n - 1]
      <4>1. PowersTo(n, first(n)) /\ PowersTo(n - 1, first(n - 1))
        BY <1>1, <3>1
      <4>2. \A k \in Nat : k <= n /\ k <= n - 1 => first(n)[k] = first(n - 1)[k]
        BY <3>1, <4>1, PowersAgree
      <4> QED
        BY <3>1, <4>2
    <3> QED
      BY <2>2, <3>1, <3>2, <3>3
  <2> QED
    BY <2>1, <2>2
<1>3. G = [n \in Nat |-> IF n = 0 THEN 1 ELSE 2 * G[n - 1]]
  <2>1. G = [n \in Nat |-> G[n]]
    OBVIOUS
  <2> HIDE DEF G
  <2> QED
    BY <1>2, <2>1
<1> HIDE DEF G
<1> QED
  BY <1>3 DEF Power

\* Powers are positive, and double.
LEMMA PowerDoubles ==
    /\ Power[0] = 1
    /\ \A n \in Nat : /\ Power[n] \in Nat \ {0}
                      /\ Power[n + 1] = 2 * Power[n]
<1>1. Power[0] = 1
  BY PowerUnfolds
<1>2. \A n \in Nat : Power[n + 1] = 2 * Power[n]
  <2> SUFFICES ASSUME NEW n \in Nat PROVE Power[n + 1] = 2 * Power[n]
    OBVIOUS
  <2>1. n + 1 \in Nat /\ n + 1 # 0 /\ (n + 1) - 1 = n
    OBVIOUS
  <2> QED
    BY <2>1, PowerUnfolds
<1> DEFINE Q == {n \in Nat : Power[n] \in Nat \ {0}}
<1>3. 0 \in Q
  BY <1>1
<1>4. ASSUME NEW n \in Nat, n \in Q PROVE n + 1 \in Q
  BY <1>2, <1>4
<1>5. Nat \subseteq Q
  <2> HIDE DEF Q
  <2> QED
    BY <1>3, <1>4, NatSetInduction
<1> QED
  BY <1>1, <1>2, <1>5

\* More doublings give no less.
LEMMA PowerGrows ==
    ASSUME NEW n \in Nat
    PROVE  \A m \in Nat : m >= n => Power[m] >= Power[n]
<1> DEFINE Q == {m \in Nat : m >= n => Power[m] >= Power[n]}
<1>1. \A k \in Nat : Power[k] \in Nat /\ Power[k + 1] = 2 * Power[k]
  BY PowerDoubles
<1>2. 0 \in Q
  <2>1. 0 >= n => n = 0
    OBVIOUS
  <2> QED
    BY <1>1, <2>1
<1>3. ASSUME NEW m \in Nat, m \in Q PROVE m + 1 \in Q
  <2>1. CASE m >= n
    <3>1. Power[m] >= Power[n] /\ Power[m] \in Nat /\ Power[n] \in Nat
      BY <1>1, <1>3, <2>1
    <3>2. Power[m + 1] = 2 * Power[m]
      BY <1>1
    <3> QED
      BY <3>1, <3>2
  <2>2. CASE ~(m >= n)
    <3>1. m + 1 >= n => m + 1 = n
      BY <2>2
    <3> QED
      BY <1>1, <3>1
  <2> QED
    BY <2>1, <2>2
<1>4. Nat \subseteq Q
  <2> HIDE DEF Q
  <2> QED
    BY <1>2, <1>3, NatSetInduction
<1> QED
  BY <1>4

-----------------------------------------------------------------------------
(* The function *)

\* The first half of a duration is a duration, and the two halves do not
\* exceed it.
LEMMA HalfBounds ==
    ASSUME NEW x \in Int
    PROVE  /\ Half(x) \in Int
           /\ x >= 0 => Half(x) >= 0 /\ 2 * Half(x) <= x
           /\ x < 0 => Half(x) <= 0
           /\ Half(x) <= 0 => x <= 1
BY DEF Half

\* The invariant holds when RetryDelay is called.
LEMMA RetryInit == Init => RetryInv
BY RetryAssumption DEF Init, RetryInv, BoundsInv, DoublingInv, DelayNearDocumented, TypeOK, Duration,
    ResultInBounds

\* A delay that is doubled is below half the cap, so it does not wrap.
LEMMA DoubleFits ==
    ASSUME BoundsInv, Double
    PROVE  delay' = 2 * delay /\ delay' \in 1..MaxInt
<1>1. delay \in Int /\ delay > 0 /\ maxDelay \in Int /\ maxDelay <= MaxInt
  BY RetryAssumption DEF BoundsInv, TypeOK, Duration, Double
<1>2. delay < Half(maxDelay)
  BY <1>1, HalfBounds DEF Double, NearCap
<1>3. 2 * delay <= MaxInt /\ 2 * delay > 0
  BY <1>1, <1>2, HalfBounds, RetryAssumption
<1> QED
  BY <1>1, <1>3, RetryAssumption DEF Double, Wrap

\* Every step keeps the bounds.
LEMMA BoundsNext == BoundsInv /\ [Next]_vars => BoundsInv'
<1> SUFFICES ASSUME BoundsInv, [Next]_vars PROVE BoundsInv'
  OBVIOUS
<1> USE RetryAssumption DEF BoundsInv, TypeOK, Duration, ResultInBounds
<1>1. CASE Begin
  BY <1>1 DEF Begin, Return, args
<1>2. CASE Double
  <2>1. delay' \in 1..MaxInt
    BY <1>2, DoubleFits
  <2> QED
    BY <1>2, <2>1 DEF Double, args
<1>3. CASE JumpToCap
  BY <1>3 DEF JumpToCap, args
<1>4. CASE LoopEnds
  BY <1>4 DEF LoopEnds, args
<1>5. CASE Cap
  BY <1>5 DEF Cap, Capped, args
<1>6. CASE Jitter
  <2>1. delay \in Int
    OBVIOUS
  <2>2. CASE Half(delay) <= 0
    <3>1. Return(delay)
      BY <1>6, <2>2 DEF Jitter
    <3> QED
      BY <1>6, <2>1, <2>2, <3>1, HalfBounds DEF Jitter, Return, args
  <2>3. CASE ~(Half(delay) <= 0)
    <3>1. PICK draw \in 0..Half(delay) - 1 : Return(Half(delay) + draw)
      BY <1>6, <2>3 DEF Jitter
    <3>2. Half(delay) \in Int /\ Half(delay) > 0 /\ 2 * Half(delay) <= delay
      BY <2>1, <2>3, HalfBounds
    <3>3. Half(delay) + draw \in 1..delay
      BY <2>1, <3>2
    <3> QED
      BY <1>6, <3>1, <3>3 DEF Jitter, Return, args
  <2> QED
    BY <2>2, <2>3
<1>7. CASE UNCHANGED vars
  BY <1>7 DEF vars, args
<1> QED
  BY <1>1, <1>2, <1>3, <1>4, <1>5, <1>6, <1>7 DEF Next

\* Doubling once more, in the powers of two
LEMMA DoubleProduct ==
    ASSUME NEW b \in Nat, NEW n \in Nat
    PROVE  b * Power[n + 1] = 2 * (b * Power[n])
<1>1. \A x, y \in Nat : x * (2 * y) = 2 * (x * y)
  OBVIOUS
<1> QED
  BY <1>1, PowerDoubles

\* More doublings of the base give no less.
LEMMA ProductGrows ==
    ASSUME NEW b \in Nat, NEW n \in Nat, NEW m \in Nat, m >= n
    PROVE  b * Power[m] \in Nat /\ b * Power[n] \in Nat /\ b * Power[m] >= b * Power[n]
<1>1. \A x, y, z \in Nat : y >= z => x * y \in Nat /\ x * z \in Nat /\ x * y >= x * z
  OBVIOUS
<1>2. Power[m] \in Nat /\ Power[n] \in Nat /\ Power[m] >= Power[n]
  BY PowerDoubles, PowerGrows
<1> QED
  BY <1>1, <1>2

\* Where the loop jumps to the cap, one more doubling would have reached it.
LEMMA JumpIsLate ==
    ASSUME RetryInv, JumpToCap, maxDelay > 0
    PROVE  Exact >= maxDelay - 1
<1>1. /\ pc = "loop" /\ i < retry /\ delay >= Half(maxDelay)
      /\ baseDelay \in Nat /\ i \in Nat /\ i >= 1 /\ retry \in Nat /\ maxDelay \in Nat
      /\ delay \in Nat /\ delay = baseDelay * Power[i - 1]
  BY RetryAssumption
  DEF JumpToCap, NearCap, RetryInv, BoundsInv, DoublingInv, TypeOK, Duration
<1>2. baseDelay * Power[i] = 2 * delay
  <2>1. i - 1 \in Nat /\ (i - 1) + 1 = i
    BY <1>1
  <2>2. baseDelay * Power[(i - 1) + 1] = 2 * (baseDelay * Power[i - 1])
    BY <1>1, <2>1, DoubleProduct
  <2> QED
    BY <1>1, <2>1, <2>2
<1>3. Exact >= baseDelay * Power[i] /\ Exact \in Nat
  <2>1. retry - 1 \in Nat /\ retry - 1 >= i
    BY <1>1
  <2> QED
    BY <1>1, <2>1, ProductGrows DEF Exact
<1>4. Half(maxDelay) \in Nat /\ 2 * Half(maxDelay) >= maxDelay - 1
  BY <1>1 DEF Half
<1> QED
  BY <1>1, <1>2, <1>3, <1>4

\* Every step keeps count of the doublings.
LEMMA DoublingNext == RetryInv /\ [Next]_vars => DoublingInv'
<1> SUFFICES ASSUME RetryInv, [Next]_vars PROVE DoublingInv'
  OBVIOUS
<1>1. /\ retry \in Int /\ baseDelay \in Int /\ maxDelay \in Int /\ delay \in Int /\ i \in Int
      /\ pc \in {"loop", "cap", "jitter"} => retry > 0 /\ baseDelay > 0
  BY RetryAssumption DEF RetryInv, BoundsInv, TypeOK, Duration
<1>2. retry > 0 /\ baseDelay > 0 => Exact \in Nat
  <2>1. ASSUME retry > 0, baseDelay > 0 PROVE Exact \in Nat
    <3>1. baseDelay \in Nat /\ retry - 1 \in Nat
      BY <1>1, <2>1
    <3> QED
      BY <3>1, ProductGrows DEF Exact
  <2> QED
    BY <2>1
<1>3. UNCHANGED args => Exact' = Exact /\ Documented' = Documented /\ UNCHANGED <<retry, baseDelay, maxDelay>>
  BY DEF args, Exact, Documented
<1>4. CASE Begin
  <2>1. CASE pc' = "done"
    BY <2>1 DEF DoublingInv, DelayNearDocumented
  <2>2. CASE pc' # "done"
    <3>1. pc' = "loop" /\ i' = 1 /\ delay' = baseDelay /\ retry > 0 /\ UNCHANGED args
      BY <1>1, <1>4, <2>2 DEF Begin, Return
    <3>2. i' - 1 = 0 /\ baseDelay * Power[0] = baseDelay
      BY <1>1, <3>1, PowerDoubles
    <3> QED
      BY <1>1, <1>3, <3>1, <3>2 DEF DoublingInv, DelayNearDocumented
  <2> QED
    BY <2>1, <2>2
<1>5. CASE Double
  <2>1. /\ pc = "loop" /\ pc' = "loop" /\ i' = i + 1 /\ i < retry /\ UNCHANGED args
        /\ i >= 1 /\ delay = baseDelay * Power[i - 1]
    BY <1>1, <1>5 DEF Double, RetryInv, DoublingInv
  <2>2. delay' = 2 * delay
    BY <1>5, DoubleFits DEF RetryInv
  <2>3. baseDelay \in Nat /\ i - 1 \in Nat /\ (i - 1) + 1 = i /\ i' - 1 = i
    BY <1>1, <2>1
  <2>4. baseDelay * Power[(i - 1) + 1] = 2 * (baseDelay * Power[i - 1])
    BY <2>3, DoubleProduct
  <2>5. delay' = baseDelay * Power[i' - 1]
    BY <2>1, <2>2, <2>3, <2>4
  <2>6. i' \in 1..retry
    BY <1>1, <2>1
  <2> QED
    BY <1>3, <2>1, <2>5, <2>6 DEF DoublingInv, DelayNearDocumented
<1>6. CASE JumpToCap
  <2>1. pc' = "cap" /\ delay' = maxDelay /\ UNCHANGED args
    BY <1>6 DEF JumpToCap
  <2>2. maxDelay > 0 => Exact >= maxDelay - 1
    BY <1>6, JumpIsLate
  <2> QED
    BY <1>3, <2>1, <2>2 DEF DoublingInv, DelayNearDocumented
<1>7. CASE LoopEnds
  <2>1. pc = "loop" /\ i >= retry /\ pc' = "cap" /\ delay' = delay /\ UNCHANGED args
    BY <1>7 DEF LoopEnds
  <2>2. i \in 1..retry /\ delay = baseDelay * Power[i - 1]
    BY <2>1 DEF RetryInv, DoublingInv
  <2>3. i = retry
    BY <1>1, <2>1, <2>2
  <2>4. delay = Exact
    BY <2>2, <2>3 DEF Exact
  <2> QED
    BY <1>3, <2>1, <2>4 DEF DoublingInv, DelayNearDocumented
<1>8. CASE Cap
  <2>1. pc = "cap" /\ pc' = "jitter" /\ delay' = Capped /\ UNCHANGED args
    BY <1>8 DEF Cap
  <2>2. \/ delay = Exact
        \/ delay = maxDelay /\ (maxDelay > 0 => Exact >= maxDelay - 1)
    BY <2>1 DEF RetryInv, DoublingInv
  <2>3. Exact \in Nat
    BY <1>1, <1>2, <2>1
  <2>4. maxDelay > 0 => Capped \in {Documented, Documented + 1}
    BY <1>1, <2>2, <2>3 DEF Capped, Documented
  <2> QED
    BY <1>3, <2>1, <2>4 DEF DoublingInv, DelayNearDocumented
<1>9. CASE Jitter
  BY <1>9 DEF Jitter, Return, DoublingInv, DelayNearDocumented
<1>10. CASE UNCHANGED vars
  BY <1>3, <1>10 DEF vars, RetryInv, DoublingInv, DelayNearDocumented
<1> QED
  BY <1>4, <1>5, <1>6, <1>7, <1>8, <1>9, <1>10 DEF Next

\* The arguments and the loop variables stay durations, and the delay positive.
THEOREM RetryInvariant == Spec => []RetryInv
<1>1. Init => RetryInv
  BY RetryInit
<1>2. RetryInv /\ [Next]_vars => RetryInv'
  BY BoundsNext, DoublingNext DEF RetryInv
<1> QED
  BY <1>1, <1>2, PTL DEF Spec

\* For positive bounds the delay is positive and no longer than maxDelay,
\* whatever the width of the integers, the retry and the jitter.
THEOREM DelayInBounds == Spec => []ResultInBounds
<1>1. RetryInv => ResultInBounds
  BY DEF RetryInv, BoundsInv
<1> QED
  BY <1>1, RetryInvariant, PTL

\* delay *= 2 never overflows, however long the base and the cap are.
THEOREM NoOverflow == Spec => DoublingIsExact
<1>1. RetryInv /\ [Next]_vars => [i' = i + 1 /\ pc = "loop" => delay' = 2 * delay]_vars
  <2> SUFFICES ASSUME RetryInv, Next, i' = i + 1, pc = "loop"
               PROVE  delay' = 2 * delay
    OBVIOUS
  <2>1. CASE Double
    BY <2>1, DoubleFits DEF RetryInv
  <2>2. CASE ~Double
    BY <2>2 DEF Next, Begin, JumpToCap, LoopEnds, Cap, Jitter, RetryInv, BoundsInv, TypeOK
  <2> QED
    BY <2>1, <2>2
<1> QED
  BY <1>1, RetryInvariant, PTL DEF Spec, DoublingIsExact

\* The delay that is jittered is baseDelay * 2^(retry-1), capped at maxDelay, as
\* retry.go:11 says, or one nanosecond more, for every base, cap and retry.
THEOREM DelayIsDocumented == Spec => []DelayNearDocumented
<1>1. RetryInv => DelayNearDocumented
  BY DEF RetryInv, DoublingInv
<1> QED
  BY <1>1, RetryInvariant, PTL
=============================================================================
