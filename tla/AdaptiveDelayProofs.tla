------------------------ MODULE AdaptiveDelayProofs ------------------------
(***************************************************************************)
(* The sliding windows of estimate_next_delay and the timeout of a steady  *)
(* peer, for every window size, every beacon interval, every sequence of   *)
(* arrivals, removals and returns, and every number of beacons.            *)
(***************************************************************************)
EXTENDS AdaptiveDelay, SumTheorems, SequenceTheorems

------------------------------------------------------------------------------
(* Division by a number of samples or a window size.                       *)

(* Quotient and remainder.                                                 *)
LEMMA DivMod ==
  ASSUME NEW n \in Nat \ {0}, NEW k \in Int
  PROVE  /\ k \div n \in Int
         /\ k % n \in 0..n-1
         /\ k = n * (k \div n) + (k % n)
  OBVIOUS

(* The remainder is an index of the window ...                             *)
LEMMA ModRange ==
  ASSUME NEW n \in Nat \ {0}, NEW k \in Int
  PROVE  k % n \in 0..n-1
  OBVIOUS

(* ... and the number itself before the window is full.                    *)
LEMMA ModSmall ==
  ASSUME NEW n \in Nat \ {0}, NEW k \in Nat, k < n
  PROVE  k % n = k
  OBVIOUS

(* Division of a sum that is not negative, or is.                          *)
LEMMA DivBounds ==
  ASSUME NEW n \in Nat \ {0}, NEW k \in Int
  PROVE  /\ k \div n \in Int
         /\ k < 0 => k \div n >= k
         /\ k >= 0 => k \div n >= 0
  OBVIOUS

(* Division of a multiple.                                                 *)
LEMMA DivMultiple ==
  ASSUME NEW n \in Nat \ {0}, NEW k \in Int
  PROVE  (n * k) \div n = k
  OBVIOUS

(* Only the multiple by 0 lies between -n and n.                           *)
LEMMA Multiples ==
  ASSUME NEW n \in Nat \ {0}, NEW d \in Int
  PROVE  /\ d >= 1 => n * d >= n
         /\ d <= -1 => n * d <= -n
         /\ d = 0 => n * d = 0
<1>1. d >= 1 => n * d >= n
  OBVIOUS
<1>2. d <= -1 => n * d <= -n
  OBVIOUS
<1> QED
  BY <1>1, <1>2

(* A sum that has g + 1 units has more than g whole ones.                  *)
LEMMA DivMore ==
  ASSUME NEW n \in Nat \ {0}, NEW x \in Int, NEW g \in Int, x >= n * (g + 1)
  PROVE  x \div n > g
<1> DEFINE q == x \div n
           d == g + 1 - q
<1>1. q \in Int /\ x % n \in 0..n-1 /\ x = n * q + (x % n)
  BY DivMod
<1> SUFFICES ASSUME q <= g
             PROVE  FALSE
  BY <1>1
<1> HIDE DEF q
<1>2. d \in Int /\ d >= 1
  BY <1>1
<1>3. n * d >= n
  <2> HIDE DEF d
  <2> QED
    BY <1>2, Multiples
<1>4. n * d = n * (g + 1) - n * q
  BY <1>1
<1>5. n * (g + 1) \in Int /\ n * q \in Int
  BY <1>1
<1> QED
  BY <1>1, <1>3, <1>4, <1>5

(* Multiplication distributes.                                             *)
LEMMA Distributes ==
  ASSUME NEW n \in Int, NEW a \in Int, NEW b \in Int
  PROVE  n * (a - b) = n * a - n * b
  OBVIOUS

(* Beacons less than a window apart have slots of their own.               *)
LEMMA SlotsDiffer ==
  ASSUME NEW n \in Nat \ {0}, NEW k \in Nat, NEW j \in Nat, j < k, k < j + n
  PROVE  j % n # k % n
<1> SUFFICES ASSUME j % n = k % n
             PROVE  FALSE
  OBVIOUS
<1> DEFINE q == k \div n
           p == j \div n
           r == k % n
<1>1. q \in Int /\ r \in Int /\ k = n * q + r
  BY DivMod
<1>2. p \in Int /\ j = n * p + r
  BY DivMod
<1> HIDE DEF p, q, r
<1>3. n * (q - p) = k - j
  <2>1. n * (q - p) = n * q - n * p
    BY <1>1, <1>2, Distributes
  <2>2. n * q \in Int /\ n * p \in Int
    BY <1>1, <1>2
  <2> QED
    BY <1>1, <1>2, <2>1, <2>2
<1>4. q - p \in Int /\ n * (q - p) > 0 /\ n * (q - p) < n
  BY <1>1, <1>2, <1>3
<1> QED
  BY <1>4, Multiples

(* A beacon takes the slot of the one a window before it.                  *)
LEMMA SlotReused ==
  ASSUME NEW n \in Nat \ {0}, NEW k \in Nat
  PROVE  (k + n) % n = k % n
<1> DEFINE q == k \div n
           r == k % n
           p == (k + n) \div n
           s == (k + n) % n
<1>1. q \in Int /\ r \in 0..n-1 /\ k = n * q + r
  BY DivMod
<1>2. p \in Int /\ s \in 0..n-1 /\ k + n = n * p + s
  <2>1. k + n \in Int
    OBVIOUS
  <2> QED
    BY <2>1, DivMod
<1> HIDE DEF p, q, r, s
<1> DEFINE d == p - (q + 1)
<1>3. n * d = n * p - n * (q + 1) /\ n * (q + 1) = n * q + n
  BY <1>1, <1>2, Distributes
<1>4. d \in Int /\ n * p \in Int /\ n * q \in Int
  BY <1>1, <1>2
<1>5. n * d = r - s
  BY <1>1, <1>2, <1>3, <1>4
<1>6. n * d < n /\ n * d > -n
  BY <1>1, <1>2, <1>5
<1> HIDE DEF d
<1>7. d = 0
  BY <1>4, <1>6, Multiples
<1>8. r = s
  <2>1. n * d = 0
    BY <1>7
  <2> QED
    BY <1>1, <1>2, <1>5, <2>1
<1> QED
  BY <1>8 DEF r, s

(* The unit of the derived quantities.                                     *)
LEMMA ScaleType == Scale \in Nat \ {0}
<1>1. Unit \in Nat \ {0}
  BY Bounds
<1> QED
  BY <1>1 DEF Scale

------------------------------------------------------------------------------
(* A window of n beacons, as the code keeps it: a ring and a sum.          *)

(* The last n beacons up to beacon k, and a ring with their values.        *)
Last(n, k) == {i \in 0..k : i > k - n}

Holds(ring, n, f, k) == \A i \in Last(n, k) : ring[i % n] = f[i]

(* Every beacon has a slot.                                                *)
LEMMA InSlots ==
  ASSUME NEW n \in Nat \ {0}, NEW i \in Nat, i <= MaxBeats
  PROVE  i % n \in Slots(n)
<1>1. i % n \in 0..n-1
  BY ModRange
<1>2. i < n => i % n = i
  BY ModSmall
<1> QED
  BY <1>1, <1>2, Bounds DEF Slots, Smaller

(* The value that beacon k overwrites is the one that leaves the window.   *)
LEMMA OldestOverwritten ==
  ASSUME NEW n \in Nat \ {0}, NEW k \in Nat, NEW ring, NEW f,
         Holds(ring, n, f, k - 1), k >= n
  PROVE  ring[k % n] = f[k - n]
<1>1. k - n \in Nat /\ k - n \in Last(n, k - 1)
  BY DEF Last
<1>2. ((k - n) + n) % n = (k - n) % n
  BY <1>1, SlotReused
<1>3. (k - n) + n = k
  OBVIOUS
<1> QED
  BY <1>1, <1>2, <1>3 DEF Holds

(* After it is written the ring has the last n values.                     *)
LEMMA RingStep ==
  ASSUME NEW n \in Nat \ {0}, NEW k \in 0..MaxBeats, NEW V,
         NEW ring \in [Slots(n) -> V], NEW f, f[k] \in V, Holds(ring, n, f, k - 1)
  PROVE  /\ [ring EXCEPT ![k % n] = f[k]] \in [Slots(n) -> V]
         /\ Holds([ring EXCEPT ![k % n] = f[k]], n, f, k)
<1>1. k \in Nat /\ MaxBeats \in Nat /\ k <= MaxBeats
  BY Bounds
<1>2. k % n \in Slots(n)
  BY <1>1, InSlots
<1>3. ASSUME NEW i \in Last(n, k)
      PROVE  [ring EXCEPT ![k % n] = f[k]][i % n] = f[i]
  <2>1. CASE i = k
    BY <1>2, <2>1
  <2>2. CASE i # k
    <3>1. i \in Nat /\ i < k /\ k < i + n /\ i <= MaxBeats
      BY <1>1, <2>2 DEF Last
    <3>2. i % n # k % n
      BY <1>1, <3>1, SlotsDiffer
    <3>3. ring[i % n] = f[i]
      <4>1. i \in Last(n, k - 1)
        BY <1>1, <3>1 DEF Last
      <4> QED
        BY <4>1 DEF Holds
    <3>4. i % n \in Slots(n)
      BY <3>1, InSlots, Zenon
    <3> QED
      BY <1>2, <3>2, <3>3, <3>4
  <2> QED
    BY <2>1, <2>2
<1> QED
  BY <1>2, <1>3 DEF Holds

(* And the rolled sum is the sum over the window.                          *)
LEMMA RolledSum ==
  ASSUME NEW n \in Nat \ {0}, NEW k \in 0..MaxBeats,
         NEW ring \in [Slots(n) -> Int], NEW f, \A i \in 0..k : f[i] \in Int,
         Holds(ring, n, f, k - 1)
  PROVE  Rolled(SumFunctionOnSet(f, Last(n, k - 1)), ring, n, k, f[k])
           = SumFunctionOnSet(f, Last(n, k))
<1> DEFINE W == Last(n, k - 1)
           V == Last(n, k)
<1>1. k \in Nat
  BY Bounds
<1>2. IsFiniteSet(W) /\ IsFiniteSet(V)
  <2>1. IsFiniteSet(0..k-1) /\ IsFiniteSet(0..k)
    BY <1>1, FS_Interval
  <2> QED
    BY <2>1, FS_Subset DEF Last
<1>3. (\A i \in W : f[i] \in Int) /\ (\A i \in V : f[i] \in Int)
  BY <1>1 DEF Last
<1>4. k \in V
  BY <1>1 DEF Last
<1>5. CASE k < n
  <2>1. V \ {k} = W
    BY <1>1, <1>5 DEF Last
  <2> HIDE DEF V, W
  <2>2. SumFunctionOnSet(f, V) = f[k] + SumFunctionOnSet(f, W)
    BY <1>2, <1>3, <1>4, <2>1, SumRemove
  <2>3. SumFunctionOnSet(f, W) \in Int /\ f[k] \in Int
    BY <1>2, <1>3, <1>4, SumSame
  <2>4. Rolled(SumFunctionOnSet(f, W), ring, n, k, f[k]) = SumFunctionOnSet(f, V)
    BY <1>5, <2>2, <2>3 DEF Rolled
  <2> QED
    BY <2>4 DEF V, W
<1>6. CASE k >= n
  <2>1. k - n \in W
    BY <1>1, <1>6 DEF Last
  <2>2. W \ {k - n} = V \ {k}
    <3>1. ASSUME NEW i \in Int
          PROVE  i \in W /\ i # k - n <=> i \in V /\ i # k
      BY <1>1, <1>6 DEF Last
    <3>2. W \subseteq Int /\ V \subseteq Int
      BY <1>1 DEF Last
    <3> HIDE DEF V, W
    <3> QED
      BY <3>1, <3>2
  <2>3. ring[k % n] = f[k - n]
    BY <1>1, <1>6, OldestOverwritten
  <2> DEFINE R == V \ {k}
  <2>4. IsFiniteSet(R) /\ \A i \in R : f[i] \in Int
    BY <1>2, <1>3, FS_Subset
  <2> HIDE DEF V, W, R
  <2>5. SumFunctionOnSet(f, V) = f[k] + SumFunctionOnSet(f, R)
    BY <1>2, <1>3, <1>4, SumRemove DEF R
  <2>6. SumFunctionOnSet(f, W) = f[k - n] + SumFunctionOnSet(f, R)
    BY <1>2, <1>3, <2>1, <2>2, SumRemove DEF R
  <2>7. SumFunctionOnSet(f, R) \in Int /\ f[k] \in Int /\ f[k - n] \in Int
    BY <1>3, <1>4, <2>1, <2>4, SumSame
  <2>8. Rolled(SumFunctionOnSet(f, W), ring, n, k, f[k]) = SumFunctionOnSet(f, V)
    BY <1>1, <1>6, <2>3, <2>5, <2>6, <2>7 DEF Rolled
  <2> QED
    BY <2>8 DEF V, W
<1> QED
  BY <1>1, <1>5, <1>6

(* The same, when f continues the function g of the beacons before.        *)
LEMMA WindowStep ==
  ASSUME NEW n \in Nat \ {0}, NEW k \in 0..MaxBeats,
         NEW ring \in [Slots(n) -> Int], NEW g, NEW f,
         \A i \in 0..k-1 : g[i] = f[i],
         \A i \in 0..k : f[i] \in Int,
         Holds(ring, n, f, k - 1)
  PROVE  Rolled(SumFunctionOnSet(g, Last(n, k - 1)), ring, n, k, f[k])
           = SumFunctionOnSet(f, Last(n, k))
<1> DEFINE W == Last(n, k - 1)
<1>1. k \in Nat
  BY Bounds
<1>2. IsFiniteSet(W)
  <2>1. IsFiniteSet(0..k-1)
    BY <1>1, FS_Interval
  <2> QED
    BY <2>1, FS_Subset DEF Last
<1>3. \A i \in W : g[i] = f[i] /\ g[i] \in Int
  BY <1>1 DEF Last
<1>4. SumFunctionOnSet(g, W) = SumFunctionOnSet(f, W)
  <2> HIDE DEF W
  <2> QED
    BY <1>2, <1>3, SumSame
<1>5. Rolled(SumFunctionOnSet(f, W), ring, n, k, f[k]) = SumFunctionOnSet(f, Last(n, k))
  BY RolledSum
<1> QED
  BY <1>4, <1>5

------------------------------------------------------------------------------
(* The inductive invariant.                                                *)

(* The clock does not go back, and starts with the first beacon.           *)
Times ==
  /\ Len(arrivals) = seq_num + 1
  /\ seq_num = -1 => arrival_time_ms = 0
  /\ seq_num >= 0 => Arrival(0) = 0 /\ arrival_time_ms = Arrival(seq_num)
  /\ \A i, j \in 0..seq_num : i <= j => Arrival(i) <= Arrival(j)

(* The gap before beacon i.                                                *)
Delta(i) == IF i = 0 THEN 0 ELSE (Arrival(i) - Arrival(i - 1)) * Scale

(* Each window has the last values in their slots.                         *)
RingsKept ==
  /\ \A i \in Window(W2_WINDOW_SIZE) : deltas[i % W2_WINDOW_SIZE] = Delta(i)
  /\ \A i \in Window(W1_WINDOW_SIZE) : past_w1[i % W1_WINDOW_SIZE] = Normalised(i)
  /\ \A i \in Window(W2_WINDOW_SIZE) : past_w2[i % W2_WINDOW_SIZE] = Normalised(i)

(* The gaps in the window add up to the time it spans.                     *)
Span(i) == (Arrival(i) - Arrival(i - Smaller(i, W2_WINDOW_SIZE))) * Scale

TotalIsSpan ==
  sum_time_deltas = IF seq_num = -1 THEN 0 ELSE Span(seq_num)

AverageKept ==
  /\ seq_num = -1 => average_heartbeat_time_ms = 0
  /\ AverageIsMean

(* The timeout in force is what the sums and the average give; that of the *)
(* first beacon is fixed.                                                  *)
TimeoutEstimated ==
  /\ seq_num = 0 => next_timeout = 2 * (HEARTBEAT_INTERVAL * Scale)
  /\ seq_num > 0 =>
       next_timeout =
         Max({Expected(sum_w1, seq_num, W1_WINDOW_SIZE, average_heartbeat_time_ms),
              Expected(sum_w2, seq_num, W2_WINDOW_SIZE, average_heartbeat_time_ms)})
           + HEARTBEAT_INTERVAL * Scale - arrival_time_ms * Scale

IInv ==
  /\ TypeOK
  /\ Times
  /\ RingsKept
  /\ TotalIsSpan
  /\ AverageKept
  /\ SumsAreWindows
  /\ TimeoutEstimated

(* The inductive invariant holds before the first beacon.                  *)
LEMMA InitInv == Init => IInv
<1> SUFFICES ASSUME Init
             PROVE  IInv
  OBVIOUS
<1> USE DEF Init
<1>1. TypeOK
  <2>1. -1 \in -1..MaxBeats
    BY Bounds
  <2>2. poisoned \in BOOLEAN
    OBVIOUS
  <2> QED
    BY <2>1, <2>2 DEF TypeOK
<1>2. Times
  BY DEF Times
<1>3. 0..seq_num = {} /\ \A n \in Nat : Window(n) = {}
  BY DEF Window
<1>4. RingsKept
  BY <1>3, Windows DEF RingsKept
<1>5. TotalIsSpan /\ AverageKept /\ TimeoutEstimated
  BY DEF TotalIsSpan, AverageKept, AverageIsMean, TimeoutEstimated
<1>6. SumsAreWindows
  <2>1. sum_w1 = 0 /\ sum_w2 = 0
    OBVIOUS
  <2>2. Window(W1_WINDOW_SIZE) = {} /\ Window(W2_WINDOW_SIZE) = {}
    BY <1>3, Windows
  <2> QED
    BY <2>1, <2>2, SumEmpty DEF SumsAreWindows
<1> QED
  BY <1>1, <1>2, <1>4, <1>5, <1>6 DEF IInv

------------------------------------------------------------------------------
(* A beacon leaves what was derived from the earlier arrivals alone, and   *)
(* adds the values of its own.                                             *)

(* A beacon adds an arrival, and keeps those before it.                    *)
LEMMA History ==
  ASSUME TypeOK, Times, NEW gap \in Gaps, Beacon(gap)
  PROVE  /\ seq_num' = seq_num + 1
         /\ seq_num' \in 0..MaxBeats
         /\ arrival_time_ms' \in Nat
         /\ arrivals' \in Seq(Nat)
         /\ Len(arrivals') = seq_num' + 1
         /\ Arrival(seq_num)' = arrival_time_ms'
         /\ \A i \in 0..seq_num : Arrival(i)' = Arrival(i)
<1>1. seq_num \in Int /\ seq_num >= -1 /\ seq_num < MaxBeats /\ MaxBeats \in Int
  BY Bounds DEF TypeOK, Beacon
<1>2. seq_num' = seq_num + 1 /\ arrivals' = Append(arrivals, arrival_time_ms')
  BY DEF Beacon
<1>3. arrival_time_ms' \in Nat
  BY <1>1, ClockMonotonic DEF TypeOK, Beacon
<1>4. arrivals \in Seq(Nat) /\ Len(arrivals) = seq_num + 1
  BY DEF TypeOK, Times
<1>5. /\ arrivals' \in Seq(Nat)
      /\ Len(arrivals') = seq_num + 2
      /\ arrivals'[seq_num + 2] = arrival_time_ms'
      /\ \A j \in 1..seq_num+1 : arrivals'[j] = arrivals[j]
  BY <1>1, <1>2, <1>3, <1>4
<1>6. \A i \in 0..seq_num : arrivals'[i + 1] = arrivals[i + 1]
  BY <1>1, <1>5
<1> QED
  BY <1>1, <1>2, <1>3, <1>5, <1>6 DEF Arrival

(* Arrivals stay in order.                                                 *)
LEMMA TimesStep ==
  ASSUME TypeOK, Times, NEW gap \in Gaps, Beacon(gap)
  PROVE  Times'
<1>1. /\ seq_num \in Int /\ seq_num >= -1
      /\ seq_num' = seq_num + 1
      /\ seq_num' \in Nat
      /\ arrival_time_ms' \in Nat
      /\ Len(arrivals') = seq_num' + 1
      /\ Arrival(seq_num)' = arrival_time_ms'
      /\ \A i \in 0..seq_num : Arrival(i)' = Arrival(i)
  BY History, Bounds DEF TypeOK
<1>2. /\ seq_num = -1 => arrival_time_ms' = 0
      /\ seq_num >= 0 => arrival_time_ms' >= arrival_time_ms
  BY <1>1, ClockMonotonic DEF TypeOK, Beacon
<1>3. Arrival(0)' = 0
  BY <1>1, <1>2 DEF Times, Arrival
<1>4. \A i \in 0..seq_num : Arrival(i) \in Nat /\ Arrival(i) <= arrival_time_ms
  <2>1. \A i \in 0..seq_num : i + 1 \in 1..Len(arrivals)
    BY <1>1 DEF Times
  <2>2. \A i \in 0..seq_num : Arrival(i) \in Nat
    BY <2>1 DEF Arrival, TypeOK
  <2> QED
    BY <1>1, <2>2 DEF Times
<1>5. ASSUME NEW i \in 0..seq_num', NEW j \in 0..seq_num', i <= j
      PROVE  Arrival(i)' <= Arrival(j)'
  <2>1. CASE j \in 0..seq_num
    BY <1>1, <1>5, <2>1 DEF Times
  <2>2. CASE j = seq_num' /\ i = seq_num'
    BY <1>1, <2>2 DEF Arrival
  <2>3. CASE j = seq_num' /\ i \in 0..seq_num
    <3>1. Arrival(j)' = arrival_time_ms'
      BY <1>1, <2>3 DEF Arrival
    <3>2. Arrival(i)' <= arrival_time_ms
      BY <1>1, <1>4, <2>3
    <3>3. arrival_time_ms \in Nat /\ seq_num >= 0 /\ Arrival(i)' \in Nat
      BY <1>1, <1>4, <2>3 DEF TypeOK
    <3> QED
      BY <1>1, <1>2, <3>1, <3>2, <3>3
  <2> QED
    BY <1>1, <1>5, <2>1, <2>2, <2>3
<1>6. (\A i, j \in 0..seq_num : i <= j => Arrival(i) <= Arrival(j))'
  BY <1>5
<1> QED
  BY <1>1, <1>3, <1>6 DEF Times

(* The values derived from a history, and their types.                     *)
LEMMA Derived ==
  ASSUME TypeOK, Times
  PROVE  /\ \A i \in 0..seq_num : Arrival(i) \in Nat
         /\ \A i \in 0..seq_num : Delta(i) \in Nat
         /\ \A i \in 0..seq_num : Span(i) \in Nat
         /\ \A i \in 0..seq_num : MeanGap(i) \in Nat
         /\ \A i \in 0..seq_num : Normalised(i) \in Int
<1>0. /\ Scale \in Nat \ {0}
      /\ HEARTBEAT_INTERVAL \in Nat \ {0}
      /\ W2_WINDOW_SIZE \in Nat \ {0}
      /\ seq_num \in Int
  BY ScaleType, IntervalPositive, Windows, Bounds DEF TypeOK
<1>1. ASSUME NEW i \in 0..seq_num
      PROVE  Arrival(i) \in Nat
  <2>1. i + 1 \in 1..Len(arrivals)
    BY <1>0 DEF Times
  <2> QED
    BY <2>1 DEF Arrival, TypeOK
<1>2. \A i, j \in 0..seq_num : i <= j => Arrival(j) - Arrival(i) \in Nat
  <2>1. \A i, j \in 0..seq_num : i <= j => Arrival(i) <= Arrival(j)
    BY DEF Times
  <2> QED
    BY <1>1, <2>1
<1>3. \A d \in Nat : d * Scale \in Nat
  BY <1>0
<1>4. ASSUME NEW i \in 0..seq_num
      PROVE  Delta(i) \in Nat
  <2>1. CASE i = 0
    BY <2>1 DEF Delta
  <2>2. CASE i # 0
    <3>1. i - 1 \in 0..seq_num /\ i - 1 <= i
      BY <1>0, <2>2
    <3>2. Arrival(i) - Arrival(i - 1) \in Nat
      BY <1>2, <3>1
    <3> QED
      BY <1>3, <2>2, <3>2 DEF Delta
  <2> QED
    BY <2>1, <2>2
<1>5. ASSUME NEW i \in 0..seq_num
      PROVE  Span(i) \in Nat
  <2>1. /\ i - Smaller(i, W2_WINDOW_SIZE) \in 0..seq_num
        /\ i - Smaller(i, W2_WINDOW_SIZE) <= i
    BY <1>0 DEF Smaller
  <2>2. Arrival(i) - Arrival(i - Smaller(i, W2_WINDOW_SIZE)) \in Nat
    BY <1>2, <2>1
  <2> QED
    BY <1>3, <2>2 DEF Span
<1>6. ASSUME NEW i \in 0..seq_num
      PROVE  MeanGap(i) \in Nat
  <2>1. CASE i = 0
    BY <1>0, <2>1 DEF MeanGap
  <2>2. CASE i # 0
    <3>1. Smaller(i, W2_WINDOW_SIZE) \in Nat \ {0}
      BY <1>0, <2>2 DEF Smaller
    <3>2. MeanGap(i) = Span(i) \div Smaller(i, W2_WINDOW_SIZE)
      BY <2>2 DEF MeanGap, Span
    <3> HIDE DEF Smaller
    <3>3. Span(i) \div Smaller(i, W2_WINDOW_SIZE) \in Nat
      BY <1>5, <3>1, DivBounds
    <3> QED
      BY <3>2, <3>3
  <2> QED
    BY <2>1, <2>2
<1>7. ASSUME NEW i \in 0..seq_num
      PROVE  Normalised(i) \in Int
  <2>1. Arrival(i) * Scale \in Int
    BY <1>0, <1>1
  <2>2. CASE i = 0
    BY <2>1, <2>2 DEF Normalised
  <2>3. CASE i # 0
    <3>1. i - 1 \in 0..seq_num /\ i \in Int
      BY <1>0, <2>3
    <3>2. i * MeanGap(i - 1) \in Int
      BY <1>6, <3>1
    <3> QED
      BY <2>1, <2>3, <3>2 DEF Normalised
  <2> QED
    BY <2>2, <2>3
<1> QED
  BY <1>1, <1>4, <1>5, <1>6, <1>7

(* What is derived from the arrivals so far stays.                         *)
LEMMA PastKept ==
  ASSUME TypeOK, Times, NEW gap \in Gaps, Beacon(gap)
  PROVE  /\ \A i \in 0..seq_num : Delta(i)' = Delta(i)
         /\ \A i \in 0..seq_num : MeanGap(i)' = MeanGap(i)
         /\ \A i \in 0..seq_num : Normalised(i)' = Normalised(i)
<1>1. \A i \in 0..seq_num : Arrival(i)' = Arrival(i)
  BY History
<1>2. seq_num \in Int /\ W2_WINDOW_SIZE \in Nat \ {0}
  BY Windows, Bounds DEF TypeOK
<1>3. ASSUME NEW i \in 0..seq_num
      PROVE  Delta(i)' = Delta(i)
  <2>1. i # 0 => i - 1 \in 0..seq_num
    BY <1>2
  <2> QED
    BY <1>1, <2>1 DEF Delta
<1>4. ASSUME NEW i \in 0..seq_num
      PROVE  MeanGap(i)' = MeanGap(i)
  <2>1. i - Smaller(i, W2_WINDOW_SIZE) \in 0..seq_num
    BY <1>2 DEF Smaller
  <2>2. Arrival(i - Smaller(i, W2_WINDOW_SIZE))' = Arrival(i - Smaller(i, W2_WINDOW_SIZE))
    BY <1>1, <2>1
  <2> QED
    BY <1>1, <2>2 DEF MeanGap
<1>5. ASSUME NEW i \in 0..seq_num
      PROVE  Normalised(i)' = Normalised(i)
  <2>1. i # 0 => i - 1 \in 0..seq_num
    BY <1>2
  <2>2. i # 0 => MeanGap(i - 1)' = MeanGap(i - 1)
    BY <1>4, <2>1
  <2> QED
    BY <1>1, <2>2 DEF Normalised
<1> QED
  BY <1>3, <1>4, <1>5

(* What Beacon stores is the gap and the normalised value of this beacon.  *)
LEMMA NewValues ==
  ASSUME TypeOK, Times, AverageKept, NEW gap \in Gaps, Beacon(gap),
         NEW k, k = seq_num + 1
  PROVE  /\ Delta(k)' = (arrival_time_ms' - arrival_time_ms) * Scale
         /\ Normalised(k)' = arrival_time_ms' * Scale - k * average_heartbeat_time_ms
<1>1. /\ seq_num \in Int /\ seq_num >= -1
      /\ k = seq_num' /\ k \in Nat
      /\ Arrival(k)' = arrival_time_ms'
      /\ arrival_time_ms' \in Nat
      /\ \A i \in 0..seq_num : Arrival(i)' = Arrival(i)
  BY History, Bounds DEF TypeOK, Arrival
<1>2. Scale \in Nat \ {0}
  BY ScaleType
<1>3. CASE k = 0
  <2>1. arrival_time_ms' = 0 /\ arrival_time_ms = 0
    BY <1>1, <1>3 DEF Times, Beacon
  <2>2. Delta(k)' = 0
    BY <1>3 DEF Delta
  <2>3. Normalised(k)' = arrival_time_ms' * Scale - 0
    BY <1>1, <1>3 DEF Normalised
  <2>4. k * average_heartbeat_time_ms = 0
    BY <1>1, <1>3 DEF AverageKept
  <2>5. (arrival_time_ms' - arrival_time_ms) * Scale = 0
    BY <1>2, <2>1
  <2> QED
    BY <2>2, <2>3, <2>4, <2>5
<1>4. CASE k # 0
  <2>1. k - 1 = seq_num /\ k - 1 \in 0..seq_num
    BY <1>1, <1>4
  <2>2. Arrival(k - 1)' = arrival_time_ms
    BY <1>1, <2>1 DEF Times
  <2>3. Delta(k)' = (arrival_time_ms' - arrival_time_ms) * Scale
    BY <1>1, <1>4, <2>2 DEF Delta
  <2>4. MeanGap(k - 1)' = average_heartbeat_time_ms
    <3>1. MeanGap(k - 1)' = MeanGap(k - 1)
      BY <2>1, PastKept
    <3>2. average_heartbeat_time_ms = MeanGap(k - 1)
      BY <2>1 DEF AverageKept, AverageIsMean
    <3> QED
      BY <3>1, <3>2
  <2>5. Normalised(k)' = arrival_time_ms' * Scale - k * average_heartbeat_time_ms
    BY <1>1, <1>4, <2>4 DEF Normalised
  <2> QED
    BY <2>3, <2>5
<1> QED
  BY <1>3, <1>4

------------------------------------------------------------------------------
(* Every part of the invariant is kept by a beacon.                        *)

(* Two spans side by side are one.                                         *)
LEMMA Telescopes ==
  ASSUME NEW a \in Int, NEW b \in Int, NEW c \in Int, NEW m \in Int
  PROVE  /\ (a - b) * m + (b - c) * m = (a - c) * m
         /\ (a - a) * m = 0
  OBVIOUS

(* The sum of the gaps spans the window.                                   *)
LEMMA TotalStep ==
  ASSUME TypeOK, Times, RingsKept, TotalIsSpan, AverageKept,
         NEW gap \in Gaps, Beacon(gap), NEW k, k = seq_num + 1
  PROVE  /\ sum_time_deltas' = Span(k)'
         /\ TotalIsSpan'
<1> DEFINE n == W2_WINDOW_SIZE
           x == (arrival_time_ms' - arrival_time_ms) * Scale
<1>1. /\ seq_num \in Int /\ seq_num >= -1
      /\ k = seq_num' /\ k \in 0..MaxBeats /\ k \in Nat
      /\ Arrival(k)' = arrival_time_ms'
      /\ arrival_time_ms' \in Nat
      /\ \A i \in 0..seq_num : Arrival(i)' = Arrival(i)
  BY History, Bounds DEF TypeOK, Arrival
<1>2. Scale \in Nat \ {0} /\ n \in Nat \ {0}
  BY ScaleType, Windows
<1>3. \A i \in 0..seq_num : Arrival(i) \in Nat
  BY Derived
<1>4. sum_time_deltas' = Rolled(sum_time_deltas, deltas, n, k, x)
  BY DEF Beacon
<1> HIDE DEF n, x
<1>5. ASSUME k = 0
      PROVE  sum_time_deltas' = Span(k)'
  <2>1. arrival_time_ms' = 0 /\ arrival_time_ms = 0
    BY <1>1, <1>5 DEF Times, Beacon
  <2>2. x = 0
    BY <1>2, <2>1 DEF x
  <2>3. sum_time_deltas = 0
    BY <1>1, <1>5 DEF TotalIsSpan
  <2>4. sum_time_deltas' = 0
    BY <1>2, <1>4, <1>5, <2>2, <2>3 DEF Rolled
  <2>5. Smaller(k, n) = 0
    BY <1>2, <1>5 DEF Smaller
  <2>6. Span(k)' = (Arrival(k)' - Arrival(k)') * Scale
    BY <1>1, <1>5, <2>5 DEF Span, n
  <2>7. (Arrival(k)' - Arrival(k)') * Scale = 0
    BY <1>1, <1>2, Telescopes
  <2> QED
    BY <2>4, <2>6, <2>7
<1>6. ASSUME k # 0
      PROVE  sum_time_deltas' = Span(k)'
  <2>1. seq_num = k - 1 /\ k - 1 \in 0..seq_num
    BY <1>1, <1>6
  <2>2. arrival_time_ms = Arrival(k - 1)
    BY <2>1 DEF Times
  <2>7. k \in Nat /\ n \in Nat \ {0} /\ seq_num \in Int
    BY <1>1, <1>2
  <2>6. 0 \in 0..seq_num
    BY <2>1, <2>7
  <2>3. sum_time_deltas = Span(k - 1)
    <3>1. seq_num # -1
      BY <1>1, <1>6
    <3> QED
      BY <2>1, <3>1, Zenon DEF TotalIsSpan
  <2>4. CASE k < n
    <3>1. Smaller(k, n) = k /\ Smaller(k - 1, n) = k - 1
      BY <1>1, <1>2, <2>4 DEF Smaller
    <3>2. sum_time_deltas' = sum_time_deltas + x
      BY <1>4, <2>4 DEF Rolled
    <3>3. sum_time_deltas = (Arrival(k - 1) - Arrival(0)) * Scale
      BY <1>1, <2>3, <3>1 DEF Span, n
    <3>4. Span(k)' = (arrival_time_ms' - Arrival(0)) * Scale
      <4>1. Arrival(0)' = Arrival(0) /\ k - k = 0
        BY <1>1, <2>6
      <4>2. Span(k)' = (Arrival(k)' - Arrival(k - k)') * Scale
        BY <3>1 DEF Span, n
      <4> QED
        BY <1>1, <4>1, <4>2
    <3>5. Arrival(0) \in Int /\ Arrival(k - 1) \in Int
      BY <1>3, <2>1, <2>6
    <3>6. x + sum_time_deltas = Span(k)'
      BY <1>1, <1>2, <2>2, <3>3, <3>4, <3>5, Telescopes DEF x
    <3>7. x \in Int /\ sum_time_deltas \in Int
      BY <1>1, <1>2 DEF TypeOK, x
    <3> QED
      BY <3>2, <3>6, <3>7
  <2>5. CASE k >= n
    <3> DEFINE j == k - n
    <3>1. j \in 0..seq_num /\ j < k
      BY <2>1, <2>5, <2>7
    <3>2. deltas[k % n] = Delta(j)
      <4> DEFINE f == [i \in 0..k-1 |-> Delta(i)]
      <4>1. Holds(deltas, n, f, k - 1)
        <5>1. ASSUME NEW i \in Last(n, k - 1)
              PROVE  deltas[i % n] = f[i]
          <6>1. i \in Window(n) /\ i \in 0..k-1
            BY <1>1, <1>2, <2>1 DEF Window, Last
          <6> QED
            BY <6>1 DEF RingsKept, n
        <5> QED
          BY <5>1 DEF Holds
      <4>2. j \in 0..k-1 /\ f[j] = Delta(j)
        BY <1>1, <2>1, <3>1
      <4> HIDE DEF f
      <4>3. deltas[k % n] = f[k - n]
        <5>1. n \in Nat \ {0} /\ k \in Nat /\ k >= n
          BY <1>1, <1>2, <2>5
        <5> QED
          BY ONLY <4>1, <5>1, OldestOverwritten, Zenon
      <4> QED
        BY <4>2, <4>3
    <3>3. sum_time_deltas' = sum_time_deltas - Delta(j) + x
      BY <1>1, <1>2, <1>4, <2>5, <3>2 DEF Rolled
    <3>4. sum_time_deltas = (Arrival(k - 1) - Arrival(j)) * Scale + Delta(j)
      <4>1. CASE j = 0
        <5>1. Smaller(k - 1, n) = k - 1 /\ Delta(j) = 0
          BY <1>1, <1>2, <4>1 DEF Smaller, Delta
        <5>2. Span(k - 1) = (Arrival(k - 1) - Arrival(j)) * Scale
          BY <1>1, <4>1, <5>1 DEF Span, n
        <5>3. Span(k - 1) \in Nat
          BY <2>1, Derived
        <5> QED
          BY <2>3, <5>1, <5>2, <5>3
      <4>2. CASE j # 0
        <5>1. Smaller(k - 1, n) = n /\ k - 1 - n = j - 1
          BY <1>1, <1>2, <3>1, <4>2 DEF Smaller
        <5>2. Span(k - 1) = (Arrival(k - 1) - Arrival(j - 1)) * Scale
          BY <5>1 DEF Span, n
        <5>3. Delta(j) = (Arrival(j) - Arrival(j - 1)) * Scale
          BY <4>2 DEF Delta
        <5>4. /\ Arrival(k - 1) \in Int
              /\ Arrival(j) \in Int
              /\ Arrival(j - 1) \in Int
          <6>1. j - 1 \in 0..seq_num
            BY <2>7, <3>1, <4>2
          <6> QED
            BY <1>3, <2>1, <3>1, <6>1
        <5> QED
          BY <1>2, <2>3, <5>2, <5>3, <5>4, Telescopes
      <4> QED
        BY <4>1, <4>2
    <3>5. Span(k)' = (arrival_time_ms' - Arrival(j)) * Scale
      <4>1. Smaller(k, n) = n
        BY <1>1, <1>2, <2>5 DEF Smaller
      <4>2. Arrival(j)' = Arrival(j)
        BY <1>1, <3>1
      <4> QED
        BY <1>1, <4>1, <4>2 DEF Span, n
    <3>6. Arrival(k - 1) \in Int /\ Arrival(j) \in Int /\ Delta(j) \in Int
      BY <1>3, <2>1, <3>1, Derived
    <3>7. x + (Arrival(k - 1) - Arrival(j)) * Scale = Span(k)'
      BY <1>1, <1>2, <2>2, <3>5, <3>6, Telescopes DEF x
    <3>8. x \in Int /\ (Arrival(k - 1) - Arrival(j)) * Scale \in Int
      BY <1>1, <1>2, <3>6, SMTT(30) DEF TypeOK, x
    <3> HIDE DEF j
    <3> QED
      BY <3>3, <3>4, <3>6, <3>7, <3>8
  <2> QED
    BY <1>1, <1>2, <2>4, <2>5
<1>7. sum_time_deltas' = Span(k)'
  BY <1>5, <1>6
<1>8. k # -1
  BY <1>1
<1> QED
  BY <1>1, <1>7, <1>8 DEF TotalIsSpan, Span, Arrival

(* What the functions of the beacons' values look like after beacon k: the *)
(* old values, and the one that Beacon stores.                             *)
LEMMA Stored ==
  ASSUME TypeOK, Times, RingsKept, AverageKept,
         NEW gap \in Gaps, Beacon(gap), NEW k, k = seq_num + 1,
         NEW f, f = [i \in 0..k |-> Normalised(i)'],
         NEW d, d = [i \in 0..k |-> Delta(i)']
  PROVE  /\ k = seq_num' /\ k \in 0..MaxBeats /\ seq_num = k - 1
         /\ f[k] = arrival_time_ms' * Scale - k * average_heartbeat_time_ms
         /\ d[k] = (arrival_time_ms' - arrival_time_ms) * Scale
         /\ d[k] \in Nat
         /\ \A i \in 0..k : f[i] \in Int
         /\ \A i \in 0..k-1 : f[i] = Normalised(i)
         /\ Holds(past_w1, W1_WINDOW_SIZE, f, k - 1)
         /\ Holds(past_w2, W2_WINDOW_SIZE, f, k - 1)
         /\ Holds(deltas, W2_WINDOW_SIZE, d, k - 1)
<1>1. k = seq_num' /\ k \in 0..MaxBeats /\ seq_num = k - 1 /\ arrival_time_ms' \in Nat
  BY History DEF TypeOK
<1>2. k \in Nat /\ Scale \in Nat \ {0}
  <2>1. k \in Nat
    BY ONLY <1>1, Bounds
  <2> QED
    BY <2>1, ScaleType
<1>3. /\ f[k] = arrival_time_ms' * Scale - k * average_heartbeat_time_ms
      /\ d[k] = (arrival_time_ms' - arrival_time_ms) * Scale
  <2>1. k \in 0..k
    BY <1>2
  <2> QED
    BY <2>1, NewValues
<1>4. f[k] \in Int
  <2>1. arrival_time_ms' * Scale \in Int
    BY <1>1, <1>2
  <2>2. k * average_heartbeat_time_ms \in Int
    BY <1>2 DEF TypeOK
  <2> QED
    BY <1>3, <2>1, <2>2
<1>5. d[k] \in Nat
  <2>1. arrival_time_ms' - arrival_time_ms \in Nat
    <3>1. k = 0 => arrival_time_ms' = 0 /\ arrival_time_ms = 0
      BY <1>1 DEF Beacon, Times
    <3>2. k # 0 => arrival_time_ms' = arrival_time_ms + gap
      BY <1>1 DEF Beacon
    <3>3. gap \in Nat /\ arrival_time_ms \in Nat
      BY ClockMonotonic DEF TypeOK
    <3> QED
      BY <3>1, <3>2, <3>3
  <2> QED
    BY <1>2, <1>3, <2>1
<1>6. 0..seq_num = 0..k-1 /\ \A i \in 0..k-1 : i \in 0..k /\ i # k
  <2>1. 0..seq_num = 0..k-1
    BY <1>1, Zenon
  <2> QED
    BY <1>2, <2>1
<1>7. \A i \in 0..k-1 : f[i] = Normalised(i) /\ f[i] \in Int /\ d[i] = Delta(i)
  BY <1>6, PastKept, Derived
<1>8. \A i \in 0..k : f[i] \in Int
  <2>1. \A i \in 0..k : i = k \/ i \in 0..k-1
    BY <1>2
  <2> QED
    BY <1>4, <1>7, <2>1
<1>9. ASSUME NEW n, NEW i \in Last(n, k - 1)
      PROVE  i \in Window(n) /\ i \in 0..k-1
  BY <1>1, Zenon DEF Window, Last
<1>10. /\ Holds(past_w1, W1_WINDOW_SIZE, f, k - 1)
       /\ Holds(past_w2, W2_WINDOW_SIZE, f, k - 1)
       /\ Holds(deltas, W2_WINDOW_SIZE, d, k - 1)
  BY <1>7, <1>9, Zenon DEF RingsKept, Holds
<1> QED
  BY <1>1, <1>3, <1>5, <1>7, <1>8, <1>10

(* Each ring has the new value in its slot.                                *)
LEMMA RingsStep ==
  ASSUME TypeOK, Times, RingsKept, AverageKept, NEW gap \in Gaps, Beacon(gap)
  PROVE  /\ past_w1' \in [Slots(W1_WINDOW_SIZE) -> Int]
         /\ past_w2' \in [Slots(W2_WINDOW_SIZE) -> Int]
         /\ deltas' \in [Slots(W2_WINDOW_SIZE) -> Nat]
         /\ RingsKept'
<1>1. PICK k : k = seq_num + 1
  OBVIOUS
<1>2. PICK f : f = [i \in 0..k |-> Normalised(i)']
  OBVIOUS
<1>3. PICK d : d = [i \in 0..k |-> Delta(i)']
  OBVIOUS
<1>4. /\ k = seq_num' /\ k \in 0..MaxBeats /\ seq_num = k - 1
      /\ f[k] = arrival_time_ms' * Scale - k * average_heartbeat_time_ms
      /\ d[k] = (arrival_time_ms' - arrival_time_ms) * Scale
      /\ d[k] \in Nat
      /\ \A i \in 0..k : f[i] \in Int
      /\ Holds(past_w1, W1_WINDOW_SIZE, f, k - 1)
      /\ Holds(past_w2, W2_WINDOW_SIZE, f, k - 1)
      /\ Holds(deltas, W2_WINDOW_SIZE, d, k - 1)
  BY <1>1, <1>2, <1>3, Stored
<1>5. /\ W1_WINDOW_SIZE \in Nat \ {0}
      /\ W2_WINDOW_SIZE \in Nat \ {0}
      /\ past_w1 \in [Slots(W1_WINDOW_SIZE) -> Int]
      /\ past_w2 \in [Slots(W2_WINDOW_SIZE) -> Int]
      /\ deltas \in [Slots(W2_WINDOW_SIZE) -> Nat]
      /\ f[k] \in Int
  <2>1. k \in 0..k
    BY <1>4, Bounds
  <2> QED
    BY <1>4, <2>1, Windows DEF TypeOK
<1>6. /\ past_w1' = [past_w1 EXCEPT ![k % W1_WINDOW_SIZE] = f[k]]
      /\ past_w2' = [past_w2 EXCEPT ![k % W2_WINDOW_SIZE] = f[k]]
      /\ deltas' = [deltas EXCEPT ![k % W2_WINDOW_SIZE] = d[k]]
  BY <1>1, <1>4 DEF Beacon
<1>7. /\ past_w1' \in [Slots(W1_WINDOW_SIZE) -> Int]
      /\ Holds(past_w1', W1_WINDOW_SIZE, f, k)
  <2>1. /\ [past_w1 EXCEPT ![k % W1_WINDOW_SIZE] = f[k]] \in [Slots(W1_WINDOW_SIZE) -> Int]
        /\ Holds([past_w1 EXCEPT ![k % W1_WINDOW_SIZE] = f[k]], W1_WINDOW_SIZE, f, k)
    BY ONLY <1>4, <1>5, RingStep, Zenon
  <2> QED
    BY ONLY <1>6, <2>1, Zenon
<1>8. /\ past_w2' \in [Slots(W2_WINDOW_SIZE) -> Int]
      /\ Holds(past_w2', W2_WINDOW_SIZE, f, k)
  <2>1. /\ [past_w2 EXCEPT ![k % W2_WINDOW_SIZE] = f[k]] \in [Slots(W2_WINDOW_SIZE) -> Int]
        /\ Holds([past_w2 EXCEPT ![k % W2_WINDOW_SIZE] = f[k]], W2_WINDOW_SIZE, f, k)
    BY ONLY <1>4, <1>5, RingStep, Zenon
  <2> QED
    BY ONLY <1>6, <2>1, Zenon
<1>9. /\ deltas' \in [Slots(W2_WINDOW_SIZE) -> Nat]
      /\ Holds(deltas', W2_WINDOW_SIZE, d, k)
  <2>1. /\ [deltas EXCEPT ![k % W2_WINDOW_SIZE] = d[k]] \in [Slots(W2_WINDOW_SIZE) -> Nat]
        /\ Holds([deltas EXCEPT ![k % W2_WINDOW_SIZE] = d[k]], W2_WINDOW_SIZE, d, k)
    BY ONLY <1>4, <1>5, RingStep, Zenon
  <2> QED
    BY ONLY <1>6, <2>1, Zenon
<1>10. \A n : Window(n)' = Last(n, k)
  BY <1>4, Zenon DEF Window, Last
<1>11. \A n : \A i \in Last(n, k) : f[i] = Normalised(i)' /\ d[i] = Delta(i)'
  BY <1>2, <1>3 DEF Last
<1>12. /\ \A i \in Window(W2_WINDOW_SIZE)' : deltas'[i % W2_WINDOW_SIZE] = Delta(i)'
       /\ \A i \in Window(W1_WINDOW_SIZE)' : past_w1'[i % W1_WINDOW_SIZE] = Normalised(i)'
       /\ \A i \in Window(W2_WINDOW_SIZE)' : past_w2'[i % W2_WINDOW_SIZE] = Normalised(i)'
  BY <1>7, <1>8, <1>9, <1>10, <1>11, Zenon DEF Holds
<1> QED
  BY <1>7, <1>8, <1>9, <1>12 DEF RingsKept

(* The rolled sums are sums over the windows.                              *)
LEMMA SumsStep ==
  ASSUME TypeOK, Times, RingsKept, AverageKept, SumsAreWindows,
         NEW gap \in Gaps, Beacon(gap)
  PROVE  SumsAreWindows'
<1>1. PICK k : k = seq_num + 1
  OBVIOUS
<1>2. PICK f : f = [i \in 0..k |-> Normalised(i)']
  OBVIOUS
<1>3. PICK d : d = [i \in 0..k |-> Delta(i)']
  OBVIOUS
<1>4. PICK g : g = [i \in 0..seq_num |-> Normalised(i)]
  OBVIOUS
<1>5. /\ k = seq_num' /\ k \in 0..MaxBeats /\ seq_num = k - 1
      /\ f[k] = arrival_time_ms' * Scale - k * average_heartbeat_time_ms
      /\ \A i \in 0..k : f[i] \in Int
      /\ \A i \in 0..k-1 : f[i] = Normalised(i)
      /\ Holds(past_w1, W1_WINDOW_SIZE, f, k - 1)
      /\ Holds(past_w2, W2_WINDOW_SIZE, f, k - 1)
  BY <1>1, <1>2, <1>3, Stored
<1>6. /\ W1_WINDOW_SIZE \in Nat \ {0}
      /\ W2_WINDOW_SIZE \in Nat \ {0}
      /\ past_w1 \in [Slots(W1_WINDOW_SIZE) -> Int]
      /\ past_w2 \in [Slots(W2_WINDOW_SIZE) -> Int]
  BY Windows DEF TypeOK
<1>7. \A i \in 0..k-1 : g[i] = f[i]
  BY <1>4, <1>5
<1>8. \A n : Window(n) = Last(n, k - 1) /\ Window(n)' = Last(n, k)
  BY <1>5, Zenon DEF Window, Last
<1>9. /\ sum_w1 = SumFunctionOnSet(g, Last(W1_WINDOW_SIZE, k - 1))
      /\ sum_w2 = SumFunctionOnSet(g, Last(W2_WINDOW_SIZE, k - 1))
  BY <1>4, <1>8 DEF SumsAreWindows
<1>10. /\ sum_w1' = Rolled(sum_w1, past_w1, W1_WINDOW_SIZE, k, f[k])
       /\ sum_w2' = Rolled(sum_w2, past_w2, W2_WINDOW_SIZE, k, f[k])
  BY <1>1, <1>5 DEF Beacon
<1>11. sum_w1' = SumFunctionOnSet(f, Last(W1_WINDOW_SIZE, k))
  <2>0. /\ W1_WINDOW_SIZE \in Nat \ {0} /\ k \in 0..MaxBeats
        /\ past_w1 \in [Slots(W1_WINDOW_SIZE) -> Int]
        /\ Holds(past_w1, W1_WINDOW_SIZE, f, k - 1)
        /\ \A i \in 0..k : f[i] \in Int
    BY ONLY <1>5, <1>6, Zenon
  <2>1. Rolled(SumFunctionOnSet(g, Last(W1_WINDOW_SIZE, k - 1)), past_w1, W1_WINDOW_SIZE, k, f[k])
          = SumFunctionOnSet(f, Last(W1_WINDOW_SIZE, k))
    BY ONLY <1>7, <2>0, WindowStep, Zenon
  <2> QED
    BY ONLY <1>9, <1>10, <2>1, Zenon
<1>12. sum_w2' = SumFunctionOnSet(f, Last(W2_WINDOW_SIZE, k))
  <2>0. /\ W2_WINDOW_SIZE \in Nat \ {0} /\ k \in 0..MaxBeats
        /\ past_w2 \in [Slots(W2_WINDOW_SIZE) -> Int]
        /\ Holds(past_w2, W2_WINDOW_SIZE, f, k - 1)
        /\ \A i \in 0..k : f[i] \in Int
    BY ONLY <1>5, <1>6, Zenon
  <2>1. Rolled(SumFunctionOnSet(g, Last(W2_WINDOW_SIZE, k - 1)), past_w2, W2_WINDOW_SIZE, k, f[k])
          = SumFunctionOnSet(f, Last(W2_WINDOW_SIZE, k))
    BY ONLY <1>7, <2>0, WindowStep, Zenon
  <2> QED
    BY ONLY <1>9, <1>10, <2>1, Zenon
<1> QED
  BY <1>2, <1>5, <1>8, <1>11, <1>12 DEF SumsAreWindows

(* Max of a set of two.                                                    *)
LEMMA MaxOfTwo ==
  ASSUME NEW a \in Int, NEW b \in Int
  PROVE  /\ Max({a, b}) \in Int
         /\ Max({a, b}) >= a
         /\ Max({a, b}) >= b
<1>1. \E x \in {a, b} : \A y \in {a, b} : x >= y
  OBVIOUS
<1>2. Max({a, b}) \in {a, b} /\ \A y \in {a, b} : Max({a, b}) >= y
  BY <1>1 DEF Max
<1> QED
  BY <1>2

(* A window has a sample from the second beacon on.                        *)
LEMMA ExpectedType ==
  ASSUME NEW sum \in Int, NEW k \in Nat \ {0}, NEW size \in Nat \ {0},
         NEW average \in Int
  PROVE  Expected(sum, k, size, average) \in Int
<1>1. Samples(k, size) \in Nat \ {0}
  BY DEF Samples, Smaller
<1>2. sum \div Samples(k, size) \in Int
  BY <1>1, DivBounds
<1>3. (k + 1) * average \in Int
  OBVIOUS
<1> QED
  BY <1>2, <1>3 DEF Expected

(* The average is the mean of the gaps.                                    *)
LEMMA AverageStep ==
  ASSUME TypeOK, Times, RingsKept, TotalIsSpan, AverageKept,
         NEW gap \in Gaps, Beacon(gap)
  PROVE  /\ sum_time_deltas' \in Nat
         /\ average_heartbeat_time_ms' \in Nat
         /\ AverageKept'
<1>1. PICK k : k = seq_num + 1
  OBVIOUS
<1>2. k = seq_num' /\ k \in Nat
  BY <1>1, History, Bounds
<1>3. sum_time_deltas' = Span(k)'
  BY <1>1, TotalStep
<1>4. average_heartbeat_time_ms' = Average(k, sum_time_deltas')
  BY <1>1 DEF Beacon
<1>5. average_heartbeat_time_ms' = MeanGap(k)'
  BY <1>3, <1>4 DEF Average, MeanGap, Span
<1>6. sum_time_deltas' \in Nat
  <2>1. /\ k - Smaller(k, W2_WINDOW_SIZE) \in 0..k
        /\ k - Smaller(k, W2_WINDOW_SIZE) <= k
        /\ k \in 0..k
    <3>1. k \in Nat /\ W2_WINDOW_SIZE \in Nat \ {0}
      BY <1>2, Windows
    <3> QED
      BY ONLY <3>1 DEF Smaller
  <2>2. \A i \in 0..k : Arrival(i)' \in Nat
    <3>1. arrivals' \in Seq(Nat) /\ Len(arrivals') = k + 1
      BY <1>2, History
    <3>2. \A i \in 0..k : i + 1 \in 1..k+1
      <4>1. k \in Nat
        BY <1>2
      <4> QED
        BY ONLY <4>1
    <3> QED
      BY ONLY <3>1, <3>2 DEF Arrival
  <2>3. \A i, j \in 0..k : i <= j => Arrival(i)' <= Arrival(j)'
    <3>1. Times'
      BY TimesStep
    <3> QED
      BY <1>2, <3>1 DEF Times
  <2>4. Arrival(k)' - Arrival(k - Smaller(k, W2_WINDOW_SIZE))' \in Nat
    BY <2>1, <2>2, <2>3
  <2>5. Span(k)' \in Nat
    BY <2>4, ScaleType DEF Span
  <2> QED
    BY <1>3, <2>5
<1>7. average_heartbeat_time_ms' \in Nat
  <2>1. CASE k = 0
    <3>1. HEARTBEAT_INTERVAL \in Nat /\ Scale \in Nat
      BY IntervalPositive, ScaleType
    <3> QED
      BY <1>4, <2>1, <3>1 DEF Average
  <2>2. CASE k # 0
    <3>1. Smaller(k, W2_WINDOW_SIZE) \in Nat \ {0}
      BY <1>2, <2>2, Windows DEF Smaller
    <3>2. average_heartbeat_time_ms' = sum_time_deltas' \div Smaller(k, W2_WINDOW_SIZE)
      BY <1>4, <2>2 DEF Average
    <3> QED
      BY <1>6, <3>1, <3>2, DivBounds
  <2> QED
    BY <2>1, <2>2
<1>8. k # -1
  BY <1>2
<1> QED
  BY <1>2, <1>5, <1>6, <1>7, <1>8 DEF AverageKept, AverageIsMean

(* Rolled sums are integers ...                                            *)
LEMMA RolledType ==
  ASSUME NEW n \in Nat \ {0}, NEW k \in 0..MaxBeats,
         NEW ring \in [Slots(n) -> Int], NEW sum \in Int, NEW x \in Int
  PROVE  Rolled(sum, ring, n, k, x) \in Int
<1>1. k \in Nat /\ k <= MaxBeats
  BY Bounds
<1>2. ring[k % n] \in Int
  BY <1>1, InSlots
<1> QED
  BY <1>2 DEF Rolled

(* ... and so are the sums a beacon leaves.                                *)
LEMMA SumsType ==
  ASSUME TypeOK, Times, RingsKept, AverageKept, NEW gap \in Gaps, Beacon(gap)
  PROVE  sum_w1' \in Int /\ sum_w2' \in Int
<1>1. PICK k : k = seq_num + 1
  OBVIOUS
<1>2. PICK f : f = [i \in 0..k |-> Normalised(i)']
  OBVIOUS
<1>3. PICK d : d = [i \in 0..k |-> Delta(i)']
  OBVIOUS
<1>4. /\ k = seq_num' /\ k \in 0..MaxBeats
      /\ f[k] = arrival_time_ms' * Scale - k * average_heartbeat_time_ms
      /\ \A i \in 0..k : f[i] \in Int
  BY <1>1, <1>2, <1>3, Stored
<1>5. f[k] \in Int
  <2>1. k \in 0..k
    BY <1>4, Bounds
  <2> QED
    BY <1>4, <2>1
<1>6. /\ sum_w1' = Rolled(sum_w1, past_w1, W1_WINDOW_SIZE, k, f[k])
      /\ sum_w2' = Rolled(sum_w2, past_w2, W2_WINDOW_SIZE, k, f[k])
  BY <1>1, <1>4 DEF Beacon
<1>7. /\ W1_WINDOW_SIZE \in Nat \ {0}
      /\ W2_WINDOW_SIZE \in Nat \ {0}
      /\ past_w1 \in [Slots(W1_WINDOW_SIZE) -> Int]
      /\ past_w2 \in [Slots(W2_WINDOW_SIZE) -> Int]
      /\ sum_w1 \in Int /\ sum_w2 \in Int
  BY Windows DEF TypeOK
<1>8. /\ Rolled(sum_w1, past_w1, W1_WINDOW_SIZE, k, f[k]) \in Int
      /\ Rolled(sum_w2, past_w2, W2_WINDOW_SIZE, k, f[k]) \in Int
  BY <1>4, <1>5, <1>7, RolledType
<1> QED
  BY <1>6, <1>8

(* A beacon preserves the invariant.                                       *)
LEMMA BeaconInv ==
  ASSUME IInv, NEW gap \in Gaps, Beacon(gap)
  PROVE  IInv'
<1>0. /\ TypeOK /\ Times /\ RingsKept /\ TotalIsSpan
      /\ AverageKept /\ SumsAreWindows
  BY DEF IInv
<1>1. Times'
  BY <1>0, TimesStep
<1>2. /\ past_w1' \in [Slots(W1_WINDOW_SIZE) -> Int]
      /\ past_w2' \in [Slots(W2_WINDOW_SIZE) -> Int]
      /\ deltas' \in [Slots(W2_WINDOW_SIZE) -> Nat]
      /\ RingsKept'
  BY <1>0, RingsStep
<1>3. TotalIsSpan'
  <2>1. PICK k : k = seq_num + 1
    OBVIOUS
  <2> QED
    BY <1>0, <2>1, TotalStep
<1>4. /\ sum_time_deltas' \in Nat
      /\ average_heartbeat_time_ms' \in Nat
      /\ AverageKept'
  BY <1>0, AverageStep
<1>5. SumsAreWindows'
  BY <1>0, SumsStep
<1>6. sum_w1' \in Int /\ sum_w2' \in Int
  BY <1>0, SumsType
<1>7. /\ seq_num' = seq_num + 1
      /\ seq_num' \in 0..MaxBeats
      /\ seq_num' \in Nat
      /\ arrival_time_ms' \in Nat
      /\ arrivals' \in Seq(Nat)
  BY <1>0, History, Bounds
<1>8. TimeoutEstimated'
  <2>1. next_timeout' =
          (IF seq_num + 1 = 0 THEN HEARTBEAT_INTERVAL * Scale
           ELSE Max({Expected(sum_w1', seq_num + 1, W1_WINDOW_SIZE,
                              average_heartbeat_time_ms'),
                     Expected(sum_w2', seq_num + 1, W2_WINDOW_SIZE,
                              average_heartbeat_time_ms')}))
            + HEARTBEAT_INTERVAL * Scale - arrival_time_ms' * Scale
    BY Zenon DEF Beacon
  <2>2. seq_num' > 0 => seq_num + 1 # 0
    BY <1>7
  <2>3. seq_num' > 0 =>
          next_timeout' =
            Max({Expected(sum_w1', seq_num', W1_WINDOW_SIZE, average_heartbeat_time_ms'),
                 Expected(sum_w2', seq_num', W2_WINDOW_SIZE, average_heartbeat_time_ms')})
              + HEARTBEAT_INTERVAL * Scale - arrival_time_ms' * Scale
    BY <1>7, <2>1, <2>2, Zenon
  <2>4. seq_num' = 0 => next_timeout' = 2 * (HEARTBEAT_INTERVAL * Scale)
    <3>1. seq_num' = 0 => arrival_time_ms' = 0
      BY <1>7 DEF Beacon
    <3>2. HEARTBEAT_INTERVAL * Scale \in Int /\ Scale \in Int
      BY IntervalPositive, ScaleType
    <3> QED
      BY <1>7, <2>1, <3>1, <3>2
  <2> QED
    BY <2>3, <2>4, Zenon DEF TimeoutEstimated
<1>9. next_timeout' \in Int
  <2>1. /\ HEARTBEAT_INTERVAL * Scale \in Int
        /\ arrival_time_ms' * Scale \in Int
    BY <1>7, IntervalPositive, ScaleType
  <2>2. CASE seq_num' = 0
    <3>1. next_timeout' = HEARTBEAT_INTERVAL * Scale + HEARTBEAT_INTERVAL * Scale
                            - arrival_time_ms' * Scale
      BY <1>7, <2>2 DEF Beacon
    <3> QED
      BY <2>1, <3>1
  <2>3. CASE seq_num' # 0
    <3> DEFINE e1 == Expected(sum_w1', seq_num', W1_WINDOW_SIZE, average_heartbeat_time_ms')
               e2 == Expected(sum_w2', seq_num', W2_WINDOW_SIZE, average_heartbeat_time_ms')
    <3>1. e1 \in Int /\ e2 \in Int
      <4>1. /\ seq_num' \in Nat \ {0}
            /\ average_heartbeat_time_ms' \in Int
            /\ sum_w1' \in Int /\ sum_w2' \in Int
            /\ W1_WINDOW_SIZE \in Nat \ {0}
            /\ W2_WINDOW_SIZE \in Nat \ {0}
        BY <1>4, <1>6, <1>7, <2>3, Windows
      <4> QED
        BY ONLY <4>1, ExpectedType
    <3>2. next_timeout' = Max({e1, e2}) + HEARTBEAT_INTERVAL * Scale
                            - arrival_time_ms' * Scale
      BY <1>7, <1>8, <2>3 DEF TimeoutEstimated
    <3> HIDE DEF e1, e2
    <3>3. Max({e1, e2}) \in Int
      BY <3>1, MaxOfTwo
    <3> QED
      BY <2>1, <3>2, <3>3
  <2> QED
    BY <2>2, <2>3
<1>10. poisoned' \in BOOLEAN
  BY <1>0 DEF TypeOK, Beacon
<1>11. TypeOK'
  <2>1. seq_num' \in -1..MaxBeats
    BY <1>7, Bounds
  <2> QED
    BY <1>2, <1>4, <1>6, <1>7, <1>9, <1>10, <2>1 DEF TypeOK
<1> QED
  BY <1>1, <1>2, <1>3, <1>4, <1>5, <1>8, <1>11 DEF IInv

(* The timer that runs out leaves the state before the first beacon.       *)
LEMMA RemoveInv == Remove => IInv'
<1>1. Remove => Init'
  BY DEF Remove, Init
<1>2. Init' => IInv'
  BY InitInv, PTL
<1> QED
  BY <1>1, <1>2

(* So does every step.                                                     *)
LEMMA StepInv == IInv /\ [Next]_vars => IInv'
<1> SUFFICES ASSUME IInv, [Next]_vars
             PROVE  IInv'
  OBVIOUS
<1>1. ASSUME NEW gap \in Gaps, Beacon(gap)
      PROVE  IInv'
  BY <1>1, BeaconInv
<1>2. CASE UNCHANGED vars
  <2> USE <1>2 DEF vars
  <2>1. TypeOK' /\ Times'
    BY DEF IInv, TypeOK, Times, Arrival
  <2>2. RingsKept'
    BY DEF IInv, RingsKept, Window, Delta, Normalised, MeanGap, Arrival
  <2>3. TotalIsSpan' /\ AverageKept' /\ TimeoutEstimated'
    BY DEF IInv, TotalIsSpan, Span, AverageKept, AverageIsMean, MeanGap, Arrival,
       TimeoutEstimated
  <2>4. SumsAreWindows'
    BY DEF IInv, SumsAreWindows, Window, Normalised, MeanGap, Arrival
  <2> QED
    BY <2>1, <2>2, <2>3, <2>4 DEF IInv
<1>3. CASE Remove
  BY <1>3, RemoveInv
<1> QED
  BY <1>1, <1>2, <1>3 DEF Next

(* The inductive invariant holds in every reachable state.                 *)
THEOREM Inductive == Spec => []IInv
<1> QED
  BY InitInv, StepInv, PTL DEF Spec

------------------------------------------------------------------------------
(* The properties.                                                         *)

(* Whatever the arrivals, every quantity estimate_next_delay keeps has its *)
(* type: the gaps and their average never become negative.                 *)
THEOREM TypeCorrect == Spec => []TypeOK
<1>1. IInv => TypeOK
  BY DEF IInv
<1> QED
  BY <1>1, Inductive, PTL

(* The rolling average is the mean gap of the last W2 beacons.             *)
THEOREM AverageCorrect == Spec => []AverageIsMean
<1>1. IInv => AverageIsMean
  BY DEF IInv, AverageKept
<1> QED
  BY <1>1, Inductive, PTL

(* The two rolling sums are the sums over their windows.                   *)
THEOREM SumsCorrect == Spec => []SumsAreWindows
<1>1. IInv => SumsAreWindows
  BY DEF IInv
<1> QED
  BY <1>1, Inductive, PTL

(* A peer that beacons every gap milliseconds: the average is the gap from *)
(* the second beacon on, and the normalised arrivals are zero, but for the *)
(* first after the start, predicted by HEARTBEAT_INTERVAL.                 *)
LEMMA SteadyValues ==
  ASSUME TypeOK, Times, NEW gap \in Nat, seq_num > 0,
         \A i \in 0..seq_num : Arrival(i) = i * gap
  PROVE  /\ \A i \in 1..seq_num : MeanGap(i) = gap * Scale
         /\ \A i \in 0..seq_num :
              Normalised(i) = IF i = 1 THEN (gap - HEARTBEAT_INTERVAL) * Scale ELSE 0
<1>1. /\ seq_num \in Nat /\ W2_WINDOW_SIZE \in Nat \ {0}
      /\ HEARTBEAT_INTERVAL \in Nat /\ Scale \in Nat
  BY Bounds, Windows, IntervalPositive, ScaleType DEF TypeOK
<1>2. ASSUME NEW i \in 1..seq_num
      PROVE  MeanGap(i) = gap * Scale
  <2>1. PICK n : n = Smaller(i, W2_WINDOW_SIZE)
    OBVIOUS
  <2>2. n \in Nat \ {0} /\ i - n \in 0..seq_num /\ i \in 0..seq_num /\ i \in Int /\ i # 0
    BY <1>1, <2>1 DEF Smaller
  <2>3. MeanGap(i) = ((Arrival(i) - Arrival(i - n)) * Scale) \div n
    BY <2>1, <2>2 DEF MeanGap
  <2>4. Arrival(i) = i * gap /\ Arrival(i - n) = (i - n) * gap
    BY <2>2
  <2>5. (i * gap - (i - n) * gap) * Scale = n * (gap * Scale)
    BY ONLY <1>1, <2>2, gap \in Nat
  <2>6. gap * Scale \in Int
    BY <1>1
  <2>7. (n * (gap * Scale)) \div n = gap * Scale
    BY <2>2, <2>6, DivMultiple
  <2> QED
    BY <2>3, <2>4, <2>5, <2>7
<1>3. ASSUME NEW i \in 0..seq_num
      PROVE  Normalised(i) = IF i = 1 THEN (gap - HEARTBEAT_INTERVAL) * Scale ELSE 0
  <2>1. CASE i = 0
    <3>1. Arrival(0) = 0
      BY <1>1 DEF Times
    <3> QED
      BY <1>1, <2>1, <3>1 DEF Normalised
  <2>2. CASE i = 1
    <3>1. Arrival(i) = gap
      BY <2>2
    <3>2. i * MeanGap(i - 1) = HEARTBEAT_INTERVAL * Scale
      BY <1>1, <2>2 DEF MeanGap
    <3>3. gap * Scale - HEARTBEAT_INTERVAL * Scale = (gap - HEARTBEAT_INTERVAL) * Scale
      BY <1>1
    <3> QED
      BY <2>2, <3>1, <3>2, <3>3 DEF Normalised
  <2>3. CASE i # 0 /\ i # 1
    <3>1. i - 1 \in 1..seq_num /\ i \in Int
      BY <1>1, <2>3
    <3>2. MeanGap(i - 1) = gap * Scale
      BY <1>2, <3>1
    <3>3. Arrival(i) = i * gap
      OBVIOUS
    <3>4. (i * gap) * Scale - i * (gap * Scale) = 0
      BY ONLY <1>1, <3>1, gap \in Nat
    <3> QED
      BY <2>3, <3>2, <3>3, <3>4 DEF Normalised
  <2> QED
    BY <2>1, <2>2, <2>3
<1> QED
  BY <1>2, <1>3

(* So a window sums to zero or to that one value.                          *)
LEMMA SteadySum ==
  ASSUME NEW k \in Nat, NEW f, NEW c \in Int, NEW S \in SUBSET (0..k),
         \A i \in 0..k : f[i] = IF i = 1 THEN c ELSE 0
  PROVE  SumFunctionOnSet(f, S) \in {0, c}
<1>1. IsFiniteSet(S)
  <2>1. IsFiniteSet(0..k)
    BY FS_Interval
  <2> QED
    BY <2>1, FS_Subset
<1>2. CASE 1 \notin S
  <2>1. \A i \in S : f[i] = 0
    BY <1>2
  <2> QED
    BY <1>1, <2>1, SumZero
<1>3. CASE 1 \in S
  <2>1. \A i \in S : f[i] \in Int
    OBVIOUS
  <2>2. SumFunctionOnSet(f, S) = f[1] + SumFunctionOnSet(f, S \ {1})
    BY <1>1, <1>3, <2>1, SumRemove
  <2>3. IsFiniteSet(S \ {1}) /\ \A i \in S \ {1} : f[i] = 0
    BY <1>1, FS_RemoveElement
  <2>4. SumFunctionOnSet(f, S \ {1}) = 0
    BY <2>3, SumZero
  <2>5. f[1] = c
    BY <1>3
  <2> QED
    BY <2>2, <2>4, <2>5
<1> QED
  BY <1>2, <1>3

(* With such a sum the next beacon is expected a gap after the last, or    *)
(* earlier by no more than the gap is shorter than an interval.            *)
LEMMA SteadyExpected ==
  ASSUME NEW k \in Nat \ {0}, NEW size \in Nat \ {0}, NEW gap \in Nat \ {0},
         NEW sum \in {0, (gap - HEARTBEAT_INTERVAL) * Scale}
  PROVE  /\ Expected(sum, k, size, gap * Scale) \in Int
         /\ gap >= HEARTBEAT_INTERVAL =>
              Expected(sum, k, size, gap * Scale) >= (k + 1) * (gap * Scale)
         /\ gap < HEARTBEAT_INTERVAL =>
              Expected(sum, k, size, gap * Scale)
                >= (k + 1) * (gap * Scale) + gap * Scale - HEARTBEAT_INTERVAL * Scale
<1> DEFINE h == HEARTBEAT_INTERVAL * Scale
           s == gap * Scale
<1>1. /\ h \in Nat \ {0} /\ s \in Nat \ {0}
      /\ (gap - HEARTBEAT_INTERVAL) * Scale = s - h
  BY IntervalPositive, ScaleType
<1>2. /\ gap >= HEARTBEAT_INTERVAL => s - h >= 0
      /\ gap < HEARTBEAT_INTERVAL => s - h < 0
  <2>1. gap - HEARTBEAT_INTERVAL \in Int /\ Scale \in Nat \ {0}
    BY IntervalPositive, ScaleType
  <2>2. \A d \in Int : (d >= 0 => d * Scale >= 0) /\ (d < 0 => d * Scale < 0)
    BY <2>1
  <2>3. /\ gap >= HEARTBEAT_INTERVAL <=> gap - HEARTBEAT_INTERVAL >= 0
        /\ gap < HEARTBEAT_INTERVAL <=> gap - HEARTBEAT_INTERVAL < 0
    BY IntervalPositive
  <2> QED
    BY ONLY <1>1, <2>1, <2>2, <2>3
<1>3. sum \in Int /\ (sum = 0 \/ sum = s - h)
  BY <1>1
<1>4. Samples(k, size) \in Nat \ {0}
  BY DEF Samples, Smaller
<1>5. PICK q : q = sum \div Samples(k, size)
  OBVIOUS
<1>6. q \in Int /\ (sum < 0 => q >= sum) /\ (sum >= 0 => q >= 0)
  BY <1>3, <1>4, <1>5, DivBounds
<1>7. Expected(sum, k, size, gap * Scale) = q + (k + 1) * s
  BY <1>5 DEF Expected
<1>8. (k + 1) * s \in Int
  BY <1>1
<1> HIDE DEF h, s
<1>9. /\ gap >= HEARTBEAT_INTERVAL => q + (k + 1) * s >= (k + 1) * s
      /\ gap < HEARTBEAT_INTERVAL => q + (k + 1) * s >= (k + 1) * s + s - h
  BY <1>1, <1>2, <1>3, <1>6, <1>8
<1> QED
  BY <1>6, <1>7, <1>8, <1>9 DEF h, s

(* A peer whose beacons come at a constant rate within the fixed first     *)
(* timeout is never suspected: the first timeout, 2 * HEARTBEAT_INTERVAL,  *)
(* and every one estimate_next_delay computes after it, from numbers, has  *)
(* more whole milliseconds than pass until the next beacon.                *)
THEOREM SteadySafe == Spec => []SteadyNotSuspected
<1>1. IInv => SteadyNotSuspected
  <2> SUFFICES ASSUME IInv, NEW gap \in Gaps \ {0}, gap < 2 * HEARTBEAT_INTERVAL,
                      seq_num >= 0, \A i \in 0..seq_num : Arrival(i) = i * gap
               PROVE  next_timeout \div Scale > gap
    BY DEF SteadyNotSuspected
  <2>1. /\ TypeOK /\ Times /\ AverageIsMean /\ SumsAreWindows /\ TimeoutEstimated
        /\ gap \in Nat \ {0}
    BY ClockMonotonic DEF IInv, AverageKept
  <2>2. /\ seq_num \in Nat /\ next_timeout \in Int
        /\ W1_WINDOW_SIZE \in Nat \ {0} /\ W2_WINDOW_SIZE \in Nat \ {0}
        /\ HEARTBEAT_INTERVAL \in Nat \ {0} /\ Scale \in Nat \ {0}
    BY <2>1, Bounds, Windows, IntervalPositive, ScaleType DEF TypeOK
  <2> DEFINE D == (gap - HEARTBEAT_INTERVAL) * Scale
             h == HEARTBEAT_INTERVAL * Scale
             s == gap * Scale
  <2>3. Scale * (gap + 1) = s + Scale /\ h >= Scale /\ s >= Scale
        /\ h \in Int /\ s \in Int
    <3>1. \A a \in Nat \ {0} : a * Scale >= Scale
      BY <2>2
    <3> QED
      BY <2>1, <2>2, <3>1
  <2>4. next_timeout >= Scale * (gap + 1)
    <3>1. CASE seq_num = 0
      <4>1. next_timeout = 2 * h
        BY <2>1, <3>1 DEF TimeoutEstimated
      <4>2. 2 * h = Scale * (2 * HEARTBEAT_INTERVAL)
        BY <2>2
      <4>3. \A a, b \in Nat : a <= b => Scale * a <= Scale * b
        <5> SUFFICES ASSUME NEW a \in Nat, NEW b \in Nat, a <= b
                     PROVE  Scale * a <= Scale * b
          OBVIOUS
        <5>1. b - a \in Nat /\ Scale * (b - a) >= 0
          BY <2>2
        <5>2. Scale * (b - a) = Scale * b - Scale * a
          BY <2>2
        <5> QED
          BY <2>2, <5>1, <5>2
      <4>4. gap + 1 \in Nat /\ 2 * HEARTBEAT_INTERVAL \in Nat
            /\ gap + 1 <= 2 * HEARTBEAT_INTERVAL
        BY <2>1, <2>2
      <4> QED
        BY ONLY <2>2, <4>1, <4>2, <4>3, <4>4
    <3>2. CASE seq_num > 0
      <4>1. /\ \A i \in 1..seq_num : MeanGap(i) = gap * Scale
            /\ \A i \in 0..seq_num : Normalised(i) = IF i = 1 THEN D ELSE 0
        BY <2>1, <3>2, SteadyValues
      <4>2. average_heartbeat_time_ms = gap * Scale
        BY <2>1, <2>2, <3>2, <4>1 DEF AverageIsMean
      <4>3. arrival_time_ms = seq_num * gap
        BY <2>1, <2>2 DEF Times
      <4>4. sum_w1 \in {0, D} /\ sum_w2 \in {0, D}
        <5>1. PICK g : g = [i \in 0..seq_num |-> Normalised(i)]
          OBVIOUS
        <5>2. \A i \in 0..seq_num : g[i] = IF i = 1 THEN D ELSE 0
          BY <4>1, <5>1
        <5>3. D \in Int
          BY <2>1, <2>2
        <5>4. \A n : Window(n) \in SUBSET (0..seq_num)
          BY DEF Window
        <5>5. /\ sum_w1 = SumFunctionOnSet(g, Window(W1_WINDOW_SIZE))
              /\ sum_w2 = SumFunctionOnSet(g, Window(W2_WINDOW_SIZE))
          BY <2>1, <5>1 DEF SumsAreWindows
        <5> HIDE DEF D
        <5>6. /\ SumFunctionOnSet(g, Window(W1_WINDOW_SIZE)) \in {0, D}
              /\ SumFunctionOnSet(g, Window(W2_WINDOW_SIZE)) \in {0, D}
          BY <2>2, <5>2, <5>3, <5>4, SteadySum
        <5> QED
          BY <5>5, <5>6
      <4> DEFINE e1 == Expected(sum_w1, seq_num, W1_WINDOW_SIZE, gap * Scale)
                 e2 == Expected(sum_w2, seq_num, W2_WINDOW_SIZE, gap * Scale)
      <4>5. seq_num \in Nat \ {0}
        BY <2>2, <3>2
      <4>6. /\ e1 \in Int /\ e2 \in Int
            /\ gap >= HEARTBEAT_INTERVAL => e1 >= (seq_num + 1) * s
            /\ gap < HEARTBEAT_INTERVAL => e1 >= (seq_num + 1) * s + s - h
        BY <2>1, <2>2, <4>4, <4>5, SteadyExpected
      <4>7. next_timeout = Max({e1, e2}) + h - (seq_num * gap) * Scale
        BY <2>1, <2>2, <3>2, <4>2, <4>3 DEF TimeoutEstimated
      <4>8. /\ (seq_num + 1) * s = seq_num * s + s
            /\ (seq_num * gap) * Scale = seq_num * s
            /\ seq_num * s \in Int
        BY <2>1, <2>2
      <4> HIDE DEF e1, e2, h, s, D
      <4>9. Max({e1, e2}) \in Int /\ Max({e1, e2}) >= e1
        BY <4>6, MaxOfTwo
      <4>10. gap >= HEARTBEAT_INTERVAL \/ gap < HEARTBEAT_INTERVAL
        BY <2>1, <2>2
      <4> QED
        BY ONLY <2>2, <2>3, <4>6, <4>7, <4>8, <4>9, <4>10
    <3> QED
      BY <2>2, <3>1, <3>2
  <2> HIDE DEF h, s, D
  <2> QED
    BY <2>1, <2>2, <2>4, DivMore
<1> QED
  BY <1>1, Inductive, PTL

=============================================================================
