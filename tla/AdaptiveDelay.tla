---------------------------- MODULE AdaptiveDelay ----------------------------
(***************************************************************************)
(* The adaptive timeout of one peer: estimate_next_delay, called with the  *)
(* arrival time of every beacon, keeps two sliding windows and predicts    *)
(* when the next beacon should be here at the latest.                      *)
(*                                                                         *)
(* The code computes with doubles.  Here times are milliseconds counted    *)
(* from the first beacon and every derived quantity is an integer number   *)
(* of 1/Scale milliseconds, Scale chosen so that the divisions are exact;  *)
(* rounding is abstracted away.  A NaN read from uninitialised memory is   *)
(* kept as a flag: no sum it has entered ever becomes a number again.      *)
(***************************************************************************)
EXTENDS Integers, Sequences, Functions, FiniteSetsExt

CONSTANTS
  W1_WINDOW_SIZE, W2_WINDOW_SIZE,
  HEARTBEAT_INTERVAL,
  Gaps,      \* the times that can pass between two beacons
  Garbage,   \* what uninitialised memory can hold: "number", "NaN"
  MaxBeats,  \* bound: the last sequence number
  Unit       \* a common multiple of the numbers of samples

Smaller(a, b) == IF a < b THEN a ELSE b

ASSUME Windows ==
  /\ W1_WINDOW_SIZE \in Nat \ {0}
  /\ W2_WINDOW_SIZE \in Nat \ {0}
  /\ W1_WINDOW_SIZE <= W2_WINDOW_SIZE
ASSUME UnitDivides ==
  \A n \in 1..Smaller(W2_WINDOW_SIZE, MaxBeats) : Unit % n = 0
(* It is 50; the clock of zclock_usecs is monotonic.                      *)
ASSUME IntervalPositive == HEARTBEAT_INTERVAL \in Nat \ {0}
ASSUME ClockMonotonic == Gaps \subseteq Nat
ASSUME Bounds == MaxBeats \in Nat /\ Unit \in Nat \ {0}
ASSUME GarbageKinds == Garbage \subseteq {"number", "NaN"}

Scale == Unit * Unit

VARIABLES
  seq_num,                   \* -1 before the first beacon
  arrival_time_ms,
  sum_w1, sum_w2,            \* sums of the normalised arrivals in a window
  past_w1, past_w2,          \* the windows
  sum_time_deltas, deltas,   \* sum and window of the gaps
  average_heartbeat_time_ms,
  next_timeout,
  poisoned,                  \* has a NaN entered sum_w1 and sum_w2?
  arrivals                   \* history: the arrival times so far

vars == <<seq_num, arrival_time_ms, sum_w1, sum_w2, past_w1, past_w2,
          sum_time_deltas, deltas, average_heartbeat_time_ms, next_timeout,
          poisoned, arrivals>>

(* The indices of a window that MaxBeats beacons can reach.                *)
Slots(size) == 0..Smaller(size, MaxBeats + 1) - 1

(* init_adaptive_timeout_struct.  The average is uninitialised: here       *)
(* poisoned says whether it is a NaN, and as it is multiplied by a         *)
(* sequence number of 0 no other value of it can matter.  The windows are  *)
(* uninitialised as well, and written before they are read.                *)
Init ==
  /\ seq_num = -1
  /\ arrival_time_ms = 0
  /\ sum_w1 = 0
  /\ sum_w2 = 0
  /\ past_w1 = [i \in Slots(W1_WINDOW_SIZE) |-> 0]
  /\ past_w2 = [i \in Slots(W2_WINDOW_SIZE) |-> 0]
  /\ sum_time_deltas = 0
  /\ deltas = [i \in Slots(W2_WINDOW_SIZE) |-> 0]
  /\ average_heartbeat_time_ms = 0
  /\ next_timeout = 0
  /\ poisoned \in {g = "NaN" : g \in Garbage}
  /\ arrivals = <<>>

NeverDropped(sum, window, size, k, x) == sum + x

Swapped(sum, window, size, k, x) ==
  IF k < size THEN sum + x ELSE sum + window[k % size] - x

(* The sum of a window after x has taken the place of its oldest entry.    *)
Rolled(sum, window, size, k, x) ==
  IF k < size THEN sum + x ELSE sum - window[k % size] + x

OverAllBeats(k, sum) == IF k = 0 THEN HEARTBEAT_INTERVAL * Scale ELSE sum \div k

(* average_heartbeat_time_ms after beacon k.                               *)
Average(k, sum) ==
  IF k = 0 THEN HEARTBEAT_INTERVAL * Scale
           ELSE sum \div Smaller(k, W2_WINDOW_SIZE)

(* number_of_samples_currently_in_w1 and _w2.                              *)
Samples(k, size) == Smaller(k, size)

ExpectedNow(sum, k, size, average) == sum \div Samples(k, size) + k * average

(* estimated_arrival_w1 and _w2: when beacon k + 1 is expected.            *)
Expected(sum, k, size, average) ==
  sum \div Samples(k, size) + (k + 1) * average

(* estimate_next_delay, gap milliseconds after the beacon before; for a    *)
(* new peer the first beacon itself starts the clock.  The gap may be      *)
(* longer than the timeout: a beacon can be handled before the expiry of   *)
(* the timer is, when both wait for a process that was stopped.            *)
Beacon(gap) ==
  LET k == seq_num + 1
      t == IF k = 0 THEN 0 ELSE arrival_time_ms + gap
      time_from_last_heartbeat == (t - arrival_time_ms) * Scale
      normalized == t * Scale - k * average_heartbeat_time_ms
      estimated ==
        IF k = 0
        THEN HEARTBEAT_INTERVAL * Scale
        ELSE Max({Expected(sum_w1', k, W1_WINDOW_SIZE, average_heartbeat_time_ms'),
                  Expected(sum_w2', k, W2_WINDOW_SIZE, average_heartbeat_time_ms')})
  IN
  /\ seq_num < MaxBeats
  /\ seq_num' = k
  /\ arrival_time_ms' = t
  /\ sum_w1' = Rolled(sum_w1, past_w1, W1_WINDOW_SIZE, k, normalized)
  /\ past_w1' = [past_w1 EXCEPT ![k % W1_WINDOW_SIZE] = normalized]
  /\ sum_w2' = Rolled(sum_w2, past_w2, W2_WINDOW_SIZE, k, normalized)
  /\ past_w2' = [past_w2 EXCEPT ![k % W2_WINDOW_SIZE] = normalized]
  /\ sum_time_deltas' =
       Rolled(sum_time_deltas, deltas, W2_WINDOW_SIZE, k, time_from_last_heartbeat)
  /\ deltas' = [deltas EXCEPT ![k % W2_WINDOW_SIZE] = time_from_last_heartbeat]
  /\ average_heartbeat_time_ms' = Average(k, sum_time_deltas')
  /\ next_timeout' = estimated + HEARTBEAT_INTERVAL * Scale - t * Scale
  /\ arrivals' = Append(arrivals, t)
  /\ UNCHANGED poisoned

(* From the second beacon on a NaN reaches the timeout.                    *)
TimeoutIsNaN == poisoned /\ seq_num > 0

(* What start_timer makes of (unsigned int) next_timeout: less than a      *)
(* millisecond, or NaN, gives zero and disarms the timerfd; a negative     *)
(* timeout wraps around to some 49 days.                                   *)
Interval ==
  IF TimeoutIsNaN THEN "zero"
  ELSE IF next_timeout >= Scale THEN "positive"
  ELSE IF next_timeout > -Scale THEN "zero" ELSE "wrapped"

(* The timer runs out: handle_timeout frees the metadata, and the next     *)
(* beacon of this address is the first one again.                          *)
Remove ==
  /\ seq_num >= 0
  /\ Interval = "positive"
  /\ seq_num' = -1
  /\ arrival_time_ms' = 0
  /\ sum_w1' = 0
  /\ sum_w2' = 0
  /\ past_w1' = [i \in Slots(W1_WINDOW_SIZE) |-> 0]
  /\ past_w2' = [i \in Slots(W2_WINDOW_SIZE) |-> 0]
  /\ sum_time_deltas' = 0
  /\ deltas' = [i \in Slots(W2_WINDOW_SIZE) |-> 0]
  /\ average_heartbeat_time_ms' = 0
  /\ next_timeout' = 0
  /\ poisoned' \in {g = "NaN" : g \in Garbage}
  /\ arrivals' = <<>>

Next == Remove \/ \E gap \in Gaps : Beacon(gap)

Spec == Init /\ [][Next]_vars

------------------------------------------------------------------------------
(* Properties.                                                             *)

(* Every variable holds a value of its type.                               *)
TypeOK ==
  /\ seq_num \in -1..MaxBeats
  /\ arrival_time_ms \in Nat
  /\ {sum_w1, sum_w2, next_timeout} \subseteq Int
  /\ {sum_time_deltas, average_heartbeat_time_ms} \subseteq Nat
  /\ past_w1 \in [Slots(W1_WINDOW_SIZE) -> Int]
  /\ past_w2 \in [Slots(W2_WINDOW_SIZE) -> Int]
  /\ deltas \in [Slots(W2_WINDOW_SIZE) -> Nat]
  /\ poisoned \in BOOLEAN
  /\ arrivals \in Seq(Nat)

Arrival(i) == arrivals[i + 1]

(* Chen's average: the mean gap of the last W2 beacons up to beacon i.     *)
MeanGap(i) ==
  IF i = 0 THEN HEARTBEAT_INTERVAL * Scale
  ELSE LET n == Smaller(i, W2_WINDOW_SIZE)
       IN  ((Arrival(i) - Arrival(i - n)) * Scale) \div n

(* An arrival, less what the average of that moment had predicted.         *)
Normalised(i) ==
  Arrival(i) * Scale - (IF i = 0 THEN 0 ELSE i * MeanGap(i - 1))

(* The rolling average is the mean gap of the last W2 beacons, before the  *)
(* window is full, as it fills and after it wraps.                         *)
AverageIsMean ==
  seq_num >= 0 => average_heartbeat_time_ms = MeanGap(seq_num)

(* The last size beacons.                                                  *)
Window(size) == {i \in 0..seq_num : i > seq_num - size}

(* The rolling sums are the sums over the last W1 and W2 beacons.          *)
SumsAreWindows ==
  LET normalised == [i \in 0..seq_num |-> Normalised(i)]
  IN  /\ sum_w1 = SumFunctionOnSet(normalised, Window(W1_WINDOW_SIZE))
      /\ sum_w2 = SumFunctionOnSet(normalised, Window(W2_WINDOW_SIZE))

(* A peer whose beacons come at a constant rate that outpaces the fixed    *)
(* first timeout, 2 * HEARTBEAT_INTERVAL, is never suspected: after every  *)
(* beacon, the first one included, the timer runs for more whole           *)
(* milliseconds than pass until the next one.  (A slower one is removed    *)
(* by that first timeout, every time it comes back.)  Left out is a NaN,   *)
(* which starts no timer at all: there nothing can suspect the peer.       *)
SteadyNotSuspected ==
  \A gap \in Gaps \ {0} :
    /\ gap < 2 * HEARTBEAT_INTERVAL
    /\ seq_num >= 0
    /\ ~TimeoutIsNaN
    /\ \A i \in 0..seq_num : Arrival(i) = i * gap
    => next_timeout \div Scale > gap

(* "Estimate the next delay based on information so far and restart the    *)
(* timer" (failure_detector_main.c:227): the timeout estimated from real   *)
(* numbers is one start_timer can run, of a millisecond or more.           *)
TimeoutStartsTimer ==
  seq_num >= 0 /\ ~poisoned => Interval = "positive"
============================================================================
