---------------------------- MODULE TimerProofs ----------------------------
(***************************************************************************)
(* For every size of a byte and a word, every interval timer rate and      *)
(* every slice asked for: what the calibration of module Timer reads, and  *)
(* what the kernel arms the local APIC timer with.                         *)
(***************************************************************************)
EXTENDS Timer, TLAPS

\* Facts about products and division, stated for plain variables.
LEMMA MulNat ==
    ASSUME NEW a \in Nat, NEW b \in Nat
    PROVE  a * b \in Nat /\ a * b = b * a
    OBVIOUS

\* A product grows with its factor, by one multiple at least.
LEMMA MulGrows ==
    ASSUME NEW a \in Nat, NEW b \in Nat, NEW c \in Nat, b <= c
    PROVE  a * b <= a * c /\ (b < c => a * b + a <= a * c)
<1>1. PICK d \in Nat : c = b + d
  <2>1. c - b \in Nat /\ c = b + (c - b)
    OBVIOUS
  <2> QED
    BY <2>1
<1>2. a * c = a * b + a * d /\ a * d \in Nat /\ a * b \in Nat
  BY <1>1
<1>3. d > 0 => a * d >= a
  BY <1>1
<1> QED
  BY <1>1, <1>2, <1>3

\* Quotient and remainder.
LEMMA DivMod ==
    ASSUME NEW a \in Nat, NEW b \in Nat, b > 0
    PROVE  /\ a \div b \in Nat /\ a % b \in 0 .. b - 1
           /\ a = b * (a \div b) + (a % b)
    OBVIOUS

\* They are the only numbers that add up.
LEMMA DivModUnique ==
    ASSUME NEW a \in Nat, NEW b \in Nat, b > 0,
           NEW q \in Nat, NEW r \in 0 .. b - 1, a = b * q + r
    PROVE  a \div b = q /\ a % b = r
<1> DEFINE p == a \div b
           s == a % b
<1>1. p \in Nat /\ s \in 0 .. b - 1 /\ a = b * p + s
  BY DivMod
<1> HIDE DEF p, s
<1>2. b * p \in Nat /\ b * q \in Nat
  BY <1>1, MulNat
<1>3. ~(p < q)
  <2> SUFFICES ASSUME p < q PROVE FALSE
    OBVIOUS
  <2>1. b * p + b <= b * q
    BY <1>1, MulGrows
  <2> QED
    BY <1>1, <1>2, <2>1
<1>4. ~(q < p)
  <2> SUFFICES ASSUME q < p PROVE FALSE
    OBVIOUS
  <2>1. b * q + b <= b * p
    BY <1>1, MulGrows
  <2> QED
    BY <1>1, <1>2, <2>1
<1>5. p = q
  BY <1>1, <1>3, <1>4
<1>6. s = r
  BY <1>1, <1>2, <1>5
<1> QED
  BY <1>5, <1>6 DEF p, s

\* Zero leaves no remainder.
LEMMA ZeroMod ==
    ASSUME NEW n \in Nat, n > 0
    PROVE  0 % n = 0
<1>1. 0 = n * 0 + 0 /\ 0 \in 0 .. n - 1
  OBVIOUS
<1> QED
  BY <1>1, DivModUnique

\* A counter that runs down and starts again shows its ticks modulo its period.
LEMMA NextMod ==
    ASSUME NEW t \in Nat, NEW n \in Nat, n > 0
    PROVE  (t + 1) % n = IF t % n = n - 1 THEN 0 ELSE (t % n) + 1
<1> DEFINE q == t \div n
           r == t % n
<1>1. q \in Nat /\ r \in 0 .. n - 1 /\ t = n * q + r
  BY DivMod
<1> HIDE DEF q, r
<1>2. n * q \in Nat /\ n * (q + 1) = n * q + n
  BY <1>1
<1>3. CASE r = n - 1
  <2>1. t + 1 = n * (q + 1) + 0
    BY <1>1, <1>2, <1>3
  <2>2. (t + 1) % n = 0
    BY <1>1, <2>1, DivModUnique
  <2> QED
    BY <1>3, <2>2 DEF r
<1>4. CASE r # n - 1
  <2>1. t + 1 = n * q + (r + 1) /\ r + 1 \in 0 .. n - 1
    BY <1>1, <1>2, <1>4
  <2>2. (t + 1) % n = r + 1
    BY <1>1, <2>1, DivModUnique
  <2> QED
    BY <1>4, <2>2 DEF r
<1> QED
  BY <1>3, <1>4

\* x <= y and 2 * x > y survive multiplication.
LEMMA MulBounds ==
    ASSUME NEW k \in Nat, NEW x \in Nat, NEW y \in Nat
    PROVE  /\ x <= y => k * x <= k * y
           /\ k > 0 /\ x < y => k * x < k * y
<1>1. k * x \in Nat /\ k * y \in Nat
  BY MulNat
<1>2. x < y => k * x + k <= k * y
  BY MulGrows
<1>3. x <= y => k * x <= k * y
  BY MulGrows
<1> QED
  BY <1>1, <1>2, <1>3

\* Rounding down a quotient that is at least 1 loses less than half of it.
LEMMA RoundsDown ==
    ASSUME NEW a \in Nat, NEW b \in Nat, b > 0, b <= a
    PROVE  /\ a \div b \in Nat /\ a \div b >= 1
           /\ b * (a \div b) <= a /\ a < 2 * (b * (a \div b))
<1> DEFINE q == a \div b
           r == a % b
<1>1. q \in Nat /\ r \in 0 .. b - 1 /\ a = b * q + r
  BY DivMod
<1> HIDE DEF q, r
<1>2. b * q \in Nat
  BY <1>1, MulNat
<1>3. q >= 1
  <2> SUFFICES ASSUME q = 0 PROVE FALSE
    BY <1>1
  <2>1. b * q = 0
    OBVIOUS
  <2> QED
    BY <1>1, <2>1
<1>4. b <= b * q
  <2>1. b * 1 <= b * q
    BY <1>1, <1>3, MulGrows
  <2> QED
    BY <2>1
<1>5. b * q <= a /\ a < 2 * (b * q)
  BY <1>1, <1>2, <1>4
<1> QED
  BY <1>1, <1>3, <1>5 DEF q

\* Frequency and OneShot for a calibration that saw e ticks.
LEMMA SliceArithmetic ==
    ASSUME NEW e \in 1 .. TIMER_DELAY, NEW t \in 0 .. e
    PROVE  LET f == (TIMER_DELAY \div e) * PIT_DIVIDEND
               c == OneShot(SCHEDULER_TIMER_DELAY, f)
           IN  /\ c \in Nat /\ c # 0
               /\ Slice(c, t) <= Asked
               /\ SCHEDULER_TIMER_DELAY * (f \div Micro) < Word => 4 * Slice(c, e) > Asked
<1> DEFINE L  == TIMER_DELAY
           D  == PIT_DIVIDEND
           us == SCHEDULER_TIMER_DELAY
           q  == L \div e
           f  == q * D
           m  == f \div Micro
           c  == (us * m) % Word
<1>1. L \in Nat /\ e \in Nat /\ e > 0 /\ e <= L /\ t \in Nat /\ t <= e
  <2>1. Byte * Byte \in Nat /\ Byte <= Byte * Byte
    <3>1. Byte * 1 <= Byte * Byte
      BY TimerAssumption, MulGrows
    <3> QED
      BY <3>1, TimerAssumption
  <2> QED
    BY <2>1, TimerAssumption DEF TIMER_DELAY
<1>2. D \in Nat /\ D > 0 /\ Micro \in Nat /\ Micro > 0 /\ Micro <= D /\ us \in Nat
      /\ Word \in Nat /\ Word > 0
  BY TimerAssumption
<1> HIDE DEF L, D, us
<1>3. q \in Nat /\ q >= 1 /\ e * q <= L /\ L < 2 * (e * q)
  BY <1>1, RoundsDown
<1> HIDE DEF q
<1>4. f \in Nat /\ Micro <= f /\ f <= L * D
  <2>1. D * 1 <= D * q
    BY <1>2, <1>3, MulGrows
  <2>2. q <= L
    <3>1. q * 1 <= q * e
      BY <1>1, <1>3, MulGrows
    <3> QED
      BY <1>1, <1>3, <3>1, MulNat
  <2>3. D * q <= D * L
    BY <1>1, <1>2, <1>3, <2>2, MulGrows
  <2> QED
    BY <1>1, <1>2, <1>3, <2>1, <2>3, MulNat
<1> HIDE DEF f
<1>5. m \in Nat /\ m >= 1 /\ Micro * m <= f /\ f < 2 * (Micro * m)
  BY <1>2, <1>4, RoundsDown
<1>6. m <= (L * D) \div Micro
  <2> DEFINE p == (L * D) \div Micro
             r == (L * D) % Micro
  <2>1. L * D \in Nat
    BY <1>1, <1>2, MulNat
  <2>2. p \in Nat /\ r \in 0 .. Micro - 1 /\ L * D = Micro * p + r
    BY <1>2, <2>1, DivMod
  <2> HIDE DEF p, r, m
  <2>3. ~(p < m)
    <3> SUFFICES ASSUME p < m PROVE FALSE
      OBVIOUS
    <3>1. Micro * p + Micro <= Micro * m
      BY <1>2, <1>5, <2>2, MulGrows
    <3>2. Micro * p \in Nat /\ Micro * m \in Nat
      BY <1>2, <1>5, <2>2, MulNat
    <3> QED
      BY <1>2, <1>4, <1>5, <2>1, <2>2, <3>1, <3>2
  <2> QED
    BY <1>5, <2>2, <2>3 DEF p
<1> HIDE DEF m
<1>7. us * m \in Nat /\ c \in Nat /\ c <= us * m /\ (us * m < Word => c = us * m)
  <2>1. us * m \in Nat
    BY <1>2, <1>5, MulNat
  <2> DEFINE p == (us * m) \div Word
  <2>2. p \in Nat /\ c \in 0 .. Word - 1 /\ us * m = Word * p + c
    BY <1>2, <2>1, DivMod, Zenon
  <2> HIDE DEF p, c
  <2>3. Word * p \in Nat
    BY <1>2, <2>2, MulNat
  <2>4. us * m < Word => p = 0
    <3> SUFFICES ASSUME us * m < Word, p >= 1 PROVE FALSE
      BY <2>2
    <3>1. Word * 1 <= Word * p
      BY <1>2, <2>2, MulGrows
    <3> QED
      BY <1>2, <2>1, <2>2, <2>3, <3>1
  <2>5. p = 0 => Word * p = 0
    BY <1>2
  <2> QED
    BY <2>1, <2>2, <2>3, <2>4, <2>5
<1>8. c # 0
  <2>1. m \in 1 .. (TIMER_DELAY * PIT_DIVIDEND) \div Micro
    <3>1. (L * D) \div Micro \in Nat
      BY <1>1, <1>2, MulNat, DivMod
    <3> QED
      BY <1>5, <1>6, <3>1 DEF L, D
  <2>2. (SCHEDULER_TIMER_DELAY * m) % Word # 0
    BY <2>1, SliceAssumption
  <2> QED
    BY <2>2 DEF us
<1>9. us > 0
  <2> SUFFICES ASSUME us = 0 PROVE FALSE
    BY <1>2
  <2>1. us * m = 0
    BY <1>5
  <2> QED
    BY <1>2, <1>7, <1>8, <2>1
<1> HIDE DEF c
<1> DEFINE A == Micro * m
           Q == e * q
<1>10. A \in Nat /\ Q \in Nat /\ A <= q * D /\ q * D < 2 * A /\ Q <= L /\ L < 2 * Q
  BY <1>1, <1>2, <1>3, <1>5, MulNat DEF f
<1> HIDE DEF A, Q
<1>11. e * A <= D * L /\ D * L < 4 * (e * A)
  <2>1. e * A \in Nat /\ D * L \in Nat /\ D * Q \in Nat /\ q * D \in Nat
    BY <1>1, <1>2, <1>3, <1>10, MulNat
  <2>2. e * A <= e * (q * D) /\ e * (q * D) < e * (2 * A)
    <3>1. 2 * A \in Nat
      BY <1>10
    <3> QED
      BY <1>1, <1>10, <2>1, <3>1, MulBounds
  <2>3. e * (q * D) = D * Q /\ e * (2 * A) = 2 * (e * A)
    BY <1>1, <1>2, <1>3, <1>10 DEF Q
  <2>4. D * Q <= D * L /\ D * L < D * (2 * Q)
    <3>1. 2 * Q \in Nat
      BY <1>10
    <3> QED
      BY <1>1, <1>2, <1>10, <3>1, MulBounds
  <2>5. D * (2 * Q) = 2 * (D * Q)
    BY <1>2, <1>10
  <2> QED
    BY <2>1, <2>2, <2>3, <2>4, <2>5
<1>12. us * (e * A) <= us * (D * L) /\ us * (D * L) < us * (4 * (e * A))
  <2>1. e * A \in Nat /\ D * L \in Nat /\ 4 * (e * A) \in Nat
    BY <1>1, <1>2, <1>10, MulNat
  <2> QED
    BY <1>2, <1>9, <1>11, <2>1, MulBounds
<1>13. us * (D * L) = Asked
  BY <1>1, <1>2 DEF Asked, L, D, us
<1>14. (us * m) * e * Micro = us * (e * A)
  BY <1>1, <1>2, <1>5 DEF A
<1>15. us * (4 * (e * A)) = 4 * (us * (e * A))
  <2>1. e * A \in Nat
    BY <1>1, <1>10, MulNat
  <2> HIDE DEF A
  <2> QED
    BY <1>2, <2>1
<1>16. c * t * Micro <= (us * m) * e * Micro
  <2>1. c * t <= c * e /\ e * c <= e * (us * m)
    BY <1>1, <1>7, MulGrows
  <2>2. c * t \in Nat /\ (us * m) * e \in Nat /\ c * t <= (us * m) * e
    BY <1>1, <1>7, <2>1, MulNat
  <2>3. Micro * (c * t) <= Micro * ((us * m) * e)
    BY <1>2, <2>2, MulGrows
  <2> QED
    BY <1>2, <2>2, <2>3, MulNat
<1>17. Slice(c, t) <= Asked
  <2>1. us * (e * A) \in Nat /\ us * (D * L) \in Nat /\ c * t * Micro \in Nat
    BY <1>1, <1>2, <1>7, <1>10, MulNat
  <2> QED
    BY <1>12, <1>13, <1>14, <1>16, <2>1 DEF Slice
<1>18. us * m < Word => 4 * Slice(c, e) > Asked
  BY <1>7, <1>12, <1>13, <1>14, <1>15 DEF Slice
<1> QED
  BY <1>7, <1>8, <1>17, <1>18 DEF OneShot, c, m, f, q, us, D, L

----------------------------------------------------------------------------
\* The inductive invariant.  A loaded counter is its reload value less its
\* ticks modulo that value; from the load in init_apic to the store the reload
\* value is TIMER_DELAY; each of latch, low and end carries the counter of the
\* moment of the latch command one step further, and the frequency and the
\* count armed are those of the ticks seen by then.  TRIGGERED_ONCE is set by a
\* timer that has expired or by a key, so one of the two has ended the wait.
LatchedCount == TIMER_DELAY - (elapsed % TIMER_DELAY)

TimerInv ==
    /\ pc \in 1 .. 16 /\ ticks \in Nat
    /\ counter # None =>
           reload \in Nat /\ reload > 0 /\ counter = reload - (ticks % reload)
    /\ pc = 3 => written = TIMER_DELAY % Byte
    /\ pc \in 4 .. 10 => counter # None /\ reload = TIMER_DELAY
    /\ pc <= 4 => took = None /\ ~armed
    /\ took # None => took \in Nat
    /\ pc <= 7 => /\ elapsed = None
                  /\ irr => took # None
                  /\ TRIGGERED_ONCE => took # None \/ keyed
                  /\ took # None => took <= ticks
    /\ pc >= 7 => took # None \/ keyed
    /\ pc >= 8 => elapsed \in Nat /\ (took # None => took <= elapsed)
    /\ pc \in 8 .. 9 => latch = LatchedCount
    /\ pc = 9 => low = LatchedCount % Byte
    /\ pc <= 9 => end = None
    /\ pc >= 10 => end = LatchedCount
    /\ pc \in 11 .. 15 => end # TIMER_DELAY /\ APIC_TIMER_FREQUENCY = Frequency(end)
    /\ pc = 13 => written = Divisor(PIT_FREQUENCY_HZ) % Byte
    /\ pc = 15 => initial = OneShot(SCHEDULER_TIMER_DELAY, APIC_TIMER_FREQUENCY)
    /\ pc = 16 => end = TIMER_DELAY

\* Where in the program each operation stands.
LEMMA Steps ==
    ASSUME pc \in 1 .. 16
    PROVE  /\ Len(Program) = 14
           /\ At("mode") <=> pc \in {1, 11}
           /\ At("low") <=> pc \in {2, 12}
           /\ At("high") <=> pc \in {3, 13}
           /\ At("enable") <=> pc = 4
           /\ At("disable") <=> pc = 5
           /\ At("wait") <=> pc = 6
           /\ At("latch") <=> pc = 7
           /\ At("read_low") <=> pc = 8
           /\ At("read_high") <=> pc = 9
           /\ At("store") <=> pc = 10
           /\ At("arm") <=> pc = 14
           /\ Running <=> pc = 15
           /\ Panicked <=> pc = 16
           /\ Installed <=> pc \in 11 .. 15
<1>1. Len(Program) = 14
  BY DEF Program
<1>2. \A k \in 1 .. 14 :
          /\ Program[k] = "mode" <=> k \in {1, 11}
          /\ Program[k] = "low" <=> k \in {2, 12}
          /\ Program[k] = "high" <=> k \in {3, 13}
          /\ Program[k] = "enable" <=> k = 4
          /\ Program[k] = "disable" <=> k = 5
          /\ Program[k] = "wait" <=> k = 6
          /\ Program[k] = "latch" <=> k = 7
          /\ Program[k] = "read_low" <=> k = 8
          /\ Program[k] = "read_high" <=> k = 9
          /\ Program[k] = "store" <=> k = 10
          /\ Program[k] = "arm" <=> k = 14
  BY DEF Program
<1> QED
  BY <1>1, <1>2 DEF At, Running, Panicked, Installed

\* The longest count of the PIT, of two bytes.
LEMMA DelayFacts ==
    /\ Byte \in Nat /\ Byte > 1 /\ Byte * Byte \in Nat
    /\ TIMER_DELAY \in Nat /\ TIMER_DELAY > 1 /\ TIMER_DELAY = Byte * Byte - 1
<1>1. Byte * 2 <= Byte * Byte
  BY TimerAssumption, MulGrows
<1>2. Byte * Byte \in Nat
  BY TimerAssumption, MulNat
<1> QED
  BY <1>1, <1>2, TimerAssumption DEF TIMER_DELAY

\* The bytes of a count put together again are the count.
LEMMA Bytes ==
    ASSUME NEW n \in Nat
    PROVE  (n % Byte) + Byte * (n \div Byte) = n
<1>1. n \div Byte \in Nat /\ n % Byte \in 0 .. Byte - 1 /\ n = Byte * (n \div Byte) + (n % Byte)
  BY DelayFacts, DivMod
<1>2. Byte * (n \div Byte) \in Nat
  BY <1>1, DelayFacts, MulNat
<1> QED
  BY <1>1, <1>2

\* The divisor pit::init asks for is a count the channel can hold.
LEMMA DivisorFits ==
    /\ Divisor(PIT_FREQUENCY_HZ) \in Nat /\ Divisor(PIT_FREQUENCY_HZ) > 0
    /\ Divisor(PIT_FREQUENCY_HZ) % (Byte * Byte) = Divisor(PIT_FREQUENCY_HZ)
<1> DEFINE q == PIT_DIVIDEND \div PIT_FREQUENCY_HZ
           n == Divisor(PIT_FREQUENCY_HZ)
<1>1. q \in Nat /\ q >= 1
  BY TimerAssumption, RoundsDown
<1>2. q < TIMER_DELAY
  BY TimerAssumption
<1>3. n = q \/ n = q + 1
  BY <1>1 DEF Divisor
<1> HIDE DEF q, n
<1>4. n \in Nat /\ n > 0 /\ n < Byte * Byte
  BY <1>1, <1>2, <1>3, DelayFacts
<1>5. n = (Byte * Byte) * 0 + n
  BY <1>4, DelayFacts
<1>6. n % (Byte * Byte) = n
  BY <1>4, <1>5, DelayFacts, DivModUnique
<1> QED
  BY <1>4, <1>6 DEF n

\* A latched count is never zero.
LEMMA LatchedRange ==
    ASSUME elapsed \in Nat
    PROVE  LatchedCount \in 1 .. TIMER_DELAY
<1>1. elapsed % TIMER_DELAY \in 0 .. TIMER_DELAY - 1
  BY DelayFacts, DivMod
<1> QED
  BY <1>1, DelayFacts DEF LatchedCount

\* Every step of the calibration and of the slices keeps the invariant.
LEMMA TimerInductive == TimerInv /\ [TimerNext]_timerVars => TimerInv'
<1> SUFFICES ASSUME TimerInv, [TimerNext]_timerVars PROVE TimerInv'
  OBVIOUS
<1> USE DEF pitVars, readVars, apicVars, wakeVars, Goto
<1>1. None \notin Nat /\ pc \in 1 .. 16 /\ ticks \in Nat
  BY TimerAssumption DEF TimerInv
<1>2. CASE Tick
  <2>1. counter' = reload - ((ticks + 1) % reload) /\ counter' \in Int /\ ticks' = ticks + 1
    <3>1. reload \in Nat /\ reload > 0 /\ counter = reload - (ticks % reload)
          /\ ticks % reload \in 0 .. reload - 1
      BY <1>1, <1>2, DivMod DEF Tick, TimerInv
    <3>2. (ticks + 1) % reload
            = IF ticks % reload = reload - 1 THEN 0 ELSE (ticks % reload) + 1
      BY <1>1, <3>1, NextMod, Zenon
    <3> QED
      BY <1>2, <3>1, <3>2 DEF Tick
  <2> QED
    BY <1>1, <1>2, <2>1, TimerAssumption DEF Tick, TimerInv, LatchedCount
<1>3. CASE Expire
  BY <1>1, <1>3, TimerAssumption DEF Expire, TimerInv, LatchedCount
<1>4. CASE WriteMode
  <2>1. pc \in {1, 11}
    BY <1>1, <1>4, Steps DEF WriteMode
  <2> QED
    BY <1>1, <1>4, <2>1 DEF WriteMode, TimerInv, LatchedCount
<1>5. CASE WriteLow
  <2>1. pc \in {2, 12}
    BY <1>1, <1>5, Steps DEF WriteLow
  <2>2. pc = 2 => written' = TIMER_DELAY % Byte
    BY <1>5 DEF WriteLow, Count
  <2>3. pc = 12 => written' = Divisor(PIT_FREQUENCY_HZ) % Byte
    BY <1>5, DivisorFits DEF WriteLow, Count
  <2> QED
    BY <1>1, <1>5, <2>1, <2>2, <2>3 DEF WriteLow, TimerInv, LatchedCount
<1>6. CASE WriteHigh
  <2>1. pc \in {3, 13}
    BY <1>1, <1>6, Steps DEF WriteHigh
  <2>2. pc = 3 => reload' = TIMER_DELAY
    BY <1>6, DelayFacts, Bytes DEF WriteHigh, Count, TimerInv
  <2>3. pc = 13 => reload' = Divisor(PIT_FREQUENCY_HZ)
    BY <1>6, DivisorFits, Bytes DEF WriteHigh, Count, TimerInv
  <2>4. reload' \in Nat /\ reload' > 0 /\ counter' = reload' /\ ticks' = 0
    BY <1>6, <2>1, <2>2, <2>3, DelayFacts, DivisorFits DEF WriteHigh
  <2>5. PICK n \in Nat : n > 0 /\ reload' = n
    BY <2>4
  <2>6. counter' # None /\ counter' = reload' - (ticks' % reload')
    <3>1. 0 % n = 0
      BY <2>5, ZeroMod
    <3>2. n - 0 = n
      BY <2>5
    <3> QED
      BY <1>1, <2>4, <2>5, <3>1, <3>2
  <2> QED
    BY <1>1, <1>6, <2>1, <2>2, <2>4, <2>6 DEF WriteHigh, TimerInv, LatchedCount
<1>7. CASE EnableApic
  <2>1. pc = 4
    BY <1>1, <1>7, Steps DEF EnableApic
  <2> QED
    BY <1>1, <1>7, <2>1 DEF EnableApic, TimerInv, LatchedCount
<1>8. CASE WaitTriggered
  <2>1. pc = 6
    BY <1>1, <1>8, Steps DEF WaitTriggered
  <2> QED
    BY <1>1, <1>8, <2>1 DEF WaitTriggered, TimerInv, LatchedCount
<1>9. CASE LatchCount
  <2>1. pc = 7
    BY <1>1, <1>9, Steps DEF LatchCount
  <2> QED
    BY <1>1, <1>9, <2>1 DEF LatchCount, TimerInv, LatchedCount
<1>10. CASE ReadLow
  <2>1. pc = 8 /\ elapsed \in Nat /\ latch = LatchedCount
    BY <1>1, <1>10, Steps DEF ReadLow, TimerInv
  <2>2. low' = LatchedCount % Byte
    BY <1>1, <1>10, <2>1, LatchedRange, TimerAssumption DEF ReadLow, DataPort
  <2> QED
    BY <1>1, <1>10, <2>1, <2>2 DEF ReadLow, TimerInv, LatchedCount
<1>11. CASE ReadHigh
  <2>1. pc = 9 /\ elapsed \in Nat /\ latch = LatchedCount /\ low = LatchedCount % Byte
    BY <1>1, <1>11, Steps DEF ReadHigh, TimerInv
  <2>2. LatchedCount \in Nat /\ LatchedCount # None
    BY <2>1, LatchedRange, TimerAssumption, DelayFacts
  <2>3. end' = LatchedCount
    BY <1>11, <2>1, <2>2, Bytes DEF ReadHigh, DataPort
  <2> QED
    BY <1>1, <1>11, <2>1, <2>3 DEF ReadHigh, TimerInv, LatchedCount
<1>12. CASE StoreFrequency
  <2>1. pc = 10 /\ Len(Program) = 14
    BY <1>1, <1>12, Steps DEF StoreFrequency
  <2>2. CASE end = TIMER_DELAY
    <3>1. pc' = 16
      BY <1>12, <2>1, <2>2 DEF StoreFrequency
    <3> QED
      BY <1>1, <1>12, <2>1, <2>2, <3>1 DEF StoreFrequency, TimerInv, LatchedCount
  <2>3. CASE end # TIMER_DELAY
    <3>1. pc' = 11 /\ APIC_TIMER_FREQUENCY' = Frequency(end)
      BY <1>12, <2>1, <2>3 DEF StoreFrequency
    <3>2. Frequency(end)' = Frequency(end)
      BY <1>12 DEF StoreFrequency, Frequency
    <3> QED
      BY <1>1, <1>12, <2>1, <2>3, <3>1, <3>2 DEF StoreFrequency, TimerInv, LatchedCount
  <2> QED
    BY <2>2, <2>3
<1>13. CASE StartTimer
  <2>1. pc = 14
    BY <1>1, <1>13, Steps DEF StartTimer
  <2> QED
    BY <1>1, <1>13, <2>1 DEF StartTimer, TimerInv, LatchedCount, Frequency
<1>14. CASE RestartApic
  <2>1. Installed /\ pc' = Len(Program) + 1
    BY <1>14 DEF RestartApic
  <2>2. pc \in 11 .. 15
    BY <1>1, <2>1, Steps
  <2>3. pc' = 15
    <3>1. Len(Program) = 14
      BY <1>1, Steps
    <3> QED
      BY <2>1, <3>1
  <2> QED
    BY <1>1, <1>14, <2>2, <2>3 DEF RestartApic, TimerInv, LatchedCount, Frequency
<1>16. CASE ConfigInterrupt
  BY <1>1, <1>16 DEF ConfigInterrupt, TimerInv, LatchedCount
<1>17. CASE KeyInterrupt
  BY <1>1, <1>17 DEF KeyInterrupt, TimerInv, LatchedCount
<1>18. CASE DisablePic
  <2>1. pc = 5
    BY <1>1, <1>18, Steps DEF DisablePic
  <2> QED
    BY <1>1, <1>18, <2>1 DEF DisablePic, TimerInv, LatchedCount
<1>15. CASE UNCHANGED timerVars
  BY <1>15 DEF timerVars, TimerInv, LatchedCount, Frequency, OneShot
<1> QED
  BY <1>2, <1>3, <1>4, <1>5, <1>6, <1>7, <1>8, <1>9, <1>10, <1>11, <1>12, <1>13, <1>14, <1>15,
     <1>16, <1>17, <1>18
     DEF TimerNext, Halted

\* The count of a running kernel, as SliceArithmetic has it.
LEMMA InvImplies == TimerInv => ReadIsOneMoment /\ NeverArmedWithZero /\ SliceWithinRequest
<1> SUFFICES ASSUME TimerInv PROVE ReadIsOneMoment /\ NeverArmedWithZero /\ SliceWithinRequest
  OBVIOUS
<1>1. pc \in 1 .. 16
  BY DEF TimerInv
<1>2. ReadIsOneMoment
  <2>1. pc >= 10 => /\ elapsed \in Nat /\ end = LatchedCount
                    /\ elapsed % TIMER_DELAY \in 0 .. TIMER_DELAY - 1
    BY <1>1, DelayFacts, DivMod DEF TimerInv
  <2> QED
    BY <1>1, <2>1, Steps, DelayFacts DEF TimerInv, ReadIsOneMoment, LatchedCount
<1>3. ASSUME Running
      PROVE  /\ initial # 0
             /\ elapsed < TIMER_DELAY =>
                  /\ IF took = None THEN keyed ELSE Slice(initial, took) <= Asked
                  /\ SCHEDULER_TIMER_DELAY * (APIC_TIMER_FREQUENCY \div Micro) < Word =>
                         4 * Slice(initial, elapsed) > Asked
  <2> DEFINE e == TIMER_DELAY - end
  <2>1. pc = 15
    BY <1>1, <1>3, Steps
  <2>2. /\ elapsed \in Nat
        /\ took # None => took \in Nat /\ took <= elapsed
        /\ end = LatchedCount /\ end # TIMER_DELAY
        /\ APIC_TIMER_FREQUENCY = Frequency(end)
        /\ initial = OneShot(SCHEDULER_TIMER_DELAY, APIC_TIMER_FREQUENCY)
    BY <2>1 DEF TimerInv
  <2>3. elapsed % TIMER_DELAY \in 0 .. TIMER_DELAY - 1
    BY <2>2, DelayFacts, DivMod
  <2>4. e \in 1 .. TIMER_DELAY /\ e = elapsed % TIMER_DELAY
    BY <2>2, <2>3, DelayFacts DEF LatchedCount
  <2>5. APIC_TIMER_FREQUENCY = (TIMER_DELAY \div e) * PIT_DIVIDEND
    BY <2>2 DEF Frequency
  <2> HIDE DEF e
  <2>6. 0 \in 0 .. e
    BY <2>4, DelayFacts
  <2>7. initial # 0
    BY <2>2, <2>4, <2>5, <2>6, SliceArithmetic
  <2>8. ASSUME elapsed < TIMER_DELAY PROVE e = elapsed
    <3>1. elapsed = TIMER_DELAY * 0 + elapsed /\ elapsed \in 0 .. TIMER_DELAY - 1
      BY <2>2, <2>8, DelayFacts
    <3>2. elapsed % TIMER_DELAY = elapsed
      BY <2>2, <3>1, DelayFacts, DivModUnique
    <3> QED
      BY <2>4, <3>2
  <2>9. ASSUME elapsed < TIMER_DELAY
        PROVE  SCHEDULER_TIMER_DELAY * (APIC_TIMER_FREQUENCY \div Micro) < Word =>
                   4 * Slice(initial, elapsed) > Asked
    BY <2>2, <2>4, <2>5, <2>6, <2>8, <2>9, SliceArithmetic
  <2>10. ASSUME elapsed < TIMER_DELAY, took # None PROVE Slice(initial, took) <= Asked
    <3>1. took \in 0 .. e
      BY <2>2, <2>4, <2>8, <2>10
    <3> QED
      BY <2>2, <2>4, <2>5, <3>1, SliceArithmetic
  <2>11. took = None => keyed
    BY <2>1 DEF TimerInv
  <2> QED
    BY <2>7, <2>9, <2>10, <2>11
<1> QED
  BY <1>2, <1>3 DEF NeverArmedWithZero, SliceWithinRequest

\* Whatever the sizes of a byte and a word and whatever the rates of the two
\* clocks, read_pit_count returns the count of one moment, start_timer_one_shot
\* never arms 0, and, after a calibration of less than one period of the interval
\* timer, the slice is more than a quarter of the one asked for by the
\* calibration's measure (unless the cast drops bits) and at most the one asked
\* for, unless a key ended the calibration before the timer had expired.
THEOREM TimerCorrect ==
    TimerSpec => [](ReadIsOneMoment /\ NeverArmedWithZero /\ SliceWithinRequest)
<1>1. TimerInit => TimerInv
  BY TimerAssumption DEF TimerInit, TimerInv
<1> QED
  BY <1>1, TimerInductive, InvImplies, PTL DEF TimerSpec

\* read_pit_count returns the count of one moment, and init_apic divides by
\* zero only after a whole number of periods.
THEOREM ReadAlwaysOneMoment == TimerSpec => []ReadIsOneMoment
  BY TimerCorrect, PTL

\* start_timer_one_shot never arms the local APIC timer with 0.
THEOREM NeverEverArmedWithZero == TimerSpec => []NeverArmedWithZero
  BY TimerCorrect, PTL

\* The numbers in the source meet the assumptions: no count of whole
\* microseconds the calibration can find makes 1000000 times it vanish in the
\* cast of start_timer_one_shot to u32.
THEOREM SourceNumbersMeetAssumptions ==
    /\ 1193182 >= 1000000 /\ 1000 <= 1193182 /\ 1193182 \div 1000 < 256 * 256 - 1
    /\ \A m \in Nat : m >= 1 /\ m <= ((256 * 256 - 1) * 1193182) \div 1000000 =>
                          (1000000 * m) % 4294967296 # 0
<1>1. ((256 * 256 - 1) * 1193182) \div 1000000 = 78195
  BY SMT
<1>2. ASSUME NEW m \in Nat, m >= 1, m <= 78195, (1000000 * m) % 4294967296 = 0 PROVE FALSE
  <2>1. PICK k \in Nat : 1000000 * m = 4294967296 * k
    BY <1>2, SMT
  <2>2. 15625 * m = 67108864 * k
    BY <2>1, SMT
  <2> QED
    BY <1>2, <2>2, SMT
<1>3. 1193182 >= 1000000 /\ 1000 <= 1193182 /\ 1193182 \div 1000 < 256 * 256 - 1
  BY SMT
<1> QED
  BY <1>1, <1>2, <1>3, SMT
=============================================================================
