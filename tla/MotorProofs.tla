------------------------------ MODULE MotorProofs ------------------------------
(***************************************************************************)
(* For any width of the integers, period, duration of the boost and set of *)
(* speeds: no variable leaves its width, pulses are as long as the speed   *)
(* and go the way of its sign, boosts last their time.                     *)
(***************************************************************************)
EXTENDS Motor, FiniteSetTheorems, TLAPS

(* Between messages the direction is the one asked for. *)
DirectionInv == pc = "loop" => direction = IF receivedSpeed < 0 THEN 1 ELSE 0

(* During a boost the wrapping timer tells the true time: the interrupt to *)
(* come is one more than the timer has been seen to count.                 *)
BoostTimed ==
  boost = 2 => /\ enabled
               /\ Elapsed = TicksPerOverflow * (held + 1)
               /\ TicksPerOverflow * held <= BoostTicks

Inv == TypeOK /\ DirectionInv /\ PulseWithinSpeed /\ BoostTimed

-----------------------------------------------------------------------------
(* Arithmetic.                                                             *)

LEMMA PowerFact ==
  ASSUME NEW n \in Nat
  PROVE  /\ 2 ^ n \in Nat \ {0}
         /\ IsFiniteSet(SUBSET (1..n)) /\ Cardinality(SUBSET (1..n)) = 2 ^ n
  <1>1. IsFiniteSet(1..n) /\ Cardinality(1..n) = n
    BY FS_Interval
  <1>2. IsFiniteSet(SUBSET (1..n)) /\ Cardinality(SUBSET (1..n)) = 2 ^ n
    BY <1>1, FS_SUBSET
  <1>3. SUBSET (1..n) # {}
    OBVIOUS
  <1> QED BY <1>2, <1>3, FS_EmptySet, FS_CardinalityType

(* A subset of 1..m+n is one of its first m members and one of the others. *)
LEMMA PowerAdds ==
  ASSUME NEW m \in Nat, NEW n \in Nat
  PROVE  2 ^ (m + n) = 2 ^ m * 2 ^ n
  <1> DEFINE low == 1..m
             high == m + 1..m + n
             A == SUBSET low
             B == SUBSET high
             C == SUBSET (1..m + n)
             f == [p \in A \X B |-> p[1] \cup p[2]]
  <1>1. low \cap high = {} /\ low \cup high = 1..m + n
    OBVIOUS
  <1>2. IsFiniteSet(high) /\ Cardinality(high) = n
    BY FS_Interval
  <1>3. /\ IsFiniteSet(A) /\ Cardinality(A) = 2 ^ m
        /\ IsFiniteSet(B) /\ Cardinality(B) = 2 ^ n
        /\ Cardinality(C) = 2 ^ (m + n)
    <2>1. IsFiniteSet(A) /\ Cardinality(A) = 2 ^ m
      BY PowerFact
    <2>2. IsFiniteSet(B) /\ Cardinality(B) = 2 ^ n
      <3> HIDE DEF high
      <3> QED BY <1>2, FS_SUBSET
    <2>3. m + n \in Nat
      OBVIOUS
    <2>4. Cardinality(C) = 2 ^ (m + n)
      BY <2>3, PowerFact
    <2> QED BY <2>1, <2>2, <2>4
  <1>4. f \in Bijection(A \X B, C)
    <2> HIDE DEF low, high
    <2>1. f \in [A \X B -> C]
      BY <1>1
    <2>2. ASSUME NEW p \in A \X B, NEW q \in A \X B, f[p] = f[q]
          PROVE  p = q
      <3>1. p[1] \cup p[2] = q[1] \cup q[2]
        BY <2>2
      <3>2. p[1] \subseteq low /\ q[1] \subseteq low /\ p[2] \subseteq high /\ q[2] \subseteq high
        OBVIOUS
      <3>3. p[1] = (p[1] \cup p[2]) \cap low /\ q[1] = (q[1] \cup q[2]) \cap low
        BY <1>1, <3>2
      <3>4. p[2] = (p[1] \cup p[2]) \cap high /\ q[2] = (q[1] \cup q[2]) \cap high
        BY <1>1, <3>2
      <3>5. p[1] = q[1] /\ p[2] = q[2]
        BY <3>1, <3>3, <3>4
      <3> QED BY <3>5
    <2>3. ASSUME NEW u \in C
          PROVE  \E p \in A \X B : f[p] = u
      <3>1. <<u \cap low, u \cap high>> \in A \X B /\ (u \cap low) \cup (u \cap high) = u
        BY <1>1
      <3> QED BY <3>1
    <2> HIDE DEF A, B, C, f
    <2> QED BY <2>1, <2>2, <2>3 DEF Bijection, Injection, Surjection, IsInjective
  <1> HIDE DEF A, B, C, f
  <1>5. IsFiniteSet(A \X B) /\ Cardinality(A \X B) = Cardinality(A) * Cardinality(B)
    BY <1>3, FS_Product
  <1>6. Cardinality(C) = Cardinality(A \X B)
    BY <1>4, <1>5, FS_Bijection DEF ExistsBijection
  <1> QED BY <1>3, <1>5, <1>6

(* One round of a counter and its wrap. *)
LEMMA ModFact ==
  ASSUME NEW w \in Nat \ {0}, NEW x \in Int
  PROVE  /\ x \in 0..w - 1 => x % w = x
         /\ x \in w..2 * w - 1 => x % w = x - w
         /\ x \in -w..-1 => x % w = x + w
         /\ x % w \in 0..w - 1
  OBVIOUS

(* Quotients, rounded down as a shift does, and what they leave. *)
LEMMA QuotientFact ==
  ASSUME NEW b \in Nat \ {0}, NEW x \in Nat
  PROVE  /\ x \div b \in 0..x /\ x \div b \in Nat /\ x % b \in 0..b - 1
         /\ (x \div b) * b <= x
         /\ x % b = 0 => x = (x \div b) * b
         /\ x # 0 => (-x) \div b \in -x..-1
  <1>1. x \div b \in Nat /\ x \div b <= x
    OBVIOUS
  <1>2. x % b \in 0..b - 1 /\ (x \div b) * b <= x
    OBVIOUS
  <1>3. x % b = 0 => x = (x \div b) * b
    OBVIOUS
  <1>4. (-x) \div b \in Int /\ (-x) \div b >= -x
    OBVIOUS
  <1>5. x # 0 => (-x) \div b < 0
    OBVIOUS
  <1>6. x \div b \in 0..x
    BY <1>1
  <1>7. x # 0 => (-x) \div b \in -x..-1
    <2> DEFINE q == (-x) \div b
    <2> HIDE DEF q
    <2>1. x # 0 => q \in Int /\ q >= -x /\ q < 0
      BY <1>4, <1>5 DEF q
    <2>2. x # 0 => q \in -x..-1
      BY <2>1
    <2> QED BY <2>2 DEF q
  <1> QED BY <1>1, <1>2, <1>3, <1>6, <1>7

(* The numbers of the assumption, in powers of two. *)
LEMMA WidthFact ==
  /\ 2 ^ Shift \in Nat \ {0} /\ 2 ^ (Width - 1) \in Nat \ {0}
  /\ 2 ^ Width = 2 * 2 ^ (Width - 1)
  /\ \E p \in Nat \ {0} : Period = 4 * p /\ p * 2 ^ Shift = 2 ^ (Width - 1)
  <1> DEFINE i == Width - 1 - Shift
  <1>1. i \in Nat /\ Shift \in Nat /\ Width - 1 \in Nat /\ i + Shift = Width - 1 /\ (Width - 1) + 1 = Width
    BY MotorAssumption
  <1>2. 2 ^ i \in Nat \ {0} /\ 2 ^ Shift \in Nat \ {0} /\ 2 ^ (Width - 1) \in Nat \ {0}
    BY <1>1, PowerFact
  <1>3. 2 ^ (i + Shift) = 2 ^ i * 2 ^ Shift
    BY <1>1, PowerAdds
  <1>4. 2 ^ Width = 2 * 2 ^ (Width - 1)
    <2>1. 2 ^ 1 = 2
      OBVIOUS
    <2>2. 2 ^ ((Width - 1) + 1) = 2 ^ (Width - 1) * 2 ^ 1
      BY <1>1, PowerAdds
    <2> QED BY <1>1, <1>2, <2>1, <2>2
  <1>5. Period = 4 * 2 ^ i
    BY MotorAssumption
  <1> HIDE DEF i
  <1> QED BY <1>1, <1>2, <1>3, <1>4, <1>5

LEMMA PeriodFact == Period \in Nat /\ Period > 1 /\ TimerWrap \in Nat /\ TimerWrap > BoostTicks + 2
                    /\ BoostTicks \in Nat
  BY WidthFact, MotorAssumption DEF TicksPerOverflow

(* The time since the boost began, an interrupt later. *)
LEMMA ElapsedFact ==
  ASSUME NEW t \in 0..TimerWrap - 1, NEW b \in 0..TimerWrap - 1
  PROVE  /\ (t - b) % TimerWrap \in Nat
         /\ (t - b) % TimerWrap <= BoostTicks =>
              (((t + 2) % TimerWrap) - b) % TimerWrap = ((t - b) % TimerWrap) + 2
         /\ (((t + 2) % TimerWrap) - t) % TimerWrap = 2
         /\ (t + 2) % TimerWrap \in 0..TimerWrap - 1
  <1> DEFINE w == TimerWrap
             u == (t + 2) % w
  <1>1. w \in Nat \ {0} /\ w > BoostTicks + 2 /\ BoostTicks \in Nat
    BY PeriodFact
  <1>2. u = (IF t + 2 < w THEN t + 2 ELSE t + 2 - w) /\ u \in 0..w - 1
    <2> HIDE DEF w
    <2>1. ASSUME NEW d \in Int, d >= 0, d < 2 * w
          PROVE  d % w = (IF d < w THEN d ELSE d - w) /\ d % w \in 0..w - 1
      <3>1. (d < w => d \in 0..w - 1) /\ (~(d < w) => d \in w..2 * w - 1)
        BY <1>1, <2>1
      <3>2. /\ d \in 0..w - 1 => d % w = d
            /\ d \in w..2 * w - 1 => d % w = d - w
            /\ d % w \in 0..w - 1
        BY <1>1, ModFact
      <3> QED BY <3>1, <3>2
    <2> DEFINE e == t + 2
    <2>2. e \in Int /\ e >= 0 /\ e < 2 * w /\ u = e % w
      BY <1>1 DEF w
    <2> HIDE DEF e, u
    <2>3. u = (IF e < w THEN e ELSE e - w) /\ u \in 0..w - 1
      BY <2>1, <2>2
    <2>4. t \in Int
      BY PeriodFact
    <2> QED BY <1>1, <2>3, <2>4 DEF e
  <1>3. ASSUME NEW x \in 0..w - 1, NEW y \in 0..w - 1
        PROVE  (x - y) % w = IF x >= y THEN x - y ELSE x - y + w
    <2> HIDE DEF w
    <2>1. x - y \in Int /\ (x >= y => x - y \in 0..w - 1) /\ (~(x >= y) => x - y \in -w..-1)
      BY <1>1, <1>3
    <2>2. ASSUME NEW d \in Int
          PROVE  (d \in 0..w - 1 => d % w = d) /\ (d \in -w..-1 => d % w = d + w)
      BY <1>1, <2>2, ModFact
    <2> QED BY <2>1, <2>2
  <1> HIDE DEF w, u
  <1>4. /\ (t - b) % w = (IF t >= b THEN t - b ELSE t - b + w)
        /\ (u - b) % w = (IF u >= b THEN u - b ELSE u - b + w)
        /\ (u - t) % w = (IF u >= t THEN u - t ELSE u - t + w)
    BY <1>2, <1>3 DEF w
  <1>5. t \in 0..w - 1 /\ b \in 0..w - 1
    BY DEF w
  <1>6. /\ (t - b) % w \in Nat
        /\ (t - b) % w <= BoostTicks => (u - b) % w = ((t - b) % w) + 2
        /\ (u - t) % w = 2 /\ u \in 0..w - 1
    BY <1>1, <1>2, <1>4, <1>5
  <1> QED BY <1>6 DEF w, u

-----------------------------------------------------------------------------
(* The initial state and the main loop.                                    *)

LEMMA InitInv == Init => Inv
  <1> SUFFICES ASSUME Init PROVE Inv
    OBVIOUS
  <1> DEFINE s == 2 ^ Shift
             m == 2 ^ (Width - 1)
  <1>1. PICK p \in Nat \ {0} : Period = 4 * p /\ p * s = m
    BY WidthFact
  <1>2. s \in Nat \ {0} /\ m \in Nat \ {0} /\ 2 ^ Width = 2 * m
    BY WidthFact
  <1>3. InitialSpeed \in 0..p - 1
    BY <1>1, MotorAssumption
  <1> HIDE DEF s, m
  <1>4. p <= m /\ InitialSpeed * s \in 0..m - 1
    <2>1. ASSUME NEW i \in Nat, NEW j \in Nat, NEW k \in Nat \ {0}, i < j
          PROVE  i * k \in Nat /\ i * k + k <= j * k /\ j <= j * k
      <3>1. i * k \in Nat /\ j * k \in Nat /\ (j - i - 1) * k \in Nat /\ j * (k - 1) \in Nat
        <4>1. \A x, y \in Nat : x * y \in Nat
          OBVIOUS
        <4>2. j - i - 1 \in Nat /\ k - 1 \in Nat
          BY <2>1
        <4> QED BY <4>1, <4>2
      <3> QED BY <3>1
    <2>2. InitialSpeed \in Nat /\ InitialSpeed < p
      BY <1>3
    <2>3. InitialSpeed * s \in Nat /\ InitialSpeed * s + s <= p * s /\ p <= p * s
      BY <1>2, <2>1, <2>2
    <2> QED BY <1>1, <1>2, <2>3
  <1>5. receivedSpeed \in IntMin..-IntMin - 1 /\ receivedSpeed >= 0
    BY <1>2, <1>4 DEF Init, IntMin, s, m
  <1>6. TypeOK
    <2>1. speed \in 0..2 ^ Width - 1 /\ target \in 0..2 ^ Width - 1
      BY <1>2, <1>3, <1>4 DEF Init
    <2>2. 0 \in 0..Period - 1 /\ 0 \in 0..TimerWrap - 1 /\ 0 \in 0..Period
          /\ 0 \in 0..MaxHeld
      BY PeriodFact DEF MaxHeld
    <2>3. pc \in {"loop", "store", "low", "high", "direction"} /\ direction \in {0, 1}
          /\ boost \in {-1, 0, 1, 2} /\ pwmCnt = 0 /\ tcnt1 = 0 /\ boostCnt = 0 /\ on = 0
          /\ held = 0
      BY DEF Init
    <2>4. /\ enabled \in BOOLEAN /\ fw \in BOOLEAN /\ rw \in BOOLEAN
          /\ retimed \in BOOLEAN /\ interrupted \in BOOLEAN
      BY DEF Init
    <2> QED BY <1>5, <2>1, <2>2, <2>3, <2>4 DEF TypeOK
  <1>7. DirectionInv
    BY <1>2, <1>5 DEF Init, DirectionInv, TypeOK, IntMin, m
  <1> QED BY <1>6, <1>7 DEF Init, Inv, PulseWithinSpeed, BoostTimed

(* A speed fits its sixteen bits, whatever the overflow yields. *)
LEMMA TargetFact ==
  ASSUME NEW v \in IntMin..-IntMin - 1
  PROVE  TargetSpeeds(v) \subseteq 0..2 ^ Width - 1
  <1> DEFINE s == 2 ^ Shift
             m == 2 ^ (Width - 1)
             w == 2 ^ Width
  <1>1. s \in Nat \ {0} /\ m \in Nat \ {0} /\ w = 2 * m
    BY WidthFact
  <1>2. v \in -m..m - 1 /\ IntMin = -m
    BY <1>1 DEF IntMin
  <1> HIDE DEF s, m, w
  <1>3. ASSUME NEW n \in Nat
        PROVE  n \div s \in 0..n /\ (n # 0 => (-n) \div s \in -n..-1)
    BY <1>1, QuotientFact
  <1>4. m \div s \in 0..w - 1 /\ w + ((-m) \div s) \in 0..w - 1
    <2> DEFINE q == (-m) \div s
    <2>1. m \div s \in 0..m /\ q \in -m..-1
      BY <1>1, <1>3
    <2> HIDE DEF q
    <2>2. m \div s \in 0..w - 1 /\ w + q \in 0..w - 1
      BY <1>1, <2>1
    <2> QED BY <2>2 DEF q
  <1>5. CASE v >= 0
    <2>1. v \div s \in 0..w - 1
      BY <1>1, <1>2, <1>3, <1>5
    <2> QED BY <1>5, <2>1 DEF TargetSpeeds, s, w
  <1>6. CASE v < 0 /\ v = IntMin
    <2>1. ~(v >= 0) /\ IntMin = -m /\ -IntMin = m
      BY <1>1, <1>2, <1>6
    <2>2. TargetSpeeds(v) = { m \div s, w + ((-m) \div s) }
      BY <1>6, <2>1 DEF TargetSpeeds, Negated, s, w
    <2> QED BY <1>4, <2>2 DEF w
  <1>7. CASE v < 0 /\ v # IntMin
    <2>1. ~(v >= 0) /\ (-v) \div s \in 0..w - 1
      BY <1>1, <1>2, <1>3, <1>7
    <2> QED BY <1>7, <2>1 DEF TargetSpeeds, Negated, s, w
  <1> QED BY <1>2, <1>5, <1>6, <1>7

(* What the arithmetic of the properties needs of the ranges. *)
LEMMA IntFact ==
  ASSUME TypeOK
  PROVE  speed \in Nat /\ target \in Nat /\ receivedSpeed \in Int
  BY WidthFact DEF TypeOK, IntMin

LEMMA MessageInv ==
  ASSUME Inv, NEW v \in Speeds \cup {receivedSpeed}, NEW b \in BOOLEAN, Message(v, b)
  PROVE  Inv'
  <1>1. v \in IntMin..-IntMin - 1
    BY MotorAssumption DEF Inv, TypeOK
  <1>2. target' \in 0..2 ^ Width - 1
    BY <1>1, TargetFact DEF Message
  <1>3. boost' \in {-1, 0, 1, 2} /\ (boost' = 2 => boost = 2) /\ (boost' # 2 => boost # 2)
    BY DEF Message, Inv, TypeOK
  <1>4. TypeOK'
    BY <1>1, <1>2, <1>3 DEF Message, Inv, TypeOK, pins
  <1> QED BY <1>3, <1>4
          DEF Message, Inv, DirectionInv, PulseWithinSpeed, BoostTimed, Elapsed, pins

(* Either byte of a speed may be new or old: it still has sixteen bits. *)
LEMMA BytesFact ==
  ASSUME NEW t \in 0..2 ^ Width - 1, NEW s \in 0..2 ^ Width - 1
  PROVE  (t \div LowByte) * LowByte + (s % LowByte) \in 0..2 ^ Width - 1
  <1> DEFINE b == LowByte
             w == 2 ^ Width
             q == t \div b
             h == w \div b
             r == s % b
  <1>1. b \in Nat \ {0} /\ w \in Nat /\ w % b = 0
    BY PowerFact, MotorAssumption
  <1>2. t \in 0..w - 1 /\ s \in 0..w - 1
    OBVIOUS
  <1> HIDE DEF b, w
  <1>3. t \in Nat /\ s \in Nat
    BY <1>1, <1>2
  <1>4. q \in Nat /\ h \in Nat /\ r \in 0..b - 1 /\ w = h * b /\ q * b <= t
    <2>1. q \in Nat /\ q * b <= t
      BY ONLY <1>1, <1>3, QuotientFact, Zenon
    <2>2. h \in Nat /\ w = h * b
      BY ONLY <1>1, QuotientFact, Zenon
    <2>3. r \in 0..b - 1
      BY ONLY <1>1, <1>3, QuotientFact, Zenon
    <2> QED BY <2>1, <2>2, <2>3
  <1> HIDE DEF q, h, r
  <1>5. q < h
    <2> SUFFICES ASSUME q >= h PROVE FALSE
      BY <1>4
    <2>1. (q - h) * b \in Nat
      <3>1. \A x, y \in Nat : x * y \in Nat
        OBVIOUS
      <3>2. q - h \in Nat
        BY <1>4
      <3> QED BY <1>1, <3>1, <3>2
    <2>2. q * b >= h * b
      BY <1>1, <1>4, <2>1
    <2> QED BY <1>1, <1>2, <1>4, <2>2
  <1>6. q * b + b <= w /\ q * b \in Nat
    <2>1. \A x, y \in Nat : x * y \in Nat
      OBVIOUS
    <2>2. h - q - 1 \in Nat
      BY <1>4, <1>5
    <2>3. (h - q - 1) * b \in Nat /\ q * b \in Nat
      BY <1>1, <1>4, <2>1, <2>2
    <2> QED BY <1>1, <1>4, <2>3
  <1>7. q * b + r \in 0..w - 1
    BY <1>1, <1>4, <1>6
  <1> QED BY <1>7 DEF q, r, b, w

LEMMA StoreSpeedInv ==
  ASSUME Inv, StoreSpeed
  PROVE  Inv'
  <1>1. speed' \in 0..2 ^ Width - 1
    BY BytesFact DEF StoreSpeed, StoreHigh, StoreLow, Inv, TypeOK
  <1>2. retimed' = (retimed \/ speed' # speed) /\ retimed' \in BOOLEAN
    BY DEF StoreSpeed, StoreHigh, StoreLow, Retime, Inv, TypeOK
  <1>3. /\ pc' \in {"low", "high", "direction"}
        /\ UNCHANGED <<direction, receivedSpeed, target, pwmCnt, boostCnt, boost, tcnt1, pins, on,
                       held, interrupted>>
    BY DEF StoreSpeed, StoreHigh, StoreLow
  <1>4. TypeOK'
    BY <1>1, <1>2, <1>3 DEF Inv, TypeOK, pins
  <1>5. PulseWithinSpeed'
    <2>1. CASE retimed'
      BY <2>1 DEF PulseWithinSpeed
    <2>2. CASE ~retimed'
      BY <1>2, <1>3, <2>2 DEF Inv, PulseWithinSpeed, pins
    <2> QED BY <2>1, <2>2
  <1> QED BY <1>3, <1>4, <1>5 DEF Inv, DirectionInv, BoostTimed, Elapsed, pins

LEMMA StoreDirectionInv ==
  ASSUME Inv, StoreDirection
  PROVE  Inv'
  <1>1. TypeOK'
    BY DEF StoreDirection, Inv, TypeOK, pins
  <1>2. DirectionInv'
    BY DEF StoreDirection, Inv, TypeOK, DirectionInv
  <1> QED BY <1>1, <1>2 DEF StoreDirection, Inv, PulseWithinSpeed, BoostTimed, Elapsed, pins

LEMMA BoostDoneInv ==
  ASSUME Inv, BoostDone
  PROVE  Inv'
  BY DEF BoostDone, Inv, TypeOK, DirectionInv, PulseWithinSpeed, BoostTimed, main, pins

-----------------------------------------------------------------------------
(* TIMER0_OVF_vect.                                                        *)

LEMMA PinsFact ==
  ASSUME Inv, Drive \/ Release \/ UNCHANGED pins
  PROVE  enabled' \in BOOLEAN /\ fw' \in BOOLEAN /\ rw' \in BOOLEAN
  BY DEF Drive, Release, pins, Inv, TypeOK

LEMMA OverflowFact ==
  ASSUME Inv, Overflow
  PROVE  /\ UNCHANGED <<speed, target, receivedSpeed, pc, direction>> /\ DirectionInv'
         /\ tcnt1' \in 0..TimerWrap - 1 /\ tcnt1' = (tcnt1 + 2) % TimerWrap
         /\ interrupted' \in BOOLEAN
  <1>1. tcnt1' = (tcnt1 + 2) % TimerWrap
    BY DEF Overflow, TicksPerOverflow
  <1>2. tcnt1' \in 0..TimerWrap - 1
    BY <1>1, ElapsedFact DEF Inv, TypeOK
  <1>3. interrupted' \in BOOLEAN
    BY DEF Overflow
  <1> QED BY <1>1, <1>2, <1>3 DEF Overflow, main, Inv, DirectionInv

LEMMA StartBoostInv ==
  ASSUME Inv, StartBoost
  PROVE  Inv'
  <1>1. Overflow /\ boost' = 2 /\ boostCnt' = tcnt1 /\ enabled' = TRUE /\ held' = 0
        /\ UNCHANGED <<pwmCnt, retimed>>
    BY DEF StartBoost, Drive
  <1>2. TypeOK'
    <2>1. on' \in 0..Period
      BY PeriodFact DEF StartBoost
    <2>2. enabled' \in BOOLEAN /\ fw' \in BOOLEAN /\ rw' \in BOOLEAN
      BY PinsFact DEF StartBoost
    <2>3. held' \in 0..MaxHeld
      BY <1>1, PeriodFact DEF MaxHeld
    <2> QED BY <1>1, <2>1, <2>2, <2>3, OverflowFact DEF Inv, TypeOK
  <1>3. BoostTimed'
    <2>1. (tcnt1' - boostCnt') % TimerWrap = 2
      BY <1>1, OverflowFact, ElapsedFact DEF Inv, TypeOK
    <2> QED BY <1>1, <2>1, PeriodFact DEF BoostTimed, Elapsed, TicksPerOverflow
  <1> QED BY <1>1, <1>2, <1>3, OverflowFact DEF Inv, PulseWithinSpeed

(* The interrupt counts what the timer says. *)
LEMMA HoldFact ==
  ASSUME Inv, boost = 2, Hold
  PROVE  /\ held' = held + 1 /\ held' \in 0..MaxHeld
         /\ Elapsed = TicksPerOverflow * held'
         /\ TicksPerOverflow * held <= BoostTicks
  BY PeriodFact DEF Inv, TypeOK, BoostTimed, Hold, MaxHeld, TicksPerOverflow

LEMMA HoldBoostInv ==
  ASSUME Inv, HoldBoost
  PROVE  Inv'
  <1>1. Overflow /\ boost = 2 /\ ~BoostOver /\ Hold
        /\ UNCHANGED <<pwmCnt, boostCnt, boost, enabled, fw, rw, on, retimed>>
    BY DEF HoldBoost, pins
  <1>2. TypeOK'
    BY <1>1, OverflowFact, HoldFact DEF Inv, TypeOK
  <1>3. BoostTimed'
    <2>1. (tcnt1 - boostCnt) % TimerWrap <= BoostTicks
      BY <1>1, ElapsedFact, PeriodFact DEF BoostOver, Elapsed, Inv, TypeOK
    <2>2. (tcnt1' - boostCnt') % TimerWrap = ((tcnt1 - boostCnt) % TimerWrap) + 2
      BY <1>1, <2>1, OverflowFact, ElapsedFact DEF Inv, TypeOK
    <2>3. Elapsed' = Elapsed + 2 /\ Elapsed <= BoostTicks
      BY <2>1, <2>2 DEF Elapsed
    <2>4. Elapsed = TicksPerOverflow * held' /\ held' \in 0..MaxHeld
      BY <1>1, HoldFact
    <2>5. Elapsed' = TicksPerOverflow * (held' + 1) /\ TicksPerOverflow * held' <= BoostTicks
      <3> DEFINE e == Elapsed
                 f == Elapsed'
                 h == held'
      <3>1. f = e + 2 /\ e <= BoostTicks
        BY <2>3
      <3>2. h \in 0..BoostTicks + 1 /\ e = 2 * h
        BY <2>4 DEF MaxHeld, TicksPerOverflow
      <3> HIDE DEF e, f, h
      <3>3. f = 2 * (h + 1) /\ 2 * h <= BoostTicks
        BY <3>1, <3>2, PeriodFact
      <3> QED BY <3>3 DEF e, f, h, TicksPerOverflow
    <2>6. enabled'
      BY <1>1 DEF Inv, BoostTimed
    <2> QED BY <2>5, <2>6 DEF BoostTimed
  <1> QED BY <1>1, <1>2, <1>3, OverflowFact DEF Inv, PulseWithinSpeed

LEMMA StopBoostInv ==
  ASSUME Inv, StopBoost
  PROVE  Inv'
  <1>1. Overflow /\ boost = 2 /\ Hold
        /\ boost' = -1 /\ enabled' = FALSE /\ pwmCnt' = Period \div 2 - 1
        /\ fw' = FALSE /\ rw' = FALSE /\ UNCHANGED <<boostCnt, on, retimed>>
    BY DEF StopBoost, Release
  <1>2. pwmCnt' \in 0..Period - 1
    BY <1>1, PeriodFact
  <1>3. TypeOK'
    BY <1>1, <1>2, OverflowFact, HoldFact DEF Inv, TypeOK
  <1> QED BY <1>1, <1>3, OverflowFact DEF Inv, PulseWithinSpeed, BoostTimed

LEMMA PwmInv ==
  ASSUME Inv, Pwm
  PROVE  Inv'
  <1>1. Overflow /\ boost <= 0 /\ boost' = boost /\ boostCnt' = boostCnt /\ held' = held
        /\ pwmCnt' = (pwmCnt + 1) % Period /\ (retimed' <=> retimed /\ pwmCnt # 0)
        /\ retimed' \in BOOLEAN
    BY DEF Pwm, Count
  <1>2. pwmCnt \in 0..Period - 1 /\ speed \in Nat /\ boost \in {-1, 0, 1, 2} /\ enabled \in BOOLEAN
    BY DEF Inv, TypeOK
  <1>3. pwmCnt' \in 0..Period - 1 /\ (pwmCnt + 1 < Period => pwmCnt' = pwmCnt + 1)
    <2> DEFINE n == pwmCnt + 1
    <2>1. n \in Int /\ (n < Period => n \in 0..Period - 1) /\ Period \in Nat \ {0} /\ pwmCnt' = n % Period
      BY <1>1, <1>2, PeriodFact
    <2> HIDE DEF n
    <2>2. pwmCnt' \in 0..Period - 1 /\ (n < Period => pwmCnt' = n)
      BY <2>1, ModFact
    <2> QED BY <2>2 DEF n
  <1>4. /\ enabled' \in BOOLEAN
        /\ pwmCnt = speed => ~enabled'
        /\ pwmCnt # speed /\ pwmCnt # 0 => enabled' = enabled
    BY <1>2 DEF Pwm, Switch, Release, Drive, pins
  <1>5. TypeOK'
    <2>1. on' \in 0..Period
      BY PeriodFact DEF Pwm, Count, Inv, TypeOK
    <2>2. enabled' \in BOOLEAN /\ fw' \in BOOLEAN /\ rw' \in BOOLEAN
      BY PinsFact DEF Pwm, Switch
    <2> QED BY <1>1, <1>3, <2>1, <2>2, OverflowFact DEF Inv, TypeOK
  <1>6. PulseWithinSpeed'
    <2> SUFFICES ASSUME enabled', ~retimed', speed < Period
                 PROVE  pwmCnt' \in 1..speed
      BY <1>1, OverflowFact DEF PulseWithinSpeed
    <2>1. CASE pwmCnt = 0
      BY <1>2, <1>3, <1>4, <2>1, PeriodFact
    <2>2. CASE pwmCnt # 0
      <3>1. pwmCnt # speed /\ boost # 2
        BY <1>1, <1>2, <1>4
      <3>2. ~retimed
        BY <1>1, <2>2
      <3>3. enabled
        BY <1>4, <2>2, <3>1
      <3>4. pwmCnt \in 1..speed
        BY <3>1, <3>2, <3>3 DEF Inv, PulseWithinSpeed
      <3> QED BY <1>2, <1>3, <3>1, <3>4, PeriodFact
    <2> QED BY <2>1, <2>2
  <1>7. BoostTimed'
    BY <1>1, <1>2 DEF BoostTimed
  <1> QED BY <1>1, <1>5, <1>6, <1>7, OverflowFact DEF Inv

-----------------------------------------------------------------------------
LEMMA NextInv ==
  ASSUME Inv, [Next]_vars
  PROVE  Inv'
  <1>1. CASE UNCHANGED vars
    BY <1>1 DEF vars, Inv, TypeOK, DirectionInv, PulseWithinSpeed, BoostTimed, Elapsed
  <1>2. CASE Next
    BY <1>2, MessageInv, StoreSpeedInv, StoreDirectionInv, BoostDoneInv, StartBoostInv,
       HoldBoostInv, StopBoostInv, PwmInv DEF Next, MainStep, TIMER0_OVF, Receive
  <1> QED BY <1>1, <1>2

(* What every state of the motor's controller satisfies. *)
THEOREM Invariant == Spec => []Inv
  <1>1. Inv /\ [Next]_vars => Inv'
    BY NextInv
  <1> QED BY InitInv, <1>1, PTL DEF Spec

(* No variable leaves its width: neither half of a speed that is stored in *)
(* two, nor the smallest int, which has no opposite (motor.c, main).       *)
THEOREM TypeCorrect == Spec => []TypeOK
  <1>1. Inv => TypeOK
    BY DEF Inv
  <1> QED BY Invariant, <1>1, PTL

(* In a period whose speed is not changed the pulse is not longer than the *)
(* speed, whatever boost or pulse came before (TIMER0_OVF_vect).           *)
THEOREM PulsesAreRight == Spec => []PulseWithinSpeed
  <1>1. Inv => PulseWithinSpeed
    BY DEF Inv
  <1> QED BY Invariant, <1>1, PTL

(* A boost drives the motor for BoostTicks, and one interrupt period more  *)
(* at most: at any phase of the wrapping timer (motor.c:159), and whatever *)
(* messages arrive meanwhile.                                              *)
THEOREM BoostsLast == Spec => BoostLasts
  <1> DEFINE Lasts ==
        boost = 2 =>
          /\ enabled
          /\ IF boost' = 2
               THEN TicksPerOverflow * held' <= BoostTicks
               ELSE TicksPerOverflow * held' \in BoostTicks + 1..BoostTicks + TicksPerOverflow
  <1>1. ASSUME Inv, Inv', [Next]_vars
        PROVE  [Lasts]_vars
    <2> SUFFICES ASSUME boost = 2, ~UNCHANGED vars
                 PROVE  Lasts
      OBVIOUS
    <2>1. enabled
      BY <1>1 DEF Inv, BoostTimed
    <2>2. CASE boost' = 2
      BY <1>1, <2>1, <2>2 DEF Inv, BoostTimed
    <2>3. CASE boost' # 2
      <3>1. StopBoost
        <4>1. ~MainStep /\ ~Receive
          BY <2>3 DEF MainStep, StoreSpeed, StoreDirection, BoostDone, Receive, Message
        <4>2. ~StartBoost /\ ~HoldBoost /\ ~Pwm
          BY <2>3 DEF StartBoost, HoldBoost, Pwm
        <4> QED BY <1>1, <4>1, <4>2 DEF Next, TIMER0_OVF
      <3>2. Hold /\ Elapsed > BoostTicks
        BY <3>1 DEF StopBoost, BoostOver
      <3>3. /\ held' = held + 1 /\ held' \in 0..MaxHeld
            /\ Elapsed = TicksPerOverflow * held'
            /\ TicksPerOverflow * held <= BoostTicks
        BY <1>1, <3>2, HoldFact
      <3>4. TicksPerOverflow * held' \in BoostTicks + 1..BoostTicks + TicksPerOverflow
        BY <1>1, <3>2, <3>3, PeriodFact DEF Inv, TypeOK, MaxHeld, TicksPerOverflow
      <3> QED BY <2>1, <2>3, <3>4
    <2> QED BY <2>2, <2>3
  <1>2. Inv /\ Inv' /\ [Next]_vars => [Lasts]_vars
    BY <1>1
  <1> HIDE DEF Lasts
  <1>3. Spec => [][Lasts]_vars
    BY Invariant, <1>2, PTL DEF Spec
  <1> QED BY <1>3 DEF Lasts, BoostLasts

(* A pulse that starts between messages goes the way of the sign of the    *)
(* speed last received, although the direction is stored after the speed.  *)
THEOREM PulsesGoTheRightWay == Spec => PulseFollowsSign
  <1> DEFINE Follows == ~enabled /\ enabled' /\ pc = "loop" =>
                          IF receivedSpeed < 0 THEN fw' /\ ~rw' ELSE rw' /\ ~fw'
  <1>1. ASSUME Inv, [Next]_vars
        PROVE  [Follows]_vars
    <2>1. CASE UNCHANGED vars
      BY <2>1
    <2>2. CASE MainStep \/ Receive
      BY <2>2 DEF MainStep, Receive, StoreSpeed, StoreHigh, StoreLow, StoreDirection, BoostDone, Message, pins
    <2>3. CASE TIMER0_OVF
      <3>1. ~enabled /\ enabled' => (fw' <=> direction = 1) /\ (rw' <=> direction = 0)
        BY <2>3 DEF TIMER0_OVF, StartBoost, HoldBoost, StopBoost, Pwm, Switch, Drive, Release, pins
      <3>2. pc = "loop" => direction = IF receivedSpeed < 0 THEN 1 ELSE 0
        BY <1>1 DEF Inv, DirectionInv
      <3> QED BY <3>1, <3>2
    <2> QED BY <1>1, <2>1, <2>2, <2>3 DEF Next
  <1> QED BY Invariant, <1>1, PTL DEF Spec, PulseFollowsSign
=============================================================================
