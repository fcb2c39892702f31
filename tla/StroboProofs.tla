------------------------------ MODULE StroboProofs ------------------------------
(***************************************************************************)
(* For any widths, offsets and lengths: every variable keeps its width,    *)
(* the timer follows the length, the strobe never goes dark for a round of *)
(* the counter, and a turn of the knob never moves the length the wrong    *)
(* way.                                                                    *)
(***************************************************************************)
EXTENDS Strobo, FiniteSetTheorems, TLAPS

(* The timer is as the length asks for, or strobeSet says that it is not.  *)
TimerInv ==
  /\ pc = "loop" => ~strobeSet
  /\ ~strobeSet /\ pc # "restart" =>
       IF Off THEN ~running
              ELSE running /\ ICR1 - strobeLen - PULSELEN \in {OFFSET, InitialOffset}
  /\ pc = "restart" => ~strobeSet /\ ~Off /\ ICR1 = strobeLen + PULSELEN + OFFSET
  /\ pc # "restart" => ~beyond

Inv == TypeOK /\ TimerInv

-----------------------------------------------------------------------------
(* Powers of two, as numbers of subsets.                                   *)

LEMMA PowerFact ==
  ASSUME NEW n \in Nat
  PROVE  /\ 2 ^ n \in Nat \ {0}
         /\ IsFiniteSet(SUBSET (1..n)) /\ Cardinality(SUBSET (1..n)) = 2 ^ n
  <1>1. IsFiniteSet(1..n) /\ Cardinality(1..n) = n
    BY FS_Interval
  <1>2. IsFiniteSet(SUBSET (1..n)) /\ Cardinality(SUBSET (1..n)) = 2 ^ n
    BY <1>1, FS_SUBSET
  <1>3. SUBSET (1..n) # {}
    OBVIOUS
  <1> QED BY <1>2, <1>3, FS_EmptySet, FS_CardinalityType

LEMMA PowerGrows ==
  ASSUME NEW m \in Nat, NEW n \in Nat, m <= n
  PROVE  2 ^ m <= 2 ^ n
  <1>1. SUBSET (1..m) \subseteq SUBSET (1..n)
    OBVIOUS
  <1>2. Cardinality(SUBSET (1..m)) <= Cardinality(SUBSET (1..n))
    BY <1>1, PowerFact, FS_Subset
  <1> QED BY <1>2, PowerFact

(* Half of the subsets of 1..n+1 hold n+1, the others do not. *)
LEMMA PowerDoubles ==
  ASSUME NEW n \in Nat
  PROVE  2 ^ (n + 1) = 2 * 2 ^ n
  <1> DEFINE A == SUBSET (1..n)
             B == { s \cup {n + 1} : s \in A }
             f == [s \in A |-> s \cup {n + 1}]
  <1>1. ASSUME NEW s \in A
        PROVE  n + 1 \notin s
    OBVIOUS
  <1>2. f \in Bijection(A, B)
    <2>1. f \in [A -> B]
      OBVIOUS
    <2>2. ASSUME NEW s \in A, NEW t \in A, f[s] = f[t]
          PROVE  s = t
      <3>1. s \cup {n + 1} = t \cup {n + 1}
        BY <2>2
      <3>2. s = (s \cup {n + 1}) \ {n + 1} /\ t = (t \cup {n + 1}) \ {n + 1}
        BY <1>1
      <3> QED BY <3>1, <3>2
    <2>3. ASSUME NEW u \in B
          PROVE  \E s \in A : f[s] = u
      OBVIOUS
    <2> HIDE DEF A, B, f
    <2> QED BY <2>1, <2>2, <2>3 DEF Bijection, Injection, Surjection, IsInjective
  <1>3. IsFiniteSet(A) /\ Cardinality(A) = 2 ^ n /\ 2 ^ n \in Nat
    BY PowerFact
  <1>4. IsFiniteSet(B) /\ Cardinality(B) = 2 ^ n
    <2> HIDE DEF A, B, f
    <2> QED BY <1>2, <1>3, FS_Bijection DEF ExistsBijection
  <1>5. A \cap B = {}
    BY <1>1
  <1>6. A \cup B = SUBSET (1..n + 1)
    <2>1. 1..n + 1 = (1..n) \cup {n + 1}
      OBVIOUS
    <2>2. ASSUME NEW u \in SUBSET (1..n + 1)
          PROVE  u \in A \cup B
      <3>1. CASE n + 1 \in u
        <4>1. u \ {n + 1} \in A /\ u = (u \ {n + 1}) \cup {n + 1}
          BY <2>1, <3>1
        <4> QED BY <4>1
      <3>2. CASE n + 1 \notin u
        BY <2>1, <3>2
      <3> QED BY <3>1, <3>2
    <2>3. A \cup B \subseteq SUBSET (1..n + 1)
      BY <2>1
    <2> QED BY <2>2, <2>3
  <1>7. Cardinality(SUBSET (1..n + 1)) = 2 ^ (n + 1)
    BY PowerFact
  <1>8. Cardinality(A \cup B) = Cardinality(A) + Cardinality(B) - Cardinality(A \cap B)
    <2> HIDE DEF A, B
    <2> QED BY <1>3, <1>4, FS_Union
  <1>9. Cardinality({}) = 0
    BY FS_EmptySet
  <1> HIDE DEF A, B
  <1>10. 2 ^ (n + 1) = 2 ^ n + 2 ^ n - 0
    BY ONLY <1>3, <1>4, <1>5, <1>6, <1>7, <1>8, <1>9
  <1> QED BY <1>3, <1>10

-----------------------------------------------------------------------------
(* Signed numbers, lengths and changes.                                    *)

(* A signed variable holds its range and leaves a value within it alone. *)
LEMMA SignedFact ==
  ASSUME NEW v \in Int, NEW w \in Nat \ {0}
  PROVE  /\ Signed(v, w) \in -(2 ^ (w - 1))..2 ^ (w - 1) - 1
         /\ v \in -(2 ^ (w - 1))..2 ^ (w - 1) - 1 => Signed(v, w) = v
  <1> DEFINE a == 2 ^ (w - 1)
             b == 2 ^ w
  <1>1. a \in Nat \ {0} /\ b = 2 * a
    <2>1. w - 1 \in Nat /\ (w - 1) + 1 = w
      OBVIOUS
    <2>2. 2 ^ ((w - 1) + 1) = 2 * 2 ^ (w - 1)
      BY <2>1, PowerDoubles
    <2> QED BY <2>1, <2>2, PowerFact
  <1>2. Signed(v, w) = ((v + a) % b) - a
    BY DEF Signed
  <1> HIDE DEF a, b
  <1>3. (v + a) % b \in 0..b - 1 /\ (v + a \in 0..b - 1 => (v + a) % b = v + a)
    <2>1. ASSUME NEW x \in Int
          PROVE  x % b \in 0..b - 1 /\ (x \in 0..b - 1 => x % b = x)
      BY <1>1
    <2> QED BY <1>1, <2>1
  <1>4. Signed(v, w) \in -a..a - 1 /\ (v \in -a..a - 1 => Signed(v, w) = v)
    BY <1>1, <1>2, <1>3
  <1> QED BY <1>4 DEF a

LEMMA TopFact ==
  Top \in Nat /\ PULSELEN \in Nat /\ OFFSET \in Nat /\ InitialOffset \in Nat
  BY PowerFact, StroboAssumption DEF Top

(* The limit is within the range and keeps the order. *)
LEMMA ClampedFact ==
  ASSUME NEW len \in Int
  PROVE  /\ Clamped(len) \in 0..Top
         /\ \A l \in 0..Top : (len >= l => Clamped(len) >= l) /\ (len <= l => Clamped(len) <= l)
  BY TopFact DEF Clamped

(* Using up whole steps moves the count towards zero. *)
LEMMA StepsFact ==
  ASSUME encPos \in Int
  PROVE  /\ Steps \in Int
         /\ encPos >= 0 => encPos - Steps \in 0..encPos
         /\ encPos < 0 => encPos - Steps \in encPos..0
  BY DEF Steps

(* A turn changes the length by an integer, wrapped or not ...             *)
LEMMA ChangesFact ==
  ASSUME encPos \in Int
  PROVE  Changes \subseteq Int
  <1>1. ASSUME NEW v \in Int
        PROVE  Signed(v, Width) \in Int
    <2>1. Width - 1 \in Nat /\ 2 ^ (Width - 1) \in Nat
      <3>1. Width - 1 \in Nat
        BY StroboAssumption
      <3> QED BY <3>1, PowerFact
    <2> DEFINE a == 2 ^ (Width - 1)
    <2>2. Signed(v, Width) \in -a..a - 1 /\ a \in Nat
      BY <2>1, SignedFact, StroboAssumption
    <2> HIDE DEF a
    <2> QED BY <2>2
  <1>2. ASSUME NEW n \in Nat
        PROVE  Power(n) \in Int /\ -Power(n) \in Int /\ Signed(-Power(n), Width) \in Int
    <2>1. 4 * 2 ^ n \in Int
      BY PowerFact
    <2>2. Power(n) \in Int
      BY <1>1, <2>1 DEF Power
    <2>3. -Power(n) \in Int
      BY <2>2
    <2> QED BY <1>1, <2>2, <2>3
  <1>3. CASE Steps >= 0
    BY <1>2, <1>3, StepsFact DEF Changes
  <1>4. CASE ~(Steps >= 0)
    <2>1. -Steps \in Nat
      BY <1>4, StepsFact
    <2> QED BY <1>2, <1>4, <2>1 DEF Changes
  <1> QED BY <1>3, <1>4

(* ... and, while 4<<n fits an int, by exactly that, to the side turned to. *)
LEMMA PowerFits ==
  ASSUME NEW n \in 1..Width - 4
  PROVE  /\ Power(n) = 4 * 2 ^ n
         /\ Signed(-Power(n), Width) = -(4 * 2 ^ n)
         /\ 4 * 2 ^ n \in Nat
  <1> DEFINE a == 2 ^ (Width - 1)
             x == 4 * 2 ^ n
  <1>1. n \in Nat /\ n + 1 \in Nat /\ (n + 1) + 1 \in Nat /\ Width - 1 \in Nat /\ (n + 1) + 1 <= Width - 1
        /\ ((n + 1) + 1) + 1 \in Nat /\ ((n + 1) + 1) + 1 <= Width - 1
    BY StroboAssumption
  <1>2. /\ 2 ^ (n + 1) = 2 * 2 ^ n
        /\ 2 ^ ((n + 1) + 1) = 2 * 2 ^ (n + 1)
        /\ 2 ^ (((n + 1) + 1) + 1) = 2 * 2 ^ ((n + 1) + 1)
    BY <1>1, PowerDoubles
  <1>3. 2 ^ n \in Nat \ {0} /\ a \in Nat
    BY <1>1, PowerFact
  <1>4. 2 ^ (((n + 1) + 1) + 1) <= a
    BY <1>1, PowerGrows
  <1>5. x \in Nat /\ x + x <= a /\ x # 0
    <2> HIDE DEF a
    <2> QED BY <1>2, <1>3, <1>4
  <1> HIDE DEF a, x
  <1>6. x \in -a..a - 1 /\ -x \in -a..a - 1
    BY <1>3, <1>5
  <1>7. Power(n) = Signed(x, Width)
    BY DEF Power, x
  <1>8. ASSUME NEW v \in Int, v \in -a..a - 1
        PROVE  Signed(v, Width) = v
    BY <1>8, SignedFact, StroboAssumption DEF a
  <1>9. Power(n) = x /\ Signed(-x, Width) = -x
    BY <1>5, <1>6, <1>7, <1>8
  <1>10. Power(n) = x /\ Signed(-Power(n), Width) = -x /\ x \in Nat
    BY <1>5, <1>9
  <1> QED BY <1>10 DEF x

LEMMA ChangesSide ==
  ASSUME encPos \in Int
  PROVE  /\ Steps \in 1..Width - 4 => \A change \in Changes : change >= 0
         /\ Steps \in -(Width - 4)..-1 => \A change \in Changes : change <= 0
  <1>1. CASE Steps \in 1..Width - 4
    <2>1. Power(Steps) \in Nat
      BY <1>1, PowerFits
    <2>2. Changes = { Power(Steps) }
      BY <1>1, StroboAssumption DEF Changes
    <2>3. ~(Steps \in -(Width - 4)..-1)
      BY <1>1, StroboAssumption
    <2> QED BY <2>1, <2>2, <2>3
  <1>2. CASE Steps \in -(Width - 4)..-1
    <2>1. -Steps \in 1..Width - 4
      BY <1>2, StroboAssumption
    <2> DEFINE p == Power(-Steps)
               x == 4 * 2 ^ (-Steps)
    <2>2. p = x /\ Signed(-p, Width) = -x /\ x \in Nat
      BY <2>1, PowerFits
    <2>3. Changes = { -p, Signed(-p, Width) }
      BY <1>2, StroboAssumption DEF Changes
    <2>4. ~(Steps \in 1..Width - 4)
      BY <1>2, StroboAssumption
    <2> HIDE DEF p, x
    <2> QED BY <2>2, <2>3, <2>4
  <1> QED BY <1>1, <1>2

-----------------------------------------------------------------------------
(* The initial state.                                                      *)

LEMMA CountFact == 2 ^ (CountWidth - 1) \in Nat \ {0}
  <1>1. CountWidth - 1 \in Nat
    BY StroboAssumption
  <1> QED BY <1>1, PowerFact

LEMMA InitInv == Init => Inv
  <1> SUFFICES ASSUME Init PROVE Inv
    OBVIOUS
  <1>1. InitialLen \in 0..Top /\ InitialLen < Longest
    BY StroboAssumption, TopFact DEF Longest
  <1>2. ~Off
    BY <1>1, StroboAssumption, TopFact DEF Init, Off, Longest
  <1>3. ICR1 \in 0..Top /\ ICR1 - strobeLen - PULSELEN = InitialOffset
    BY <1>1, StroboAssumption, TopFact DEF Init
  <1>4. TypeOK
    <2>1. encPos \in -(2 ^ (CountWidth - 1))..2 ^ (CountWidth - 1) - 1
      BY CountFact DEF Init
    <2>2. strobeSet \in BOOLEAN /\ running \in BOOLEAN /\ beyond \in BOOLEAN
      BY DEF Init
    <2>3. strobeLen \in 0..Top /\ encoder_collect_cnt \in 0..3 /\ knob \in 0..3
      BY <1>1 DEF Init
    <2>4. pc \in {"loop", "encoder", "apply", "timer", "restart"}
      BY DEF Init
    <2> QED BY <1>3, <2>1, <2>2, <2>3, <2>4 DEF TypeOK
  <1>5. TimerInv
    BY <1>2, <1>3 DEF Init, TimerInv
  <1> QED BY <1>4, <1>5 DEF Inv

-----------------------------------------------------------------------------
(* The interrupts.                                                         *)

LEMMA IntFact ==
  ASSUME TypeOK
  PROVE  encPos \in Int /\ strobeLen \in Int /\ ICR1 \in Int
  BY CountFact, TopFact DEF TypeOK

LEMMA TurnInv ==
  ASSUME Inv, NEW by \in {-1, 1, 2}, Turn(by)
  PROVE  Inv'
  <1> DEFINE C == -(2 ^ (CountWidth - 1))..2 ^ (CountWidth - 1) - 1
  <1>1. encPos' \in C
    <2>1. Signed(encPos + 1, CountWidth) \in C /\ Signed(encPos - 1, CountWidth) \in C
      BY SignedFact, IntFact, StroboAssumption DEF Inv
    <2> QED BY <2>1 DEF Turn, Inv, TypeOK
  <1>2. knob' \in 0..3
    BY DEF Turn, Inv, TypeOK
  <1>3. TypeOK'
    BY <1>1, <1>2 DEF Turn, timer, Inv, TypeOK
  <1> QED BY <1>3 DEF Turn, timer, Inv, TimerInv, Off

LEMMA TickInv ==
  ASSUME Inv, Tick
  PROVE  Inv'
  <1>1. encoder_collect_cnt' \in 0..3
    BY DEF Tick, Inv, TypeOK
  <1>2. TypeOK'
    BY <1>1 DEF Tick, timer, Inv, TypeOK
  <1> QED BY <1>2 DEF Tick, timer, Inv, TimerInv, Off

-----------------------------------------------------------------------------
(* The main loop.                                                          *)

LEMMA MessageInv ==
  ASSUME Inv, NEW len \in Lengths, Message(len)
  PROVE  Inv'
  <1>1. len \in 0..Top
    BY StroboAssumption
  <1> QED BY <1>1 DEF Message, encoder, timer, Inv, TypeOK, TimerInv

LEMMA TestInv ==
  ASSUME Inv, Pass \/ TestEncoder
  PROVE  Inv'
  <1>1. encoder_collect_cnt' \in 0..3
    BY DEF Pass, TestEncoder, encoder, Inv, TypeOK
  <1>2. TypeOK'
    BY <1>1 DEF Pass, TestEncoder, encoder, timer, Inv, TypeOK
  <1> QED BY <1>2 DEF Pass, TestEncoder, encoder, timer, Inv, TimerInv, Off

LEMMA ApplyInv ==
  ASSUME Inv, ApplyEncoder
  PROVE  Inv'
  <1> DEFINE c == 2 ^ (CountWidth - 1)
  <1>1. PICK change \in Changes : strobeLen' = Clamped(strobeLen + change)
    BY DEF ApplyEncoder
  <1>2. change \in Int /\ strobeLen \in Int /\ encPos \in Int
    BY ChangesFact, IntFact DEF Inv
  <1>3. strobeLen' \in 0..Top
    BY <1>1, <1>2, ClampedFact
  <1>4. encPos' \in -c..c - 1
    <2>1. encPos \in -c..c - 1 /\ c \in Nat \ {0} /\ encPos' = encPos - Steps
      BY CountFact DEF ApplyEncoder, Inv, TypeOK
    <2> HIDE DEF c
    <2>2. CASE encPos >= 0
      BY <1>2, <2>1, <2>2, StepsFact
    <2>3. CASE encPos < 0
      BY <1>2, <2>1, <2>3, StepsFact
    <2> QED BY <1>2, <2>2, <2>3
  <1>5. TypeOK'
    BY <1>3, <1>4 DEF ApplyEncoder, timer, Inv, TypeOK
  <1> QED BY <1>5 DEF ApplyEncoder, timer, Inv, TimerInv

LEMMA TimerStepInv ==
  ASSUME Inv, SwitchOff \/ SetTop \/ Restart \/ KeepTimer
  PROVE  Inv'
  <1>1. CASE SwitchOff
    BY <1>1 DEF SwitchOff, encoder, Inv, TypeOK, TimerInv, Off
  <1>2. CASE SetTop
    <2>1. ICR1' = strobeLen + PULSELEN + OFFSET /\ ICR1' \in 0..Top
      BY <1>2, TopFact DEF SetTop, Off, Longest, Inv, TypeOK
    <2>2. beyond' \in BOOLEAN
      BY <1>2 DEF SetTop, Inv, TypeOK
    <2>3. pc' = "restart" /\ strobeSet' = FALSE /\ ~Off /\ UNCHANGED <<strobeLen, encoder, running>>
      BY <1>2 DEF SetTop
    <2>4. TypeOK'
      BY <2>1, <2>2, <2>3 DEF encoder, Inv, TypeOK
    <2> QED BY <2>1, <2>3, <2>4 DEF Inv, TimerInv, Off
  <1>3. CASE Restart
    <2>1. ICR1 - strobeLen - PULSELEN = OFFSET /\ ~Off /\ ~strobeSet
      BY <1>3, IntFact, TopFact DEF Restart, Inv, TypeOK, TimerInv
    <2>2. pc' = "loop" /\ beyond' = FALSE /\ running' = TRUE
          /\ UNCHANGED <<strobeLen, strobeSet, encoder, ICR1>>
      BY <1>3 DEF Restart
    <2>3. TypeOK'
      BY <2>2 DEF encoder, Inv, TypeOK
    <2> QED BY <2>1, <2>2, <2>3 DEF Inv, TimerInv, Off
  <1>4. CASE KeepTimer
    BY <1>4 DEF KeepTimer, encoder, timer, Inv, TypeOK, TimerInv, Off
  <1> QED BY <1>1, <1>2, <1>3, <1>4

-----------------------------------------------------------------------------
LEMMA NextInv ==
  ASSUME Inv, [Next]_vars
  PROVE  Inv'
  <1>1. CASE UNCHANGED vars
    BY <1>1 DEF vars, Inv, TypeOK, TimerInv, Off
  <1>2. CASE Next
    BY <1>2, TurnInv, TickInv, MessageInv, TestInv, ApplyInv, TimerStepInv DEF Next, Main, Turned
  <1> QED BY <1>1, <1>2

(* What every state of the strobe controller satisfies. *)
THEOREM Invariant == Spec => []Inv
  <1>1. Inv /\ [Next]_vars => Inv'
    BY NextInv
  <1> QED BY InitInv, <1>1, PTL DEF Spec

(* No counter leaves its width and no store cuts a length short, whatever  *)
(* the exponential steps of the knob overflow to (strobo.c, main).         *)
THEOREM TypeCorrect == Spec => []TypeOK
  <1>1. Inv => TypeOK
    BY DEF Inv
  <1> QED BY Invariant, <1>1, PTL

(* Whoever changed the length last, a message or the knob, the loop comes  *)
(* back with Timer 1 set for it (strobo.c, main).                          *)
THEOREM TimerIsRight == Spec => []TimerFollows
  <1>1. Inv => TimerFollows
    BY DEF Inv, TimerInv, TimerFollows
  <1> QED BY Invariant, <1>1, PTL

(* The counter is never left beyond the top value (strobo.c, TCNT1=0). *)
THEOREM StrobeIsNeverDark == Spec => []NeverDark
  <1>1. Inv => NeverDark
    BY DEF Inv, TimerInv, NeverDark
  <1> QED BY Invariant, <1>1, PTL

(* In any width, as long as 4<<n fits an int, the knob moves the length to *)
(* the side it is turned to and stops at the end of the range.             *)
THEOREM KnobSaturates == Spec => TurnsSaturate
  <1> DEFINE Saturates ==
        ApplyEncoder => /\ Steps \in 1..Width - 4 => strobeLen' >= strobeLen
                        /\ Steps \in -(Width - 4)..-1 => strobeLen' <= strobeLen
  <1>1. ASSUME Inv, [Next]_vars
        PROVE  [Saturates]_vars
    <2> SUFFICES ASSUME ApplyEncoder
                 PROVE  Saturates
      OBVIOUS
    <2>1. PICK change \in Changes : strobeLen' = Clamped(strobeLen + change)
      BY DEF ApplyEncoder
    <2>2. change \in Int /\ strobeLen \in 0..Top /\ strobeLen \in Int /\ encPos \in Int
      BY <1>1, ChangesFact, IntFact DEF Inv, TypeOK
    <2>3. /\ change >= 0 => strobeLen' >= strobeLen
          /\ change <= 0 => strobeLen' <= strobeLen
      BY <2>1, <2>2, ClampedFact
    <2> QED BY <2>2, <2>3, ChangesSide
  <1> QED BY Invariant, <1>1, PTL DEF Spec, TurnsSaturate
=============================================================================
