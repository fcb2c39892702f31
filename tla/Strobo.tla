--------------------------------- MODULE Strobo ---------------------------------
(***************************************************************************)
(* The strobe controller (avr/strobe-controller/strobo.c): strobeLen is    *)
(* set by messages and by a quadrature encoder, whose interrupt counts     *)
(* edges that the main loop collects for three ticks of Timer 2 and turns  *)
(* into exponential steps; Timer 1 is programmed from it.  Integers are    *)
(* those of the CPU: int and strobeLen have Width bits, encPos has         *)
(* CountWidth.  Radio, watchdog and notification are in module Device.     *)
(***************************************************************************)
EXTENDS Integers

CONSTANTS Width,        \* bits of int and of strobeLen (16)
          CountWidth,   \* bits of encPos (8)
          PULSELEN, OFFSET, InitialOffset,  \* 1, 0x1ff and 0xff
          InitialLen,   \* 0x2fff
          Lengths       \* the lengths a message may carry

Top == 2 ^ Width - 1
Longest == Top - OFFSET - PULSELEN   \* from here on the timer is off

ASSUME StroboAssumption ==
  /\ Width \in Nat \ {0} /\ CountWidth \in Nat \ {0, 1}
  /\ PULSELEN \in Nat /\ OFFSET \in Nat /\ InitialOffset \in Nat
  /\ InitialLen \in 0..Longest - 1 /\ InitialLen + PULSELEN + InitialOffset <= Top
  /\ Lengths \subseteq 0..Top

VARIABLES
  strobeLen, strobeSet,
  encPos, encoder_collect_cnt,
  knob,       \* the position of the knob, as its two contacts code it
  pc,         \* where the main loop is
  ICR1, running,  \* Timer 1: its top value, and whether a prescaler is selected
  beyond      \* TCNT1 is past ICR1 and has the whole 16 bits to count

encoder == <<encPos, encoder_collect_cnt, knob>>
timer == <<ICR1, running, beyond>>
vars == <<strobeLen, strobeSet, encPos, encoder_collect_cnt, knob, pc, ICR1, running, beyond>>

Init ==
  /\ strobeLen = InitialLen /\ strobeSet = FALSE
  /\ encPos = 0 /\ encoder_collect_cnt = 0 /\ knob \in 0..3
  /\ pc = "loop"
  /\ ICR1 = InitialLen + PULSELEN + InitialOffset /\ running = TRUE /\ beyond = FALSE

(* A value in a signed variable of w bits. *)
Signed(v, w) == ((v + 2 ^ (w - 1)) % 2 ^ w) - 2 ^ (w - 1)

-----------------------------------------------------------------------------
(* Interrupts.                                                             *)

(* The knob moves by an edge, or by two while interrupts are off;          *)
(* PCINT1_vect counts a position next to the one encPos stands for.        *)
Turn(by) ==
  /\ knob' = (knob + by) % 4
  /\ encPos' = CASE (encPos + 1) % 4 = knob' -> Signed(encPos + 1, CountWidth)
                 [] (encPos - 1) % 4 = knob' -> Signed(encPos - 1, CountWidth)
                 [] OTHER -> encPos
  /\ UNCHANGED <<strobeLen, strobeSet, encoder_collect_cnt, pc, timer>>

(* Only whether the count exceeds 2 matters; the loop looks at it many     *)
(* times before it wraps at 256.                                           *)
Tick ==
  /\ encoder_collect_cnt < 3
  /\ encoder_collect_cnt' = encoder_collect_cnt + 1
  /\ UNCHANGED <<strobeLen, strobeSet, encPos, knob, pc, timer>>

-----------------------------------------------------------------------------
(* The main loop.                                                          *)

Message(len) ==
  /\ pc = "loop"
  /\ strobeLen' = len /\ strobeSet' = TRUE
  /\ pc' = "encoder"
  /\ UNCHANGED <<encoder, timer>>

(* A pass without a message; one with nothing to do changes nothing. *)
Pass ==
  /\ pc = "loop" /\ encoder_collect_cnt > 2
  /\ pc' = "encoder"
  /\ UNCHANGED <<strobeLen, strobeSet, encoder, timer>>

Steps == encPos \div 4   \* encPos>>2

TestEncoder ==
  /\ pc = "encoder"
  /\ IF encoder_collect_cnt > 2 /\ Steps # 0
       THEN pc' = "apply" /\ UNCHANGED encoder_collect_cnt
       ELSE /\ pc' = "timer"
            /\ encoder_collect_cnt' = IF encoder_collect_cnt > 2 THEN 0 ELSE encoder_collect_cnt
  /\ UNCHANGED <<strobeLen, strobeSet, encPos, knob, timer>>

(* 4<<(encPos>>2) is an int and wraps; the smallest int may be negated as  *)
(* an int or in the 32 bits it is assigned to.                             *)
Power(n) == Signed(4 * 2 ^ n, Width)

Changes ==
  IF Steps >= 0 THEN { Power(Steps) }
                ELSE { -Power(-Steps), Signed(-Power(-Steps), Width) }

(* Mistakes: no limit at all; the sum is cut to 16 bits before the test.   *)
UnclampedLen(len) == len
WrappedLen(len) == len % 2 ^ Width

Clamped(len) == IF len > Top THEN Top ELSE IF len < 0 THEN 0 ELSE len

(* A mistake: the edges that have been used stay in the count. *)
ApplyEncoderAgain ==
  /\ pc = "apply"
  /\ \E change \in Changes : strobeLen' = Clamped(strobeLen + change)
  /\ strobeSet' = TRUE /\ encoder_collect_cnt' = 0
  /\ pc' = "timer"
  /\ UNCHANGED <<encPos, knob, timer>>

(* Steps is computed again under cli(): it may have become 0 meanwhile.    *)
ApplyEncoder ==
  /\ pc = "apply"
  /\ \E change \in Changes : strobeLen' = Clamped(strobeLen + change)
  /\ encPos' = encPos - Steps
  /\ strobeSet' = TRUE /\ encoder_collect_cnt' = 0
  /\ pc' = "timer"
  /\ UNCHANGED <<knob, timer>>

Off == strobeLen >= Longest

SwitchOff ==
  /\ pc = "timer" /\ strobeSet /\ Off
  /\ strobeSet' = FALSE
  /\ running' = FALSE
  /\ pc' = "loop"
  /\ UNCHANGED <<strobeLen, encoder, ICR1, beyond>>

(* A lower top value may fall below the running counter. *)
SetTop ==
  /\ pc = "timer" /\ strobeSet /\ ~Off
  /\ strobeSet' = FALSE
  /\ ICR1' = strobeLen + PULSELEN + OFFSET
  /\ beyond' \in IF ICR1' < ICR1 THEN BOOLEAN ELSE {beyond}
  /\ pc' = "restart"
  /\ UNCHANGED <<strobeLen, encoder, running>>

KeepTimer ==
  /\ pc = "timer" /\ ~strobeSet
  /\ pc' = "loop"
  /\ UNCHANGED <<strobeLen, strobeSet, encoder, timer>>

(* Mistakes: the counter is not looked at; a stopped timer is not started. *)
RestartUnchecked ==
  /\ pc = "restart"
  /\ running' = TRUE /\ pc' = "loop"
  /\ UNCHANGED <<strobeLen, strobeSet, encoder, ICR1, beyond>>

RestartStopped ==
  /\ pc = "restart"
  /\ beyond' = FALSE /\ pc' = "loop"
  /\ UNCHANGED <<strobeLen, strobeSet, encoder, ICR1, running>>

(* if (TCNT1>=ICR1) TCNT1=0; *)
Restart ==
  /\ pc = "restart"
  /\ beyond' = FALSE /\ running' = TRUE
  /\ pc' = "loop"
  /\ UNCHANGED <<strobeLen, strobeSet, encoder, ICR1>>

-----------------------------------------------------------------------------
Main == \/ Pass \/ TestEncoder \/ ApplyEncoder
        \/ SwitchOff \/ SetTop \/ Restart \/ KeepTimer

Turned == \E by \in {-1, 1, 2} : Turn(by)

Next == Main \/ Tick \/ Turned \/ \E len \in Lengths : Message(len)

(* The loop runs and Timer 2 ticks; nobody need touch the knob.            *)
Spec == Init /\ [][Next]_vars /\ WF_vars(Main) /\ WF_vars(Tick)

-----------------------------------------------------------------------------
TypeOK ==
  /\ strobeLen \in 0..Top /\ strobeSet \in BOOLEAN
  /\ encPos \in -(2 ^ (CountWidth - 1))..2 ^ (CountWidth - 1) - 1
  /\ encoder_collect_cnt \in 0..3 /\ knob \in 0..3
  /\ pc \in {"loop", "encoder", "apply", "timer", "restart"}
  /\ ICR1 \in 0..Top /\ running \in BOOLEAN /\ beyond \in BOOLEAN

(* What the loop comes back from is the strobe that strobeLen asks for,    *)
(* whoever changed it last: off from Longest on, otherwise running with    *)
(* that period (the first one is OFFSET - InitialOffset shorter).          *)
TimerFollows ==
  pc = "loop" =>
    IF Off THEN ~running
           ELSE running /\ ICR1 - strobeLen - PULSELEN \in {OFFSET, InitialOffset}

(* The strobe never goes dark for a whole round of the 16-bit counter: the *)
(* loop leaves no counter running beyond its top value.                    *)
NeverDark == pc = "loop" => ~beyond

(* A turn of the knob never moves the length the other way, nor around the *)
(* end of its range (as long as 4<<n fits an int: 13 steps in the three    *)
(* ticks of a collection do not).                                          *)
TurnsSaturate ==
  [][ApplyEncoder => /\ Steps \in 1..Width - 4 => strobeLen' >= strobeLen
                     /\ Steps \in -(Width - 4)..-1 => strobeLen' <= strobeLen]_vars

(* A knob at rest comes to an end: what is left in encPos is used up, and  *)
(* the length stops changing by itself.                                    *)
KnobRests == <>[][~Turned]_vars => <>[](Steps = 0)
=============================================================================
