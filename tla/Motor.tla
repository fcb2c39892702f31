--------------------------------- MODULE Motor ---------------------------------
(***************************************************************************)
(* The mirror-ball motor controller (avr/motor/motor.c): the main loop     *)
(* applies the messages the radio delivers while the Timer 0 overflow      *)
(* interrupt runs a very slow software PWM and the boost.  Interrupts may  *)
(* fall between any two stores of the main loop, and the 16-bit speed is   *)
(* two stores.  Radio and watchdog are in module Device.                   *)
(***************************************************************************)
EXTENDS Integers

CONSTANTS Width,       \* bits of int and uint16_t (16)
          Shift,       \* receivedSpeed >> Shift is the speed (6)
          Period,      \* ticks of one PWM period (0x07ff + 1)
          LowByte,     \* values of the low byte of speed (256)
          TimerWrap,   \* values of TCNT1 (65536)
          BoostTicks,  \* boost duration in TCNT1 ticks (7000)
          InitialSpeed,
          Speeds       \* the values a message may carry for sink 1

(* Timer 0 overflows every 2048 cycles, TCNT1 counts every 1024: exactly   *)
(* two per interrupt.                                                      *)
TicksPerOverflow == 2

IntMin == -(2 ^ (Width - 1))

ASSUME MotorAssumption ==
  /\ Width \in Nat /\ Shift \in Nat /\ Width > Shift + 1
  /\ Period = 4 * 2 ^ (Width - 1 - Shift)
  /\ LowByte \in Nat \ {0} /\ 2 ^ Width % LowByte = 0
  /\ TimerWrap \in Nat /\ TimerWrap > BoostTicks + TicksPerOverflow
  /\ BoostTicks \in Nat
  /\ InitialSpeed \in 0..Period \div 4 - 1
  /\ Speeds \subseteq IntMin..-IntMin - 1

VARIABLES
  direction, speed, receivedSpeed, pwmCnt, boostCnt, boost,
  tcnt1,
  enabled, fw, rw,   \* the H-bridge pins
  pc,                \* where the main loop is
  target,            \* speed as computed, before it is stored
  on,                \* interrupts the current PWM pulse has lasted
  held,              \* interrupts since the last boost began, up to its end
  retimed,           \* speed has changed since the period began
  interrupted        \* Timer 0 has struck during the current update

pins == <<enabled, fw, rw>>
main == <<direction, speed, receivedSpeed, pc, target>>
vars == <<direction, speed, receivedSpeed, pwmCnt, boostCnt, boost, tcnt1,
          enabled, fw, rw, pc, target, on, held, retimed, interrupted>>

Init ==
  /\ direction = 0 /\ speed = InitialSpeed
  /\ receivedSpeed = InitialSpeed * 2 ^ Shift
  /\ pwmCnt = 0 /\ boostCnt = 0 /\ boost = 0
  /\ tcnt1 = 0
  /\ enabled = FALSE /\ fw = FALSE /\ rw = FALSE
  /\ pc = "loop" /\ target = InitialSpeed
  /\ on = 0 /\ held = 0 /\ retimed = FALSE /\ interrupted = FALSE

-----------------------------------------------------------------------------
(* The main loop.                                                          *)

(* receivedSpeed*-1 overflows int for the smallest value: the compiler may *)
(* shift it as the wrapped (negative) or as a positive number.             *)
Negated(v) ==
  IF v = IntMin
    THEN { (-IntMin) \div 2 ^ Shift, 2 ^ Width + (IntMin \div 2 ^ Shift) }
    ELSE { (-v) \div 2 ^ Shift }

TargetSpeeds(v) == IF v >= 0 THEN { v \div 2 ^ Shift } ELSE Negated(v)

(* A mistake: the wish for a boost cuts one under way short. *)
MessageRestartsBoost(v, wantsBoost) ==
  /\ pc = "loop"
  /\ receivedSpeed' = v
  /\ boost' = IF wantsBoost THEN 1 ELSE boost
  /\ target' \in TargetSpeeds(v)
  /\ pc' = "store" /\ interrupted' = FALSE
  /\ UNCHANGED <<direction, speed, pwmCnt, boostCnt, tcnt1, pins, on, held, retimed>>

(* A message for this device: perhaps a speed, perhaps a boost, and always *)
(* a fresh computation of the speed.                                       *)
Message(v, wantsBoost) ==
  /\ pc = "loop"
  /\ receivedSpeed' = v
  /\ boost' = IF wantsBoost /\ boost <= 0 THEN 1 ELSE boost
  /\ target' \in TargetSpeeds(v)
  /\ pc' = "store" /\ interrupted' = FALSE
  /\ UNCHANGED <<direction, speed, pwmCnt, boostCnt, tcnt1, pins, on, held, retimed>>

Retime == retimed' = (retimed \/ speed' # speed)

(* The two bytes of speed, in the order the compiler chose. *)
StoreHigh(next) ==
  /\ speed' = (target \div LowByte) * LowByte + (speed % LowByte)
  /\ pc' = next /\ Retime

StoreLow(next) ==
  /\ speed' = (speed \div LowByte) * LowByte + (target % LowByte)
  /\ pc' = next /\ Retime

StoreSpeed ==
  /\ \/ pc = "store" /\ (StoreHigh("low") \/ StoreLow("high"))
     \/ pc = "low" /\ StoreLow("direction")
     \/ pc = "high" /\ StoreHigh("direction")
  /\ UNCHANGED <<direction, receivedSpeed, target, pwmCnt, boostCnt, boost, tcnt1, pins, on, held,
                 interrupted>>

(* A mistake: the way back is never taken. *)
StoreDirectionOneWay ==
  /\ pc = "direction"
  /\ direction' = IF receivedSpeed >= 0 THEN direction ELSE 1
  /\ pc' = "loop"
  /\ UNCHANGED <<speed, receivedSpeed, target, pwmCnt, boostCnt, boost, tcnt1, pins, on, held,
                 retimed, interrupted>>

StoreDirection ==
  /\ pc = "direction"
  /\ direction' = IF receivedSpeed >= 0 THEN 0 ELSE 1
  /\ pc' = "loop"
  /\ UNCHANGED <<speed, receivedSpeed, target, pwmCnt, boostCnt, boost, tcnt1, pins, on, held,
                 retimed, interrupted>>

(* The boost is over. *)
BoostDone ==
  /\ pc = "loop" /\ boost = -1
  /\ boost' = 0
  /\ UNCHANGED <<main, pwmCnt, boostCnt, tcnt1, pins, on, held, retimed, interrupted>>

-----------------------------------------------------------------------------
(* TIMER0_OVF_vect.  It strikes every 256 us and an update takes a few:    *)
(* at most once during one.                                                *)

Drive ==
  /\ enabled' = TRUE
  /\ fw' = (direction = 1)
  /\ rw' = (direction = 0)

Release == enabled' = FALSE /\ fw' = FALSE /\ rw' = FALSE

Elapsed == (tcnt1 - boostCnt) % TimerWrap

(* Mistakes: a timer that has wrapped is taken for a time that is over; the *)
(* difference compared for equality although it advances by two.           *)
BoostOverAtWrap == tcnt1 < boostCnt \/ tcnt1 - boostCnt > BoostTicks

BoostOverExactly == (tcnt1 - boostCnt) % TimerWrap = BoostTicks

BoostOver == Elapsed > BoostTicks

Overflow ==
  /\ pc # "loop" => ~interrupted
  /\ interrupted' = (pc # "loop")
  /\ tcnt1' = (tcnt1 + TicksPerOverflow) % TimerWrap
  /\ UNCHANGED main

StartBoost ==
  /\ Overflow /\ boost = 1
  /\ Drive
  /\ boostCnt' = tcnt1 /\ boost' = 2
  /\ on' = 0 /\ held' = 0
  /\ UNCHANGED <<pwmCnt, retimed>>

MaxHeld == BoostTicks + 1   \* the count stops here, beyond what the properties allow

Hold == held' = IF held < MaxHeld THEN held + 1 ELSE held

HoldBoost ==
  /\ Overflow /\ boost = 2 /\ ~BoostOver
  /\ Hold
  /\ UNCHANGED <<pwmCnt, boostCnt, boost, pins, on, retimed>>

StopBoost ==
  /\ Overflow /\ boost = 2 /\ BoostOver
  /\ Release /\ Hold
  /\ boost' = -1 /\ pwmCnt' = Period \div 2 - 1
  /\ UNCHANGED <<boostCnt, on, retimed>>

Switch(off) ==
  IF off THEN Release ELSE IF pwmCnt = 0 THEN Drive ELSE UNCHANGED pins

Count ==
  /\ on' = IF ~enabled' THEN 0 ELSE IF on < Period THEN on + 1 ELSE on
  /\ retimed' = (retimed /\ pwmCnt # 0)
  /\ UNCHANGED <<boostCnt, boost, held>>

(* Mistakes: no wrap of the counter; one tick too long; a standing motor   *)
(* is never switched off.                                                  *)
PwmUnwrapped ==
  /\ Overflow /\ boost <= 0
  /\ Switch(pwmCnt = speed)
  /\ pwmCnt' = pwmCnt + 1 /\ Count

PwmTooLong ==
  /\ Overflow /\ boost <= 0
  /\ Switch(pwmCnt = speed + 1)
  /\ pwmCnt' = (pwmCnt + 1) % Period /\ Count

PwmIgnoresZero ==
  /\ Overflow /\ boost <= 0
  /\ IF speed = 0 THEN UNCHANGED pins ELSE Switch(pwmCnt = speed)
  /\ pwmCnt' = (pwmCnt + 1) % Period /\ Count

Pwm ==
  /\ Overflow /\ boost <= 0
  /\ Switch(pwmCnt = speed)
  /\ pwmCnt' = (pwmCnt + 1) % Period /\ Count

TIMER0_OVF == StartBoost \/ HoldBoost \/ StopBoost \/ Pwm

-----------------------------------------------------------------------------
MainStep == StoreSpeed \/ StoreDirection \/ BoostDone

Receive == \E v \in Speeds \cup {receivedSpeed}, b \in BOOLEAN : Message(v, b)

Next == MainStep \/ TIMER0_OVF \/ Receive

(* Timer 0 never stops, and the main loop keeps running between messages.  *)
Spec == Init /\ [][Next]_vars /\ WF_vars(TIMER0_OVF) /\ WF_vars(MainStep)

-----------------------------------------------------------------------------
TypeOK ==
  /\ direction \in {0, 1}
  /\ speed \in 0..2 ^ Width - 1 /\ target \in 0..2 ^ Width - 1
  /\ receivedSpeed \in IntMin..-IntMin - 1
  /\ pwmCnt \in 0..Period - 1
  /\ tcnt1 \in 0..TimerWrap - 1 /\ boostCnt \in 0..TimerWrap - 1
  /\ boost \in {-1, 0, 1, 2}
  /\ enabled \in BOOLEAN /\ fw \in BOOLEAN /\ rw \in BOOLEAN
  /\ pc \in {"loop", "store", "low", "high", "direction"}
  /\ on \in 0..Period /\ held \in 0..MaxHeld /\ retimed \in BOOLEAN /\ interrupted \in BOOLEAN

(* In a period whose speed is not changed the motor is never on past the   *)
(* speed's share of it, whatever boost or old pulse came before (a speed   *)
(* out of the overflow of Negated exceeds the period: always on).          *)
PulseWithinSpeed ==
  enabled /\ boost # 2 /\ ~retimed /\ speed < Period => pwmCnt \in 1..speed

(* A pulse or boost that starts between messages goes the way last asked   *)
(* for, although speed and direction are stored one after the other.       *)
PulseFollowsSign ==
  [][ ~enabled /\ enabled' /\ pc = "loop" =>
        IF receivedSpeed < 0 THEN fw' /\ ~rw' ELSE rw' /\ ~fw' ]_vars

(* A boost drives the motor for its time, counted in interrupts, and one   *)
(* interrupt period more at most: neither the wrap of the timer it is      *)
(* measured with, nor a message, which may ask for another boost, cuts it  *)
(* short or prolongs it.                                                   *)
BoostLasts ==
  [][ boost = 2 =>
        /\ enabled
        /\ IF boost' = 2
             THEN TicksPerOverflow * held' <= BoostTicks
             ELSE TicksPerOverflow * held' \in BoostTicks + 1..BoostTicks + TicksPerOverflow ]_vars

(* Every boost ends. *)
BoostEnds == boost > 0 ~> boost <= 0

(* A motor told to stand still, and not boosted again, comes to rest, in   *)
(* whatever phase of the PWM the zero arrives.                             *)
StandsStill ==
  <>[](speed = 0 /\ boost <= 0) => <>[]~enabled

(* motor.c:120, "only use 9 bit (max. duty cycle 1/4)": a PWM pulse never  *)
(* lasts longer than a quarter of the period.                              *)
QuarterDuty == on <= Period \div 4
=============================================================================
