--------------------------------- MODULE Device ---------------------------------
(***************************************************************************)
(* The main loop every radio-controlled device runs (avr/spotlight,        *)
(* avr/motor, avr/strobe-controller): take a packet the receive interrupt  *)
(* announced, apply it, re-initialise a radio that has been silent for     *)
(* about 6 s, and broadcast the state about once a second.                 *)
(*                                                                         *)
(* Timing.  A packet takes 450 us from CE high to its interrupt, a Timer 2 *)
(* tick 33 ms, and one pass of the loop a few tens of us; so a reception   *)
(* becomes possible, and ticks pass, only while the loop idles, waits for  *)
(* a transmission or sits in a delay.  INT0 precedes the next step of the  *)
(* loop, but for one instruction that may slip in before it (slack).       *)
(***************************************************************************)
EXTENDS Radio

CONSTANTS Message,       \* contents addressed to this device
          Other,         \* any packet the device ignores
          NotifyTicks,   \* notify_cnt limit (28)
          ResetTicks,    \* nrf_reset_cnt limit (180)
          TickWrap,      \* the tick counters wrap here (256 and 65536)
          Breakages,     \* the sets of registers the chip may lose at once
          MaxBreakages   \* times it does so in a behaviour

None == "none"   \* no packet taken, no message applied

ASSUME DeviceAssumption ==
  /\ Other \notin Message /\ None \notin Message
  /\ NotifyTicks \in Nat /\ ResetTicks \in Nat
  /\ TickWrap \in Nat /\ TickWrap > ResetTicks + 1 /\ TickWrap > NotifyTicks + 1
  /\ Breakages \subseteq SUBSET Register /\ MaxBreakages \in Nat

VARIABLES
  chip,
  pc,             \* where the main loop is
  written,        \* registers written since rf_init began or raised CE
  newPacket,      \* packets announced by the interrupt and not yet taken
  register,       \* the CPU register newPacket-- works in
  packet,         \* what Radio_Receive returned
  applied,        \* the last message applied
  nrf_reset_cnt, notify_cnt,
  slack,          \* an instruction may still slip in before INT0
  latest,         \* the last message the chip accepted and did not lose
  breakages,
  disturbed       \* the last rf_init ran with the radio enabled

ghosts == <<breakages, disturbed>>
counters == <<nrf_reset_cnt, notify_cnt>>
vars == <<chip, pc, written, newPacket, register, packet, applied, nrf_reset_cnt,
          notify_cnt, slack, latest, breakages, disturbed>>

Packet == Message \cup {Other}

Init ==
  /\ chip = Configured
  /\ pc = "loop" /\ written = 0 /\ newPacket = 0 /\ register = 0
  /\ packet = None /\ applied = None
  /\ nrf_reset_cnt = 0 /\ notify_cnt = 0
  /\ slack = FALSE /\ latest = None /\ breakages = 0 /\ disturbed = FALSE

-----------------------------------------------------------------------------
(* Time and the chip.                                                      *)

Idle == pc = "loop" /\ newPacket = 0
        /\ nrf_reset_cnt <= ResetTicks /\ notify_cnt <= NotifyTicks

TimePasses == Idle \/ (pc = "wait" /\ chip.lock) \/ pc \in {"delay", "power"}

Settle ==
  /\ TimePasses /\ CanSettle(chip)
  /\ chip' = Settled(chip)
  /\ UNCHANGED <<pc, written, newPacket, register, packet, applied, counters, slack, latest, ghosts>>

Arrive(p) ==
  /\ CanReceive(chip)
  /\ chip' = Received(chip, p)
  /\ slack' = TRUE
  /\ latest' = IF p = Other THEN latest ELSE p
  /\ UNCHANGED <<pc, written, newPacket, register, packet, applied, counters, ghosts>>

TxDone ==
  /\ pc = "wait"
  /\ \/ CanTransmit(chip) /\ chip' = Transmitted(chip)
     \/ CanFail(chip) /\ chip' = Failed(chip)
  /\ slack' = TRUE
  /\ UNCHANGED <<pc, written, newPacket, register, packet, applied, counters, latest, ghosts>>

Break(how) ==
  /\ breakages < MaxBreakages
  /\ breakages' = breakages + 1
  /\ ~Irq(chip)
  /\ chip' = Broken(chip, how)
  /\ UNCHANGED <<pc, written, newPacket, register, packet, applied, counters, slack, latest, disturbed>>

(* TIMER2_OVF_vect.  A pass, a transmission or a re-initialisation is     *)
(* shorter than a tick, so a tick during one might as well follow it; only *)
(* waiting for a mute chip lasts for many.                                 *)
Tick ==
  /\ Idle \/ (pc = "wait" /\ Mute(chip))
  /\ ~Irq(chip)
  /\ nrf_reset_cnt' = (nrf_reset_cnt + 1) % TickWrap
  /\ notify_cnt' = (notify_cnt + 1) % TickWrap
  /\ UNCHANGED <<chip, pc, written, newPacket, register, packet, applied, slack, latest, ghosts>>

(* rf_init writes the registers one by one.  Elsewhere an interrupt cannot *)
(* come inside an SPI transfer: CE is low, and one due before precedes it. *)
Configuring == pc \in {"config", "pipes"}

Writes == IF pc = "config" THEN configure_registers ELSE Pipes
Current == Writes[written + 1]

NextWrite ==
  IF written + 1 < Len(Writes)
  THEN written' = written + 1 /\ UNCHANGED pc
  ELSE written' = 0 /\ pc' = IF pc = "config" THEN "power" ELSE "initialised"

radio_rxhandler == newPacket' = newPacket + 1 /\ nrf_reset_cnt' = 0

Unannounced == UNCHANGED <<newPacket, nrf_reset_cnt>>

Serve ==
  /\ chip' = Serviced(chip)
  /\ IF chip.rx_dr THEN radio_rxhandler ELSE Unannounced
  /\ UNCHANGED <<pc, written, breakages>>

(* The interrupt's SPI transfers come inside one of rf_init's and end it:  *)
(* the register may be skipped or overwritten, the status misread, the     *)
(* flag not cleared.                                                       *)
Garble ==
  /\ Configuring
  /\ breakages < MaxBreakages /\ breakages' = breakages + 1
  /\ \E spoilt \in SUBSET {Current, "STATUS"} :
       chip' = Broken(Serviced(chip), spoilt \cap Register)
  /\ radio_rxhandler \/ Unannounced
  /\ NextWrite \/ UNCHANGED <<pc, written>>

(* INT0_vect. *)
INT0 ==
  /\ Irq(chip)
  /\ Serve \/ Garble
  /\ slack' = FALSE
  /\ UNCHANGED <<register, packet, applied, notify_cnt, latest, disturbed>>

-----------------------------------------------------------------------------
(* The main loop.  Cpu: a step of a few instructions; Spi: one that needs  *)
(* more time than an interrupt leaves it.                                  *)

Spi == ~Irq(chip) /\ UNCHANGED slack
Cpu == (Irq(chip) => slack) /\ slack' = FALSE

(* A mistake: taking a packet without looking whether there is one. *)
LookUnchecked ==
  /\ pc = "loop" /\ Cpu
  /\ \/ register' = newPacket /\ pc' = "decrement"
     \/ newPacket = 0 /\ ~Idle /\ pc' = "watchdog" /\ UNCHANGED register
  /\ UNCHANGED <<chip, written, newPacket, packet, applied, counters, latest, ghosts>>

(* One pass with nothing to do changes nothing. *)
Look ==
  /\ pc = "loop" /\ Cpu
  /\ \/ newPacket > 0 /\ register' = newPacket /\ pc' = "decrement"
     \/ newPacket = 0 /\ ~Idle /\ pc' = "watchdog" /\ UNCHANGED register
  /\ UNCHANGED <<chip, written, newPacket, packet, applied, counters, latest, ghosts>>

(* newPacket--: the register goes back to memory and is not used again. *)
Decrement ==
  /\ pc = "decrement" /\ Cpu
  /\ newPacket' = register - 1 /\ register' = 0
  /\ pc' = "receive"
  /\ UNCHANGED <<chip, written, packet, applied, counters, latest, ghosts>>

Radio_Receive ==
  \/ /\ pc = "receive" /\ Cpu
     /\ chip' = BeginReceive(chip)
     /\ pc' = "read" /\ UNCHANGED packet
  \/ /\ pc = "read" /\ Spi
     /\ packet' = IF chip.rx = <<>> THEN None ELSE Head(chip.rx)
     /\ chip' = UnloadPayload(chip)
     /\ pc' = "enable"
  \/ /\ pc = "enable" /\ Cpu
     /\ chip' = EndReceive(chip)
     /\ pc' = "apply" /\ UNCHANGED packet

Receive ==
  /\ Radio_Receive
  /\ UNCHANGED <<written, newPacket, register, applied, counters, latest, ghosts>>

(* A message for this device takes effect; anything else is ignored.  The  *)
(* buffer is not looked at again before the next packet is in it.          *)
Apply ==
  /\ pc = "apply" /\ Cpu
  /\ applied' = IF packet \in Message THEN packet ELSE applied
  /\ packet' = None
  /\ pc' = "watchdog"
  /\ UNCHANGED <<chip, written, newPacket, register, counters, latest, ghosts>>

Watchdog ==
  /\ pc = "watchdog" /\ Cpu
  /\ pc' = IF nrf_reset_cnt > ResetTicks THEN "init" ELSE "notify"
  /\ UNCHANGED <<chip, written, newPacket, register, packet, applied, counters, latest, ghosts>>

(* rf_init; what is flushed with the FIFO is lost. *)
Radio_Init ==
  \/ /\ pc = "init" /\ Cpu
     /\ chip' = BeginInit(chip)
     /\ pc' = "delay" /\ UNCHANGED disturbed
  \/ /\ pc = "delay" /\ Spi
     /\ disturbed' = chip.ce
     /\ pc' = "config" /\ UNCHANGED chip
  \/ /\ pc = "power" /\ Cpu
     /\ chip' = EndInit(chip)
     /\ pc' = "pipes" /\ UNCHANGED disturbed

Configure ==
  /\ Configuring /\ Spi
  /\ chip' = IF pc = "config" THEN ConfigureRegister(chip, Current)
                              ELSE SetRegister(chip, Current)
  /\ NextWrite
  /\ latest' = IF Current = "FLUSH_RX" /\ chip.rx # <<>> THEN applied ELSE latest

Reinitialise ==
  /\ (Radio_Init /\ UNCHANGED <<written, latest>>) \/ (Configure /\ UNCHANGED disturbed)
  /\ UNCHANGED <<newPacket, register, packet, applied, counters, breakages>>

Reinitialised ==
  /\ pc = "initialised" /\ Cpu
  /\ nrf_reset_cnt' = 0
  /\ pc' = "notify"
  /\ UNCHANGED <<chip, written, newPacket, register, packet, applied, notify_cnt, latest, ghosts>>

Notify ==
  /\ pc = "notify" /\ Cpu
  /\ pc' = IF notify_cnt > NotifyTicks THEN "transmit" ELSE "loop"
  /\ UNCHANGED <<chip, written, newPacket, register, packet, applied, counters, latest, ghosts>>

Radio_Transmit ==
  \/ pc = "transmit" /\ Cpu /\ chip' = BeginTransmit(chip) /\ pc' = "write"
  \/ pc = "write" /\ Spi /\ chip' = LoadPayload(chip, Other) /\ pc' = "start"
  \/ pc = "start" /\ Cpu /\ chip' = StartTransmit(chip) /\ pc' = "wait"

SendNotify ==
  /\ Radio_Transmit
  /\ UNCHANGED <<written, newPacket, register, packet, applied, counters, latest, ghosts>>

(* Mistakes: a notification resets newPacket, or the watchdog, as well.    *)
NotifiedForgetsPackets ==
  /\ pc = "wait" /\ Spi /\ ~chip.lock
  /\ notify_cnt' = 0 /\ newPacket' = 0
  /\ pc' = "loop"
  /\ UNCHANGED <<chip, written, register, packet, applied, nrf_reset_cnt, latest, ghosts>>

NotifiedFeedsWatchdog ==
  /\ pc = "wait" /\ Spi /\ ~chip.lock
  /\ notify_cnt' = 0 /\ nrf_reset_cnt' = 0
  /\ pc' = "loop"
  /\ UNCHANGED <<chip, written, newPacket, register, packet, applied, latest, ghosts>>

(* while (transmit_lock); *)
Notified ==
  /\ pc = "wait" /\ Spi /\ ~chip.lock
  /\ notify_cnt' = 0
  /\ pc' = "loop"
  /\ UNCHANGED <<chip, written, newPacket, register, packet, applied, nrf_reset_cnt, latest, ghosts>>

-----------------------------------------------------------------------------
Main == Look \/ Decrement \/ Receive \/ Apply \/ Watchdog \/ Reinitialise
        \/ Reinitialised \/ Notify \/ SendNotify \/ Notified

Next == \/ Main \/ INT0 \/ Tick \/ Settle \/ TxDone
        \/ \E p \in Packet : Arrive(p)
        \/ \E how \in Breakages : Break(how)

(* The processor runs, interrupts are served, the timer ticks, and a chip  *)
(* that is not mute ends a transmission.  Nothing is assumed of the   *)
(* air: packets may never arrive.                                          *)
Spec == /\ Init /\ [][Next]_vars
        /\ WF_vars(Main) /\ WF_vars(INT0) /\ WF_vars(Tick) /\ WF_vars(TxDone)

-----------------------------------------------------------------------------
TypeOK ==
  /\ chip \in ChipType(Packet)
  /\ Len(chip.rx) <= FifoSize /\ Len(chip.tx) <= 1
  /\ pc \in {"loop", "decrement", "receive", "read", "enable", "apply", "watchdog",
             "init", "delay", "config", "power", "pipes", "initialised", "notify",
             "transmit", "write", "start", "wait"}
  /\ written \in Nat /\ IF Configuring THEN written < Len(Writes) ELSE written = 0
  /\ newPacket \in Nat /\ register \in Nat
  /\ packet \in Packet \cup {None} /\ applied \in Message \cup {None}
  /\ latest \in Message \cup {None}
  /\ nrf_reset_cnt \in 0..TickWrap - 1 /\ notify_cnt \in 0..TickWrap - 1
  /\ slack \in BOOLEAN /\ breakages \in 0..MaxBreakages /\ disturbed \in BOOLEAN

Quiet == Idle /\ ~Irq(chip)

(* No packet is left behind in the FIFO: although newPacket-- is no atomic *)
(* instruction and races the interrupt's newPacket++, a device that has    *)
(* nothing left to do has applied the last message its radio accepted.     *)
(* (A re-initialisation the interrupt cut into is the exception: its CE    *)
(* high lets packets in while radio.c:231 has it disabled.)                *)
UpToDate == Quiet /\ ~disturbed => chip.rx = <<>> /\ applied = latest

(* An idle device listens: neither the interrupt's mode switch nor a       *)
(* transmission or re-initialisation it cut into leaves the radio disabled *)
(* or in transmit mode.                                                    *)
Listening == Quiet => chip.ce /\ chip.prim_rx /\ chip.tx = <<>> /\ ~chip.lock

(* sendNotify's busy wait ends, sent or given up, unless the chip stays    *)
(* mute: what an interrupt inside a re-initialisation may make of it.      *)
TransmitEnds == pc = "wait" ~> (pc = "loop" \/ []Mute(chip))

(* A radio that lost registers hears again eventually: the watchdog's      *)
(* counter, which receptions and rf_init reset and which wraps, repairs it *)
(* wherever the loss came, in the middle of rf_init as well.               *)
DeafRecovers == Deaf(chip) ~> (~Deaf(chip) \/ []Mute(chip))

(* spotlight.c:193, "sometimes it seems that the nrf-chip crashes, so we   *)
(* re-initialise it": a broken radio works again eventually.               *)
RadioRecovers == Deaf(chip) ~> ~Deaf(chip)
=============================================================================
