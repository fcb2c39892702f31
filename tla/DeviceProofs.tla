----------------------------- MODULE DeviceProofs -----------------------------
(***************************************************************************)
(* For every set of messages, FIFO size, counter limit and number of chip  *)
(* failures: a device's main loop is type correct, an idle device has      *)
(* applied the last message its radio accepted, and it listens.            *)
(***************************************************************************)
EXTENDS Device, SequenceTheorems, TLAPS

-----------------------------------------------------------------------------
(* The inductive invariant.                                                *)

(* TypeOK, and the register newPacket-- works in is not decremented from 0. *)
DeviceTypes == TypeOK /\ (pc = "decrement" => register >= 1)

(* Which mode the radio is in, and who may be inside a transmission: the   *)
(* chip transmits from Radio_Transmit's switch to INT0's switch back, its  *)
(* FIFO holds the notification until TX_DS, and nothing is received.       *)
OnAir == pc = "start" \/ (pc = "wait" /\ chip.lock)

ModeInv ==
  /\ chip.prim_rx <=> ~OnAir
  /\ chip.lock => pc \in {"write", "start", "wait"}
  /\ pc \in {"write", "start"} => chip.lock
  /\ OnAir => ~chip.rx_dr /\ ~chip.settled
  /\ IF OnAir /\ ~chip.tx_ds THEN Len(chip.tx) = 1 ELSE chip.tx = <<>>
  /\ chip.tx_ds \/ chip.max_rt => pc = "wait" /\ chip.lock
  /\ chip.settled => chip.ce
  /\ pc \notin {"read", "enable", "delay", "config", "power", "write", "start"}
       => chip.ce

(* The last message is the last one in the FIFO or, if only foreign        *)
(* packets are left there, the one the device has taken or applied.        *)
Base == IF pc \in {"enable", "apply"} /\ packet \in Message THEN packet ELSE applied

Foreign(i) == chip.rx[i] = Other

LatestInv ==
  \/ \E i \in 1..Len(chip.rx) :
       /\ chip.rx[i] = latest /\ latest \in Message
       /\ \A j \in i + 1..Len(chip.rx) : Foreign(j)
  \/ (\A j \in 1..Len(chip.rx) : Foreign(j)) /\ latest = Base

(* newPacket counts the FIFO: the interrupt may come only while nothing is *)
(* announced, so that newPacket-- has nothing to race with, and every      *)
(* packet is announced, being announced, or the one being taken.           *)
Taking == pc \in {"receive", "read"}

CountInv ==
  ~disturbed /\ pc # "delay" =>
    /\ chip.settled \/ chip.rx_dr =>
         newPacket = 0 /\ pc \in {"loop", "watchdog", "notify", "transmit", "init", "write"}
    /\ pc = "write" => ~chip.settled
    /\ pc = "decrement" => register = newPacket
    /\ pc \in {"config", "power"} => ~chip.ce
    /\ pc = "power" => chip.rx = <<>>
    /\ pc # "config" =>
         Len(chip.rx) <= newPacket + (IF Taking THEN 1 ELSE 0)
                                   + (IF chip.rx_dr THEN 1 ELSE 0)

DeviceInv == DeviceTypes /\ ModeInv /\ LatestInv /\ CountInv

-----------------------------------------------------------------------------
(* The chip's fields after the operations of the driver.                   *)

LEMMA ReceivedFact ==
  ASSUME NEW c \in ChipType(Packet), NEW p \in Packet
  PROVE  /\ Received(c, p) \in ChipType(Packet)
         /\ Len(Received(c, p).rx) = Len(c.rx) + 1
         /\ \A i \in 1..Len(c.rx) : Received(c, p).rx[i] = c.rx[i]
         /\ Received(c, p).rx[Len(c.rx) + 1] = p
         /\ Received(c, p).rx_dr
         /\ Received(c, p).ce = c.ce /\ Received(c, p).prim_rx = c.prim_rx
         /\ Received(c, p).settled = c.settled /\ Received(c, p).tx = c.tx
         /\ Received(c, p).tx_ds = c.tx_ds /\ Received(c, p).max_rt = c.max_rt
         /\ Received(c, p).lock = c.lock
  <1> DEFINE rx == Append(c.rx, p)
  <1>1. c.rx \in Seq(Packet)
    BY DEF ChipType
  <1>2. /\ rx \in Seq(Packet)
        /\ Len(rx) = Len(c.rx) + 1
        /\ \A i \in 1..Len(c.rx) : rx[i] = c.rx[i]
        /\ rx[Len(c.rx) + 1] = p
    BY <1>1
  <1>3. Received(c, p) = [c EXCEPT !.rx = rx, !.rx_dr = TRUE]
    BY DEF Received
  <1> HIDE DEF rx
  <1> QED BY <1>2, <1>3 DEF ChipType

(* INT0: the radio is enabled, back in receive mode, with nothing to send  *)
(* and no lock if a transmission ended, and else as it was.                *)
LEMMA ServicedFact ==
  ASSUME NEW c \in ChipType(Packet), c.tx_ds => c.tx = <<>>,
         NEW spoilt \in SUBSET Register, NEW d,
         d = Serviced(c) \/ d = Broken(Serviced(c), spoilt)
  PROVE  /\ d \in ChipType(Packet)
         /\ d.ce /\ ~d.settled /\ ~d.rx_dr /\ ~d.tx_ds /\ ~d.max_rt
         /\ d.rx = c.rx
         /\ c.tx_ds \/ c.max_rt => d.prim_rx /\ ~d.lock /\ d.tx = <<>>
         /\ ~(c.tx_ds \/ c.max_rt) => d.prim_rx = c.prim_rx /\ d.lock = c.lock /\ d.tx = c.tx
  <1> DEFINE none == <<>>
             e == IF c.tx_ds THEN Ended(c) ELSE IF c.max_rt THEN GivenUp(c) ELSE c
  <1>1. none \in Seq(Packet)
    BY EmptySeq
  <1>2. Flush(c, "FLUSH_TX") = [c EXCEPT !.tx = none]
    BY DEF Flush
  <1>3. none = <<>>
    OBVIOUS
  <1> HIDE DEF none
  <1>4. /\ e \in ChipType(Packet) /\ e.rx = c.rx
        /\ c.tx_ds \/ c.max_rt => e.prim_rx /\ ~e.lock /\ e.tx = none
        /\ ~(c.tx_ds \/ c.max_rt) => e = c
    BY <1>1, <1>2, <1>3
       DEF Ended, GivenUp, ResetPipe0Address, SetRegister, SetRxMode, ChipType
  <1>5. Serviced(c) = [e EXCEPT !.ce = TRUE, !.settled = FALSE, !.rx_dr = FALSE,
                                !.tx_ds = FALSE, !.max_rt = FALSE]
    <2> HIDE DEF e
    <2>1. CeHigh([CeLow(e) EXCEPT !.rx_dr = FALSE, !.tx_ds = FALSE, !.max_rt = FALSE])
            = [e EXCEPT !.ce = TRUE, !.settled = FALSE, !.rx_dr = FALSE,
                        !.tx_ds = FALSE, !.max_rt = FALSE]
      BY <1>4 DEF CeHigh, CeLow, ChipType
    <2> QED BY <2>1 DEF Serviced, e
  <1> HIDE DEF e
  <1>6. CASE d = Serviced(c)
    BY <1>3, <1>4, <1>5, <1>6 DEF ChipType
  <1>7. CASE d = Broken(Serviced(c), spoilt)
    BY <1>3, <1>4, <1>5, <1>7 DEF ChipType, Broken
  <1> QED BY <1>6, <1>7

(* What a write of rf_init does to a register. *)
LEMMA RegisterFact ==
  ASSUME NEW c, NEW r
  PROVE  /\ r \in {"FLUSH_TX", "FLUSH_RX"} => ConfigureRegister(c, r) = Flush(c, r)
         /\ r = "STATUS" =>
              ConfigureRegister(c, r) = [SetRegister(c, r) EXCEPT !.rx_dr = FALSE,
                                           !.tx_ds = FALSE, !.max_rt = FALSE]
         /\ r = "CONFIG" =>
              ConfigureRegister(c, r) = [SetRegister(c, r) EXCEPT !.prim_rx = TRUE]
         /\ r \in Interim => ConfigureRegister(c, r) = Broken(c, {r})
         /\ r \notin {"FLUSH_TX", "FLUSH_RX", "STATUS", "CONFIG"} \cup Interim =>
              ConfigureRegister(c, r) = SetRegister(c, r)
  <1>1. CASE r \in {"FLUSH_TX", "FLUSH_RX"}
    BY <1>1 DEF ConfigureRegister, Interim
  <1>2. CASE r = "STATUS"
    BY <1>2 DEF ConfigureRegister, Interim
  <1>3. CASE r = "CONFIG"
    BY <1>3 DEF ConfigureRegister, Interim
  <1>4. CASE r \in Interim
    BY <1>4 DEF ConfigureRegister, Interim
  <1>5. CASE r \notin {"FLUSH_TX", "FLUSH_RX", "STATUS", "CONFIG"} \cup Interim
    BY <1>5 DEF ConfigureRegister, Interim
  <1> QED BY <1>1, <1>2, <1>3, <1>4, <1>5

(* Writing a register neither raises a flag nor leaves receive mode, and   *)
(* keeps the FIFOs unless it flushes them.                                 *)
LEMMA ConfigureFact ==
  ASSUME NEW c \in ChipType(Packet), c.prim_rx, ~Irq(c), NEW r \in Register \cup {"FLUSH_TX", "FLUSH_RX"},
         NEW d, d = ConfigureRegister(c, r) \/ (r \in Register /\ d = SetRegister(c, r))
  PROVE  /\ d \in ChipType(Packet) /\ d.prim_rx /\ ~Irq(d)
         /\ d.ce = c.ce /\ d.settled = c.settled /\ d.lock = c.lock
         /\ IF r = "FLUSH_RX" THEN d.rx = <<>> ELSE d.rx = c.rx
         /\ d.tx = c.tx \/ d.tx = <<>>
  <1> DEFINE none == <<>>
  <1>1. none \in Seq(Packet) /\ none = <<>>
    BY EmptySeq
  <1>2. CASE r \in {"FLUSH_TX", "FLUSH_RX"} /\ d = ConfigureRegister(c, r)
    <2>0. d = Flush(c, r)
      BY <1>2, RegisterFact
    <2>1. d = IF r = "FLUSH_TX" THEN [c EXCEPT !.tx = none] ELSE [c EXCEPT !.rx = none]
      BY <2>0, Zenon DEF Flush
    <2> HIDE DEF none
    <2> QED BY <1>1, <1>2, <2>1 DEF ChipType, Irq
  <1>3. CASE r \in Register
    <2>1. r \notin {"FLUSH_TX", "FLUSH_RX"}
      BY <1>3 DEF Register
    <2>2. CASE d = SetRegister(c, r)
      BY <1>3, <2>1, <2>2 DEF SetRegister, ChipType, Irq
    <2>3. CASE d = Broken(c, {r})
      BY <1>3, <2>1, <2>3 DEF Broken, ChipType, Irq
    <2>4. CASE d = [SetRegister(c, r) EXCEPT !.prim_rx = TRUE]
      BY <1>3, <2>1, <2>4 DEF SetRegister, ChipType, Irq
    <2>5. CASE d = [SetRegister(c, r) EXCEPT !.rx_dr = FALSE, !.tx_ds = FALSE,
                                             !.max_rt = FALSE]
      BY <1>3, <2>1, <2>5 DEF SetRegister, ChipType, Irq
    <2> QED BY <1>3, <2>1, <2>2, <2>3, <2>4, <2>5, RegisterFact
  <1> QED BY <1>2, <1>3 DEF Register

LEMMA UnloadFact ==
  ASSUME NEW c \in ChipType(Packet)
  PROVE  /\ UnloadPayload(c) \in ChipType(Packet)
         /\ c.rx = <<>> => UnloadPayload(c).rx = <<>>
         /\ c.rx # <<>> =>
              /\ Head(c.rx) \in Packet /\ Head(c.rx) = c.rx[1]
              /\ Len(UnloadPayload(c).rx) = Len(c.rx) - 1
              /\ \A i \in 1..Len(c.rx) - 1 : UnloadPayload(c).rx[i] = c.rx[i + 1]
         /\ UnloadPayload(c).ce = c.ce /\ UnloadPayload(c).prim_rx = c.prim_rx
         /\ UnloadPayload(c).settled = c.settled /\ UnloadPayload(c).tx = c.tx
         /\ UnloadPayload(c).rx_dr = c.rx_dr /\ UnloadPayload(c).tx_ds = c.tx_ds
         /\ UnloadPayload(c).max_rt = c.max_rt /\ UnloadPayload(c).lock = c.lock
  <1> DEFINE rest == IF c.rx = <<>> THEN c.rx ELSE Tail(c.rx)
  <1>1. c.rx \in Seq(Packet)
    BY DEF ChipType
  <1>2. rest \in Seq(Packet)
    BY <1>1
  <1>3. c.rx # <<>> =>
              /\ Head(c.rx) \in Packet /\ Head(c.rx) = c.rx[1]
              /\ Len(rest) = Len(c.rx) - 1
              /\ \A i \in 1..Len(c.rx) - 1 : rest[i] = c.rx[i + 1]
    BY <1>1
  <1>4. UnloadPayload(c) = [c EXCEPT !.rx = rest] /\ (c.rx = <<>> => rest = <<>>)
    BY DEF UnloadPayload
  <1> HIDE DEF rest
  <1> QED BY <1>2, <1>3, <1>4 DEF ChipType

LEMMA TransmittedFact ==
  ASSUME NEW c \in ChipType(Packet), Len(c.tx) = 1
  PROVE  /\ Transmitted(c) \in ChipType(Packet)
         /\ Transmitted(c).tx = <<>> /\ Transmitted(c).tx_ds
         /\ Transmitted(c).ce = c.ce /\ Transmitted(c).prim_rx = c.prim_rx
         /\ Transmitted(c).settled = c.settled /\ Transmitted(c).rx = c.rx
         /\ Transmitted(c).rx_dr = c.rx_dr /\ Transmitted(c).max_rt = c.max_rt
         /\ Transmitted(c).lock = c.lock
  <1>1. c.tx \in Seq(Packet)
    BY DEF ChipType
  <1> DEFINE tx == Tail(c.tx)
  <1>2. tx \in Seq(Packet) /\ Len(tx) = 0
    BY <1>1, HeadTailProperties
  <1>3. tx = <<>>
    BY <1>2, EmptySeq
  <1>4. Transmitted(c) = [c EXCEPT !.tx = tx, !.tx_ds = TRUE]
    BY DEF Transmitted
  <1> HIDE DEF tx
  <1> QED BY <1>2, <1>3, <1>4 DEF ChipType

LEMMA LoadFact ==
  ASSUME NEW c \in ChipType(Packet), c.tx = <<>>
  PROVE  /\ LoadPayload(c, Other) \in ChipType(Packet)
         /\ Len(LoadPayload(c, Other).tx) = 1
         /\ ~LoadPayload(c, Other).prim_rx /\ ~LoadPayload(c, Other).settled
         /\ LoadPayload(c, Other).ce = c.ce /\ LoadPayload(c, Other).rx = c.rx
         /\ LoadPayload(c, Other).rx_dr = c.rx_dr /\ LoadPayload(c, Other).tx_ds = c.tx_ds
         /\ LoadPayload(c, Other).max_rt = c.max_rt /\ LoadPayload(c, Other).lock = c.lock
  <1> DEFINE tx == Append(c.tx, Other)
  <1>1. tx = <<Other>> /\ Len(tx) = 1 /\ tx \in Seq(Packet)
    BY DEF Packet
  <1>2. LoadPayload(c, Other) = [c EXCEPT !.prim_rx = FALSE, !.settled = FALSE, !.tx = tx]
    BY DEF LoadPayload, SetTxMode, ChipType
  <1> HIDE DEF tx
  <1> QED BY <1>1, <1>2 DEF ChipType

-----------------------------------------------------------------------------
(* The initial state.                                                      *)

LEMMA InitInv == Init => DeviceInv
  <1> SUFFICES ASSUME Init PROVE DeviceInv
    OBVIOUS
  <1> USE DeviceAssumption, RadioAssumption DEF Init, Configured
  <1>1. DeviceTypes
    <2>1. chip \in ChipType(Packet) /\ Len(chip.rx) = 0 /\ Len(chip.tx) = 0
      BY DEF ChipType
    <2>2. 0 \in 0..TickWrap - 1 /\ 0 \in 0..MaxBreakages /\ 0 <= FifoSize
      OBVIOUS
    <2>3. /\ newPacket \in Nat /\ register \in Nat
          /\ nrf_reset_cnt \in 0..TickWrap - 1 /\ notify_cnt \in 0..TickWrap - 1
          /\ breakages \in 0..MaxBreakages
      BY <2>2
    <2>4. /\ packet \in Packet \cup {None} /\ applied \in Message \cup {None}
          /\ latest \in Message \cup {None}
          /\ slack \in BOOLEAN /\ disturbed \in BOOLEAN
      OBVIOUS
    <2>5. Len(chip.rx) <= FifoSize /\ Len(chip.tx) <= 1
      BY <2>1, <2>2
    <2> QED BY <2>1, <2>3, <2>4, <2>5 DEF DeviceTypes, TypeOK, Configuring, Writes
  <1>2. ModeInv
    BY DEF ModeInv, OnAir
  <1>3. LatestInv
    BY DEF LatestInv, Base
  <1>4. CountInv
    BY DEF CountInv, Taking
  <1> QED BY <1>1, <1>2, <1>3, <1>4 DEF DeviceInv

-----------------------------------------------------------------------------
(* The steps of the main loop that leave the chip alone.                   *)

(* The FIFO, the last message and what the device has of it are as before. *)
LEMMA LatestKept ==
  ASSUME LatestInv, chip'.rx = chip.rx, latest' = latest, Base' = Base
  PROVE  LatestInv'
  BY DEF LatestInv, Foreign

LEMMA LookInv ==
  ASSUME DeviceInv, Look
  PROVE  DeviceInv'
  <1> USE DEF DeviceInv, Look, counters, ghosts, Cpu, Idle
  <1>1. DeviceTypes'
    <2>1. /\ newPacket' \in Nat /\ register' \in Nat
          /\ nrf_reset_cnt' \in 0..TickWrap - 1 /\ notify_cnt' \in 0..TickWrap - 1
          /\ pc' = "decrement" => register' >= 1
      BY DeviceAssumption DEF DeviceTypes, TypeOK, Configuring, Writes
    <2>2. slack' \in BOOLEAN
      BY DEF DeviceTypes, TypeOK, Configuring, Writes
    <2> QED BY <2>1, <2>2 DEF DeviceTypes, TypeOK, Configuring, Writes
  <1>2. ModeInv'
    BY DEF ModeInv, OnAir
  <1>3. LatestInv'
    BY LatestKept DEF Base
  <1>4. CountInv'
    BY DEF CountInv, Taking, DeviceTypes, TypeOK, Configuring, Writes, ModeInv, OnAir, Irq
  <1> QED BY <1>1, <1>2, <1>3, <1>4 DEF DeviceInv

LEMMA DecrementInv ==
  ASSUME DeviceInv, Decrement
  PROVE  DeviceInv'
  <1> USE DEF DeviceInv, Decrement, counters, ghosts, Cpu
  <1>1. DeviceTypes'
    <2>1. /\ newPacket' \in Nat /\ register' \in Nat
          /\ nrf_reset_cnt' \in 0..TickWrap - 1 /\ notify_cnt' \in 0..TickWrap - 1
          /\ pc' = "decrement" => register' >= 1
      BY DeviceAssumption DEF DeviceTypes, TypeOK, Configuring, Writes
    <2>2. slack' \in BOOLEAN
      BY DEF DeviceTypes, TypeOK, Configuring, Writes
    <2> QED BY <2>1, <2>2 DEF DeviceTypes, TypeOK, Configuring, Writes
  <1>2. ModeInv'
    BY DEF ModeInv, OnAir
  <1>3. LatestInv'
    BY LatestKept DEF Base
  <1>4. CountInv'
    BY DEF CountInv, Taking, DeviceTypes, TypeOK, Configuring, Writes, ModeInv, OnAir, Irq
  <1> QED BY <1>1, <1>2, <1>3, <1>4 DEF DeviceInv

LEMMA ApplyInv ==
  ASSUME DeviceInv, Apply
  PROVE  DeviceInv'
  <1> USE DEF DeviceInv, Apply, counters, ghosts, Cpu
  <1>1. DeviceTypes'
    BY DEF DeviceTypes, TypeOK, Configuring, Writes
  <1>2. ModeInv'
    BY DEF ModeInv, OnAir
  <1>3. LatestInv'
    BY LatestKept DEF Base
  <1>4. CountInv'
    BY DEF CountInv, Taking, DeviceTypes, TypeOK, Configuring, Writes, ModeInv, OnAir, Irq
  <1> QED BY <1>1, <1>2, <1>3, <1>4 DEF DeviceInv

LEMMA WatchdogInv ==
  ASSUME DeviceInv, Watchdog
  PROVE  DeviceInv'
  <1> USE DEF DeviceInv, Watchdog, counters, ghosts, Cpu
  <1>1. DeviceTypes'
    BY DEF DeviceTypes, TypeOK, Configuring, Writes
  <1>2. ModeInv'
    BY DEF ModeInv, OnAir
  <1>3. LatestInv'
    BY LatestKept DEF Base
  <1>4. CountInv'
    BY DEF CountInv, Taking, DeviceTypes, TypeOK, Configuring, Writes, ModeInv, OnAir, Irq
  <1> QED BY <1>1, <1>2, <1>3, <1>4 DEF DeviceInv

LEMMA ReinitialisedInv ==
  ASSUME DeviceInv, Reinitialised
  PROVE  DeviceInv'
  <1> USE DEF DeviceInv, Reinitialised, counters, ghosts, Cpu
  <1>1. DeviceTypes'
    <2>1. /\ newPacket' \in Nat /\ register' \in Nat
          /\ nrf_reset_cnt' \in 0..TickWrap - 1 /\ notify_cnt' \in 0..TickWrap - 1
          /\ pc' = "decrement" => register' >= 1
      BY DeviceAssumption DEF DeviceTypes, TypeOK, Configuring, Writes
    <2>2. slack' \in BOOLEAN
      BY DEF DeviceTypes, TypeOK, Configuring, Writes
    <2> QED BY <2>1, <2>2 DEF DeviceTypes, TypeOK, Configuring, Writes
  <1>2. ModeInv'
    BY DEF ModeInv, OnAir
  <1>3. LatestInv'
    BY LatestKept DEF Base
  <1>4. CountInv'
    BY DEF CountInv, Taking, DeviceTypes, TypeOK, Configuring, Writes, ModeInv, OnAir, Irq
  <1> QED BY <1>1, <1>2, <1>3, <1>4 DEF DeviceInv

LEMMA NotifyInv ==
  ASSUME DeviceInv, Notify
  PROVE  DeviceInv'
  <1> USE DEF DeviceInv, Notify, counters, ghosts, Cpu
  <1>1. DeviceTypes'
    BY DEF DeviceTypes, TypeOK, Configuring, Writes
  <1>2. ModeInv'
    BY DEF ModeInv, OnAir
  <1>3. LatestInv'
    BY LatestKept DEF Base
  <1>4. CountInv'
    BY DEF CountInv, Taking, DeviceTypes, TypeOK, Configuring, Writes, ModeInv, OnAir, Irq
  <1> QED BY <1>1, <1>2, <1>3, <1>4 DEF DeviceInv

LEMMA NotifiedInv ==
  ASSUME DeviceInv, Notified
  PROVE  DeviceInv'
  <1> USE DEF DeviceInv, Notified, counters, ghosts, Spi
  <1>1. DeviceTypes'
    <2>1. /\ newPacket' \in Nat /\ register' \in Nat
          /\ nrf_reset_cnt' \in 0..TickWrap - 1 /\ notify_cnt' \in 0..TickWrap - 1
          /\ pc' = "decrement" => register' >= 1
      BY DeviceAssumption DEF DeviceTypes, TypeOK, Configuring, Writes
    <2>2. slack' \in BOOLEAN
      BY DEF DeviceTypes, TypeOK, Configuring, Writes
    <2> QED BY <2>1, <2>2 DEF DeviceTypes, TypeOK, Configuring, Writes
  <1>2. ModeInv'
    BY DEF ModeInv, OnAir
  <1>3. LatestInv'
    BY LatestKept DEF Base
  <1>4. CountInv'
    BY DEF CountInv, Taking, DeviceTypes, TypeOK, Configuring, Writes, ModeInv, OnAir, Irq
  <1> QED BY <1>1, <1>2, <1>3, <1>4 DEF DeviceInv

LEMMA TickInv ==
  ASSUME DeviceInv, Tick
  PROVE  DeviceInv'
  <1> USE DEF DeviceInv, Tick, counters, ghosts, Idle
  <1>1. DeviceTypes'
    BY DeviceAssumption DEF DeviceTypes, TypeOK, Configuring, Writes
  <1>2. ModeInv'
    BY DEF ModeInv, OnAir
  <1>3. LatestInv'
    BY LatestKept DEF Base
  <1>4. CountInv'
    BY DEF CountInv, Taking, DeviceTypes, TypeOK, Configuring, Writes, ModeInv, OnAir, Irq
  <1> QED BY <1>1, <1>2, <1>3, <1>4 DEF DeviceInv

-----------------------------------------------------------------------------
(* The driver's steps.                                                     *)

LEMMA ReceiveInv ==
  ASSUME DeviceInv, Receive
  PROVE  DeviceInv'
  <1> USE DEF DeviceInv, Receive, Radio_Receive, counters, ghosts, Cpu, Spi
  <1>1. CASE pc = "receive"
    <2>1. /\ chip' \in ChipType(Packet)
          /\ chip'.ce = FALSE /\ chip'.prim_rx = chip.prim_rx
          /\ chip'.settled = FALSE /\ chip'.rx = chip.rx
          /\ chip'.tx = chip.tx /\ chip'.rx_dr = chip.rx_dr
          /\ chip'.tx_ds = chip.tx_ds /\ chip'.max_rt = chip.max_rt
          /\ chip'.lock = FALSE
      BY <1>1 DEF BeginReceive, CeLow, ChipType, DeviceTypes, TypeOK, Configuring, Writes
    <2>2. DeviceTypes'
      BY <1>1, <2>1 DEF DeviceTypes, TypeOK, Configuring, Writes
    <2>3. ModeInv'
      BY <1>1, <2>1 DEF ModeInv, OnAir, Irq
    <2>4. LatestInv'
      BY <1>1, <2>1, LatestKept DEF Base
    <2>5. CountInv'
      BY <1>1, <2>1 DEF CountInv, Taking, DeviceTypes, TypeOK, Configuring, Writes, ModeInv, OnAir, Irq
    <2> QED BY <2>2, <2>3, <2>4, <2>5 DEF DeviceInv
  <1>2. CASE pc = "read"
    <2>1. /\ chip' = UnloadPayload(chip) /\ chip \in ChipType(Packet) /\ ~Irq(chip)
          /\ packet' = IF chip.rx = <<>> THEN None ELSE Head(chip.rx)
          /\ pc' = "enable"
      BY <1>2 DEF DeviceTypes, TypeOK, Configuring, Writes
    <2>2. DeviceTypes'
      <3>1. Len(chip'.rx) <= FifoSize
        BY <2>1, UnloadFact, RadioAssumption DEF DeviceTypes, TypeOK, Configuring, Writes, ChipType
      <3>2. packet' \in Packet \cup {None}
        BY <2>1, UnloadFact
      <3>3. chip' \in ChipType(Packet) /\ chip'.tx = chip.tx
        BY <2>1, UnloadFact
      <3> QED BY <3>1, <3>2, <3>3, <2>1, <1>2 DEF DeviceTypes, TypeOK, Configuring, Writes
    <2>3. ModeInv'
      BY <2>1, <1>2, UnloadFact DEF ModeInv, OnAir, Irq
    <2>4. LatestInv'
      <3>1. CASE chip.rx = <<>>
        <4>1. latest = applied /\ ~(packet' \in Message)
          BY <3>1, <2>1, <1>2, DeviceAssumption DEF LatestInv, Base
        <4>2. Len(chip'.rx) = 0 /\ latest' = latest /\ Base' = applied
          BY <3>1, <4>1, <2>1, UnloadFact DEF Base
        <4> QED BY <4>1, <4>2 DEF LatestInv, Foreign
      <3>2. CASE chip.rx # <<>>
        <4> DEFINE n == Len(chip.rx)
        <4>1. /\ n \in Nat \ {0} /\ Len(chip'.rx) = n - 1
              /\ \A i \in 1..n - 1 : chip'.rx[i] = chip.rx[i + 1]
              /\ packet' = chip.rx[1] /\ latest' = latest /\ applied' = applied
          BY <3>2, <2>1, UnloadFact, EmptySeq DEF ChipType
        <4>2. Base' = IF chip.rx[1] \in Message THEN chip.rx[1] ELSE applied
          BY <4>1, <2>1 DEF Base
        <4>3. Base = applied
          BY <1>2 DEF Base
        <4> HIDE DEF n
        <4>4. CASE \E i \in 1..n : /\ chip.rx[i] = latest /\ latest \in Message
                                    /\ \A j \in i + 1..n : Foreign(j)
          <5>1. PICK i \in 1..n : /\ chip.rx[i] = latest /\ latest \in Message
                                  /\ \A j \in i + 1..n : Foreign(j)
            BY <4>4
          <5>2. \A k \in i..n - 1 : chip'.rx[k] = Other
            BY <5>1, <4>1 DEF Foreign
          <5>3. CASE i = 1
            BY <5>1, <5>2, <5>3, <4>1, <4>2 DEF LatestInv, Foreign
          <5>4. CASE i # 1
            <6>1. i - 1 \in 1..n - 1 /\ chip'.rx[i - 1] = latest
              BY <5>1, <5>4, <4>1
            <6>2. \A k \in (i - 1) + 1..n - 1 : chip'.rx[k] = Other
              BY <5>2, <4>1
            <6> QED BY <6>1, <6>2, <5>1, <4>1 DEF LatestInv, Foreign
          <5> QED BY <5>3, <5>4
        <4>5. CASE (\A j \in 1..n : Foreign(j)) /\ latest = Base
          BY <4>5, <4>1, <4>2, <4>3, DeviceAssumption DEF LatestInv, Foreign
        <4> QED BY <4>4, <4>5 DEF LatestInv, n
      <3> QED BY <3>1, <3>2
    <2>5. CountInv'
      BY <2>1, <1>2, UnloadFact DEF CountInv, Taking, DeviceTypes, TypeOK, Configuring, Writes, Irq
    <2> QED BY <2>2, <2>3, <2>4, <2>5 DEF DeviceInv
  <1>3. CASE pc = "enable"
    <2>1. /\ chip' \in ChipType(Packet)
          /\ chip'.ce = TRUE /\ chip'.prim_rx = chip.prim_rx
          /\ chip'.settled = chip.settled /\ chip'.rx = chip.rx
          /\ chip'.tx = chip.tx /\ chip'.rx_dr = chip.rx_dr
          /\ chip'.tx_ds = chip.tx_ds /\ chip'.max_rt = chip.max_rt
          /\ chip'.lock = FALSE
      BY <1>3 DEF EndReceive, CeHigh, ChipType, DeviceTypes, TypeOK, Configuring, Writes
    <2>2. DeviceTypes'
      BY <1>3, <2>1 DEF DeviceTypes, TypeOK, Configuring, Writes
    <2>3. ModeInv'
      BY <1>3, <2>1 DEF ModeInv, OnAir, Irq
    <2>4. LatestInv'
      BY <1>3, <2>1, LatestKept DEF Base
    <2>5. CountInv'
      BY <1>3, <2>1 DEF CountInv, Taking, DeviceTypes, TypeOK, Configuring, Writes, ModeInv, OnAir, Irq
    <2> QED BY <2>2, <2>3, <2>4, <2>5 DEF DeviceInv
  <1> QED BY <1>1, <1>2, <1>3

LEMMA ConcatFact ==
  ASSUME NEW S, NEW s \in Seq(S), NEW t \in Seq(S)
  PROVE  s \o t \in Seq(S) /\ Len(s \o t) = Len(s) + Len(t)
  OBVIOUS

LEMMA PipesFact == Pipes \in Seq(Register) /\ Len(Pipes) > 0
  <1>1. /\ Radio_Configure_Rx \in Seq(Register) /\ Len(Radio_Configure_Rx) = 4
        /\ Radio_Autoack \in Seq(Register) /\ Len(Radio_Autoack) = 1
        /\ Radio_Configure \in Seq(Register) /\ Len(Radio_Configure) = 1
        /\ Radio_Set_Tx_Addr \in Seq(Register) /\ Len(Radio_Set_Tx_Addr) = 1
    BY DEF Radio_Configure_Rx, Radio_Autoack, Radio_Configure, Radio_Set_Tx_Addr, Register
  <1> DEFINE two == Radio_Configure_Rx \o Radio_Autoack
             three == two \o Radio_Configure
             four == three \o Radio_Set_Tx_Addr
  <1>2. two \in Seq(Register) /\ Len(two) = 4 + 1
    <2>1. two \in Seq(Register) /\ Len(two) = Len(Radio_Configure_Rx) + Len(Radio_Autoack)
      BY <1>1, ConcatFact, Zenon
    <2> HIDE DEF two
    <2> QED BY <1>1, <2>1
  <1> HIDE DEF two
  <1>3. three \in Seq(Register) /\ Len(three) = 5 + 1
    <2>1. three \in Seq(Register) /\ Len(three) = Len(two) + Len(Radio_Configure)
      BY <1>1, <1>2, ConcatFact, Zenon
    <2> HIDE DEF three
    <2> QED BY <1>1, <1>2, <2>1
  <1> HIDE DEF three
  <1>4. four \in Seq(Register) /\ Len(four) = 6 + 1
    <2>1. four \in Seq(Register) /\ Len(four) = Len(three) + Len(Radio_Set_Tx_Addr)
      BY <1>1, <1>3, ConcatFact, Zenon
    <2> HIDE DEF four
    <2> QED BY <1>1, <1>3, <2>1
  <1>5. Pipes = four
    BY DEF Pipes, two, three
  <1> HIDE DEF four
  <1> QED BY <1>4, <1>5

(* The walk over the registers: what is written next, and where it ends.   *)
LEMMA WritesFact ==
  ASSUME Configuring, written \in Nat, written < Len(Writes)
  PROVE  /\ Current \in Register \cup {"FLUSH_TX", "FLUSH_RX"}
         /\ pc = "pipes" => Current \in Register
         /\ pc = "config" /\ written + 1 >= Len(Writes) => Current = "FLUSH_RX"
  <1>1. CASE pc = "config"
    <2>1. Writes = <<"SETUP_AW", "SETUP_RETR", "RF_CH", "RF_SETUP", "CONFIG", "STATUS",
                     "FLUSH_TX", "FLUSH_RX">>
      BY <1>1 DEF Writes, configure_registers
    <2>2. Len(Writes) = 8 /\ written \in {0, 1, 2, 3, 4, 5, 6, 7}
      BY <2>1
    <2> QED BY <1>1, <2>1, <2>2 DEF Current, Register
  <1>2. CASE pc = "pipes"
    <2>1. Writes = Pipes /\ written + 1 \in 1..Len(Pipes)
      BY <1>2, PipesFact DEF Writes
    <2> QED BY <1>2, <2>1, PipesFact DEF Current
  <1> QED BY <1>1, <1>2 DEF Configuring

LEMMA NextWriteFact ==
  ASSUME DeviceTypes, Configuring, NextWrite
  PROVE  /\ pc' \in {pc, "power", "initialised"}
         /\ pc = "config" => pc' \in {"config", "power"}
         /\ pc = "pipes" => pc' \in {"pipes", "initialised"}
         /\ pc' = "power" => Current = "FLUSH_RX"
         /\ written' \in Nat /\ IF Configuring' THEN written' < Len(Writes') ELSE written' = 0
  <1>1. written \in Nat /\ written < Len(Writes) /\ Len(Writes) \in Nat
    <2>1. Len(configure_registers) \in Nat /\ Len(Pipes) \in Nat
      BY PipesFact DEF configure_registers
    <2> QED BY <2>1 DEF DeviceTypes, TypeOK, Writes
  <1>2. CASE written + 1 < Len(Writes)
    <2>1. pc' = pc /\ written' = written + 1 /\ Writes' = Writes
      BY <1>2 DEF NextWrite, Writes
    <2> QED BY <1>1, <1>2, <2>1 DEF Configuring
  <1>3. CASE ~(written + 1 < Len(Writes))
    <2>1. written' = 0 /\ pc' = IF pc = "config" THEN "power" ELSE "initialised"
      BY <1>3 DEF NextWrite
    <2>2. pc = "config" => Current = "FLUSH_RX"
      BY <1>1, <1>3, WritesFact
    <2> QED BY <2>1, <2>2 DEF Configuring
  <1> QED BY <1>2, <1>3

(* A register is written: the FIFO is empty when the last one is, as       *)
(* Radio_Init ends with the flush.                                         *)
LEMMA ConfigureInv ==
  ASSUME DeviceInv, Reinitialise, Configure, UNCHANGED disturbed
  PROVE  DeviceInv'
  <1> USE DEF DeviceInv
  <1>1. /\ Configuring /\ NextWrite /\ ~Irq(chip)
        /\ UNCHANGED <<newPacket, register, packet, applied, nrf_reset_cnt, notify_cnt,
                       breakages, disturbed, slack>>
        /\ latest' = IF Current = "FLUSH_RX" /\ chip.rx # <<>> THEN applied ELSE latest
        /\ chip' = IF pc = "config" THEN ConfigureRegister(chip, Current)
                                    ELSE SetRegister(chip, Current)
    BY DEF Configure, Reinitialise, Spi, counters
  <1>2. /\ Current \in Register \cup {"FLUSH_TX", "FLUSH_RX"}
        /\ pc = "pipes" => Current \in Register
    BY <1>1, WritesFact DEF DeviceTypes, TypeOK
  <1>3. /\ pc = "config" => pc' \in {"config", "power"}
        /\ pc = "pipes" => pc' \in {"pipes", "initialised"}
        /\ pc' = "power" => Current = "FLUSH_RX"
        /\ written' \in Nat /\ IF Configuring' THEN written' < Len(Writes') ELSE written' = 0
    BY <1>1, NextWriteFact
  <1>4. /\ chip \in ChipType(Packet) /\ chip.prim_rx /\ chip.tx = <<>>
        /\ pc \in {"config", "pipes"}
    BY <1>1 DEF DeviceTypes, TypeOK, ModeInv, OnAir, Configuring
  <1>5. /\ chip' \in ChipType(Packet) /\ chip'.prim_rx /\ ~Irq(chip')
        /\ chip'.ce = chip.ce /\ chip'.settled = chip.settled /\ chip'.lock = chip.lock
        /\ IF Current = "FLUSH_RX" THEN chip'.rx = <<>> ELSE chip'.rx = chip.rx
        /\ chip'.tx = <<>>
    <2>1. chip' = ConfigureRegister(chip, Current)
            \/ (Current \in Register /\ chip' = SetRegister(chip, Current))
      BY <1>1, <1>2, <1>4
    <2>2. /\ chip' \in ChipType(Packet) /\ chip'.prim_rx /\ ~Irq(chip')
          /\ chip'.ce = chip.ce /\ chip'.settled = chip.settled /\ chip'.lock = chip.lock
          /\ IF Current = "FLUSH_RX" THEN chip'.rx = <<>> ELSE chip'.rx = chip.rx
          /\ chip'.tx = chip.tx \/ chip'.tx = <<>>
      BY <1>1, <1>2, <1>4, <2>1, ConfigureFact
    <2> QED BY <1>4, <2>2
  <1>6. DeviceTypes'
    <2>1. Len(chip'.rx) <= FifoSize /\ Len(chip'.tx) <= 1
      BY <1>5, RadioAssumption DEF DeviceTypes, TypeOK
    <2>2. latest' \in Message \cup {None}
      BY <1>1 DEF DeviceTypes, TypeOK
    <2> QED BY <1>1, <1>3, <1>4, <1>5, <2>1, <2>2 DEF DeviceTypes, TypeOK
  <1>7. ModeInv'
    BY <1>1, <1>3, <1>4, <1>5 DEF ModeInv, OnAir, Irq
  <1>8. LatestInv'
    <2>1. Base = applied /\ Base' = applied
      BY <1>1, <1>3, <1>4 DEF Base
    <2>2. CASE Current = "FLUSH_RX" /\ chip.rx # <<>>
      <3>1. latest' = applied /\ Len(chip'.rx) = 0
        BY <1>1, <1>5, <2>2
      <3> QED BY <2>1, <3>1 DEF LatestInv
    <2>3. CASE ~(Current = "FLUSH_RX" /\ chip.rx # <<>>)
      BY <1>1, <1>5, <2>1, <2>3, LatestKept
    <2> QED BY <2>2, <2>3
  <1>9. CountInv'
    <2> SUFFICES ASSUME ~disturbed PROVE CountInv'
      BY <1>1 DEF CountInv
    <2>1. ~chip.settled /\ (pc = "config" => ~chip.ce)
      BY <1>4 DEF CountInv
    <2>2. Len(chip'.rx) = 0 \/ chip'.rx = chip.rx
      BY <1>5
    <2>3. pc = "pipes" => Len(chip.rx) <= newPacket
      BY <1>1 DEF CountInv, Taking, Irq, DeviceTypes, TypeOK
    <2>4. pc' # "config" => Len(chip'.rx) <= newPacket /\ (pc' = "power" => chip'.rx = <<>>)
      BY <1>3, <1>4, <1>5, <2>2, <2>3 DEF DeviceTypes, TypeOK
    <2>5. ~chip'.settled /\ ~chip'.rx_dr /\ pc' \notin {"write", "decrement", "receive", "read"}
      BY <1>1, <1>3, <1>4, <1>5, <2>1 DEF Irq
    <2>6. pc' \in {"config", "power"} => ~chip'.ce
      BY <1>3, <1>4, <1>5, <2>1
    <2>7. pc' # "config" => Len(chip'.rx) <= newPacket'
      BY <1>1, <2>4
    <2>8. Len(chip'.rx) \in Nat /\ newPacket' \in Nat
      BY <1>6 DEF DeviceTypes, TypeOK, ChipType
    <2> QED BY <2>4, <2>5, <2>6, <2>7, <2>8 DEF CountInv, Taking
  <1> QED BY <1>6, <1>7, <1>8, <1>9

LEMMA ReinitialiseInv ==
  ASSUME DeviceInv, Reinitialise
  PROVE  DeviceInv'
  <1> USE DEF DeviceInv
  <1>0. /\ UNCHANGED <<newPacket, register, packet, applied, nrf_reset_cnt, notify_cnt, breakages>>
        /\ ~Configuring => Radio_Init /\ UNCHANGED <<written, latest>>
        /\ pc \in {"init", "delay", "power"} => ~Configuring
    BY DEF Reinitialise, Configure, Configuring, counters
  <1>1. CASE pc = "init"
    <2>0. /\ chip' = BeginInit(chip) /\ pc' = "delay" /\ slack' = FALSE
          /\ Irq(chip) => slack
          /\ UNCHANGED <<written, latest, disturbed>>
      BY <1>0, <1>1 DEF Radio_Init, Cpu
    <2>1. /\ chip' \in ChipType(Packet)
          /\ chip'.ce = FALSE /\ chip'.prim_rx = chip.prim_rx
          /\ chip'.settled = FALSE /\ chip'.rx = chip.rx
          /\ chip'.tx = chip.tx /\ chip'.rx_dr = chip.rx_dr
          /\ chip'.tx_ds = chip.tx_ds /\ chip'.max_rt = chip.max_rt
          /\ chip'.lock = FALSE
      BY <1>0, <1>1, <2>0 DEF BeginInit, CeLow, ChipType, DeviceTypes, TypeOK, Configuring, Writes
    <2>2. DeviceTypes'
      BY <1>0, <1>1, <2>0, <2>1 DEF DeviceTypes, TypeOK, Configuring, Writes
    <2>3. ModeInv'
      BY <1>0, <1>1, <2>0, <2>1 DEF ModeInv, OnAir, Irq
    <2>4. LatestInv'
      BY <1>0, <1>1, <2>0, <2>1, LatestKept DEF Base
    <2>5. CountInv'
      BY <1>0, <1>1, <2>0, <2>1 DEF CountInv, Taking, DeviceTypes, TypeOK, Configuring, Writes, ModeInv, OnAir, Irq
    <2> QED BY <2>2, <2>3, <2>4, <2>5 DEF DeviceInv
  <1>2. CASE pc = "delay"
    <2>0. /\ chip' = chip /\ disturbed' = chip.ce /\ pc' = "config" /\ ~Irq(chip)
          /\ UNCHANGED <<written, latest, slack>>
      BY <1>0, <1>2 DEF Radio_Init, Spi
    <2>1. /\ chip' \in ChipType(Packet)
          /\ chip'.ce = chip.ce /\ chip'.prim_rx = chip.prim_rx
          /\ chip'.settled = chip.settled /\ chip'.rx = chip.rx
          /\ chip'.tx = chip.tx /\ chip'.rx_dr = chip.rx_dr
          /\ chip'.tx_ds = chip.tx_ds /\ chip'.max_rt = chip.max_rt
          /\ chip'.lock = chip.lock
      BY <1>0, <1>2, <2>0 DEF ChipType, DeviceTypes, TypeOK, Configuring, Writes
    <2>2. DeviceTypes'
      <3>1. disturbed' \in BOOLEAN
        BY <1>0, <1>2, <2>0 DEF DeviceTypes, TypeOK, Configuring, Writes, ChipType
      <3>2. written' = 0 /\ Writes' = configure_registers
        BY <1>0, <1>2, <2>0 DEF DeviceTypes, TypeOK, Configuring, Writes
      <3>3. Len(configure_registers) = 8
        BY DEF configure_registers
      <3>4. written' \in Nat /\ written' < Len(Writes')
        BY <3>2, <3>3
      <3> QED BY <3>1, <3>4, <1>0, <1>2, <2>0, <2>1 DEF DeviceTypes, TypeOK, Configuring
    <2>3. ModeInv'
      BY <1>0, <1>2, <2>0, <2>1 DEF ModeInv, OnAir, Irq
    <2>4. LatestInv'
      BY <1>0, <1>2, <2>0, <2>1, LatestKept DEF Base
    <2>5. CountInv'
      BY <1>0, <1>2, <2>0, <2>1 DEF CountInv, Taking, DeviceTypes, TypeOK, Configuring, Writes, ModeInv, OnAir, Irq
    <2> QED BY <2>2, <2>3, <2>4, <2>5 DEF DeviceInv
  <1>3. CASE Configuring
    <2>1. Configure /\ UNCHANGED disturbed /\ ~Irq(chip)
      BY <1>3 DEF Reinitialise, Radio_Init, Configuring, Configure, Spi
    <2> QED BY <2>1, ConfigureInv
  <1>4. CASE pc = "power"
    <2>0. /\ chip' = EndInit(chip) /\ pc' = "pipes" /\ slack' = FALSE
          /\ Irq(chip) => slack
          /\ UNCHANGED <<written, latest, disturbed>>
      BY <1>0, <1>4 DEF Radio_Init, Cpu
    <2>1. /\ chip' \in ChipType(Packet)
          /\ chip'.ce = TRUE /\ chip'.prim_rx = chip.prim_rx
          /\ chip'.settled = chip.settled /\ chip'.rx = chip.rx
          /\ chip'.tx = chip.tx /\ chip'.rx_dr = chip.rx_dr
          /\ chip'.tx_ds = chip.tx_ds /\ chip'.max_rt = chip.max_rt
          /\ chip'.lock = chip.lock
      BY <1>0, <1>4, <2>0 DEF EndInit, CeHigh, ChipType, DeviceTypes, TypeOK, Configuring, Writes
    <2>2. DeviceTypes'
      <3>1. written' = 0 /\ Writes' = Pipes
        BY <1>0, <1>4, <2>0 DEF DeviceTypes, TypeOK, Configuring, Writes
      <3>2. written' \in Nat /\ written' < Len(Writes')
        BY <3>1, PipesFact
      <3> QED BY <3>2, <1>0, <1>4, <2>0, <2>1 DEF DeviceTypes, TypeOK, Configuring
    <2>3. ModeInv'
      BY <1>0, <1>4, <2>0, <2>1 DEF ModeInv, OnAir, Irq
    <2>4. LatestInv'
      BY <1>0, <1>4, <2>0, <2>1, LatestKept DEF Base
    <2>5. CountInv'
      BY <1>0, <1>4, <2>0, <2>1 DEF CountInv, Taking, DeviceTypes, TypeOK, Configuring, Writes, ModeInv, OnAir, Irq
    <2> QED BY <2>2, <2>3, <2>4, <2>5 DEF DeviceInv
  <1> QED BY <1>0, <1>1, <1>2, <1>3, <1>4 DEF Reinitialise, Radio_Init, Configure

LEMMA SendNotifyInv ==
  ASSUME DeviceInv, SendNotify
  PROVE  DeviceInv'
  <1> USE DEF DeviceInv, SendNotify, Radio_Transmit, counters, ghosts, Cpu, Spi
  <1>1. CASE pc = "transmit"
    <2>1. /\ chip' \in ChipType(Packet)
          /\ chip'.ce = FALSE /\ chip'.prim_rx = chip.prim_rx
          /\ chip'.settled = FALSE /\ chip'.rx = chip.rx
          /\ chip'.tx = chip.tx /\ chip'.rx_dr = chip.rx_dr
          /\ chip'.tx_ds = chip.tx_ds /\ chip'.max_rt = chip.max_rt
          /\ chip'.lock = TRUE
      BY <1>1 DEF BeginTransmit, CeLow, ChipType, DeviceTypes, TypeOK, Configuring, Writes
    <2>2. DeviceTypes'
      BY <1>1, <2>1 DEF DeviceTypes, TypeOK, Configuring, Writes
    <2>3. ModeInv'
      BY <1>1, <2>1 DEF ModeInv, OnAir, Irq
    <2>4. LatestInv'
      BY <1>1, <2>1, LatestKept DEF Base
    <2>5. CountInv'
      BY <1>1, <2>1 DEF CountInv, Taking, DeviceTypes, TypeOK, Configuring, Writes, ModeInv, OnAir, Irq
    <2> QED BY <2>2, <2>3, <2>4, <2>5 DEF DeviceInv
  <1>2. CASE pc = "write"
    <2>1. /\ chip' = LoadPayload(chip, Other) /\ chip \in ChipType(Packet) /\ chip.tx = <<>>
          /\ pc' = "start" /\ ~Irq(chip)
      BY <1>2 DEF DeviceTypes, TypeOK, Configuring, Writes, ModeInv, OnAir
    <2>2. DeviceTypes'
      <3>1. chip' \in ChipType(Packet) /\ Len(chip'.tx) = 1 /\ chip'.rx = chip.rx
        BY <2>1, LoadFact
      <3>2. Len(chip'.tx) <= 1
        BY <3>1
      <3> QED BY <3>1, <3>2, <2>1, <1>2 DEF DeviceTypes, TypeOK, Configuring, Writes
    <2>3. ModeInv'
      BY <2>1, <1>2, LoadFact DEF ModeInv, OnAir, Irq
    <2>4. LatestInv'
      BY <2>1, <1>2, LoadFact, LatestKept DEF Base
    <2>5. CountInv'
      BY <2>1, <1>2, LoadFact DEF CountInv, Taking, DeviceTypes, TypeOK, Configuring, Writes, Irq
    <2> QED BY <2>2, <2>3, <2>4, <2>5 DEF DeviceInv
  <1>3. CASE pc = "start"
    <2>1. /\ chip' \in ChipType(Packet)
          /\ chip'.ce = TRUE /\ chip'.prim_rx = chip.prim_rx
          /\ chip'.settled = chip.settled /\ chip'.rx = chip.rx
          /\ chip'.tx = chip.tx /\ chip'.rx_dr = chip.rx_dr
          /\ chip'.tx_ds = chip.tx_ds /\ chip'.max_rt = chip.max_rt
          /\ chip'.lock = chip.lock
      BY <1>3 DEF StartTransmit, CeHigh, ChipType, DeviceTypes, TypeOK, Configuring, Writes
    <2>2. DeviceTypes'
      BY <1>3, <2>1 DEF DeviceTypes, TypeOK, Configuring, Writes
    <2>3. ModeInv'
      BY <1>3, <2>1 DEF ModeInv, OnAir, Irq
    <2>4. LatestInv'
      BY <1>3, <2>1, LatestKept DEF Base
    <2>5. CountInv'
      BY <1>3, <2>1 DEF CountInv, Taking, DeviceTypes, TypeOK, Configuring, Writes, ModeInv, OnAir, Irq
    <2> QED BY <2>2, <2>3, <2>4, <2>5 DEF DeviceInv
  <1> QED BY <1>1, <1>2, <1>3

-----------------------------------------------------------------------------
(* The chip's own steps and the interrupt.                                 *)

LEMMA SettleInv ==
  ASSUME DeviceInv, Settle
  PROVE  DeviceInv'
  <1> USE DEF DeviceInv, Settle, counters, ghosts
  <1>1. /\ chip' \in ChipType(Packet) /\ chip'.settled
        /\ chip'.ce = chip.ce /\ chip'.prim_rx = chip.prim_rx
        /\ chip'.rx = chip.rx /\ chip'.tx = chip.tx /\ chip'.lock = chip.lock
        /\ chip'.rx_dr = chip.rx_dr /\ chip'.tx_ds = chip.tx_ds
        /\ chip'.max_rt = chip.max_rt
    BY DEF Settled, ChipType, DeviceTypes, TypeOK, Configuring, Writes
  <1>2. chip.ce /\ chip.prim_rx /\ (Idle \/ pc \in {"delay", "power"})
    BY DEF CanSettle, TimePasses, ModeInv, OnAir
  <1>3. DeviceTypes'
    BY <1>1 DEF DeviceTypes, TypeOK, Configuring, Writes
  <1>4. ModeInv'
    BY <1>1, <1>2 DEF ModeInv, OnAir
  <1>5. LatestInv'
    BY <1>1, LatestKept DEF Base
  <1>6. CountInv'
    BY <1>1, <1>2 DEF CountInv, Taking, Idle
  <1> QED BY <1>3, <1>4, <1>5, <1>6 DEF DeviceInv

(* A reception: the chip is settled, so nothing is announced. *)
LEMMA ArriveInv ==
  ASSUME DeviceInv, NEW p \in Packet, Arrive(p)
  PROVE  DeviceInv'
  <1> USE DEF DeviceInv, Arrive, counters, ghosts
  <1> DEFINE n == Len(chip.rx)
  <1>1. /\ chip' \in ChipType(Packet) /\ chip'.rx_dr
        /\ Len(chip'.rx) = n + 1 /\ chip'.rx[n + 1] = p
        /\ \A i \in 1..n : chip'.rx[i] = chip.rx[i]
        /\ chip'.ce = chip.ce /\ chip'.prim_rx = chip.prim_rx
        /\ chip'.settled = chip.settled /\ chip'.tx = chip.tx
        /\ chip'.lock = chip.lock /\ chip'.tx_ds = chip.tx_ds
        /\ chip'.max_rt = chip.max_rt
    BY ReceivedFact DEF DeviceTypes, TypeOK, Configuring, Writes
  <1>2. chip.settled /\ ~Irq(chip) /\ n < FifoSize /\ n \in Nat
    BY DEF CanReceive, DeviceTypes, TypeOK, Configuring, Writes, ChipType
  <1> HIDE DEF n
  <1>3. DeviceTypes'
    <2>1. latest' \in Message \cup {None}
      BY DEF Packet, DeviceTypes, TypeOK, Configuring, Writes
    <2>2. Len(chip'.rx) <= FifoSize
      BY <1>1, <1>2, RadioAssumption
    <2>3. slack' \in BOOLEAN
      OBVIOUS
    <2> QED BY <1>1, <2>1, <2>2, <2>3 DEF DeviceTypes, TypeOK, Configuring, Writes
  <1>4. ModeInv'
    BY <1>1, <1>2 DEF ModeInv, OnAir
  <1>5. LatestInv'
    <2>1. Base' = Base
      BY DEF Base
    <2>2. CASE p = Other
      <3>1. latest' = latest /\ chip'.rx[n + 1] = Other
        BY <2>2, <1>1
      <3>2. CASE \E i \in 1..n : /\ chip.rx[i] = latest /\ latest \in Message
                                  /\ \A j \in i + 1..n : Foreign(j)
        <4>1. PICK i \in 1..n : /\ chip.rx[i] = latest /\ latest \in Message
                                /\ \A j \in i + 1..n : Foreign(j)
          BY <3>2
        <4>2. \A j \in i + 1..n + 1 : chip'.rx[j] = Other
          <5> TAKE j \in i + 1..n + 1
          <5>1. CASE j = n + 1
            BY <5>1, <3>1
          <5>2. CASE j # n + 1
            <6>1. j \in i + 1..n /\ j \in 1..n
              BY <5>2, <1>2
            <6> QED BY <6>1, <4>1, <1>1 DEF Foreign
          <5> QED BY <5>1, <5>2
        <4>3. i \in 1..n + 1 /\ chip'.rx[i] = latest'
          BY <3>1, <4>1, <1>1, <1>2
        <4> QED BY <3>1, <4>1, <4>2, <4>3, <1>1 DEF LatestInv, Foreign
      <3>3. CASE (\A j \in 1..n : Foreign(j)) /\ latest = Base
        <4>1. \A j \in 1..n + 1 : chip'.rx[j] = Other
          BY <3>1, <3>3, <1>1, <1>2 DEF Foreign
        <4> QED BY <3>1, <3>3, <4>1, <2>1, <1>1 DEF LatestInv, Foreign
      <3> QED BY <3>2, <3>3 DEF LatestInv, n
    <2>3. CASE p # Other
      <3>1. latest' = p /\ p \in Message
        BY <2>3 DEF Packet
      <3>2. n + 1 \in 1..n + 1 /\ (n + 1) + 1..n + 1 = {}
        BY <1>2
      <3> QED BY <3>1, <3>2, <1>1 DEF LatestInv
    <2> QED BY <2>2, <2>3
  <1>6. CountInv'
    <2>1. CASE ~disturbed /\ pc # "delay"
      <3>1. newPacket = 0 /\ pc \in {"loop", "watchdog", "notify", "transmit", "init"}
        BY <2>1, <1>2 DEF CountInv, ModeInv
      <3>2. n <= 0
        BY <2>1, <3>1, <1>2 DEF CountInv, Taking, Irq, n
      <3> QED BY <3>1, <3>2, <1>1, <1>2 DEF CountInv, Taking
    <2> QED BY <2>1 DEF CountInv
  <1> QED BY <1>3, <1>4, <1>5, <1>6 DEF DeviceInv

LEMMA TxDoneInv ==
  ASSUME DeviceInv, TxDone
  PROVE  DeviceInv'
  <1> USE DEF DeviceInv, TxDone, counters, ghosts
  <1>1. OnAir /\ pc = "wait" /\ ~Irq(chip) /\ Len(chip.tx) = 1 /\ chip.lock
    BY DEF CanFail, CanTransmit, ModeInv, OnAir, Irq
  <1>2. /\ chip' \in ChipType(Packet) /\ (chip'.tx_ds \/ chip'.max_rt)
        /\ chip'.tx = IF chip'.tx_ds THEN <<>> ELSE chip.tx
        /\ chip'.ce = chip.ce /\ chip'.prim_rx = chip.prim_rx
        /\ chip'.settled = chip.settled /\ chip'.rx = chip.rx
        /\ chip'.rx_dr = chip.rx_dr /\ chip'.lock = chip.lock
    <2>1. CASE chip' = Transmitted(chip)
      BY <1>1, <2>1, TransmittedFact DEF DeviceTypes, TypeOK
    <2>2. CASE chip' = Failed(chip)
      BY <1>1, <2>2 DEF Failed, ChipType, Irq, DeviceTypes, TypeOK
    <2> QED BY <2>1, <2>2
  <1>3. DeviceTypes'
    <2> DEFINE n == Len(chip'.tx)
    <2>1. n \in {0, 1}
      BY <1>1, <1>2
    <2> HIDE DEF n
    <2>2. n <= 1
      BY <2>1
    <2>3. slack' \in BOOLEAN
      OBVIOUS
    <2> QED BY <1>2, <2>2, <2>3 DEF n, DeviceTypes, TypeOK, Configuring, Writes
  <1>4. ModeInv'
    BY <1>1, <1>2 DEF ModeInv, OnAir
  <1>5. LatestInv'
    BY <1>2, LatestKept DEF Base
  <1>6. CountInv'
    BY <1>2 DEF CountInv, Taking
  <1> QED BY <1>3, <1>4, <1>5, <1>6 DEF DeviceInv

LEMMA BreakInv ==
  ASSUME DeviceInv, NEW how \in Breakages, Break(how)
  PROVE  DeviceInv'
  <1> USE DEF DeviceInv, Break, counters
  <1>1. /\ chip' \in ChipType(Packet) /\ chip'.settled = chip.settled
        /\ chip'.ce = chip.ce /\ chip'.prim_rx = chip.prim_rx
        /\ chip'.rx = chip.rx /\ chip'.tx = chip.tx /\ chip'.lock = chip.lock
        /\ chip'.rx_dr = chip.rx_dr /\ chip'.tx_ds = chip.tx_ds
        /\ chip'.max_rt = chip.max_rt
    BY DeviceAssumption DEF Broken, ChipType, DeviceTypes, TypeOK, Configuring, Writes
  <1>2. breakages' \in 0..MaxBreakages
    BY DeviceAssumption DEF DeviceTypes, TypeOK, Configuring, Writes
  <1>3. DeviceTypes'
    BY <1>1, <1>2 DEF DeviceTypes, TypeOK, Configuring, Writes
  <1>4. ModeInv'
    BY <1>1 DEF ModeInv, OnAir
  <1>5. LatestInv'
    BY <1>1, LatestKept DEF Base
  <1>6. CountInv'
    BY <1>1 DEF CountInv, Taking
  <1> QED BY <1>3, <1>4, <1>5, <1>6 DEF DeviceInv

(* The interrupt: what it adds to newPacket is what it takes from rx_dr,   *)
(* and CE is high and the reception over when it returns.                  *)
LEMMA INT0Inv ==
  ASSUME DeviceInv, INT0
  PROVE  DeviceInv'
  <1> USE DEF DeviceInv
  <1>1. /\ Irq(chip) /\ slack' = FALSE
        /\ UNCHANGED <<register, packet, applied, notify_cnt, latest, disturbed>>
        /\ breakages' = breakages \/ (breakages < MaxBreakages /\ breakages' = breakages + 1)
    BY DEF INT0, Serve, Garble
  <1>2. /\ chip' \in ChipType(Packet)
        /\ chip'.ce /\ ~chip'.settled /\ ~chip'.rx_dr /\ ~chip'.tx_ds /\ ~chip'.max_rt
        /\ chip'.rx = chip.rx
        /\ chip.tx_ds \/ chip.max_rt => chip'.prim_rx /\ ~chip'.lock /\ chip'.tx = <<>>
        /\ ~(chip.tx_ds \/ chip.max_rt) =>
              chip'.prim_rx = chip.prim_rx /\ chip'.lock = chip.lock /\ chip'.tx = chip.tx
    <2>1. chip \in ChipType(Packet) /\ (chip.tx_ds => chip.tx = <<>>)
      BY DEF DeviceTypes, TypeOK, ModeInv
    <2>2. chip' = Serviced(chip)
            \/ \E spoilt \in SUBSET {Current, "STATUS"} :
                  chip' = Broken(Serviced(chip), spoilt \cap Register)
      BY DEF INT0, Serve, Garble
    <2>3. \E spoilt \in SUBSET Register :
            chip' = Serviced(chip) \/ chip' = Broken(Serviced(chip), spoilt)
      BY <2>2
    <2> QED BY <2>1, <2>3, ServicedFact
  <1>3. /\ \/ chip.rx_dr /\ newPacket' = newPacket + 1 /\ nrf_reset_cnt' = 0
           \/ ~chip.rx_dr /\ newPacket' = newPacket /\ nrf_reset_cnt' = nrf_reset_cnt
        /\ pc' = pc /\ written' = written
        \/ /\ Configuring
           /\ \/ newPacket' = newPacket + 1 /\ nrf_reset_cnt' = 0
              \/ newPacket' = newPacket /\ nrf_reset_cnt' = nrf_reset_cnt
           /\ NextWrite \/ (pc' = pc /\ written' = written)
    BY DEF INT0, Serve, Garble, radio_rxhandler, Unannounced
  <1>4. /\ written' \in Nat /\ IF Configuring' THEN written' < Len(Writes') ELSE written' = 0
        /\ pc' = pc \/ (Configuring /\ pc' \in {pc, "power", "initialised"})
    <2>1. CASE Configuring /\ NextWrite
      BY <2>1, NextWriteFact
    <2>2. CASE pc' = pc /\ written' = written
      BY <2>2 DEF DeviceTypes, TypeOK, Configuring, Writes
    <2> QED BY <1>3, <2>1, <2>2
  <1>5. /\ newPacket' \in Nat /\ nrf_reset_cnt' \in 0..TickWrap - 1
        /\ breakages' \in 0..MaxBreakages
    <2>1. 0 \in 0..TickWrap - 1
      BY DeviceAssumption
    <2>2. newPacket' \in Nat /\ nrf_reset_cnt' \in 0..TickWrap - 1
      BY <1>3, <2>1 DEF DeviceTypes, TypeOK
    <2>3. breakages' \in 0..MaxBreakages
      BY <1>1, DeviceAssumption DEF DeviceTypes, TypeOK
    <2> QED BY <2>2, <2>3
  <1>6. DeviceTypes'
    <2>1. Len(chip'.rx) <= FifoSize /\ Len(chip'.tx) <= 1
      BY <1>2 DEF DeviceTypes, TypeOK
    <2>2. pc' = "decrement" => pc = "decrement"
      BY <1>4
    <2> QED BY <1>1, <1>2, <1>4, <1>5, <2>1, <2>2 DEF DeviceTypes, TypeOK, Configuring
  <1>7. ModeInv'
    <2>1. CASE pc' = pc
      BY <1>1, <1>2, <2>1 DEF ModeInv, OnAir, Irq
    <2>2. CASE Configuring /\ pc' \in {"power", "initialised"}
      <3>1. pc \in {"config", "pipes"} /\ ~chip.tx_ds /\ ~chip.max_rt
        BY <2>2 DEF Configuring, ModeInv
      <3> QED BY <1>2, <2>2, <3>1 DEF ModeInv, OnAir
    <2> QED BY <1>4, <2>1, <2>2
  <1>8. LatestInv'
    <2>1. Base' = Base
      BY <1>1, <1>4 DEF Base, Configuring
    <2> QED BY <1>1, <1>2, <2>1, LatestKept
  <1>9. CountInv'
    <2>1. CASE ~disturbed /\ pc # "delay"
      <3>1. pc \notin {"decrement", "config", "power", "pipes", "receive", "read"}
        BY <1>1, <2>1 DEF CountInv, ModeInv, Irq
      <3>2. /\ chip.rx_dr => newPacket' = newPacket + 1
            /\ ~chip.rx_dr => newPacket' = newPacket
            /\ pc' = pc
        BY <1>3, <3>1 DEF Configuring
      <3>3. Len(chip.rx) <= newPacket + (IF chip.rx_dr THEN 1 ELSE 0)
        BY <2>1, <3>1 DEF CountInv, Taking, DeviceTypes, TypeOK
      <3>4. Len(chip'.rx) <= newPacket'
        BY <1>2, <3>2, <3>3 DEF DeviceTypes, TypeOK, ChipType
      <3> QED BY <1>2, <1>5, <3>1, <3>2, <3>4 DEF CountInv, Taking
    <2>2. CASE disturbed \/ pc = "delay"
      <3>1. disturbed' \/ pc' = "delay"
        BY <1>1, <1>4, <2>2 DEF Configuring
      <3> QED BY <3>1 DEF CountInv
    <2> QED BY <2>1, <2>2
  <1> QED BY <1>6, <1>7, <1>8, <1>9

-----------------------------------------------------------------------------
(* The theorems.                                                           *)

LEMMA NextInv == DeviceInv /\ [Next]_vars => DeviceInv'
  <1> SUFFICES ASSUME DeviceInv, [Next]_vars PROVE DeviceInv'
    OBVIOUS
  <1>1. CASE Main
    BY <1>1, LookInv, DecrementInv, ReceiveInv, ApplyInv, WatchdogInv, ReinitialiseInv,
       ReinitialisedInv, NotifyInv, SendNotifyInv, NotifiedInv DEF Main
  <1>2. CASE INT0
    BY <1>2, INT0Inv
  <1>3. CASE Tick
    BY <1>3, TickInv
  <1>4. CASE Settle
    BY <1>4, SettleInv
  <1>5. CASE TxDone
    BY <1>5, TxDoneInv
  <1>6. CASE \E p \in Packet : Arrive(p)
    BY <1>6, ArriveInv
  <1>7. CASE \E how \in Breakages : Break(how)
    BY <1>7, BreakInv
  <1>8. CASE UNCHANGED vars
    BY <1>8 DEF vars, DeviceInv, DeviceTypes, TypeOK, Configuring, Writes, ModeInv, OnAir, LatestInv, Base,
                Foreign, CountInv, Taking
  <1> QED BY <1>1, <1>2, <1>3, <1>4, <1>5, <1>6, <1>7, <1>8 DEF Next

LEMMA Invariant == Spec => []DeviceInv
  BY InitInv, NextInv, PTL DEF Spec

(* The main loop and the interrupt keep every variable in its type: the    *)
(* FIFOs do not overflow, newPacket-- never wraps below zero (main,        *)
(* spotlight.c:118-119), and the tick counters stay in their width.        *)
THEOREM TypeCorrect == Spec => []TypeOK
  <1>1. DeviceInv => TypeOK
    BY DEF DeviceInv, DeviceTypes
  <1> QED BY <1>1, Invariant, PTL

(* No packet is left behind: a device with nothing to do has applied the   *)
(* last message its radio accepted, although newPacket-- is not atomic and *)
(* the interrupt increments it (spotlight.c:118-120 and 212-216).          *)
THEOREM NoneLeftBehind == Spec => []UpToDate
  <1>1. DeviceInv => UpToDate
    <2> SUFFICES ASSUME DeviceInv, Quiet, ~disturbed
                 PROVE  chip.rx = <<>> /\ applied = latest
      BY DEF UpToDate
    <2>1. pc = "loop" /\ newPacket = 0 /\ ~chip.rx_dr
      BY DEF Quiet, Idle, Irq
    <2>2. Len(chip.rx) <= 0 /\ chip.rx \in Seq(Packet)
      BY <2>1 DEF DeviceInv, CountInv, Taking, DeviceTypes, TypeOK, Configuring, Writes, ChipType
    <2>3. chip.rx = <<>>
      BY <2>2, EmptySeq
    <2>4. latest = Base
      BY <2>3 DEF DeviceInv, LatestInv
    <2> QED BY <2>1, <2>3, <2>4 DEF Base
  <1> QED BY <1>1, Invariant, PTL

(* An idle device listens, whatever the interrupt's mode switch cut into   *)
(* (INT0_vect, radio.c:455-501, returns with CE high).                     *)
THEOREM IdleListens == Spec => []Listening
  <1>1. DeviceInv => Listening
    BY DEF DeviceInv, ModeInv, OnAir, Listening, Quiet, Idle, Irq
  <1> QED BY <1>1, Invariant, PTL
=============================================================================
