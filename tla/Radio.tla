--------------------------------- MODULE Radio ---------------------------------
(***************************************************************************)
(* The nRF24L01 driver (avr/nrf24l01/radio.c) and the chip behind it.      *)
(* Every operator takes the chip's state and returns the next one; the     *)
(* programs that link the driver (module Device) place them between the    *)
(* steps of their main loops.                                              *)
(*                                                                         *)
(* ce       the chip enable pin        prim_rx  CONFIG.PRIM_RX             *)
(* settled  CE has been high in receive mode long enough (130 us, and the  *)
(*          320 us of a packet) for a reception to complete                *)
(* rx, tx   the FIFOs                                                      *)
(* rx_dr, tx_ds, max_rt  the interrupt flags                               *)
(* wrong    the registers that do not hold what rf_init leaves in them     *)
(*          (PRIM_RX apart); STATUS is wrong if a flag stays set there     *)
(* lock     the driver's transmit_lock                                     *)
(***************************************************************************)
EXTENDS Naturals, Sequences

CONSTANT FifoSize   \* packets in the chip's receive FIFO (3)

ASSUME RadioAssumption == FifoSize \in Nat \ {0}

(* The registers the driver writes. *)
Register == {"CONFIG", "EN_AA", "EN_RXADDR", "SETUP_AW", "SETUP_RETR", "RF_CH",
             "RF_SETUP", "STATUS", "RX_ADDR_P0", "TX_ADDR", "RX_PW_P0"}

(* After rf_init. *)
Configured ==
  [ce |-> TRUE, prim_rx |-> TRUE, settled |-> FALSE, rx |-> <<>>, tx |-> <<>>,
   rx_dr |-> FALSE, tx_ds |-> FALSE, max_rt |-> FALSE, wrong |-> {}, lock |-> FALSE]

-----------------------------------------------------------------------------
(* The chip on its own.                                                    *)

Irq(c) == c.rx_dr \/ c.tx_ds \/ c.max_rt

(* A mute chip is powered down, has its interrupts masked or holds its     *)
(* interrupt line low; a deaf one hears none of the group's packets.       *)
Mute(c) == c.wrong \cap {"CONFIG", "STATUS"} # {}
Deaf(c) == c.wrong \ {"SETUP_RETR", "TX_ADDR"} # {}

CanSettle(c) == c.ce /\ c.prim_rx /\ ~c.settled
Settled(c) == [c EXCEPT !.settled = TRUE]

(* Receptions are 320 us apart, far more than INT0 waits, so a flag that is *)
(* still set means that none can complete yet.                             *)
CanReceive(c) == c.settled /\ ~Deaf(c) /\ ~Irq(c) /\ Len(c.rx) < FifoSize
Received(c, p) == [c EXCEPT !.rx = Append(@, p), !.rx_dr = TRUE]

CanTransmit(c) == c.ce /\ ~c.prim_rx /\ c.tx # <<>> /\ ~Irq(c) /\ ~Mute(c)
Transmitted(c) == [c EXCEPT !.tx = Tail(@), !.tx_ds = TRUE]

(* Auto-ack, which rf_init turns off, waits in vain for an answer.          *)
CanFail(c) == CanTransmit(c) /\ "EN_AA" \in c.wrong
Failed(c) == [c EXCEPT !.max_rt = TRUE]

Broken(c, registers) == [c EXCEPT !.wrong = @ \cup registers]

-----------------------------------------------------------------------------
(* The driver.                                                             *)

CeLow(c)  == [c EXCEPT !.ce = FALSE, !.settled = FALSE]
CeHigh(c) == [c EXCEPT !.ce = TRUE]

(* The last write of a register during rf_init leaves it as it should be.  *)
SetRegister(c, r) == [c EXCEPT !.wrong = @ \ {r}]

SetRxMode(c) == [c EXCEPT !.prim_rx = TRUE, !.settled = FALSE]
SetTxMode(c) == [c EXCEPT !.prim_rx = FALSE, !.settled = FALSE]

ResetPipe0Address(c) == SetRegister(c, "RX_ADDR_P0")

(* Radio_Transmit, up to the SPI transfer, the transfer, and CE_HIGH. *)
BeginTransmit(c) == CeLow([c EXCEPT !.lock = TRUE])
LoadPayload(c, p) == [SetTxMode(c) EXCEPT !.tx = Append(@, p)]
StartTransmit(c) == CeHigh(c)

(* Radio_Receive: the same three parts.  An empty FIFO yields no packet.   *)
BeginReceive(c) == CeLow([c EXCEPT !.lock = FALSE])
UnloadPayload(c) == [c EXCEPT !.rx = IF @ = <<>> THEN @ ELSE Tail(@)]
EndReceive(c) == CeHigh([c EXCEPT !.lock = FALSE])

(* Radio_Init: the part before the 11 ms delay and CE_HIGH after the other. *)
BeginInit(c) == CeLow([c EXCEPT !.lock = FALSE])
EndInit(c) == CeHigh(c)

(* What rf_init writes, register by register: Radio_Init, whose data rate  *)
(* and retries are not the final ones, and the rest.                       *)
configure_registers ==
  <<"SETUP_AW", "SETUP_RETR", "RF_CH", "RF_SETUP", "CONFIG", "STATUS", "FLUSH_TX", "FLUSH_RX">>
Radio_Configure_Rx == <<"RX_ADDR_P0", "EN_AA", "RX_PW_P0", "EN_RXADDR">>
Radio_Autoack      == <<"SETUP_RETR">>
Radio_Configure    == <<"RF_SETUP">>
Radio_Set_Tx_Addr  == <<"TX_ADDR">>
Pipes == Radio_Configure_Rx \o Radio_Autoack \o Radio_Configure \o Radio_Set_Tx_Addr

Interim == {"SETUP_RETR", "RF_SETUP"}

Flush(c, fifo) == IF fifo = "FLUSH_TX" THEN [c EXCEPT !.tx = <<>>]
                                       ELSE [c EXCEPT !.rx = <<>>]

ConfigureRegister(c, r) ==
  CASE r \in {"FLUSH_TX", "FLUSH_RX"} -> Flush(c, r)
    [] r = "STATUS"   -> [SetRegister(c, r) EXCEPT !.rx_dr = FALSE, !.tx_ds = FALSE,
                                                   !.max_rt = FALSE]
    [] r = "CONFIG"   -> [SetRegister(c, r) EXCEPT !.prim_rx = TRUE]
    [] r \in Interim  -> Broken(c, {r})
    [] OTHER          -> SetRegister(c, r)

(* INT0_vect: the receive handler runs for RX_DR; the end of a transmission *)
(* returns the radio to receive mode and releases the lock, whether it was  *)
(* sent or given up; all flags are cleared, and CE is high on return,       *)
(* whatever it was when the interrupt came.                                 *)
(* Mistakes: staying in transmit mode; keeping the lock of a packet that   *)
(* was given up.                                                           *)
EndedKeepsMode(c) == ResetPipe0Address([c EXCEPT !.lock = FALSE])
GivenUpKeepsLock(c) == SetRxMode(Flush(c, "FLUSH_TX"))

Ended(c) == ResetPipe0Address([SetRxMode(c) EXCEPT !.lock = FALSE])
GivenUp(c) == Ended(Flush(c, "FLUSH_TX"))

Serviced(c) ==
  LET d == IF c.tx_ds THEN Ended(c) ELSE IF c.max_rt THEN GivenUp(c) ELSE c
  IN  CeHigh([CeLow(d) EXCEPT !.rx_dr = FALSE, !.tx_ds = FALSE, !.max_rt = FALSE])

ChipType(Packet) ==
  [ce : BOOLEAN, prim_rx : BOOLEAN, settled : BOOLEAN, rx : Seq(Packet),
   tx : Seq(Packet), rx_dr : BOOLEAN, tx_ds : BOOLEAN, max_rt : BOOLEAN,
   wrong : SUBSET Register, lock : BOOLEAN]
=============================================================================
