---------------------------- MODULE SerialRxProofs ----------------------------
(***************************************************************************)
(* For every ring size, frame length, alphabet and number of lost bytes:   *)
(* the receive ring is type correct and implements the drop-tail queue,    *)
(* and a lost byte costs the host at most two frames.                      *)
(***************************************************************************)
EXTENDS SerialRx, TLAPS

-----------------------------------------------------------------------------
(* The inductive invariants.                                               *)

(* All of TypeOK but the bound on damaged, which is DecoderInv's matter. *)
RxTypes ==
  /\ frame \in Packets /\ hostpos \in 0..FrameLen /\ hostescape \in BOOLEAN
  /\ buffer \in [0..Size - 1 -> [1..FrameLen -> Byte]]
  /\ writepos \in 0..Size - 1 /\ readpos \in 0..Size
  /\ inpacket_pos \in 0..FrameLen /\ escape \in {0, 1}
  /\ pc \in {"loop", "transmit", "wait", "confirm", "mask"} /\ transmit_lock \in {0, 1}
  /\ sent \in Seq(Byte) /\ Len(sent) <= FrameLen
  /\ last \in [item : Seq(Byte), parity : {0, 1}]
  /\ burst \in 0..Burst /\ lost \in 0..MaxLoss /\ damaged \in Nat

(* The slot being read is published, and the window in which readpos may   *)
(* be Size opens with a slot to spare.                                     *)
IndexInv ==
  /\ pc # "mask" => readpos # Size
  /\ pc \in {"transmit", "wait", "confirm"} => readpos # writepos
  /\ pc = "mask" => readpos # 0 /\ (burst = 0 => Waiting # Size - 1)

(* What has been sent is the beginning of the slot at readpos. *)
SentInv ==
  pc \in {"transmit", "wait", "confirm"} =>
    /\ sent = [i \in 1..Len(sent) |-> buffer[readpos][i]]
    /\ Len(sent) >= 1
    /\ pc = "transmit" => Len(sent) < FrameLen
    /\ pc = "wait" => Len(sent) = FrameLen
    /\ pc = "confirm" /\ sent[1] = STANDARD => Len(sent) = FrameLen

(* How far the decoder is off, in frames that will still be damaged: none  *)
(* if it has what the host has sent, one if only the slot is wrong, two if *)
(* host and decoder disagree about an escape.                              *)
Aligned == (escape = 1) <=> hostescape

Whole == /\ Aligned /\ inpacket_pos = hostpos
         /\ \A i \in 1..hostpos : buffer[writepos][i] = frame[i]

HostInv == hostescape => ~FrameDone /\ frame[hostpos + 1] \in {END, ESC}

DebtInv == /\ damaged <= 2 * lost
           /\ ~Whole => damaged + 1 <= 2 * lost
           /\ ~Aligned => damaged + 2 <= 2 * lost

DecoderInv == HostInv /\ DebtInv

RxInv == RxTypes /\ IndexInv /\ SentInv /\ DecoderInv

-----------------------------------------------------------------------------
(* Index arithmetic.                                                       *)

(* The mask is one addition or subtraction for the indices of the ring. *)
LEMMA SlotFact ==
  ASSUME NEW i \in -Size..2 * Size - 1
  PROVE  Slot(i) = IF i < 0 THEN i + Size ELSE IF i < Size THEN i ELSE i - Size
  BY RxAssumption DEF Slot

(* How many slots are published, by cases. *)
LEMMA WaitingFact ==
  ASSUME RxTypes
  PROVE  /\ Waiting = IF writepos >= readpos THEN writepos - readpos
                      ELSE writepos - readpos + Size
         /\ Waiting \in 0..Size - 1
  <1>1. writepos - readpos \in -Size..2 * Size - 1
    BY RxAssumption DEF RxTypes
  <1> QED BY <1>1, SlotFact, RxAssumption DEF RxTypes, Waiting

(* The slot behind the one being filled. *)
LEMMA NextSlot ==
  ASSUME RxTypes
  PROVE  Slot(writepos + 1) = IF writepos = Size - 1 THEN 0 ELSE writepos + 1
  <1>1. writepos + 1 \in -Size..2 * Size - 1
    BY RxAssumption DEF RxTypes
  <1> QED BY <1>1, SlotFact, RxAssumption DEF RxTypes

(* The unmasked read index, masked. *)
LEMMA ReadSlot ==
  ASSUME RxTypes
  PROVE  Slot(readpos) = IF readpos = Size THEN 0 ELSE readpos
  <1>1. readpos \in -Size..2 * Size - 1
    BY RxAssumption DEF RxTypes
  <1> QED BY <1>1, SlotFact, RxAssumption DEF RxTypes

(* The i-th waiting container is in slot readpos + i - 1, wrapped at Size. *)
LEMMA SlotAtReadpos ==
  ASSUME RxTypes, NEW i \in 1..Size
  PROVE  Slot(readpos + i - 1) =
           IF readpos + i - 1 < Size THEN readpos + i - 1 ELSE readpos + i - 1 - Size
  <1>1. readpos + i - 1 \in -Size..2 * Size - 1
    BY RxAssumption DEF RxTypes
  <1>2. readpos + i - 1 >= 0 /\ readpos \in Int /\ i \in Int /\ Size \in Int
    BY RxAssumption DEF RxTypes
  <1>3. ASSUME NEW k \in -Size..2 * Size - 1, k >= 0
        PROVE  Slot(k) = IF k < Size THEN k ELSE k - Size
    BY <1>3, SlotFact, RxAssumption
  <1> QED BY ONLY <1>1, <1>2, <1>3

-----------------------------------------------------------------------------
(* The initial state.                                                      *)

(* The zeroed ring satisfies the invariant. *)
LEMMA InitInv == Init => RxInv
  <1> SUFFICES ASSUME Init PROVE RxInv
    OBVIOUS
  <1> USE RxAssumption DEF Init
  <1>1. RxTypes
    <2>1. <<>> \in Seq(Byte)
      OBVIOUS
    <2>2. last \in [item : Seq(Byte), parity : {0, 1}]
      BY <2>1
    <2>3. buffer \in [0..Size - 1 -> [1..FrameLen -> Byte]]
      OBVIOUS
    <2>4. sent = <<>> /\ Len(<<>>) = 0
      OBVIOUS
    <2>5. sent \in Seq(Byte) /\ Len(sent) <= FrameLen
      BY <2>1, <2>4
    <2>6. /\ frame \in Packets /\ hostpos = 0 /\ hostescape \in BOOLEAN
          /\ writepos = 0 /\ readpos = 0 /\ inpacket_pos = 0 /\ escape = 0
          /\ pc = "loop" /\ transmit_lock = 0 /\ burst = 0 /\ lost = 0 /\ damaged = 0
      OBVIOUS
    <2>7. Size \in Nat /\ Size > 1 /\ FrameLen \in Nat /\ MaxLoss \in Nat /\ Burst \in 0..1
      OBVIOUS
    <2> HIDE DEF Init
    <2> QED BY ONLY <2>2, <2>3, <2>5, <2>6, <2>7 DEF RxTypes
  <1>2. IndexInv /\ SentInv
    BY DEF IndexInv, SentInv
  <1>3. DecoderInv
    BY DEF DecoderInv, HostInv, DebtInv, Whole, Aligned
  <1> QED BY <1>1, <1>2, <1>3 DEF RxInv

-----------------------------------------------------------------------------
(* The line and the interrupt preserve the invariant.                      *)

(* A byte time keeps the host, the main loop and the counters well typed.  *)
LEMMA ByteTimeTypes ==
  ASSUME RxTypes, NEW arrived \in BOOLEAN, ByteTime(arrived)
  PROVE  /\ frame' \in Packets /\ hostpos' \in 0..FrameLen /\ hostescape' \in BOOLEAN
         /\ burst' \in 0..Burst /\ damaged' \in Nat
         /\ UNCHANGED <<readpos, pc, transmit_lock, sent, last>>
         /\ HostByte \in Byte
  <1> USE RxAssumption DEF RxTypes, ByteTime
  <1>1. frame' \in Packets /\ hostpos' \in 0..FrameLen /\ hostescape' \in BOOLEAN
    <2>1. hostescape' \in BOOLEAN
      BY DEF HostAdvances
    <2>2. \/ frame' \in Packets /\ hostpos' = 0
          \/ UNCHANGED <<frame, hostpos>>
          \/ hostpos # FrameLen /\ hostpos' = hostpos + 1 /\ UNCHANGED frame
      BY DEF HostAdvances, FrameDone
    <2> QED BY <2>1, <2>2
  <1>2. burst' \in 0..Burst /\ damaged' \in Nat
    OBVIOUS
  <1>3. HostByte \in Byte
    BY DEF HostByte, FrameDone, HostEscapes
  <1> QED BY <1>1, <1>2, <1>3 DEF main

(* The interrupt keeps the ring well typed. *)
LEMMA InterruptTypes ==
  ASSUME RxTypes, USART_RX
  PROVE  RxTypes'
  <1>1. PICK arrived \in BOOLEAN : ByteTime(arrived)
    BY DEF USART_RX, StoreByte, SetEscape, EndFrame, DropFrame, Arrives
  <1>2. lost' = lost
    BY DEF USART_RX, StoreByte, SetEscape, EndFrame, DropFrame, Arrives
  <1>3. /\ buffer' \in [0..Size - 1 -> [1..FrameLen -> Byte]]
        /\ inpacket_pos' \in 0..FrameLen /\ escape' \in {0, 1}
        /\ writepos' \in 0..Size - 1
    <2>1. CASE StoreByte
      <3>1. CASE inpacket_pos < FrameLen
        <4>1. inpacket_pos + 1 \in 1..FrameLen /\ writepos \in 0..Size - 1
          BY <3>1, RxAssumption DEF RxTypes
        <4>2. buffer' = [buffer EXCEPT ![writepos][inpacket_pos + 1] = HostByte]
          BY <2>1, <3>1 DEF StoreByte, Store
        <4>3. buffer' \in [0..Size - 1 -> [1..FrameLen -> Byte]]
          BY <1>1, <4>1, <4>2, ByteTimeTypes DEF RxTypes
        <4> QED BY <2>1, <3>1, <4>1, <4>3 DEF StoreByte, Store, RxTypes
      <3>2. CASE ~(inpacket_pos < FrameLen)
        BY <2>1, <3>2 DEF StoreByte, Store, RxTypes
      <3> QED BY <3>1, <3>2
    <2>2. CASE SetEscape \/ DropFrame
      BY <2>2, RxAssumption DEF SetEscape, DropFrame, RxTypes
    <2>3. CASE EndFrame
      BY <2>3, NextSlot, RxAssumption DEF EndFrame, RxTypes
    <2> QED BY <2>1, <2>2, <2>3 DEF USART_RX
  <1> QED BY <1>1, <1>2, <1>3, ByteTimeTypes DEF RxTypes

(* A lost byte moves only the host. *)
LEMMA OverrunTypes ==
  ASSUME RxTypes, Overrun
  PROVE  RxTypes'
  <1>1. PICK arrived \in BOOLEAN : ByteTime(arrived)
    BY DEF Overrun
  <1> QED BY <1>1, ByteTimeTypes, RxAssumption DEF Overrun, RxTypes

(* A byte of a frame leaves what is published alone. *)
LEMMA ByteIndex ==
  ASSUME RxTypes, RxTypes', IndexInv, NEW arrived \in BOOLEAN, ByteTime(arrived),
         UNCHANGED writepos
  PROVE  IndexInv'
  <1>1. UNCHANGED <<readpos, pc>> /\ (pc = "mask" => burst' # 0)
    BY RxAssumption DEF ByteTime, main, RxTypes
  <1> QED BY <1>1 DEF IndexInv, Waiting

(* A frame is published in front of the slot being read, or not at all. *)
LEMMA EndFrameIndex ==
  ASSUME RxTypes, RxTypes', IndexInv, EndFrame
  PROVE  IndexInv'
  <1>1. UNCHANGED <<readpos, pc>> /\ (pc = "mask" => burst' # 0)
    BY RxAssumption DEF EndFrame, Arrives, ByteTime, main, RxTypes
  <1> QED BY <1>1 DEF IndexInv, EndFrame

LEMMA InterruptIndex ==
  ASSUME RxTypes, RxTypes', IndexInv, USART_RX \/ Overrun
  PROVE  IndexInv'
  <1>1. CASE EndFrame
    BY <1>1, EndFrameIndex
  <1>2. CASE StoreByte \/ SetEscape \/ DropFrame \/ Overrun
    BY <1>2, ByteIndex DEF StoreByte, Store, SetEscape, DropFrame, Overrun, Arrives
  <1> QED BY <1>1, <1>2 DEF USART_RX

(* The interrupt stores into no slot that is being read. *)
LEMMA InterruptSent ==
  ASSUME RxTypes, IndexInv, SentInv, USART_RX \/ Overrun
  PROVE  SentInv'
  <1>1. UNCHANGED <<readpos, pc, sent>>
    BY DEF USART_RX, StoreByte, SetEscape, EndFrame, DropFrame, Overrun, Arrives, ByteTime, main
  <1>2. CASE pc \in {"transmit", "wait", "confirm"}
    <2>1. readpos \in 0..Size - 1 /\ readpos # writepos
      BY <1>2, RxAssumption DEF RxTypes, IndexInv
    <2>2. buffer'[readpos] = buffer[readpos]
      BY <2>1 DEF USART_RX, StoreByte, Store, SetEscape, EndFrame, DropFrame, Overrun, RxTypes
    <2> QED BY <1>1, <2>2 DEF SentInv
  <1>3. CASE pc \notin {"transmit", "wait", "confirm"}
    BY <1>1, <1>3 DEF SentInv
  <1> QED BY <1>2, <1>3

-----------------------------------------------------------------------------
(* The decoder keeps up with the host.                                     *)

(* The host is between an ESC and its byte only within a frame. *)
LEMMA HostKeepsInv ==
  ASSUME RxTypes, HostInv, HostAdvances
  PROVE  HostInv'
  BY DEF HostAdvances, HostInv, HostEscapes, FrameDone

(* A byte of a frame that both agree about finds the decoder where the     *)
(* host is, and leaves it there.                                           *)
LEMMA StoreKeepsWhole ==
  ASSUME RxTypes, ~FrameDone, ~HostEscapes, HostAdvances, Store, Whole
  PROVE  Whole'
  <1> USE RxAssumption
  <1>1. /\ inpacket_pos = hostpos /\ hostpos \in 0..FrameLen - 1
        /\ HostByte = frame[hostpos + 1]
    BY DEF RxTypes, FrameDone, Whole, HostByte
  <1>2. /\ buffer' = [buffer EXCEPT ![writepos][hostpos + 1] = frame[hostpos + 1]]
        /\ inpacket_pos' = hostpos + 1 /\ hostpos' = hostpos + 1
        /\ UNCHANGED <<frame, writepos>>
    BY <1>1 DEF Store, HostAdvances
  <1>3. escape' = 0 /\ hostescape' = FALSE
    BY DEF Store, HostAdvances
  <1>4. \A i \in 1..hostpos + 1 : buffer'[writepos][i] = frame[i]
    <2> TAKE i \in 1..hostpos + 1
    <2>1. /\ buffer[writepos] \in [1..FrameLen -> Byte] /\ writepos \in 0..Size - 1
          /\ i \in 1..FrameLen /\ buffer \in [0..Size - 1 -> [1..FrameLen -> Byte]]
      BY <1>1 DEF RxTypes
    <2>2. buffer'[writepos] = [buffer[writepos] EXCEPT ![hostpos + 1] = frame[hostpos + 1]]
      BY <1>2, <2>1
    <2>3. CASE i = hostpos + 1
      BY <2>1, <2>2, <2>3
    <2>4. CASE i # hostpos + 1
      <3>1. i \in 1..hostpos
        BY <1>1, <2>4
      <3> QED BY <2>1, <2>2, <2>4, <3>1 DEF Whole
    <2> QED BY <2>3, <2>4
  <1> QED BY <1>2, <1>3, <1>4 DEF Whole, Aligned

(* A byte in mid-frame costs nothing. *)
LEMMA DataDebt ==
  ASSUME RxTypes, HostInv, ~FrameDone, USART_RX, Aligned
  PROVE  Aligned' /\ (Whole => Whole')
  <1>1. HostAdvances
    BY DEF USART_RX, StoreByte, SetEscape, EndFrame, DropFrame, Arrives, ByteTime
  <1>2. CASE HostEscapes
    <2>1. escape = 0 /\ HostByte = ESC
      BY <1>2 DEF Aligned, HostEscapes, HostByte, RxTypes
    <2>2. SetEscape
      BY <2>1, RxAssumption DEF USART_RX, StoreByte, EndFrame, DropFrame
    <2>3. /\ escape' = 1 /\ hostescape' = TRUE
          /\ UNCHANGED <<frame, hostpos, buffer, writepos, inpacket_pos>>
      BY <1>1, <1>2, <2>2 DEF HostAdvances, SetEscape, HostEscapes
    <2> QED BY <2>3 DEF Aligned, Whole
  <1>3. CASE ~HostEscapes
    <2>1. HostByte = frame[hostpos + 1]
      BY <1>3 DEF HostByte
    <2>2. escape = 1 \/ HostByte \notin {END, ESC}
      BY <1>3, <2>1 DEF Aligned, HostEscapes, RxTypes
    <2>3. Store
      BY <2>2, RxAssumption DEF USART_RX, StoreByte, SetEscape, EndFrame, DropFrame
    <2>4. escape' = 0 /\ hostescape' = FALSE
      BY <1>1, <1>3, <2>3 DEF HostAdvances, Store
    <2>5. Aligned'
      BY <2>4 DEF Aligned
    <2> QED BY <1>1, <1>3, <2>3, <2>5, StoreKeepsWhole
  <1> QED BY <1>2, <1>3

(* The end of a frame costs what was owed for it. *)
LEMMA EndDebt ==
  ASSUME RxTypes, HostInv, FrameDone, USART_RX
  PROVE  \/ damaged' = damaged /\ Aligned' /\ Whole'
         \/ damaged' = damaged + 1 /\ ~Whole /\ Aligned' /\ Whole'
         \/ damaged' = damaged + 1 /\ ~Aligned /\ Aligned'
  <1> USE RxAssumption
  <1>1. /\ HostByte = END /\ hostescape = FALSE
        /\ hostpos' = 0 /\ hostescape' = FALSE
        /\ damaged' = IF Intact THEN damaged ELSE damaged + 1
    BY DEF USART_RX, StoreByte, SetEscape, EndFrame, DropFrame, Arrives, ByteTime,
           HostAdvances, HostByte, HostEscapes, HostInv, RxTypes
  <1>2. CASE escape = 1
    <2>1. damaged' = damaged + 1 /\ escape' = 0
      BY <1>1, <1>2 DEF Intact, USART_RX, StoreByte, Store, SetEscape, EndFrame, DropFrame
    <2> QED BY <1>1, <1>2, <2>1 DEF Aligned
  <1>3. CASE escape = 0
    <2>1. EndFrame \/ DropFrame
      BY <1>1, <1>3 DEF USART_RX, StoreByte, SetEscape
    <2>2. inpacket_pos' = 0 /\ escape' = 0
      BY <1>3, <2>1 DEF EndFrame, DropFrame
    <2>3. Aligned' /\ Whole'
      BY <1>1, <2>2 DEF Whole, Aligned
    <2>4. Whole => Intact
      <3> SUFFICES ASSUME Whole PROVE Intact
        OBVIOUS
      <3>1. frame \in [1..FrameLen -> Byte] /\ buffer[writepos] \in [1..FrameLen -> Byte]
        BY DEF RxTypes
      <3>2. \A i \in 1..FrameLen : buffer[writepos][i] = frame[i]
        BY DEF Whole, FrameDone
      <3>3. buffer[writepos] = frame
        BY <3>1, <3>2
      <3> QED BY <1>3, <3>3 DEF Whole, FrameDone, Intact
    <2> QED BY <1>1, <2>3, <2>4
  <1> QED BY <1>2, <1>3 DEF RxTypes

(* A lost byte damages the frame it ends and may leave the next one wrong. *)
LEMMA LossDebt ==
  ASSUME RxTypes, HostInv, Overrun
  PROVE  \/ damaged' = damaged
         \/ damaged' = damaged + 1 /\ (Aligned => Aligned')
  <1>1. HostAdvances /\ escape' = escape
    BY DEF Overrun, ByteTime
  <1>2. CASE ~FrameDone
    <2>1. damaged' = damaged
      BY <1>2 DEF Overrun, ByteTime
    <2> QED BY <2>1
  <1>3. CASE FrameDone
    <2>1. damaged' = damaged + 1
      BY <1>3 DEF Overrun, ByteTime
    <2>2. hostescape = FALSE /\ hostescape' = FALSE
      BY <1>1, <1>3 DEF HostAdvances, HostInv, HostEscapes, RxTypes
    <2> QED BY <1>1, <2>1, <2>2 DEF Aligned
  <1> QED BY <1>2, <1>3

(* The decoder owes no more than the lost bytes pay for. *)
LEMMA InterruptDecoder ==
  ASSUME RxTypes, DecoderInv, USART_RX \/ Overrun
  PROVE  DecoderInv'
  <1>1. HostAdvances
    BY DEF USART_RX, StoreByte, SetEscape, EndFrame, DropFrame, Overrun, Arrives, ByteTime
  <1>2. HostInv'
    BY <1>1, HostKeepsInv DEF DecoderInv
  <1>3. damaged \in Int /\ lost \in Int
    BY RxAssumption DEF RxTypes
  <1>4. DebtInv'
    <2>1. CASE Overrun
      <3>1. lost' = lost + 1
        BY <2>1 DEF Overrun
      <3> QED BY <1>3, <2>1, <3>1, LossDebt DEF DecoderInv, DebtInv, Whole
    <2>2. CASE USART_RX
      <3>1. lost' = lost
        BY <2>2 DEF USART_RX, StoreByte, SetEscape, EndFrame, DropFrame, Arrives
      <3>2. CASE FrameDone
        BY <1>3, <2>2, <3>1, <3>2, EndDebt DEF DecoderInv, DebtInv
      <3>3. CASE ~FrameDone
        <4>1. damaged' = damaged
          BY <2>2, <3>3 DEF USART_RX, StoreByte, SetEscape, EndFrame, DropFrame, Arrives, ByteTime
        <4>2. Whole => Aligned
          BY DEF Whole
        <4> QED BY <1>3, <2>2, <3>1, <3>3, <4>1, <4>2, DataDebt DEF DecoderInv, DebtInv
      <3> QED BY <3>2, <3>3
    <2> QED BY <2>1, <2>2
  <1> QED BY <1>2, <1>4 DEF DecoderInv

-----------------------------------------------------------------------------
(* The main loop preserves the invariant.                                  *)

(* It leaves host and decoder alone. *)
LEMMA MainDecoder ==
  ASSUME DecoderInv, MainStep \/ TxDone
  PROVE  DecoderInv'
  <1>1. UNCHANGED <<host, buffer, writepos, inpacket_pos, escape, lost, damaged>>
    BY DEF MainStep, GetRx, TransmitByte, WaitOver, TxDone, ConfirmRx, MaskRx, ring
  <1> QED BY <1>1 DEF host, DecoderInv, HostInv, DebtInv, FrameDone, Whole, Aligned

(* A container is taken up. *)
LEMMA GetRxInv ==
  ASSUME RxTypes, IndexInv, GetRx
  PROVE  RxTypes' /\ IndexInv' /\ SentInv'
  <1> USE RxAssumption
  <1>1. readpos \in 0..Size - 1 /\ readpos # writepos
    BY DEF GetRx, IndexInv, RxTypes
  <1>2. buffer[readpos] \in [1..FrameLen -> Byte]
    BY <1>1 DEF RxTypes
  <1>3. sent' = <<buffer[readpos][1]>> /\ buffer[readpos][1] \in Byte
    BY <1>2 DEF GetRx
  <1>4. UNCHANGED <<host, ring, last, burst, lost, damaged>>
    BY DEF GetRx
  <1>5. /\ pc' \in {"transmit", "confirm"}
        /\ pc' = "confirm" => buffer[readpos][1] # STANDARD
        /\ transmit_lock' \in {0, 1}
    BY DEF GetRx, RxTypes
  <1>6. sent' \in Seq(Byte) /\ Len(sent') = 1 /\ sent'[1] = buffer[readpos][1]
    BY <1>3
  <1>7. RxTypes'
    BY <1>4, <1>5, <1>6 DEF RxTypes, host, ring
  <1>8. IndexInv'
    BY <1>1, <1>4, <1>5 DEF IndexInv, ring
  <1>9. SentInv'
    <2>1. sent' = [i \in 1..1 |-> buffer[readpos][i]]
      BY <1>3
    <2> QED BY <1>4, <1>5, <1>6, <2>1 DEF SentInv, ring
  <1> QED BY <1>7, <1>8, <1>9

(* Appending the next element of f extends the prefix of f by one. *)
LEMMA AppendNext ==
  ASSUME NEW n \in Nat, NEW f
  PROVE  Append([i \in 1..n |-> f[i]], f[n + 1]) = [i \in 1..n + 1 |-> f[i]]
  OBVIOUS

(* One more byte is read out of the slot. *)
LEMMA TransmitByteInv ==
  ASSUME RxTypes, IndexInv, SentInv, TransmitByte
  PROVE  RxTypes' /\ IndexInv' /\ SentInv'
  <1> USE RxAssumption
  <1>1. readpos \in 0..Size - 1 /\ readpos # writepos
    BY DEF TransmitByte, IndexInv, RxTypes
  <1>2. buffer[readpos] \in [1..FrameLen -> Byte]
    BY <1>1 DEF RxTypes
  <1>3. /\ Len(sent) \in 1..FrameLen - 1
        /\ sent = [i \in 1..Len(sent) |-> buffer[readpos][i]]
    BY DEF TransmitByte, SentInv, RxTypes
  <1>4. /\ sent' = Append(sent, buffer[readpos][Len(sent) + 1])
        /\ UNCHANGED <<host, ring, transmit_lock, last, burst, lost, damaged>>
        /\ pc' = IF Len(sent') = FrameLen THEN "wait" ELSE "transmit"
    BY DEF TransmitByte
  <1>5. buffer[readpos][Len(sent) + 1] \in Byte
    BY <1>2, <1>3
  <1>6. sent' \in Seq(Byte) /\ Len(sent') = Len(sent) + 1
    BY <1>4, <1>5 DEF RxTypes
  <1>7. sent' = [i \in 1..Len(sent) + 1 |-> buffer[readpos][i]]
    <2>1. Len(sent) \in Nat
      BY <1>3
    <2> QED BY <1>3, <1>4, <2>1, AppendNext
  <1>8. RxTypes'
    BY <1>3, <1>4, <1>6 DEF RxTypes, host, ring
  <1>9. IndexInv'
    BY <1>1, <1>4 DEF IndexInv, ring
  <1>10. SentInv'
    <2>1. UNCHANGED <<buffer, readpos>>
      BY <1>4 DEF ring
    <2>2. sent' = [i \in 1..Len(sent') |-> buffer'[readpos'][i]]
      BY <1>6, <1>7, <2>1
    <2>3. Len(sent') >= 1
      BY <1>3, <1>6
    <2>4. pc' = "transmit" => Len(sent') < FrameLen
      BY <1>3, <1>4, <1>6
    <2>5. pc' # "confirm" /\ (pc' = "wait" => Len(sent') = FrameLen)
      BY <1>4
    <2> QED BY ONLY <2>2, <2>3, <2>4, <2>5 DEF SentInv
  <1> QED BY <1>8, <1>9, <1>10

(* Neither the end of the wait nor the radio's report moves anything else. *)
LEMMA WaitInv ==
  ASSUME RxTypes, IndexInv, SentInv, WaitOver \/ TxDone
  PROVE  RxTypes' /\ IndexInv' /\ SentInv'
  <1>1. /\ UNCHANGED <<host, ring, sent, last, burst, lost, damaged>>
        /\ pc = "wait" /\ pc' \in {"wait", "confirm"}
        /\ transmit_lock' \in {0, 1}
    BY DEF WaitOver, TxDone, Spinning, RxTypes
  <1>2. RxTypes'
    BY <1>1 DEF RxTypes, host, ring
  <1>3. IndexInv'
    BY <1>1 DEF IndexInv, ring
  <1>4. SentInv'
    BY <1>1 DEF SentInv, ring
  <1> QED BY <1>2, <1>3, <1>4

(* Confirming frees a slot before readpos is masked. *)
LEMMA ConfirmRxWaiting ==
  ASSUME RxTypes, IndexInv, ConfirmRx
  PROVE  readpos' \in 1..Size /\ Waiting \in 1..Size - 1 /\ Waiting' = Waiting - 1
  <1> USE RxAssumption
  <1>1. /\ readpos \in 0..Size - 1 /\ readpos # writepos
        /\ readpos' = readpos + 1 /\ writepos' = writepos
    BY DEF ConfirmRx, IndexInv, RxTypes
  <1>2. Waiting' = Slot(writepos - (readpos + 1))
    BY <1>1 DEF Waiting
  <1>3. writepos - (readpos + 1) \in -Size..2 * Size - 1
    BY <1>1 DEF RxTypes
  <1>4. Waiting' = IF writepos > readpos THEN writepos - readpos - 1
                   ELSE writepos - readpos - 1 + Size
    BY <1>1, <1>2, <1>3, SlotFact DEF RxTypes
  <1> QED BY <1>1, <1>4, WaitingFact DEF RxTypes

LEMMA ConfirmRxInv ==
  ASSUME RxTypes, IndexInv, SentInv, ConfirmRx
  PROVE  RxTypes' /\ IndexInv' /\ SentInv'
  <1> USE RxAssumption
  <1>1. readpos \in 0..Size - 1
    BY DEF ConfirmRx, IndexInv, RxTypes
  <1>2. buffer[readpos] \in Seq(Byte)
    <2>1. buffer[readpos] \in [1..FrameLen -> Byte]
      BY <1>1 DEF RxTypes
    <2> QED BY <2>1
  <1>3. last' \in [item : Seq(Byte), parity : {0, 1}]
    <2> DEFINE x == IF sent[1] = STANDARD THEN sent ELSE buffer[readpos]
    <2>1. x \in Seq(Byte)
      BY <1>2 DEF RxTypes
    <2>2. last' = [item |-> x, parity |-> 1 - last.parity]
      BY DEF ConfirmRx
    <2>3. 1 - last.parity \in {0, 1}
      BY DEF RxTypes
    <2> HIDE DEF x
    <2> QED BY <2>1, <2>2, <2>3
  <1>4. RxTypes'
    BY <1>3, ConfirmRxWaiting DEF ConfirmRx, host, RxTypes
  <1>5. IndexInv'
    BY ConfirmRxWaiting DEF ConfirmRx, IndexInv
  <1>6. SentInv'
    BY DEF ConfirmRx, SentInv
  <1> QED BY <1>4, <1>5, <1>6

(* The mask brings readpos back into the ring. *)
LEMMA MaskRxInv ==
  ASSUME RxTypes, IndexInv, MaskRx
  PROVE  RxTypes' /\ IndexInv' /\ SentInv'
  <1> USE RxAssumption
  <1>1. readpos' \in 0..Size - 1
    BY ReadSlot DEF MaskRx, RxTypes
  <1>2. <<>> \in Seq(Byte) /\ Len(<<>>) = 0
    OBVIOUS
  <1>3. RxTypes'
    BY <1>1, <1>2 DEF MaskRx, host, RxTypes
  <1> QED BY <1>1, <1>3 DEF MaskRx, IndexInv, SentInv

-----------------------------------------------------------------------------
(* The theorems about states.                                              *)

(* Every step preserves the invariant. *)
LEMMA NextInv ==
  ASSUME RxInv, [Next]_vars
  PROVE  RxInv'
  <1> USE DEF RxInv
  <1>1. CASE UNCHANGED vars
    BY <1>1 DEF vars, host, ring, main, RxTypes, IndexInv, SentInv, Waiting, DecoderInv,
                HostInv, DebtInv, FrameDone, Whole, Aligned
  <1>2. CASE MainStep \/ TxDone
    BY <1>2, GetRxInv, TransmitByteInv, WaitInv, ConfirmRxInv, MaskRxInv, MainDecoder DEF MainStep
  <1>3. CASE USART_RX \/ Overrun
    <2>1. RxTypes'
      BY <1>3, InterruptTypes, OverrunTypes
    <2> QED BY <1>3, <2>1, InterruptIndex, InterruptSent, InterruptDecoder
  <1> QED BY <1>1, <1>2, <1>3 DEF Next

(* The invariant of ring and decoder holds in every reachable state. *)
THEOREM RxInvariant == Spec => []RxInv
  BY InitInv, NextInv, PTL DEF Spec

(* A byte the line loses, whichever it is, costs the host at most two      *)
(* frames, however long frames are.                                        *)
THEOREM DamageIsBounded == Spec => []DamageBounded
  <1>1. RxInv => DamageBounded
    BY RxAssumption DEF RxInv, DecoderInv, DebtInv, DamageBounded
  <1> QED BY <1>1, RxInvariant, PTL

(* Every variable keeps its type: in particular the interrupt stores into  *)
(* no slot outside the ring and no byte behind a slot's end.               *)
THEOREM TypeCorrect == Spec => []TypeOK
  <1>1. RxInv => TypeOK
    BY RxAssumption DEF RxInv, RxTypes, DecoderInv, DebtInv, TypeOK
  <1> QED BY <1>1, RxInvariant, PTL

-----------------------------------------------------------------------------
(* The ring implements the drop-tail queue.                                *)

(* The slot the interrupt fills is not one of the published slots. *)
LEMMA FillIsPrivate ==
  ASSUME RxTypes, NEW i \in 1..Waiting
  PROVE  Slot(readpos + i - 1) \in 0..Size - 1 /\ Slot(readpos + i - 1) # writepos
  <1>1. i \in 1..Size /\ i \in Int /\ 1 <= i /\ i <= Waiting
    BY WaitingFact, RxAssumption
  <1>2. Slot(readpos + i - 1) =
          IF readpos + i - 1 < Size THEN readpos + i - 1 ELSE readpos + i - 1 - Size
    BY <1>1, SlotAtReadpos
  <1>3. /\ Size \in Int /\ Size >= 2
        /\ writepos \in 0..Size - 1 /\ readpos \in 0..Size
    BY RxAssumption DEF RxTypes
  <1>4. i <= IF writepos >= readpos THEN writepos - readpos ELSE writepos - readpos + Size
    BY <1>1, WaitingFact
  <1>5. CASE readpos + i - 1 < Size
    BY <1>1, <1>2, <1>3, <1>4, <1>5
  <1>6. CASE ~(readpos + i - 1 < Size)
    BY <1>1, <1>2, <1>3, <1>4, <1>6
  <1> QED BY <1>5, <1>6

(* Storing a byte leaves the queue unchanged. *)
LEMMA StoreKeepsQueue ==
  ASSUME RxTypes, StoreByte
  PROVE  RingQueue' = RingQueue
  <1>1. UNCHANGED <<readpos, writepos>>
    BY DEF StoreByte, Store, Arrives, ByteTime
  <1>2. Waiting' = Waiting
    BY <1>1 DEF Waiting
  <1>3. \A i \in 1..Waiting : buffer'[Slot(readpos + i - 1)] = buffer[Slot(readpos + i - 1)]
    BY FillIsPrivate DEF StoreByte, Store, RxTypes
  <1> QED BY <1>1, <1>2, <1>3 DEF RingQueue

(* The end of a frame is the abstract queue's Accept. *)
LEMMA EndFrameAccepts ==
  ASSUME RxTypes, IndexInv, EndFrame
  PROVE  Queue!Accept(buffer[writepos])
  <1> USE RxAssumption
  <1>1. UNCHANGED <<readpos, buffer, last, pc>> /\ writepos' = Slot(writepos + 1)
    BY DEF EndFrame, Arrives, ByteTime, main
  <1>2. Waiting < Size - 1
    <2>1. CASE pc = "mask"
      <3>1. burst = 0
        BY <2>1 DEF EndFrame, Arrives, ByteTime, RxTypes
      <3> QED BY <2>1, <3>1, WaitingFact DEF IndexInv
    <2>2. CASE pc # "mask"
      <3>1. readpos # Size /\ Slot(writepos + 1) # readpos
        BY <2>2 DEF IndexInv, EndFrame
      <3> QED BY <3>1, NextSlot, WaitingFact DEF RxTypes
    <2> QED BY <2>1, <2>2
  <1>3. Waiting' = Waiting + 1
    <2>1. Waiting' = Slot(writepos' - readpos)
      BY <1>1 DEF Waiting
    <2>2. writepos' \in 0..Size - 1
      BY <1>1, NextSlot DEF RxTypes
    <2>3. ASSUME NEW w \in 0..Size - 1
          PROVE  Slot(w - readpos) = IF w >= readpos THEN w - readpos ELSE w - readpos + Size
      <3>1. w - readpos \in -Size..2 * Size - 1
        BY DEF RxTypes
      <3> QED BY <3>1, SlotFact DEF RxTypes
    <2>4. Waiting' = IF writepos' >= readpos THEN writepos' - readpos
                     ELSE writepos' - readpos + Size
      BY <2>1, <2>2, <2>3
    <2>5. writepos' = IF writepos = Size - 1 THEN 0 ELSE writepos + 1
      BY <1>1, NextSlot
    <2>6. Waiting = IF writepos >= readpos THEN writepos - readpos
                    ELSE writepos - readpos + Size
      BY WaitingFact
    <2>7. CASE writepos = Size - 1
      BY <1>2, <2>4, <2>5, <2>6, <2>7 DEF RxTypes
    <2>8. CASE writepos # Size - 1
      BY <1>2, <2>4, <2>5, <2>6, <2>8 DEF RxTypes
    <2> QED BY <2>7, <2>8
  <1>4. Slot(readpos + (Waiting + 1) - 1) = writepos
    <2>1. Waiting + 1 \in 1..Size /\ Waiting \in Int
      BY WaitingFact
    <2>2. ASSUME NEW i \in 1..Size, i = Waiting + 1
          PROVE  Slot(readpos + i - 1) = writepos
      <3>1. Waiting = IF writepos >= readpos THEN writepos - readpos
                      ELSE writepos - readpos + Size
        BY WaitingFact
      <3>2. Slot(readpos + i - 1) =
              IF readpos + i - 1 < Size THEN readpos + i - 1 ELSE readpos + i - 1 - Size
        BY <2>2, SlotAtReadpos
      <3> QED BY <2>2, <3>1, <3>2 DEF RxTypes
    <2> QED BY <2>1, <2>2
  <1>5. RingQueue' = Append(RingQueue, buffer[writepos])
    <2> DEFINE f == [i \in 1..Waiting + 1 |-> buffer[Slot(readpos + i - 1)]]
    <2>1. Waiting \in Nat
      BY WaitingFact
    <2>2. RingQueue' = f
      BY <1>1, <1>3 DEF RingQueue
    <2>3. f[Waiting + 1] = buffer[writepos]
      BY <1>4, <2>1
    <2>4. RingQueue = [i \in 1..Waiting |-> f[i]]
      BY <2>1 DEF RingQueue
    <2>5. Append([i \in 1..Waiting |-> f[i]], f[Waiting + 1]) = [i \in 1..Waiting + 1 |-> f[i]]
      <3> HIDE DEF f
      <3> QED BY <2>1, AppendNext
    <2> QED BY <2>2, <2>3, <2>4, <2>5
  <1>6. Len(RingQueue) < Size - 1
    BY <1>2, WaitingFact DEF RingQueue
  <1> QED BY <1>1, <1>5, <1>6 DEF Queue!Accept

(* uartRxConfirm is the abstract queue's Deliver. *)
LEMMA ConfirmDelivers ==
  ASSUME RxTypes, IndexInv, SentInv, ConfirmRx
  PROVE  Queue!Deliver
  <1> USE RxAssumption
  <1>1. readpos \in 0..Size - 1 /\ readpos' = readpos + 1 /\ UNCHANGED buffer
    BY DEF ConfirmRx, IndexInv, RxTypes
  <1>2. Waiting \in 1..Size - 1 /\ Waiting' = Waiting - 1
    BY ConfirmRxWaiting
  <1>3. RingQueue # <<>> /\ Head(RingQueue) = buffer[readpos]
    <2>1. Slot(readpos) = readpos
      BY <1>1, ReadSlot
    <2>2. readpos + 1 - 1 = readpos
      BY <1>1
    <2>3. RingQueue[1] = buffer[Slot(readpos + 1 - 1)] /\ Len(RingQueue) = Waiting
      BY <1>2 DEF RingQueue
    <2> QED BY <1>2, <2>1, <2>2, <2>3
  <1>4. RingQueue' = Tail(RingQueue)
    <2>1. \A i \in 1..Waiting - 1 : readpos' + i - 1 = readpos + (i + 1) - 1
      BY <1>1, <1>2
    <2>2. Tail(RingQueue) = [i \in 1..Waiting - 1 |-> RingQueue[i + 1]]
      BY <1>2 DEF RingQueue
    <2>3. \A i \in 1..Waiting - 1 : RingQueue[i + 1] = buffer[Slot(readpos + (i + 1) - 1)]
      BY <1>2 DEF RingQueue
    <2>4. RingQueue' = [i \in 1..Waiting - 1 |-> buffer[Slot(readpos' + i - 1)]]
      BY <1>1, <1>2 DEF RingQueue
    <2> QED BY <2>1, <2>2, <2>3, <2>4
  <1>5. (IF sent[1] = STANDARD THEN sent ELSE buffer[readpos]) = buffer[readpos]
    <2>1. CASE sent[1] = STANDARD
      <3>1. sent = [i \in 1..FrameLen |-> buffer[readpos][i]]
        BY <2>1 DEF SentInv, ConfirmRx
      <3>2. buffer[readpos] \in [1..FrameLen -> Byte]
        BY <1>1 DEF RxTypes
      <3> QED BY <3>1, <3>2
    <2>2. CASE sent[1] # STANDARD
      BY <2>2
    <2> QED BY <2>1, <2>2
  <1>6. last' = [item |-> buffer[readpos], parity |-> 1 - last.parity]
    BY <1>5 DEF ConfirmRx
  <1> QED BY <1>3, <1>4, <1>6 DEF Queue!Deliver

(* The mask leaves the queue unchanged. *)
LEMMA MaskKeepsQueue ==
  ASSUME RxTypes, MaskRx
  PROVE  RingQueue' = RingQueue
  <1> USE RxAssumption
  <1>1. readpos' = IF readpos = Size THEN 0 ELSE readpos
    BY ReadSlot DEF MaskRx
  <1>2. UNCHANGED <<buffer, writepos>>
    BY DEF MaskRx
  <1>3. CASE readpos # Size
    BY <1>1, <1>2, <1>3 DEF RingQueue, Waiting
  <1>4. CASE readpos = Size
    <2>1. Waiting = writepos /\ readpos' = 0
      BY <1>1, <1>4, WaitingFact DEF RxTypes
    <2>2. Waiting' = writepos
      <3>1. Waiting' = Slot(writepos - 0) /\ writepos - 0 = writepos
        BY <1>2, <2>1 DEF Waiting, RxTypes
      <3>2. writepos \in -Size..2 * Size - 1
        BY DEF RxTypes
      <3> QED BY <3>1, <3>2, SlotFact DEF RxTypes
    <2>3. \A i \in 1..writepos : Slot(0 + i - 1) = Slot(readpos + i - 1)
      <3> SUFFICES ASSUME NEW i \in 1..writepos
                   PROVE  Slot(0 + i - 1) = Slot(readpos + i - 1)
        OBVIOUS
      <3>1. i \in 1..Size /\ i \in Int /\ i <= Size - 1
        BY DEF RxTypes
      <3>2. Slot(readpos + i - 1) = i - 1
        BY <1>4, <3>1, SlotAtReadpos
      <3>3. 0 + i - 1 \in -Size..2 * Size - 1 /\ 0 + i - 1 = i - 1
        BY <3>1
      <3>4. Slot(i - 1) = i - 1
        BY <3>1, <3>3, SlotFact
      <3> QED BY <3>2, <3>3, <3>4
    <2> QED BY <1>2, <2>1, <2>2, <2>3 DEF RingQueue
  <1> QED BY <1>3, <1>4

(* Every step is one of the abstract queue's or a stutter. *)
LEMMA StepRefines ==
  ASSUME RxInv, [Next]_vars
  PROVE  [Queue!Next]_(Queue!qvars)
  <1> USE DEF Queue!qvars, RxInv
  <1>1. CASE UNCHANGED vars \/ Overrun \/ SetEscape \/ DropFrame
    BY <1>1 DEF vars, ring, main, Overrun, SetEscape, DropFrame, Arrives, ByteTime,
                RingQueue, Waiting
  <1>2. CASE StoreByte
    BY <1>2, StoreKeepsQueue DEF StoreByte, Arrives, ByteTime, main
  <1>3. CASE EndFrame
    <2>1. buffer[writepos] \in [1..FrameLen -> Byte]
      BY DEF RxTypes
    <2> QED BY <1>3, <2>1, EndFrameAccepts DEF Queue!Next
  <1>4. CASE GetRx \/ TransmitByte \/ WaitOver \/ TxDone
    BY <1>4 DEF GetRx, TransmitByte, WaitOver, TxDone, ring, RingQueue, Waiting
  <1>5. CASE ConfirmRx
    BY <1>5, ConfirmDelivers DEF Queue!Next
  <1>6. CASE MaskRx
    BY <1>6, MaskKeepsQueue DEF MaskRx
  <1> QED BY <1>1, <1>2, <1>3, <1>4, <1>5, <1>6 DEF Next, MainStep, USART_RX

(* The receive ring implements the drop-tail queue: what the interrupt     *)
(* publishes is what the radio is given, once, in order and whole.         *)
THEOREM CapturedIsWhole == Spec => CapturedStaysWhole
  <1>1. Init => Queue!Init
    <2>1. ASSUME Init PROVE Waiting = 0
      BY <2>1, RxAssumption DEF Init, Waiting, Slot
    <2>2. ASSUME Init PROVE RingQueue = <<>>
      BY <2>1, <2>2 DEF RingQueue
    <2> QED BY <2>2 DEF Init, Queue!Init, Queue!NoDelivery
  <1> QED BY <1>1, RxInvariant, StepRefines, PTL DEF CapturedStaysWhole, Queue!Spec, Spec
=============================================================================
