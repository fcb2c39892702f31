---------------------------- MODULE SerialTxProofs ----------------------------
(***************************************************************************)
(* For every ring size, frame length, alphabet and set of packets: the     *)
(* transmit ring is type correct, loses no wakeup, and implements the      *)
(* drop-tail queue of whole frames.                                        *)
(***************************************************************************)
EXTENDS SerialTx, TLAPS

-----------------------------------------------------------------------------
(* Index arithmetic.                                                       *)

(* The mask is one subtraction for the indices the ring computes. *)
LEMMA SlotFact ==
  ASSUME NEW i \in 0..2 * Size - 1
  PROVE  Slot(i) = IF i < Size THEN i ELSE i - Size
  BY TxAssumption DEF Slot

(* A masked index names a slot. *)
LEMMA SlotRange ==
  ASSUME NEW i \in 0..2 * Size - 1
  PROVE  Slot(i) \in 0..Size - 1
  BY SlotFact, TxAssumption

-----------------------------------------------------------------------------
(* The host's decoder.                                                     *)

(* A byte on the line keeps the host's decoder well typed. *)
LEMMA HostTypes ==
  ASSUME TypeOK, NEW b \in Byte, HostByte(b)
  PROVE  /\ line' \in [frame : Seq(Byte), escaped : BOOLEAN]
         /\ last' \in [item : Seq(Byte), parity : {0, 1}]
  <1>1. /\ Append(line.frame, b) \in Seq(Byte)
        /\ line.frame \in Seq(Byte)
        /\ <<>> \in Seq(Byte)
        /\ 1 - last.parity \in {0, 1}
    BY DEF TypeOK
  <1>2. \/ line' = [frame |-> Append(line.frame, b), escaped |-> FALSE]
        \/ line' = [frame |-> <<>>, escaped |-> FALSE]
        \/ line' = [frame |-> line.frame, escaped |-> TRUE]
    BY DEF HostByte
  <1>3. last' = last \/ last' = [item |-> line.frame, parity |-> 1 - last.parity]
    BY DEF HostByte
  <1>4. line' \in [frame : Seq(Byte), escaped : BOOLEAN]
    <2>1. CASE line' = [frame |-> Append(line.frame, b), escaped |-> FALSE]
      BY <1>1, <2>1
    <2>2. CASE line' = [frame |-> <<>>, escaped |-> FALSE]
      BY <1>1, <2>2
    <2>3. CASE line' = [frame |-> line.frame, escaped |-> TRUE]
      BY <1>1, <2>3
    <2> QED BY <1>2, <2>1, <2>2, <2>3
  <1>5. last' \in [item : Seq(Byte), parity : {0, 1}]
    <2>1. CASE last' = last
      BY <2>1 DEF TypeOK
    <2>2. CASE last' = [item |-> line.frame, parity |-> 1 - last.parity]
      BY <1>1, <2>2
    <2> QED BY <1>3, <2>1, <2>2
  <1> QED BY <1>4, <1>5

(* The byte the interrupt looks at is one of the slot's. *)
LEMMA CurrentByte ==
  ASSUME TypeOK, InFrame
  PROVE  Current \in Byte
  BY TxAssumption DEF TypeOK, InFrame, Current

(* Appending the next element of f extends the prefix of f by one. *)
LEMMA AppendNext ==
  ASSUME NEW n \in Nat, NEW f
  PROVE  Append([i \in 1..n |-> f[i]], f[n + 1]) = [i \in 1..n + 1 |-> f[i]]
  OBVIOUS

(* An escape byte leaves the frame alone and sets the flag. *)
LEMMA HostEscape ==
  ASSUME RingInv, SendEscape
  PROVE  /\ line' = [frame |-> line.frame, escaped |-> TRUE]
         /\ last' = last
  BY TxAssumption DEF RingInv, LineInv, SendEscape, NeedsEscape, HostByte

(* A data byte extends the host's frame by the byte of the slot. *)
LEMMA HostData ==
  ASSUME RingInv, SendByte
  PROVE  /\ line' = [frame |-> [i \in 1..inpacket_pos + 1 |-> buffer[readpos][i]],
                     escaped |-> FALSE]
         /\ last' = last
  <1>1. /\ line' = [frame |-> Append(line.frame, Current), escaped |-> FALSE]
        /\ last' = last
    BY DEF RingInv, TypeOK, LineInv, SendByte, NeedsEscape, HostByte
  <1>2. Append(line.frame, Current) = [i \in 1..inpacket_pos + 1 |-> buffer[readpos][i]]
    <2>1. inpacket_pos \in Nat
      BY TxAssumption DEF RingInv, TypeOK
    <2> QED BY <2>1, AppendNext DEF RingInv, LineInv, Current
  <1> QED BY <1>1, <1>2

(* An END completes the host's frame, which is then the whole slot. *)
LEMMA HostEnd ==
  ASSUME RingInv, SendEnd
  PROVE  /\ line' = [frame |-> <<>>, escaped |-> FALSE]
         /\ last' = [item |-> buffer[readpos], parity |-> 1 - last.parity]
         /\ inpacket_pos = FrameLen
  <1>1. inpacket_pos = FrameLen /\ ~line.escaped
    BY TxAssumption DEF RingInv, TypeOK, LineInv, SendEnd
  <1>2. /\ line' = [frame |-> <<>>, escaped |-> FALSE]
        /\ last' = [item |-> line.frame, parity |-> 1 - last.parity]
    BY <1>1, TxAssumption DEF SendEnd, HostByte
  <1>3. line.frame = buffer[readpos]
    <2>1. buffer[readpos] \in [1..FrameLen -> Byte]
      BY DEF RingInv, TypeOK
    <2> QED BY <1>1, <2>1 DEF RingInv, LineInv
  <1> QED BY <1>1, <1>2, <1>3

-----------------------------------------------------------------------------
(* uartInit establishes the invariant. *)
LEMMA InitInv == Init => RingInv
  <1> SUFFICES ASSUME Init PROVE RingInv
    OBVIOUS
  <1> USE TxAssumption DEF Init
  <1>1. TypeOK
    <2>1. <<>> \in Seq(Byte)
      OBVIOUS
    <2>2. buffer \in [0..Size - 1 -> [1..FrameLen -> Byte]]
      OBVIOUS
    <2>3. line \in [frame : Seq(Byte), escaped : BOOLEAN]
      BY <2>1
    <2>4. last \in [item : Seq(Byte), parity : {0, 1}]
      BY <2>1
    <2>5. /\ writepos \in 0..Size /\ readpos \in 0..Size - 1
          /\ inpacket_pos \in 0..FrameLen /\ escape \in {0, 1}
          /\ filled \in 0..FrameLen /\ burst \in 0..Burst
      OBVIOUS
    <2>6. /\ udrie \in BOOLEAN /\ packet \in Packets
          /\ pc \in {"loop", "fill", "check", "advance", "mask", "enable"}
      OBVIOUS
    <2> QED BY ONLY <2>2, <2>3, <2>4, <2>5, <2>6 DEF TypeOK
  <1>2. IndexInv /\ FillInv /\ NoLostWakeup
    BY DEF IndexInv, FillInv, NoLostWakeup
  <1>3. LineInv
    <2>1. <<>> = [i \in 1..0 |-> buffer[readpos][i]]
      OBVIOUS
    <2> QED BY <2>1 DEF LineInv
  <1> QED BY <1>1, <1>2, <1>3 DEF RingInv
-----------------------------------------------------------------------------
(* Every step preserves the ring invariant.                                *)

(* Taking the slot at writepos for a packet stores nothing yet. *)
LEMMA GetTxInv ==
  ASSUME RingInv, NEW p \in Packets, GetTx(p)
  PROVE  RingInv'
  <1> USE TxAssumption DEF GetTx, RingInv, ring, host
  <1>1. TypeOK'
    BY DEF TypeOK
  <1>2. IndexInv' /\ NoLostWakeup'
    BY DEF IndexInv, NoLostWakeup, TypeOK
  <1>3. FillInv'
    BY DEF FillInv, TypeOK
  <1>4. LineInv'
    BY DEF LineInv, Current
  <1> QED BY <1>1, <1>2, <1>3, <1>4

(* Storing a byte touches the unpublished slot only. *)
LEMMA FillTxInv ==
  ASSUME RingInv, FillTx
  PROVE  RingInv'
  <1> USE TxAssumption DEF FillTx, RingInv, host
  <1>0. /\ writepos \in 0..Size - 1 /\ filled + 1 \in 1..FrameLen
        /\ packet[filled + 1] \in Byte
    BY DEF TypeOK, IndexInv, FillInv
  <1>1. TypeOK'
    <2>1. buffer' \in [0..Size - 1 -> [1..FrameLen -> Byte]]
      BY ONLY TypeOK, FillTx, <1>0 DEF TypeOK, FillTx
    <2> QED BY <1>0, <2>1 DEF TypeOK
  <1>2. IndexInv' /\ NoLostWakeup'
    BY DEF IndexInv, NoLostWakeup, TypeOK
  <1>3. FillInv'
    <2>1. \A i \in 1..filled' : buffer'[writepos][i] = packet[i]
      BY <1>0 DEF FillInv, TypeOK
    <2> QED BY <1>0, <2>1 DEF FillInv, TypeOK
  <1>4. LineInv'
    <2>1. CASE readpos = writepos
      <3>1. inpacket_pos = 0 /\ escape = 0
        BY <2>1 DEF LineInv
      <3>2. line.frame = [i \in 1..0 |-> buffer'[readpos][i]]
        BY <3>1 DEF LineInv
      <3> QED BY <3>1, <3>2 DEF LineInv
    <2>2. CASE readpos # writepos
      <3>1. buffer'[readpos] = buffer[readpos]
        BY <1>0, <2>2 DEF TypeOK
      <3>2. line.frame = [i \in 1..inpacket_pos |-> buffer'[readpos][i]]
        BY <3>1 DEF LineInv
      <3> QED BY <2>2, <3>1, <3>2 DEF LineInv, Current
    <2> QED BY <2>1, <2>2
  <1> QED BY <1>1, <1>2, <1>3, <1>4

(* Giving up a half-filled slot leaves the ring alone. *)
LEMMA ReceiveFailsInv ==
  ASSUME RingInv, ReceiveFails
  PROVE  RingInv'
  <1> USE TxAssumption DEF ReceiveFails, RingInv, ring, host
  <1>1. TypeOK'
    BY DEF TypeOK
  <1>2. IndexInv' /\ FillInv' /\ NoLostWakeup'
    BY DEF IndexInv, FillInv, NoLostWakeup, TypeOK
  <1>3. LineInv'
    BY DEF LineInv, Current
  <1> QED BY <1>1, <1>2, <1>3

(* The test for room decides and changes nothing. *)
LEMMA CheckTxInv ==
  ASSUME RingInv, CheckTx
  PROVE  RingInv'
  <1> USE TxAssumption DEF CheckTx, RingInv, ring, host
  <1>1. TypeOK'
    BY DEF TypeOK
  <1>2. IndexInv' /\ FillInv' /\ NoLostWakeup'
    BY DEF IndexInv, FillInv, NoLostWakeup, TypeOK
  <1>3. LineInv'
    BY DEF LineInv, Current
  <1> QED BY <1>1, <1>2, <1>3

(* Publishing the slot: writepos may be out of range until the mask. *)
LEMMA AdvanceTxInv ==
  ASSUME RingInv, AdvanceTx
  PROVE  RingInv'
  <1> USE TxAssumption DEF AdvanceTx, RingInv, host
  <1>0. writepos \in 0..Size - 1
    BY DEF TypeOK, IndexInv
  <1>1. TypeOK'
    BY <1>0 DEF TypeOK
  <1>2. IndexInv'
    <2>1. writepos = Size - 1 => readpos # 0
      <3>1. Slot(Size) = 0
        BY SlotFact
      <3> QED BY <3>1 DEF IndexInv
    <2>2. writepos = Size - 1 /\ readpos = Size - 1 => inpacket_pos = 0
      BY DEF LineInv
    <2> QED BY <1>0, <2>1, <2>2 DEF IndexInv, TypeOK
  <1>3. FillInv' /\ NoLostWakeup'
    BY DEF FillInv, NoLostWakeup, TypeOK
  <1>4. LineInv'
    <2>1. readpos # writepos + 1
      <3>1. Slot(writepos + 1) # readpos
        BY DEF IndexInv
      <3> QED BY <1>0, <3>1, SlotFact DEF TypeOK
    <2> QED BY <2>1 DEF LineInv, Current
  <1> QED BY <1>1, <1>2, <1>3, <1>4

(* The mask brings writepos back before the interrupt can reach it. *)
LEMMA MaskTxInv ==
  ASSUME RingInv, MaskTx
  PROVE  RingInv'
  <1> USE TxAssumption DEF MaskTx, RingInv, host
  <1>0. /\ Slot(writepos) \in 0..Size - 1
        /\ readpos = Slot(writepos) <=> readpos = writepos
    BY SlotFact DEF TypeOK, IndexInv
  <1>1. TypeOK'
    BY <1>0 DEF TypeOK
  <1>2. IndexInv' /\ FillInv' /\ NoLostWakeup'
    BY <1>0 DEF IndexInv, FillInv, NoLostWakeup, TypeOK
  <1>3. LineInv'
    BY <1>0 DEF LineInv, Current
  <1> QED BY <1>1, <1>2, <1>3

(* Enabling the interrupt restores the wake-up. *)
LEMMA EnableTxInv ==
  ASSUME RingInv, EnableTx
  PROVE  RingInv'
  <1> USE TxAssumption DEF EnableTx, RingInv, host
  <1>1. TypeOK'
    BY DEF TypeOK
  <1>2. IndexInv' /\ FillInv' /\ NoLostWakeup'
    BY DEF IndexInv, FillInv, NoLostWakeup, TypeOK
  <1>3. LineInv'
    BY DEF LineInv, Current
  <1> QED BY <1>1, <1>2, <1>3

(* What every interrupt leaves alone, and how it counts in a burst. *)
LEMMA InterruptFrame ==
  ASSUME RingInv, Interrupt
  PROVE  /\ burst' \in 0..Burst
         /\ pc = "mask" => burst < FrameLen /\ burst' = burst + 1
         /\ UNCHANGED <<pc, packet, filled>>
  BY TxAssumption DEF RingInv, TypeOK, Interrupt, main

(* An escape byte: the host remembers it as the ring does. *)
LEMMA SendEscapeInv ==
  ASSUME RingInv, SendEscape
  PROVE  RingInv'
  <1> USE TxAssumption DEF RingInv
  <1>0. Interrupt
    BY DEF SendEscape
  <1>1. TypeOK'
    <2>1. HostByte(ESC) /\ ESC \in Byte
      BY DEF SendEscape
    <2> QED BY <1>0, <2>1, InterruptFrame, HostTypes DEF SendEscape, TypeOK
  <1>2. IndexInv' /\ FillInv' /\ NoLostWakeup'
    BY <1>0, InterruptFrame DEF SendEscape, IndexInv, FillInv, NoLostWakeup, TypeOK
  <1>3. LineInv'
    <2>1. line'.frame = line.frame /\ line'.escaped = TRUE
      BY HostEscape
    <2>2. escape' = 1 /\ UNCHANGED <<buffer, readpos, writepos, inpacket_pos>>
      BY DEF SendEscape
    <2>3. readpos # writepos /\ inpacket_pos < FrameLen /\ Current \in {END, ESC}
      BY DEF SendEscape, InFrame, NeedsEscape
    <2> QED BY <2>1, <2>2, <2>3 DEF LineInv, Current
  <1> QED BY <1>1, <1>2, <1>3

(* A data byte: host and ring advance together. *)
LEMMA SendByteInv ==
  ASSUME RingInv, SendByte
  PROVE  RingInv'
  <1> USE TxAssumption DEF RingInv
  <1>0. Interrupt /\ InFrame
    BY DEF SendByte
  <1>1. TypeOK'
    <2>1. HostByte(Current) /\ Current \in Byte
      BY <1>0, CurrentByte DEF SendByte
    <2> QED BY <1>0, <2>1, InterruptFrame, HostTypes DEF SendByte, InFrame, TypeOK
  <1>2. IndexInv' /\ FillInv' /\ NoLostWakeup'
    BY <1>0, InterruptFrame DEF SendByte, IndexInv, FillInv, NoLostWakeup, TypeOK
  <1>3. LineInv'
    <2>1. /\ inpacket_pos' = inpacket_pos + 1 /\ escape' = 0
          /\ UNCHANGED <<buffer, readpos, writepos>>
      BY DEF SendByte
    <2>2. line' = [frame |-> [i \in 1..inpacket_pos' |-> buffer'[readpos'][i]],
                   escaped |-> FALSE]
      BY <2>1, HostData
    <2> QED BY <1>0, <2>1, <2>2 DEF LineInv, InFrame
  <1> QED BY <1>1, <1>2, <1>3

(* An END: the interrupt goes on to the next slot. *)
LEMMA SendEndInv ==
  ASSUME RingInv, SendEnd
  PROVE  RingInv'
  <1> USE TxAssumption DEF RingInv
  <1>0. Interrupt /\ readpos # writepos
    BY DEF SendEnd
  <1>1. /\ readpos' = IF readpos = Size - 1 THEN 0 ELSE readpos + 1
        /\ readpos' \in 0..Size - 1
    BY SlotFact DEF SendEnd, TypeOK
  <1>2. TypeOK'
    <2>1. HostByte(END) /\ END \in Byte
      BY DEF SendEnd
    <2> QED BY <1>0, <1>1, <2>1, InterruptFrame, HostTypes DEF SendEnd, TypeOK
  <1>3. IndexInv'
    <2>1. writepos = Size => readpos # Size - 1
      BY <1>0, HostEnd, InterruptFrame DEF IndexInv, TypeOK
    <2>2. pc = "advance" => Slot(writepos + 1) # readpos'
      BY <1>0, <1>1, SlotFact DEF IndexInv, TypeOK
    <2> QED BY <1>0, <1>1, <2>1, <2>2, InterruptFrame DEF SendEnd, IndexInv, TypeOK
  <1>4. FillInv' /\ NoLostWakeup'
    BY <1>0, InterruptFrame DEF SendEnd, Interrupt, FillInv, NoLostWakeup, TypeOK
  <1>5. LineInv'
    <2>1. <<>> = [i \in 1..0 |-> buffer'[readpos'][i]]
      OBVIOUS
    <2> QED BY <2>1, HostEnd DEF SendEnd, LineInv
  <1> QED BY <1>2, <1>3, <1>4, <1>5

(* The interrupt disables itself only when nothing is published. *)
LEMMA DisableTxInv ==
  ASSUME RingInv, DisableTx
  PROVE  RingInv'
  <1> USE TxAssumption DEF RingInv
  <1>0. Interrupt
    BY DEF DisableTx
  <1>1. TypeOK'
    BY <1>0, InterruptFrame DEF DisableTx, host, TypeOK
  <1>2. IndexInv' /\ FillInv' /\ NoLostWakeup'
    BY <1>0, InterruptFrame DEF DisableTx, IndexInv, FillInv, NoLostWakeup, TypeOK
  <1>3. LineInv'
    BY DEF DisableTx, host, LineInv, Current
  <1> QED BY <1>1, <1>2, <1>3

(* Every step preserves the ring invariant. *)
LEMMA NextInv ==
  ASSUME RingInv, [Next]_vars
  PROVE  RingInv'
  <1>1. CASE UNCHANGED vars
    BY <1>1 DEF vars, ring, main, host, RingInv, TypeOK, IndexInv, FillInv,
                LineInv, NoLostWakeup, Current
  <1>2. CASE MainStep
    BY <1>2, FillTxInv, ReceiveFailsInv, CheckTxInv, AdvanceTxInv, MaskTxInv,
       EnableTxInv DEF MainStep
  <1>3. CASE USART_UDRE
    BY <1>3, SendEscapeInv, SendByteInv, SendEndInv, DisableTxInv DEF USART_UDRE
  <1>4. CASE \E p \in Packets : GetTx(p)
    BY <1>4, GetTxInv
  <1> QED BY <1>1, <1>2, <1>3, <1>4 DEF Next

(* The ring invariant holds in every reachable state. *)
THEOREM RingInvariant == Spec => []RingInv
  BY InitInv, NextInv, PTL DEF Spec

(* Every variable keeps its type: in particular writepos never passes Size *)
(* and readpos, which the interrupt indexes the ring with, stays in range. *)
THEOREM TypeCorrect == Spec => []TypeOK
  BY RingInvariant, PTL DEF RingInv

(* No published packet waits with the transmit interrupt switched off.     *)
THEOREM NoWakeupIsLost == Spec => []NoLostWakeup
  BY RingInvariant, PTL DEF RingInv
-----------------------------------------------------------------------------
(* The ring implements the drop-tail queue.                                *)

(* One slot is never published: it is the one being filled. *)
LEMMA WaitingRange ==
  ASSUME RingInv
  PROVE  Waiting \in 0..Size - 1
  BY TxAssumption DEF RingInv, TypeOK, IndexInv, Waiting

(* The i-th waiting packet is in slot readpos + i - 1, wrapped at Size. *)
LEMMA SlotAtReadpos ==
  ASSUME RingInv, NEW i \in 1..Waiting
  PROVE  Slot(readpos + i - 1) =
           IF readpos + i - 1 < Size THEN readpos + i - 1 ELSE readpos + i - 1 - Size
  <1>1. readpos \in Int /\ i \in Int /\ Size \in Int
    BY TxAssumption, WaitingRange DEF RingInv, TypeOK
  <1>2. readpos + i - 1 \in 0..2 * Size - 1
    BY TxAssumption, WaitingRange DEF RingInv, TypeOK
  <1> QED BY <1>1, <1>2, SlotFact

(* The slot being filled is not one of the published slots. *)
LEMMA FillIsPrivate ==
  ASSUME RingInv, writepos < Size, NEW i \in 1..Waiting
  PROVE  Slot(readpos + i - 1) # writepos
  <1>1. i \in Int /\ 1 <= i /\ i <= Waiting
    BY WaitingRange
  <1>2. Slot(readpos + i - 1) =
          IF readpos + i - 1 < Size THEN readpos + i - 1 ELSE readpos + i - 1 - Size
    BY SlotAtReadpos
  <1> QED BY <1>1, <1>2, TxAssumption DEF RingInv, TypeOK, Waiting

(* Storing a byte leaves the queue unchanged. *)
LEMMA FillKeepsQueue ==
  ASSUME RingInv, FillTx
  PROVE  RingQueue' = RingQueue
  <1>1. writepos < Size
    BY TxAssumption DEF RingInv, TypeOK, IndexInv, FillTx
  <1>2. \A i \in 1..Waiting : buffer'[Slot(readpos + i - 1)] = buffer[Slot(readpos + i - 1)]
    <2> TAKE i \in 1..Waiting
    <2>1. Slot(readpos + i - 1) \in 0..Size - 1
      <3>1. i \in Int /\ 1 <= i /\ i <= Size - 1
        BY WaitingRange, TxAssumption
      <3>2. Slot(readpos + i - 1) =
              IF readpos + i - 1 < Size THEN readpos + i - 1 ELSE readpos + i - 1 - Size
        BY SlotAtReadpos
      <3> QED BY <3>1, <3>2, TxAssumption DEF RingInv, TypeOK
    <2> QED BY <1>1, <2>1, FillIsPrivate DEF RingInv, TypeOK, FillTx
  <1>3. UNCHANGED <<readpos, Waiting>>
    BY DEF FillTx, Waiting
  <1> QED BY <1>2, <1>3 DEF RingQueue

(* The mask leaves the queue unchanged. *)
LEMMA MaskKeepsQueue ==
  ASSUME RingInv, MaskTx
  PROVE  RingQueue' = RingQueue
  <1>1. Slot(writepos) = IF writepos < Size THEN writepos ELSE 0
    BY SlotFact, TxAssumption DEF RingInv, TypeOK
  <1>2. Waiting' = Waiting
    BY <1>1, TxAssumption DEF RingInv, TypeOK, IndexInv, MaskTx, Waiting
  <1>3. UNCHANGED <<readpos, buffer>>
    BY DEF MaskTx
  <1> QED BY <1>2, <1>3 DEF RingQueue

(* Incrementing writepos is the abstract queue's Accept. *)
LEMMA AdvanceAccepts ==
  ASSUME RingInv, AdvanceTx
  PROVE  Queue!Accept(packet)
  <1> USE TxAssumption
  <1>1. /\ writepos < Size /\ writepos' = writepos + 1
        /\ writepos + 1 # readpos
    BY SlotFact DEF RingInv, TypeOK, IndexInv, AdvanceTx
  <1>2. Waiting' = Waiting + 1
    BY <1>1 DEF RingInv, TypeOK, AdvanceTx, Waiting
  <1>3. Waiting < Size - 1
    <2>1. writepos = Size - 1 => readpos # 0
      <3>1. Slot(Size) = 0
        BY SlotFact
      <3> QED BY <3>1 DEF RingInv, IndexInv, AdvanceTx
    <2> QED BY <1>1, <2>1 DEF RingInv, TypeOK, Waiting
  <1>4. Slot(readpos + Waiting) = writepos
    <2>1. readpos + Waiting \in 0..2 * Size - 1
      BY WaitingRange DEF RingInv, TypeOK
    <2> QED BY <1>1, <2>1, SlotFact DEF RingInv, TypeOK, Waiting
  <1>5. buffer[writepos] = packet
    <2>1. buffer[writepos] \in [1..FrameLen -> Byte]
      BY <1>1 DEF RingInv, TypeOK
    <2>2. packet \in [1..FrameLen -> Byte]
      BY DEF RingInv, TypeOK
    <2>3. \A i \in 1..FrameLen : buffer[writepos][i] = packet[i]
      BY DEF RingInv, FillInv, AdvanceTx
    <2> QED BY <2>1, <2>2, <2>3
  <1>6. RingQueue' = Append(RingQueue, packet)
    <2> DEFINE f == [i \in 1..Waiting + 1 |-> buffer[Slot(readpos + i - 1)]]
    <2>1. Waiting \in Nat
      BY WaitingRange
    <2>2. RingQueue' = f
      BY <1>2 DEF AdvanceTx, RingQueue
    <2>3. f[Waiting + 1] = packet
      BY <1>4, <1>5, <2>1
    <2>4. RingQueue = [i \in 1..Waiting |-> f[i]]
      BY <2>1 DEF RingQueue
    <2>5. Append([i \in 1..Waiting |-> f[i]], f[Waiting + 1]) = [i \in 1..Waiting + 1 |-> f[i]]
      <3> HIDE DEF f
      <3> QED BY <2>1, AppendNext
    <2> QED BY <2>2, <2>3, <2>4, <2>5
  <1>7. Len(RingQueue) < Size - 1
    BY <1>3, WaitingRange DEF RingQueue
  <1> QED BY <1>6, <1>7 DEF Queue!Accept, AdvanceTx, host

(* An END is the abstract queue's Deliver. *)
LEMMA EndDelivers ==
  ASSUME RingInv, SendEnd
  PROVE  Queue!Deliver
  <1> USE TxAssumption
  <1>1. readpos' = IF readpos = Size - 1 THEN 0 ELSE readpos + 1
    BY SlotFact DEF RingInv, TypeOK, SendEnd
  <1>2. writepos = Size => readpos # Size - 1
    BY HostEnd, InterruptFrame DEF RingInv, TypeOK, IndexInv, SendEnd
  <1>3. Waiting \in 1..Size - 1 /\ Waiting' = Waiting - 1
    <2>1. /\ readpos # writepos /\ writepos' = writepos
          /\ writepos = Size => readpos # 0
      BY DEF SendEnd, RingInv, IndexInv
    <2>2. readpos \in 0..Size - 1 /\ writepos \in 0..Size
      BY DEF RingInv, TypeOK
    <2> QED BY <1>1, <1>2, <2>1, <2>2 DEF Waiting
  <1>4. RingQueue # <<>> /\ Head(RingQueue) = buffer[readpos]
    <2>1. Slot(readpos) = readpos
      BY SlotFact DEF RingInv, TypeOK
    <2>2. RingQueue[1] = buffer[Slot(readpos + 1 - 1)]
      BY <1>3 DEF RingQueue
    <2>3. Len(RingQueue) = Waiting
      BY <1>3 DEF RingQueue
    <2>4. readpos + 1 - 1 = readpos
      BY DEF RingInv, TypeOK
    <2> QED BY <1>3, <2>1, <2>2, <2>3, <2>4
  <1>5. RingQueue' = Tail(RingQueue)
    <2>1. \A i \in 1..Waiting - 1 : Slot(readpos' + i - 1) = Slot(readpos + (i + 1) - 1)
      BY <1>1, <1>3, SlotFact DEF RingInv, TypeOK
    <2>2. Tail(RingQueue) = [i \in 1..Waiting - 1 |-> RingQueue[i + 1]]
      BY <1>3 DEF RingQueue
    <2>3. \A i \in 1..Waiting - 1 : RingQueue[i + 1] = buffer[Slot(readpos + (i + 1) - 1)]
      BY <1>3 DEF RingQueue
    <2>4. RingQueue' = [i \in 1..Waiting - 1 |-> buffer[Slot(readpos' + i - 1)]]
      BY <1>3 DEF SendEnd, RingQueue
    <2> QED BY <2>1, <2>2, <2>3, <2>4
  <1> QED BY <1>4, <1>5, HostEnd DEF Queue!Deliver

(* Every step is one of the abstract queue's or a stutter. *)
LEMMA StepRefines ==
  ASSUME RingInv, [Next]_vars
  PROVE  [Queue!Next]_(Queue!qvars)
  <1> USE DEF Queue!qvars
  <1>1. CASE UNCHANGED vars
    BY <1>1 DEF vars, ring, host, RingQueue, Waiting
  <1>2. CASE FillTx
    BY <1>2, FillKeepsQueue DEF FillTx, host
  <1>3. CASE ReceiveFails \/ CheckTx \/ \E p \in Packets : GetTx(p)
    BY <1>3 DEF ReceiveFails, CheckTx, GetTx, ring, host, RingQueue, Waiting
  <1>4. CASE AdvanceTx
    BY <1>4, AdvanceAccepts DEF Queue!Next, RingInv, TypeOK
  <1>5. CASE MaskTx
    BY <1>5, MaskKeepsQueue DEF MaskTx, host
  <1>6. CASE EnableTx
    BY <1>6 DEF EnableTx, host, RingQueue, Waiting
  <1>7. CASE SendEscape
    BY <1>7, HostEscape DEF SendEscape, RingQueue, Waiting
  <1>8. CASE SendByte
    BY <1>8, HostData DEF SendByte, RingQueue, Waiting
  <1>9. CASE SendEnd
    BY <1>9, EndDelivers DEF Queue!Next
  <1>10. CASE DisableTx
    BY <1>10 DEF DisableTx, host, RingQueue, Waiting
  <1> QED BY <1>1, <1>2, <1>3, <1>4, <1>5, <1>6, <1>7, <1>8, <1>9, <1>10
          DEF Next, MainStep, USART_UDRE

(* The transmit ring implements the drop-tail queue: every published       *)
(* packet reaches the host once, whole and in order.                       *)
THEOREM FramesAreWhole == Spec => WholeFrames
  <1>1. Init => Queue!Init
    BY TxAssumption DEF Init, Queue!Init, Queue!NoDelivery, RingQueue, Waiting
  <1> QED BY <1>1, RingInvariant, StepRefines, PTL DEF WholeFrames, Queue!Spec, Spec
=============================================================================
