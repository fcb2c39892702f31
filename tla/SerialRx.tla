------------------------------- MODULE SerialRx -------------------------------
(***************************************************************************)
(* The serial-to-radio half of the master (avr/master): the USART receive  *)
(* interrupt decodes the host's SLIP-like frames into rxbuffer, a ring of  *)
(* Size packet slots, and the main loop hands each complete slot to the    *)
(* radio and confirms it.  There is no flow control and no checksum: bytes *)
(* are lost while the radio interrupt keeps the processor busy (the 130 us *)
(* of set_rx_mode against the USART's two-byte FIFO and 20 us per byte).   *)
(* The loop waits for the radio to report each packet sent; that it ever   *)
(* does is not assumed.                                                    *)
(* The host's encoder is the one of linux/python/python-twisted-bridge.py, *)
(* which linux/flokati/src/flokati-bridge.c repeats.                       *)
(***************************************************************************)
EXTENDS Integers, Sequences

CONSTANTS Size,      \* RX_BUFFER_SIZE
          FrameLen,  \* sizeof(packetContainer_t), ABSOLUTE_MAXIMUM_SIZE + 1
          Burst,     \* bytes that arrive between two adjacent instructions
          MaxLoss,   \* bytes the line loses in a behaviour
          Byte, Zero, END, ESC,
          STANDARD,  \* FLOKATI_STANDARD, the only container type transmitted
          Packets    \* the containers the host sends

(* The two halves of readpos++; readpos&=MASK are three instructions apart *)
(* and a byte lasts 160 CPU cycles, so at most one byte arrives between    *)
(* them.  (Two frame ends there would wrap the ring and lose what it       *)
(* holds; only bytes queued up behind the radio interrupt come so close.)  *)
ASSUME RxAssumption ==
  /\ Size \in Nat \ {0, 1}
  /\ FrameLen \in Nat \ {0, 1}
  /\ MaxLoss \in Nat
  /\ Burst \in 0..1
  /\ {Zero, END, ESC, STANDARD} \subseteq Byte
  /\ END # ESC
  /\ Packets \subseteq [1..FrameLen -> Byte]

VARIABLES
  frame, hostpos, hostescape,   \* the host: frame on the line, next byte, ESC sent
  buffer, writepos, readpos, inpacket_pos, escape,  \* rxbuffer
  pc,       \* where the main loop is
  transmit_lock,  \* a transmission is under way, as far as the driver knows
  sent,     \* bytes of the slot at readpos the main loop has read so far
  last,     \* the last container confirmed, and the parity of their number
  burst,    \* byte times since readpos++
  lost,     \* bytes lost
  damaged   \* host frames that did not end up whole in a slot

host == <<frame, hostpos, hostescape>>
ring == <<buffer, writepos, readpos, inpacket_pos, escape>>
main == <<pc, transmit_lock, sent, last>>
vars == <<host, ring, main, burst, lost, damaged>>

Slot(i) == i % Size

Init ==
  /\ frame \in Packets /\ hostpos = 0 /\ hostescape = FALSE
  /\ buffer = [s \in 0..Size - 1 |-> [i \in 1..FrameLen |-> Zero]]
  /\ writepos = 0 /\ readpos = 0 /\ inpacket_pos = 0 /\ escape = 0
  /\ pc = "loop" /\ transmit_lock = 0 /\ sent = <<>>
  /\ last = [item |-> <<>>, parity |-> 0]
  /\ burst = 0 /\ lost = 0 /\ damaged = 0

-----------------------------------------------------------------------------
(* The host's encoder: every byte of a frame, END and ESC escaped, then END. *)

FrameDone == hostpos = FrameLen

HostEscapes == ~FrameDone /\ ~hostescape /\ frame[hostpos + 1] \in {END, ESC}

HostByte == IF FrameDone THEN END
            ELSE IF HostEscapes THEN ESC ELSE frame[hostpos + 1]

HostAdvances ==
  \/ /\ FrameDone
     /\ frame' \in Packets /\ hostpos' = 0 /\ hostescape' = FALSE
  \/ /\ HostEscapes
     /\ hostescape' = TRUE
     /\ UNCHANGED <<frame, hostpos>>
  \/ /\ ~FrameDone /\ ~HostEscapes
     /\ hostpos' = hostpos + 1 /\ hostescape' = FALSE
     /\ UNCHANGED frame

(* The host's frame is about to be terminated with all of it in the slot. *)
Intact == escape = 0 /\ inpacket_pos = FrameLen /\ buffer[writepos] = frame

(* One byte time passes on the line; arrived: the byte reaches the ISR. *)
ByteTime(arrived) ==
  /\ HostAdvances
  /\ pc = "mask" => burst < Burst
  /\ burst' = IF pc = "mask" THEN burst + 1 ELSE burst
  /\ damaged' = IF FrameDone /\ ~(arrived /\ Intact) THEN damaged + 1 ELSE damaged
  /\ UNCHANGED <<readpos, main>>

-----------------------------------------------------------------------------
(* The receive interrupt.                                                  *)

Arrives == ByteTime(TRUE) /\ UNCHANGED lost

(* A mistake: no bounds check on the position in the slot. *)
StoreUnbounded ==
  /\ buffer' = [buffer EXCEPT ![writepos][inpacket_pos + 1] = HostByte]
  /\ inpacket_pos' = inpacket_pos + 1
  /\ escape' = 0
  /\ UNCHANGED writepos

Store ==
  /\ IF inpacket_pos < FrameLen
       THEN /\ buffer' = [buffer EXCEPT ![writepos][inpacket_pos + 1] = HostByte]
            /\ inpacket_pos' = inpacket_pos + 1
       ELSE UNCHANGED <<buffer, inpacket_pos>>
  /\ escape' = 0
  /\ UNCHANGED writepos

StoreByte ==
  /\ Arrives
  /\ escape = 1 \/ HostByte \notin {END, ESC}
  /\ Store

SetEscape ==
  /\ Arrives
  /\ escape = 0 /\ HostByte = ESC
  /\ escape' = 1
  /\ UNCHANGED <<buffer, writepos, inpacket_pos>>

(* Mistakes: publishing into a full ring; dropping a frame but not its     *)
(* position.                                                               *)
EndFrameUnguarded ==
  /\ Arrives
  /\ escape = 0 /\ HostByte = END
  /\ writepos' = Slot(writepos + 1)
  /\ inpacket_pos' = 0
  /\ UNCHANGED <<buffer, escape>>

DropFrameKeepsPosition ==
  /\ Arrives
  /\ escape = 0 /\ HostByte = END
  /\ Slot(writepos + 1) = readpos
  /\ UNCHANGED <<buffer, writepos, inpacket_pos, escape>>

(* A frame ends: publish the slot if another one is free. *)
EndFrame ==
  /\ Arrives
  /\ escape = 0 /\ HostByte = END
  /\ Slot(writepos + 1) # readpos
  /\ writepos' = Slot(writepos + 1)
  /\ inpacket_pos' = 0
  /\ UNCHANGED <<buffer, escape>>

(* ...and otherwise start over in the same slot. *)
DropFrame ==
  /\ Arrives
  /\ escape = 0 /\ HostByte = END
  /\ Slot(writepos + 1) = readpos
  /\ inpacket_pos' = 0
  /\ UNCHANGED <<buffer, writepos, escape>>

USART_RX == StoreByte \/ SetEscape \/ EndFrame \/ DropFrame

(* The USART's FIFO is full when the byte is complete: it is overwritten.  *)
Overrun ==
  /\ lost < MaxLoss
  /\ lost' = lost + 1
  /\ ByteTime(FALSE)
  /\ UNCHANGED <<buffer, writepos, inpacket_pos, escape>>

-----------------------------------------------------------------------------
(* The main loop.                                                          *)

(* uartRxAvailable, uartRxGet, and the look at the container's type.       *)
GetRx ==
  /\ pc = "loop" /\ readpos # writepos
  /\ sent' = <<buffer[readpos][1]>>
  /\ IF buffer[readpos][1] = STANDARD
       THEN pc' = "transmit" /\ transmit_lock' = 1
       ELSE pc' = "confirm" /\ UNCHANGED transmit_lock
  /\ UNCHANGED <<host, ring, last, burst, lost, damaged>>

(* Radio_Transmit reads the payload out of the slot, one SPI byte at a     *)
(* time, and then waits for the lock.                                      *)
TransmitByte ==
  /\ pc = "transmit"
  /\ sent' = Append(sent, buffer[readpos][Len(sent) + 1])
  /\ pc' = IF Len(sent') = FrameLen THEN "wait" ELSE "transmit"
  /\ UNCHANGED <<host, ring, transmit_lock, last, burst, lost, damaged>>

(* while (transmit_lock); *)
Spinning == pc = "wait" /\ transmit_lock = 1

WaitOver ==
  /\ pc = "wait" /\ transmit_lock = 0
  /\ pc' = "confirm"
  /\ UNCHANGED <<host, ring, transmit_lock, sent, last, burst, lost, damaged>>

(* The radio reports the packet sent and INT0_vect releases the lock.      *)
TxDone ==
  /\ Spinning
  /\ transmit_lock' = 0
  /\ UNCHANGED <<host, ring, pc, sent, last, burst, lost, damaged>>

(* A mistake: a container of another type is not confirmed. *)
ConfirmRxStandardOnly ==
  /\ pc = "confirm"
  /\ IF sent[1] = STANDARD
       THEN /\ readpos' = readpos + 1 /\ pc' = "mask"
            /\ last' = [item |-> sent, parity |-> 1 - last.parity]
       ELSE pc' = "loop" /\ UNCHANGED <<readpos, last>>
  /\ burst' = 0
  /\ UNCHANGED <<host, buffer, writepos, inpacket_pos, escape, transmit_lock, sent, lost,
                 damaged>>

(* uartRxConfirm; a container of another type is given up unread. *)
ConfirmRx ==
  /\ pc = "confirm"
  /\ readpos' = readpos + 1
  /\ last' = [item   |-> IF sent[1] = STANDARD THEN sent ELSE buffer[readpos],
              parity |-> 1 - last.parity]
  /\ pc' = "mask" /\ burst' = 0
  /\ UNCHANGED <<host, buffer, writepos, inpacket_pos, escape, transmit_lock, sent, lost,
                 damaged>>

MaskRx ==
  /\ pc = "mask"
  /\ readpos' = Slot(readpos)
  /\ pc' = "loop" /\ burst' = 0 /\ sent' = <<>>
  /\ UNCHANGED <<host, buffer, writepos, inpacket_pos, escape, transmit_lock, last, lost,
                 damaged>>

-----------------------------------------------------------------------------
MainStep == GetRx \/ TransmitByte \/ WaitOver \/ ConfirmRx \/ MaskRx

Next == MainStep \/ TxDone \/ USART_RX \/ Overrun

(* The processor keeps executing the main loop.  The host may fall silent, *)
(* and the radio may never report.                                         *)
Spec == Init /\ [][Next]_vars /\ WF_vars(MainStep)

-----------------------------------------------------------------------------
TypeOK ==
  /\ frame \in Packets /\ hostpos \in 0..FrameLen /\ hostescape \in BOOLEAN
  /\ buffer \in [0..Size - 1 -> [1..FrameLen -> Byte]]
  /\ writepos \in 0..Size - 1
  /\ readpos \in 0..Size
  /\ inpacket_pos \in 0..FrameLen
  /\ escape \in {0, 1}
  /\ pc \in {"loop", "transmit", "wait", "confirm", "mask"}
  /\ transmit_lock \in {0, 1}
  /\ sent \in Seq(Byte) /\ Len(sent) <= FrameLen
  /\ last \in [item : Seq(Byte), parity : {0, 1}]
  /\ burst \in 0..Burst
  /\ lost \in 0..MaxLoss
  /\ damaged \in 0..2 * MaxLoss

(* The decoder resynchronises: a lost byte costs the host at most two      *)
(* frames, whichever byte it was (an END merges two frames, an ESC splits  *)
(* one, an escaped byte swallows the END), and without loss none.          *)
DamageBounded == damaged <= 2 * lost

(* The ring from outside: published slots are the queue, a confirmed slot  *)
(* is a delivery.                                                          *)
Waiting == Slot(writepos - readpos)

RingQueue == [i \in 1..Waiting |-> buffer[Slot(readpos + i - 1)]]

Queue == INSTANCE DropTailQueue
           WITH Item <- [1..FrameLen -> Byte], Capacity <- Size - 1,
                queue <- RingQueue

(* What the interrupt publishes is what the radio is given: once, in order *)
(* and not overwritten while Radio_Transmit reads it, although frames keep *)
(* arriving; a frame that finds the ring full is dropped whole.            *)
CapturedStaysWhole == Queue!Spec

(* Every published container is eventually taken out of the ring, unless   *)
(* the loop is left waiting for the radio: there is no watchdog that would *)
(* end the wait.                                                           *)
RingDrains == Queue!KeepsDelivering \/ <>[]Spinning
=============================================================================
