------------------------------- MODULE SerialTx -------------------------------
(***************************************************************************)
(* The radio-to-serial half of the master (avr/master): txbuffer, a ring   *)
(* of Size packet slots filled by the main loop and emptied byte by byte   *)
(* by the USART data-register-empty interrupt, which frames each packet    *)
(* with SLIP-like escapes.  One action is one step of the main loop that   *)
(* an interrupt can fall between, or one whole interrupt (interrupts are   *)
(* masked inside a handler).  The receiving end of the line is the decoder *)
(* of the reference bridge, linux/python/python-twisted-bridge.py.         *)
(***************************************************************************)
EXTENDS Integers, Sequences

CONSTANTS Size,      \* TX_BUFFER_SIZE
          FrameLen,  \* sizeof(packetContainer_t), ABSOLUTE_MAXIMUM_SIZE + 1
          Burst,     \* interrupts that fit between two adjacent instructions
          Byte, Zero, END, ESC,
          Packets    \* the containers the radio may hand over

(* writepos++ and writepos&=MASK are a handful of instructions apart, and a *)
(* byte lasts 160 CPU cycles at 500 kb/s, so far fewer interrupts fit in    *)
(* between than a frame has bytes.  The ring relies on it: see MaskTx.      *)
ASSUME TxAssumption ==
  /\ Size \in Nat \ {0, 1}
  /\ FrameLen \in Nat \ {0}
  /\ Burst \in 0..FrameLen
  /\ {Zero, END, ESC} \subseteq Byte
  /\ END # ESC
  /\ Packets \subseteq [1..FrameLen -> Byte]

VARIABLES
  buffer, writepos, readpos, inpacket_pos, escape,  \* txbuffer
  udrie,    \* the UDRIE0 bit: the transmit interrupt is enabled
  pc,       \* where the main loop is
  packet,   \* the packet the radio is handing over
  filled,   \* bytes of it already stored in the slot
  burst,    \* transmit interrupts since writepos++
  line,     \* the host's decoder: bytes of the current frame, escape flag
  last      \* the last frame the host completed, and the parity of their number

ring == <<buffer, writepos, readpos, inpacket_pos, escape, udrie>>
main == <<pc, packet, filled>>
host == <<line, last>>
vars == <<ring, main, burst, host>>

Slot(i) == i % Size

Init ==
  /\ buffer = [s \in 0..Size - 1 |-> [i \in 1..FrameLen |-> Zero]]
  /\ writepos = 0 /\ readpos = 0 /\ inpacket_pos = 0 /\ escape = 0
  /\ udrie = FALSE
  /\ pc = "loop" /\ packet \in Packets /\ filled = 0
  /\ burst = 0
  /\ line = [frame |-> <<>>, escaped |-> FALSE]
  /\ last = [item |-> <<>>, parity |-> 0]

-----------------------------------------------------------------------------
(* Plausible mistakes in the code, each broken by a property below.        *)

(* uartTxConfirm publishes without looking for room. *)
CheckTxUnguarded ==
  /\ pc = "check"
  /\ pc' = "advance"
  /\ UNCHANGED <<ring, packet, filled, burst, host>>

(* uartTxConfirm forgets to mask the index. *)
MaskTxForgotten ==
  /\ pc = "mask"
  /\ pc' = "enable" /\ burst' = 0
  /\ UNCHANGED <<buffer, writepos, readpos, inpacket_pos, escape, udrie, packet, filled, host>>

-----------------------------------------------------------------------------
(* The main loop.                                                          *)

(* packet_available was set: take the slot at writepos for the packet.     *)
GetTx(p) ==
  /\ pc = "loop"
  /\ pc' = "fill" /\ packet' = p /\ filled' = 0
  /\ UNCHANGED <<ring, burst, host>>

(* The type byte, then the payload, one SPI byte at a time. *)
FillTx ==
  /\ pc = "fill"
  /\ buffer' = [buffer EXCEPT ![writepos][filled + 1] = packet[filled + 1]]
  /\ filled' = filled + 1
  /\ pc' = IF filled' = FrameLen THEN "check" ELSE "fill"
  /\ UNCHANGED <<writepos, readpos, inpacket_pos, escape, udrie, packet, burst, host>>

(* The radio's FIFO was empty: only the type byte has been stored. *)
ReceiveFails ==
  /\ pc = "fill" /\ filled = 1
  /\ pc' = "loop"
  /\ UNCHANGED <<ring, packet, filled, burst, host>>

(* uartTxConfirm decides whether the ring has room... *)
CheckTx ==
  /\ pc = "check"
  /\ pc' = IF Slot(writepos + 1) # readpos THEN "advance" ELSE "enable"
  /\ UNCHANGED <<ring, packet, filled, burst, host>>

(* ...publishes the slot... *)
AdvanceTx ==
  /\ pc = "advance"
  /\ writepos' = writepos + 1
  /\ pc' = "mask" /\ burst' = 0
  /\ UNCHANGED <<buffer, readpos, inpacket_pos, escape, udrie, packet, filled, host>>

(* ...brings the index back into range... *)
MaskTx ==
  /\ pc = "mask"
  /\ writepos' = Slot(writepos)
  /\ pc' = "enable" /\ burst' = 0
  /\ UNCHANGED <<buffer, readpos, inpacket_pos, escape, udrie, packet, filled, host>>

(* ...and starts the interrupt, whether or not a packet was published. *)
EnableTx ==
  /\ pc = "enable"
  /\ udrie' = TRUE
  /\ pc' = "loop"
  /\ UNCHANGED <<buffer, writepos, readpos, inpacket_pos, escape, packet, filled, burst, host>>

-----------------------------------------------------------------------------
(* The interrupt, and the byte it puts on the line.                        *)

HostByte(b) ==
  \/ /\ line.escaped
     /\ line' = [frame |-> Append(line.frame, b), escaped |-> FALSE]
     /\ UNCHANGED last
  \/ /\ ~line.escaped /\ b = END
     /\ line' = [frame |-> <<>>, escaped |-> FALSE]
     /\ last' = [item |-> line.frame, parity |-> 1 - last.parity]
  \/ /\ ~line.escaped /\ b = ESC
     /\ line' = [frame |-> line.frame, escaped |-> TRUE]
     /\ UNCHANGED last
  \/ /\ ~line.escaped /\ b \notin {END, ESC}
     /\ line' = [frame |-> Append(line.frame, b), escaped |-> FALSE]
     /\ UNCHANGED last

Interrupt ==
  /\ udrie
  /\ pc = "mask" => burst < Burst
  /\ burst' = IF pc = "mask" THEN burst + 1 ELSE burst
  /\ UNCHANGED main

Current == buffer[readpos][inpacket_pos + 1]

InFrame == readpos # writepos /\ inpacket_pos < FrameLen

NeedsEscape == escape = 0 /\ Current \in {END, ESC}

SendEscape ==
  /\ Interrupt /\ InFrame /\ NeedsEscape
  /\ HostByte(ESC)
  /\ escape' = 1
  /\ UNCHANGED <<buffer, writepos, readpos, inpacket_pos, udrie>>

SendByte ==
  /\ Interrupt /\ InFrame /\ ~NeedsEscape
  /\ HostByte(Current)
  /\ inpacket_pos' = inpacket_pos + 1 /\ escape' = 0
  /\ UNCHANGED <<buffer, writepos, readpos, udrie>>

(* A mistake: the interrupt stops after every frame. *)
SendEndThenStops ==
  /\ Interrupt /\ readpos # writepos /\ inpacket_pos >= FrameLen
  /\ HostByte(END)
  /\ readpos' = Slot(readpos + 1)
  /\ inpacket_pos' = 0 /\ escape' = 0
  /\ udrie' = FALSE
  /\ UNCHANGED <<buffer, writepos>>

SendEnd ==
  /\ Interrupt /\ readpos # writepos /\ inpacket_pos >= FrameLen
  /\ HostByte(END)
  /\ readpos' = Slot(readpos + 1)
  /\ inpacket_pos' = 0 /\ escape' = 0
  /\ UNCHANGED <<buffer, writepos, udrie>>

(* Nothing to send: the interrupt switches itself off. *)
DisableTx ==
  /\ Interrupt /\ readpos = writepos
  /\ udrie' = FALSE
  /\ UNCHANGED <<buffer, writepos, readpos, inpacket_pos, escape, host>>

-----------------------------------------------------------------------------
MainStep == FillTx \/ ReceiveFails \/ CheckTx \/ AdvanceTx \/ MaskTx \/ EnableTx

USART_UDRE == SendEscape \/ SendByte \/ SendEnd \/ DisableTx

Next == MainStep \/ USART_UDRE \/ \E p \in Packets : GetTx(p)

Spec == Init /\ [][Next]_vars

(* The processor keeps executing the loop, and the USART finishes shifting *)
(* a byte whatever the program does, so an enabled interrupt comes.        *)
FairSpec == Spec /\ WF_vars(MainStep) /\ WF_vars(USART_UDRE)

-----------------------------------------------------------------------------
TypeOK ==
  /\ buffer \in [0..Size - 1 -> [1..FrameLen -> Byte]]
  /\ writepos \in 0..Size
  /\ readpos \in 0..Size - 1
  /\ inpacket_pos \in 0..FrameLen
  /\ escape \in {0, 1}
  /\ udrie \in BOOLEAN
  /\ pc \in {"loop", "fill", "check", "advance", "mask", "enable"}
  /\ packet \in Packets
  /\ filled \in 0..FrameLen
  /\ burst \in 0..Burst
  /\ line \in [frame : Seq(Byte), escaped : BOOLEAN]
  /\ last \in [item : Seq(Byte), parity : {0, 1}]

(* A published packet is never left waiting with the transmit interrupt    *)
(* off: the interrupt that finds the ring empty and switches itself off    *)
(* races uartTxConfirm, which therefore enables it after publishing.       *)
NoLostWakeup ==
  readpos # writepos /\ pc \notin {"mask", "enable"} => udrie

(* The inductive invariant, in named parts.                                *)

(* writepos leaves the range only inside uartTxConfirm; then slot 0 is not *)
(* published yet and the interrupt cannot reach it within one burst.       *)
IndexInv ==
  /\ writepos = Size => /\ pc = "mask" /\ readpos # 0
                        /\ readpos = Size - 1 => inpacket_pos <= burst
  /\ pc = "advance" => Slot(writepos + 1) # readpos

(* What the main loop has stored so far of the packet at hand. *)
FillInv ==
  /\ pc = "fill" => filled < FrameLen
  /\ pc \in {"check", "advance"} => filled = FrameLen
  /\ pc \in {"fill", "check", "advance"} =>
       \A i \in 1..filled : buffer[writepos][i] = packet[i]

(* The host holds exactly the bytes sent of the slot at readpos. *)
LineInv ==
  /\ readpos = writepos => inpacket_pos = 0 /\ escape = 0
  /\ line.escaped <=> escape = 1
  /\ escape = 1 => inpacket_pos < FrameLen /\ Current \in {END, ESC}
  /\ line.frame = [i \in 1..inpacket_pos |-> buffer[readpos][i]]

RingInv == TypeOK /\ IndexInv /\ FillInv /\ LineInv /\ NoLostWakeup

(* The ring seen from outside: the published slots, from readpos up to but *)
(* not including writepos, are the queue, and a completed frame on the     *)
(* line is a delivery.                                                     *)
Waiting == IF writepos >= readpos THEN writepos - readpos
                                  ELSE writepos + Size - readpos

RingQueue == [i \in 1..Waiting |-> buffer[Slot(readpos + i - 1)]]

Queue == INSTANCE DropTailQueue
           WITH Item <- Packets, Capacity <- Size - 1, queue <- RingQueue

(* The host gets every packet uartTxConfirm publishes exactly once, whole, *)
(* unaltered and in order, however the interrupt falls between the main    *)
(* loop's steps; a packet that finds the ring full is dropped whole.       *)
WholeFrames == Queue!Spec

(* The line never stalls: while a published packet waits, another frame is *)
(* completed.                                                              *)
LineNeverStalls == Queue!KeepsDelivering
=============================================================================
