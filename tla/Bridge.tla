--------------------------------- MODULE Bridge ---------------------------------
(***************************************************************************)
(* The WiFi bridge (linux/flokati/src/flokati-bridge.c): one select loop   *)
(* between the multicast group and the gateway firmware, which it reaches  *)
(* through a TCP connection to ser2net.  Radio to network, it decodes the  *)
(* byte stream of the gateway's frames; network to radio, it encodes each  *)
(* datagram in one write whose result it ignores.  It notices a broken     *)
(* connection only by silence, and reconnects with its decoder as it was.  *)
(*                                                                         *)
(* Reads and writes are modelled byte by byte: what reading several bytes  *)
(* at once does is what reading them one after the other does, and a write *)
(* whose last bytes the connection does not take is CutShort there.        *)
(***************************************************************************)
EXTENDS Integers, Sequences

CONSTANTS FrameLen,     \* bytes of a container, and of fromradio and toradio (33)
          Byte, END, ESC,
          Packets,      \* the containers the gateway sends
          Datagrams,    \* the containers the phones send
          Timeout,      \* seconds of silence before a reconnection (5)
          InFlight      \* bytes waiting in the connection

(* A phone's container begins with 0x34 (FlokatiDevice.java:44).           *)
ASSUME BridgeAssumption ==
  /\ FrameLen \in Nat \ {0, 1}
  /\ {END, ESC} \subseteq Byte /\ END # ESC
  /\ Packets \cup Datagrams \subseteq [1..FrameLen -> Byte]
  /\ \A d \in Datagrams : d[1] \notin {END, ESC}
  /\ Timeout \in Nat /\ InFlight \in Nat \ {0}

VARIABLES
  sender,      \* the gateway's encoder
  incoming,    \* bytes in the connection, each as the encoder that sent it
  server,      \* ser2net accepts connections
  serial,      \* the connection: "none", "alive", "closed" by ser2net, "reset"
  silent,      \* seconds on the clock since the last byte
  killed,      \* SIGPIPE has ended the bridge
  decoder,     \* escaped, fromradio_pos and fromradio
  faults,      \* frames and datagrams of this connection that do not correspond
  cut,         \* the connection has been lost before
  writing,     \* the bridge's encoder, or Nothing
  gateway,     \* the gateway's decoder: bytes of the frame so far, escape flag
  garbled,     \* frames the gateway took wrongly since the last short write
  short        \* a write has been cut short

receiver == <<gateway, garbled, short>>
link == <<server, serial, silent, killed>>
vars == <<sender, incoming, link, decoder, faults, cut, writing, receiver>>

-----------------------------------------------------------------------------
(* An encoder: the frame, its next byte, and whether that one's ESC has    *)
(* been sent.  Both ends use it: the gateway one byte per interrupt, the   *)
(* bridge in a loop.                                                       *)

Encoder(Frames) == [frame : Frames, pos : 0..FrameLen, escape : BOOLEAN]
Start(f) == [frame |-> f, pos |-> 0, escape |-> FALSE]
Nothing == Start(<<>>)

Done(e) == e.pos = FrameLen
Escapes(e) == ~Done(e) /\ ~e.escape /\ e.frame[e.pos + 1] \in {END, ESC}

ByteOf(e) == IF Done(e) THEN END
             ELSE IF Escapes(e) THEN ESC ELSE e.frame[e.pos + 1]

After(e) == IF Escapes(e) THEN [e EXCEPT !.escape = TRUE]
                          ELSE [e EXCEPT !.pos = @ + 1, !.escape = FALSE]

-----------------------------------------------------------------------------
(* open_serial: a connection if ser2net accepts one.                       *)
Opened == IF server THEN "alive" ELSE "none"

Init ==
  /\ \E f \in Packets : sender = Start(f)
  /\ incoming = <<>>
  /\ server \in BOOLEAN
  /\ serial = Opened
  /\ silent = 0 /\ killed = FALSE
  /\ \E rubbish \in [1..FrameLen -> Byte] :   \* fromradio is not initialised
       decoder = [escaped |-> FALSE, pos |-> 0, buf |-> rubbish]
  /\ faults = 0 /\ cut = FALSE
  /\ writing = Nothing
  /\ gateway = [bytes |-> <<>>, escape |-> FALSE]
  /\ garbled = 0 /\ short = FALSE

-----------------------------------------------------------------------------
(* The gateway's transmit interrupt (module SerialTx) and ser2net, which   *)
(* drops what comes while nobody is connected.                             *)

GatewayByte ==
  /\ IF Done(sender) THEN \E f \in Packets : sender' = Start(f)
                     ELSE sender' = After(sender)
  /\ IF serial = "alive"
       THEN Len(incoming) < InFlight /\ incoming' = Append(incoming, sender)
       ELSE UNCHANGED incoming
  /\ UNCHANGED <<link, decoder, faults, cut, writing, receiver>>

(* ser2net dies, and with it the connection, by an orderly close or, if it *)
(* has not read all of what the bridge is writing, by a reset; what it     *)
(* sent before can still be read.                                          *)
ServerStops ==
  /\ server
  /\ server' = FALSE
  /\ serial' \in IF serial # "alive" THEN {serial}
                 ELSE IF writing = Nothing THEN {"closed"} ELSE {"closed", "reset"}
  /\ UNCHANGED <<sender, incoming, silent, killed, decoder, faults, cut, writing, receiver>>

ServerStarts ==
  /\ ~server
  /\ server' = TRUE
  /\ UNCHANGED <<sender, incoming, serial, silent, killed, decoder, faults, cut, writing,
                 receiver>>

-----------------------------------------------------------------------------
(* Radio to network.                                                       *)

(* The loop serves one descriptor after the other, blocks only in select,  *)
(* and looks at the clock after each round.                                *)
Looping == ~killed /\ writing = Nothing

Selecting == Looping /\ silent <= Timeout

StoreIn(d, b) ==
  [escaped |-> FALSE, pos |-> IF d.pos < FrameLen - 1 THEN d.pos + 1 ELSE d.pos,
   buf |-> [d.buf EXCEPT ![d.pos + 1] = b]]

(* What an END sends: one byte more than the position says, for it stops   *)
(* at the last byte of a whole frame.                                      *)
Datagram(d) == SubSeq(d.buf, 1, d.pos + 1)

(* Mistakes: no bound on the position; the position survives an END.       *)
DecodeUnbounded(d, b) ==
  IF b = ESC THEN [d EXCEPT !.escaped = TRUE]
  ELSE IF b = END /\ ~d.escaped THEN [d EXCEPT !.pos = 0]
  ELSE [escaped |-> FALSE, pos |-> d.pos + 1,
        buf |-> [i \in DOMAIN d.buf |-> IF i = d.pos + 1 THEN b ELSE d.buf[i]]]

DecodeKeepsPosition(d, b) ==
  IF b = ESC THEN [d EXCEPT !.escaped = TRUE]
  ELSE IF b = END /\ ~d.escaped THEN d
  ELSE StoreIn(d, b)

Decode(d, b) ==
  IF b = ESC THEN [d EXCEPT !.escaped = TRUE]
  ELSE IF b = END /\ ~d.escaped THEN [d EXCEPT !.pos = 0]
  ELSE StoreIn(d, b)

Sends(d, b) == b = END /\ ~d.escaped

(* A byte that ends a frame must send that frame, another byte nothing.    *)
Faulty(d, e) ==
  IF Done(e) THEN ~Sends(d, ByteOf(e)) \/ Datagram(d) # e.frame
             ELSE Sends(d, ByteOf(e))

MaxFaults == 3   \* the count stops here, beyond what the properties allow

Count(n, more) == IF more /\ n < MaxFaults THEN n + 1 ELSE n

(* The select loop finds the connection readable.                          *)
ReadSerial ==
  /\ Selecting /\ serial # "none" /\ incoming # <<>>
  /\ LET e == Head(incoming)
     IN  /\ decoder' = Decode(decoder, ByteOf(e))
         /\ faults' = Count(faults, Faulty(decoder, e))
  /\ incoming' = Tail(incoming)
  /\ silent' = 0
  /\ UNCHANGED <<sender, server, serial, killed, cut, writing, receiver>>

-----------------------------------------------------------------------------
(* Network to radio.                                                       *)

(* The gateway's receive interrupt (module SerialRx), free slots assumed.  *)
Take(g, b) ==
  IF ~g.escape /\ b = ESC THEN [g EXCEPT !.escape = TRUE]
  ELSE IF ~g.escape /\ b = END THEN [bytes |-> <<>>, escape |-> FALSE]
  ELSE [bytes |-> IF Len(g.bytes) < FrameLen THEN Append(g.bytes, b) ELSE g.bytes,
        escape |-> FALSE]

Ends(g, b) == ~g.escape /\ b = END

Garbles(g, e) ==
  IF Done(e) THEN ~Ends(g, ByteOf(e)) \/ g.bytes # e.frame
             ELSE Ends(g, ByteOf(e))

(* A datagram arrives while the connection works...                        *)
Forward(d) ==
  /\ Selecting /\ serial = "alive"
  /\ writing' = Start(d)
  /\ UNCHANGED <<sender, incoming, link, decoder, faults, cut, receiver>>

(* ...and its bytes reach the gateway...                                   *)
(* A mistake: ESC itself is not escaped.                                   *)
WriteByteEndOnly ==
  /\ writing # Nothing /\ serial = "alive"
  /\ LET w == writing
         raw == Escapes(w) /\ w.frame[w.pos + 1] = ESC
     IN  /\ writing' = IF Done(w) THEN Nothing
                       ELSE IF raw THEN [w EXCEPT !.pos = @ + 1] ELSE After(w)
         /\ gateway' = Take(gateway, ByteOf(w))
         /\ garbled' = Count(garbled, Garbles(gateway, w))
  /\ UNCHANGED <<sender, incoming, link, decoder, faults, cut, short>>

WriteByte ==
  /\ writing # Nothing /\ serial = "alive"
  /\ writing' = IF Done(writing) THEN Nothing ELSE After(writing)
  /\ gateway' = Take(gateway, ByteOf(writing))
  /\ garbled' = Count(garbled, Garbles(gateway, writing))
  /\ UNCHANGED <<sender, incoming, link, decoder, faults, cut, short>>

(* ...or not all of them, if the connection is full or lost.               *)
CutShort ==
  /\ writing # Nothing
  /\ writing' = Nothing
  /\ garbled' = 0 /\ short' = TRUE
  /\ UNCHANGED <<sender, incoming, link, decoder, faults, cut, gateway>>

Write == WriteByte \/ CutShort

(* A datagram arrives after ser2net has gone: the first write provokes a   *)
(* reset, and the next one raises SIGPIPE, which the bridge neither        *)
(* handles nor ignores.                                                    *)
ForwardLost ==
  /\ Selecting /\ serial \in {"closed", "reset"}
  /\ serial' = "reset"
  /\ killed' = (serial = "reset")
  /\ UNCHANGED <<sender, incoming, server, silent, decoder, faults, cut, writing, receiver>>

-----------------------------------------------------------------------------
(* Time, and the reconnection after Timeout seconds without a byte.        *)

Tick ==
  /\ ~killed /\ silent <= Timeout
  /\ silent' = silent + 1
  /\ UNCHANGED <<sender, incoming, server, serial, killed, decoder, faults, cut, writing,
                 receiver>>

(* A mistake: an attempt that failed is not repeated. *)
ReconnectOnce ==
  /\ Looping /\ silent > Timeout /\ serial # "none"
  /\ serial' = Opened
  /\ incoming' = <<>>
  /\ silent' = 0
  /\ faults' = 0 /\ cut' = TRUE
  /\ UNCHANGED <<sender, server, killed, decoder, writing, receiver>>

Reconnect ==
  /\ Looping /\ silent > Timeout
  /\ serial' = Opened
  /\ incoming' = <<>>
  /\ silent' = 0
  /\ faults' = 0 /\ cut' = TRUE
  /\ UNCHANGED <<sender, server, killed, decoder, writing, receiver>>

-----------------------------------------------------------------------------
Next == \/ GatewayByte \/ ServerStops \/ ServerStarts
        \/ ReadSerial \/ Write \/ ForwardLost \/ Tick \/ Reconnect
        \/ \E d \in Datagrams : Forward(d)

(* The bridge runs and time passes; neither the gateway, nor ser2net, nor  *)
(* the phones need do anything.                                            *)
Spec == /\ Init /\ [][Next]_vars
        /\ WF_vars(ReadSerial) /\ WF_vars(Write) /\ WF_vars(Tick) /\ WF_vars(Reconnect)

-----------------------------------------------------------------------------
TypeOK ==
  /\ sender \in Encoder(Packets)
  /\ incoming \in Seq(Encoder(Packets)) /\ Len(incoming) <= InFlight
  /\ server \in BOOLEAN /\ serial \in {"none", "alive", "closed", "reset"}
  /\ silent \in 0..Timeout + 1 /\ killed \in BOOLEAN
  /\ decoder \in [escaped : BOOLEAN, pos : 0..FrameLen - 1, buf : [1..FrameLen -> Byte]]
  /\ faults \in 0..MaxFaults /\ cut \in BOOLEAN
  /\ writing \in Encoder(Datagrams) \cup {Nothing}
  /\ gateway \in [bytes : Seq(Byte), escape : BOOLEAN] /\ Len(gateway.bytes) <= FrameLen
  /\ garbled \in 0..MaxFaults /\ short \in BOOLEAN

(* What the phones see of the radio: every frame arrives as the datagram   *)
(* it is, and after a lost connection, which may cut the stream anywhere   *)
(* and leaves the decoder as it was, at most two are wrong (the reference  *)
(* for frames and escapes is python-twisted-bridge.py, which README.md:100 *)
(* says does the same as this program).                                    *)
Resynchronises == faults <= IF cut THEN 2 ELSE 0

(* What the gateway gets of a datagram: the same frame; a write cut short  *)
(* by a full connection spoils the one that follows and no more.           *)
ShortWriteBounded == garbled <= IF short THEN 1 ELSE 0


(* The same for a bridge that SIGPIPE has not ended.                       *)
ReconnectsUnlessKilled == <>[](server /\ ~killed) => []<>(serial = "alive")
=============================================================================
