----------------------------- MODULE BridgeProofs -----------------------------
(***************************************************************************)
(* For every container length, alphabet, timeout and connection size: the  *)
(* bridge is type correct, a short write costs the gateway at most one     *)
(* datagram, and, if no frame of the gateway carries an ESC, a lost        *)
(* connection costs the phones at most two.                                *)
(***************************************************************************)
EXTENDS Bridge, SequenceTheorems, TLAPS

-----------------------------------------------------------------------------
(* The inductive invariants.                                               *)

(* An encoder that has sent an ESC has a framing byte to send after it.    *)
Honest(e) == e.escape => ~Done(e) /\ e.frame[e.pos + 1] \in {END, ESC}

BridgeTypes ==
  /\ TypeOK
  /\ Honest(sender) /\ Honest(writing)
  /\ \A i \in 1..Len(incoming) : Honest(incoming[i])

(* The bytes in the connection are consecutive bytes of the gateway's.     *)
Follows(e, f) == IF Done(e) THEN f.pos = 0 /\ ~f.escape ELSE f = After(e)

ChainInv ==
  /\ \A i \in 1..Len(incoming) - 1 : Follows(incoming[i], incoming[i + 1])
  /\ serial = "alive" /\ incoming # <<>> => Follows(incoming[Len(incoming)], sender)

(* The byte the bridge decodes next, and where its decoder should be then. *)
At == IF incoming # <<>> THEN Head(incoming) ELSE sender

Reading == serial = "alive" \/ incoming # <<>>

Aligned(d, e) == d.escaped = e.escape

Whole(d, e) ==
  /\ Aligned(d, e)
  /\ d.pos = IF Done(e) THEN FrameLen - 1 ELSE e.pos
  /\ \A i \in 1..e.pos : d.buf[i] = e.frame[i]

(* How many datagrams will still be wrong: none if the decoder has what    *)
(* the encoder has sent, one if only its contents are off, two if the two  *)
(* disagree about an escape.                                               *)
DebtInv ==
  /\ faults <= IF cut THEN 2 ELSE 0
  /\ Reading => /\ ~cut => Whole(decoder, At)
                /\ ~Whole(decoder, At) => faults <= 1
                /\ ~Aligned(decoder, At) => faults = 0

(* The same for the gateway's decoder and the bridge's encoder.  A cut     *)
(* write may leave them at odds about an escape, but only the first byte   *)
(* of the next datagram, which is no framing byte, meets them so.          *)
Received(g, e) ==
  /\ g.escape = e.escape
  /\ Len(g.bytes) = e.pos
  /\ \A i \in 1..e.pos : g.bytes[i] = e.frame[i]

GatewayInv ==
  /\ garbled <= IF short THEN 1 ELSE 0
  /\ ~short => Received(gateway, writing)
  /\ ~Received(gateway, writing) => garbled = 0
  /\ gateway.escape = writing.escape \/ (writing.pos = 0 /\ ~writing.escape)

-----------------------------------------------------------------------------
(* The encoder, by cases of what its next byte is.                         *)

Frame == [1..FrameLen -> Byte]

LEMMA EncoderFact ==
  ASSUME NEW F, F \subseteq Frame, NEW e \in Encoder(F), Honest(e)
  PROVE  /\ e.frame \in F /\ e.frame \in Frame
         /\ e.pos \in 0..FrameLen /\ e.escape \in BOOLEAN
         /\ ByteOf(e) \in Byte
         /\ Done(e) => ByteOf(e) = END /\ ~e.escape /\ e.pos = FrameLen
         /\ ~Done(e) => e.pos \in 0..FrameLen - 1 /\ After(e) \in Encoder(F)
                       /\ After(e).frame = e.frame /\ Honest(After(e))
         /\ Escapes(e) => ByteOf(e) = ESC /\ ~Done(e) /\ ~e.escape
                         /\ After(e).escape /\ After(e).pos = e.pos
         /\ ~Done(e) /\ ~Escapes(e) =>
              /\ ByteOf(e) = e.frame[e.pos + 1]
              /\ (ByteOf(e) \in {END, ESC}) <=> e.escape
              /\ ~After(e).escape /\ After(e).pos = e.pos + 1
  <1>1. e.frame \in F /\ e.frame \in Frame /\ e.pos \in 0..FrameLen /\ e.escape \in BOOLEAN
    BY DEF Encoder
  <1>2. ~Done(e) => e.pos \in 0..FrameLen - 1 /\ e.frame[e.pos + 1] \in Byte
    BY <1>1, BridgeAssumption DEF Done, Frame
  <1>3. ByteOf(e) \in Byte /\ (Done(e) => ByteOf(e) = END /\ ~e.escape /\ e.pos = FrameLen)
    BY <1>1, <1>2, BridgeAssumption DEF ByteOf, Done, Honest
  <1>4. CASE Escapes(e)
    <2>1. ByteOf(e) = ESC /\ ~Done(e) /\ ~e.escape /\ e.frame[e.pos + 1] \in {END, ESC}
      BY <1>1, <1>4 DEF Escapes, ByteOf
    <2>2. After(e) = [e EXCEPT !.escape = TRUE]
      BY <1>4 DEF After
    <2>3. After(e) \in Encoder(F) /\ After(e).frame = e.frame /\ After(e).escape
          /\ After(e).pos = e.pos
      BY <2>2 DEF Encoder
    <2>4. Honest(After(e))
      BY <2>1, <2>3 DEF Honest, Done
    <2> QED BY <1>1, <1>2, <1>3, <1>4, <2>1, <2>3, <2>4
  <1>5. CASE ~Done(e) /\ ~Escapes(e)
    <2>1. /\ ByteOf(e) = e.frame[e.pos + 1]
          /\ (ByteOf(e) \in {END, ESC}) <=> e.escape
      BY <1>1, <1>5 DEF Escapes, ByteOf, Honest
    <2>2. After(e) = [e EXCEPT !.pos = e.pos + 1, !.escape = FALSE]
      BY <1>5 DEF After
    <2>3. e.pos + 1 \in 0..FrameLen
      BY <1>2, <1>5, BridgeAssumption
    <2>4. After(e) \in Encoder(F) /\ After(e).frame = e.frame /\ ~After(e).escape
          /\ After(e).pos = e.pos + 1
      BY <2>2, <2>3 DEF Encoder
    <2>5. Honest(After(e))
      BY <2>4 DEF Honest
    <2> QED BY <1>1, <1>2, <1>3, <1>5, <2>1, <2>4, <2>5
  <1>6. CASE Done(e)
    BY <1>1, <1>3, <1>6 DEF Escapes
  <1> QED BY <1>4, <1>5, <1>6

(* The encoder at the start of a frame. *)
LEMMA StartFact ==
  ASSUME NEW F, NEW f \in F
  PROVE  /\ Start(f) \in Encoder(F) /\ Honest(Start(f))
         /\ Start(f).frame = f /\ Start(f).pos = 0 /\ Start(f).escape = FALSE
  BY BridgeAssumption DEF Start, Encoder, Honest

LEMMA NothingFact ==
  Honest(Nothing) /\ Nothing.pos = 0 /\ Nothing.escape = FALSE
  BY DEF Nothing, Start, Honest

(* The frames of either side. *)
LEMMA FrameFact == Packets \subseteq Frame /\ Datagrams \subseteq Frame
  BY BridgeAssumption DEF Frame

LEMMA FollowsFact ==
  ASSUME NEW e \in Encoder(Packets), Honest(e), NEW f \in Encoder(Packets), Follows(e, f)
  PROVE  /\ Done(e) => f.pos = 0 /\ ~f.escape
         /\ ~Done(e) => f.frame = e.frame
         /\ Escapes(e) => f.escape /\ f.pos = e.pos
         /\ ~Done(e) /\ ~Escapes(e) => ~f.escape /\ f.pos = e.pos + 1
  BY EncoderFact, FrameFact DEF Follows

-----------------------------------------------------------------------------
(* The bridge's decoder.                                                   *)

Decoder == [escaped : BOOLEAN, pos : 0..FrameLen - 1, buf : Frame]

LEMMA StoreFact ==
  ASSUME NEW d \in Decoder, NEW b \in Byte
  PROVE  /\ StoreIn(d, b) \in Decoder /\ ~StoreIn(d, b).escaped
         /\ StoreIn(d, b).pos = IF d.pos < FrameLen - 1 THEN d.pos + 1 ELSE d.pos
         /\ StoreIn(d, b).buf[d.pos + 1] = b
         /\ \A i \in 1..d.pos : StoreIn(d, b).buf[i] = d.buf[i]
  <1>1. d.pos \in 0..FrameLen - 1 /\ d.buf \in Frame /\ FrameLen \in Nat \ {0, 1}
    BY BridgeAssumption DEF Decoder
  <1> DEFINE buf == [d.buf EXCEPT ![d.pos + 1] = b]
             pos == IF d.pos < FrameLen - 1 THEN d.pos + 1 ELSE d.pos
  <1>2. buf \in Frame /\ buf[d.pos + 1] = b /\ \A i \in 1..d.pos : buf[i] = d.buf[i]
    BY <1>1 DEF Frame
  <1>3. pos \in 0..FrameLen - 1
    BY <1>1
  <1>4. StoreIn(d, b) = [escaped |-> FALSE, pos |-> pos, buf |-> buf]
    BY DEF StoreIn
  <1> HIDE DEF buf, pos
  <1>5. StoreIn(d, b) \in Decoder /\ ~StoreIn(d, b).escaped
        /\ StoreIn(d, b).pos = pos /\ StoreIn(d, b).buf = buf
    BY <1>2, <1>3, <1>4 DEF Decoder
  <1> QED BY <1>2, <1>5 DEF pos

LEMMA DecodeFact ==
  ASSUME NEW d \in Decoder, NEW b \in Byte
  PROVE  /\ Decode(d, b) \in Decoder
         /\ b = ESC => /\ Decode(d, b).escaped /\ Decode(d, b).pos = d.pos
                       /\ Decode(d, b).buf = d.buf
         /\ Sends(d, b) => ~Decode(d, b).escaped /\ Decode(d, b).pos = 0
         /\ b # ESC /\ ~Sends(d, b) => Decode(d, b) = StoreIn(d, b)
  <1>1. d.escaped \in BOOLEAN /\ END # ESC /\ 0 \in 0..FrameLen - 1
    BY BridgeAssumption DEF Decoder
  <1>2. CASE b = ESC
    <2>1. Decode(d, b) = [d EXCEPT !.escaped = TRUE]
      BY <1>2 DEF Decode
    <2> QED BY <2>1, <1>1, <1>2 DEF Decoder, Sends
  <1>3. CASE Sends(d, b)
    <2>1. Decode(d, b) = [d EXCEPT !.pos = 0] /\ b # ESC /\ ~d.escaped
      BY <1>3, <1>1 DEF Decode, Sends
    <2>2. Decode(d, b) \in Decoder /\ Decode(d, b).pos = 0
          /\ Decode(d, b).escaped = d.escaped
      BY <2>1, <1>1 DEF Decoder
    <2> QED BY <2>1, <2>2, <1>3
  <1>4. CASE b # ESC /\ ~Sends(d, b)
    <2>1. Decode(d, b) = StoreIn(d, b)
      BY <1>4 DEF Decode, Sends
    <2> QED BY <2>1, <1>4, StoreFact
  <1> QED BY <1>2, <1>3, <1>4

(* A whole frame is sent as it is. *)
LEMMA DatagramFact ==
  ASSUME NEW d \in Decoder, NEW f \in Frame, d.pos = FrameLen - 1,
         \A i \in 1..FrameLen : d.buf[i] = f[i]
  PROVE  Datagram(d) = f
  <1>1. d.buf \in Frame /\ FrameLen \in Nat
    BY BridgeAssumption DEF Decoder
  <1>2. d.buf = f
    BY <1>1 DEF Frame
  <1>3. f \in Seq(Byte) /\ Len(f) = FrameLen
    BY <1>1 DEF Frame
  <1>4. Datagram(d) = SubSeq(f, 1, FrameLen)
    BY <1>1, <1>2 DEF Datagram
  <1> QED BY <1>1, <1>3, <1>4

(* No frame of the gateway carries the byte the decoder mishandles.        *)
NoEscape == \A f \in Packets : \A i \in 1..FrameLen : f[i] # ESC

(* A decoder that has what was sent commits no fault. *)
LEMMA WholeFact ==
  ASSUME NEW d \in Decoder, NEW e \in Encoder(Packets), Honest(e), Whole(d, e)
  PROVE  ~Faulty(d, e)
  <1>1. /\ e.frame \in Frame /\ e.pos \in 0..FrameLen /\ e.escape \in BOOLEAN
        /\ ByteOf(e) \in Byte /\ d.escaped = e.escape /\ END # ESC
    BY EncoderFact, FrameFact, BridgeAssumption DEF Whole, Aligned
  <1>2. CASE Done(e)
    <2>1. Datagram(d) = e.frame
      BY <1>1, <1>2, DatagramFact DEF Whole, Done
    <2>2. Sends(d, ByteOf(e))
      BY <1>1, <1>2, EncoderFact, FrameFact DEF Sends
    <2> QED BY <1>2, <2>1, <2>2 DEF Faulty
  <1>3. CASE Escapes(e)
    BY <1>1, <1>3, EncoderFact, FrameFact DEF Faulty, Sends
  <1>4. CASE ~Done(e) /\ ~Escapes(e)
    BY <1>1, <1>4, EncoderFact, FrameFact DEF Faulty, Sends
  <1> QED BY <1>2, <1>3, <1>4

(* One byte: a decoder that is right stays right, one that agrees about    *)
(* the escape is right after a fault, one that does not agrees afterwards. *)
LEMMA DecodeStep ==
  ASSUME NoEscape,
         NEW d \in Decoder, NEW e \in Encoder(Packets), Honest(e),
         NEW f \in Encoder(Packets), Follows(e, f)
  PROVE  /\ Whole(d, e) => ~Faulty(d, e) /\ Whole(Decode(d, ByteOf(e)), f)
         /\ Aligned(d, e) /\ Faulty(d, e) => Whole(Decode(d, ByteOf(e)), f)
         /\ Aligned(Decode(d, ByteOf(e)), f)
  <1> DEFINE b == ByteOf(e)
             n == Decode(d, b)
  <1>1. /\ e.frame \in Frame /\ e.frame \in Packets
        /\ e.pos \in 0..FrameLen /\ e.escape \in BOOLEAN
        /\ b \in Byte /\ d.escaped \in BOOLEAN /\ d.pos \in 0..FrameLen - 1
        /\ FrameLen \in Nat \ {0, 1} /\ END # ESC /\ f.escape \in BOOLEAN
    BY EncoderFact, FrameFact, BridgeAssumption DEF Decoder, Encoder
  <1>2. CASE Done(e)
    <2>1. b = END /\ ~e.escape /\ e.pos = FrameLen /\ f.pos = 0 /\ ~f.escape
      BY <1>2, EncoderFact, FrameFact, FollowsFact
    <2>2. ~n.escaped
      BY <2>1, <1>1, DecodeFact, StoreFact DEF Sends
    <2>3. Aligned(d, e) => Sends(d, b) /\ n.pos = 0
      BY <2>1, <1>1, DecodeFact DEF Aligned, Sends
    <2>4. Aligned(n, f)
      BY <2>1, <2>2, <1>1, DecodeFact DEF Aligned, Decoder
    <2>5. Aligned(d, e) => Whole(n, f)
      <3>1. ~Done(f)
        BY <2>1, <1>1 DEF Done
      <3> QED BY <2>1, <2>3, <2>4, <3>1 DEF Whole
    <2>6. Whole(d, e) => Datagram(d) = e.frame
      BY <1>2, <1>1, <2>1, DatagramFact DEF Whole
    <2> QED BY <1>2, <2>3, <2>4, <2>5, <2>6 DEF Faulty, Whole
  <1>3. CASE Escapes(e)
    <2>1. b = ESC /\ ~Done(e) /\ ~e.escape /\ f.escape /\ f.pos = e.pos /\ f.frame = e.frame
      BY <1>3, EncoderFact, FrameFact, FollowsFact
    <2>2. n.escaped /\ n.pos = d.pos /\ n.buf = d.buf /\ ~Faulty(d, e)
      BY <2>1, <1>1, DecodeFact DEF Faulty, Sends
    <2>3. Aligned(n, f) /\ ~Done(f)
      BY <2>1, <2>2, <1>1, DecodeFact DEF Aligned, Decoder, Done
    <2> QED BY <2>1, <2>2, <2>3 DEF Whole
  <1>4. CASE ~Done(e) /\ ~Escapes(e)
    <2>1. /\ b = e.frame[e.pos + 1] /\ (b \in {END, ESC} <=> e.escape)
          /\ e.pos \in 0..FrameLen - 1
          /\ ~f.escape /\ f.pos = e.pos + 1 /\ f.frame = e.frame
      BY <1>4, EncoderFact, FrameFact, FollowsFact
    <2>2. b # ESC
      BY <2>1, <1>1 DEF NoEscape
    <2>3. ~n.escaped
      BY <2>2, DecodeFact, StoreFact, <1>1
    <2>4. Aligned(n, f)
      BY <2>1, <2>3, <1>1, DecodeFact DEF Aligned, Decoder
    <2>5. Aligned(d, e) => ~Sends(d, b)
      BY <2>1, <2>2, <1>1 DEF Aligned, Sends
    <2>6. Whole(d, e) => Whole(n, f)
      <3> SUFFICES ASSUME Whole(d, e) PROVE Whole(n, f)
        OBVIOUS
      <3>1. n = StoreIn(d, b) /\ d.pos = e.pos /\ \A i \in 1..e.pos : d.buf[i] = e.frame[i]
        BY <2>2, <2>5, <1>1, <1>4, DecodeFact DEF Whole
      <3>2. n.pos = IF Done(f) THEN FrameLen - 1 ELSE f.pos
        BY <3>1, <2>1, <1>1, StoreFact DEF Done
      <3>3. \A i \in 1..e.pos : n.buf[i] = e.frame[i]
        BY <3>1, <1>1, StoreFact
      <3>4. n.buf[e.pos + 1] = e.frame[e.pos + 1]
        BY <3>1, <2>1, <1>1, StoreFact
      <3>5. \A i \in 1..f.pos : n.buf[i] = f.frame[i]
        BY <3>3, <3>4, <2>1
      <3> QED BY <2>4, <3>2, <3>5 DEF Whole
    <2> QED BY <1>4, <2>4, <2>5, <2>6 DEF Faulty, Whole
  <1> QED BY <1>2, <1>3, <1>4

-----------------------------------------------------------------------------
(* The gateway's decoder.                                                  *)

Taker == {g \in [bytes : Seq(Byte), escape : BOOLEAN] : Len(g.bytes) <= FrameLen}

LEMMA TakeFact ==
  ASSUME NEW g \in Taker, NEW b \in Byte
  PROVE  /\ Take(g, b) \in Taker
         /\ ~g.escape /\ b = ESC => Take(g, b).escape /\ Take(g, b).bytes = g.bytes
         /\ Ends(g, b) => ~Take(g, b).escape /\ Take(g, b).bytes = <<>>
         /\ g.escape \/ b \notin {END, ESC} =>
              /\ ~Take(g, b).escape
              /\ Len(g.bytes) < FrameLen =>
                   /\ Len(Take(g, b).bytes) = Len(g.bytes) + 1
                   /\ Take(g, b).bytes[Len(g.bytes) + 1] = b
                   /\ \A i \in 1..Len(g.bytes) : Take(g, b).bytes[i] = g.bytes[i]
  <1>1. /\ g.bytes \in Seq(Byte) /\ Len(g.bytes) \in Nat /\ Len(g.bytes) <= FrameLen
        /\ g.escape \in BOOLEAN /\ FrameLen \in Nat /\ END # ESC
    BY BridgeAssumption DEF Taker
  <1>2. CASE ~g.escape /\ b = ESC
    <2>1. Take(g, b) = [g EXCEPT !.escape = TRUE]
      BY <1>2 DEF Take
    <2>2. Take(g, b) \in Taker /\ Take(g, b).escape /\ Take(g, b).bytes = g.bytes
      BY <2>1, <1>1 DEF Taker
    <2> QED BY <2>2, <1>1, <1>2 DEF Ends
  <1>3. CASE Ends(g, b)
    <2> DEFINE none == <<>>
    <2>1. none \in Seq(Byte) /\ Len(none) = 0
      BY EmptySeq
    <2>2. Take(g, b) = [bytes |-> none, escape |-> FALSE]
      BY <1>1, <1>3 DEF Take, Ends
    <2> HIDE DEF none
    <2>3. Take(g, b) \in Taker /\ ~Take(g, b).escape /\ Take(g, b).bytes = none
      BY <2>1, <2>2, <1>1 DEF Taker
    <2> QED BY <2>3, <1>1, <1>3 DEF Ends, none
  <1>4. CASE g.escape \/ b \notin {END, ESC}
    <2> DEFINE more == Append(g.bytes, b)
               bytes == IF Len(g.bytes) < FrameLen THEN more ELSE g.bytes
    <2>1. /\ more \in Seq(Byte) /\ Len(more) = Len(g.bytes) + 1
          /\ more[Len(g.bytes) + 1] = b
          /\ \A i \in 1..Len(g.bytes) : more[i] = g.bytes[i]
      BY <1>1, AppendProperties
    <2> HIDE DEF more
    <2>2. bytes \in Seq(Byte) /\ Len(bytes) <= FrameLen
      BY <1>1, <2>1
    <2>3. Take(g, b) = [bytes |-> bytes, escape |-> FALSE]
      BY <1>4 DEF Take, more
    <2> HIDE DEF bytes
    <2>4. Take(g, b) \in Taker /\ ~Take(g, b).escape /\ Take(g, b).bytes = bytes
      BY <2>2, <2>3 DEF Taker
    <2>5. ~Ends(g, b) /\ ~(~g.escape /\ b = ESC)
      BY <1>4 DEF Ends
    <2> QED BY <2>1, <2>4, <2>5 DEF bytes
  <1> QED BY <1>2, <1>3, <1>4 DEF Ends

NextByte(e) == IF Done(e) THEN Nothing ELSE After(e)

(* One byte: a decoder that has what was sent keeps it, one that agrees    *)
(* about the escape takes a wrong frame at most once, and one that does    *)
(* not, at the start of a datagram, agrees after the first byte.           *)
LEMMA TakeStep ==
  ASSUME NEW g \in Taker, NEW e \in Encoder(Datagrams), Honest(e),
         g.escape = e.escape \/ (e.pos = 0 /\ ~e.escape)
  PROVE  /\ Received(g, e) => ~Garbles(g, e) /\ Received(Take(g, ByteOf(e)), NextByte(e))
         /\ Garbles(g, e) => Received(Take(g, ByteOf(e)), NextByte(e))
         /\ Take(g, ByteOf(e)).escape = NextByte(e).escape
  <1> DEFINE b == ByteOf(e)
             n == Take(g, b)
             f == NextByte(e)
  <1>1. /\ e.frame \in Frame /\ e.frame \in Datagrams
        /\ e.pos \in 0..FrameLen /\ e.escape \in BOOLEAN
        /\ b \in Byte /\ g.escape \in BOOLEAN /\ g.bytes \in Seq(Byte)
        /\ FrameLen \in Nat \ {0, 1} /\ END # ESC /\ n.escape \in BOOLEAN
    <2>1. n \in Taker /\ b \in Byte
      BY EncoderFact, FrameFact, TakeFact
    <2> QED BY <2>1, EncoderFact, FrameFact, BridgeAssumption DEF Taker
  <1>2. CASE Done(e)
    <2>1. b = END /\ ~e.escape /\ e.pos = FrameLen /\ f = Nothing
      BY <1>2, EncoderFact, FrameFact DEF NextByte
    <2>2. g.escape = FALSE
      BY <2>1, <1>1
    <2>3. Ends(g, b)
      BY <2>1, <2>2 DEF Ends
    <2>4. n.escape = FALSE /\ n.bytes = <<>>
      BY <2>3, <1>1, TakeFact
    <2>5. Received(n, f)
      <3>1. Len(n.bytes) = 0
        BY <2>4, EmptySeq
      <3>2. f.pos = 0 /\ f.escape = FALSE
        BY <2>1, NothingFact
      <3> HIDE DEF n, f
      <3>3. n.escape = f.escape /\ Len(n.bytes) = f.pos
        BY <2>4, <3>1, <3>2
      <3>4. \A i \in 1..f.pos : n.bytes[i] = f.frame[i]
        BY <3>2
      <3> QED BY <3>3, <3>4 DEF Received
    <2>6. Received(g, e) => g.bytes = e.frame
      <3>1. e.frame \in Seq(Byte) /\ Len(e.frame) = FrameLen
        BY <1>1 DEF Frame
      <3> QED BY <3>1, <2>1, <1>1, SeqEqual DEF Received
    <2> QED BY <1>2, <2>1, <2>3, <2>4, <2>5, <2>6, NothingFact DEF Garbles
  <1>3. CASE Escapes(e)
    <2>1. /\ b = ESC /\ ~Done(e) /\ e.escape = FALSE /\ f = After(e)
          /\ f.escape = TRUE /\ f.pos = e.pos /\ f.frame = e.frame
      <3>1. /\ b = ESC /\ ~Done(e) /\ ~e.escape /\ f = After(e)
            /\ f.escape /\ f.pos = e.pos /\ f.frame = e.frame /\ f \in Encoder(Datagrams)
        BY <1>3, EncoderFact, FrameFact DEF NextByte
      <3> QED BY <3>1, <1>1 DEF Encoder
    <2>2. e.pos # 0
      <3>1. e.frame[1] \notin {END, ESC}
        BY <1>1, BridgeAssumption
      <3> QED BY <1>3, <3>1 DEF Escapes
    <2>3. g.escape = FALSE
      BY <2>1, <2>2
    <2>4. n.escape = TRUE /\ n.bytes = g.bytes
      BY <2>1, <2>3, <1>1, TakeFact
    <2>5. ~Garbles(g, e)
      BY <2>1, <1>1 DEF Garbles, Ends
    <2>6. Received(g, e) => Received(n, f)
      BY <2>1, <2>4 DEF Received
    <2> QED BY <2>1, <2>4, <2>5, <2>6
  <1>4. CASE ~Done(e) /\ ~Escapes(e)
    <2>1. /\ b = e.frame[e.pos + 1] /\ (b \in {END, ESC} <=> e.escape)
          /\ e.pos \in 0..FrameLen - 1 /\ f = After(e)
          /\ f.escape = FALSE /\ f.pos = e.pos + 1 /\ f.frame = e.frame
      <3>1. /\ b = e.frame[e.pos + 1] /\ (b \in {END, ESC} <=> e.escape)
            /\ e.pos \in 0..FrameLen - 1 /\ f = After(e)
            /\ ~f.escape /\ f.pos = e.pos + 1 /\ f.frame = e.frame
            /\ f \in Encoder(Datagrams)
        BY <1>4, EncoderFact, FrameFact DEF NextByte
      <3> QED BY <3>1 DEF Encoder
    <2>2. g.escape \/ b \notin {END, ESC}
      BY <2>1, <1>1
    <2>3. n.escape = FALSE
      BY <2>2, <1>1, TakeFact
    <2>4. ~Garbles(g, e)
      BY <1>4, <2>2 DEF Garbles, Ends
    <2>5. Received(g, e) => Received(n, f)
      <3> SUFFICES ASSUME Received(g, e) PROVE Received(n, f)
        OBVIOUS
      <3>1. Len(g.bytes) = e.pos /\ e.pos < FrameLen /\ \A i \in 1..e.pos : g.bytes[i] = e.frame[i]
        BY <2>1, <1>1 DEF Received
      <3>2. /\ Len(n.bytes) = e.pos + 1 /\ n.bytes[e.pos + 1] = b
            /\ \A i \in 1..e.pos : n.bytes[i] = g.bytes[i]
        BY <3>1, <2>2, <1>1, TakeFact
      <3>3. \A i \in 1..e.pos + 1 : n.bytes[i] = e.frame[i]
        BY <3>1, <3>2, <2>1
      <3> QED BY <2>1, <2>3, <3>2, <3>3 DEF Received
    <2> QED BY <2>1, <2>3, <2>4, <2>5
  <1> QED BY <1>2, <1>3, <1>4

-----------------------------------------------------------------------------
(* The initial state.                                                      *)

BridgeInv == BridgeTypes /\ GatewayInv

LEMMA InitInv == Init => BridgeInv /\ ChainInv /\ DebtInv
  <1> SUFFICES ASSUME Init PROVE BridgeInv /\ ChainInv /\ DebtInv
    OBVIOUS
  <1> USE BridgeAssumption DEF Init
  <1>1. PICK f \in Packets : sender = Start(f)
    OBVIOUS
  <1>2. sender \in Encoder(Packets) /\ Honest(sender) /\ sender.pos = 0 /\ ~sender.escape
    BY <1>1, StartFact
  <1>3. decoder \in Decoder /\ decoder.pos = 0 /\ ~decoder.escaped
    <2>1. 0 \in 0..FrameLen - 1
      OBVIOUS
    <2> QED BY <2>1 DEF Decoder, Frame
  <1>4. BridgeTypes
    <2> DEFINE none == <<>>
    <2>1. none \in Seq(Encoder(Packets)) /\ none \in Seq(Byte) /\ Len(none) = 0
      BY EmptySeq
    <2>2. incoming = none /\ gateway = [bytes |-> none, escape |-> FALSE]
      OBVIOUS
    <2> HIDE DEF none
    <2>3. Len(incoming) <= InFlight
      BY <2>1, <2>2
    <2>4. gateway \in [bytes : Seq(Byte), escape : BOOLEAN] /\ Len(gateway.bytes) <= FrameLen
      BY <2>1, <2>2
    <2>5. serial \in {"none", "alive", "closed", "reset"}
      BY DEF Opened
    <2>6. silent \in 0..Timeout + 1 /\ faults \in 0..MaxFaults /\ garbled \in 0..MaxFaults
      BY DEF MaxFaults
    <2>7. TypeOK
      BY <1>2, <1>3, <2>1, <2>2, <2>3, <2>4, <2>5, <2>6 DEF TypeOK, Decoder, Frame
    <2>8. \A i \in 1..Len(incoming) : Honest(incoming[i])
      BY <2>1, <2>2
    <2> QED BY <1>2, <2>7, <2>8, NothingFact DEF BridgeTypes
  <1>5. GatewayInv
    <2>1. gateway.escape = FALSE /\ Len(gateway.bytes) = 0
      BY EmptySeq
    <2>2. writing.pos = 0 /\ writing.escape = FALSE
      BY NothingFact
    <2>3. gateway.escape = writing.escape /\ Len(gateway.bytes) = writing.pos
      BY ONLY <2>1, <2>2
    <2>4. \A i \in 1..writing.pos : gateway.bytes[i] = writing.frame[i]
      BY ONLY <2>2
    <2>5. Received(gateway, writing)
      BY ONLY <2>3, <2>4 DEF Received
    <2>6. garbled <= IF short THEN 1 ELSE 0
      OBVIOUS
    <2> QED BY <2>3, <2>5, <2>6 DEF GatewayInv
  <1>6. ChainInv
    BY DEF ChainInv
  <1>7. DebtInv
    <2>1. At = sender
      BY DEF At
    <2>2. Aligned(decoder, sender)
      BY <1>2, <1>3 DEF Aligned, Encoder, Decoder
    <2>3. ~Done(sender) /\ decoder.pos = sender.pos
      BY <1>2, <1>3 DEF Done
    <2>4. \A i \in 1..sender.pos : decoder.buf[i] = sender.frame[i]
      BY ONLY <1>2
    <2>5. Whole(decoder, sender)
      BY ONLY <2>2, <2>3, <2>4 DEF Whole
    <2> QED BY <2>1, <2>5 DEF DebtInv, Whole
  <1> QED BY <1>4, <1>5, <1>6, <1>7 DEF BridgeInv

-----------------------------------------------------------------------------
(* Types.                                                                  *)

LEMMA CountFact ==
  ASSUME NEW n \in 0..MaxFaults, NEW more \in BOOLEAN
  PROVE  /\ Count(n, more) \in 0..MaxFaults
         /\ ~more => Count(n, more) = n
         /\ Count(n, more) <= n + 1
  BY DEF Count, MaxFaults

LEMMA DecoderTypes == TypeOK => decoder \in Decoder
  BY DEF TypeOK, Decoder, Frame

LEMMA TakerTypes == TypeOK => gateway \in Taker
  BY DEF TypeOK, Taker

(* What the connection holds when a byte is added or taken. *)
LEMMA ReadFact ==
  ASSUME BridgeTypes, incoming # <<>>
  PROVE  /\ Head(incoming) \in Encoder(Packets) /\ Honest(Head(incoming))
         /\ Head(incoming) = incoming[1]
         /\ Len(incoming) \in Nat \ {0} /\ Tail(incoming) \in Seq(Encoder(Packets))
         /\ Len(Tail(incoming)) = Len(incoming) - 1
         /\ \A i \in 1..Len(incoming) - 1 : Tail(incoming)[i] = incoming[i + 1]
  <1>1. incoming \in Seq(Encoder(Packets))
    BY DEF BridgeTypes, TypeOK
  <1>2. Len(incoming) \in Nat \ {0} /\ Head(incoming) = incoming[1]
    BY <1>1, EmptySeq
  <1>3. Honest(incoming[1])
    BY <1>2 DEF BridgeTypes
  <1> QED BY <1>1, <1>2, <1>3, HeadTailProperties

LEMMA TypesStep == BridgeTypes /\ [Next]_vars => BridgeTypes'
  <1> SUFFICES ASSUME BridgeTypes, [Next]_vars PROVE BridgeTypes'
    OBVIOUS
  <1> USE DEF link, receiver
  <1>0. TypeOK /\ Honest(sender) /\ Honest(writing)
        /\ \A i \in 1..Len(incoming) : Honest(incoming[i])
    BY DEF BridgeTypes
  <1>1. CASE GatewayByte
    <2> DEFINE n == Len(incoming)
    <2>1. sender' \in Encoder(Packets) /\ Honest(sender')
      <3>1. CASE Done(sender)
        BY <1>1, <3>1, StartFact DEF GatewayByte
      <3>2. CASE ~Done(sender)
        BY <1>0, <1>1, <3>2, EncoderFact, FrameFact DEF GatewayByte, TypeOK
      <3> QED BY <3>1, <3>2
    <2>2. CASE serial = "alive"
      <3>1. incoming' = Append(incoming, sender) /\ n < InFlight
            /\ incoming \in Seq(Encoder(Packets)) /\ sender \in Encoder(Packets)
        BY <1>0, <1>1, <2>2 DEF GatewayByte, TypeOK
      <3>2. /\ incoming' \in Seq(Encoder(Packets)) /\ Len(incoming') = n + 1 /\ n \in Nat
            /\ \A i \in 1..n : incoming'[i] = incoming[i]
            /\ incoming'[n + 1] = sender
        BY <3>1, AppendProperties
      <3>3. Len(incoming') <= InFlight
        BY <3>1, <3>2, BridgeAssumption
      <3>4. \A i \in 1..Len(incoming') : Honest(incoming'[i])
        <4> TAKE i \in 1..Len(incoming')
        <4>1. i = n + 1 \/ i \in 1..n
          BY <3>2
        <4> QED BY <4>1, <3>2, <1>0
      <3> QED BY <1>0, <1>1, <2>1, <3>2, <3>3, <3>4 DEF GatewayByte, BridgeTypes, TypeOK
    <2>3. CASE serial # "alive"
      BY <1>0, <1>1, <2>1, <2>3 DEF GatewayByte, BridgeTypes, TypeOK
    <2> QED BY <2>2, <2>3
  <1>2. CASE ServerStops
    BY <1>0, <1>2 DEF ServerStops, BridgeTypes, TypeOK
  <1>3. CASE ServerStarts
    BY <1>0, <1>3 DEF ServerStarts, BridgeTypes, TypeOK
  <1>4. CASE ReadSerial
    <2> DEFINE e == Head(incoming)
    <2>1. /\ e \in Encoder(Packets) /\ Honest(e)
          /\ decoder' = Decode(decoder, ByteOf(e))
          /\ faults' = Count(faults, Faulty(decoder, e))
          /\ incoming' = Tail(incoming) /\ incoming # <<>>
      BY <1>4, ReadFact DEF ReadSerial
    <2>2. ByteOf(e) \in Byte /\ Faulty(decoder, e) \in BOOLEAN
      BY <2>1, EncoderFact, FrameFact DEF Faulty, Sends
    <2>3. decoder' \in Decoder
      BY <2>1, <2>2, <1>0, DecoderTypes, DecodeFact
    <2>4. faults' \in 0..MaxFaults
      BY <2>1, <2>2, <1>0, CountFact DEF TypeOK
    <2>5. /\ incoming' \in Seq(Encoder(Packets)) /\ Len(incoming') <= InFlight
          /\ \A i \in 1..Len(incoming') : Honest(incoming'[i])
      <3>1. /\ incoming' \in Seq(Encoder(Packets)) /\ Len(incoming') = Len(incoming) - 1
            /\ Len(incoming) \in Nat \ {0}
            /\ \A i \in 1..Len(incoming) - 1 : incoming'[i] = incoming[i + 1]
        BY <2>1, ReadFact
      <3>2. Len(incoming') <= InFlight
        BY <3>1, <1>0, BridgeAssumption DEF TypeOK
      <3>3. ASSUME NEW i \in 1..Len(incoming') PROVE Honest(incoming'[i])
        <4>1. i \in 1..Len(incoming) - 1 /\ i + 1 \in 1..Len(incoming)
          BY <3>1
        <4> QED BY <4>1, <3>1, <1>0
      <3> QED BY <3>1, <3>2, <3>3
    <2>6. 0 \in 0..Timeout + 1
      BY BridgeAssumption
    <2> HIDE DEF e
    <2> QED BY <1>0, <1>4, <2>3, <2>4, <2>5, <2>6
            DEF ReadSerial, BridgeTypes, TypeOK, Decoder, Frame
  <1>5. CASE WriteByte
    <2>1. writing \in Encoder(Datagrams) /\ Honest(writing)
      BY <1>0, <1>5 DEF WriteByte, TypeOK
    <2>2. writing' \in Encoder(Datagrams) \cup {Nothing} /\ Honest(writing')
      <3>1. CASE Done(writing)
        BY <1>5, <3>1, NothingFact DEF WriteByte
      <3>2. CASE ~Done(writing)
        BY <1>5, <2>1, <3>2, EncoderFact, FrameFact DEF WriteByte
      <3> QED BY <3>1, <3>2
    <2>3. ByteOf(writing) \in Byte /\ Garbles(gateway, writing) \in BOOLEAN
      BY <2>1, EncoderFact, FrameFact DEF Garbles, Ends
    <2>4. gateway' \in Taker
      BY <1>5, <2>3, <1>0, TakerTypes, TakeFact DEF WriteByte
    <2>5. garbled' \in 0..MaxFaults
      BY <1>5, <2>3, <1>0, CountFact DEF WriteByte, TypeOK
    <2>6. gateway' \in [bytes : Seq(Byte), escape : BOOLEAN] /\ Len(gateway'.bytes) <= FrameLen
      BY <2>4 DEF Taker
    <2> QED BY <1>0, <1>5, <2>2, <2>5, <2>6 DEF WriteByte, BridgeTypes, TypeOK
  <1>6. CASE CutShort
    <2>1. garbled' \in 0..MaxFaults /\ short' \in BOOLEAN
      BY <1>6 DEF CutShort, MaxFaults
    <2> QED BY <1>0, <1>6, <2>1, NothingFact DEF CutShort, BridgeTypes, TypeOK
  <1>7. CASE ForwardLost
    <2>1. serial' \in {"none", "alive", "closed", "reset"} /\ killed' \in BOOLEAN
      BY <1>7 DEF ForwardLost
    <2> QED BY <1>0, <1>7, <2>1 DEF ForwardLost, BridgeTypes, TypeOK
  <1>8. CASE Tick
    <2>1. silent' \in 0..Timeout + 1
      BY <1>0, <1>8, BridgeAssumption DEF Tick, TypeOK
    <2> QED BY <1>0, <1>8, <2>1 DEF Tick, BridgeTypes, TypeOK
  <1>9. CASE Reconnect
    <2> DEFINE none == <<>>
    <2>1. none \in Seq(Encoder(Packets)) /\ Len(none) = 0
      BY EmptySeq
    <2>2. incoming' = none
      BY <1>9 DEF Reconnect
    <2> HIDE DEF none
    <2>3. Len(incoming') <= InFlight /\ \A i \in 1..Len(incoming') : Honest(incoming'[i])
      BY <2>1, <2>2, BridgeAssumption
    <2>4. 0 \in 0..Timeout + 1 /\ 0 \in 0..MaxFaults
      BY BridgeAssumption DEF MaxFaults
    <2>5. serial' \in {"none", "alive", "closed", "reset"}
      BY <1>9 DEF Reconnect, Opened
    <2> QED BY <1>0, <1>9, <2>1, <2>2, <2>3, <2>4, <2>5 DEF Reconnect, BridgeTypes, TypeOK
  <1>10. ASSUME NEW d \in Datagrams, Forward(d) PROVE BridgeTypes'
    <2>1. writing' \in Encoder(Datagrams) /\ Honest(writing')
      BY <1>10, StartFact DEF Forward
    <2> QED BY <1>0, <1>10, <2>1 DEF Forward, BridgeTypes, TypeOK
  <1>11. CASE UNCHANGED vars
    BY <1>0, <1>11 DEF vars, BridgeTypes, TypeOK
  <1> QED BY <1>1, <1>2, <1>3, <1>4, <1>5, <1>6, <1>7, <1>8, <1>9, <1>10, <1>11
          DEF Next, Write

-----------------------------------------------------------------------------
(* The write.                                                              *)

LEMMA GatewayStep == BridgeTypes /\ GatewayInv /\ [Next]_vars => GatewayInv'
  <1> SUFFICES ASSUME BridgeTypes, GatewayInv, [Next]_vars PROVE GatewayInv'
    OBVIOUS
  <1> USE DEF link, receiver
  <1>0. TypeOK /\ Honest(writing) /\ gateway \in Taker
    BY TakerTypes DEF BridgeTypes
  <1>1. CASE UNCHANGED <<writing, receiver>>
    BY <1>1 DEF GatewayInv, Received
  <1>2. CASE WriteByte
    <2> DEFINE w == writing
               g == gateway
    <2>1. /\ w \in Encoder(Datagrams)
          /\ w' = NextByte(w) /\ g' = Take(g, ByteOf(w))
          /\ garbled' = Count(garbled, Garbles(g, w)) /\ short' = short
      BY <1>0, <1>2 DEF WriteByte, NextByte, TypeOK
    <2>2. /\ garbled \in 0..MaxFaults /\ garbled <= IF short THEN 1 ELSE 0
          /\ ~short => Received(g, w)
          /\ ~Received(g, w) => garbled = 0
          /\ g.escape = w.escape \/ (w.pos = 0 /\ ~w.escape)
      BY <1>0 DEF GatewayInv, TypeOK
    <2>3. /\ Received(g, w) => ~Garbles(g, w) /\ Received(g', w')
          /\ Garbles(g, w) => Received(g', w')
          /\ g'.escape = w'.escape
      BY <1>0, <2>1, <2>2, TakeStep
    <2>4. Garbles(g, w) \in BOOLEAN
      BY DEF Garbles, Ends
    <2>5. garbled' <= garbled + 1 /\ (~Garbles(g, w) => garbled' = garbled)
      BY <2>1, <2>2, <2>4, CountFact
    <2>6. garbled' \in 0..MaxFaults
      BY <2>1, <2>2, <2>4, CountFact
    <2> HIDE DEF w, g
    <2>7. CASE Received(g, w)
      BY <2>1, <2>2, <2>3, <2>5, <2>7 DEF GatewayInv, w, g
    <2>8. CASE ~Received(g, w)
      <3>1. short /\ garbled = 0
        BY <2>2, <2>8
      <3>2. garbled' <= 1 /\ (~Received(g', w') => garbled' = 0)
        BY <3>1, <2>3, <2>5
      <3> QED BY <2>1, <2>3, <3>1, <3>2 DEF GatewayInv, w, g
    <2> QED BY <2>7, <2>8
  <1>3. CASE CutShort
    <2>1. garbled' = 0 /\ short' /\ writing'.pos = 0 /\ ~writing'.escape
      BY <1>3, NothingFact DEF CutShort
    <2> QED BY <2>1 DEF GatewayInv
  <1>4. ASSUME NEW d \in Datagrams, Forward(d) PROVE GatewayInv'
    <2>1. /\ writing.pos = 0 /\ writing.escape = FALSE
          /\ writing'.pos = 0 /\ writing'.escape = FALSE
          /\ UNCHANGED receiver
      BY <1>4, NothingFact, StartFact DEF Forward, Selecting, Looping
    <2>2. ASSUME Received(gateway, writing) PROVE Received(gateway, writing)'
      <3>1. gateway'.escape = writing'.escape /\ Len(gateway'.bytes) = writing'.pos
        BY <2>1, <2>2 DEF Received
      <3>2. \A i \in 1..writing'.pos : gateway'.bytes[i] = writing'.frame[i]
        BY <2>1
      <3> QED BY <3>1, <3>2 DEF Received
    <2> QED BY <2>1, <2>2 DEF GatewayInv
  <1>5. CASE \/ GatewayByte \/ ServerStops \/ ServerStarts \/ ReadSerial
            \/ ForwardLost \/ Tick \/ Reconnect \/ UNCHANGED vars
    BY <1>1, <1>5 DEF GatewayByte, ServerStops, ServerStarts, ReadSerial, ForwardLost, Tick,
                      Reconnect, vars
  <1> QED BY <1>2, <1>3, <1>4, <1>5 DEF Next, Write

-----------------------------------------------------------------------------
(* The connection.                                                         *)

LEMMA ChainStep == BridgeTypes /\ ChainInv /\ [Next]_vars => ChainInv'
  <1> SUFFICES ASSUME BridgeTypes, ChainInv, [Next]_vars PROVE ChainInv'
    OBVIOUS
  <1> USE DEF link, receiver
  <1> DEFINE n == Len(incoming)
  <1>0. incoming \in Seq(Encoder(Packets)) /\ n \in Nat /\ (incoming # <<>> => n # 0)
    BY EmptySeq DEF BridgeTypes, TypeOK
  <1>1. CASE UNCHANGED <<sender, incoming, serial>>
    BY <1>1 DEF ChainInv
  <1>2. CASE GatewayByte
    <2>1. Follows(sender, sender')
      BY <1>2 DEF GatewayByte, Follows, Start
    <2>2. CASE serial = "alive"
      <3>1. /\ Len(incoming') = n + 1 /\ incoming'[n + 1] = sender
            /\ \A i \in 1..n : incoming'[i] = incoming[i]
            /\ serial' = serial
        BY <1>0, <1>2, <2>2, AppendProperties DEF GatewayByte, BridgeTypes, TypeOK
      <3>2. n # 0 => incoming # <<>>
        BY EmptySeq
      <3> HIDE DEF n
      <3>3. ASSUME NEW i \in 1..n PROVE Follows(incoming'[i], incoming'[i + 1])
        <4>1. CASE i = n
          <5>1. n # 0 /\ Follows(incoming[n], sender)
            BY <1>0, <2>2, <3>2, <4>1 DEF ChainInv, n
          <5> QED BY <3>1, <4>1, <5>1
        <4>2. CASE i # n
          <5>1. i \in 1..n - 1 /\ i + 1 \in 1..n
            BY <1>0, <4>2
          <5>2. Follows(incoming[i], incoming[i + 1])
            BY <5>1 DEF ChainInv, n
          <5> QED BY <3>1, <5>1, <5>2
        <4> QED BY <4>1, <4>2
      <3>4. Len(incoming') - 1 = n /\ Follows(incoming'[Len(incoming')], sender')
        BY <1>0, <2>1, <3>1
      <3> QED BY <3>3, <3>4 DEF ChainInv
    <2>3. CASE serial # "alive"
      BY <1>2, <2>3 DEF GatewayByte, ChainInv
    <2> QED BY <2>2, <2>3
  <1>3. CASE ReadSerial
    <2>1. /\ n \in Nat \ {0} /\ Len(incoming') = n - 1
          /\ \A i \in 1..n - 1 : incoming'[i] = incoming[i + 1]
          /\ sender' = sender /\ serial' = serial /\ incoming # <<>>
      BY <1>3, ReadFact DEF ReadSerial
    <2>2. incoming' # <<>> => Len(incoming') # 0
      <3>1. incoming' \in Seq(Encoder(Packets))
        BY <1>3, ReadFact DEF ReadSerial
      <3> QED BY <3>1, EmptySeq
    <2>3. ASSUME NEW i \in 1..Len(incoming') - 1
          PROVE  Follows(incoming'[i], incoming'[i + 1])
      <3>1. i \in 1..n - 1 /\ i + 1 \in 1..n - 1
        BY <2>1
      <3>2. Follows(incoming[i + 1], incoming[(i + 1) + 1])
        BY <3>1 DEF ChainInv
      <3> QED BY <2>1, <3>1, <3>2
    <2>4. ASSUME serial' = "alive", incoming' # <<>>
          PROVE  Follows(incoming'[Len(incoming')], sender')
      <3>1. n - 1 \in 1..n - 1 /\ Len(incoming') = n - 1
        BY <2>1, <2>2, <2>4
      <3>2. incoming'[n - 1] = incoming[n]
        BY <2>1, <3>1
      <3>3. Follows(incoming[n], sender)
        BY <2>1, <2>4 DEF ChainInv
      <3> QED BY <2>1, <3>1, <3>2, <3>3
    <2> QED BY <2>3, <2>4 DEF ChainInv
  <1>4. CASE ServerStops
    BY <1>4 DEF ServerStops, ChainInv
  <1>5. CASE ForwardLost
    BY <1>5 DEF ForwardLost, ChainInv
  <1>6. CASE Reconnect
    BY <1>6 DEF Reconnect, ChainInv
  <1>7. ASSUME NEW d \in Datagrams, Forward(d) PROVE ChainInv'
    BY <1>1, <1>7 DEF Forward
  <1>8. CASE ServerStarts \/ Write \/ Tick \/ UNCHANGED vars
    BY <1>1, <1>8 DEF ServerStarts, Write, WriteByte, CutShort, Tick, vars
  <1> QED BY <1>2, <1>3, <1>4, <1>5, <1>6, <1>7, <1>8 DEF Next

-----------------------------------------------------------------------------
(* The datagrams that are wrong.                                           *)

LEMMA DebtStep ==
  ASSUME NoEscape, BridgeTypes, ChainInv, DebtInv, [Next]_vars
  PROVE  DebtInv'
  <1> USE DEF link, receiver
  <1>1. CASE UNCHANGED <<decoder, faults, cut>> /\ (Reading' => Reading /\ At' = At)
    BY <1>1 DEF DebtInv
  <1>2. CASE GatewayByte
    <2>1. UNCHANGED <<decoder, faults, cut, serial>>
      BY <1>2 DEF GatewayByte
    <2>2. CASE serial = "alive"
      <3>1. incoming' = Append(incoming, sender) /\ incoming \in Seq(Encoder(Packets))
            /\ sender \in Encoder(Packets)
        BY <1>2, <2>2 DEF GatewayByte, BridgeTypes, TypeOK
      <3>2. incoming' # <<>> /\ incoming' \in Seq(Encoder(Packets))
            /\ Head(incoming') = incoming'[1]
        BY <3>1, AppendProperties
      <3>3. incoming = <<>> => incoming'[1] = sender
        BY <3>1, EmptySeq, AppendProperties
      <3>4. incoming # <<>> => incoming'[1] = Head(incoming)
        <4>1. incoming # <<>> => 1 \in 1..Len(incoming) /\ Head(incoming) = incoming[1]
          BY <3>1, EmptySeq
        <4> QED BY <3>1, <4>1, AppendProperties
      <3>5. At' = At
        BY <3>2, <3>3, <3>4 DEF At
      <3> QED BY <1>1, <2>1, <2>2, <3>5 DEF Reading
    <2>3. CASE serial # "alive"
      <3>1. incoming' = incoming
        BY <1>2, <2>3 DEF GatewayByte
      <3> QED BY <1>1, <2>1, <2>3, <3>1 DEF Reading, At
    <2> QED BY <2>2, <2>3
  <1>3. CASE ReadSerial
    <2> DEFINE e == Head(incoming)
               f == At'
    <2>1. /\ e \in Encoder(Packets) /\ Honest(e) /\ e = incoming[1] /\ At = e
          /\ decoder' = Decode(decoder, ByteOf(e))
          /\ faults' = Count(faults, Faulty(decoder, e))
          /\ cut' = cut /\ sender' = sender /\ serial' = serial
          /\ incoming' = Tail(incoming) /\ incoming # <<>> /\ Reading
      BY <1>3, ReadFact DEF ReadSerial, At, Reading
    <2>2. decoder \in Decoder /\ faults \in 0..MaxFaults /\ cut \in BOOLEAN
      BY DecoderTypes DEF BridgeTypes, TypeOK
    <2>3. Reading' => f \in Encoder(Packets) /\ Follows(e, f)
      <3>1. /\ Len(incoming) \in Nat \ {0} /\ Len(incoming') = Len(incoming) - 1
            /\ incoming' \in Seq(Encoder(Packets))
            /\ \A i \in 1..Len(incoming) - 1 : incoming'[i] = incoming[i + 1]
        BY <2>1, ReadFact
      <3>2. CASE incoming' = <<>>
        <4>1. Len(incoming) = 1
          BY <3>1, <3>2, EmptySeq
        <4>2. f = sender /\ (Reading' => serial = "alive")
          BY <2>1, <3>2 DEF At, Reading
        <4>3. serial = "alive" => Follows(incoming[Len(incoming)], sender)
          BY <2>1 DEF ChainInv
        <4>4. sender \in Encoder(Packets)
          BY DEF BridgeTypes, TypeOK
        <4> QED BY <2>1, <4>1, <4>2, <4>3, <4>4
      <3>3. CASE incoming' # <<>>
        <4>1. Len(incoming') # 0 /\ f = incoming'[1] /\ f \in Encoder(Packets)
          BY <3>1, <3>3, EmptySeq DEF At
        <4>2. 1 \in 1..Len(incoming) - 1
          BY <3>1, <4>1
        <4>3. f = incoming[1 + 1] /\ Follows(incoming[1], incoming[1 + 1])
          BY <3>1, <4>1, <4>2 DEF ChainInv
        <4> QED BY <2>1, <4>1, <4>3
      <3> QED BY <3>2, <3>3
    <2>4. Faulty(decoder, e) \in BOOLEAN
      BY DEF Faulty, Sends
    <2>5. faults' <= faults + 1 /\ (~Faulty(decoder, e) => faults' = faults) /\ faults' \in 0..MaxFaults
      BY <2>1, <2>2, <2>4, CountFact
    <2>6. /\ faults <= IF cut THEN 2 ELSE 0
          /\ ~cut => Whole(decoder, e)
          /\ ~Whole(decoder, e) => faults <= 1
          /\ ~Aligned(decoder, e) => faults = 0
      BY <2>1 DEF DebtInv
    <2>7. Reading' =>
            /\ Whole(decoder, e) => ~Faulty(decoder, e) /\ Whole(decoder', f)
            /\ Aligned(decoder, e) /\ Faulty(decoder, e) => Whole(decoder', f)
            /\ Aligned(decoder', f)
      BY <2>1, <2>2, <2>3, DecodeStep
    <2>8. Whole(decoder, e) => ~Faulty(decoder, e)
      BY <2>1, <2>2, WholeFact
    <2> HIDE DEF e, f
    <2>9. faults' <= IF cut' THEN 2 ELSE 0
      BY <2>1, <2>2, <2>5, <2>6, <2>8
    <2>10. Reading' => /\ ~cut' => Whole(decoder', f)
                       /\ ~Whole(decoder', f) => faults' <= 1
                       /\ ~Aligned(decoder', f) => faults' = 0
      <3>1. CASE Whole(decoder, e)
        BY <3>1, <2>7
      <3>2. CASE ~Whole(decoder, e) /\ Aligned(decoder, e)
        BY <3>2, <2>1, <2>2, <2>5, <2>6, <2>7
      <3>3. CASE ~Aligned(decoder, e)
        <4>1. ~Whole(decoder, e)
          BY <3>3 DEF Whole
        <4> QED BY <4>1, <3>3, <2>1, <2>2, <2>5, <2>6, <2>7
      <3> QED BY <3>1, <3>2, <3>3
    <2> QED BY <2>9, <2>10 DEF DebtInv, f
  <1>4. CASE Reconnect
    <2>1. faults' = 0 /\ cut'
      BY <1>4 DEF Reconnect
    <2> QED BY <2>1 DEF DebtInv
  <1>5. CASE ServerStops
    BY <1>1, <1>5 DEF ServerStops, Reading, At
  <1>6. CASE ForwardLost
    BY <1>1, <1>6 DEF ForwardLost, Reading, At
  <1>7. ASSUME NEW d \in Datagrams, Forward(d) PROVE DebtInv'
    BY <1>1, <1>7 DEF Forward, Reading, At
  <1>8. CASE ServerStarts \/ Write \/ Tick \/ UNCHANGED vars
    BY <1>1, <1>8 DEF ServerStarts, Write, WriteByte, CutShort, Tick, vars, Reading, At
  <1> QED BY <1>2, <1>3, <1>4, <1>5, <1>6, <1>7, <1>8 DEF Next

-----------------------------------------------------------------------------
(* The theorems.                                                           *)

(* What the read loop, the encoder and the reconnection keep in bounds:    *)
(* fromradio_pos never passes the last byte of fromradio                   *)
(* (flokati-bridge.c:218-219), whatever the stream carries.                *)
THEOREM TypeCorrect == Spec => []TypeOK
  <1>1. Init => BridgeTypes
    BY InitInv DEF BridgeInv
  <1>2. BridgeTypes => TypeOK
    BY DEF BridgeTypes
  <1> QED BY <1>1, <1>2, TypesStep, PTL DEF Spec

(* A datagram the bridge writes reaches the gateway as it is, and a write  *)
(* cut short (flokati-bridge.c:191 ignores what write returns) spoils at   *)
(* most the next one.                                                      *)
THEOREM ShortWritesBounded == Spec => []ShortWriteBounded
  <1>1. Init => BridgeInv
    BY InitInv
  <1>2. BridgeInv /\ [Next]_vars => BridgeInv'
    BY TypesStep, GatewayStep DEF BridgeInv
  <1>3. BridgeInv => ShortWriteBounded
    BY DEF BridgeInv, GatewayInv, ShortWriteBounded
  <1> QED BY <1>1, <1>2, <1>3, PTL DEF Spec

(* If no frame carries an ESC, every frame of an unbroken connection       *)
(* arrives, and at most two datagrams are wrong after each reconnection,   *)
(* although it leaves escaped and fromradio_pos as they were               *)
(* (flokati-bridge.c:225-245).  The run bridge_codec shows that the        *)
(* hypothesis cannot be dropped.                                           *)
THEOREM ReconnectionResynchronises ==
  ASSUME NoEscape
  PROVE  Spec => []Resynchronises
  <1> DEFINE Inv == BridgeTypes /\ ChainInv /\ DebtInv
  <1>1. Init => Inv
    BY InitInv DEF BridgeInv
  <1>2. Inv /\ [Next]_vars => Inv'
    BY NoEscape, TypesStep, ChainStep, DebtStep
  <1>3. Inv => Resynchronises
    BY DEF DebtInv, Resynchronises
  <1> QED BY <1>1, <1>2, <1>3, PTL DEF Spec
=============================================================================
