---------------------------- MODULE FrontendProofs ----------------------------
(***************************************************************************)
(* For any number of phones and controls, any conversion between positions *)
(* and wire values and any loss or reordering: copies stay well typed, and *)
(* the device only does what users have asked for.                         *)
(***************************************************************************)
EXTENDS Frontend, TLAPS

(* What may reach the device, now or later, has been asked for. *)
Within(packet, wanted) == \A c \in DOMAIN packet : packet[c] \in wanted[c]

WishInv ==
  /\ \A p \in Phone : \A i \in 1..Len(outbox[p]) : Within(outbox[p][i], asked)
  /\ \A packet \in flight[device] : Within(packet, asked)

Inv == TypeOK /\ WishInv

-----------------------------------------------------------------------------
(* Packets.                                                                *)

(* A packet is a function from some of the controls. *)
LEMMA ContentFact ==
  ASSUME NEW packet \in Content
  PROVE  /\ DOMAIN packet \subseteq Control
         /\ \A c \in DOMAIN packet : packet[c] \in Wire
  BY DEF Content

(* A message carries one control, as the wire has it. *)
LEMMA MessageFact ==
  ASSUME NEW copy \in [Control -> Position], NEW c \in Control
  PROVE  /\ getMessageBytes(copy, c) \in Content
         /\ DOMAIN getMessageBytes(copy, c) = {c}
         /\ getMessageBytes(copy, c)[c] = Encode[copy[c]]
  <1>1. \A k \in {c} : Encode[copy[k]] \in Wire
    BY FrontendAssumption
  <1>2. getMessageBytes(copy, c) \in [{c} -> Wire]
    BY <1>1 DEF getMessageBytes, getSinkAndValueBytes
  <1> QED BY <1>2 DEF Content, getMessageBytes, getSinkAndValueBytes

(* The whole of the settings is a packet. *)
LEMMA NotifyFact ==
  ASSUME TypeOK
  PROVE  settings \in Content
  BY DEF TypeOK, Content

(* A packet leaves a copy of what it is a copy of. *)
LEMMA UpdatedFact ==
  ASSUME NEW S, NEW copy \in [Control -> S], NEW content, DOMAIN content \subseteq Control,
         \A c \in DOMAIN content : content[c] \in S
  PROVE  Updated(copy, content) \in [Control -> S]
  BY DEF Updated

-----------------------------------------------------------------------------
(* Every step preserves the invariant.                                     *)

(* Nothing is under way at first. *)
LEMMA InitInv == Init => Inv
  <1> SUFFICES ASSUME Init PROVE Inv
    OBVIOUS
  <1> USE FrontendAssumption DEF Init
  <1>1. \A p \in Phone : outbox[p] = <<>>
    OBVIOUS
  <1>2. TypeOK
    <2>1. shown \in [Phone -> [Control -> Position]]
      OBVIOUS
    <2>2. outbox \in [Phone -> Seq(Content)] /\ \A p \in Phone : Len(outbox[p]) <= MaxOutbox
      OBVIOUS
    <2>3. flight \in [Receiver -> SUBSET Content]
      OBVIOUS
    <2> QED BY <2>1, <2>2, <2>3 DEF TypeOK
  <1>3. WishInv
    BY <1>1 DEF WishInv, Receiver
  <1> QED BY <1>2, <1>3 DEF Inv

(* A user's change is asked for, and only that is put into the message. *)
LEMMA SetProgressInv ==
  ASSUME Inv, NEW p \in Phone, NEW c \in Control, NEW x \in Position, SetProgress(p, c, x)
  PROVE  Inv'
  <1> USE FrontendAssumption DEF Inv
  <1>1. shown' \in [Phone -> [Control -> Position]] /\ shown'[p] \in [Control -> Position]
        /\ shown'[p][c] = x
    BY DEF SetProgress, TypeOK
  <1> DEFINE m == getMessageBytes(shown'[p], c)
  <1>2. m \in Content /\ DOMAIN m = {c} /\ m[c] = Encode[x]
    BY <1>1, MessageFact
  <1> HIDE DEF m
  <1>3. /\ outbox' = [outbox EXCEPT ![p] = Append(@, m)]
        /\ asked' = [asked EXCEPT ![c] = @ \cup {Encode[x]}]
        /\ wishes' = wishes + 1 /\ wishes < MaxWishes /\ Len(outbox[p]) < MaxOutbox
        /\ UNCHANGED <<settings, flight>>
    BY DEF SetProgress, m
  <1>4. /\ outbox[p] \in Seq(Content)
        /\ Append(outbox[p], m) \in Seq(Content)
        /\ Len(Append(outbox[p], m)) = Len(outbox[p]) + 1
    BY <1>2 DEF TypeOK
  <1>5. asked' \in [Control -> SUBSET Wire] /\ \A k \in Control : asked[k] \subseteq asked'[k]
    BY <1>3 DEF TypeOK
  <1>6. TypeOK'
    <2>1. outbox' \in [Phone -> Seq(Content)] /\ \A q \in Phone : Len(outbox'[q]) <= MaxOutbox
      BY <1>3, <1>4 DEF TypeOK
    <2>2. wishes' \in 0..MaxWishes
      BY <1>3 DEF TypeOK
    <2> QED BY <1>1, <1>3, <1>5, <2>1, <2>2 DEF TypeOK
  <1>7. \A packet \in Content : Within(packet, asked) => Within(packet, asked')
    BY <1>5, ContentFact DEF Within
  <1>8. Within(m, asked')
    BY <1>2, <1>3 DEF Within, TypeOK
  <1>9. \A q \in Phone : \A i \in 1..Len(outbox'[q]) : Within(outbox'[q][i], asked')
    <2> SUFFICES ASSUME NEW q \in Phone, NEW i \in 1..Len(outbox'[q])
                 PROVE  Within(outbox'[q][i], asked')
      OBVIOUS
    <2>1. CASE q = p /\ i = Len(outbox[p]) + 1
      <3>1. outbox'[q][i] = m
        BY <1>3, <1>4, <2>1 DEF TypeOK
      <3> QED BY <1>8, <3>1 DEF Within
    <2>2. CASE ~(q = p /\ i = Len(outbox[p]) + 1)
      <3>1. i \in 1..Len(outbox[q]) /\ outbox'[q][i] = outbox[q][i] /\ outbox[q][i] \in Content
        BY <1>3, <1>4, <2>2 DEF TypeOK
      <3> QED BY <1>7, <3>1 DEF WishInv, Within
    <2> QED BY <2>1, <2>2
  <1>10. WishInv'
    <2>1. \A packet \in flight[device] : packet \in Content
      BY DEF TypeOK, Receiver
    <2> QED BY <1>3, <1>7, <1>9, <2>1 DEF WishInv
  <1> QED BY <1>6, <1>10

(* The message goes from the queue onto the air. *)
LEMMA SendInv ==
  ASSUME Inv, NEW p \in Phone, Send(p)
  PROVE  Inv'
  <1> USE FrontendAssumption DEF Inv
  <1>1. /\ outbox[p] \in Seq(Content) /\ outbox[p] # <<>>
        /\ outbox' = [outbox EXCEPT ![p] = Tail(@)]
        /\ UNCHANGED <<settings, shown, wishes, asked>>
    BY DEF Send, TypeOK
  <1> DEFINE m == Head(outbox[p])
  <1>2. m \in Content /\ Within(m, asked)
    <2>1. 1 \in 1..Len(outbox[p]) /\ m = outbox[p][1]
      BY <1>1
    <2> QED BY <1>1, <2>1 DEF WishInv
  <1>3. flight' = [r \in Receiver |-> IF r = p THEN flight[r] ELSE flight[r] \cup {m}]
    BY DEF Send
  <1> HIDE DEF m
  <1>4. Tail(outbox[p]) \in Seq(Content) /\ Len(Tail(outbox[p])) = Len(outbox[p]) - 1
        /\ \A i \in 1..Len(outbox[p]) - 1 : Tail(outbox[p])[i] = outbox[p][i + 1]
    BY <1>1
  <1>5. flight' \in [Receiver -> SUBSET Content]
    BY <1>2, <1>3 DEF TypeOK
  <1>6. TypeOK'
    <2>1. outbox' \in [Phone -> Seq(Content)]
      BY <1>1, <1>4 DEF TypeOK
    <2>2. \A q \in Phone : Len(outbox'[q]) <= MaxOutbox
      BY <1>1, <1>4 DEF TypeOK
    <2> QED BY <1>1, <1>5, <2>1, <2>2 DEF TypeOK
  <1>7. asked' = asked
    BY <1>1
  <1>8. \A packet \in flight'[device] : Within(packet, asked)
    BY <1>2, <1>3 DEF WishInv, Receiver
  <1>9. \A q \in Phone : \A i \in 1..Len(outbox'[q]) : Within(outbox'[q][i], asked)
    <2> SUFFICES ASSUME NEW q \in Phone, NEW i \in 1..Len(outbox'[q])
                 PROVE  Within(outbox'[q][i], asked)
      OBVIOUS
    <2>1. CASE q = p
      <3>1. i + 1 \in 1..Len(outbox[p]) /\ outbox'[q][i] = outbox[p][i + 1]
        BY <1>1, <1>4, <2>1 DEF TypeOK
      <3> QED BY <3>1 DEF WishInv
    <2>2. CASE q # p
      <3>1. outbox'[q] = outbox[q]
        BY <1>1, <2>2 DEF TypeOK
      <3> QED BY <3>1 DEF WishInv
    <2> QED BY <2>1, <2>2
  <1>10. WishInv'
    BY <1>7, <1>8, <1>9 DEF WishInv
  <1> QED BY <1>6, <1>10

(* A packet that leaves the air takes nothing with it but itself. *)
LEMMA ArrivedFact ==
  ASSUME Inv, NEW r \in Receiver, NEW packet, Arrived(r, packet)
  PROVE  /\ packet \in Content /\ flight' \in [Receiver -> SUBSET Content]
         /\ flight'[device] \subseteq flight[device]
  BY DEF Inv, TypeOK, Arrived, Receiver

(* Nothing that is asked, queued or on the way to the device is new. *)
LEMMA WishKept ==
  ASSUME WishInv, UNCHANGED <<outbox, asked>>, flight'[device] \subseteq flight[device]
  PROVE  WishInv'
  BY DEF WishInv, Within

LEMMA PhoneReceivesInv ==
  ASSUME Inv, NEW p \in Phone, NEW packet, PhoneReceives(p, packet)
  PROVE  Inv'
  <1>1. /\ packet \in Content /\ flight' \in [Receiver -> SUBSET Content]
        /\ flight'[device] \subseteq flight[device]
    BY ArrivedFact DEF PhoneReceives, Receiver
  <1>2. Updated(shown[p], updateFromPacket(packet)) \in [Control -> Position]
    <2>1. shown[p] \in [Control -> Position]
      BY DEF Inv, TypeOK
    <2>2. /\ DOMAIN updateFromPacket(packet) \subseteq Control
          /\ \A c \in DOMAIN updateFromPacket(packet) : updateFromPacket(packet)[c] \in Position
      BY <1>1, ContentFact, FrontendAssumption DEF updateFromPacket
    <2> QED BY <2>1, <2>2, UpdatedFact
  <1>3. TypeOK'
    BY <1>1, <1>2 DEF Inv, TypeOK, PhoneReceives
  <1> QED BY <1>1, <1>3, WishKept DEF Inv, PhoneReceives

LEMMA DeviceReceivesInv ==
  ASSUME Inv, NEW packet, DeviceReceives(packet)
  PROVE  Inv'
  <1>1. /\ packet \in Content /\ flight' \in [Receiver -> SUBSET Content]
        /\ flight'[device] \subseteq flight[device]
    BY ArrivedFact DEF DeviceReceives, Receiver
  <1>2. settings' \in [Control -> Wire]
    BY <1>1, ContentFact, UpdatedFact DEF DeviceReceives, Inv, TypeOK
  <1>3. TypeOK'
    BY <1>1, <1>2 DEF Inv, TypeOK, DeviceReceives
  <1> QED BY <1>1, <1>3, WishKept DEF Inv, DeviceReceives

LEMMA LoseInv ==
  ASSUME Inv, NEW r \in Receiver, NEW packet, Lose(r, packet)
  PROVE  Inv'
  <1>1. /\ flight' \in [Receiver -> SUBSET Content]
        /\ flight'[device] \subseteq flight[device]
    BY ArrivedFact DEF Lose
  <1>2. TypeOK'
    BY <1>1 DEF Inv, TypeOK, Lose
  <1> QED BY <1>1, <1>2, WishKept DEF Inv, Lose

LEMMA NotifyInv ==
  ASSUME Inv, sendNotify
  PROVE  Inv'
  <1>1. flight' \in [Receiver -> SUBSET Content] /\ flight'[device] = flight[device]
    BY NotifyFact DEF Inv, TypeOK, sendNotify, Receiver
  <1>2. TypeOK'
    BY <1>1 DEF Inv, TypeOK, sendNotify
  <1> QED BY <1>1, <1>2, WishKept DEF Inv, sendNotify

LEMMA NextInv ==
  ASSUME Inv, [Next]_vars
  PROVE  Inv'
  <1>1. CASE UNCHANGED vars
    BY <1>1 DEF vars, Inv, TypeOK, WishInv, Within
  <1>2. CASE User
    BY <1>2, SetProgressInv DEF User
  <1>3. CASE sendNotify
    BY <1>3, NotifyInv
  <1>4. CASE \E p \in Phone : Send(p)
    BY <1>4, SendInv
  <1>5. CASE \E r \in Receiver : Leaves(r)
    BY <1>5, LoseInv, DeviceReceivesInv, PhoneReceivesInv DEF Leaves
  <1> QED BY <1>1, <1>2, <1>3, <1>4, <1>5 DEF Next

-----------------------------------------------------------------------------
(* The invariant holds in every reachable state. *)
THEOREM Invariant == Spec => []Inv
  BY InitInv, NextInv, PTL DEF Spec

(* Settings, copies, queues and packets keep their types: a packet with    *)
(* some of the controls leaves a copy of all of them.                      *)
THEOREM TypeCorrect == Spec => []TypeOK
  BY Invariant, PTL DEF Inv

(* A step of the device changes a control only to a value asked of it. *)
LEMMA StepObeys ==
  ASSUME Inv, [Next]_vars
  PROVE  \A c \in Control : settings'[c] # settings[c] => settings'[c] \in asked[c]
  <1>1. CASE \E packet : DeviceReceives(packet)
    <2>1. PICK packet : DeviceReceives(packet)
      BY <1>1
    <2>2. Within(packet, asked) /\ settings' = Updated(settings, packet)
      BY <2>1 DEF DeviceReceives, Arrived, Inv, WishInv
    <2> QED BY <2>2 DEF Within, Updated, Inv, TypeOK
  <1>2. CASE settings' = settings
    BY <1>2
  <1> QED BY <1>1, <1>2 DEF Next, vars, User, SetProgress, sendNotify, Send, Leaves, Lose,
                            PhoneReceives

(* No phone's stale copy ever overwrites a setting of the device. *)
THEOREM NothingIsClobbered == Spec => NoClobber
  <1>1. Inv /\ [Next]_vars =>
          [\A c \in Control : settings'[c] # settings[c] => settings'[c] \in asked[c]]_vars
    BY StepObeys
  <1> QED BY <1>1, Invariant, PTL DEF Spec, NoClobber
=============================================================================
