-------------------------------- MODULE Frontend --------------------------------
(***************************************************************************)
(* The settings of one device and their copies on the phones: the user     *)
(* changes a control (FlokatiDeviceControl, DeviceControlFrontendHandler), *)
(* the phone multicasts a message with that control, the device and the    *)
(* other phones apply it, and the device notifies its settings from time   *)
(* to time.  Any packet may be lost, or overtaken by another.  How a phone *)
(* comes to list the device is in Discovery.                               *)
(***************************************************************************)
EXTENDS Integers, Sequences, FiniteSets

CONSTANTS Phone, Control,
          Position,  \* where a slider or a checkbox may stand
          Wire,      \* and what is sent of it, which is less: a power of it, rounded
          Encode, Decode,
          MaxWishes, \* changes users make,
          MaxOutbox, \* messages in the handler's queue,
          MaxFlight, \* packets on their way to one receiver
          device

Receiver == Phone \cup {device}

ASSUME FrontendAssumption ==
  /\ Encode \in [Position -> Wire] /\ Decode \in [Wire -> Position]
  /\ device \notin Phone
  /\ {MaxWishes, MaxOutbox, MaxFlight} \subseteq Nat

VARIABLES
  settings, \* what the device does,
  shown,    \* what the phones show,
  outbox,   \* messages in a phone's handler queue, TOSOCKET
  flight,   \* packets that may reach a receiver
  wishes,   \* number of changes made by users
  asked     \* and the values they have asked for, of each control

vars == <<settings, shown, outbox, flight, wishes, asked>>

(* The content of a packet: values of some controls. *)
Content == UNION { [C -> Wire] : C \in SUBSET Control }

Init ==
  /\ settings \in [Control -> Wire]
  /\ shown = [p \in Phone |-> [c \in Control |-> Decode[settings[c]]]]
  /\ outbox = [p \in Phone |-> <<>>]
  /\ flight = [r \in Receiver |-> {}]
  /\ wishes = 0 /\ asked = [c \in Control |-> {}]

Room(r) == Cardinality(flight[r]) < MaxFlight

(* What a packet leaves of a copy, and a mistake. *)
Replaced(copy, content) == content

Updated(copy, content) ==
  [c \in DOMAIN copy |-> IF c \in DOMAIN content THEN content[c] ELSE copy[c]]

-----------------------------------------------------------------------------
(* The phone.                                                              *)

(* The position to the power GAMMA, rounded to what the type can carry.    *)
getSinkAndValueBytes(copy, c) == Encode[copy[c]]

(* A mistake: a message with everything the phone shows. *)
EverythingBytes(copy, c) == [k \in Control |-> getSinkAndValueBytes(copy, k)]

getMessageBytes(copy, c) == [k \in {c} |-> getSinkAndValueBytes(copy, k)]

(* The user moves a slider or taps a checkbox.  The message is built at    *)
(* once and waits for the handler.                                         *)
SetProgress(p, c, x) ==
  /\ wishes < MaxWishes /\ Len(outbox[p]) < MaxOutbox
  /\ x # shown[p][c]
  /\ shown' = [shown EXCEPT ![p][c] = x]
  /\ outbox' = [outbox EXCEPT ![p] = Append(@, getMessageBytes(shown'[p], c))]
  /\ wishes' = wishes + 1 /\ asked' = [asked EXCEPT ![c] = @ \cup {Encode[x]}]
  /\ UNCHANGED <<settings, flight>>

(* The group gets it, without the sender: loopback is off. *)
Send(p) ==
  /\ outbox[p] # <<>> /\ \A r \in Receiver \ {p} : Room(r)
  /\ flight' = [r \in Receiver |-> IF r = p THEN flight[r] ELSE flight[r] \cup {Head(outbox[p])}]
  /\ outbox' = [outbox EXCEPT ![p] = Tail(@)]
  /\ UNCHANGED <<settings, shown, wishes, asked>>

Arrived(r, packet) ==
  /\ packet \in flight[r]
  /\ flight' = [flight EXCEPT ![r] = @ \ {packet}]

(* The inverse power; every type has its own. *)
updateFromPacket(packet) == [c \in DOMAIN packet |-> Decode[packet[c]]]

(* A mistake: a widget that is set by the program sends like one that the  *)
(* user moves.                                                             *)
PhoneEchoes(p, packet) ==
  /\ Arrived(p, packet)
  /\ shown' = [shown EXCEPT ![p] = Updated(@, updateFromPacket(packet))]
  /\ outbox' = IF shown' # shown /\ Len(outbox[p]) < MaxOutbox
                 THEN [outbox EXCEPT ![p] = Append(@, packet)] ELSE outbox
  /\ UNCHANGED <<settings, wishes, asked>>

(* Messages and notifications alike; the widgets follow, and their         *)
(* listeners send nothing.                                                 *)
PhoneReceives(p, packet) ==
  /\ Arrived(p, packet)
  /\ shown' = [shown EXCEPT ![p] = Updated(@, updateFromPacket(packet))]
  /\ UNCHANGED <<settings, outbox, wishes, asked>>

-----------------------------------------------------------------------------
(* The device.                                                             *)

DeviceReceives(packet) ==
  /\ Arrived(device, packet)
  /\ settings' = Updated(settings, packet)
  /\ UNCHANGED <<shown, outbox, wishes, asked>>

sendNotify ==
  /\ \A p \in Phone : Room(p)
  /\ flight' = [r \in Receiver |-> IF r = device THEN flight[r] ELSE flight[r] \cup {settings}]
  /\ UNCHANGED <<settings, shown, outbox, wishes, asked>>

-----------------------------------------------------------------------------
Lose(r, packet) ==
  /\ Arrived(r, packet)
  /\ UNCHANGED <<settings, shown, outbox, wishes, asked>>

User == \E p \in Phone, c \in Control, x \in Position : SetProgress(p, c, x)

Leaves(r) == \E packet \in flight[r] :
  \/ Lose(r, packet)
  \/ r = device /\ DeviceReceives(packet)
  \/ r \in Phone /\ PhoneReceives(r, packet)

Next == User \/ sendNotify \/ (\E p \in Phone : Send(p)) \/ (\E r \in Receiver : Leaves(r))

(* The handlers run, the device's timer too, no packet is under way for    *)
(* ever, and a phone is not cut off: of the device's notifications some    *)
(* reach it before the settings change again.                              *)
Spec == /\ Init /\ [][Next]_vars
        /\ WF_vars(sendNotify)
        /\ \A r \in Receiver : WF_vars(Leaves(r))
        /\ \A p \in Phone : WF_vars(Send(p)) /\ SF_vars(PhoneReceives(p, settings))

-----------------------------------------------------------------------------
TypeOK ==
  /\ settings \in [Control -> Wire]
  /\ shown \in [Phone -> [Control -> Position]]
  /\ outbox \in [Phone -> Seq(Content)] /\ \A p \in Phone : Len(outbox[p]) <= MaxOutbox
  /\ flight \in [Receiver -> SUBSET Content]
  /\ wishes \in 0..MaxWishes
  /\ asked \in [Control -> SUBSET Wire]

(* A phone may show old settings when its user changes one of them.  The   *)
(* device's controls change only to what some user has asked of that       *)
(* control, never to what a phone happened to show.                        *)
NoClobber ==
  [][\A c \in Control : settings'[c] # settings[c] => settings'[c] \in asked[c]]_vars

(* Once the users leave the controls alone, all phones come to show what   *)
(* the device does, whatever order messages and notifications came in, and *)
(* stay so.                                                                *)
Agreed == \A p \in Phone, c \in Control : shown[p][c] = Decode[settings[c]]

Converges == <>[][~User]_vars => <>[]Agreed
=============================================================================
