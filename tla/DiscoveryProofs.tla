---------------------------- MODULE DiscoveryProofs ----------------------------
(***************************************************************************)
(* For any devices, descriptions and limits, and any number of old         *)
(* connections whose threads still run: a device is listed with a complete *)
(* description, which covers it if the app could read its family.          *)
(***************************************************************************)
EXTENDS Discovery, TLAPS

(* A description the app may list a device with. *)
Fits(d, f) == f \in Description /\ f.form = "complete" /\ d \in f.matched

(* A packet in the queue has come into the buffer it points to; a device   *)
(* on its way to the screen has a description that fits.                   *)
QueueInv ==
  \A i \in 1..Len(queue) :
    /\ queue[i].kind = "packet" => buffer[queue[i].from] # None
    /\ queue[i].kind = "add" => Fits(queue[i].entry.device, queue[i].entry.description)

(* An info thread searches with an answer; the device it has matched is    *)
(* one the answer is taken for, and is kept only for a complete answer.    *)
Kept(t) ==
  /\ t.pc \in {"search", "build", "collect"} => t.answer \in Answer
  /\ t.pc \in {"build", "collect"} => t.orig \in Device /\ t.orig \in t.answer.matched
  /\ t.pc = "collect" => Fits(t.orig, t.answer)

InfoInv == \A c \in Connection : Kept(info[c])

ScreenInv == \A i \in DOMAIN devices : Fits(devices[i].device, devices[i].description)

Inv == TypeOK /\ QueueInv /\ InfoInv /\ ScreenInv

Thread ==
  [pc : {"ended", "load", "receive", "search", "build", "collect"}, answer : Answer \cup {None},
   next : 1..MaxRequests + 1, stale : BOOLEAN, orig : Device \cup {None}, own : BOOLEAN]

-----------------------------------------------------------------------------
(* Sequences and types.                                                    *)

(* What the head of the queue is, and what is left behind it. *)
LEMMA QueueFact ==
  ASSUME TypeOK, queue # <<>>
  PROVE  /\ Head(queue) \in Queued /\ Head(queue) = queue[1] /\ 1 \in 1..Len(queue)
         /\ Tail(queue) \in Seq(Queued)
         /\ \A i \in 1..Len(Tail(queue)) : i + 1 \in 1..Len(queue) /\ Tail(queue)[i] = queue[i + 1]
  BY DEF TypeOK

LEMMA TailKeeps ==
  ASSUME TypeOK, QueueInv, queue # <<>>, queue' = Tail(queue), buffer' = buffer
  PROVE  queue' \in Seq(Queued) /\ QueueInv'
  <1>1. queue' \in Seq(Queued)
    BY QueueFact
  <1>2. \A i \in 1..Len(queue') : i + 1 \in 1..Len(queue) /\ queue'[i] = queue[i + 1]
    BY QueueFact
  <1> QED BY <1>1, <1>2 DEF QueueInv

(* A new message behind the others. *)
LEMMA AppendFact ==
  ASSUME NEW S, NEW s \in Seq(S), NEW e \in S
  PROVE  /\ Append(s, e) \in Seq(S) /\ Len(Append(s, e)) = Len(s) + 1
         /\ \A i \in 1..Len(Append(s, e)) : IF i = Len(s) + 1 THEN Append(s, e)[i] = e
                                            ELSE i \in 1..Len(s) /\ Append(s, e)[i] = s[i]
  OBVIOUS

(* Removing a request leaves requests, one less. *)
LEMMA RemoveFact ==
  ASSUME NEW S, NEW s \in Seq(S), NEW i \in 1..Len(s)
  PROVE  RemoveAt(s, i) \in Seq(S) /\ Len(RemoveAt(s, i)) = Len(s) - 1
  <1> DEFINE a == SubSeq(s, 1, i - 1)
             b == SubSeq(s, i + 1, Len(s))
  <1>1. a \in Seq(S) /\ Len(a) = i - 1
    OBVIOUS
  <1>2. b \in Seq(S) /\ Len(b) = Len(s) - i
    OBVIOUS
  <1>3. RemoveAt(s, i) = a \o b
    BY DEF RemoveAt
  <1> HIDE DEF a, b
  <1>4. a \o b \in Seq(S) /\ Len(a \o b) = Len(a) + Len(b)
    BY <1>1, <1>2
  <1>5. Len(a \o b) = Len(s) - 1
    BY <1>1, <1>2, <1>4
  <1> QED BY <1>3, <1>4, <1>5

(* The list never grows past its limit. *)
LEMMA RememberedFact ==
  ASSUME NEW S, NEW list \in Seq(S), Len(list) <= MaxRequests, NEW r \in S
  PROVE  Remembered(list, r) \in Seq(S) /\ Len(Remembered(list, r)) <= MaxRequests
  <1>1. CASE Len(list) >= MaxRequests
    <2>1. Tail(list) \in Seq(S) /\ Len(Tail(list)) = Len(list) - 1
      BY <1>1, DiscoveryAssumption
    <2> QED BY <1>1, <2>1, DiscoveryAssumption DEF Remembered
  <1>2. CASE ~(Len(list) >= MaxRequests)
    BY <1>2, DiscoveryAssumption DEF Remembered
  <1> QED BY <1>1, <1>2

(* What matches a device is a description: another phone's request is not. *)
LEMMA AnswerFact ==
  ASSUME NEW f \in Answer, f.matched # {}
  PROVE  f \in Description
  BY DEF Answer, AnothersRequest

(* A description that fits is what a device may be listed with. *)
LEMMA FitsFact ==
  ASSUME NEW d, NEW f, Fits(d, f)
  PROVE  f.form = "complete" /\ (Readable(f) => d \in f.covers)
  BY DEF Fits, Readable

(* A thread at rest, and one that takes the next turn. *)
LEMMA EndedFact ==
  ASSUME NEW c \in Connection
  PROVE  /\ Ended \in Thread /\ Again(c) \in Thread /\ [Ended EXCEPT !.pc = "load"] \in Thread
         /\ Again(c).pc \notin {"build", "collect"} /\ Ended.pc \notin {"build", "collect"}
         /\ Kept(Again(c)) /\ Kept(Ended)
  <1>1. Ended \in Thread
    BY DiscoveryAssumption DEF Ended, Thread
  <1>2. Resumed(c) \in {"load", "ended"}
    BY DEF Resumed
  <1>3. Again(c) \in Thread /\ Again(c).pc = Resumed(c)
    BY <1>1, <1>2 DEF Again, Thread
  <1> QED BY <1>1, <1>2, <1>3 DEF Thread, Ended, Kept

-----------------------------------------------------------------------------
(* The state a process begins in. *)
LEMMA InitInv == Init => Inv
  <1> SUFFICES ASSUME Init PROVE Inv
    OBVIOUS
  <1>1. info \in [Connection -> Thread] /\ \A c \in Connection : info[c] = Ended
    BY EndedFact DEF Init
  <1>2. TypeOK
    BY <1>1, DiscoveryAssumption DEF Init, TypeOK, Thread
  <1>3. InfoInv
    BY <1>1 DEF InfoInv, Ended, Kept
  <1> QED BY <1>2, <1>3 DEF Init, Inv, QueueInv, ScreenInv

(* A new process begins like the first. *)
LEMMA CrashInv ==
  ASSUME Crash
  PROVE  Inv'
  <1>1. info' \in [Connection -> Thread] /\ \A c \in Connection : info'[c] = Ended
    BY EndedFact DEF Crash
  <1>2. TypeOK'
    BY <1>1, DiscoveryAssumption DEF Crash, TypeOK, Thread
  <1>3. InfoInv'
    BY <1>1 DEF InfoInv, Ended, Kept
  <1> QED BY <1>2, <1>3 DEF Crash, Inv, QueueInv, ScreenInv

-----------------------------------------------------------------------------
(* User and control thread.                                                *)

LEMMA ConnectInv ==
  ASSUME Inv, Connect
  PROVE  Inv'
  <1> USE DEF Inv
  <1>1. ScreenInv' /\ devices' = <<>> /\ UNCHANGED <<queue, parsing>>
    BY DEF Connect, ScreenInv
  <1>2. CASE UNCHANGED <<current, control, buffer, info, requests>>
    BY <1>1, <1>2 DEF TypeOK, QueueInv, InfoInv
  <1>3. ASSUME NEW c \in Connection, Forgotten(c), current' = c,
               control' = [control EXCEPT ![c] = "load"],
               info' = [info EXCEPT ![c] = [Ended EXCEPT !.pc = "load"]],
               requests' = [requests EXCEPT ![c] = <<>>],
               buffer' = [buffer EXCEPT ![c] = None]
        PROVE  Inv'
    <2>1. info' \in [Connection -> Thread]
      BY <1>3, EndedFact DEF TypeOK, Thread
    <2>2. TypeOK'
      <3>1. requests' \in [Connection -> Seq(Request)]
            /\ \A k \in Connection : Len(requests'[k]) <= MaxRequests
        BY <1>3, DiscoveryAssumption DEF TypeOK
      <3>2. current' \in Connection \cup {None}
            /\ control' \in [Connection -> {"ended", "load", "receive"}]
            /\ buffer' \in [Connection -> Device \cup {None}]
        BY <1>3 DEF TypeOK
      <3>3. devices' \in Seq(Entry)
        BY <1>1
      <3> QED BY <1>1, <2>1, <3>1, <3>2, <3>3 DEF TypeOK, Thread
    <2>3. QueueInv'
      <3>1. \A i \in 1..Len(queue) : queue[i].kind = "packet" => queue[i].from # c
        BY <1>3 DEF Forgotten, TypeOK
      <3>2. \A i \in 1..Len(queue) : queue[i].kind = "packet" => queue[i].from \in Connection
        BY DEF TypeOK, Queued
      <3> QED BY <1>1, <1>3, <3>1, <3>2 DEF QueueInv, TypeOK
    <2>4. InfoInv'
      <3>1. [Ended EXCEPT !.pc = "load"].pc = "load"
        BY DEF Ended
      <3>2. Kept([Ended EXCEPT !.pc = "load"])
        BY <3>1 DEF Kept
      <3> QED BY <1>3, <3>2 DEF InfoInv, TypeOK
    <2> QED BY <1>1, <2>2, <2>3, <2>4
  <1> QED BY <1>2, <1>3 DEF Connect

LEMMA UserInv ==
  ASSUME Inv, User
  PROVE  Inv'
  <1>1. CASE Connect
    BY <1>1, ConnectInv
  <1>2. CASE Disconnect
    BY <1>2 DEF Disconnect, Inv, TypeOK, QueueInv, InfoInv, ScreenInv
  <1>3. CASE ClearList
    BY <1>3 DEF ClearList, Inv, TypeOK, QueueInv, InfoInv, ScreenInv
  <1> QED BY <1>1, <1>2, <1>3 DEF User

LEMMA ControlInv ==
  ASSUME Inv, NEW c \in Connection, ControlLoad(c) \/ Fails(c)
  PROVE  Inv'
  <1>1. CASE Crash
    BY <1>1, CrashInv
  <1>2. CASE UNCHANGED <<current, buffer, info, requests, queue, parsing, devices>>
             /\ control' \in [Connection -> {"ended", "load", "receive"}]
    BY <1>2 DEF Inv, TypeOK, QueueInv, InfoInv, ScreenInv
  <1>3. CASE InfoFails(c)
    <2>1. info' \in [Connection -> Thread]
      BY <1>3, EndedFact DEF InfoFails, Inv, TypeOK, Thread
    <2>2. TypeOK'
      BY <1>3, <2>1 DEF InfoFails, InfoUnchanged, Inv, TypeOK, Thread
    <2>3. InfoInv'
      BY <1>3, EndedFact DEF InfoFails, Inv, InfoInv, TypeOK
    <2> QED BY <1>3, <2>2, <2>3
            DEF InfoFails, InfoUnchanged, Inv, QueueInv, ScreenInv
  <1>4. control \in [Connection -> {"ended", "load", "receive"}]
    BY DEF Inv, TypeOK
  <1> QED BY <1>1, <1>2, <1>3, <1>4 DEF ControlLoad, Fails, ControlFails

LEMMA ControlReceiveInv ==
  ASSUME Inv, NEW c \in Connection, NEW d \in Device, ControlReceive(c, d)
  PROVE  Inv'
  <1> USE DEF Inv
  <1> DEFINE m == [kind |-> "packet", from |-> c]
  <1>1. m \in Queued /\ queue \in Seq(Queued)
    BY DEF Queued, TypeOK
  <1>2. /\ queue' \in Seq(Queued) /\ Len(queue') = Len(queue) + 1
        /\ \A i \in 1..Len(queue') : IF i = Len(queue) + 1 THEN queue'[i] = m
                                     ELSE i \in 1..Len(queue) /\ queue'[i] = queue[i]
    <2>1. queue' = Append(queue, m)
      BY DEF ControlReceive
    <2> HIDE DEF m
    <2> QED BY <1>1, <2>1, AppendFact
  <1>3. buffer' \in [Connection -> Device \cup {None}] /\ buffer'[c] = d /\ d # None
        /\ \A k \in Connection \ {c} : buffer'[k] = buffer[k]
    BY DiscoveryAssumption DEF ControlReceive, TypeOK
  <1>4. TypeOK'
    BY <1>2, <1>3 DEF ControlReceive, Resumed, TypeOK
  <1>5. QueueInv'
    <2> SUFFICES ASSUME NEW i \in 1..Len(queue')
                 PROVE  /\ queue'[i].kind = "packet" => buffer'[queue'[i].from] # None
                        /\ queue'[i].kind = "add" =>
                             Fits(queue'[i].entry.device, queue'[i].entry.description)
      BY DEF QueueInv
    <2>1. CASE i = Len(queue) + 1
      BY <1>2, <1>3, <2>1
    <2>2. CASE i # Len(queue) + 1
      <3>1. i \in 1..Len(queue) /\ queue'[i] = queue[i]
        BY <1>2, <2>2
      <3>2. queue[i].kind = "packet" => queue[i].from \in Connection
        BY <1>1, <3>1 DEF Queued
      <3> QED BY <1>3, <3>1, <3>2 DEF QueueInv
    <2> QED BY <2>1, <2>2
  <1> QED BY <1>4, <1>5 DEF ControlReceive, InfoInv, ScreenInv

-----------------------------------------------------------------------------
(* The handlers of the UI thread.                                          *)

LEMMA ParsePacketInv ==
  ASSUME Inv, ParsePacket
  PROVE  Inv'
  <1> USE DEF Inv
  <1> DEFINE from == Head(queue).from
             d == buffer[from]
             request == [kind |-> "request", device |-> d, from |-> from]
  <1>1. queue # <<>> /\ from \in Connection /\ d \in Device
    <2>1. queue # <<>> /\ Head(queue).kind = "packet"
      BY DEF ParsePacket, Handle
    <2>2. Head(queue) \in Queued /\ Head(queue) = queue[1] /\ 1 \in 1..Len(queue)
      BY <2>1, QueueFact
    <2>3. from \in Connection
      BY <2>1, <2>2 DEF Queued
    <2> QED BY <2>1, <2>2, <2>3 DEF QueueInv, TypeOK
  <1>2. UNCHANGED <<current, control, buffer, info, requests, devices>>
    BY DEF ParsePacket
  <1>3. InfoInv' /\ ScreenInv'
    BY <1>2 DEF InfoInv, ScreenInv
  <1>4. parsing' \in [device : Device, from : Connection] \cup {None}
    BY <1>1 DEF ParsePacket, TypeOK
  <1>5. queue' = Tail(queue) \/ queue' = Append(Tail(queue), request)
    BY DEF ParsePacket
  <1>6. queue' \in Seq(Queued) /\ QueueInv'
    <2>1. CASE queue' = Tail(queue)
      BY <1>1, <1>2, <2>1, TailKeeps
    <2>2. CASE queue' = Append(Tail(queue), request)
      <3> DEFINE t == Tail(queue)
      <3>1. /\ t \in Seq(Queued)
            /\ \A i \in 1..Len(t) : i + 1 \in 1..Len(queue) /\ t[i] = queue[i + 1]
        BY <1>1, QueueFact
      <3>2. request \in Queued /\ request.kind = "request"
        BY <1>1 DEF Queued
      <3> HIDE DEF request, t
      <3>3. /\ queue' \in Seq(Queued)
            /\ \A i \in 1..Len(queue') : IF i = Len(t) + 1 THEN queue'[i] = request
                                         ELSE i \in 1..Len(t) /\ queue'[i] = t[i]
        BY <2>2, <3>1, <3>2, AppendFact DEF t
      <3>4. ASSUME NEW i \in 1..Len(queue')
            PROVE  /\ queue'[i].kind = "packet" => buffer[queue'[i].from] # None
                   /\ queue'[i].kind = "add" =>
                             Fits(queue'[i].entry.device, queue'[i].entry.description)
        <4>1. CASE i = Len(t) + 1
          BY <3>2, <3>3, <4>1
        <4>2. CASE i # Len(t) + 1
          <5>1. i + 1 \in 1..Len(queue) /\ queue'[i] = queue[i + 1]
            BY <3>1, <3>3, <4>2
          <5> QED BY <5>1 DEF QueueInv
        <4> QED BY <4>1, <4>2
      <3> QED BY <1>2, <3>3, <3>4 DEF QueueInv
    <2> QED BY <1>5, <2>1, <2>2
  <1>7. TypeOK'
    BY <1>2, <1>4, <1>6 DEF TypeOK
  <1> QED BY <1>3, <1>6, <1>7

LEMMA UpdateDeviceInv ==
  ASSUME Inv, UpdateDevice
  PROVE  Inv'
  <1> USE DEF Inv
  <1>1. parsing \in [device : Device, from : Connection]
        /\ UNCHANGED <<current, control, buffer, info, requests, queue>>
    BY DEF UpdateDevice, TypeOK
  <1>2. buffer[parsing.from] \in Device \cup {None}
    BY <1>1 DEF TypeOK
  <1> DEFINE new(i) == IF devices[i].device = parsing.device
                         THEN [devices[i] EXCEPT !.own = buffer[parsing.from] = parsing.device]
                         ELSE devices[i]
  <1>3. devices \in Seq(Entry) /\ devices' = [i \in 1..Len(devices) |-> new(i)]
    BY DEF UpdateDevice, TypeOK
  <1>4. ASSUME NEW i \in 1..Len(devices)
        PROVE  new(i) \in Entry /\ new(i).device = devices[i].device
               /\ new(i).description = devices[i].description
    <2>1. devices[i] \in Entry
      BY <1>3
    <2> QED BY <1>2, <2>1 DEF Entry
  <1> HIDE DEF new
  <1>5. devices' \in Seq(Entry) /\ DOMAIN devices' = DOMAIN devices
        /\ \A i \in DOMAIN devices : devices'[i] = new(i)
    BY <1>3, <1>4
  <1>6. ScreenInv'
    BY <1>3, <1>4, <1>5 DEF ScreenInv
  <1>7. TypeOK'
    BY <1>1, <1>5 DEF UpdateDevice, TypeOK
  <1> QED BY <1>1, <1>6, <1>7 DEF QueueInv, InfoInv

LEMMA HandleRequestInv ==
  ASSUME Inv, HandleRequest
  PROVE  Inv'
  <1> USE DEF Inv
  <1>1. queue # <<>> /\ Head(queue).kind = "request" /\ queue' = Tail(queue)
        /\ UNCHANGED <<current, control, buffer, parsing, devices>>
    BY DEF HandleRequest, Handle
  <1>2. queue' \in Seq(Queued) /\ QueueInv'
    BY <1>1, TailKeeps
  <1>3. ScreenInv'
    BY <1>1 DEF ScreenInv
  <1>4. CASE UNCHANGED <<requests, info>>
    BY <1>1, <1>2, <1>3, <1>4 DEF TypeOK, InfoInv
  <1>5. CASE current # None /\ Ask
    <2> DEFINE r == [device |-> Head(queue).device, from |-> Head(queue).from]
               list == Remembered(requests[current], r)
               flag == info[current].pc \in {"search", "collect"}
                         /\ info[current].next <= Len(list)
    <2>1. current \in Connection
      BY <1>5 DEF TypeOK
    <2>2. r \in Request
      <3>1. Head(queue) \in Queued
        BY <1>1, QueueFact
      <3> QED BY <1>1, <3>1 DEF Queued, Request
    <2>3. requests' = [requests EXCEPT ![current] = list]
          /\ info' = [info EXCEPT ![current].stale = flag] /\ flag \in BOOLEAN
      BY <1>5 DEF Ask
    <2> HIDE DEF r, flag
    <2>4. list \in Seq(Request) /\ Len(list) <= MaxRequests
      BY <2>1, <2>2, RememberedFact DEF TypeOK
    <2> HIDE DEF list
    <2>5. requests' \in [Connection -> Seq(Request)]
          /\ \A k \in Connection : Len(requests'[k]) <= MaxRequests
      BY <2>1, <2>3, <2>4 DEF TypeOK
    <2>6. info' \in [Connection -> Thread]
          /\ \A k \in Connection : info'[k].pc = info[k].pc /\ info'[k].orig = info[k].orig
                                  /\ info'[k].answer = info[k].answer
      <3>1. PICK b \in BOOLEAN : info' = [info EXCEPT ![current].stale = b]
        BY <2>3
      <3>2. info[current] \in Thread /\ info \in [Connection -> Thread]
        BY <2>1 DEF TypeOK, Thread
      <3>3. [info[current] EXCEPT !.stale = b] \in Thread
        BY <3>2 DEF Thread
      <3> QED BY <2>1, <3>1, <3>2, <3>3 DEF Thread
    <2>7. TypeOK'
      BY <1>1, <1>2, <2>5, <2>6 DEF TypeOK, Thread
    <2>8. InfoInv'
      BY <2>6 DEF InfoInv, Kept
    <2> QED BY <1>2, <1>3, <2>7, <2>8
  <1> QED BY <1>4, <1>5 DEF HandleRequest

LEMMA HandleAddInv ==
  ASSUME Inv, HandleAdd
  PROVE  Inv'
  <1> USE DEF Inv
  <1> DEFINE e == Head(queue).entry
  <1>1. queue # <<>> /\ Head(queue).kind = "add" /\ queue' = Tail(queue)
        /\ UNCHANGED <<current, control, buffer, info, requests, parsing>>
        /\ devices' = IF Listed(e.device) THEN devices ELSE Append(devices, e)
    BY DEF HandleAdd, Handle
  <1>2. queue' \in Seq(Queued) /\ QueueInv' /\ InfoInv'
    BY <1>1, TailKeeps DEF InfoInv
  <1>3. e \in Entry /\ Fits(e.device, e.description)
    <2>1. Head(queue) \in Queued /\ Head(queue) = queue[1] /\ 1 \in 1..Len(queue)
      BY <1>1, QueueFact
    <2> QED BY <1>1, <2>1 DEF Queued, QueueInv
  <1>4. devices \in Seq(Entry)
    BY DEF TypeOK
  <1> HIDE DEF e
  <1>5. CASE Listed(e.device)
    BY <1>1, <1>2, <1>5 DEF TypeOK, ScreenInv
  <1>6. CASE ~Listed(e.device)
    <2>1. /\ devices' \in Seq(Entry) /\ Len(devices') = Len(devices) + 1
          /\ \A i \in 1..Len(devices') : IF i = Len(devices) + 1 THEN devices'[i] = e
                                         ELSE i \in 1..Len(devices) /\ devices'[i] = devices[i]
      BY <1>1, <1>3, <1>4, <1>6, AppendFact
    <2>2. DOMAIN devices = 1..Len(devices) /\ DOMAIN devices' = 1..Len(devices')
      BY <1>4, <2>1
    <2>3. ScreenInv'
      BY <1>3, <2>1, <2>2 DEF ScreenInv
    <2>4. TypeOK'
      BY <1>1, <1>2, <2>1 DEF TypeOK
    <2> QED BY <1>2, <2>3, <2>4
  <1> QED BY <1>5, <1>6

-----------------------------------------------------------------------------
(* The info thread.                                                        *)

(* What a step of an info thread has to keep: its new state is one, with   *)
(* an answer for any device it has matched, and lists and queue are as     *)
(* they must be.                                                           *)
LEMMA ThreadStep ==
  ASSUME Inv, NEW c \in Connection, NEW t \in Thread,
         Kept(t),
         info' = [info EXCEPT ![c] = t], InfoUnchanged,
         requests' \in [Connection -> Seq(Request)],
         \A k \in Connection : Len(requests'[k]) <= MaxRequests,
         queue' \in Seq(Queued), QueueInv'
  PROVE  Inv'
  <1> USE DEF Inv
  <1>1. info' \in [Connection -> Thread] /\ info'[c] = t
        /\ \A k \in Connection \ {c} : info'[k] = info[k]
    BY DEF TypeOK, Thread
  <1>2. TypeOK'
    BY <1>1 DEF InfoUnchanged, TypeOK, Thread
  <1>3. InfoInv'
    BY <1>1 DEF InfoInv
  <1> QED BY <1>2, <1>3 DEF InfoUnchanged, ScreenInv

(* The lists and the queue when a step leaves them alone. *)
LEMMA AloneFact ==
  ASSUME Inv, InfoUnchanged
  PROVE  /\ UNCHANGED requests =>
              /\ requests' \in [Connection -> Seq(Request)]
              /\ \A k \in Connection : Len(requests'[k]) <= MaxRequests
         /\ UNCHANGED queue => queue' \in Seq(Queued) /\ QueueInv'
  BY DEF Inv, TypeOK, InfoUnchanged, QueueInv

LEMMA InfoLoadInv ==
  ASSUME Inv, NEW c \in Connection, InfoLoad(c)
  PROVE  Inv'
  <1>1. CASE Crash
    BY <1>1, CrashInv
  <1>2. CASE ~Crash
    <2> DEFINE t == [info[c] EXCEPT !.pc = "receive"]
    <2>1. t \in Thread /\ Kept(t)
      BY DEF Inv, TypeOK, Thread, Kept
    <2>2. info' = [info EXCEPT ![c] = t] /\ InfoUnchanged /\ UNCHANGED <<requests, queue>>
      BY <1>2 DEF InfoLoad, InfoUnchanged
    <2> HIDE DEF t
    <2> QED BY <2>1, <2>2, AloneFact, ThreadStep
  <1> QED BY <1>1, <1>2

LEMMA InfoReceiveInv ==
  ASSUME Inv, NEW c \in Connection, NEW f \in Answer, InfoReceive(c, f)
  PROVE  Inv'
  <1> DEFINE t == IF requests[c] = <<>> THEN Again(c)
                  ELSE [Ended EXCEPT !.pc = "search", !.answer = f]
  <1>2. t \in Thread /\ Kept(t)
    <2>1. CASE requests[c] = <<>>
      BY <2>1, EndedFact
    <2>2. CASE requests[c] # <<>>
      BY <2>2, EndedFact DEF Ended, Thread, Kept
    <2> QED BY <2>1, <2>2
  <1>3. info' = [info EXCEPT ![c] = t] /\ InfoUnchanged /\ UNCHANGED <<requests, queue>>
    BY DEF InfoReceive
  <1> HIDE DEF t
  <1> QED BY <1>2, <1>3, AloneFact, ThreadStep

LEMMA SearchInv ==
  ASSUME Inv, NEW c \in Connection, Search(c)
  PROVE  Inv'
  <1> DEFINE o == info[c]
             r == requests[c][o.next]
             t == IF o.next > Len(requests[c]) THEN Again(c)
                  ELSE IF Matches(r, o.answer)
                    THEN [Ended EXCEPT !.pc = "build", !.answer = o.answer, !.orig = r.device]
                    ELSE [o EXCEPT !.next = o.next + 1]
  <1>1. o \in Thread /\ o.pc = "search" /\ requests[c] \in Seq(Request)
        /\ Len(requests[c]) <= MaxRequests /\ o.answer \in Answer
    BY DEF Inv, TypeOK, Thread, Search, InfoInv, Kept
  <1>2. o.next \in 1..MaxRequests + 1 /\ MaxRequests \in Nat
    BY <1>1, DiscoveryAssumption DEF Thread
  <1>3. t \in Thread /\ Kept(t)
    <2>1. CASE o.next > Len(requests[c])
      BY <2>1, EndedFact
    <2>2. ASSUME ~(o.next > Len(requests[c]))
          PROVE  r \in Request /\ o.next + 1 \in 1..MaxRequests + 1
      BY <1>1, <1>2, <2>2
    <2>3. CASE ~(o.next > Len(requests[c])) /\ Matches(r, o.answer)
      <3>1. r.device \in Device /\ r.device \in o.answer.matched
        BY <2>2, <2>3 DEF Request, Matches
      <3>2. t = [Ended EXCEPT !.pc = "build", !.answer = o.answer, !.orig = r.device]
        BY <2>3
      <3> HIDE DEF t, r
      <3> QED BY <1>1, <3>1, <3>2, EndedFact DEF Ended, Thread, Kept
    <2>4. CASE ~(o.next > Len(requests[c])) /\ ~Matches(r, o.answer)
      <3>1. t = [o EXCEPT !.next = o.next + 1]
        BY <2>4
      <3> HIDE DEF t, o
      <3> QED BY <1>1, <2>2, <2>4, <3>1 DEF Thread, Kept
    <2> QED BY <2>1, <2>3, <2>4
  <1>4. info' = [info EXCEPT ![c] = t] /\ InfoUnchanged /\ UNCHANGED <<requests, queue>>
    BY DEF Search
  <1> HIDE DEF t
  <1> QED BY <1>3, <1>4, AloneFact, ThreadStep

LEMMA BuildInv ==
  ASSUME Inv, NEW c \in Connection, Build(c)
  PROVE  Inv'
  <1> DEFINE o == info[c]
             t == [o EXCEPT !.pc = "collect"]
  <1>1. o \in Thread /\ o.orig \in Device /\ o.answer \in Answer /\ o.orig \in o.answer.matched
    BY DEF Inv, TypeOK, Thread, InfoInv, Kept, Build
  <1>2. CASE Crash
    BY <1>2, CrashInv
  <1>3. CASE /\ o.answer.form = "complete" /\ info' = [info EXCEPT ![c] = t]
             /\ InfoUnchanged /\ UNCHANGED <<requests, queue>>
    <2>1. Fits(o.orig, o.answer)
      BY <1>1, <1>3, AnswerFact DEF Fits
    <2>2. t \in Thread /\ t.pc = "collect" /\ t.orig = o.orig /\ t.answer = o.answer
      <3> HIDE DEF o
      <3> QED BY <1>1 DEF Thread
    <2> HIDE DEF t, o
    <2>3. Kept(t)
      BY <1>1, <2>1, <2>2 DEF Kept
    <2> QED BY <1>3, <2>2, <2>3, AloneFact, ThreadStep
  <1>4. CASE info' = [info EXCEPT ![c] = Again(c)] /\ InfoUnchanged /\ UNCHANGED <<requests, queue>>
    BY <1>4, EndedFact, AloneFact, ThreadStep
  <1> QED BY <1>2, <1>3, <1>4 DEF Build

LEMMA CollectInv ==
  ASSUME Inv, NEW c \in Connection, Collect(c)
  PROVE  Inv'
  <1> DEFINE o == info[c]
             r == requests[c][o.next]
  <1>1. o \in Thread /\ o.pc = "collect" /\ requests[c] \in Seq(Request)
        /\ Len(requests[c]) <= MaxRequests /\ o.next <= Len(requests[c])
    BY DEF Inv, TypeOK, Thread, Collect
  <1>2. Kept(o)
    BY DEF Inv, InfoInv
  <1>3. o.next \in 1..Len(requests[c]) /\ o.next + 1 \in 1..MaxRequests + 1
    BY <1>1, DiscoveryAssumption DEF Thread
  <1>4. InfoUnchanged /\ UNCHANGED queue
    BY DEF Collect
  <1>5. CASE r.device = o.orig
    <2> DEFINE list == RemoveAt(requests[c], o.next)
               t == [o EXCEPT !.own = buffer[r.from] = r.device]
    <2>2. requests' = [requests EXCEPT ![c] = list] /\ info' = [info EXCEPT ![c] = t]
      BY <1>5 DEF Collect
    <2>3. t \in Thread /\ Kept(t)
      <3> HIDE DEF o, r
      <3> QED BY <1>1, <1>2 DEF Thread, Kept
    <2>4. list \in Seq(Request) /\ Len(list) = Len(requests[c]) - 1
      BY <1>1, <1>3, RemoveFact
    <2>5. Len(list) <= MaxRequests
      BY <1>1, <2>4, DiscoveryAssumption
    <2> HIDE DEF t, list
    <2>6. requests' \in [Connection -> Seq(Request)]
          /\ \A k \in Connection : Len(requests'[k]) <= MaxRequests
      BY <2>2, <2>4, <2>5 DEF Inv, TypeOK
    <2> QED BY <1>2, <1>4, <2>2, <2>3, <2>6, AloneFact, ThreadStep
  <1>6. CASE r.device # o.orig
    <2> DEFINE t == [o EXCEPT !.next = o.next + 1]
    <2>1. t \in Thread /\ Kept(t)
      <3> HIDE DEF o
      <3> QED BY <1>1, <1>2, <1>3 DEF Thread, Kept
    <2>2. info' = [info EXCEPT ![c] = t] /\ UNCHANGED requests
      BY <1>6 DEF Collect
    <2> HIDE DEF t
    <2> QED BY <1>2, <1>4, <2>1, <2>2, AloneFact, ThreadStep
  <1> QED BY <1>5, <1>6

LEMMA PublishInv ==
  ASSUME Inv, NEW c \in Connection, Publish(c)
  PROVE  Inv'
  <1> DEFINE o == info[c]
             e == [device |-> o.orig, description |-> o.answer, own |-> o.own]
             m == [kind |-> "add", entry |-> e]
  <1>1. o \in Thread /\ o.orig \in Device /\ Fits(o.orig, o.answer)
    BY DEF Inv, TypeOK, Thread, InfoInv, Kept, Publish
  <1>2. e \in Entry /\ Fits(e.device, e.description)
    <2> HIDE DEF o
    <2> QED BY <1>1 DEF Thread, Entry, Fits
  <1> HIDE DEF e
  <1>3. m \in Queued /\ m.kind = "add" /\ m.entry = e
    BY <1>2 DEF Queued
  <1> HIDE DEF m
  <1>4. queue \in Seq(Queued) /\ queue' = Append(queue, m) /\ InfoUnchanged /\ UNCHANGED requests
        /\ info' = [info EXCEPT ![c] = Again(c)]
    BY DEF Inv, TypeOK, Publish, m, e
  <1>5. /\ queue' \in Seq(Queued)
        /\ \A i \in 1..Len(queue') : IF i = Len(queue) + 1 THEN queue'[i] = m
                                     ELSE i \in 1..Len(queue) /\ queue'[i] = queue[i]
    BY <1>3, <1>4, AppendFact
  <1>6. QueueInv'
    BY <1>2, <1>3, <1>4, <1>5 DEF Inv, QueueInv, InfoUnchanged
  <1> QED BY <1>4, <1>5, <1>6, EndedFact, AloneFact, ThreadStep

-----------------------------------------------------------------------------
LEMMA NextInv ==
  ASSUME Inv, [Next]_vars
  PROVE  Inv'
  <1>1. CASE UNCHANGED vars
    BY <1>1 DEF vars, Inv, TypeOK, QueueInv, InfoInv, ScreenInv
  <1>2. CASE UI
    BY <1>2, ParsePacketInv, UpdateDeviceInv, HandleRequestInv, HandleAddInv DEF UI
  <1>3. CASE User
    BY <1>3, UserInv
  <1>4. ASSUME NEW c \in Connection, ControlLoad(c) \/ Fails(c)
        PROVE  Inv'
    BY <1>4, ControlInv
  <1>5. ASSUME NEW c \in Connection, InfoThread(c)
        PROVE  Inv'
    BY <1>5, CrashInv, InfoLoadInv, SearchInv, BuildInv, CollectInv, PublishInv
       DEF InfoThread, IteratorFails
  <1> QED BY <1>1, <1>2, <1>3, <1>4, <1>5, ControlReceiveInv, InfoReceiveInv DEF Next

(* What every state of the app satisfies. *)
THEOREM Invariant == Spec => []Inv
  <1>1. Inv /\ [Next]_vars => Inv'
    BY NextInv
  <1> QED BY InitInv, <1>1, PTL DEF Spec

(* The queue points to buffers, the lists of requests keep their limit     *)
(* (InformationServerThread.sendPacket), whatever the threads do.          *)
THEOREM TypeCorrect == Spec => []TypeOK
  <1>1. Inv => TypeOK
    BY DEF Inv
  <1> QED BY Invariant, <1>1, PTL

(* A device is listed with a complete description, which covers it if the  *)
(* app could read its family: the info thread keeps the id it matched, not *)
(* a place in a list that others change (InformationServerThread.run).     *)
THEOREM DescribedRight == Spec => []Described
  <1>1. Inv => Described
    BY FitsFact DEF Inv, ScreenInv, Described
  <1> QED BY Invariant, <1>1, PTL
=============================================================================
