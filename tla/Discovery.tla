------------------------------- MODULE Discovery -------------------------------
(***************************************************************************)
(* How the Android app comes to know devices (RemoteConnectionService,     *)
(* PacketParser, FlokatiApp, the connection menu of FlokatiActivity) with  *)
(* the device database that answers it (linux/flokati/src/flokati-db).     *)
(* Three threads run without a lock: the UI thread handles a queue of      *)
(* messages and the user's taps, the control thread receives packets into  *)
(* one buffer that all its messages point to, and the info thread matches  *)
(* the database's answers with a list of requests that the UI thread       *)
(* extends.  An exception nobody catches ends the app.                     *)
(***************************************************************************)
EXTENDS Integers, Sequences, SequencesExt

CONSTANTS Device,      \* ids on the air,
          Present,     \* and those that keep notifying
          Database,    \* the descriptions, in the order of the db's list
          MaxRequests, \* requests remembered (5)
          Connection,  \* incarnations of the two threads that may coexist
          MaxQueue,    \* messages the threads leave for the UI thread to handle
          None

(* A description is the ids it covers, the ids the app takes it for, and   *)
(* what it lacks: a "sinkless" one has a name and no array of sinks, an    *)
(* "incomplete" one no name or not every sink.                             *)
Description == Range(Database)

(* The db reads a family as strtoull does, the app by Long.parseLong: from *)
(* 0x8000000000000000 on, and with a prefix or trailing text, only the db  *)
(* has a number.  The app goes on with family 0, which other ids match.    *)
Readable(f) == f.matched = f.covers

ASSUME DiscoveryAssumption ==
  /\ Database \in Seq([covers : SUBSET Device, matched : SUBSET Device,
                       form : {"complete", "sinkless", "incomplete"}])
  /\ \A f \in Description : Readable(f) \/ f.matched \cap f.covers = {}
  /\ Present \subseteq Device
  /\ MaxRequests \in Nat \ {0} /\ MaxQueue \in Nat
  /\ None \notin Device \cup Connection

VARIABLES
  current,   \* the connection whose sockets are not null
  control,   \* of a connection: where its control thread is,
  buffer,    \* the device whose packet is in that thread's buffer,
  info,      \* where its info thread is and what it works on,
  requests,  \* and that thread's list of requests
  queue,     \* messages to the handlers of the UI thread
  parsing,   \* the device a packet is being applied to, and the packet's buffer
  devices    \* the devices on the screen; own: they show settings of their own

vars == <<current, control, buffer, info, requests, queue, parsing, devices>>

Ended == [pc |-> "ended", answer |-> None, next |-> 1, stale |-> FALSE, orig |-> None, own |-> FALSE]

Init ==
  /\ current = None
  /\ control = [c \in Connection |-> "ended"]
  /\ buffer = [c \in Connection |-> None]
  /\ info = [c \in Connection |-> Ended]
  /\ requests = [c \in Connection |-> <<>>]
  /\ queue = <<>> /\ parsing = None /\ devices = <<>>

Listed(d) == \E i \in DOMAIN devices : devices[i].device = d

(* sock is not null. *)
Open(c) == current = c

(* The process is gone; nothing is stored, so the next one starts anew.    *)
Crash ==
  /\ current' = None
  /\ control' = [c \in Connection |-> "ended"]
  /\ buffer' = [c \in Connection |-> None]
  /\ info' = [c \in Connection |-> Ended]
  /\ requests' = [c \in Connection |-> <<>>]
  /\ queue' = <<>> /\ parsing' = None /\ devices' = <<>>

-----------------------------------------------------------------------------
(* The database.                                                           *)

(* db_get: the first description that covers the id, if any. *)
db_get(d) ==
  LET Covering == { i \in DOMAIN Database : d \in Database[i].covers }
  IN { Database[i] : i \in { j \in Covering : \A k \in Covering : j <= k } }

(* What the app hears on the group: answers, also to what another phone    *)
(* asked about an id of its own, and that phone's request, which has no    *)
(* family and no name.                                                     *)
AnothersRequest == [covers |-> {}, matched |-> {}, form |-> "incomplete"]

Answer == Description \cup {AnothersRequest}

-----------------------------------------------------------------------------
(* The user.                                                               *)

Forgotten(c) ==
  /\ control[c] = "ended" /\ info[c].pc = "ended"
  /\ \A i \in DOMAIN queue : queue[i].kind # "add" => queue[i].from # c
  /\ \A o \in Connection \ {c} : \A i \in DOMAIN requests[o] : requests[o][i].from # c

(* The menu and onStartCommand, which may fail; the list is cleared first. *)
Connect ==
  /\ parsing = None /\ current = None
  /\ devices' = <<>>
  /\ \/ UNCHANGED <<current, control, buffer, info, requests>>
     \/ \E c \in Connection :
          /\ Forgotten(c)
          /\ current' = c
          /\ control' = [control EXCEPT ![c] = "load"]
          /\ info' = [info EXCEPT ![c] = [Ended EXCEPT !.pc = "load"]]
          /\ requests' = [requests EXCEPT ![c] = <<>>]
          /\ buffer' = [buffer EXCEPT ![c] = None]
  /\ UNCHANGED <<queue, parsing>>

(* stopConnection: threads blocked in receive stay there. *)
Disconnect ==
  /\ parsing = None /\ current # None
  /\ current' = None
  /\ UNCHANGED <<control, buffer, info, requests, queue, parsing, devices>>

ClearList ==
  /\ parsing = None
  /\ devices' = <<>>
  /\ UNCHANGED <<current, control, buffer, info, requests, queue, parsing>>

-----------------------------------------------------------------------------
(* The control thread: while (sock!=null) sock.receive(p), two reads of it. *)

Resumed(c) == IF Open(c) THEN "load" ELSE "ended"

ControlLoad(c) ==
  /\ control[c] = "load"
  /\ IF Open(c) THEN /\ control' = [control EXCEPT ![c] = "receive"]
                     /\ UNCHANGED <<current, buffer, info, requests, queue, parsing, devices>>
               ELSE Crash

ControlReceive(c, d) ==
  /\ control[c] = "receive" /\ Len(queue) < MaxQueue
  /\ buffer' = [buffer EXCEPT ![c] = d]
  /\ queue' = Append(queue, [kind |-> "packet", from |-> c])
  /\ control' = [control EXCEPT ![c] = Resumed(c)]
  /\ UNCHANGED <<current, info, requests, parsing, devices>>

(* An IOException ends the thread; its sock stays. *)
ControlFails(c) ==
  /\ control[c] = "receive"
  /\ control' = [control EXCEPT ![c] = "ended"]
  /\ UNCHANGED <<current, buffer, info, requests, queue, parsing, devices>>

-----------------------------------------------------------------------------
(* The handlers of the UI thread.                                          *)

Handle(kind) == parsing = None /\ queue # <<>> /\ Head(queue).kind = kind

(* newPacket reads the id.  A notification of an unlisted device becomes a *)
(* request; another phone's message to one is ignored.                     *)
ParsePacket ==
  /\ Handle("packet")
  /\ LET from == Head(queue).from
         d == buffer[from]
         request == [kind |-> "request", device |-> d, from |-> from]
     IN IF Listed(d)
          THEN parsing' = [device |-> d, from |-> from] /\ queue' = Tail(queue)
          ELSE queue' \in {Tail(queue), Append(Tail(queue), request)} /\ UNCHANGED parsing
  /\ UNCHANGED <<current, control, buffer, info, requests, devices>>

(* updateFromPacketBytes reads the values, from what is in the buffer now. *)
UpdateDevice ==
  /\ parsing # None
  /\ devices' = [i \in DOMAIN devices |->
                   IF devices[i].device = parsing.device
                     THEN [devices[i] EXCEPT !.own = buffer[parsing.from] = parsing.device]
                     ELSE devices[i]]
  /\ parsing' = None
  /\ UNCHANGED <<current, control, buffer, info, requests, queue>>

(* A mistake: one request more than remembered. *)
RememberedOneMore(list, r) ==
  Append(IF Len(list) > MaxRequests THEN Tail(list) ELSE list, r)

Remembered(list, r) ==
  Append(IF Len(list) >= MaxRequests THEN Tail(list) ELSE list, r)

(* InformationServerThread.sendPacket.  An iterator of the list is stale   *)
(* unless it has reached the list's end.                                   *)
Ask ==
  LET m == Head(queue)
      list == Remembered(requests[current], [device |-> m.device, from |-> m.from])
  IN /\ requests' = [requests EXCEPT ![current] = list]
     /\ info' = [info EXCEPT ![current].stale =
                   info[current].pc \in {"search", "collect"} /\ info[current].next <= Len(list)]

HandleRequest ==
  /\ Handle("request")
  /\ IF current # None /\ info[current].pc # "ended"
       THEN Ask ELSE UNCHANGED <<requests, info>>
  /\ queue' = Tail(queue)
  /\ UNCHANGED <<current, control, buffer, parsing, devices>>

(* A mistake: the search of the list is inverted. *)
AddNever ==
  /\ Handle("add")
  /\ devices' = IF Listed(Head(queue).entry.device) THEN Append(devices, Head(queue).entry) ELSE devices
  /\ queue' = Tail(queue)
  /\ UNCHANGED <<current, control, buffer, info, requests, parsing>>

HandleAdd ==
  /\ Handle("add")
  /\ devices' = IF Listed(Head(queue).entry.device) THEN devices
                ELSE Append(devices, Head(queue).entry)
  /\ queue' = Tail(queue)
  /\ UNCHANGED <<current, control, buffer, info, requests, parsing>>

-----------------------------------------------------------------------------
(* The info thread.                                                        *)

InfoLoad(c) ==
  /\ info[c].pc = "load"
  /\ IF Open(c) THEN /\ info' = [info EXCEPT ![c].pc = "receive"]
                     /\ UNCHANGED <<current, control, buffer, requests, queue, parsing, devices>>
               ELSE Crash

InfoUnchanged == UNCHANGED <<current, control, buffer, parsing, devices>>

Again(c) == [Ended EXCEPT !.pc = Resumed(c)]

InfoReceive(c, f) ==
  /\ info[c].pc = "receive"
  /\ info' = [info EXCEPT ![c] = IF requests[c] = <<>> THEN Again(c)
                                 ELSE [Ended EXCEPT !.pc = "search", !.answer = f]]
  /\ UNCHANGED <<requests, queue>> /\ InfoUnchanged

InfoFails(c) ==
  /\ info[c].pc = "receive"
  /\ info' = [info EXCEPT ![c] = Ended]
  /\ UNCHANGED <<requests, queue>> /\ InfoUnchanged

(* A mistake: every request is taken for the one that is answered. *)
MatchesAny(r, f) == TRUE

(* (rq.id & mask) == family, with the family as the app reads it *)
Matches(r, f) == r.device \in f.matched

(* An iterator whose list has been changed meanwhile throws.               *)
IteratorFails(c) ==
  /\ info[c].pc \in {"search", "collect"}
  /\ info[c].stale
  /\ Crash

Search(c) ==
  /\ info[c].pc = "search"
  /\ ~info[c].stale
  /\ LET t == info[c]
     IN info' = [info EXCEPT ![c] =
          IF t.next > Len(requests[c]) THEN Again(c)
          ELSE IF Matches(requests[c][t.next], t.answer)
            THEN [Ended EXCEPT !.pc = "build", !.answer = t.answer,
                               !.orig = requests[c][t.next].device]
            ELSE [t EXCEPT !.next = t.next + 1]]
  /\ UNCHANGED <<requests, queue>> /\ InfoUnchanged

(* Without a name the answer is dropped, without sinks a null is           *)
(* dereferenced, with some of them missing the device is dropped.  It is   *)
(* built before the second iterator is made: changes of the list go        *)
(* unnoticed, and the request may be gone.                                 *)
Build(c) ==
  /\ info[c].pc = "build"
  /\ LET form == info[c].answer.form
     IN IF form = "sinkless" THEN Crash
        ELSE /\ info' = [info EXCEPT ![c] = IF form = "complete" THEN [@ EXCEPT !.pc = "collect"]
                                            ELSE Again(c)]
             /\ UNCHANGED <<requests, queue>> /\ InfoUnchanged

(* Every request for that id goes; each one's packet updates the device:   *)
(* what is in the buffer it points to by now.                              *)
Collect(c) ==
  /\ info[c].pc = "collect" /\ info[c].next <= Len(requests[c]) /\ ~info[c].stale
  /\ LET r == requests[c][info[c].next]
     IN IF r.device = info[c].orig
          THEN /\ requests' = [requests EXCEPT ![c] = RemoveAt(@, info[c].next)]
               /\ info' = [info EXCEPT ![c].own = buffer[r.from] = r.device]
          ELSE /\ info' = [info EXCEPT ![c].next = @ + 1]
               /\ UNCHANGED requests
  /\ UNCHANGED queue /\ InfoUnchanged

Publish(c) ==
  /\ info[c].pc = "collect" /\ info[c].next > Len(requests[c])
  /\ queue' = Append(queue, [kind |-> "add",
                             entry |-> [device |-> info[c].orig, description |-> info[c].answer,
                                        own |-> info[c].own]])
  /\ info' = [info EXCEPT ![c] = Again(c)]
  /\ UNCHANGED requests /\ InfoUnchanged

-----------------------------------------------------------------------------
UI == ParsePacket \/ UpdateDevice \/ HandleRequest \/ HandleAdd

User == Connect \/ Disconnect \/ ClearList

InfoThread(c) == InfoLoad(c) \/ IteratorFails(c) \/ Search(c) \/ Build(c) \/ Collect(c) \/ Publish(c)

Fails(c) == ControlFails(c) \/ InfoFails(c)

Next == \/ UI \/ User
        \/ \E c \in Connection :
             \/ ControlLoad(c) \/ InfoThread(c) \/ Fails(c)
             \/ \E d \in Device : ControlReceive(c, d)
             \/ \E f \in Answer : InfoReceive(c, f)

(* The threads run.  Every device keeps notifying, and not all is lost:    *)
(* some packet of it is handled before the next comes in (they are a       *)
(* second apart, the handling takes milliseconds), some request of it is   *)
(* answered before five others are made.                                   *)
Notified(d) == \E c \in Connection : ControlReceive(c, d)

Parsed(d) == ParsePacket /\ buffer[Head(queue).from] = d /\ (queue' = Tail(queue) => Listed(d))

Updated(d) == UpdateDevice /\ parsing.device = d /\ buffer[parsing.from] = d

Pending(c, d) == \E i \in DOMAIN requests[c] : requests[c][i].device = d

Awaited(d) == \E c \in Connection : InfoLoad(c) /\ Pending(c, d)

Searched(d) ==
  \E c \in Connection : (Search(c) \/ Build(c)) /\ Pending(c, d) /\ info'[c].pc = "load"

Answered(d) == \E c \in Connection, f \in db_get(d) : InfoReceive(c, f) /\ Pending(c, d)

Spec == /\ Init /\ [][Next]_vars
        /\ WF_vars(UI)
        /\ \A c \in Connection : WF_vars(ControlLoad(c)) /\ WF_vars(InfoThread(c))
        /\ \A d \in Present : /\ SF_vars(Notified(d)) /\ SF_vars(Parsed(d)) /\ SF_vars(Updated(d))
                             /\ SF_vars(Awaited(d)) /\ SF_vars(Searched(d)) /\ SF_vars(Answered(d))

-----------------------------------------------------------------------------
Request == [device : Device, from : Connection]
Entry == [device : Device, description : Description, own : BOOLEAN]
Queued == [kind : {"packet"}, from : Connection]
          \cup [kind : {"request"}, device : Device, from : Connection]
          \cup [kind : {"add"}, entry : Entry]

TypeOK ==
  /\ current \in Connection \cup {None}
  /\ control \in [Connection -> {"ended", "load", "receive"}]
  /\ buffer \in [Connection -> Device \cup {None}]
  /\ info \in [Connection ->
       [pc : {"ended", "load", "receive", "search", "build", "collect"}, answer : Answer \cup {None},
        next : 1..MaxRequests + 1, stale : BOOLEAN,
        orig : Device \cup {None}, own : BOOLEAN]]
  /\ requests \in [Connection -> Seq(Request)]
  /\ \A c \in Connection : Len(requests[c]) <= MaxRequests
  /\ queue \in Seq(Queued)
  /\ parsing \in [device : Device, from : Connection] \cup {None}
  /\ devices \in Seq(Entry)

(* A device is listed with a complete description, and with one that       *)
(* covers it if the app could read its family: whoever asked for the       *)
(* description and whatever became of the list of requests meanwhile.      *)
Described ==
  \A i \in DOMAIN devices :
    LET f == devices[i].description
    IN f.form = "complete" /\ (Readable(f) => devices[i].device \in f.covers)

(* The settings a new device shows may be those of another, whose packet   *)
(* was in the buffer by then.  But while connection and list are left      *)
(* alone and no thread fails, every device whose description is complete   *)
(* and readable, and for which no unreadable one is taken, comes onto the  *)
(* screen and shows its own settings, again and again.                     *)
Connected ==
  current # None /\ control[current] # "ended" /\ info[current].pc # "ended"

Describable(d) ==
  /\ \E f \in db_get(d) : Readable(f) /\ f.form = "complete"
  /\ \A f \in Answer : d \in f.matched => Readable(f)

ShowsItself(d) == \E i \in DOMAIN devices : devices[i].device = d /\ devices[i].own

Discovered ==
  <>[]Connected /\ <>[][~ClearList]_vars =>
    \A d \in Present : Describable(d) => []<>ShowsItself(d)
=============================================================================
