---------------------------- MODULE DropTailQueue ----------------------------
(***************************************************************************)
(* What a packet ring of the master promises to the two programs around    *)
(* it: a bounded FIFO between one producer and one consumer.  An accepted  *)
(* item leaves once, whole and in order; an item offered while the queue   *)
(* is full is dropped (a stuttering step here).                            *)
(***************************************************************************)
EXTENDS Naturals, Sequences

CONSTANTS Item,      \* what is queued
          Capacity   \* how many items wait at most

VARIABLES queue,     \* accepted and not yet delivered, oldest first
          last       \* the last delivery: its item, and the parity of their number

qvars == <<queue, last>>

NoDelivery == [item |-> <<>>, parity |-> 0]

Init == /\ queue = <<>>
        /\ last = NoDelivery

Accept(x) == /\ Len(queue) < Capacity
             /\ queue' = Append(queue, x)
             /\ UNCHANGED last

Deliver == /\ queue # <<>>
           /\ queue' = Tail(queue)
           /\ last' = [item |-> Head(queue), parity |-> 1 - last.parity]

Next == Deliver \/ \E x \in Item : Accept(x)

Spec == Init /\ [][Next]_qvars

(* Some delivery always follows while something waits. *)
KeepsDelivering ==
  \A p \in {0, 1} : (queue # <<>> /\ last.parity = p) ~> (last.parity # p)
=============================================================================
