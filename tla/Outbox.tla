------------------------------- MODULE Outbox -------------------------------
(***************************************************************************)
(* What a Producer promises about the messages it has accepted: they wait   *)
(* in one queue, they leave it only from the front, each at most once, and  *)
(* only while the producer is connected; while it is not connected the      *)
(* front may be thrown away instead.  So messages may be lost, but never    *)
(* duplicated, reordered or invented.  Producer!Abstraction shows that the  *)
(* code's mutex, thread and queue implement this.                           *)
(***************************************************************************)
EXTENDS Naturals, Sequences

VARIABLES
  queue,  \* accepted messages that are still to be sent
  wire,   \* messages handed to the broker connection, oldest first
  up      \* is the producer connected?

outboxVars == <<queue, wire, up>>

OutboxInit ==
  /\ queue = <<>>
  /\ wire = <<>>
  /\ up = FALSE

(* One more message at the back. *)
Accept ==
  /\ Len(queue') = Len(queue) + 1
  /\ \A i \in 1..Len(queue) : queue'[i] = queue[i]
  /\ UNCHANGED <<wire, up>>

Transmit ==
  /\ up
  /\ queue # <<>>
  /\ wire' = Append(wire, Head(queue))
  /\ queue' = Tail(queue)
  /\ UNCHANGED up

DropHead ==
  /\ ~up
  /\ queue # <<>>
  /\ queue' = Tail(queue)
  /\ UNCHANGED <<wire, up>>

Toggle ==
  /\ up' = ~up
  /\ UNCHANGED <<queue, wire>>

OutboxNext == Accept \/ Transmit \/ DropHead \/ Toggle

OutboxSpec == OutboxInit /\ [][OutboxNext]_outboxVars
=============================================================================
