------------------------------- MODULE Inbox -------------------------------
(***************************************************************************)
(* What the network component promises the engine: the commands the server *)
(* sends arrive whole, once each and in order, several at a time.  Net     *)
(* implements it with a byte buffer, a second thread and a lock.           *)
(***************************************************************************)
EXTENDS Naturals, Sequences

CONSTANT Packet  \* what the server can send

VARIABLES
  sent,       \* every packet the server has sent, in order
  delivered   \* every packet Net::recv has returned, in order

vars == <<sent, delivered>>

Init == sent = <<>> /\ delivered = <<>>

Send(p) == sent' = Append(sent, p) /\ UNCHANGED delivered

(* One call of Net::recv hands over the next packets, from none to all. *)
Deliver(n) == delivered' = SubSeq(sent, 1, n) /\ UNCHANGED sent

Next ==
  \/ \E p \in Packet : Send(p)
  \/ \E n \in Len(delivered)..Len(sent) : Deliver(n)

Spec == Init /\ [][Next]_vars
=============================================================================
