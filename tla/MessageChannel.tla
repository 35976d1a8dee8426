----------------------------- MODULE MessageChannel -----------------------------
(***************************************************************************)
(* What a CDP transport promises to CdpConnection: the messages that were  *)
(* sent are received whole, in their order and once each.                  *)
(***************************************************************************)
EXTENDS Naturals, Sequences

CONSTANT Messages

VARIABLES
  sent,     \* the messages the browser has sent
  received  \* the messages receive() has returned

vars == <<sent, received>>

Init == sent = <<>> /\ received = <<>>

Send ==
  /\ \E m \in Messages : sent' = Append(sent, m)
  /\ UNCHANGED received

Receive ==
  /\ Len(received) < Len(sent)
  /\ received' = Append(received, sent[Len(received) + 1])
  /\ UNCHANGED sent

Next == Send \/ Receive

Spec == Init /\ [][Next]_vars
=============================================================================
