--------------------------- MODULE MessageChannel ---------------------------
(***************************************************************************)
(* What one direction of the intercore socket promises: what the receiver  *)
(* got is, message by message and in order, what the sender sent.          *)
(***************************************************************************)
EXTENDS Naturals, Sequences

CONSTANT Message

VARIABLES
    sent,      \* the messages sent, in order
    received   \* the messages received, in order

vars == <<sent, received>>

Init ==
    /\ sent = <<>>
    /\ received = <<>>

Send ==
    /\ sent' \in Seq(Message)
    /\ Len(sent') = Len(sent) + 1
    /\ \A i \in 1 .. Len(sent) : sent'[i] = sent[i]
    /\ UNCHANGED received

Receive ==
    /\ Len(received) < Len(sent)
    /\ received' = Append(received, sent[Len(received) + 1])
    /\ UNCHANGED sent

Next == Send \/ Receive

Spec == Init /\ [][Next]_vars

=============================================================================
