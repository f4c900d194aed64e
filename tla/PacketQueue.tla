----------------------------- MODULE PacketQueue -----------------------------
(***************************************************************************)
(* What a rushkit connection promises in one direction: packets come out   *)
(* in the order they went in, each exactly as it went in, none lost, none  *)
(* invented, none twice, and each one in the end.                          *)
(***************************************************************************)
EXTENDS Naturals, Sequences

CONSTANT Packets        \* the packets a sender may hand over

VARIABLES accepted,     \* the packets handed to the connection so far
          delivered     \* the packets the receiver's callback was given

vars == << accepted, delivered >>

Init == accepted = << >> /\ delivered = << >>

Accept == \E p \in Packets : /\ accepted' = Append(accepted, p)
                             /\ UNCHANGED delivered

Deliver == /\ Len(delivered) < Len(accepted)
           /\ delivered' = Append(delivered, accepted[Len(delivered) + 1])
           /\ UNCHANGED accepted

Next == Accept \/ Deliver

\* Delivery may be refused for ever (safety) ...
SafeSpec == Init /\ [][Next]_vars

\* ... or not (liveness).
Spec == SafeSpec /\ WF_vars(Deliver)

=============================================================================
