--------------------------- MODULE ReliableChannel ---------------------------
(***************************************************************************)
(* What one NSP sub-channel promises its reader: every item is delivered   *)
(* at most once, in the order the peer sent it, and nothing is delivered  *)
(* that was not sent.  Loss shows up only as items not (yet) delivered.   *)
(***************************************************************************)
EXTENDS Naturals, Sequences

CONSTANT Items        \* what an item of the sub-channel can be

VARIABLES sent,       \* items the peer has handed to the sub-channel
          delivered   \* items the receiver has accepted, in order

Init == sent = <<>> /\ delivered = <<>>

\* The peer appends one more item.
Send == \E m \in Items : /\ sent' = Append(sent, m)
                         /\ UNCHANGED delivered

\* The receiver accepts exactly the next undelivered item.
Deliver == /\ Len(delivered) < Len(sent)
           /\ delivered' = Append(delivered, sent[Len(delivered) + 1])
           /\ UNCHANGED sent

Next == Send \/ Deliver

Spec == Init /\ [][Next]_<<sent, delivered>>

=============================================================================
