---------------------------- MODULE MessageStream ----------------------------
(***************************************************************************)
(* What one direction of the shared slots promises: a queue of messages.   *)
(* The sender's messages are accepted one at a time; the receiver gets     *)
(* them whole, in order, each once.  The promise ends when the stream is   *)
(* corrupted.                                                              *)
(***************************************************************************)
EXTENDS Naturals, Sequences

VARIABLES
    accepted,   \* the messages the sender put into the stream
    delivered,  \* the messages the receiver took out of it
    corrupted   \* the promise does not hold any more

Init ==
    /\ accepted = <<>>
    /\ delivered = <<>>
    /\ ~corrupted

Accept ==
    /\ ~corrupted'
    /\ Len(accepted') = Len(accepted) + 1
    /\ SubSeq(accepted', 1, Len(accepted)) = accepted
    /\ delivered' = delivered

Deliver ==
    /\ ~corrupted'
    /\ Len(delivered) < Len(accepted)
    /\ delivered' = Append(delivered, accepted[Len(delivered) + 1])
    /\ accepted' = accepted

Corrupt == corrupted'

Spec == Init /\ [][Accept \/ Deliver \/ Corrupt]_<<accepted, delivered, corrupted>>
=============================================================================
