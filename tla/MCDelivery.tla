----------------------------- MODULE MCDelivery -----------------------------
(* Small instances of Delivery for TLC.                                    *)
EXTENDS Delivery, TLC

CONSTANTS a, b, h1, h2

HandlerSymmetry == Permutations({h1, h2})

\* One text; stamped at different times it is different messages with one id.
OneText ==
    {[id |-> 1, sender |-> a, recipient |-> b, body |-> "note", ttl |-> 2,
      replyTo |-> NoReply, priority |-> "normal"]}

OneTextStamped == {Stamped(d, now) : d \in OneText, now \in 0 .. MaxClock}
=============================================================================
