--------------------------- MODULE MCMessageStore ---------------------------
(* Small instances of MessageStore for TLC.                                *)
EXTENDS MessageStore, TLC

CONSTANTS a, b, h1, h2

HandlerSymmetry == Permutations({h1, h2})

Mail(id, from, to, body, sent, expires, replyTo, priority) ==
    [id |-> id, sender |-> from, recipient |-> to, body |-> body,
     sent |-> sent, expires |-> expires, replyTo |-> replyTo,
     priority |-> priority]

\* A note, a note with its id but another text (sent by a fast clock), and the
\* reply to it.
Conversation ==
    {Mail(1, a, b, "note", 0, 3, NoReply, "normal"),
     Mail(1, a, b, "other", 2, 5, NoReply, "normal"),
     Mail(2, b, a, "reply", 1, 3, 1, "normal")}

\* One message with the longest life and the fastest clock that are tolerated.
Longest ==
    {Mail(1, a, b, "note", 1, 3, NoReply, "normal")}
=============================================================================
