----------------------------- MODULE MessageLife ----------------------------
(***************************************************************************)
(* MessageStore seen from one message: the hub implements Mailbox for each *)
(* of its envelopes, provided that it remembers settled messages for as    *)
(* long as they can be submitted.                                          *)
(***************************************************************************)
EXTENDS MessageStore

CONSTANT Letter     \* any one of the messages that clients submit

ASSUME LetterAssumption == Letter \in Envelope

\* The row of the letter, when its id has not been taken by another message.
InTable == messages[Letter.id] # NoRow /\ messages[Letter.id].env = Letter

RowMail(r) ==
    CASE r.status = "pending" -> [at |-> "waiting", attempts |-> r.attempts]
      [] r.status = "leased" ->
           [at |-> "held", attempts |-> r.attempts, until |-> r.until]
      [] OTHER -> [at |-> "closed"]

LetterMail ==
    IF InTable THEN RowMail(messages[Letter.id])
    ELSE IF Letter \in accepted THEN [at |-> "closed"] ELSE [at |-> "new"]

M == INSTANCE Mailbox WITH
        Deadline <- Letter.expires, Grace <- BusyTimeout, mail <- LetterMail

\* Every step of the hub is a step of the mailbox of the letter, or leaves it
\* alone: the letter is queued once, held by one consumer at a time, and closed
\* by its last holder or its deadline.
LetterIsSafe == M!Spec
=============================================================================
