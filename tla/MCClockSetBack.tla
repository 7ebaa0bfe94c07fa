--------------------------- MODULE MCClockSetBack ---------------------------
(* A small instance of ClockSetBack for TLC.                               *)
EXTENDS ClockSetBack, MCMessageStore

\* A message from one peer to the other, a note to self under the same id with a
\* deadline beyond the bound of the clock, and a more urgent answer to that id,
\* which is one to the note and an intrusion into the conversation of the two.
Intrusion ==
    {Mail(1, a, b, "hello", 0, 2, NoReply, "normal"),
     Mail(1, b, b, "todo", 2, 4, NoReply, "low"),
     Mail(2, b, b, "memo", 1, 3, 1, "normal")}
=============================================================================
