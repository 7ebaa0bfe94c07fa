--------------------------- MODULE MCMessageLife ----------------------------
(* One letter with the longest life that is tolerated, for TLC.            *)
EXTENDS MessageLife, MCMessageStore

TheLetter == Mail(1, a, b, "note", 1, 3, NoReply, "normal")
=============================================================================
