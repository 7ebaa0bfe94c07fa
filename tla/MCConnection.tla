---------------------------- MODULE MCConnection ----------------------------
(* A small instance of Connection for TLC: two message ids, one of them in *)
(* two notations, and one message in several spellings.                    *)
EXTENDS Connection

Word(says, size, utf8, ascii) ==
    [says |-> says, size |-> size, utf8 |-> utf8, ascii |-> ascii, nul |-> FALSE]

NoText == Word("", 0, 0, 0)
Words ==
    {NoText, Word("id1", 2, 2, 2), Word("urn:id1", 3, 3, 3), Word("id2", 2, 2, 2),
     Word("normal", 2, 2, 2), Word("NORMAL", 2, 2, 2),
     Word("note", 2, 2, 2), Word("cyrillic", 4, 6, 12),
     [Word("nul", 2, 2, 2) EXCEPT !.nul = TRUE]}

Ink1(says) == CHOOSE i \in Words : i.says = says
Says(says) == [ink |-> Ink1(says), padded |-> FALSE]
Padded(says) == [ink |-> Ink1(says), padded |-> TRUE]

Notations ==
    [s \in {"id1", "urn:id1", "id2"} |-> IF s = "id2" THEN 2 ELSE 1]
Names == [u \in {1, 2} |-> IF u = 1 THEN Ink1("id1") ELSE Ink1("id2")]
SmallLetters ==
    [i \in Words |-> IF i.says = "NORMAL" THEN Ink1("normal") ELSE i]

At(seconds, fraction, offset) ==
    [seconds |-> seconds, fraction |-> fraction, offset |-> offset, zone |-> TRUE]

Note ==
    [id |-> Says("id1"), body |-> Says("note"), reply |-> Null,
     priority |-> Says("normal"), sent |-> At(1, 0, 0), expires |-> At(2, 1, 0)]

\* The same note, its repetition in other words, and other notes.
Spellings ==
    {Note,
     [Note EXCEPT !.id = Padded("urn:id1"), !.body = Padded("note"),
                  !.reply = Padded(""), !.priority = Padded("NORMAL"),
                  !.sent = At(3, 0, 2), !.expires = At(4, 1, 2)],
     [Note EXCEPT !.id = Says("urn:id1"), !.sent = At(1, 1, 0)],
     [Note EXCEPT !.id = Says("id2"), !.reply = Says("urn:id1"),
                  !.sent = At(1, 1, 0), !.expires = At(2, 0, 0)],
     [Note EXCEPT !.body = Padded("")],
     [Note EXCEPT !.body = Says("nul")],
     [Note EXCEPT !.body = Null],
     [Note EXCEPT !.body = Says("cyrillic")],
     [Note EXCEPT !.sent = At(3, 0, 0)],
     [Note EXCEPT !.sent.zone = FALSE]}

Request(route, body, known, sized, close) ==
    [route |-> route, body |-> body, known |-> known, sized |-> sized,
     close |-> close]

Requests ==
    {Request("send", m, TRUE, TRUE, c) : m \in Spellings, c \in BOOLEAN}
    \cup {Request("send", Note, k, FALSE, FALSE) : k \in BOOLEAN}
    \cup {Request(r, Empty, TRUE, TRUE, FALSE) : r \in {"heartbeat", "other", "status"}}
=============================================================================
