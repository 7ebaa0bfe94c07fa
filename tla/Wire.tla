-------------------------------- MODULE Wire --------------------------------
(***************************************************************************)
(* What models.py makes of the values that come over the wire.  Clients    *)
(* may spell one message in many ways: white space around a text, an UUID  *)
(* in another notation, a priority in capitals, an instant in another time *)
(* zone.  Validation brings them to one normal form, of which the digest   *)
(* is taken, which is stored, and which is validated again whenever it is  *)
(* read.  Instants are counted in the smallest unit of a timestamp.        *)
(***************************************************************************)
EXTENDS Integers, Sequences

CONSTANTS
    Ink,           \* what texts say, without the white space around them
    Blank,         \* the empty text
    Null,          \* null, or a key that is absent
    UuidOf,        \* the UUID that a text denotes, for those that denote one
    Canonical,     \* the text that str(UUID) gives it
    Lower,         \* str.lower
    Second,        \* units in a second
    Lifetime,      \* MAX_MESSAGE_LIFETIME
    MaxBody,       \* MAX_BODY_CHARACTERS
    MaxBytes,      \* MAX_REQUEST_BYTES
    Envelope       \* bytes of an encoded message besides its body

Uuids == DOMAIN Canonical
Levels == {i \in Ink : i.says \in {"low", "normal", "high"}}

\* Characters, bytes in UTF-8, and bytes with every other character escaped.
InkShape == [says: STRING, size: Nat, utf8: Nat, ascii: Nat, nul: BOOLEAN]

ASSUME InkAssumption ==
    /\ Ink \subseteq InkShape
    /\ Blank \in Ink /\ Blank.size = 0 /\ ~Blank.nul
    /\ Null \notin [ink: Ink, padded: BOOLEAN]
ASSUME UuidAssumption ==
    /\ UuidOf \in [DOMAIN UuidOf -> Uuids]
    /\ Blank.says \notin DOMAIN UuidOf
    /\ Canonical \in [Uuids -> Ink]
    /\ \A u \in Uuids : LET i == Canonical[u]
                        IN  /\ i.says \in DOMAIN UuidOf
                            /\ UuidOf[i.says] = u
                            /\ i.size <= 64 /\ ~i.nul /\ i # Blank
ASSUME PriorityAssumption ==
    /\ Lower \in [Ink -> Ink]
    /\ \A i \in Levels : Lower[i] = i /\ i.size <= 16 /\ ~i.nul /\ i # Blank
ASSUME BoundAssumption ==
    /\ Second \in Nat \ {0}
    /\ {Lifetime, MaxBody, MaxBytes, Envelope} \subseteq Nat

----------------------------------------------------------------------------
(* Texts: bounded_string, validate_uuid                                    *)

Text == [ink: Ink, padded: BOOLEAN]
Plain(i) == [ink |-> i, padded |-> FALSE]

\* Fault: the text is asked for before it is stripped.
FitsUnstripped(v, maximum, required) ==
    \/ v = Null /\ ~required
    \/ /\ v \in Text
       /\ required => v # Plain(Blank)
       /\ v.ink.size <= maximum
       /\ ~v.ink.nul

Fits(v, maximum, required) ==
    \/ v = Null /\ ~required
    \/ /\ v \in Text
       /\ required => v.ink # Blank
       /\ v.ink.size <= maximum
       /\ ~v.ink.nul

Stripped(v) == IF v = Null THEN Plain(Blank) ELSE Plain(v.ink)

IsUuid(v) == Fits(v, 64, TRUE) /\ v.ink.says \in DOMAIN UuidOf
Uuid(v) == Plain(Canonical[UuidOf[v.ink.says]])

IsPriority(v) == Fits(v, 16, TRUE) /\ Lower[v.ink] \in Levels
Priority(v) == Plain(Lower[v.ink])

\* reply_to is optional, and a UUID when it is there.
IsReply(v) == Fits(v, 64, FALSE) /\ (Stripped(v).ink # Blank => IsUuid(v))
Reply(v) == IF Stripped(v).ink = Blank THEN Plain(Blank) ELSE Uuid(v)

----------------------------------------------------------------------------
(* Instants: parse_timestamp, format_timestamp                             *)

\* Date and time of day in seconds, as they are written in their time zone.
Stamp == [seconds: Int, fraction: 0 .. Second - 1, offset: Int, zone: BOOLEAN]

IsTimestamp(v) == v \in Stamp /\ v.zone

\* Fault: the time zone is replaced, not converted.
InstantLocal(s) == Second * s.seconds + s.fraction

Instant(s) == Second * (s.seconds - s.offset) + s.fraction

Format(i) ==
    [seconds |-> i \div Second, fraction |-> i % Second, offset |-> 0,
     zone |-> TRUE]

Dot == 46
Zed == 90

\* Fault: isoformat without timespec leaves a fraction of zero out.
CharsAuto(s) ==
    IF s.fraction = 0 THEN <<s.seconds, Zed>>
                      ELSE <<s.seconds, Dot, s.fraction, Zed>>

\* The text of a formatted instant.  Date and time, and the fraction, have a
\* fixed number of digits each: such fields are compared like numbers.
Chars(s) == <<s.seconds, Dot, s.fraction, Zed>>

\* SQLite compares TEXT character by character.
TextBefore(s, t) ==
    \/ \E k \in DOMAIN s \cap DOMAIN t :
          s[k] < t[k] /\ \A j \in 1 .. k - 1 : s[j] = t[j]
    \/ /\ Len(s) < Len(t)
       /\ \A j \in DOMAIN s : s[j] = t[j]

----------------------------------------------------------------------------
(* Message                                                                 *)

\* A message as a client spells it, or as it is stored.
Spelling ==
    [id: Text \cup {Null}, body: Text \cup {Null}, reply: Text \cup {Null},
     priority: Text \cup {Null}, sent: Stamp \cup {Null},
     expires: Stamp \cup {Null}]

\* What __post_init__ puts in place of the values, and to_dict writes.
Normal(m) ==
    [id |-> Uuid(m.id), body |-> Stripped(m.body), reply |-> Reply(m.reply),
     priority |-> Priority(m.priority), sent |-> Format(Instant(m.sent)),
     expires |-> Format(Instant(m.expires))]

\* to_json keeps every character as it is ...
Encoded(m) == Envelope + m.body.ink.utf8

\* ... and the client escapes all but ASCII in the request.
Requested(m) == Envelope + IF m.body = Null THEN 0 ELSE m.body.ink.ascii

IsMessage(m) ==
    /\ IsUuid(m.id)
    /\ Fits(m.body, MaxBody, TRUE)
    /\ IsReply(m.reply)
    /\ IsPriority(m.priority)
    /\ IsTimestamp(m.sent) /\ IsTimestamp(m.expires)
    /\ Instant(m.expires) > Instant(m.sent)
    /\ Instant(m.expires) - Instant(m.sent) <= Lifetime
    /\ Encoded(Normal(m)) <= MaxBytes

\* Message.from_json, and what message_digest tells apart.
Decode(payload) == Normal(payload)
SameDigest(m, n) == Normal(m) = Normal(n)
=============================================================================
