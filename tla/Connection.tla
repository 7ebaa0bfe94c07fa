----------------------------- MODULE Connection -----------------------------
(***************************************************************************)
(* One client at the hub's HTTP door: its requests, each a head and mostly *)
(* a body, on connections that HTTP/1.1 keeps open unless one side asks to *)
(* close them (the client of api.py always does).  The handlers read the   *)
(* body or leave it; what is left stands before the next head.  A message  *)
(* that arrives is validated, looked up and stored in its normal form.     *)
(* Peers, clocks and limits, which may refuse it as well, are the matter   *)
(* of MessageStore.                                                        *)
(***************************************************************************)
EXTENDS Wire

CONSTANTS
    Ask,        \* the requests that the client may send
    Empty,      \* the body {}
    NoRow,      \* an id that is not in the table
    MaxAsks     \* bound on the requests

\* `known': the token is accepted; `sized': there is a valid Content-Length.
\* The route "send" stands for every handler that reads its body.
AskShape ==
    [route: {"send", "heartbeat", "other", "status"}, known: BOOLEAN,
     sized: BOOLEAN, body: Spelling \cup {Empty}, close: BOOLEAN]

ASSUME AskAssumption ==
    /\ Ask \subseteq AskShape
    /\ \A q \in Ask : q.route = "send" => q.body # Empty
    /\ {Empty, NoRow} \cap Spelling = {}
    /\ MaxAsks \in Nat

VARIABLES
    open,       \* there is a connection
    asks,       \* history: the requests, in the order they were sent
    stream,     \* the bytes the hub has not read: heads and bodies of requests
    answers,    \* history: the answers, and the request each belongs to
    messages    \* the payload column, by message id

vars == <<open, asks, stream, answers, messages>>

First == stream[1]
Part(name, n) == [part |-> name, of |-> n]

\* Only GET requests come without a body.
Parts(q, n) ==
    IF q.route = "status" THEN <<Part("head", n)>>
                          ELSE <<Part("head", n), Part("body", n)>>

Init ==
    /\ open = TRUE
    /\ asks = <<>>
    /\ stream = <<>>
    /\ answers = <<>>
    /\ messages = [u \in Uuids |-> NoRow]

\* The client waits for each answer before it sends its next request.
Send(q) ==
    /\ open
    /\ Len(asks) < MaxAsks
    /\ Len(answers) = Len(asks)
    /\ asks' = Append(asks, q)
    /\ stream' = stream \o Parts(q, Len(asks) + 1)
    /\ UNCHANGED <<open, answers, messages>>

\* A closed connection takes what was not read with it.
Reconnect ==
    /\ ~open
    /\ open' = TRUE
    /\ stream' = <<>>
    /\ UNCHANGED <<asks, answers, messages>>

----------------------------------------------------------------------------
(* The hub                                                                 *)

\* The request at the head of the stream, if there is one.
Asked == asks[First.of]
AtHead == open /\ stream # <<>> /\ First.part = "head"

Respond(status) ==
    answers' = Append(answers, [to |-> First.of, status |-> status])

\* Fault: a refused credential leaves the connection open.
ShutsOnRequest(status) == Asked.close

\* The client asked to close, or _bearer, _operator_authorized and _peer do.
Shuts(status) == Asked.close \/ status = 401

\* Answered without reading the body ...
Leave(status) ==
    /\ Respond(status)
    /\ open' = ~Shuts(status)
    /\ stream' = Tail(stream)
    /\ UNCHANGED asks

\* ... or with it.
Consume(status) ==
    /\ Respond(status)
    /\ open' = ~Shuts(status)
    /\ stream' = Tail(Tail(stream))
    /\ UNCHANGED asks

Unauthorized ==
    /\ AtHead
    /\ ~Asked.known
    /\ Leave(401)
    /\ UNCHANGED messages

\* The status (a GET), the heartbeat and a path that nobody handles.
AnswerAtOnce ==
    /\ AtHead
    /\ Asked.known
    /\ \/ Asked.route \in {"status", "heartbeat"} /\ Leave(200)
       \/ Asked.route = "other" /\ Leave(404)
    /\ UNCHANGED messages

\* _read_json gives up before it reads.
RefuseLength ==
    /\ AtHead
    /\ Asked.known
    /\ Asked.route = "send"
    /\ \/ ~Asked.sized /\ Leave(411)
       \/ Asked.sized /\ Requested(Asked.body) > MaxBytes /\ Leave(413)
    /\ UNCHANGED messages

Arrives ==
    /\ AtHead
    /\ Asked.known
    /\ Asked.route = "send"
    /\ Asked.sized
    /\ Requested(Asked.body) <= MaxBytes

RefuseMessage ==
    /\ Arrives
    /\ ~IsMessage(Asked.body)
    /\ Consume(400)
    /\ UNCHANGED messages

\* The id as it is looked up: the canonical one.
Key(m) == UuidOf[m.id.ink.says]

AcceptMessage ==
    /\ Arrives
    /\ IsMessage(Asked.body)
    /\ messages[Key(Asked.body)] = NoRow
    /\ messages' = [messages EXCEPT ![Key(Asked.body)] = Normal(Asked.body)]
    /\ Consume(201)

KnownMessage ==
    /\ Arrives
    /\ IsMessage(Asked.body)
    /\ messages[Key(Asked.body)] # NoRow
    /\ Consume(IF SameDigest(messages[Key(Asked.body)], Asked.body) THEN 200 ELSE 409)
    /\ UNCHANGED messages

\* A body that was left stands before the request line: {}GET is no method, and
\* the library answers the request so and closes.  Bodies have no line breaks, so
\* this happens when the next head is there; 501 stands for the 400 of a body
\* with blanks as well.
Garbled ==
    /\ open
    /\ Len(stream) > 1
    /\ First.part = "body"
    /\ answers' = Append(answers, [to |-> stream[2].of, status |-> 501])
    /\ open' = FALSE
    /\ stream' = <<>>
    /\ UNCHANGED <<asks, messages>>

Next ==
    \/ \E q \in Ask : Send(q)
    \/ Reconnect
    \/ Unauthorized
    \/ AnswerAtOnce
    \/ RefuseLength
    \/ RefuseMessage
    \/ AcceptMessage
    \/ KnownMessage
    \/ Garbled

Spec == Init /\ [][Next]_vars

----------------------------------------------------------------------------
(* Properties                                                              *)

AnswerShape ==
    [to: 1 .. MaxAsks, status: {200, 201, 400, 401, 404, 409, 411, 413, 501}]

TypeOK ==
    /\ open \in BOOLEAN
    /\ asks \in Seq(Ask)
    /\ stream \in Seq([part: {"head", "body"}, of: 1 .. MaxAsks])
    /\ answers \in Seq(AnswerShape)
    /\ messages \in [Uuids -> Spelling \cup {NoRow}]

\* Whatever is stored passes the validation it meets when it is claimed, and
\* comes out as it went in: a claim leases the row before it decodes it, so a
\* row that cannot be read would be leased again and again.
StoredReads ==
    \A u \in Uuids :
        messages[u] # NoRow =>
            /\ IsMessage(messages[u])
            /\ Decode(messages[u]) = messages[u]
            /\ Key(messages[u]) = u

\* The same message: the same id, texts, level and instants, however spelled.
SameMeaning(m, n) ==
    /\ Key(m) = Key(n)
    /\ m.body.ink = n.body.ink
    /\ \/ Stripped(m.reply).ink = Stripped(n.reply).ink
       \/ IsUuid(m.reply) /\ IsUuid(n.reply) /\ Uuid(m.reply) = Uuid(n.reply)
    /\ Lower[m.priority.ink] = Lower[n.priority.ink]
    /\ Second * (m.sent.seconds - m.sent.offset) + m.sent.fraction
         = Second * (n.sent.seconds - n.sent.offset) + n.sent.fraction
    /\ Second * (m.expires.seconds - m.expires.offset) + m.expires.fraction
         = Second * (n.expires.seconds - n.expires.offset) + n.expires.fraction

Said(k) == asks[answers[k].to].body

\* A message is accepted under its id once; a repetition is recognised in every
\* spelling of the same message, and only then.
RepetitionRecognised ==
    \A k \in DOMAIN answers :
        LET prior == {j \in 1 .. k - 1 :
                        answers[j].status = 201 /\ Key(Said(j)) = Key(Said(k))}
        IN  /\ answers[k].status = 201 => prior = {}
            /\ answers[k].status = 409 =>
                  prior # {} /\ \A j \in prior : ~SameMeaning(Said(j), Said(k))
            /\ answers[k].status = 200 /\ asks[answers[k].to].route = "send" =>
                  prior # {} /\ \A j \in prior : SameMeaning(Said(j), Said(k))

Stamps ==
    UNION {{messages[u].sent, messages[u].expires} :
             u \in {w \in Uuids : messages[w] # NoRow}}

\* expires_at <= now, lease_until <= now, ORDER BY sent_at: the columns are
\* compared as texts, which is the order of the instants they stand for.
ColumnsOrdered ==
    \A s, t \in Stamps :
        TextBefore(Chars(s), Chars(t)) <=> Instant(s) < Instant(t)

\* A request is taken for something else only right after one whose body a
\* handler had left: after a refused credential, an accepted or a refused
\* message the next request is read as it was sent.
GarbledOnlyAfterUnread ==
    \A k \in DOMAIN answers :
        answers[k].status = 501 =>
            /\ k > 1
            /\ \/ answers[k - 1].status \in {404, 411, 413}
               \/ asks[answers[k - 1].to].route = "heartbeat"

\* What the limits of the schema and of MAX_BODY_CHARACTERS promise: a message
\* within them is not too large to be sent by the client of api.py.
AdmissibleArrives ==
    \A k \in DOMAIN answers :
        answers[k].status = 413 => ~IsMessage(Said(k))
=============================================================================
