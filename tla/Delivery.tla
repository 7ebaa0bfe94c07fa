------------------------------ MODULE Delivery ------------------------------
(***************************************************************************)
(* The clients of the hub: every request is a connection to one of its     *)
(* threads, and the store of MessageStore changes under it.  `courier      *)
(* send' stamps what the user gives it; a caller of the API may send the   *)
(* same envelope again.  A claim is a long poll: the thread looks into the *)
(* store again and again until something is ready or its deadline is past. *)
(* A client may hang up (its own timeout, or a crash) and the thread does  *)
(* not notice: it goes on, and the answer is lost.                         *)
(***************************************************************************)
EXTENDS MessageStore

CONSTANTS
    Draft,       \* what users pass to `courier send --message-id'
    WaitTimes    \* the wait_seconds that clients ask for

DraftShape ==
    [id: MsgId, sender: Peer, recipient: Peer, body: STRING, ttl: Nat \ {0},
     replyTo: MsgId \cup {NoReply}, priority: {"high", "normal", "low"}]

\* sent_at is the time of the call, expires_at follows from the ttl.
Stamped(d, now) ==
    [id |-> d.id, sender |-> d.sender, recipient |-> d.recipient,
     body |-> d.body, sent |-> now, expires |-> now + d.ttl,
     replyTo |-> d.replyTo, priority |-> d.priority]

ASSUME DraftAssumption ==
    /\ Draft \subseteq DraftShape
    /\ \A d \in Draft, now \in 0 .. MaxClock : Stamped(d, now) \in Envelope
ASSUME WaitAssumption == WaitTimes \subseteq Nat

VARIABLES
    conn,     \* per request thread, the request it serves
    line,     \* history: per claim, what has waited for it since it came in
    inbox,    \* the deliveries that clients received
    told      \* per request thread, what the last client to hear of it heard

deliveryVars == <<vars, conn, line, inbox, told>>

Nothing == [verdict |-> "none"]
NoConn == [kind |-> "none"]
SendConn == [kind: {"send"}, env: Envelope, open: BOOLEAN]
ClaimConn ==
    [kind: {"claim"}, peer: Peer, seconds: LeaseTimes, deadline: Nat,
     open: BOOLEAN]

Receipt == [peer: Peer, id: MsgId, lease: Nat]

SendAnswers ==
    [env: Envelope, verdict: {"queued", "already queued", "conflict", "refused"}]
EmptyAnswers == [verdict: {"empty"}, waited: SUBSET MsgId]
AckAnswers == [by: Receipt, verdict: {"acknowledged", "lease conflict"}]

DeliveryInit ==
    /\ Init
    /\ conn = [h \in Handler |-> NoConn]
    /\ line = [h \in Handler |-> {}]
    /\ inbox = {}
    /\ told = [h \in Handler |-> Nothing]

----------------------------------------------------------------------------
(* Connections.                                                            *)

Close(h) == conn' = [conn EXCEPT ![h] = NoConn]

Hears(h, answer) ==
    told' = [told EXCEPT ![h] = IF conn[h].open THEN answer ELSE Nothing]

\* The client gives up or dies; the thread does not look.
HangUp(h) ==
    /\ conn[h] # NoConn
    /\ conn[h].open
    /\ conn' = [conn EXCEPT ![h].open = FALSE]
    /\ UNCHANGED <<vars, inbox, told>>

\* The write lock does not come: the thread dies without an answer.
NoAnswer(h) ==
    /\ GiveUp(h)
    /\ Hears(h, Nothing)
    /\ Close(h)
    /\ UNCHANGED inbox

HubCrash ==
    /\ Crash
    /\ conn' = [h \in Handler |-> NoConn]
    /\ UNCHANGED <<inbox, told>>

\* Registrations, the clock, the start of the hub: no connection is involved.
Elsewhere ==
    /\ Tick \/ Boot \/ \E p \in Peer : RegisterPeer(p)
    /\ UNCHANGED <<conn, inbox, told>>

----------------------------------------------------------------------------
(* send                                                                    *)

Submit(h, e) ==
    /\ hub = "up"
    /\ conn[h] = NoConn
    /\ op[h] = Idle
    /\ e.sender \in peers
    /\ conn' = [conn EXCEPT ![h] = [kind |-> "send", env |-> e, open |-> TRUE]]
    /\ told' = [told EXCEPT ![h] = Nothing]
    /\ UNCHANGED <<vars, inbox>>

\* _command_send stamps the draft anew each time it is run ...
CommandSend(h, d) == Submit(h, Stamped(d, clock))

\* ... a caller of CourierClient.send_message can repeat the sent_at of a message
\* that the hub has accepted, its answer lost.
Resend(h) == \E e \in accepted : Submit(h, e)

\* send_message reads the clock: what is timely by it asks for the lock ...
Begin(h) ==
    /\ conn[h].kind = "send"
    /\ SendStart(h, conn[h].env)
    /\ UNCHANGED <<conn, inbox, told>>

\* ... and all else is refused before its id is looked up, be it a repetition of
\* a message that the hub has.
RefuseUntimely(h) ==
    /\ conn[h].kind = "send"
    /\ op[h] = Idle
    /\ ~Timely(conn[h].env)
    /\ Hears(h, [env |-> conn[h].env, verdict |-> "refused"])
    /\ Close(h)
    /\ UNCHANGED <<vars, inbox>>

\* Fault: a known id is enough.
SameIdOnly(e, f) == e.id = f.id

\* request_sha256: the digest of the canonical envelope.
SameContent(e, f) == e = f

\* The recipient is resolved and the message is checked before its id is looked up.
Admissible(e) == e.recipient \in peers /\ WellFormed(e)

AboutKnown(e) ==
    IF SameContent(messages[e.id].env, e) THEN "already queued" ELSE "conflict"

\* Fault: an exception that no handler turns into an answer.
VerdictUnmapped(e, now) ==
    IF ~Admissible(e) THEN "error"
    ELSE IF messages[e.id] # NoRow THEN AboutKnown(e)
    ELSE IF Insertable(e, now) THEN "queued" ELSE "refused"

\* The answer to a timely submission, in the order of the checks under the lock.
Verdict(e, now) ==
    IF ~Admissible(e) THEN "refused"
    ELSE IF messages[e.id] # NoRow THEN AboutKnown(e)
    ELSE IF Insertable(e, now) THEN "queued" ELSE "refused"

SendAnswer(h) ==
    /\ conn[h].kind = "send"
    /\ SendAccept(h) \/ SendRollback(h)
    /\ Hears(h, [env |-> op[h].env, verdict |-> Verdict(op[h].env, op[h].now)])
    /\ Close(h)
    /\ UNCHANGED inbox

----------------------------------------------------------------------------
(* claim: the loop of _handle_next                                         *)

\* What a claim of each peer would find right now.
Waiting ==
    [p \in Peer |->
        {m \in Present(messages) :
            /\ messages[m].status = "pending"
            /\ messages[m].env.recipient = p
            /\ messages[m].env.expires > clock}]

\* The deadline lies within the bound of the clock.
Claim(h, p, s, w) ==
    /\ hub = "up"
    /\ conn[h] = NoConn
    /\ op[h] = Idle
    /\ p \in peers
    /\ clock + w <= MaxClock
    /\ conn' = [conn EXCEPT ![h] =
          [kind |-> "claim", peer |-> p, seconds |-> s, deadline |-> clock + w,
           open |-> TRUE]]
    /\ told' = [told EXCEPT ![h] = Nothing]
    /\ UNCHANGED <<vars, inbox>>

Look(h) ==
    /\ conn[h].kind = "claim"
    /\ LeaseStart(h, conn[h].peer, conn[h].seconds)
    /\ UNCHANGED <<conn, inbox, told>>

Deliver(h) ==
    /\ conn[h].kind = "claim"
    /\ LeaseGrant(h)
    /\ LET got == {[peer |-> conn[h].peer, id |-> m, lease |-> issued'[m]] :
                     m \in {k \in MsgId : issued'[k] # issued[k]}}
       IN  inbox' = IF conn[h].open THEN inbox \cup got ELSE inbox
    /\ Hears(h, Nothing)
    /\ Close(h)

\* Fault: the time to wait starts again after every look.
DeadlineMoves(h) == clock + 1

Deadline(h) == conn[h].deadline

LookAgain(h) ==
    /\ conn[h].kind = "claim"
    /\ LeaseNone(h)
    /\ clock < Deadline(h)
    /\ conn' = [conn EXCEPT ![h].deadline = Deadline(h)]
    /\ UNCHANGED <<inbox, told>>

\* Fault: the deadline is looked at before the store is.
AnswersUnseen(h) == op[h] = Idle /\ UNCHANGED vars

\* The last look found nothing.
FoundNothing(h) == LeaseNone(h)

AnswerEmpty(h) ==
    /\ conn[h].kind = "claim"
    /\ clock >= Deadline(h)
    /\ FoundNothing(h)
    /\ Hears(h, [verdict |-> "empty",
                 waited |-> {m \in line[h] : messages'[m] = messages[m]}])
    /\ Close(h)
    /\ UNCHANGED inbox

----------------------------------------------------------------------------
(* ack: by whoever received the delivery, once or more often.              *)

\* acknowledge reads the clock only after it has the lock: one step.
Settles(r) == Acknowledge(r.peer, r.id, r.lease)

\* LeaseConflict: the row is looked up by message and recipient.
Refuses(r) ==
    /\ messages[r.id] # NoRow => ~HoldsLease(messages[r.id], r.peer, r.lease)
    /\ UNCHANGED vars

\* The lock may not come, and an answer may be lost: the consumer then hears
\* nothing, and asks again.
Ack(h, r) ==
    /\ hub = "up"
    /\ conn[h] = NoConn
    /\ op[h] = Idle
    /\ r.peer \in peers
    /\ \/ \E answer \in {Nothing, [by |-> r, verdict |-> "acknowledged"]} :
             Settles(r) /\ told' = [told EXCEPT ![h] = answer]
       \/ /\ Refuses(r)
          /\ told' = [told EXCEPT ![h] = [by |-> r, verdict |-> "lease conflict"]]
       \/ UNCHANGED vars /\ told' = [told EXCEPT ![h] = Nothing]
    /\ UNCHANGED <<conn, inbox>>

----------------------------------------------------------------------------
Serve(h) ==
    \/ Begin(h)
    \/ RefuseUntimely(h)
    \/ SendAnswer(h)
    \/ Look(h)
    \/ Deliver(h)
    \/ LookAgain(h)
    \/ AnswerEmpty(h)
    \/ NoAnswer(h)

Request(h) ==
    \/ \E d \in Draft : CommandSend(h, d)
    \/ Resend(h)
    \/ \E p \in Peer, s \in LeaseTimes, w \in WaitTimes : Claim(h, p, s, w)
    \/ \E r \in inbox : Ack(h, r)

\* A claim's line is what waited when it came in and waits ever since.
Follow ==
    line' = [h \in Handler |->
        IF conn'[h].kind # "claim" THEN {}
        ELSE IF conn[h].kind = "claim" THEN line[h] \cap Waiting'[conn'[h].peer]
        ELSE Waiting'[conn'[h].peer]]

DeliveryNext ==
    /\ \/ HubCrash
       \/ Elsewhere
       \/ \E h \in Handler : Request(h) \/ Serve(h) \/ HangUp(h)
    /\ Follow

DeliverySpec == DeliveryInit /\ [][DeliveryNext]_deliveryVars

\* Time passes, the hub is started again, and a thread that serves a request
\* goes on with it.
FairDelivery ==
    /\ DeliverySpec
    /\ WF_deliveryVars(Tick /\ Elsewhere /\ Follow)
    /\ WF_deliveryVars(Boot /\ Elsewhere /\ Follow)
    /\ \A h \in Handler : WF_deliveryVars(Serve(h) /\ Follow)

----------------------------------------------------------------------------
(* The hub as its clients see it.                                          *)

LetterOf(r) ==
    CASE r.status = "pending" -> [at |-> "waiting", env |-> r.env]
      [] r.status = "leased" ->
           [at |-> "held", env |-> r.env, lease |-> r.lease, until |-> r.until]
      [] OTHER -> [at |-> "closed", env |-> r.env]

Mail ==
    [m \in MsgId |->
        IF messages[m] = NoRow THEN [at |-> "nowhere"] ELSE LetterOf(messages[m])]

\* What a claim asks for, without the deadline of its long poll.
Calls ==
    [h \in Handler |->
        IF conn[h].kind = "claim"
        THEN [kind |-> "claim", peer |-> conn[h].peer, open |-> conn[h].open]
        ELSE conn[h]]

C == INSTANCE Courier WITH mail <- Mail, calls <- Calls, Grace <- BusyTimeout

\* Every answer is the one that an atomic table of letters gives at one instant
\* of the call: what a client hears was true then, a consumer has its letter to
\* itself until its time is up, and no step in between can be seen from outside.
SeenAsCourier == C!Spec

----------------------------------------------------------------------------
(* Properties                                                              *)

DeliveryTypeOK ==
    /\ conn \in [Handler -> {NoConn} \cup SendConn \cup ClaimConn]
    /\ line \in [Handler -> SUBSET MsgId]
    /\ inbox \subseteq Receipt
    /\ told \in [Handler -> {Nothing} \cup SendAnswers \cup EmptyAnswers \cup AckAnswers]

\* Whoever is told that a message is queued, or was queued before, has exactly
\* this message in the hub: not another one under its id, and not one that a
\* rollback took back.
ToldIsStored ==
    \A h \in Handler :
        told[h].verdict \in {"queued", "already queued"} => told[h].env \in accepted

\* Whoever is told that the inbox is empty missed nothing that had waited ever
\* since the claim came in, however old the clock of the last look was.
EmptyMeansEmpty ==
    \A h \in Handler : told[h].verdict = "empty" => told[h].waited = {}

\* A consumer that heard any answer to its acknowledgement is done with that
\* delivery: its lease is over and no lease like it is ever handed out again, not
\* even when the hub forgets the message and accepts it anew.  An acknowledgement
\* whose answer was lost can be repeated until there is one.
AnsweredLeaseIsOver ==
    \A h \in Handler :
        LET t == told[h]
        IN  t.verdict \in {"acknowledged", "lease conflict"} =>
              \/ messages[t.by.id] = NoRow
              \/ messages[t.by.id].lease # t.by.lease

\* The two envelopes come from the same draft.
SameDraft(e, f) ==
    \E d \in Draft : e = Stamped(d, e.sent) /\ f = Stamped(d, f.sent)

\* What cli.py says of --message-id: a UUID idempotency key.  A retry of the
\* command is never refused as other content.
RetryRecognised ==
    \A h \in Handler :
        told[h].verdict = "conflict" =>
            ~ \E e \in accepted :
                 e.id = told[h].env.id /\ SameDraft(e, told[h].env)

\* Every request ends, also a long poll of a queue that others empty.
EveryRequestEnds == \A h \in Handler : conn[h] # NoConn ~> conn[h] = NoConn
=============================================================================
