---------------------------- MODULE CourierProofs ----------------------------
(***************************************************************************)
(* The two refinements: the hub with its clients implements Courier, the   *)
(* atomic table of letters, and for any one message it implements Mailbox. *)
(***************************************************************************)
EXTENDS MessageLife, DeliveryProofs

----------------------------------------------------------------------------
(* One message: Mailbox.                                                   *)

\* Only the passing of time moves the clock, and it moves nothing else.
LEMMA ClockStep ==
    ASSUME [Next]_vars
    PROVE  \/ clock' = clock
           \/ /\ clock' = clock + 1
              /\ messages' = messages
              /\ accepted' = accepted
BY DEF Next, Run, Poll, vars, Tick, Crash, Boot, RegisterPeer, SendStart, LeaseStart,
   StatusStart, SendRollback, GiveUp, SendAccept, LeaseGrant, LeaseNone,
   StatusRun, Acknowledge

LEMMA LetterType ==
    /\ Letter \in Envelope
    /\ Letter.id \in MsgId
    /\ Letter.expires \in Nat
BY LetterAssumption, EnvelopeAssumption DEF EnvelopeShape

\* A step while the letter has its row.
LEMMA StepInTable ==
    ASSUME OpsInv, StoredWasAccepted, [Next]_vars, clock' = clock, InTable
    PROVE  M!Next \/ LetterMail' = LetterMail
<1> DEFINE m == Letter.id
           r == messages[m]
<1>1. /\ m \in MsgId /\ r # NoRow /\ r.env = Letter
      /\ r.status \in Status /\ r.until \in Nat /\ clock \in Nat
      /\ Letter \in accepted' /\ Letter.expires \in Nat
  BY LetterType, RowNumbers, AcceptedGrows
  DEF InTable, StoredWasAccepted, OpsInv, TypeOK
<1>2. LetterMail = RowMail(r)
  BY DEF LetterMail
<1>3. ASSUME messages'[m] # NoRow, messages'[m].env = Letter
      PROVE  LetterMail' = RowMail(messages'[m])
  BY <1>3 DEF LetterMail, InTable, RowMail
<1>4. ASSUME messages'[m] = NoRow
      PROVE  LetterMail' = [at |-> "closed"]
  BY <1>1, <1>4 DEF LetterMail, InTable
<1>5. ASSUME IsLive(r), Letter.expires <= clock,
             LetterMail' = [at |-> "closed"]
      PROVE  M!Expire
  BY <1>2, <1>5 DEF M!Expire, M!Closed, RowMail, IsLive
<1>6. CASE Kept(m)
  BY <1>1, <1>2, <1>3, <1>6 DEF Kept
<1>7. ASSUME NEW h \in Handler, Maintained(m, h)
      PROVE  M!Next \/ LetterMail' = LetterMail
  <2>1. op[h].now \in Nat /\ op[h].now <= clock
    BY <1>7, WorkingNumbers DEF Maintained
  <2>2. CASE messages'[m] = NoRow
    <3>1. IsLive(r) => Letter.expires <= op[h].now
      BY <1>1, <1>7, <2>2, MaintainedFacts, NoRowAssumption DEF Maintained, OpsInv
    <3>2. CASE IsLive(r)
      BY <1>1, <1>4, <1>5, <2>1, <2>2, <3>1, <3>2 DEF M!Next
    <3>3. CASE ~IsLive(r)
      BY <1>2, <1>4, <2>2, <3>3 DEF RowMail, IsLive
    <3>4. QED
      BY <3>2, <3>3
  <2>3. CASE messages'[m] # NoRow /\ messages'[m].status = "expired"
             /\ IsLive(r) /\ Letter.expires <= op[h].now
             /\ messages'[m].env = Letter
    <3>1. LetterMail' = [at |-> "closed"]
      BY <1>3, <2>3 DEF RowMail
    <3>2. QED
      BY <1>1, <1>5, <2>1, <2>3, <3>1 DEF M!Next
  <2>4. CASE messages'[m] # NoRow /\ messages'[m].status = "pending"
             /\ messages'[m].attempts = r.attempts
             /\ r.status = "leased" /\ r.until <= op[h].now
             /\ messages'[m].env = Letter
    <3>1. LetterMail' = [at |-> "waiting", attempts |-> r.attempts]
      BY <1>3, <2>4 DEF RowMail
    <3>2. LetterMail = [at |-> "held", attempts |-> r.attempts,
                        until |-> r.until]
      BY <1>2, <2>4 DEF RowMail
    <3>3. r.until <= clock
      BY <1>1, <2>1, <2>4
    <3>4. QED
      BY <3>1, <3>2, <3>3 DEF M!Next, M!TakeBack, M!Overdue, M!Waiting
  <2>5. CASE messages'[m] = r
    BY <1>1, <1>2, <1>3, <2>5
  <2>6. QED
    BY <1>1, <1>7, <2>2, <2>3, <2>4, <2>5, MaintainedFacts DEF Maintained, OpsInv
<1>8. ASSUME NEW h \in Handler, Leased(m, h)
      PROVE  M!HandOut
  <2>1. /\ op[h].now \in Nat /\ op[h].now <= clock
        /\ clock <= op[h].now + BusyTimeout
        /\ op[h].seconds \in Nat \ {0}
    BY <1>8, WorkingNumbers DEF Leased
  <2>2. /\ messages'[m] \in Row /\ messages'[m].env = Letter
        /\ messages'[m].status = "leased"
        /\ messages'[m].attempts = r.attempts + 1
        /\ messages'[m].until = op[h].now + op[h].seconds
        /\ Letter.expires > op[h].now
        /\ r.status = "pending" \/ (r.status = "leased" /\ r.until <= op[h].now)
    BY <1>1, <1>8, LeasedFacts DEF OpsInv
  <2>3. LetterMail' = [at |-> "held", attempts |-> r.attempts + 1,
                       until |-> messages'[m].until]
    BY <1>3, <2>2, NoRowAssumption DEF RowMail
  <2>4. /\ LetterMail.attempts = r.attempts
        /\ \/ LetterMail.at = "waiting"
           \/ LetterMail.at = "held" /\ LetterMail.until <= clock
    <3>1. r.until <= op[h].now => r.until <= clock
      BY <1>1, <2>1
    <3>2. QED
      BY <1>2, <2>2, <3>1 DEF RowMail
  <2>5. /\ Letter.expires > clock - BusyTimeout
        /\ messages'[m].until > clock - BusyTimeout
    BY <1>1, <2>1, <2>2, TimeAssumption
  <2>6. QED
    BY <2>3, <2>4, <2>5 DEF M!HandOut, M!Overdue, M!Held
<1>9. CASE Acked(m)
  <2>1. /\ messages'[m] \in Row /\ messages'[m].env = Letter
        /\ messages'[m].status = "acknowledged" /\ r.status = "leased"
    BY <1>1, <1>9, AckedFacts DEF Acked, OpsInv
  <2>2. LetterMail' = [at |-> "closed"] /\ LetterMail.at = "held"
    BY <1>2, <1>3, <2>1, NoRowAssumption DEF RowMail
  <2>3. QED
    BY <2>2 DEF M!Next, M!Acknowledge, M!Closed
<1>10. ASSUME NEW h \in Handler
       PROVE  ~Inserted(m, h)
  BY <1>1 DEF Inserted
<1>11. QED
  BY <1>1, <1>6, <1>7, <1>8, <1>9, <1>10, RowStep DEF OpsInv, M!Next

\* A step while it has none: the letter is accepted for the first time, or
\* nothing happens to it.
LEMMA StepOutside ==
    ASSUME OpsInv, AcceptedRemembered, [Next]_vars, clock' = clock, ~InTable
    PROVE  M!Next \/ LetterMail' = LetterMail
<1> DEFINE m == Letter.id
<1>1. m \in MsgId /\ Letter.expires \in Nat /\ clock \in Nat
  BY LetterType DEF OpsInv, TypeOK
<1>2. CASE InTable'
  <2>1. PICK h \in Handler : Inserted(m, h)
    BY <1>1, <1>2, SameMessage DEF InTable, OpsInv
  <2>2. op[h].env = Letter /\ messages'[m] = NewRow(Letter, op[h].now)
    BY <1>2, <2>1 DEF InTable, Inserted, NewRow
  <2>3. /\ op[h].now \in Nat /\ op[h].now <= clock
        /\ clock <= op[h].now + BusyTimeout
        /\ Letter.expires > op[h].now
    BY <2>1, <2>2, WorkingNumbers DEF Inserted
  <2>4. Letter \notin accepted
    <3> SUFFICES ASSUME Letter \in accepted
                 PROVE  FALSE
      OBVIOUS
    <3>1. Letter.expires + BusyTimeout <= clock
      BY DEF AcceptedRemembered, InTable
    <3>2. QED
      BY <1>1, <2>3, <3>1, TimeAssumption
  <2>5. LetterMail = [at |-> "new"]
    BY <2>4 DEF LetterMail
  <2>6. LetterMail' = [at |-> "waiting", attempts |-> 0]
    BY <1>2, <2>2 DEF LetterMail, RowMail, NewRow
  <2>7. Letter.expires > clock - BusyTimeout
    BY <1>1, <2>3, TimeAssumption
  <2>8. QED
    BY <2>5, <2>6, <2>7 DEF M!Next, M!Accept, M!New, M!Waiting
<1>3. CASE ~InTable'
  <2>1. Letter \in accepted' <=> Letter \in accepted
    BY <1>3, AcceptStep, AcceptedGrows DEF InTable, OpsInv
  <2>2. QED
    BY <1>3, <2>1 DEF LetterMail
<1>4. QED
  BY <1>2, <1>3

\* The hub keeps the promise of Mailbox for every message, when the retention
\* covers the life of a message: the refinement of the abstract specification.
THEOREM LetterImplementsMailbox ==
    ASSUME RetentionCoversLifetime
    PROVE  Spec => LetterIsSafe
<1>1. Init => M!Init
  BY LetterType DEF Init, M!Init, M!New, LetterMail, InTable
<1>2. ASSUME OpsInv, StoredWasAccepted, AcceptedRemembered, [Next]_vars
      PROVE  [M!Next]_<<clock, LetterMail>>
  <2>1. CASE clock' = clock
    BY <1>2, <2>1, StepInTable, StepOutside
  <2>2. CASE clock' = clock + 1 /\ messages' = messages /\ accepted' = accepted
    <3>1. LetterMail' = LetterMail
      BY <2>2 DEF LetterMail, InTable, RowMail
    <3>2. QED
      BY <2>2, <3>1 DEF M!Next, M!Tick
  <2>3. QED
    BY <1>2, <2>1, <2>2, ClockStep
<1>3. QED
  BY <1>1, <1>2, OpsInvariant, StoredInvariant, AcceptedStaysKnown, PTL
  DEF Spec, LetterIsSafe, M!Spec

\* ... also as its clients use it.
THEOREM ClientsSeeAMailbox ==
    ASSUME RetentionCoversLifetime
    PROVE  DeliverySpec => LetterIsSafe
BY ClientsUseTheStore, LetterImplementsMailbox, PTL

----------------------------------------------------------------------------
(* All messages: Courier.  First, what a row is as a letter.               *)

LetterAt(x) == IF x = NoRow THEN [at |-> "nowhere"] ELSE LetterOf(x)

LEMMA MailIs ==
    /\ Mail = [m \in MsgId |-> LetterAt(messages[m])]
    /\ Mail' = [m \in MsgId |-> LetterAt(messages'[m])]
BY DEF Mail, LetterAt

LEMMA LetterFields ==
    ASSUME NEW r \in Row
    PROVE  /\ LetterAt(r) = LetterOf(r)
           /\ LetterAt(r).env = r.env
           /\ r.status = "pending" => LetterAt(r) = C!Waiting(r.env)
           /\ r.status = "leased" => LetterAt(r) = C!Held(r.env, r.lease, r.until)
           /\ r.status \in {"acknowledged", "expired"} =>
                LetterAt(r) = C!Closed(r.env)
<1>1. r # NoRow
  BY NoRowAssumption
<1>2. r.status \in {"pending", "leased", "acknowledged", "expired"}
  BY DEF Row, Status
<1>3. LetterAt(r) = LetterOf(r)
  BY <1>1 DEF LetterAt
<1>4. CASE r.status = "pending"
  BY <1>3, <1>4 DEF LetterOf, C!Waiting
<1>5. CASE r.status = "leased"
  BY <1>3, <1>5 DEF LetterOf, C!Held
<1>6. CASE r.status \in {"acknowledged", "expired"}
  BY <1>3, <1>6 DEF LetterOf, C!Closed
<1>7. QED
  BY <1>2, <1>3, <1>4, <1>5, <1>6

\* The maintenance only does what time does to a letter, although it goes by an
\* older clock.
LEMMA MaintainedAges ==
    ASSUME OpsInv, NEW h \in Handler, Working(h), NEW m \in MsgId,
           messages'[m] = Maintain(op[h].now)[m]
    PROVE  C!Ages(Mail[m], Mail'[m])
<1> DEFINE r == messages[m]
           k == messages'[m]
           now == op[h].now
<1>1. Mail[m] = LetterAt(r) /\ Mail'[m] = LetterAt(k)
  BY MailIs
<1>2. CASE r = NoRow
  <2>1. k = NoRow
    BY <1>2 DEF Maintain
  <2>2. QED
    BY <1>1, <1>2, <2>1 DEF C!Ages
<1>3. CASE r # NoRow
  <2>1. /\ r \in Row /\ r.env.expires \in Nat /\ r.until \in Nat /\ clock \in Nat
        /\ now \in Nat /\ now <= clock /\ TypeOK
    BY <1>3, RowNumbers, WorkingNumbers DEF OpsInv, TypeOK
  <2>2. k = MaintainRow(r, now)
    BY <1>3 DEF Maintain
  <2>3. CASE k = r
    BY <1>1, <2>3 DEF C!Ages
  <2>4. ASSUME IsLive(r), r.env.expires <= now
        PROVE  C!Outlived(LetterAt(r))
    BY <2>1, <2>4, LetterFields DEF IsLive, C!Outlived, C!Waiting, C!Held
  <2>5. ASSUME ~IsLive(r)
        PROVE  LetterAt(r).at = "closed"
    BY <2>1, <2>5, LetterFields DEF IsLive, Row, Status, C!Closed
  <2>6. CASE k = NoRow
    <3>1. IsLive(r) => r.env.expires <= now
      BY <1>3, <2>1, <2>2, <2>6, MaintainedFacts, NoRowAssumption
    <3>2. LetterAt(k) = C!Nowhere
      BY <2>6 DEF LetterAt, C!Nowhere
    <3>3. QED
      BY <1>1, <2>4, <2>5, <3>1, <3>2 DEF C!Ages
  <2>7. CASE k \in Row /\ k.env = r.env /\ k.status = "expired"
             /\ IsLive(r) /\ r.env.expires <= now
    <3>1. LetterAt(k) = C!Closed(LetterAt(r).env)
      BY <2>1, <2>7, LetterFields
    <3>2. QED
      BY <1>1, <2>4, <2>7, <3>1 DEF C!Ages
  <2>8. CASE k \in Row /\ k.env = r.env /\ k.status = "pending"
             /\ r.status = "leased" /\ r.until <= now
    <3>1. LetterAt(k) = C!Waiting(LetterAt(r).env)
      BY <2>1, <2>8, LetterFields
    <3>2. C!Overdue(LetterAt(r))
      BY <2>1, <2>8, LetterFields DEF C!Overdue, C!Held
    <3>3. QED
      BY <1>1, <3>1, <3>2 DEF C!Ages
  <2>9. QED
    BY <1>3, <2>1, <2>2, <2>3, <2>6, <2>7, <2>8, MaintainedFacts
<1>4. QED
  BY <1>2, <1>3

\* An operation that maintains every row but those of S ages the letters.
LEMMA OthersAge ==
    ASSUME OpsInv, NEW h \in Handler, Working(h), NEW S,
           \A m \in MsgId \ S : messages'[m] = Maintain(op[h].now)[m]
    PROVE  C!Elsewhere(S)
<1>1. Mail' = [m \in MsgId |-> Mail'[m]]
  BY MailIs
<1>2. \A m \in MsgId \ S : C!Ages(Mail[m], Mail'[m])
  BY MaintainedAges
<1>3. QED
  BY <1>1, <1>2 DEF C!Elsewhere

----------------------------------------------------------------------------
(* A thread works for its connection.                                      *)

\* A thread without a connection is idle, and one that serves a submission runs
\* send_message for it and nothing else.
BusyAt(h) ==
    /\ conn[h] = NoConn => op[h] = Idle
    /\ conn[h].kind = "send" =>
          \/ op[h] = Idle
          \/ op[h].kind = "send" /\ op[h].env = conn[h].env

Busy == \A h \in Handler : BusyAt(h)

LEMMA BusyElsewhere ==
    ASSUME Busy, NEW h \in Handler, BusyAt(h)',
           \A k \in Handler \ {h} : op'[k] = op[k] /\ conn'[k] = conn[k]
    PROVE  Busy'
BY DEF Busy, BusyAt

LEMMA NextBusy ==
    ASSUME Typed, Busy, [DeliveryNext]_deliveryVars
    PROVE  Busy'
<1>0. /\ conn \in [Handler -> Conn]
      /\ op \in [Handler -> {Idle} \cup SendOp \cup LeaseOp \cup StatusOp]
  BY DEF Typed, TypeOK
<1>1. CASE HubCrash
  BY <1>1 DEF HubCrash, Crash, Busy, BusyAt, NoConn
<1>2. CASE op' = op /\ conn' = conn
  BY <1>2 DEF Busy, BusyAt
<1>3. ASSUME NEW h \in Handler, NEW e, Submit(h, e)
      PROVE  Busy'
  <2>1. /\ conn' = [conn EXCEPT ![h] = [kind |-> "send", env |-> e, open |-> TRUE]]
        /\ op' = op /\ op[h] = Idle
    BY <1>3 DEF Submit, vars
  <2>2. BusyAt(h)'
    BY <2>1 DEF BusyAt
  <2>3. QED
    BY <1>0, <2>1, <2>2, BusyElsewhere
<1>4. ASSUME NEW h \in Handler, NEW p, NEW s, NEW w, Claim(h, p, s, w)
      PROVE  Busy'
  <2>1. /\ conn' = [conn EXCEPT ![h] = [kind |-> "claim", peer |-> p, seconds |-> s,
                                        deadline |-> clock + w, open |-> TRUE]]
        /\ op' = op
    BY <1>4 DEF Claim, vars
  <2>2. conn'[h].kind = "claim"
    BY <1>0, <2>1
  <2>3. BusyAt(h)'
    BY <2>2 DEF BusyAt, NoConn
  <2>4. QED
    BY <1>0, <2>1, <2>3, BusyElsewhere
<1>5. ASSUME NEW h \in Handler, HangUp(h)
      PROVE  Busy'
  <2>1. /\ conn' = [conn EXCEPT ![h].open = FALSE]
        /\ op' = op
        /\ conn[h] \in SendConn \cup ClaimConn
    BY <1>0, <1>5 DEF HangUp, vars, Conn
  <2>2. /\ conn'[h].kind = conn[h].kind
        /\ conn[h].kind = "send" => conn'[h].env = conn[h].env
        /\ conn[h].kind \in {"send", "claim"}
    BY <1>0, <2>1 DEF SendConn, ClaimConn
  <2>3. BusyAt(h)'
    BY <2>1, <2>2 DEF Busy, BusyAt, NoConn
  <2>4. QED
    BY <1>0, <2>1, <2>3, BusyElsewhere
<1>6. ASSUME NEW h \in Handler, Close(h), op' = [op EXCEPT ![h] = Idle]
      PROVE  Busy'
  <2>1. conn'[h] = NoConn /\ op'[h] = Idle
    BY <1>0, <1>6 DEF Close
  <2>2. BusyAt(h)'
    BY <2>1 DEF BusyAt, NoConn
  <2>3. QED
    BY <1>0, <1>6, <2>2, BusyElsewhere DEF Close
<1>7. ASSUME NEW h \in Handler, Look(h) \/ LookAgain(h)
      PROVE  Busy'
  <2>1. /\ conn[h].kind = "claim"
        /\ \A k \in Handler \ {h} : op'[k] = op[k] /\ conn'[k] = conn[k]
        /\ conn' = conn \/ conn' = [conn EXCEPT ![h].deadline = Deadline(h)]
    BY <1>0, <1>7 DEF Look, LookAgain, LeaseStart, LeaseNone
  <2>2. conn'[h].kind = "claim"
    BY <1>0, <2>1 DEF Conn, NoConn, SendConn, ClaimConn
  <2>3. BusyAt(h)'
    BY <2>2 DEF BusyAt, NoConn
  <2>4. QED
    BY <2>1, <2>3, BusyElsewhere
<1>8. ASSUME NEW h \in Handler, Begin(h)
       PROVE  Busy'
  <2>1. /\ op' = [op EXCEPT ![h] = [kind |-> "send", env |-> conn[h].env,
                                    now |-> clock]]
        /\ conn' = conn /\ conn[h].kind = "send"
    BY <1>8 DEF Begin, SendStart
  <2>2. op'[h].kind = "send" /\ op'[h].env = conn[h].env
    BY <1>0, <2>1
  <2>3. BusyAt(h)'
    BY <2>1, <2>2 DEF BusyAt, NoConn
  <2>4. QED
    BY <1>0, <2>1, <2>3, BusyElsewhere
<1>9. CASE \E h \in Handler : Request(h)
  <2>1. ASSUME NEW h \in Handler, NEW r, Ack(h, r)
        PROVE  op' = op /\ conn' = conn
    BY <2>1 DEF Ack, Settles, Refuses, Acknowledge, vars
  <2>2. QED
    BY <1>2, <1>3, <1>4, <1>9, <2>1 DEF Request, CommandSend, Resend
<1>10. ASSUME NEW h \in Handler, RefuseUntimely(h)
       PROVE  Busy'
  <2>1. Close(h) /\ op' = op /\ op[h] = Idle
    BY <1>10 DEF RefuseUntimely, vars
  <2>2. op' = [op EXCEPT ![h] = Idle]
    BY <1>0, <2>1
  <2>3. QED
    BY <1>6, <2>1, <2>2
<1>11. CASE \E h \in Handler : SendAnswer(h) \/ Deliver(h) \/ AnswerEmpty(h) \/ NoAnswer(h)
  BY <1>6, <1>11 DEF SendAnswer, Deliver, AnswerEmpty, NoAnswer, FoundNothing,
     SendAccept, SendRollback, LeaseGrant, LeaseNone, GiveUp
<1>12. CASE Elsewhere \/ UNCHANGED deliveryVars
  BY <1>2, <1>12 DEF Elsewhere, Tick, Boot, RegisterPeer, deliveryVars, vars
<1>13. QED
  BY <1>1, <1>5, <1>7, <1>8, <1>9, <1>10, <1>11, <1>12 DEF DeliveryNext, Serve

LEMMA BusyInvariant == DeliverySpec => []Busy
<1>1. DeliveryInit => Busy
  BY DEF DeliveryInit, Init, Busy, BusyAt, NoConn
<1>2. QED
  BY <1>1, NextBusy, TypedInvariant, PTL DEF DeliverySpec

----------------------------------------------------------------------------
(* Calls: what a connection is to its client.                              *)

CallOf(c) ==
    IF c.kind = "claim"
    THEN [kind |-> "claim", peer |-> c.peer, open |-> c.open]
    ELSE c

LEMMA CallsAre ==
    /\ Calls = [h \in Handler |-> CallOf(conn[h])]
    /\ Calls' = [h \in Handler |-> CallOf(conn'[h])]
BY DEF Calls, CallOf

LEMMA CallFields ==
    ASSUME NEW c \in Conn
    PROVE  /\ CallOf(c).kind = c.kind
           /\ c # NoConn => CallOf(c).open = c.open
           /\ c.kind = "send" => CallOf(c) = c
           /\ c.kind = "claim" => CallOf(c).peer = c.peer
           /\ CallOf(c) = C!NoCall <=> c = NoConn
<1>1. c \in {NoConn} \cup SendConn \cup ClaimConn
  BY DEF Conn
<1>2. CASE c.kind = "claim"
  BY <1>1, <1>2 DEF CallOf, C!NoCall, NoConn, SendConn, ClaimConn
<1>3. CASE c.kind # "claim"
  BY <1>1, <1>3 DEF CallOf, C!NoCall, NoConn, SendConn, ClaimConn
<1>4. QED
  BY <1>2, <1>3

LEMMA CallOfThread ==
    ASSUME Typed, NEW h \in Handler
    PROVE  /\ Calls[h] = CallOf(conn[h])
           /\ Calls[h].kind = conn[h].kind
           /\ conn[h] # NoConn => Calls[h].open = conn[h].open
           /\ conn[h].kind = "send" => Calls[h].env = conn[h].env
           /\ conn[h].kind = "claim" => Calls[h].peer = conn[h].peer
           /\ Calls[h] = C!NoCall <=> conn[h] = NoConn
<1>1. conn[h] \in Conn /\ Calls[h] = CallOf(conn[h])
  BY CallsAre DEF Typed
<1>2. QED
  BY <1>1, CallFields

\* A connection that is answered is a call that ends, and the answer is heard
\* only while somebody listens.
LEMMA AnswerEnds ==
    ASSUME Typed, NEW h \in Handler, conn[h] # NoConn, NEW answer,
           Hears(h, answer), Close(h)
    PROVE  C!Ends(h, answer)
<1>1. Calls[h].open = conn[h].open
  BY CallOfThread
<1>2. CallOf(NoConn) = C!NoCall
  BY DEF CallOf, NoConn, C!NoCall
<1>3. Calls' = [Calls EXCEPT ![h] = C!NoCall]
  <2>1. conn' = [conn EXCEPT ![h] = NoConn] /\ conn \in [Handler -> Conn]
    BY DEF Close, Typed
  <2>2. QED
    BY <1>2, <2>1, CallsAre
<1>4. told' = [told EXCEPT ![h] = IF Calls[h].open THEN answer ELSE C!Silence]
  BY <1>1 DEF Hears, Nothing, C!Silence
<1>5. QED
  BY <1>3, <1>4 DEF C!Ends

\* A new connection is a question that is asked.
LEMMA ConnectionAsks ==
    ASSUME Typed, NEW h \in Handler, conn[h] = NoConn,
           NEW c \in Conn, CallOf(c) \in C!Call,
           conn' = [conn EXCEPT ![h] = c],
           told' = [told EXCEPT ![h] = Nothing],
           UNCHANGED <<clock, messages, issued, inbox>>
    PROVE  C!Ask(h)
<1>1. Calls[h] = C!NoCall
  BY CallOfThread
<1>2. Calls' = [Calls EXCEPT ![h] = CallOf(c)]
  BY CallsAre DEF Typed
<1>3. UNCHANGED Mail
  BY DEF Mail
<1>4. QED
  BY <1>1, <1>2, <1>3 DEF C!Ask, C!Silence, Nothing

----------------------------------------------------------------------------
(* The steps of Delivery are steps of Courier.                             *)

LEMMA ElsewhereIsSeen ==
    ASSUME Elsewhere
    PROVE  C!Tick \/ UNCHANGED C!vars
<1>1. UNCHANGED <<Mail, issued, Calls, inbox, told>>
  BY DEF Elsewhere, Tick, Boot, RegisterPeer, Mail, Calls
<1>2. clock' = clock + 1 \/ clock' = clock
  BY DEF Elsewhere, Tick, Boot, RegisterPeer
<1>3. QED
  BY <1>1, <1>2 DEF C!Tick, C!vars

LEMMA CrashIsSeen ==
    ASSUME HubCrash
    PROVE  C!Fail
<1>1. UNCHANGED <<clock, Mail, issued, inbox, told>>
  BY DEF HubCrash, Crash, Mail
<1>2. Calls' = [h \in Handler |-> C!NoCall]
  <2>1. CallOf(NoConn) = C!NoCall
    BY DEF CallOf, NoConn, C!NoCall
  <2>2. QED
    BY <2>1, CallsAre DEF HubCrash
<1>3. QED
  BY <1>1, <1>2 DEF C!Fail

LEMMA SubmitIsSeen ==
    ASSUME Typed, NEW h \in Handler, NEW e \in Envelope, Submit(h, e)
    PROVE  C!Ask(h)
<1> DEFINE c == [kind |-> "send", env |-> e, open |-> TRUE]
<1>1. c \in Conn /\ CallOf(c) = c
  BY DEF Conn, SendConn, CallOf
<1>2. c \in C!Call
  BY DEF C!Call
<1>3. /\ conn[h] = NoConn
      /\ conn' = [conn EXCEPT ![h] = c]
      /\ told' = [told EXCEPT ![h] = Nothing]
      /\ UNCHANGED <<clock, messages, issued, inbox>>
  BY DEF Submit, vars
<1> HIDE DEF c
<1>4. QED
  BY <1>1, <1>2, <1>3, ConnectionAsks

LEMMA ClaimIsSeen ==
    ASSUME Typed, NEW h \in Handler, NEW p \in Peer, NEW s \in LeaseTimes,
           NEW w \in WaitTimes, Claim(h, p, s, w)
    PROVE  C!Ask(h)
<1> DEFINE c == [kind |-> "claim", peer |-> p, seconds |-> s,
                 deadline |-> clock + w, open |-> TRUE]
<1>1. c \in Conn
  <2>1. clock + w \in Nat
    BY WaitAssumption DEF Typed, TypeOK
  <2>2. QED
    BY <2>1 DEF Conn, ClaimConn
<1>2. CallOf(c) \in C!Call
  BY DEF CallOf, C!Call
<1>3. /\ conn[h] = NoConn
      /\ conn' = [conn EXCEPT ![h] = c]
      /\ told' = [told EXCEPT ![h] = Nothing]
      /\ UNCHANGED <<clock, messages, issued, inbox>>
  BY DEF Claim, vars
<1> HIDE DEF c
<1>4. QED
  BY <1>1, <1>2, <1>3, ConnectionAsks

LEMMA ClosedClaim ==
    ASSUME NEW p, NEW x, NEW y,
           x \in [kind: {"claim"}, peer: {p}, open: BOOLEAN],
           y \in [kind: {"claim"}, peer: {p}, open: BOOLEAN],
           y.open = FALSE
    PROVE  y = [x EXCEPT !.open = FALSE]
OBVIOUS

LEMMA HangUpIsSeen ==
    ASSUME Typed, NEW h \in Handler, HangUp(h)
    PROVE  C!Leave(h)
<1>1. /\ conn[h] # NoConn
      /\ conn \in [Handler -> Conn]
      /\ conn' = [conn EXCEPT ![h].open = FALSE]
      /\ UNCHANGED <<clock, messages, issued, inbox, told>>
  BY DEF HangUp, vars, Typed
<1>2. Calls[h] # C!NoCall /\ Calls[h] = CallOf(conn[h])
  BY <1>1, CallOfThread
<1>3. CallOf(conn'[h]) = [CallOf(conn[h]) EXCEPT !.open = FALSE]
  <2> DEFINE c == conn[h]
             d == [c EXCEPT !.open = FALSE]
  <2>1. c \in SendConn \cup ClaimConn /\ conn'[h] = d
    BY <1>1 DEF Conn
  <2>2. CASE c \in SendConn
    BY <2>1, <2>2 DEF CallOf, SendConn
  <2>3. CASE c \in ClaimConn
    <3>1. /\ c.kind = "claim" /\ c.open \in BOOLEAN
          /\ d.kind = "claim" /\ d.peer = c.peer /\ d.open = FALSE
      BY <2>3 DEF ClaimConn
    <3> HIDE DEF c, d
    <3>2. /\ CallOf(d) \in [kind: {"claim"}, peer: {c.peer}, open: BOOLEAN]
          /\ CallOf(d).open = FALSE
      BY <3>1 DEF CallOf
    <3>3. CallOf(c) \in [kind: {"claim"}, peer: {c.peer}, open: BOOLEAN]
      BY <3>1 DEF CallOf
    <3>4. CallOf(d) = [CallOf(c) EXCEPT !.open = FALSE]
      BY <3>2, <3>3, ClosedClaim
    <3>5. (conn[h])' = d /\ conn[h] = c
      BY <2>1 DEF c
    <3>6. QED
      BY <3>4, <3>5
  <2>4. QED
    BY <2>1, <2>2, <2>3
<1>4. Calls' = [Calls EXCEPT ![h].open = FALSE]
  BY <1>1, <1>2, <1>3, CallsAre
<1>5. UNCHANGED Mail
  BY <1>1 DEF Mail
<1>6. QED
  BY <1>1, <1>2, <1>4, <1>5 DEF C!Leave

LEMMA NoAnswerIsSeen ==
    ASSUME Typed, Busy, NEW h \in Handler, NoAnswer(h)
    PROVE  C!Drop(h)
<1>1. conn[h] # NoConn
  BY DEF NoAnswer, GiveUp, Busy, BusyAt
<1>2. C!Ends(h, C!Silence) /\ Calls[h] # C!NoCall
  <2>1. Nothing = C!Silence
    BY DEF Nothing, C!Silence
  <2>2. QED
    BY <1>1, <2>1, AnswerEnds, CallOfThread DEF NoAnswer
<1>3. UNCHANGED <<clock, Mail, issued, inbox>>
  BY DEF NoAnswer, GiveUp, Mail
<1>4. QED
  BY <1>2, <1>3 DEF C!Drop

\* Reading the clock, for a look or a submission, is not seen.
LEMMA ReadingIsHidden ==
    ASSUME NEW h \in Handler, Look(h) \/ Begin(h)
    PROVE  UNCHANGED C!vars
<1>1. UNCHANGED <<clock, messages, issued, conn, inbox, told>>
  BY DEF Look, LeaseStart, Begin, SendStart
<1>2. UNCHANGED <<Mail, Calls>>
  BY <1>1 DEF Mail, Calls
<1>3. QED
  BY <1>1, <1>2 DEF C!vars

\* A letter that waits is a pending row.
LEMMA WaitingRow ==
    ASSUME TypeOK', NEW m \in MsgId, Mail'[m].at = "waiting"
    PROVE  /\ m \in Present(messages')
           /\ messages'[m].status = "pending"
           /\ messages'[m].env = Mail'[m].env
<1> DEFINE r == messages'[m]
<1>1. Mail'[m] = LetterAt(r)
  BY MailIs
<1>2. r # NoRow
  BY <1>1 DEF LetterAt
<1>3. r \in Row
  BY <1>2 DEF TypeOK
<1> HIDE DEF r
<1>4. r.status = "pending"
  BY <1>1, <1>3, LetterFields DEF Row, Status, C!Held, C!Closed
<1>5. QED
  BY <1>1, <1>2, <1>3, <1>4, LetterFields DEF Present, r

\* lease_next found nothing: its maintenance is all that it did, and nothing is
\* left to be handed out, expired or not.
LEMMA NothingLeased ==
    ASSUME Typed, Typed', OpsInv, NEW h \in Handler, conn[h].kind = "claim",
           LeaseNone(h)
    PROVE  /\ C!Elsewhere({})
           /\ C!NoneWaits(Calls[h].peer)
           /\ UNCHANGED <<clock, issued>>
<1> DEFINE now == op[h].now
<1>1. /\ Working(h) /\ op[h].kind = "lease"
      /\ Ready(op[h].peer, now) = {}
      /\ messages' = Maintain(now)
      /\ UNCHANGED <<clock, issued>>
  BY DEF LeaseNone, HoldsLock, Working
<1>2. op[h].peer = Calls[h].peer
  BY <1>1, CallOfThread DEF Typed, Served, Idle
<1>3. TypeOK /\ now \in Nat
  BY <1>1, WorkingTypes DEF Typed
<1>4. ASSUME NEW m \in MsgId, Mail'[m].at = "waiting"
      PROVE  Mail'[m].env.recipient # op[h].peer
  <2> DEFINE k == Maintain(now)[m]
  <2>1. /\ m \in Present(Maintain(now)) /\ k # NoRow
        /\ k.status = "pending" /\ k.env = Mail'[m].env
    BY <1>1, <1>4, WaitingRow DEF Typed, Present
  <2>2. /\ messages[m] \in Row /\ k = MaintainRow(messages[m], now)
        /\ k.env = messages[m].env
    BY <1>3, <2>1, MaintainType
  <2>3. k.env.expires > now
    <3>1. IsLive(MaintainRow(messages[m], now))
      BY <2>1, <2>2 DEF IsLive
    <3>2. QED
      BY <1>3, <2>1, <2>2, <3>1, LiveIsCurrent
  <2>4. m \notin Ready(op[h].peer, now)
    BY <1>1
  <2>5. QED
    BY <2>1, <2>3, <2>4 DEF Ready
<1>5. C!NoneWaits(Calls[h].peer)
  BY <1>2, <1>4 DEF C!NoneWaits
<1>6. C!Elsewhere({})
  <2>1. \A m \in MsgId \ {} : messages'[m] = Maintain(now)[m]
    BY <1>1
  <2>2. QED
    BY <1>1, <2>1, OthersAge
<1>7. QED
  BY <1>1, <1>5, <1>6

LEMMA LookAgainIsSeen ==
    ASSUME Typed, Typed', OpsInv, NEW h \in Handler, LookAgain(h)
    PROVE  C!Look(h)
<1>1. /\ conn \in [Handler -> Conn]
      /\ conn[h] \in ClaimConn
      /\ conn[h].kind = "claim"
      /\ LeaseNone(h)
      /\ conn' = [conn EXCEPT ![h].deadline = Deadline(h)]
      /\ UNCHANGED <<inbox, told>>
  BY ConnTypes DEF LookAgain, Typed
<1>2. CallOf(conn'[h]) = CallOf(conn[h])
  <2> DEFINE d == [conn[h] EXCEPT !.deadline = Deadline(h)]
  <2>1. d.kind = "claim" /\ d.peer = conn[h].peer /\ d.open = conn[h].open
    BY <1>1 DEF ClaimConn
  <2>2. conn'[h] = d
    BY <1>1
  <2> HIDE DEF d
  <2>3. QED
    BY <1>1, <2>1, <2>2 DEF CallOf
<1>3. UNCHANGED Calls
  <2>1. \A k \in Handler : CallOf(conn'[k]) = CallOf(conn[k])
    BY <1>1, <1>2
  <2>2. QED
    BY <2>1, CallsAre
<1>4. Calls[h].kind = "claim"
  BY <1>1, CallOfThread
<1>5. QED
  BY <1>1, <1>3, <1>4, NothingLeased DEF C!Look

LEMMA AnswerEmptyIsSeen ==
    ASSUME Typed, Typed', OpsInv, LineWaits, NEW h \in Handler, AnswerEmpty(h)
    PROVE  C!FindNothing(h)
<1>1. /\ conn[h].kind = "claim" /\ conn[h] # NoConn
      /\ LeaseNone(h) /\ Close(h) /\ UNCHANGED inbox
      /\ Hears(h, [verdict |-> "empty",
                   waited |-> {m \in line[h] : messages'[m] = messages[m]}])
  BY DEF AnswerEmpty, FoundNothing, NoConn
<1>2. {m \in line[h] : messages'[m] = messages[m]} = {}
  BY EmptyLine
<1>3. Hears(h, [verdict |-> "empty", waited |-> {}])
  BY <1>1, <1>2
<1>4. C!Ends(h, [verdict |-> "empty", waited |-> {}]) /\ Calls[h].kind = "claim"
  BY <1>1, <1>3, AnswerEnds, CallOfThread
<1>5. QED
  BY <1>1, <1>4, NothingLeased DEF C!FindNothing

\* A submission that is inserted is accepted: nothing is known under its id.
LEMMA AcceptIsSeen ==
    ASSUME Typed, OpsInv, Busy, NEW h \in Handler, SendAnswer(h), SendAccept(h)
    PROVE  C!Accept(h)
<1> DEFINE e == op[h].env
           now == op[h].now
<1>1. /\ Insertable(e, now)
      /\ messages' = [Maintain(now) EXCEPT ![e.id] = NewRow(e, now)]
      /\ Working(h) /\ op[h].kind = "send"
      /\ UNCHANGED <<clock, issued>>
  BY DEF SendAccept, HoldsLock, Working
<1>2. /\ conn[h].kind = "send" /\ conn[h] # NoConn
      /\ Close(h) /\ UNCHANGED inbox
      /\ Hears(h, [env |-> e, verdict |-> Verdict(e, now)])
  BY DEF SendAnswer, NoConn
<1>3. Calls[h].kind = "send" /\ Calls[h].env = e
  BY <1>1, <1>2, CallOfThread DEF Busy, BusyAt, Idle
<1>4. /\ e \in Envelope /\ e.id \in MsgId /\ e.expires \in Nat
      /\ now \in Nat /\ now <= clock /\ clock <= now + BusyTimeout
      /\ e.expires > now
      /\ clock \in Nat
  BY <1>1, WorkingNumbers, EnvelopeAssumption DEF EnvelopeShape, OpsInv, TypeOK
<1>5. Verdict(e, now) = "queued"
  BY <1>1 DEF Insertable, Verdict, Admissible
<1>6. C!Ends(h, [env |-> e, verdict |-> "queued"])
  BY <1>2, <1>5, AnswerEnds
<1>7. Mail[e.id] = C!Nowhere
  BY <1>1, <1>4, MailIs DEF Insertable, LetterAt, C!Nowhere
<1>8. Mail'[e.id] = C!Waiting(e)
  <2>1. messages'[e.id] = NewRow(e, now)
    BY <1>1, <1>4 DEF Maintain
  <2>2. /\ NewRow(e, now) \in Row
        /\ NewRow(e, now).status = "pending" /\ NewRow(e, now).env = e
    BY <1>4 DEF NewRow, Row, Status, NoLease
  <2>3. QED
    BY <1>4, <2>1, <2>2, MailIs, LetterFields
<1>9. C!Elsewhere({e.id})
  <2>1. \A m \in MsgId \ {e.id} : messages'[m] = Maintain(now)[m]
    BY <1>1 DEF Maintain
  <2>2. QED
    BY <1>1, <2>1, OthersAge
<1>10. C!InTime(e)
  BY <1>4, TimeAssumption DEF C!InTime
<1> HIDE DEF e, now
<1>11. QED
  BY <1>1, <1>2, <1>3, <1>6, <1>7, <1>8, <1>9, <1>10 DEF C!Accept

\* What was once accepted is admissible for good: its recipient stays registered,
\* and its timestamps stay what they are.
AcceptedFits == \A e \in accepted : Admissible(e)

LEMMA AcceptedStaysFit == Spec => []AcceptedFits
<1>1. Init => AcceptedFits
  BY DEF Init, AcceptedFits
<1>2. ASSUME AcceptedFits, [Next]_vars
      PROVE  AcceptedFits'
  <2>1. peers \subseteq peers'
    BY <1>2 DEF Next, Run, Poll, vars, Tick, Crash, Boot, RegisterPeer, SendStart,
       LeaseStart, StatusStart, SendRollback, GiveUp, SendAccept, LeaseGrant,
       LeaseNone, StatusRun, Acknowledge
  <2>2. CASE accepted' = accepted
    BY <1>2, <2>1, <2>2 DEF AcceptedFits, Admissible
  <2>3. CASE \E h \in Handler : SendAccept(h)
    <3>1. PICK h \in Handler : SendAccept(h)
      BY <2>3
    <3>2. Admissible(op[h].env) /\ accepted' = accepted \cup {op[h].env}
      BY <3>1 DEF SendAccept, Insertable, Admissible
    <3>3. QED
      BY <1>2, <2>1, <3>2 DEF AcceptedFits, Admissible
  <2>4. QED
    BY <1>2, <2>2, <2>3 DEF Next, Run, Poll, vars, Tick, Crash, Boot, RegisterPeer,
       SendStart, LeaseStart, StatusStart, SendRollback, GiveUp, LeaseGrant,
       LeaseNone, StatusRun, Acknowledge
<1>3. QED
  BY <1>1, <1>2, PTL DEF Spec

\* ... and it was sent in the past, but for the tolerated skew.
AcceptedWereSent == \A e \in accepted : e.sent <= clock + Skew

LEMMA AcceptedStaySent == Spec => []AcceptedWereSent
<1>1. Init => AcceptedWereSent
  BY DEF Init, AcceptedWereSent
<1>2. ASSUME OpsInv, OpsInv', AcceptedWereSent, [Next]_vars
      PROVE  AcceptedWereSent'
  <2> SUFFICES ASSUME NEW e \in accepted'
               PROVE  e.sent <= clock' + Skew
    BY DEF AcceptedWereSent
  <2>1. e.sent \in Nat /\ clock \in Nat /\ clock' \in {clock, clock + 1}
    <3>1. e \in Envelope /\ clock \in Nat
      BY <1>2 DEF OpsInv, TypeOK
    <3>2. QED
      BY <1>2, <3>1, ClockStep, EnvelopeAssumption DEF EnvelopeShape
  <2>2. e.sent <= clock + Skew
    <3>1. CASE e \in accepted
      BY <1>2, <3>1 DEF AcceptedWereSent
    <3>2. CASE e \notin accepted
      <4>1. PICK h \in Handler : SendAccept(h)
        BY <1>2, <3>2 DEF Next, Run, Poll, vars, Tick, Crash, Boot, RegisterPeer,
           SendStart, GiveUp, LeaseStart, StatusStart, SendRollback, LeaseGrant,
           LeaseNone, StatusRun, Acknowledge
      <4>2. e = op[h].env /\ op[h].kind = "send"
        BY <3>2, <4>1 DEF SendAccept, HoldsLock
      <4>3. e.sent <= op[h].now + Skew /\ op[h].now <= clock /\ op[h].now \in Nat
        BY <1>2, <4>2, OpTypes DEF OpsInv, SendsWereTimely, OpsSawThePast, Idle
      <4>4. QED
        BY <2>1, <4>3, TimeAssumption
    <3>3. QED
      BY <3>1, <3>2
  <2>3. QED
    BY <2>1, <2>2, TimeAssumption
<1>3. QED
  BY <1>1, <1>2, OpsInvariant, PTL DEF Spec

\* A submission that is refused for its timestamps is not one of a letter that the
\* hub has, unless the deadline of that letter is past.
LEMMA UntimelyIsSeen ==
    ASSUME Typed, StoredWasAccepted, AcceptedWereSent,
           NEW h \in Handler, RefuseUntimely(h)
    PROVE  C!Refuse(h)
<1> DEFINE e == conn[h].env
<1>1. /\ conn[h].kind = "send" /\ conn[h] # NoConn
      /\ ~Timely(e)
      /\ Hears(h, [env |-> e, verdict |-> "refused"])
      /\ Close(h)
      /\ UNCHANGED <<clock, messages, issued, inbox>>
  BY DEF RefuseUntimely, NoConn, vars
<1>2. Calls[h].kind = "send" /\ Calls[h].env = e
  BY <1>1, CallOfThread
<1>3. C!Ends(h, [env |-> e, verdict |-> "refused"])
  BY <1>1, AnswerEnds
<1>4. UNCHANGED Mail
  BY <1>1 DEF Mail
<1>5. /\ e \in Envelope /\ e.id \in MsgId
      /\ e.expires \in Nat /\ e.sent \in Nat /\ clock \in Nat
  <2>1. e \in Envelope /\ clock \in Nat
    BY <1>1, ConnTypes DEF SendConn, Typed, TypeOK
  <2>2. QED
    BY <2>1, EnvelopeAssumption DEF EnvelopeShape
<1>6. \/ Mail[e.id] = C!Nowhere \/ Mail[e.id].env # e
      \/ e.expires <= clock
  <2>1. CASE messages[e.id] = NoRow
    BY <1>5, <2>1, MailIs DEF LetterAt, C!Nowhere
  <2>2. CASE messages[e.id] # NoRow /\ messages[e.id].env # e
    <3>1. messages[e.id] \in Row
      BY <1>5, <2>2 DEF Typed, TypeOK
    <3> HIDE DEF e
    <3>2. QED
      BY <1>5, <2>2, <3>1, MailIs, LetterFields
  <2>3. CASE messages[e.id] # NoRow /\ messages[e.id].env = e
    <3>1. e.sent <= clock + Skew
      BY <1>5, <2>3 DEF StoredWasAccepted, AcceptedWereSent
    <3>2. ~(e.expires > clock)
      BY <1>1, <3>1 DEF Timely
    <3> HIDE DEF e
    <3>3. QED
      BY <1>5, <3>2
  <2>4. QED
    BY <2>1, <2>2, <2>3
<1> HIDE DEF e
<1>7. QED
  BY <1>1, <1>2, <1>3, <1>4, <1>6 DEF C!Refuse

\* One that is rolled back is recognised, or is not of a letter that the hub has.
LEMMA RollbackIsSeen ==
    ASSUME Typed, StoredWasAccepted, AcceptedFits, Busy,
           NEW h \in Handler, SendAnswer(h), SendRollback(h)
    PROVE  C!Recognise(h) \/ C!Refuse(h)
<1> DEFINE e == op[h].env
           now == op[h].now
<1>1. /\ ~Insertable(e, now)
      /\ op[h].kind = "send"
      /\ UNCHANGED <<clock, messages, issued>>
  BY DEF SendRollback, HoldsLock
<1>2. /\ conn[h].kind = "send" /\ conn[h] # NoConn
      /\ Close(h) /\ UNCHANGED inbox
      /\ Hears(h, [env |-> e, verdict |-> Verdict(e, now)])
  BY DEF SendAnswer, NoConn
<1>3. Calls[h].kind = "send" /\ Calls[h].env = e
  BY <1>1, <1>2, CallOfThread DEF Busy, BusyAt, Idle
<1>4. C!Ends(h, [env |-> e, verdict |-> Verdict(e, now)])
  BY <1>2, AnswerEnds
<1>5. e.id \in MsgId /\ UNCHANGED Mail
  BY <1>1, Answered DEF Mail
<1>6. CASE Verdict(e, now) = "refused"
  <2>1. Mail[e.id] = C!Nowhere \/ Mail[e.id].env # e
    <3>1. CASE messages[e.id] = NoRow
      BY <1>5, <3>1, MailIs DEF LetterAt, C!Nowhere
    <3>2. CASE messages[e.id] # NoRow
      <4>1. ~Admissible(e)
        BY <1>6, <3>2 DEF Verdict, AboutKnown
      <4>2. messages[e.id] \in Row /\ messages[e.id].env # e
        BY <1>5, <3>2, <4>1 DEF StoredWasAccepted, AcceptedFits, Typed, TypeOK
      <4>3. QED
        BY <1>5, <4>2, MailIs, LetterFields
    <3>3. QED
      BY <3>1, <3>2
  <2> HIDE DEF e, now
  <2>2. QED
    BY <1>1, <1>2, <1>3, <1>4, <1>5, <1>6, <2>1 DEF C!Refuse
<1>7. CASE Verdict(e, now) # "refused"
  <2>1. messages[e.id] # NoRow /\ Verdict(e, now) = AboutKnown(e)
    BY <1>1, <1>7 DEF Verdict
  <2>2. messages[e.id] \in Row
    BY <1>5, <2>1 DEF Typed, TypeOK
  <2>3. /\ Mail[e.id] # C!Nowhere
        /\ Mail[e.id].env = messages[e.id].env
    <3>1. Mail[e.id] = LetterOf(messages[e.id])
      BY <1>5, <2>1, MailIs DEF LetterAt
    <3>2. LetterOf(messages[e.id]).at # "nowhere"
      BY <2>2 DEF LetterOf
    <3>3. QED
      BY <2>2, <3>1, <3>2, LetterFields DEF C!Nowhere
  <2>4. Verdict(e, now) = IF Mail[e.id].env = e THEN "already queued" ELSE "conflict"
    BY <2>1, <2>3 DEF AboutKnown, SameContent
  <2> HIDE DEF e, now
  <2>5. QED
    BY <1>1, <1>2, <1>3, <1>4, <1>5, <2>3, <2>4 DEF C!Recognise
<1>8. QED
  BY <1>6, <1>7

\* What lease_next found and leased is what the consumer gets.
LEMMA DeliverIsSeen ==
    ASSUME Typed, Typed', OpsInv, [DeliveryNext]_deliveryVars,
           NEW h \in Handler, Deliver(h)
    PROVE  C!HandOver(h)
<1> DEFINE now == op[h].now
           table == Maintain(now)
<1>1. /\ conn[h].kind = "claim" /\ conn[h] # NoConn
      /\ LeaseGrant(h) /\ Close(h) /\ Hears(h, Nothing)
      /\ UNCHANGED clock
  <2>1. conn[h].kind = "claim" /\ LeaseGrant(h) /\ Close(h) /\ Hears(h, Nothing)
    BY DEF Deliver
  <2>2. UNCHANGED clock
    BY <2>1 DEF LeaseGrant
  <2>3. QED
    BY <2>1, <2>2 DEF NoConn
<1>2. Working(h) /\ op[h].kind = "lease" /\ op[h].peer = conn[h].peer
  BY <1>1 DEF LeaseGrant, HoldsLock, Working, Typed, Served, Idle
<1>3. PICK m \in Ready(op[h].peer, now) :
         /\ issued' = [issued EXCEPT ![m] = @ + 1]
         /\ messages' = [table EXCEPT ![m] =
               Grant(@, issued[m] + 1, now + op[h].seconds)]
  BY <1>1 DEF LeaseGrant
<1>4. /\ m \in MsgId /\ table[m] # NoRow /\ table[m].status = "pending"
      /\ table[m].env.recipient = op[h].peer /\ table[m].env.expires > now
  BY <1>3 DEF Ready, Present
<1>5. /\ messages[m] # NoRow
      /\ table[m] = MaintainRow(messages[m], now)
      /\ messages'[m] = Grant(table[m], issued[m] + 1, now + op[h].seconds)
      /\ TypeOK
  BY <1>3, <1>4 DEF Maintain, OpsInv
<1>6. /\ issued'[m] = issued[m] + 1 /\ issued[m] \in Nat
      /\ \A k \in MsgId : issued'[k] # issued[k] <=> k = m
  BY <1>3, <1>4, <1>5 DEF TypeOK
<1>7. Leased(m, h)
  <2>1. ackedWith' = ackedWith
    BY <1>1 DEF LeaseGrant
  <2>2. QED
    BY <1>2, <1>4, <1>5, <1>6, <2>1 DEF Leased
<1> DEFINE r == messages[m]
           q == messages'[m]
<1>8. /\ r \in Row /\ q \in Row /\ q.env = r.env
      /\ q.status = "leased" /\ q.lease = issued[m] + 1
      /\ q.until = now + op[h].seconds
      /\ r.env.expires > now
      /\ r.status = "pending" \/ (r.status = "leased" /\ r.until <= now)
  BY <1>4, <1>5, <1>7, LeasedFacts, RowNumbers
<1>9. r.env.recipient = conn[h].peer
  <2>1. table[m].env = r.env
    <3>1. now \in Nat
      BY <1>2, WorkingTypes DEF OpsInv
    <3>2. QED
      BY <1>4, <1>5, <3>1, MaintainType DEF Present
  <2>2. QED
    BY <1>2, <1>4, <2>1
<1>10. /\ now \in Nat /\ now <= clock /\ clock <= now + BusyTimeout /\ clock \in Nat
       /\ op[h].seconds \in Nat \ {0}
       /\ r.env.expires \in Nat /\ r.until \in Nat
  BY <1>2, <1>4, <1>5, WorkingNumbers, RowNumbers DEF TypeOK
<1>11. C!Elsewhere({m})
  <2>1. \A k \in MsgId \ {m} : messages'[k] = Maintain(now)[k]
    BY <1>3 DEF Maintain
  <2>2. QED
    BY <1>2, <2>1, OthersAge
<1>12. \A k \in MsgId :
          Mail'[k].at = "waiting" /\ Mail'[k].env.recipient = r.env.recipient
            => ~MoreUrgent(Mail'[k].env, r.env)
  <2> SUFFICES ASSUME NEW k \in MsgId, Mail'[k].at = "waiting",
                      Mail'[k].env.recipient = r.env.recipient
               PROVE  ~MoreUrgent(Mail'[k].env, r.env)
    OBVIOUS
  <2>1. /\ k \in Present(messages') /\ messages'[k].status = "pending"
        /\ messages'[k].env = Mail'[k].env
    BY WaitingRow DEF Typed
  <2>2. [Next]_vars /\ issued'[m] # issued[m] /\ q.env = r.env
    BY <1>6, <1>8, StoreStep
  <2> HIDE DEF r
  <2>3. QED
    BY <1>4, <1>5, <2>1, <2>2, GrantInOrder
<1>13. /\ Mail[m] = LetterAt(r) /\ Mail'[m] = LetterAt(q)
  BY <1>4, MailIs
<1>14. /\ Mail[m].env = r.env
       /\ Mail[m].at = "waiting" \/ C!Overdue(Mail[m])
  <2>1. Mail[m] = C!Waiting(r.env) \/
        (Mail[m] = C!Held(r.env, r.lease, r.until) /\ r.until <= now)
    BY <1>8, <1>13, LetterFields
  <2> HIDE DEF r
  <2>2. QED
    BY <1>10, <2>1 DEF C!Waiting, C!Held, C!Overdue
<1>15. /\ Mail'[m] = C!Held(r.env, issued[m] + 1, Mail'[m].until)
       /\ Mail'[m].at = "held"
       /\ Mail'[m].until > clock - BusyTimeout
  <2>1. Mail'[m] = C!Held(r.env, issued[m] + 1, q.until)
    BY <1>8, <1>13, LetterFields
  <2>2. q.until > clock - BusyTimeout
    BY <1>8, <1>10, TimeAssumption
  <2> HIDE DEF r, q
  <2>3. QED
    BY <2>1, <2>2 DEF C!Held
<1>16. C!InTime(r.env)
  BY <1>8, <1>10, TimeAssumption DEF C!InTime
<1>17. /\ Calls[h].kind = "claim"
       /\ Calls[h].open = conn[h].open /\ Calls[h].peer = conn[h].peer
  BY <1>1, CallOfThread
<1>18. C!Ends(h, C!Silence)
  <2>1. Nothing = C!Silence
    BY DEF Nothing, C!Silence
  <2>2. QED
    BY <1>1, <2>1, AnswerEnds
<1>19. inbox' = IF Calls[h].open
                THEN inbox \cup {[peer |-> Calls[h].peer, id |-> m,
                                  lease |-> issued[m] + 1]}
                ELSE inbox
  <2>1. {k \in MsgId : issued'[k] # issued[k]} = {m}
    BY <1>4, <1>6
  <2>2. {[peer |-> conn[h].peer, id |-> k, lease |-> issued'[k]] :
           k \in {j \in MsgId : issued'[j] # issued[j]}}
        = {[peer |-> conn[h].peer, id |-> m, lease |-> issued[m] + 1]}
    BY <1>6, <2>1
  <2>3. QED
    BY <1>17, <2>2 DEF Deliver
<1>20. r.env.recipient = Calls[h].peer
  BY <1>9, <1>17
<1> HIDE DEF r, q, now, table
<1>21. QED
  BY <1>1, <1>3, <1>4, <1>11, <1>12, <1>14, <1>15, <1>16, <1>17, <1>18, <1>19, <1>20
  DEF C!HandOver

\* A consumer that is answered is told what is true of its letter.
LEMMA AckIsSeen ==
    ASSUME Typed, HoldersReceive,
           NEW h \in Handler, NEW r \in inbox, Ack(h, r)
    PROVE  C!Ack(h, r)
<1> DEFINE m == r.id
           row == messages[m]
<1>1. m \in MsgId /\ TypeOK
  BY DEF Typed, ReceiptsIssued
<1>2. Calls[h] = C!NoCall /\ UNCHANGED <<clock, issued, Calls, inbox>>
  <2>1. conn[h] = NoConn /\ UNCHANGED <<conn, inbox>>
    BY DEF Ack
  <2>2. UNCHANGED <<clock, issued>>
    BY DEF Ack, Settles, Refuses, Acknowledge, vars
  <2>3. QED
    BY <2>1, <2>2, CallOfThread DEF Calls
<1>3. C!Holds(r) <=> row # NoRow /\ row.status = "leased" /\ row.lease = r.lease
  <2>1. Mail[m] = LetterAt(row)
    BY <1>1, MailIs
  <2>2. CASE row = NoRow
    BY <2>1, <2>2 DEF LetterAt, C!Holds
  <2>3. CASE row # NoRow
    <3>1. row \in Row
      BY <1>1, <2>3 DEF TypeOK
    <3> HIDE DEF row
    <3>2. QED
      BY <2>1, <2>3, <3>1, LetterFields
      DEF C!Holds, C!Waiting, C!Held, C!Closed, Row, Status
  <2>4. QED
    BY <2>2, <2>3
<1>4. ASSUME Settles(r)
      PROVE  /\ C!Holds(r)
             /\ Mail[m].env.recipient = r.peer
             /\ Mail' = [Mail EXCEPT ![m] = C!Closed(Mail[m].env)]
  <2>1. row # NoRow /\ HoldsLease(row, r.peer, r.lease) /\ row \in Row
    BY <1>1, <1>4 DEF Settles, Acknowledge, TypeOK
  <2>2. Mail[m].env = row.env
    BY <1>1, <2>1, MailIs, LetterFields
  <2>3. Acked(m)
    BY <1>1, <1>4, <2>1 DEF Settles, Acknowledge, HoldsLease, Acked, TypeOK
  <2>4. Mail'[m] = C!Closed(row.env)
    BY <1>1, <2>1, <2>3, AckedFacts, MailIs, LetterFields
  <2>5. \A k \in MsgId \ {m} : Mail'[k] = Mail[k]
    <3>1. \A k \in MsgId \ {m} : messages'[k] = messages[k]
      BY <1>1, <1>4 DEF Settles, Acknowledge, TypeOK
    <3>2. QED
      BY <3>1, MailIs
  <2>6. Mail' = [Mail EXCEPT ![m] = C!Closed(row.env)]
    BY <1>1, <2>4, <2>5, MailIs
  <2>7. QED
    BY <1>3, <2>1, <2>2, <2>6 DEF HoldsLease
<1>5. ASSUME Refuses(r)
      PROVE  ~C!Holds(r)
  BY <1>3, <1>5 DEF Refuses, HoldsLease, HoldersReceive
<1>6. ASSUME UNCHANGED vars
      PROVE  UNCHANGED Mail
  BY <1>6 DEF vars, Mail
<1>7. Nothing = C!Silence
  BY DEF Nothing, C!Silence
<1>8. C!Settle(h, r) \/ C!Conflict(h, r) \/ (UNCHANGED Mail /\ C!Hears(h, C!Silence))
  <2>1. CASE \E answer \in {Nothing, [by |-> r, verdict |-> "acknowledged"]} :
                Settles(r) /\ told' = [told EXCEPT ![h] = answer]
    BY <1>4, <1>7, <2>1 DEF C!Settle, C!Hears
  <2>2. CASE Refuses(r) /\ told' = [told EXCEPT ![h] =
                                      [by |-> r, verdict |-> "lease conflict"]]
    BY <1>5, <1>6, <2>2 DEF C!Conflict, C!Hears, Refuses
  <2>3. CASE UNCHANGED vars /\ told' = [told EXCEPT ![h] = Nothing]
    BY <1>6, <1>7, <2>3 DEF C!Hears
  <2>4. QED
    BY <2>1, <2>2, <2>3 DEF Ack
<1>9. QED
  BY <1>2, <1>8 DEF C!Ack

----------------------------------------------------------------------------
(* Together.                                                               *)

\* Every step of the hub and its clients is one step of Courier, or none.
LEMMA StepIsSeen ==
    ASSUME Typed, Typed', OpsInv, StoredWasAccepted, AcceptedFits,
           AcceptedWereSent, Busy, LineWaits, HoldersReceive, [DeliveryNext]_deliveryVars
    PROVE  [C!Next]_(C!vars)
<1>1. CASE HubCrash
  BY <1>1, CrashIsSeen DEF C!Next
<1>2. CASE Elsewhere
  BY <1>2, ElsewhereIsSeen DEF C!Next
<1>3. ASSUME NEW h \in Handler, Request(h)
      PROVE  C!Next
  <2>1. ASSUME NEW d \in Draft, CommandSend(h, d)
        PROVE  C!Ask(h)
    <3>1. clock \in 0 .. MaxClock
      BY TimeAssumption DEF Typed, TypeOK
    <3>2. Stamped(d, clock) \in Envelope
      BY <3>1, DraftAssumption
    <3>3. QED
      BY <2>1, <3>2, SubmitIsSeen DEF CommandSend
  <2>2. ASSUME Resend(h)
        PROVE  C!Ask(h)
    BY <2>2, SubmitIsSeen DEF Resend, Typed, TypeOK
  <2>3. QED
    BY <1>3, <2>1, <2>2, ClaimIsSeen, AckIsSeen DEF Request, C!Next
<1>4. ASSUME NEW h \in Handler, Serve(h)
      PROVE  C!Next \/ UNCHANGED C!vars
  <2>1. CASE SendAnswer(h)
    BY <2>1, AcceptIsSeen, RollbackIsSeen DEF SendAnswer, C!Next
  <2>2. CASE Look(h) \/ Begin(h)
    BY <2>2, ReadingIsHidden
  <2>3. CASE Deliver(h)
    BY <2>3, DeliverIsSeen DEF C!Next
  <2>4. CASE LookAgain(h)
    BY <2>4, LookAgainIsSeen DEF C!Next
  <2>5. CASE AnswerEmpty(h)
    BY <2>5, AnswerEmptyIsSeen DEF C!Next
  <2>6. CASE NoAnswer(h)
    BY <2>6, NoAnswerIsSeen DEF C!Next
  <2>7. CASE RefuseUntimely(h)
    BY <2>7, UntimelyIsSeen DEF C!Next
  <2>8. QED
    BY <1>4, <2>1, <2>2, <2>3, <2>4, <2>5, <2>6, <2>7 DEF Serve
<1>5. ASSUME NEW h \in Handler, HangUp(h)
      PROVE  C!Next
  BY <1>5, HangUpIsSeen DEF C!Next
<1>6. CASE UNCHANGED deliveryVars
  BY <1>6 DEF deliveryVars, vars, C!vars, Mail, Calls
<1>7. QED
  BY <1>1, <1>2, <1>3, <1>4, <1>5, <1>6 DEF DeliveryNext

\* The hub and its clients implement Courier: although requests wait for the
\* database with old clocks, look again, are rolled back or lose their clients,
\* every answer is the one that an atomic table of letters gives at one instant
\* of the call.
THEOREM ClientsSeeACourier == DeliverySpec => SeenAsCourier
<1>1. DeliveryInit => C!Init
  BY DEF DeliveryInit, Init, C!Init, Mail, Calls, C!Nowhere, C!NoCall, NoConn,
     C!Silence, Nothing
<1>2. QED
  BY <1>1, StepIsSeen, TypedInvariant, ClientsUseTheStore, OpsInvariant,
     StoredInvariant, AcceptedStaysFit, AcceptedStaySent, BusyInvariant, LinesWait,
     HoldersAreRecipients, PTL
  DEF DeliverySpec, SeenAsCourier, C!Spec
=============================================================================
