--------------------------- MODULE DeliveryProofs ---------------------------
(***************************************************************************)
(* What clients hear is true, for every value of the constants.  Delivery  *)
(* is MessageStore under its clients (StoreStep), so every property of the *)
(* store holds of it; the rest relates a connection to the operation that  *)
(* runs for it (Served) and to what waits for its claim (LineWaits).       *)
(***************************************************************************)
EXTENDS Delivery, MessageStoreSafety

----------------------------------------------------------------------------
(* Types.                                                                  *)

Conn == {NoConn} \cup SendConn \cup ClaimConn

Answer == {Nothing} \cup SendAnswers \cup EmptyAnswers \cup AckAnswers

\* What clients hold are leases that were issued.
ReceiptsIssued ==
    \A r \in inbox : /\ r.peer \in Peer
                     /\ r.id \in MsgId
                     /\ r.lease \in 1 .. issued[r.id]

\* A claim runs lease_next for its peer and nothing else.
Served ==
    \A h \in Handler :
        conn[h].kind = "claim" =>
            \/ op[h] = Idle
            \/ op[h].kind = "lease" /\ op[h].peer = conn[h].peer

Typed ==
    /\ TypeOK
    /\ clock <= MaxClock
    /\ conn \in [Handler -> Conn]
    /\ inbox \subseteq Receipt
    /\ ReceiptsIssued
    /\ Served

\* A connection has the fields of what it is for.
LEMMA ConnTypes ==
    ASSUME Typed, NEW h \in Handler
    PROVE  /\ conn[h] # NoConn => conn[h].open \in BOOLEAN
           /\ conn[h].kind = "send" => conn[h] \in SendConn
           /\ conn[h].kind = "claim" =>
                /\ conn[h] \in ClaimConn
                /\ conn[h].peer \in Peer
                /\ conn[h].seconds \in LeaseTimes
                /\ conn[h].deadline \in Nat
<1>1. conn[h] \in {NoConn} \cup SendConn \cup ClaimConn
  BY DEF Typed, Conn
<1>2. QED
  BY <1>1 DEF NoConn, SendConn, ClaimConn

----------------------------------------------------------------------------
(* Every step of a client is a step of the store, or none.                 *)

LEMMA StoreStep ==
    ASSUME Typed, [DeliveryNext]_deliveryVars
    PROVE  [Next]_vars
<1>1. CASE HubCrash
  BY <1>1 DEF HubCrash, Next
<1>2. CASE Elsewhere
  BY <1>2 DEF Elsewhere, Next
<1>3. ASSUME NEW h \in Handler, NEW e, Submit(h, e)
      PROVE  [Next]_vars
  BY <1>3 DEF Submit
<1>4. ASSUME NEW h \in Handler, NEW d \in Draft, CommandSend(h, d)
      PROVE  [Next]_vars
  BY <1>3, <1>4 DEF CommandSend
<1>5. ASSUME NEW h \in Handler, Resend(h) \/ RefuseUntimely(h)
      PROVE  [Next]_vars
  BY <1>3, <1>5 DEF Resend, RefuseUntimely
<1>6. ASSUME NEW h \in Handler, NEW p \in Peer, NEW s \in LeaseTimes,
             NEW w \in WaitTimes, Claim(h, p, s, w)
      PROVE  [Next]_vars
  BY <1>6 DEF Claim
<1>7. ASSUME NEW h \in Handler, HangUp(h)
      PROVE  [Next]_vars
  BY <1>7 DEF HangUp
<1>8. ASSUME NEW h \in Handler, Look(h) \/ Begin(h)
      PROVE  [Next]_vars
  BY <1>8, ConnTypes DEF Look, Begin, SendConn, Next, Poll
<1>9. ASSUME NEW h \in Handler,
             \/ SendAnswer(h) \/ Deliver(h) \/ LookAgain(h) \/ AnswerEmpty(h)
             \/ NoAnswer(h)
      PROVE  [Next]_vars
  BY <1>9 DEF SendAnswer, Deliver, LookAgain, AnswerEmpty, FoundNothing, NoAnswer,
     Next, Run
<1>10. ASSUME NEW h \in Handler, NEW r \in inbox, Ack(h, r)
       PROVE  [Next]_vars
  BY <1>10 DEF Ack, Settles, Refuses, Next, Typed, ReceiptsIssued
<1>11. CASE UNCHANGED deliveryVars
  BY <1>11 DEF deliveryVars
<1>12. QED
  BY <1>1, <1>2, <1>4, <1>5, <1>6, <1>7, <1>8, <1>9, <1>10, <1>11
  DEF DeliveryNext, Request, Serve

\* Lease ids are drawn, never taken back.
LEMMA IssuedGrows ==
    ASSUME TypeOK, [Next]_vars, NEW m \in MsgId
    PROVE  issued[m] \in Nat /\ issued'[m] \in Nat /\ issued'[m] >= issued[m]
<1>1. issued'[m] = issued[m] \/ issued'[m] = issued[m] + 1
  BY RowStep DEF Kept, Unmoved, Maintained, Inserted, Leased, Acked
<1>2. issued[m] \in Nat
  BY DEF TypeOK
<1>3. QED
  BY <1>1, <1>2

\* The bound of the clock is kept, and no step takes a lease back.
LEMMA StoreKept ==
    ASSUME Typed, [DeliveryNext]_deliveryVars
    PROVE  /\ TypeOK'
           /\ clock' <= MaxClock
           /\ \A r \in inbox : /\ r.peer \in Peer
                              /\ r.id \in MsgId
                              /\ r.lease \in 1 .. issued'[r.id]
<1>1. [Next]_vars
  BY StoreStep
<1>2. TypeOK /\ clock <= MaxClock
  BY DEF Typed
<1>3. TypeOK'
  BY <1>1, <1>2, NextType
<1>4. clock' = clock \/ (clock < MaxClock /\ clock' = clock + 1)
  BY <1>1 DEF Next, Run, Poll, vars, Tick, Crash, Boot, RegisterPeer, SendStart,
     LeaseStart, StatusStart, SendRollback, GiveUp, SendAccept, LeaseGrant,
     LeaseNone, StatusRun, Acknowledge
<1>5. clock' <= MaxClock
  BY <1>2, <1>4, TimeAssumption DEF TypeOK
<1>6. ASSUME NEW r \in inbox
      PROVE  r.peer \in Peer /\ r.id \in MsgId /\ r.lease \in 1 .. issued'[r.id]
  <2>1. r.peer \in Peer /\ r.id \in MsgId /\ r.lease \in 1 .. issued[r.id]
    BY DEF Typed, ReceiptsIssued
  <2>2. /\ issued[r.id] \in Nat /\ issued'[r.id] \in Nat
        /\ issued'[r.id] >= issued[r.id]
    BY <1>1, <1>2, <2>1, IssuedGrows
  <2>3. QED
    BY <2>1, <2>2
<1>7. QED
  BY <1>3, <1>5, <1>6

\* Typed is an inductive invariant: InitTyped and NextTyped.
LEMMA InitTyped == DeliveryInit => Typed
<1> SUFFICES ASSUME DeliveryInit
             PROVE  Typed
  OBVIOUS
<1>1. TypeOK
  BY InitType DEF DeliveryInit
<1>2. clock <= MaxClock
  BY TimeAssumption DEF DeliveryInit, Init
<1>3. conn \in [Handler -> Conn]
  BY DEF DeliveryInit, Conn
<1>4. QED
  BY <1>1, <1>2, <1>3 DEF DeliveryInit, Typed, ReceiptsIssued, Served, NoConn

LEMMA NextTyped == Typed /\ [DeliveryNext]_deliveryVars => Typed'
<1> SUFFICES ASSUME Typed, [DeliveryNext]_deliveryVars
             PROVE  Typed'
  OBVIOUS
<1> DEFINE Rest == /\ conn' \in [Handler -> Conn]
                   /\ inbox' \subseteq Receipt
                   /\ ReceiptsIssued'
                   /\ Served'
<1>0. /\ conn \in [Handler -> Conn]
      /\ op \in [Handler -> {Idle} \cup SendOp \cup LeaseOp \cup StatusOp]
      /\ inbox \subseteq Receipt
      /\ Served
  BY DEF Typed, TypeOK
<1>1. ASSUME inbox' = inbox
      PROVE  inbox' \subseteq Receipt /\ ReceiptsIssued'
  BY <1>0, <1>1, StoreKept DEF ReceiptsIssued
<1>2. ASSUME NEW h \in Handler, Close(h), op' = [op EXCEPT ![h] = Idle]
      PROVE  conn' \in [Handler -> Conn] /\ Served'
  <2>1. conn' \in [Handler -> Conn] /\ conn' = [conn EXCEPT ![h] = NoConn]
    BY <1>0, <1>2 DEF Close, Conn
  <2>2. Served'
    BY <1>0, <1>2, <2>1 DEF Served, NoConn
  <2>3. QED
    BY <2>1, <2>2
<1>3. ASSUME HubCrash
      PROVE  Rest
  BY <1>0, <1>1, <1>3 DEF HubCrash, Crash, Conn, Served, NoConn
<1>4. ASSUME Elsewhere
      PROVE  Rest
  BY <1>0, <1>1, <1>4 DEF Elsewhere, Tick, Boot, RegisterPeer, Served
<1>5. ASSUME NEW h \in Handler, NEW e \in Envelope, Submit(h, e)
      PROVE  Rest
  <2> DEFINE c == [kind |-> "send", env |-> e, open |-> TRUE]
  <2>1. c \in Conn /\ c.kind = "send"
    BY DEF Conn, SendConn
  <2>2. conn' = [conn EXCEPT ![h] = c] /\ inbox' = inbox
    BY <1>5 DEF Submit
  <2>3. op' = op
    BY <1>5 DEF Submit, vars
  <2> HIDE DEF c
  <2>4. conn' \in [Handler -> Conn]
    BY <1>0, <2>1, <2>2
  <2>5. Served'
    BY <1>0, <2>1, <2>2, <2>3 DEF Served
  <2>6. QED
    BY <1>1, <2>2, <2>4, <2>5
<1>6. ASSUME NEW h \in Handler, \E d \in Draft : CommandSend(h, d)
      PROVE  Rest
  <2>1. PICK d \in Draft : CommandSend(h, d)
    BY <1>6
  <2>2. clock \in 0 .. MaxClock
    BY TimeAssumption DEF Typed, TypeOK
  <2>3. Stamped(d, clock) \in Envelope
    BY <2>2, DraftAssumption
  <2>4. QED
    BY <1>5, <2>1, <2>3 DEF CommandSend
<1>7. ASSUME NEW h \in Handler, Resend(h)
      PROVE  Rest
  BY <1>5, <1>7 DEF Resend, Typed, TypeOK
<1>8. ASSUME NEW h \in Handler, NEW p \in Peer, NEW s \in LeaseTimes,
             NEW w \in WaitTimes, Claim(h, p, s, w)
      PROVE  Rest
  <2> DEFINE c == [kind |-> "claim", peer |-> p, seconds |-> s,
                   deadline |-> clock + w, open |-> TRUE]
  <2>1. c \in Conn
    <3>1. clock + w \in Nat
      BY WaitAssumption DEF Typed, TypeOK
    <3>2. QED
      BY <3>1 DEF Conn, ClaimConn
  <2>2. conn' = [conn EXCEPT ![h] = c] /\ inbox' = inbox /\ op' = op /\ op[h] = Idle
    BY <1>8 DEF Claim, vars
  <2> HIDE DEF c
  <2>3. QED
    BY <1>0, <1>1, <2>1, <2>2 DEF Served
<1>9. ASSUME NEW h \in Handler, HangUp(h)
      PROVE  Rest
  <2> DEFINE c == [conn[h] EXCEPT !.open = FALSE]
  <2>1. conn[h] # NoConn /\ conn[h] \in Conn
    BY <1>0, <1>9 DEF HangUp
  <2>2. c \in Conn /\ c.kind = conn[h].kind
        /\ (conn[h].kind = "claim" => c.peer = conn[h].peer)
    BY <2>1 DEF Conn, SendConn, ClaimConn
  <2>3. conn' = [conn EXCEPT ![h] = c] /\ inbox' = inbox /\ op' = op
    BY <1>0, <1>9 DEF HangUp, vars
  <2> HIDE DEF c
  <2>4. QED
    BY <1>0, <1>1, <2>2, <2>3 DEF Served
<1>10. ASSUME NEW h \in Handler, Look(h)
       PROVE  Rest
  <2>1. /\ op' = [op EXCEPT ![h] = [kind |-> "lease", peer |-> conn[h].peer,
                                    seconds |-> conn[h].seconds, now |-> clock]]
        /\ conn' = conn
        /\ inbox' = inbox
    BY <1>10 DEF Look, LeaseStart
  <2>2. QED
    BY <1>0, <1>1, <2>1 DEF Served
<1>11. ASSUME NEW h \in Handler, SendAnswer(h) \/ AnswerEmpty(h) \/ NoAnswer(h)
       PROVE  Rest
  <2>1. Close(h) /\ op' = [op EXCEPT ![h] = Idle] /\ inbox' = inbox
    BY <1>11 DEF SendAnswer, AnswerEmpty, NoAnswer, FoundNothing, SendAccept,
       SendRollback, LeaseNone, GiveUp
  <2>2. QED
    BY <1>1, <1>2, <2>1
<1>12. ASSUME NEW h \in Handler, Deliver(h)
       PROVE  Rest
  <2> DEFINE got == {[peer |-> conn[h].peer, id |-> m, lease |-> issued'[m]] :
                       m \in {k \in MsgId : issued'[k] # issued[k]}}
  <2>1. inbox' \subseteq inbox \cup got
    BY <1>12 DEF Deliver
  <2>2. conn[h].peer \in Peer
    BY <1>12, ConnTypes DEF Deliver
  <2>3. \A m \in MsgId : /\ issued[m] \in Nat /\ issued'[m] \in Nat
                         /\ issued'[m] >= issued[m]
    BY StoreStep, IssuedGrows DEF Typed
  <2>4. \A r \in got : /\ r \in Receipt
                       /\ r.peer \in Peer /\ r.id \in MsgId
                       /\ r.lease \in 1 .. issued'[r.id]
    BY <2>2, <2>3 DEF Receipt
  <2>5. Close(h) /\ op' = [op EXCEPT ![h] = Idle]
    BY <1>12 DEF Deliver, LeaseGrant
  <2> HIDE DEF got
  <2>6. inbox' \subseteq Receipt /\ ReceiptsIssued'
    BY <1>0, <2>1, <2>4, StoreKept DEF ReceiptsIssued
  <2>7. QED
    BY <1>2, <2>5, <2>6
<1>13. ASSUME NEW h \in Handler, LookAgain(h)
       PROVE  Rest
  <2> DEFINE c == [conn[h] EXCEPT !.deadline = Deadline(h)]
  <2>1. conn[h] \in ClaimConn /\ Deadline(h) \in Nat
    BY <1>13, ConnTypes DEF LookAgain, Deadline
  <2>2. c \in Conn /\ c.kind = conn[h].kind /\ c.peer = conn[h].peer
    BY <2>1 DEF Conn, ClaimConn
  <2>3. conn' = [conn EXCEPT ![h] = c] /\ inbox' = inbox
    BY <1>0, <1>13 DEF LookAgain
  <2>4. op' = [op EXCEPT ![h] = Idle]
    BY <1>13 DEF LookAgain, LeaseNone
  <2> HIDE DEF c
  <2>5. QED
    BY <1>0, <1>1, <2>2, <2>3, <2>4 DEF Served
<1>14. ASSUME NEW h \in Handler, NEW r \in inbox, Ack(h, r)
       PROVE  Rest
  <2>1. UNCHANGED <<conn, inbox>> /\ op' = op
    BY <1>14 DEF Ack, Settles, Refuses, Acknowledge, vars
  <2>2. QED
    BY <1>0, <1>1, <2>1 DEF Served
<1>15. ASSUME UNCHANGED deliveryVars
       PROVE  Rest
  BY <1>0, <1>1, <1>15 DEF deliveryVars, vars, Served
<1>16. ASSUME NEW h \in Handler, Begin(h)
       PROVE  Rest
  <2>1. /\ conn[h].kind = "send"
        /\ \A k \in Handler \ {h} : op'[k] = op[k]
        /\ conn' = conn
        /\ inbox' = inbox
    BY <1>0, <1>16 DEF Begin, SendStart
  <2>2. QED
    BY <1>0, <1>1, <2>1 DEF Served
<1>17. ASSUME NEW h \in Handler, RefuseUntimely(h)
       PROVE  Rest
  <2>1. Close(h) /\ op' = op /\ op[h] = Idle /\ inbox' = inbox
    BY <1>17 DEF RefuseUntimely, vars
  <2>2. op' = [op EXCEPT ![h] = Idle]
    BY <1>0, <2>1
  <2>3. QED
    BY <1>1, <1>2, <2>1, <2>2
<1> HIDE DEF Rest
<1>18. Rest
  BY <1>3, <1>4, <1>6, <1>7, <1>8, <1>9, <1>10, <1>11, <1>12, <1>13, <1>14, <1>15,
     <1>16, <1>17
  DEF DeliveryNext, Request, Serve
<1>19. QED
  BY <1>18, StoreKept DEF Typed, Rest

\* Typed holds in every reachable state.
LEMMA TypedInvariant == DeliverySpec => []Typed
BY InitTyped, NextTyped, PTL DEF DeliverySpec

\* Whatever its clients do, the hub does what the store alone may do: every
\* property proved of MessageStore holds of Delivery.
THEOREM ClientsUseTheStore == DeliverySpec => Spec
<1>1. DeliveryInit => Init
  BY DEF DeliveryInit
<1>2. Typed /\ [DeliveryNext]_deliveryVars => [Next]_vars
  BY StoreStep
<1>3. QED
  BY <1>1, <1>2, TypedInvariant, PTL DEF DeliverySpec, Spec

----------------------------------------------------------------------------
(* What was told.                                                          *)

\* A step tells nothing new, or tells h what an answer to a submission, AnswerEmpty
\* or Ack do.
ToldStep(h) ==
    \/ told'[h] \in {told[h], Nothing}
    \/ /\ RefuseUntimely(h)
       /\ told'[h] = [env |-> conn[h].env, verdict |-> "refused"]
    \/ /\ SendAnswer(h)
       /\ told'[h] = [env |-> op[h].env, verdict |-> Verdict(op[h].env, op[h].now)]
    \/ /\ AnswerEmpty(h)
       /\ told'[h] = [verdict |-> "empty",
                      waited |-> {m \in line[h] : messages'[m] = messages[m]}]
    \/ \E r \in inbox :
          \/ Settles(r) /\ told'[h] = [by |-> r, verdict |-> "acknowledged"]
          \/ Refuses(r) /\ told'[h] = [by |-> r, verdict |-> "lease conflict"]

\* Every step of Delivery is a ToldStep for every thread.
LEMMA Telling ==
    ASSUME told \in [Handler -> Answer], [DeliveryNext]_deliveryVars
    PROVE  /\ told' = [h \in Handler |-> told'[h]]
           /\ \A h \in Handler : ToldStep(h)
<1> DEFINE Goal == /\ told' = [h \in Handler |-> told'[h]]
                   /\ \A h \in Handler : ToldStep(h)
<1>1. ASSUME told' = told
      PROVE  Goal
  BY <1>1 DEF ToldStep
<1>2. ASSUME NEW h \in Handler, told' = [told EXCEPT ![h] = Nothing]
      PROVE  Goal
  BY <1>2 DEF ToldStep
<1>3. ASSUME NEW h \in Handler, Hears(h, Nothing)
      PROVE  Goal
  BY <1>2, <1>3 DEF Hears
<1>4. ASSUME NEW h \in Handler, SendAnswer(h)
      PROVE  Goal
  BY <1>4 DEF SendAnswer, Hears, ToldStep
<1>5. ASSUME NEW h \in Handler, AnswerEmpty(h)
      PROVE  Goal
  BY <1>5 DEF AnswerEmpty, Hears, ToldStep
<1>6. ASSUME NEW h \in Handler, RefuseUntimely(h)
      PROVE  Goal
  BY <1>6 DEF RefuseUntimely, Hears, ToldStep
<1>7. ASSUME NEW h \in Handler, NEW r \in inbox, Ack(h, r)
      PROVE  Goal
  <2>1. /\ told' = [told EXCEPT ![h] = told'[h]]
        /\ \/ told'[h] = Nothing
           \/ Settles(r) /\ told'[h] = [by |-> r, verdict |-> "acknowledged"]
           \/ Refuses(r) /\ told'[h] = [by |-> r, verdict |-> "lease conflict"]
    BY <1>7 DEF Ack
  <2>2. \A k \in Handler \ {h} : told'[k] = told[k]
    BY <2>1
  <2>3. \A k \in Handler : ToldStep(k)
    BY <2>1, <2>2 DEF ToldStep
  <2>4. QED
    BY <2>1, <2>3
<1> HIDE DEF Goal
<1>8. CASE \E h \in Handler : SendAnswer(h) \/ AnswerEmpty(h) \/ RefuseUntimely(h)
  BY <1>4, <1>5, <1>6, <1>8 DEF Goal
<1>9. CASE \E h \in Handler : Deliver(h) \/ NoAnswer(h)
  BY <1>3, <1>9 DEF Deliver, NoAnswer, Goal
<1>10. CASE \E h \in Handler : Request(h)
  BY <1>2, <1>7, <1>10 DEF Request, CommandSend, Resend, Submit, Claim, Goal
<1>11. CASE \/ HubCrash \/ Elsewhere \/ UNCHANGED deliveryVars
           \/ \E h \in Handler : HangUp(h) \/ Begin(h) \/ Look(h) \/ LookAgain(h)
  BY <1>1, <1>11 DEF HubCrash, Elsewhere, HangUp, Begin, Look, LookAgain,
     deliveryVars, Goal
<1>12. QED
  BY <1>8, <1>9, <1>10, <1>11 DEF DeliveryNext, Serve, Goal

\* The fields of what was heard.
LEMMA Heard ==
    ASSUME NEW h \in Handler, NEW e, NEW v, told'[h] = [env |-> e, verdict |-> v]
    PROVE  told'[h].env = e /\ told'[h].verdict = v
OBVIOUS

LEMMA HeardEmpty ==
    ASSUME NEW h \in Handler, NEW w, told'[h] = [verdict |-> "empty", waited |-> w]
    PROVE  told'[h].verdict = "empty" /\ told'[h].waited = w
OBVIOUS

LEMMA HeardAck ==
    ASSUME NEW h \in Handler, NEW r, NEW v, told'[h] = [by |-> r, verdict |-> v]
    PROVE  told'[h].by = r /\ told'[h].verdict = v
OBVIOUS

LEMMA NothingHeard == Nothing.verdict = "none"
BY DEF Nothing

\* The envelope of a submission that has the lock.
LEMMA Answered ==
    ASSUME Typed, NEW h \in Handler, SendAnswer(h)
    PROVE  /\ op[h].env \in Envelope
           /\ op[h].env.id \in MsgId
           /\ \/ SendAccept(h)
              \/ SendRollback(h) /\ ~Insertable(op[h].env, op[h].now)
<1>1. op[h].kind = "send" /\ (SendAccept(h) \/ SendRollback(h))
  BY DEF SendAnswer, SendAccept, SendRollback, HoldsLock
<1>2. op[h].env \in Envelope
  BY <1>1, OpTypes DEF Typed
<1>3. QED
  BY <1>1, <1>2, EnvelopeAssumption DEF SendRollback, EnvelopeShape

----------------------------------------------------------------------------
(* Types of the history and of the answers.                                *)

History ==
    /\ line \in [Handler -> SUBSET MsgId]
    /\ told \in [Handler -> Answer]

\* Follow keeps in a claim's line what waits for it, and nothing else.
LEMMA LineStep ==
    ASSUME Typed', Follow
    PROVE  /\ line' \in [Handler -> SUBSET MsgId]
           /\ \A h \in Handler :
                conn'[h].kind = "claim" => line'[h] \subseteq Waiting'[conn'[h].peer]
<1>1. ASSUME NEW p \in Peer
      PROVE  Waiting'[p] \subseteq MsgId
  BY DEF Waiting, Present
<1>2. ASSUME NEW h \in Handler, conn'[h].kind = "claim"
      PROVE  conn'[h].peer \in Peer
  BY <1>2 DEF Typed, Conn, NoConn, SendConn, ClaimConn
<1>3. line' = [h \in Handler |-> line'[h]]
  BY DEF Follow
<1>4. ASSUME NEW h \in Handler
      PROVE  /\ line'[h] \subseteq MsgId
             /\ conn'[h].kind = "claim" => line'[h] \subseteq Waiting'[conn'[h].peer]
  <2>1. CASE conn'[h].kind # "claim"
    BY <2>1 DEF Follow
  <2>2. CASE conn'[h].kind = "claim"
    <3>1. line'[h] \subseteq Waiting'[conn'[h].peer]
      BY <2>2 DEF Follow
    <3>2. QED
      BY <1>1, <1>2, <2>2, <3>1
  <2>3. QED
    BY <2>1, <2>2
<1>5. QED
  BY <1>3, <1>4

LEMMA HistoryInvariant == DeliverySpec => []History
<1>1. DeliveryInit => History
  BY DEF DeliveryInit, History, Answer
<1>2. ASSUME Typed, Typed', History, [DeliveryNext]_deliveryVars
      PROVE  History'
  <2>1. line' \in [Handler -> SUBSET MsgId]
    BY <1>2, LineStep DEF History, DeliveryNext, deliveryVars
  <2>2. ASSUME NEW h \in Handler
        PROVE  told'[h] \in Answer
    <3>1. ToldStep(h) /\ told[h] \in Answer
      BY <1>2, Telling DEF History
    <3>2. ASSUME SendAnswer(h)
          PROVE  [env |-> op[h].env, verdict |-> Verdict(op[h].env, op[h].now)]
                   \in Answer
      <4>1. Verdict(op[h].env, op[h].now) \in
              {"queued", "already queued", "conflict", "refused"}
        BY DEF Verdict, AboutKnown
      <4>2. op[h].env \in Envelope
        BY <1>2, <3>2, Answered
      <4>3. QED
        BY <4>1, <4>2 DEF Answer, SendAnswers
    <3>3. [verdict |-> "empty", waited |-> {m \in line[h] : messages'[m] = messages[m]}]
            \in Answer
      BY <1>2 DEF History, Answer, EmptyAnswers
    <3>4. \A r \in inbox : /\ [by |-> r, verdict |-> "acknowledged"] \in Answer
                           /\ [by |-> r, verdict |-> "lease conflict"] \in Answer
      BY <1>2 DEF Typed, Answer, AckAnswers
    <3>5. ASSUME RefuseUntimely(h)
          PROVE  [env |-> conn[h].env, verdict |-> "refused"] \in Answer
      <4>1. conn[h].env \in Envelope
        BY <1>2, <3>5, ConnTypes DEF RefuseUntimely, SendConn
      <4>2. QED
        BY <4>1 DEF Answer, SendAnswers
    <3>6. QED
      BY <3>1, <3>2, <3>3, <3>4, <3>5 DEF ToldStep, Answer
  <2>3. QED
    BY <1>2, <2>1, <2>2, Telling DEF History
<1>3. QED
  BY <1>1, <1>2, TypedInvariant, PTL DEF DeliverySpec

\* Connections, answers and deliveries have the shapes that the code gives them:
\* above all, every outcome of a submission is mapped to an answer.
THEOREM DeliveryTypes == DeliverySpec => []DeliveryTypeOK
<1>1. Typed /\ History => DeliveryTypeOK
  BY DEF Typed, History, DeliveryTypeOK, Conn, Answer
<1>2. QED
  BY <1>1, TypedInvariant, HistoryInvariant, PTL

----------------------------------------------------------------------------
(* Answers to submissions.                                                 *)

\* A sender who is told that a message is queued, or was queued before, finds
\* exactly this message accepted by the hub.
THEOREM AnswersAreTrue == DeliverySpec => []ToldIsStored
<1>1. DeliveryInit => ToldIsStored
  BY NothingHeard DEF DeliveryInit, ToldIsStored
<1>2. ASSUME Typed, History, StoredWasAccepted, ToldIsStored,
             [DeliveryNext]_deliveryVars
      PROVE  ToldIsStored'
  <2> SUFFICES ASSUME NEW h \in Handler,
                      told'[h].verdict \in {"queued", "already queued"}
               PROVE  told'[h].env \in accepted'
    BY DEF ToldIsStored
  <2>1. accepted \subseteq accepted'
    BY <1>2, StoreStep, AcceptedGrows
  <2>2. ToldStep(h)
    BY <1>2, Telling DEF History
  <2>3. CASE told'[h] \in {told[h], Nothing}
    BY <1>2, <2>1, <2>3, NothingHeard DEF ToldIsStored
  <2>4. CASE told'[h] = [verdict |-> "empty",
                         waited |-> {m \in line[h] : messages'[m] = messages[m]}]
    BY <2>4, HeardEmpty
  <2>5. CASE /\ SendAnswer(h)
             /\ told'[h] = [env |-> op[h].env,
                            verdict |-> Verdict(op[h].env, op[h].now)]
    <3> DEFINE e == op[h].env
               now == op[h].now
    <3>1. e.id \in MsgId /\ (SendAccept(h) \/ ~Insertable(e, now))
      BY <1>2, <2>5, Answered
    <3>2. told'[h].env = e /\ told'[h].verdict = Verdict(e, now)
      BY <2>5, Heard
    <3>3. CASE Verdict(e, now) = "queued"
      <4>1. Insertable(e, now)
        BY <3>3 DEF Verdict, AboutKnown
      <4>2. e \in accepted'
        BY <3>1, <4>1 DEF SendAccept
      <4>3. QED
        BY <3>2, <4>2
    <3>4. CASE Verdict(e, now) = "already queued"
      <4>1. messages[e.id] # NoRow /\ messages[e.id].env = e
        BY <3>4 DEF Verdict, AboutKnown, SameContent
      <4>2. e \in accepted
        BY <1>2, <3>1, <4>1 DEF StoredWasAccepted
      <4>3. QED
        BY <2>1, <3>2, <4>2
    <3>5. Verdict(e, now) \in {"queued", "already queued"}
      BY <3>2
    <3>6. QED
      BY <3>3, <3>4, <3>5
  <2>6. CASE \E r \in inbox, v \in {"acknowledged", "lease conflict"} :
                 told'[h] = [by |-> r, verdict |-> v]
    BY <2>6, HeardAck
  <2>7. CASE told'[h] = [env |-> conn[h].env, verdict |-> "refused"]
    BY <2>7, Heard
  <2>8. QED
    BY <2>2, <2>3, <2>4, <2>5, <2>6, <2>7 DEF ToldStep
<1>3. QED
  BY <1>1, <1>2, HistoryInvariant, TypedInvariant, ClientsUseTheStore,
     StoredInvariant, PTL DEF DeliverySpec

----------------------------------------------------------------------------
(* Answers to claims.                                                      *)

\* What is in a claim's line waits for the claim.
LineWaits ==
    \A h \in Handler :
        conn[h].kind = "claim" => line[h] \subseteq Waiting[conn[h].peer]

\* Maintenance with an old clock leaves what waits alone, and a claim with that
\* clock finds it.
LEMMA WaitingIsReady ==
    ASSUME TypeOK, NEW p \in Peer, NEW m \in Waiting[p],
           NEW now \in Nat, now <= clock
    PROVE  m \in Ready(p, now)
<1>1. /\ m \in MsgId /\ messages[m] # NoRow
      /\ messages[m].status = "pending"
      /\ messages[m].env.recipient = p
      /\ messages[m].env.expires > clock
  BY DEF Waiting, Present
<1>2. messages[m].env.expires \in Nat /\ clock \in Nat
  BY <1>1, EnvelopeAssumption DEF TypeOK, Row, EnvelopeShape
<1>3. messages[m].env.expires > now
  BY <1>1, <1>2
<1>4. MaintainRow(messages[m], now) = messages[m]
  BY <1>1, <1>2, <1>3 DEF MaintainRow, Expire, Release, Purgeable
<1>5. Maintain(now)[m] = messages[m]
  BY <1>1, <1>4 DEF Maintain
<1>6. QED
  BY <1>1, <1>3, <1>5 DEF Ready, Present

LEMMA LinesWait == DeliverySpec => []LineWaits
<1>1. DeliveryInit => LineWaits
  BY DEF DeliveryInit, LineWaits, NoConn
<1>2. ASSUME Typed, Typed', LineWaits, [DeliveryNext]_deliveryVars
      PROVE  LineWaits'
  <2>1. CASE DeliveryNext
    BY <1>2, <2>1, LineStep DEF DeliveryNext, LineWaits
  <2>2. CASE UNCHANGED deliveryVars
    BY <1>2, <2>2 DEF deliveryVars, vars, LineWaits, Waiting, Present
  <2>3. QED
    BY <1>2, <2>1, <2>2
<1>3. QED
  BY <1>1, <1>2, TypedInvariant, PTL DEF DeliverySpec

\* The last look of a claim used a clock read before the lock: an older clock
\* shows more messages, never fewer.
LEMMA EmptyLine ==
    ASSUME Typed, OpsInv, LineWaits, NEW h \in Handler, AnswerEmpty(h)
    PROVE  line[h] = {}
<1>1. /\ conn[h].kind = "claim"
      /\ op[h].kind = "lease"
      /\ Ready(op[h].peer, op[h].now) = {}
  BY DEF AnswerEmpty, FoundNothing, LeaseNone, HoldsLock
<1>2. op[h].peer = conn[h].peer
  BY <1>1 DEF Typed, Served, Idle
<1>3. op[h].peer \in Peer /\ op[h].now \in Nat /\ TypeOK
  BY <1>1, OpTypes DEF Typed
<1>4. op[h].now <= clock
  BY <1>1 DEF OpsInv, OpsSawThePast, Idle
<1>5. line[h] \subseteq Waiting[op[h].peer]
  BY <1>1, <1>2 DEF LineWaits
<1>6. QED
  BY <1>1, <1>3, <1>4, <1>5, WaitingIsReady

\* Whoever is told that the inbox is empty missed nothing that had waited ever
\* since the claim came in.
THEOREM EmptyIsTrue == DeliverySpec => []EmptyMeansEmpty
<1>1. DeliveryInit => EmptyMeansEmpty
  BY DEF DeliveryInit, EmptyMeansEmpty, Nothing
<1>2. ASSUME Typed, History, OpsInv, LineWaits, EmptyMeansEmpty,
             [DeliveryNext]_deliveryVars
      PROVE  EmptyMeansEmpty'
  <2> SUFFICES ASSUME NEW h \in Handler, told'[h].verdict = "empty"
               PROVE  told'[h].waited = {}
    BY DEF EmptyMeansEmpty
  <2>1. ToldStep(h)
    BY <1>2, Telling DEF History
  <2>2. CASE told'[h] \in {told[h], Nothing}
    BY <1>2, <2>2 DEF EmptyMeansEmpty, Nothing
  <2>3. CASE /\ SendAnswer(h)
             /\ told'[h] = [env |-> op[h].env,
                            verdict |-> Verdict(op[h].env, op[h].now)]
    <3>1. told'[h].verdict = Verdict(op[h].env, op[h].now)
      BY <2>3, Heard
    <3>2. QED
      BY <3>1 DEF Verdict, AboutKnown
  <2>4. CASE /\ AnswerEmpty(h)
             /\ told'[h] = [verdict |-> "empty",
                            waited |-> {m \in line[h] : messages'[m] = messages[m]}]
    BY <1>2, <2>4, EmptyLine, HeardEmpty
  <2>5. CASE \E r \in inbox, v \in {"acknowledged", "lease conflict"} :
                 told'[h] = [by |-> r, verdict |-> v]
    BY <2>5, HeardAck
  <2>6. CASE told'[h] = [env |-> conn[h].env, verdict |-> "refused"]
    BY <2>6, Heard
  <2>7. QED
    BY <2>1, <2>2, <2>3, <2>4, <2>5, <2>6 DEF ToldStep
<1>3. QED
  BY <1>1, <1>2, HistoryInvariant, LinesWait, TypedInvariant, ClientsUseTheStore,
     OpsInvariant, PTL DEF DeliverySpec

----------------------------------------------------------------------------
(* Answers to acknowledgements.                                            *)

\* A row keeps its lease with its message, loses it, or gets a new one.
LEMMA LeaseStep ==
    ASSUME OpsInv, [Next]_vars, NEW m \in MsgId
    PROVE  /\ issued[m] \in Nat
           /\ \/ messages'[m] = NoRow
              \/ messages'[m].lease \in {NoLease, issued[m] + 1}
              \/ /\ messages[m] # NoRow
                 /\ messages'[m].lease = messages[m].lease
                 /\ messages'[m].env = messages[m].env
<1>1. TypeOK
  BY DEF OpsInv
<1>2. CASE Kept(m)
  BY <1>1, <1>2 DEF Kept, TypeOK
<1>3. ASSUME NEW h \in Handler, Maintained(m, h)
      PROVE  \/ messages'[m] = NoRow
             \/ messages'[m].lease \in {NoLease, issued[m] + 1}
             \/ /\ messages[m] # NoRow
                /\ messages'[m].lease = messages[m].lease
                /\ messages'[m].env = messages[m].env
  BY <1>1, <1>3, MaintainedFacts DEF Maintained
<1>4. ASSUME NEW h \in Handler, Inserted(m, h)
      PROVE  messages'[m].lease = NoLease
  BY <1>4 DEF Inserted, NewRow
<1>5. ASSUME NEW h \in Handler, Leased(m, h)
      PROVE  messages'[m].lease = issued[m] + 1
  BY <1>1, <1>5, LeasedFacts
<1>6. CASE Acked(m)
  BY <1>1, <1>6, AckedFacts DEF TypeOK
<1>7. QED
  BY <1>1, RowStep, <1>2, <1>3, <1>4, <1>5, <1>6 DEF TypeOK

\* Whose lease a row carries is the recipient of the message in the row.
HoldersReceive ==
    \A r \in inbox :
        messages[r.id] # NoRow /\ messages[r.id].lease = r.lease =>
            messages[r.id].env.recipient = r.peer

\* A delivery that reaches a client is leased to it in this step.
LEMMA NewReceipt ==
    ASSUME Typed, [DeliveryNext]_deliveryVars, NEW r \in inbox', r \notin inbox
    PROVE  /\ r.id \in MsgId
           /\ messages'[r.id] # NoRow => messages'[r.id].env.recipient = r.peer
<1>1. PICK h \in Handler : Deliver(h)
  BY DEF DeliveryNext, HubCrash, Elsewhere, HangUp, Request, CommandSend, Resend,
     Submit, Claim, Ack, Serve, Begin, RefuseUntimely, SendAnswer, Look, LookAgain,
     AnswerEmpty, NoAnswer, deliveryVars
<1>2. PICK m \in {k \in MsgId : issued'[k] # issued[k]} :
         r = [peer |-> conn[h].peer, id |-> m, lease |-> issued'[m]]
  BY <1>1 DEF Deliver
<1>3. r.id = m /\ r.peer = conn[h].peer /\ m \in MsgId
  BY <1>2
<1>4. op[h].kind = "lease" /\ op[h].peer = conn[h].peer
  BY <1>1 DEF Deliver, LeaseGrant, HoldsLock, Typed, Served, Idle
<1> DEFINE table == Maintain(op[h].now)
<1>5. PICK n \in Ready(op[h].peer, op[h].now) :
         /\ issued' = [issued EXCEPT ![n] = @ + 1]
         /\ messages' = [table EXCEPT ![n] =
               Grant(@, issued[n] + 1, op[h].now + op[h].seconds)]
  BY <1>1 DEF Deliver, LeaseGrant
<1>6. m = n
  BY <1>2, <1>5 DEF Typed, TypeOK
<1>7. table[n].env.recipient = op[h].peer /\ n \in MsgId
  BY <1>5 DEF Ready, Present
<1>8. messages'[n] = Grant(table[n], issued[n] + 1, op[h].now + op[h].seconds)
  BY <1>5, <1>7 DEF Maintain
<1> HIDE DEF table
<1>9. messages'[n].env = table[n].env
  BY <1>8 DEF Grant
<1>10. QED
  BY <1>3, <1>4, <1>6, <1>7, <1>9

LEMMA HoldersAreRecipients == DeliverySpec => []HoldersReceive
<1>1. DeliveryInit => HoldersReceive
  BY DEF DeliveryInit, HoldersReceive
<1>2. ASSUME Typed, OpsInv, HoldersReceive, [DeliveryNext]_deliveryVars
      PROVE  HoldersReceive'
  <2> SUFFICES ASSUME NEW r \in inbox', messages'[r.id] # NoRow,
                      messages'[r.id].lease = r.lease
               PROVE  messages'[r.id].env.recipient = r.peer
    BY DEF HoldersReceive
  <2>1. CASE r \notin inbox
    BY <1>2, <2>1, NewReceipt
  <2>2. CASE r \in inbox
    <3>1. r.id \in MsgId /\ r.lease \in 1 .. issued[r.id]
      BY <1>2, <2>2 DEF Typed, ReceiptsIssued
    <3>2. /\ messages[r.id] # NoRow
          /\ messages'[r.id].lease = messages[r.id].lease
          /\ messages'[r.id].env = messages[r.id].env
      BY <1>2, <3>1, StoreStep, LeaseStep DEF NoLease
    <3>3. QED
      BY <1>2, <2>2, <3>2 DEF HoldersReceive
  <2>3. QED
    BY <2>1, <2>2
<1>3. QED
  BY <1>1, <1>2, TypedInvariant, ClientsUseTheStore, OpsInvariant, PTL
  DEF DeliverySpec

\* The lease of an answered acknowledgement: once it is over it stays over.
OverFor(r) ==
    /\ r.id \in MsgId
    /\ r.lease \in 1 .. issued[r.id]
    /\ messages[r.id] = NoRow \/ messages[r.id].lease # r.lease

AnswersOver ==
    \A h \in Handler : \A r :
        /\ told[h].verdict \in {"acknowledged", "lease conflict"}
        /\ r = told[h].by
        => OverFor(r)

LEMMA IssuedIsALease ==
    ASSUME NEW n \in Nat, NEW l \in 1 .. n
    PROVE  l # NoLease
BY DEF NoLease

\* Leases that are over stay over.
LEMMA OverStays ==
    ASSUME OpsInv, [Next]_vars, NEW r, OverFor(r)
    PROVE  OverFor(r)'
<1>1. r.id \in MsgId /\ r.lease \in 1 .. issued[r.id]
  BY DEF OverFor
<1>2. issued'[r.id] \in Nat /\ issued'[r.id] >= issued[r.id] /\ issued[r.id] \in Nat
  BY <1>1, IssuedGrows DEF OpsInv
<1>3. r.lease \in 1 .. issued'[r.id]
  BY <1>1, <1>2
<1>4. messages'[r.id] = NoRow \/ messages'[r.id].lease # r.lease
  BY <1>1, <1>2, LeaseStep DEF OverFor, NoLease
<1>5. QED
  BY <1>1, <1>3, <1>4 DEF OverFor

\* Whoever hears an answer to an acknowledgement, also that it conflicts, is done
\* with that lease for good, also when the message is forgotten and accepted anew.
THEOREM AnsweredLeasesAreOver == DeliverySpec => []AnsweredLeaseIsOver
<1>1. DeliveryInit => AnswersOver
  BY NothingHeard DEF DeliveryInit, AnswersOver
<1>2. ASSUME Typed, OpsInv, LeaseInv, HoldersReceive, History, AnswersOver,
             [DeliveryNext]_deliveryVars
      PROVE  AnswersOver'
  <2> SUFFICES ASSUME NEW h \in Handler,
                      told'[h].verdict \in {"acknowledged", "lease conflict"},
                      NEW r, r = told'[h].by
               PROVE  OverFor(r)'
    BY DEF AnswersOver
  <2>1. ToldStep(h)
    BY <1>2, Telling DEF History
  <2>2. CASE told'[h] = Nothing
    BY <2>2, NothingHeard
  <2>3. CASE told'[h] = told[h]
    <3>1. OverFor(r)
      BY <1>2, <2>3 DEF AnswersOver
    <3>2. QED
      BY <1>2, <3>1, StoreStep, OverStays
  <2>4. CASE /\ SendAnswer(h)
             /\ told'[h] = [env |-> op[h].env,
                            verdict |-> Verdict(op[h].env, op[h].now)]
    <3> DEFINE e == op[h].env
               v == Verdict(e, op[h].now)
    <3>1. told'[h] = [env |-> e, verdict |-> v]
      BY <2>4
    <3>2. v \notin {"acknowledged", "lease conflict"}
      BY DEF Verdict, AboutKnown
    <3> HIDE DEF e, v
    <3>3. told'[h].verdict = v
      BY <3>1, Heard
    <3>4. QED
      BY <3>2, <3>3
  <2>5. CASE /\ AnswerEmpty(h)
             /\ told'[h] = [verdict |-> "empty",
                            waited |-> {m \in line[h] : messages'[m] = messages[m]}]
    BY <2>5, HeardEmpty
  <2>6. ASSUME r \in inbox, Settles(r) \/ Refuses(r)
        PROVE  OverFor(r)'
    <3>1. r.id \in MsgId /\ r.lease \in 1 .. issued[r.id] /\ issued[r.id] \in Nat
      BY <1>2, <2>6 DEF Typed, ReceiptsIssued, TypeOK
    <3>2. issued' = issued
      BY <2>6 DEF Settles, Acknowledge, Refuses, vars
    <3>3. CASE Settles(r)
      <4>1. Acked(r.id)
        BY <1>2, <3>1, <3>3 DEF Settles, Acknowledge, HoldsLease, Acked, OpsInv, TypeOK
      <4>2. messages'[r.id].lease = NoLease
        BY <1>2, <3>1, <4>1, AckedFacts DEF OpsInv
      <4>3. messages'[r.id].lease # r.lease
        BY <3>1, <4>2, IssuedIsALease
      <4>4. QED
        BY <2>6, <3>1, <3>2, <4>3 DEF OverFor
    <3>4. CASE Refuses(r)
      <4>1. messages' = messages
            /\ (messages[r.id] # NoRow => ~HoldsLease(messages[r.id], r.peer, r.lease))
        BY <3>4 DEF Refuses, vars
      <4>2. ASSUME messages[r.id] # NoRow, messages[r.id].lease = r.lease
            PROVE  FALSE
        <5>1. messages[r.id].env.recipient = r.peer
          BY <1>2, <2>6, <4>2 DEF HoldersReceive
        <5>2. messages[r.id].status = "leased"
          <6>1. ColumnsOfRow(r.id)
            BY <1>2, <3>1 DEF LeaseInv
          <6>2. messages[r.id].lease # NoLease
            BY <3>1, <4>2, IssuedIsALease
          <6>3. QED
            BY <4>2, <6>1, <6>2 DEF ColumnsOfRow
        <5>3. QED
          BY <4>1, <4>2, <5>1, <5>2 DEF HoldsLease
      <4>3. QED
        BY <2>6, <3>1, <3>2, <4>1, <4>2 DEF OverFor
    <3>5. QED
      BY <2>6, <3>3, <3>4
  <2>7. CASE told'[h] = [env |-> conn[h].env, verdict |-> "refused"]
    BY <2>7, Heard
  <2>8. QED
    BY <2>1, <2>2, <2>3, <2>4, <2>5, <2>6, <2>7, HeardAck DEF ToldStep
<1>3. AnswersOver => AnsweredLeaseIsOver
  BY DEF AnswersOver, AnsweredLeaseIsOver, OverFor
<1>4. QED
  BY <1>1, <1>2, <1>3, HoldersAreRecipients, HistoryInvariant, TypedInvariant,
     ClientsUseTheStore, OpsInvariant, LeaseInvariant, PTL DEF DeliverySpec
=============================================================================
