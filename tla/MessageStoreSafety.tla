------------------------- MODULE MessageStoreSafety -------------------------
(***************************************************************************)
(* The safety properties of MessageStore, for every value of its constants.*)
(* RowStep says what one step can do to one row; every proof below is the  *)
(* case analysis it gives, with OpsSawThePast for the stale clock reads.   *)
(***************************************************************************)
EXTENDS MessageStoreProofs, WellFoundedInduction

----------------------------------------------------------------------------
(* What a step does to a row.                                              *)

\* A waiting operation read the clock in the past ...
OpsSawThePast == \A h \in Handler : op[h] # Idle => op[h].now <= clock

\* ... and a waiting send was checked against the clock it read.
SendsWereTimely ==
    \A h \in Handler :
        op[h].kind = "send" =>
            /\ op[h].env.sent <= op[h].now + Skew
            /\ op[h].env.expires > op[h].now

\* h has the write lock in time.
Working(h) ==
    /\ op[h].kind \in {"send", "lease", "status"}
    /\ clock <= op[h].now + BusyTimeout

Unmoved(m) == issued'[m] = issued[m] /\ ackedWith'[m] = ackedWith[m]

Kept(m) == messages'[m] = messages[m] /\ Unmoved(m)

Maintained(m, h) ==
    /\ Working(h)
    /\ messages[m] # NoRow
    /\ messages'[m] = MaintainRow(messages[m], op[h].now)
    /\ Unmoved(m)

Inserted(m, h) ==
    /\ Working(h)
    /\ op[h].kind = "send"
    /\ op[h].env.id = m
    /\ WellFormed(op[h].env)
    /\ ReplyFits(op[h].env)
    /\ messages[m] = NoRow
    /\ messages'[m] = NewRow(op[h].env, op[h].now)
    /\ op[h].env \in accepted'
    /\ Unmoved(m)

Leased(m, h) ==
    /\ Working(h)
    /\ op[h].kind = "lease"
    /\ messages[m] # NoRow
    /\ LET k == MaintainRow(messages[m], op[h].now)
       IN  /\ k # NoRow
           /\ k.status = "pending"
           /\ k.env.expires > op[h].now
           /\ messages'[m] = Grant(k, issued[m] + 1, op[h].now + op[h].seconds)
    /\ issued'[m] = issued[m] + 1
    /\ ackedWith'[m] = ackedWith[m]

Acked(m) ==
    /\ messages[m] # NoRow
    /\ messages[m].status = "leased"
    /\ messages'[m] = [messages[m] EXCEPT !.status = "acknowledged",
                                          !.lease = NoLease, !.until = NoLease]
    /\ issued'[m] = issued[m]
    /\ ackedWith'[m] = messages[m].lease

\* An operation that only maintains keeps or maintains each row.
LEMMA MaintainRows ==
    ASSUME TypeOK, NEW h \in Handler, Working(h), NEW m \in MsgId,
           messages'[m] = Maintain(op[h].now)[m], Unmoved(m)
    PROVE  Kept(m) \/ Maintained(m, h)
BY DEF Maintain, Kept, Maintained

\* Every step keeps, maintains, inserts, leases or acknowledges a given row.
LEMMA RowStep ==
    ASSUME TypeOK, [Next]_vars, NEW m \in MsgId
    PROVE  \/ Kept(m)
           \/ \E h \in Handler : \/ Maintained(m, h)
                                 \/ Inserted(m, h)
                                 \/ Leased(m, h)
           \/ Acked(m)
<1>1. CASE messages' = messages /\ issued' = issued /\ ackedWith' = ackedWith
  BY <1>1 DEF Kept, Unmoved
<1>2. ASSUME NEW h \in Handler, SendAccept(h)
      PROVE  Kept(m) \/ Maintained(m, h) \/ Inserted(m, h)
  <2> DEFINE e == op[h].env
             now == op[h].now
  <2>1. /\ Working(h) /\ op[h].kind = "send"
        /\ Insertable(e, now)
        /\ messages' = [Maintain(now) EXCEPT ![e.id] = NewRow(e, now)]
        /\ e \in accepted'
        /\ Unmoved(m)
    BY <1>2 DEF SendAccept, HoldsLock, Working, Unmoved
  <2>2. CASE m = e.id
    <3>1. messages'[m] = NewRow(e, now)
      BY <2>1, <2>2 DEF Maintain
    <3>2. QED
      BY <2>1, <2>2, <3>1 DEF Inserted, Insertable
  <2>3. CASE m # e.id
    <3>1. messages'[m] = Maintain(now)[m]
      BY <2>1, <2>3 DEF Maintain
    <3>2. QED
      BY <2>1, <3>1, MaintainRows
  <2>4. QED
    BY <2>2, <2>3
<1>3. ASSUME NEW h \in Handler, LeaseGrant(h)
      PROVE  Kept(m) \/ Maintained(m, h) \/ Leased(m, h)
  <2> DEFINE now == op[h].now
             table == Maintain(now)
  <2>1. Working(h) /\ op[h].kind = "lease" /\ ackedWith' = ackedWith
    BY <1>3 DEF LeaseGrant, HoldsLock, Working
  <2>2. PICK n \in Ready(op[h].peer, now) :
           /\ issued' = [issued EXCEPT ![n] = @ + 1]
           /\ messages' = [table EXCEPT ![n] =
                 Grant(@, issued[n] + 1, now + op[h].seconds)]
    BY <1>3 DEF LeaseGrant
  <2>3. CASE m = n
    <3>1. table[m] # NoRow /\ table[m].status = "pending"
          /\ table[m].env.expires > now
      BY <2>2, <2>3 DEF Ready, Present
    <3>2. messages[m] # NoRow /\ table[m] = MaintainRow(messages[m], now)
      BY <3>1 DEF Maintain
    <3>3. issued'[m] = issued[m] + 1
      BY <2>2, <2>3 DEF TypeOK
    <3>4. messages'[m] = Grant(table[m], issued[m] + 1, now + op[h].seconds)
      BY <2>2, <2>3 DEF Maintain
    <3> HIDE DEF table
    <3>5. QED
      BY <2>1, <3>1, <3>2, <3>3, <3>4 DEF Leased
  <2>4. CASE m # n
    <3>1. messages'[m] = table[m] /\ Unmoved(m)
      BY <2>1, <2>2, <2>4 DEF Maintain, Unmoved, TypeOK
    <3>2. QED
      BY <2>1, <3>1, MaintainRows
  <2>5. QED
    BY <2>3, <2>4
<1>4. ASSUME NEW h \in Handler, LeaseNone(h) \/ StatusRun(h)
      PROVE  Kept(m) \/ Maintained(m, h)
  <2>1. Working(h) /\ messages' = Maintain(op[h].now) /\ Unmoved(m)
    BY <1>4 DEF LeaseNone, StatusRun, HoldsLock, Working, Unmoved
  <2>2. QED
    BY <2>1, MaintainRows
<1>5. ASSUME NEW p \in Peer, NEW n \in MsgId, NEW l \in 1 .. issued[n],
             Acknowledge(p, n, l)
      PROVE  Kept(m) \/ Acked(m)
  <2>1. CASE m = n
    BY <1>5, <2>1 DEF Acknowledge, HoldsLease, Acked, TypeOK
  <2>2. CASE m # n
    BY <1>5, <2>2 DEF Acknowledge, Kept, Unmoved, TypeOK
  <2>3. QED
    BY <2>1, <2>2
<1>6. QED
  BY <1>1, <1>2, <1>3, <1>4, <1>5
  DEF Next, Run, Poll, vars, Tick, Crash, Boot, RegisterPeer, SendStart, LeaseStart,
      StatusStart, SendRollback, GiveUp

\* The wall clock of the model never goes back.
LEMMA ClockGrows ==
    ASSUME TypeOK, [Next]_vars
    PROVE  clock' >= clock /\ clock \in Nat /\ clock' \in Nat
<1>1. clock' = clock \/ clock' = clock + 1
  BY DEF Next, Run, Poll, vars, Tick, Crash, Boot, RegisterPeer, SendStart,
     LeaseStart, StatusStart, SendRollback, GiveUp, SendAccept, LeaseGrant,
     LeaseNone, StatusRun, Acknowledge
<1>2. QED
  BY <1>1 DEF TypeOK

\* A step leaves what a thread has read, or reads the clock anew.
LEMMA OpsReadClock ==
    ASSUME TypeOK, [Next]_vars, NEW h \in Handler
    PROVE  \/ op'[h] = op[h]
           \/ op'[h] = Idle
           \/ /\ clock' = clock
              /\ op'[h].now = clock
              /\ op'[h].kind = "send" =>
                   /\ op'[h].env.sent <= clock + Skew
                   /\ op'[h].env.expires > clock
<1>1. \/ op'[h] = op[h]
      \/ op'[h] = Idle
      \/ /\ clock' = clock
         /\ op'[h] = [kind |-> "status", now |-> clock]
      \/ /\ clock' = clock
         /\ \E p \in Peer, s \in LeaseTimes :
              op'[h] = [kind |-> "lease", peer |-> p, seconds |-> s, now |-> clock]
      \/ /\ clock' = clock
         /\ \E e \in Envelope :
              /\ Timely(e)
              /\ op'[h] = [kind |-> "send", env |-> e, now |-> clock]
  BY DEF TypeOK, Next, Run, Poll, vars, Tick, Crash, Boot, RegisterPeer, SendStart,
     LeaseStart, StatusStart, SendRollback, GiveUp, SendAccept, LeaseGrant,
     LeaseNone, StatusRun, Acknowledge
<1>2. ASSUME op'[h] = [kind |-> "status", now |-> clock]
      PROVE  op'[h].now = clock /\ op'[h].kind # "send"
  BY <1>2
<1>3. ASSUME NEW p, NEW s,
             op'[h] = [kind |-> "lease", peer |-> p, seconds |-> s, now |-> clock]
      PROVE  op'[h].now = clock /\ op'[h].kind # "send"
  BY <1>3
<1>4. ASSUME NEW e, Timely(e),
             op'[h] = [kind |-> "send", env |-> e, now |-> clock]
      PROVE  /\ op'[h].now = clock
             /\ op'[h].env.sent <= clock + Skew
             /\ op'[h].env.expires > clock
  BY <1>4 DEF Timely
<1>5. QED
  BY <1>1, <1>2, <1>3, <1>4

\* What an operation saw stays in the past.
LEMMA OpsStep ==
    ASSUME TypeOK, OpsSawThePast, [Next]_vars
    PROVE  OpsSawThePast'
<1>1. clock' >= clock /\ clock \in Nat /\ clock' \in Nat
  BY ClockGrows
<1>2. ASSUME NEW h \in Handler, op'[h] # Idle
      PROVE  op'[h].now <= clock'
  <2>1. CASE op'[h] = op[h]
    <3>1. op[h].now \in Nat
      BY <1>2, <2>1 DEF TypeOK, SendOp, LeaseOp, StatusOp
    <3>2. QED
      BY <1>1, <1>2, <2>1, <3>1 DEF OpsSawThePast
  <2>2. CASE clock' = clock /\ op'[h].now = clock
    BY <1>1, <2>2
  <2>3. QED
    BY <1>2, <2>1, <2>2, OpsReadClock
<1>3. QED
  BY <1>2 DEF OpsSawThePast

\* A send keeps what was checked, also when the clock moves.
LEMMA SendsStep ==
    ASSUME TypeOK, SendsWereTimely, [Next]_vars
    PROVE  SendsWereTimely'
BY OpsReadClock DEF SendsWereTimely, Idle

OpsInv == TypeOK /\ OpsSawThePast /\ SendsWereTimely

LEMMA OpsInvariant == Spec => []OpsInv
<1>1. Init => OpsSawThePast /\ SendsWereTimely
  BY DEF Init, OpsSawThePast, SendsWereTimely, Idle
<1>2. Spec => []TypeOK
  BY TypeCorrect
<1>3. QED
  BY <1>1, <1>2, OpsStep, SendsStep, PTL DEF Spec, OpsInv

----------------------------------------------------------------------------
(* The numbers the proofs compare.                                         *)

LEMMA RowNumbers ==
    ASSUME TypeOK, NEW m \in MsgId, messages[m] # NoRow
    PROVE  /\ messages[m] \in Row
           /\ messages[m].env \in Envelope
           /\ messages[m].env.expires \in Nat
           /\ messages[m].env.sent \in Nat
           /\ messages[m].received \in Nat
           /\ messages[m].until \in Nat
           /\ messages[m].lease \in Nat
           /\ messages[m].attempts \in Nat
           /\ messages[m].status \in Status
<1>1. messages[m] \in Row
  BY DEF TypeOK
<1>2. QED
  BY <1>1, EnvelopeAssumption DEF Row, EnvelopeShape

LEMMA WorkingTypes ==
    ASSUME TypeOK, NEW h \in Handler, Working(h)
    PROVE  /\ op[h] # Idle
           /\ op[h].now \in Nat
           /\ op[h].kind = "send" =>
                /\ op[h].env \in Envelope
                /\ op[h].env.sent \in Nat
                /\ op[h].env.expires \in Nat
           /\ op[h].kind = "lease" => op[h].seconds \in Nat \ {0}
<1>1. op[h] # Idle
  BY DEF Working, Idle
<1>2. op[h].now \in Nat
  BY OpTypes DEF Working
<1>3. op[h].kind = "send" =>
        /\ op[h].env \in Envelope
        /\ op[h].env.sent \in Nat
        /\ op[h].env.expires \in Nat
  BY OpTypes, EnvelopeAssumption DEF EnvelopeShape
<1>4. op[h].kind = "lease" => op[h].seconds \in Nat \ {0}
  BY OpTypes, TimeAssumption
<1>5. QED
  BY <1>1, <1>2, <1>3, <1>4

LEMMA WorkingNumbers ==
    ASSUME OpsInv, NEW h \in Handler, Working(h)
    PROVE  /\ op[h].now \in Nat
           /\ op[h].now <= clock
           /\ clock <= op[h].now + BusyTimeout
           /\ op[h].kind = "send" =>
                /\ op[h].env \in Envelope
                /\ op[h].env.sent \in Nat
                /\ op[h].env.expires \in Nat
                /\ op[h].env.sent <= op[h].now + Skew
                /\ op[h].env.expires > op[h].now
           /\ op[h].kind = "lease" => op[h].seconds \in Nat \ {0}
BY WorkingTypes DEF OpsInv, OpsSawThePast, SendsWereTimely, Working

----------------------------------------------------------------------------
(* What the cases of RowStep leave in the row.                             *)

\* The row after a maintenance, with the clock the operation read.
LEMMA MaintainedFacts ==
    ASSUME TypeOK, NEW m \in MsgId, messages[m] # NoRow,
           NEW h \in Handler, Working(h)
    PROVE  LET r == messages[m]
               now == op[h].now
               k == MaintainRow(r, now)
           IN  \/ /\ k = NoRow
                  /\ IsLive(r) => r.env.expires <= now
                  /\ r.received + Retention <= now
               \/ /\ k \in Row
                  /\ k.env = r.env
                  /\ k.received = r.received
                  /\ k.attempts = r.attempts
                  /\ \/ k = r
                     \/ /\ k.status = "expired"
                        /\ k.lease = NoLease /\ k.until = NoLease
                        /\ IsLive(r)
                        /\ r.env.expires <= now
                     \/ /\ k.status = "pending"
                        /\ k.lease = NoLease /\ k.until = NoLease
                        /\ r.status = "leased"
                        /\ r.until <= now
                        /\ r.env.expires > now
<1> DEFINE r == messages[m]
           now == op[h].now
           k == MaintainRow(r, now)
<1>1. r \in Row /\ now \in Nat
  BY RowNumbers, WorkingTypes
<1> DEFINE Put(s) == [r EXCEPT !.status = s, !.lease = NoLease, !.until = NoLease]
<1>2. /\ Put("expired") # NoRow
      /\ Put("expired").status = "expired"
      /\ Put("expired").lease = NoLease /\ Put("expired").until = NoLease
  <2>1. Put("expired") \in Row
    BY <1>1 DEF Row, Status, NoLease
  <2>2. QED
    BY <1>1, <2>1, NoRowAssumption DEF Row
<1>3. /\ Put("pending") # NoRow
      /\ Put("pending").status = "pending"
      /\ Put("pending").lease = NoLease /\ Put("pending").until = NoLease
  <2>1. Put("pending") \in Row
    BY <1>1 DEF Row, Status, NoLease
  <2>2. QED
    BY <1>1, <2>1, NoRowAssumption DEF Row
<1>4. \/ k = NoRow
      \/ /\ k \in Row
         /\ k.env = r.env
         /\ k.received = r.received
         /\ k.attempts = r.attempts
  BY <1>1, MaintainRowType
<1>5. \/ /\ k = NoRow
         /\ IsLive(r) => r.env.expires <= now
         /\ r.received + Retention <= now
      \/ k = r
      \/ /\ k = Put("expired")
         /\ IsLive(r)
         /\ r.env.expires <= now
      \/ /\ k = Put("pending")
         /\ r.status = "leased"
         /\ r.until <= now
         /\ r.env.expires > now
  BY <1>1, MaintainRowCases
<1> HIDE DEF k, Put
<1>6. CASE k = NoRow
  <2>1. r # NoRow
    OBVIOUS
  <2>2. QED
    BY <1>2, <1>3, <1>5, <1>6, <2>1 DEF k
<1>7. CASE k # NoRow
  <2>1. \/ k = r
        \/ /\ k.status = "expired"
           /\ k.lease = NoLease /\ k.until = NoLease
           /\ IsLive(r)
           /\ r.env.expires <= now
        \/ /\ k.status = "pending"
           /\ k.lease = NoLease /\ k.until = NoLease
           /\ r.status = "leased"
           /\ r.until <= now
           /\ r.env.expires > now
    BY <1>2, <1>3, <1>5, <1>7
  <2>2. QED
    BY <1>4, <1>7, <2>1 DEF k
<1>8. QED
  BY <1>6, <1>7

\* The row that lease_next hands out.
LEMMA LeasedFacts ==
    ASSUME TypeOK, NEW m \in MsgId, NEW h \in Handler, Leased(m, h)
    PROVE  LET r == messages[m]
               q == messages'[m]
               now == op[h].now
           IN  /\ q \in Row
               /\ q.env = r.env
               /\ q.received = r.received
               /\ q.status = "leased"
               /\ q.lease = issued[m] + 1
               /\ q.until = now + op[h].seconds
               /\ q.attempts = r.attempts + 1
               /\ r.env.expires > now
               /\ r.status = "pending" \/ (r.status = "leased" /\ r.until <= now)
<1> DEFINE r == messages[m]
           now == op[h].now
           k == MaintainRow(r, now)
           g == Grant(k, issued[m] + 1, now + op[h].seconds)
<1>1. /\ messages[m] # NoRow /\ Working(h) /\ op[h].kind = "lease"
      /\ k # NoRow /\ k.status = "pending" /\ k.env.expires > now
      /\ messages'[m] = g
  BY DEF Leased
<1>2. /\ k \in Row
      /\ k.env = r.env /\ k.received = r.received /\ k.attempts = r.attempts
      /\ r.status = "pending" \/ (r.status = "leased" /\ r.until <= now)
  BY <1>1, MaintainedFacts
<1>3. now + op[h].seconds \in Nat /\ issued[m] + 1 \in Nat
  <2>1. op[h].seconds \in Nat /\ now \in Nat
    BY <1>1, WorkingTypes
  <2>2. issued[m] \in Nat
    BY DEF TypeOK
  <2>3. QED
    BY <2>1, <2>2
<1>4. k.attempts + 1 \in Nat
  BY <1>2 DEF Row
<1> HIDE DEF k
<1>5. /\ g \in Row /\ g.env = k.env /\ g.received = k.received
      /\ g.status = "leased" /\ g.lease = issued[m] + 1
      /\ g.until = now + op[h].seconds /\ g.attempts = k.attempts + 1
  BY <1>2, <1>3, <1>4 DEF Grant, Row, Status
<1> HIDE DEF g
<1>6. QED
  BY <1>1, <1>2, <1>5

\* The row after its acknowledgement.
LEMMA AckedFacts ==
    ASSUME TypeOK, NEW m \in MsgId, Acked(m)
    PROVE  LET r == messages[m]
               q == messages'[m]
           IN  /\ q \in Row
               /\ q.env = r.env
               /\ q.received = r.received
               /\ q.attempts = r.attempts
               /\ q.status = "acknowledged"
               /\ q.lease = NoLease
               /\ q.until = NoLease
<1>1. messages[m] \in Row
  BY RowNumbers DEF Acked
<1> DEFINE a == [messages[m] EXCEPT !.status = "acknowledged",
                                    !.lease = NoLease, !.until = NoLease]
<1>2. /\ a \in Row
      /\ a.env = messages[m].env
      /\ a.received = messages[m].received
      /\ a.attempts = messages[m].attempts
      /\ a.status = "acknowledged" /\ a.lease = NoLease /\ a.until = NoLease
  BY <1>1 DEF Row, Status, NoLease
<1>3. messages'[m] = a
  BY DEF Acked
<1> HIDE DEF a
<1>4. QED
  BY <1>2, <1>3

\* A row that is there after a step holds the message it held, or was inserted.
LEMMA SameMessage ==
    ASSUME TypeOK, [Next]_vars, NEW m \in MsgId, messages'[m] # NoRow
    PROVE  \/ /\ messages[m] # NoRow
              /\ messages'[m].env = messages[m].env
              /\ messages'[m].received = messages[m].received
           \/ \E h \in Handler : Inserted(m, h)
<1> DEFINE Same == /\ messages[m] # NoRow
                   /\ messages'[m].env = messages[m].env
                   /\ messages'[m].received = messages[m].received
<1>1. CASE Kept(m)
  BY <1>1 DEF Kept
<1>2. ASSUME NEW h \in Handler, Maintained(m, h)
      PROVE  Same
  BY <1>2, MaintainedFacts DEF Maintained
<1>3. ASSUME NEW h \in Handler, Leased(m, h)
      PROVE  Same
  BY <1>3, LeasedFacts DEF Leased
<1>4. CASE Acked(m)
  BY <1>4, AckedFacts DEF Acked
<1>5. QED
  BY <1>1, <1>2, <1>3, <1>4, RowStep

\* A row disappears only in the cleanup of an operation that saw it settled and
\* past the retention window.
LEMMA RowGone ==
    ASSUME TypeOK, [Next]_vars, NEW m \in MsgId,
           messages[m] # NoRow, messages'[m] = NoRow
    PROVE  \E h \in Handler :
              /\ Working(h)
              /\ messages[m].received + Retention <= op[h].now
              /\ IsLive(messages[m]) => messages[m].env.expires <= op[h].now
<1>1. ~Kept(m)
  BY DEF Kept
<1>2. ~Acked(m)
  BY AckedFacts, NoRowAssumption
<1>3. ASSUME NEW h \in Handler
      PROVE  ~Leased(m, h) /\ ~Inserted(m, h)
  BY LeasedFacts, NoRowAssumption DEF Inserted
<1>4. PICK h \in Handler : Maintained(m, h)
  BY <1>1, <1>2, <1>3, RowStep
<1>5. QED
  BY <1>4, MaintainedFacts, NoRowAssumption DEF Maintained

----------------------------------------------------------------------------
(* The invariants on rows.                                                 *)

\* BoundedLifetime, for one row.
BoundedRow(m) ==
    messages[m] # NoRow =>
        /\ messages[m].received < messages[m].env.expires
        /\ messages[m].env.expires <= messages[m].received + Skew + Lifetime

\* No step gives a row a longer life, whatever the clock does in between.
LEMMA LifetimeKept ==
    ASSUME TypeOK, SendsWereTimely, [Next]_vars, \A m \in MsgId : BoundedRow(m)
    PROVE  \A m \in MsgId : BoundedRow(m)'
<1> SUFFICES ASSUME NEW m \in MsgId, messages'[m] # NoRow
             PROVE  /\ messages'[m].received < messages'[m].env.expires
                    /\ messages'[m].env.expires <=
                         messages'[m].received + Skew + Lifetime
  BY DEF BoundedRow
<1>1. ASSUME NEW h \in Handler, Inserted(m, h)
      PROVE  /\ messages'[m].received < messages'[m].env.expires
             /\ messages'[m].env.expires <=
                  messages'[m].received + Skew + Lifetime
  <2>1. /\ messages'[m].env = op[h].env
        /\ messages'[m].received = op[h].now
    BY <1>1 DEF Inserted, NewRow
  <2>2. op[h].env.sent <= op[h].now + Skew /\ op[h].env.expires > op[h].now
    BY <1>1 DEF Inserted, SendsWereTimely
  <2>3. QED
    BY <1>1, <2>1, <2>2, WorkingTypes, TimeAssumption DEF Inserted, WellFormed
<1>2. CASE /\ messages[m] # NoRow
           /\ messages'[m].env = messages[m].env
           /\ messages'[m].received = messages[m].received
  BY <1>2 DEF BoundedRow
<1>3. QED
  BY <1>1, <1>2, SameMessage

\* A stored message expires within MAX_MESSAGE_LIFETIME and the tolerated skew
\* of its receipt, whatever the send had to wait for.
THEOREM LifetimeBounded == Spec => []BoundedLifetime
<1> DEFINE Inv == \A m \in MsgId : BoundedRow(m)
<1>1. Init => Inv
  BY DEF Init, BoundedRow
<1>2. OpsInv /\ Inv /\ [Next]_vars => Inv'
  BY LifetimeKept DEF OpsInv
<1>3. Inv => BoundedLifetime
  BY DEF BoundedRow, BoundedLifetime, Present
<1>4. QED
  BY <1>1, <1>2, <1>3, OpsInvariant, PTL DEF Spec

----------------------------------------------------------------------------
(* Leases and acknowledgements.                                            *)

ColumnsOfRow(m) ==
    messages[m] # NoRow =>
        /\ messages[m].status = "leased" <=> messages[m].lease # NoLease
        /\ messages[m].status = "leased" <=> messages[m].until # NoLease
        /\ messages[m].lease # NoLease => messages[m].lease = issued[m]
        /\ messages[m].status \in {"leased", "acknowledged"} =>
             messages[m].attempts > 0
        /\ messages[m].attempts <= issued[m]

FencedRow(m) ==
    messages[m] # NoRow /\ messages[m].status = "acknowledged" =>
        ackedWith[m] = issued[m]

LeaseInv == \A m \in MsgId : ColumnsOfRow(m) /\ FencedRow(m)

\* The two are inductive together: that the last acknowledgement used the last
\* lease needs that the lease in the row is the last one issued.
LEMMA LeaseInvKept ==
    ASSUME TypeOK, LeaseInv, [Next]_vars
    PROVE  LeaseInv'
<1> SUFFICES ASSUME NEW m \in MsgId, messages'[m] # NoRow
             PROVE  ColumnsOfRow(m)' /\ FencedRow(m)'
  BY DEF LeaseInv, ColumnsOfRow, FencedRow
<1>1. issued[m] \in Nat
  BY DEF TypeOK
<1>2. ColumnsOfRow(m) /\ FencedRow(m)
  BY DEF LeaseInv
<1>3. CASE Kept(m)
  BY <1>2, <1>3 DEF Kept, Unmoved, ColumnsOfRow, FencedRow
<1>4. ASSUME NEW h \in Handler, Maintained(m, h)
      PROVE  ColumnsOfRow(m)' /\ FencedRow(m)'
  <2>1. /\ messages[m] # NoRow
        /\ issued'[m] = issued[m] /\ ackedWith'[m] = ackedWith[m]
    BY <1>4 DEF Maintained, Unmoved
  <2>2. \/ messages'[m] = messages[m]
        \/ /\ messages'[m].status \in {"pending", "expired"}
           /\ messages'[m].lease = NoLease /\ messages'[m].until = NoLease
           /\ messages'[m].attempts = messages[m].attempts
    BY <1>4, MaintainedFacts DEF Maintained
  <2>3. QED
    BY <1>2, <2>1, <2>2 DEF ColumnsOfRow, FencedRow
<1>5. ASSUME NEW h \in Handler, Inserted(m, h)
      PROVE  ColumnsOfRow(m)' /\ FencedRow(m)'
  BY <1>1, <1>5 DEF Inserted, Unmoved, NewRow, NoLease, ColumnsOfRow, FencedRow
<1>6. ASSUME NEW h \in Handler, Leased(m, h)
      PROVE  ColumnsOfRow(m)' /\ FencedRow(m)'
  <2>1. /\ messages'[m].status = "leased"
        /\ messages'[m].lease = issued[m] + 1
        /\ messages'[m].until = op[h].now + op[h].seconds
        /\ messages'[m].attempts = messages[m].attempts + 1
        /\ issued'[m] = issued[m] + 1
    BY <1>6, LeasedFacts DEF Leased
  <2>2. op[h].now \in Nat /\ op[h].seconds \in Nat \ {0}
    BY <1>6, WorkingTypes DEF Leased
  <2>3. messages[m] # NoRow /\ messages[m].attempts \in Nat
    BY <1>6, RowNumbers DEF Leased
  <2>4. QED
    BY <1>1, <1>2, <2>1, <2>2, <2>3 DEF ColumnsOfRow, FencedRow, NoLease
<1>7. CASE Acked(m)
  BY <1>2, <1>7, AckedFacts DEF Acked, ColumnsOfRow, FencedRow
<1>8. QED
  BY <1>3, <1>4, <1>5, <1>6, <1>7, RowStep

LEMMA LeaseInvariant == Spec => []LeaseInv
<1>1. Init => LeaseInv
  BY DEF Init, LeaseInv, ColumnsOfRow, FencedRow
<1>2. TypeOK /\ LeaseInv /\ [Next]_vars => LeaseInv'
  BY LeaseInvKept
<1>3. QED
  BY <1>1, <1>2, TypeCorrect, PTL DEF Spec

\* lease_id and lease_until agree with the status, and the lease in a row is the
\* last one lease_next drew for it.
THEOREM ColumnsAgree == Spec => []LeaseColumnsAgree
<1>1. LeaseInv => LeaseColumnsAgree
  BY DEF LeaseInv, ColumnsOfRow, LeaseColumnsAgree, Present
<1>2. QED
  BY <1>1, LeaseInvariant, PTL

\* acknowledge only ever settles a message with the last lease issued for it.
THEOREM AcksAreFenced == Spec => []FencedAck
<1>1. LeaseInv => FencedAck
  BY DEF LeaseInv, FencedRow, FencedAck, Present
<1>2. QED
  BY <1>1, LeaseInvariant, PTL

----------------------------------------------------------------------------
(* What a step may never do to a row.                                      *)

\* A live message leaves the queue by acknowledge or past its own deadline.
THEOREM NothingIsLost == Spec => NothingLost
<1>1. ASSUME OpsInv, [Next]_vars, NEW m \in MsgId,
             messages[m] # NoRow, IsLive(messages[m])
      PROVE  \/ messages[m].env.expires <= clock
             \/ /\ messages'[m] # NoRow
                /\ messages'[m].env = messages[m].env
                /\ messages'[m].received = messages[m].received
                /\ messages'[m].status # "expired"
  <2>1. ASSUME NEW n \in Nat, n <= clock, messages[m].env.expires <= n
        PROVE  messages[m].env.expires <= clock
    BY <1>1, <2>1, RowNumbers DEF OpsInv, TypeOK
  <2>2. CASE messages'[m] = NoRow
    BY <1>1, <2>1, <2>2, RowGone, WorkingNumbers DEF OpsInv
  <2>3. CASE messages'[m] # NoRow
    <3>1. CASE Kept(m)
      BY <1>1, <2>3, <3>1 DEF Kept, IsLive
    <3>2. ASSUME NEW h \in Handler, Maintained(m, h)
          PROVE  \/ messages[m].env.expires <= clock
                 \/ messages'[m].status # "expired"
      BY <1>1, <2>1, <2>3, <3>2, MaintainedFacts, WorkingNumbers
      DEF Maintained, IsLive, OpsInv
    <3>3. ASSUME NEW h \in Handler, Leased(m, h)
          PROVE  messages'[m].status # "expired"
      BY <1>1, <3>3, LeasedFacts DEF OpsInv
    <3>4. CASE Acked(m)
      BY <1>1, <2>3, <3>4, AckedFacts DEF OpsInv
    <3>5. ASSUME NEW h \in Handler
          PROVE  ~Inserted(m, h)
      BY <1>1 DEF Inserted
    <3>6. QED
      BY <1>1, <2>3, <3>1, <3>2, <3>3, <3>4, <3>5, RowStep, SameMessage DEF OpsInv
  <2>4. QED
    BY <2>2, <2>3
<1>2. OpsInv /\ [Next]_vars =>
        [\A m \in Present(messages) :
          IsLive(messages[m]) =>
            \/ messages[m].env.expires <= clock
            \/ /\ messages'[m] # NoRow
               /\ messages'[m].env = messages[m].env
               /\ messages'[m].received = messages[m].received
               /\ messages'[m].status # "expired"]_vars
  BY <1>1 DEF Present
<1>3. QED
  BY <1>2, OpsInvariant, PTL DEF Spec, NothingLost

\* What is settled stays for the audit until the retention window has passed.
THEOREM AuditIsKept == Spec => AuditKept
<1>1. ASSUME OpsInv, [Next]_vars, NEW m \in MsgId,
             messages[m] # NoRow, ~IsLive(messages[m])
      PROVE  \/ messages'[m] = messages[m]
             \/ /\ messages'[m] = NoRow
                /\ messages[m].received + Retention <= clock
  <2>1. CASE messages'[m] = NoRow
    <3>1. PICK h \in Handler :
             Working(h) /\ messages[m].received + Retention <= op[h].now
      BY <1>1, <2>1, RowGone DEF OpsInv
    <3>2. /\ op[h].now \in Nat /\ op[h].now <= clock /\ clock \in Nat
          /\ messages[m].received + Retention \in Nat
      BY <1>1, <3>1, WorkingNumbers, RowNumbers, TimeAssumption DEF OpsInv, TypeOK
    <3>3. QED
      BY <2>1, <3>1, <3>2
  <2>2. CASE messages'[m] # NoRow
    <3>1. ~Acked(m)
      BY <1>1 DEF Acked, IsLive
    <3>2. ASSUME NEW h \in Handler
          PROVE  ~Inserted(m, h) /\ ~Leased(m, h)
      BY <1>1, LeasedFacts DEF Inserted, IsLive, OpsInv
    <3>3. ASSUME NEW h \in Handler, Maintained(m, h)
          PROVE  messages'[m] = messages[m]
      BY <1>1, <2>2, <3>3, MaintainedFacts DEF Maintained, IsLive, OpsInv
    <3>4. QED
      BY <1>1, <3>1, <3>2, <3>3, RowStep DEF OpsInv, Kept
  <2>3. QED
    BY <2>1, <2>2
<1>2. OpsInv /\ [Next]_vars =>
        [\A m \in Present(messages) :
          ~IsLive(messages[m]) =>
            \/ messages'[m] = messages[m]
            \/ /\ messages'[m] = NoRow
               /\ messages[m].received + Retention <= clock]_vars
  BY <1>1 DEF Present
<1>3. QED
  BY <1>2, OpsInvariant, PTL DEF Spec, AuditKept

\* Until lease_until or the expiry passes, only an acknowledgement with the
\* holder's own lease ends its hold on the message.
THEOREM LeaseIsHonoured == Spec => LeaseHonoured
<1>1. ASSUME OpsInv, [Next]_vars, NEW m \in MsgId, messages[m] # NoRow,
             messages[m].status = "leased", messages[m].until > clock,
             messages[m].env.expires > clock
      PROVE  \/ messages'[m] = messages[m]
             \/ /\ messages'[m] # NoRow
                /\ messages'[m].status = "acknowledged"
                /\ ackedWith'[m] = messages[m].lease
  <2>1. ASSUME NEW h \in Handler, Working(h)
        PROVE  ~(messages[m].until <= op[h].now) /\
               ~(messages[m].env.expires <= op[h].now)
    BY <1>1, <2>1, WorkingNumbers, RowNumbers DEF OpsInv, TypeOK
  <2>2. ASSUME NEW h \in Handler, Maintained(m, h)
        PROVE  messages'[m] = messages[m]
    BY <1>1, <2>1, <2>2, MaintainedFacts DEF Maintained, IsLive, OpsInv
  <2>3. ASSUME NEW h \in Handler
        PROVE  ~Inserted(m, h) /\ ~Leased(m, h)
    <3>1. ~Leased(m, h)
      <4> SUFFICES ASSUME Leased(m, h)
                   PROVE  FALSE
        OBVIOUS
      <4>1. messages[m].until <= op[h].now
        BY <1>1, LeasedFacts DEF OpsInv
      <4>2. QED
        BY <2>1, <4>1 DEF Leased
    <3>2. QED
      BY <1>1, <3>1 DEF Inserted
  <2>4. CASE Acked(m)
    BY <1>1, <2>4, AckedFacts, NoRowAssumption DEF Acked, OpsInv
  <2>5. QED
    BY <1>1, <2>2, <2>3, <2>4, RowStep DEF OpsInv, Kept
<1>2. OpsInv /\ [Next]_vars =>
        [\A m \in Present(messages) :
          LET r == messages[m]
          IN  r.status = "leased" /\ r.until > clock /\ r.env.expires > clock =>
                \/ messages'[m] = r
                \/ /\ messages'[m] # NoRow
                   /\ messages'[m].status = "acknowledged"
                   /\ ackedWith'[m] = r.lease]_vars
  BY <1>1 DEF Present
<1>3. QED
  BY <1>2, OpsInvariant, PTL DEF Spec, LeaseHonoured

\* lease_next hands out an expired message, or a lease that has already run out,
\* only within the wait for the lock.
THEOREM GrantedInTime == Spec => GrantedWithinLockWait
<1>1. ASSUME OpsInv, [Next]_vars, NEW m \in MsgId, issued'[m] # issued[m]
      PROVE  /\ messages'[m].env.expires > clock - BusyTimeout
             /\ messages'[m].until > clock - BusyTimeout
  <2>1. PICK h \in Handler : Leased(m, h)
    BY <1>1, RowStep DEF OpsInv, Kept, Maintained, Inserted, Acked, Unmoved
  <2>2. /\ messages'[m].env = messages[m].env
        /\ messages[m].env.expires > op[h].now
        /\ messages[m].env.expires \in Nat
        /\ messages'[m].until = op[h].now + op[h].seconds
    BY <1>1, <2>1, LeasedFacts, RowNumbers DEF Leased, OpsInv
  <2>3. /\ op[h].now \in Nat
        /\ clock <= op[h].now + BusyTimeout
        /\ clock \in Nat
        /\ op[h].seconds \in Nat \ {0}
    BY <1>1, <2>1, WorkingNumbers DEF Leased, OpsInv, TypeOK
  <2>4. QED
    BY <2>2, <2>3, TimeAssumption
<1>2. OpsInv /\ [Next]_vars =>
        [\A m \in MsgId :
          Granted(m) => /\ messages'[m].env.expires > clock - BusyTimeout
                        /\ messages'[m].until > clock - BusyTimeout]_vars
  BY <1>1 DEF Granted
<1>3. QED
  BY <1>2, OpsInvariant, PTL DEF Spec, GrantedWithinLockWait

----------------------------------------------------------------------------
(* Idempotent submission.                                                  *)

\* A step accepts nothing, or the message that a waiting send inserts.
LEMMA AcceptStep ==
    ASSUME TypeOK, [Next]_vars, NEW e \in accepted', e \notin accepted
    PROVE  /\ e.id \in MsgId
           /\ messages'[e.id] # NoRow
           /\ messages'[e.id].env = e
           /\ ReplyFits(e)
<1>1. PICK h \in Handler : SendAccept(h)
  BY DEF Next, Run, Poll, vars, Tick, Crash, Boot, RegisterPeer, SendStart, GiveUp,
     LeaseStart, StatusStart, SendRollback, LeaseGrant, LeaseNone, StatusRun,
     Acknowledge
<1> DEFINE now == op[h].now
<1>2. /\ e = op[h].env
      /\ messages' = [Maintain(now) EXCEPT ![e.id] = NewRow(e, now)]
      /\ ReplyFits(e)
  BY <1>1 DEF SendAccept, Insertable
<1>3. e \in Envelope /\ now \in Nat
  BY <1>1, <1>2, OpTypes DEF SendAccept, HoldsLock
<1>4. e.id \in MsgId
  BY <1>3, EnvelopeAssumption DEF EnvelopeShape
<1>5. messages'[e.id] = NewRow(e, now)
  BY <1>2, <1>4 DEF Maintain
<1>6. NewRow(e, now) \in Row /\ NewRow(e, now).env = e
  BY <1>3 DEF NewRow, Row, Status, NoLease
<1>7. QED
  BY <1>2, <1>4, <1>5, <1>6, NoRowAssumption

\* Whatever is stored was accepted.
StoredWasAccepted ==
    \A m \in MsgId : messages[m] # NoRow => messages[m].env \in accepted

LEMMA AcceptedGrows ==
    ASSUME [Next]_vars
    PROVE  accepted \subseteq accepted'
BY DEF Next, Run, Poll, vars, Tick, Crash, Boot, RegisterPeer, SendStart, LeaseStart,
   StatusStart, SendRollback, GiveUp, SendAccept, LeaseGrant, LeaseNone,
   StatusRun, Acknowledge

LEMMA StoredKept ==
    ASSUME TypeOK, StoredWasAccepted, [Next]_vars
    PROVE  StoredWasAccepted'
<1> SUFFICES ASSUME NEW m \in MsgId, messages'[m] # NoRow
             PROVE  messages'[m].env \in accepted'
  BY DEF StoredWasAccepted
<1>1. CASE messages[m] # NoRow /\ messages'[m].env = messages[m].env
  BY <1>1, AcceptedGrows DEF StoredWasAccepted
<1>2. ASSUME NEW h \in Handler, Inserted(m, h)
      PROVE  messages'[m].env \in accepted'
  BY <1>2 DEF Inserted, NewRow
<1>3. QED
  BY <1>1, <1>2, SameMessage

LEMMA StoredInvariant == Spec => []StoredWasAccepted
<1>1. Init => StoredWasAccepted
  BY DEF Init, StoredWasAccepted
<1>2. QED
  BY <1>1, StoredKept, TypeCorrect, PTL DEF Spec

\* With a retention that covers the longest life, the tolerated skew and the
\* wait for the lock, the hub remembers every message it accepted for as long
\* as it can be submitted.
THEOREM AcceptedStaysKnown ==
    ASSUME RetentionCoversLifetime
    PROVE  Spec => []AcceptedRemembered
<1>1. Init => AcceptedRemembered
  BY DEF Init, AcceptedRemembered
<1>2. ASSUME OpsInv, BoundedLifetime, AcceptedRemembered, [Next]_vars
      PROVE  AcceptedRemembered'
  <2> SUFFICES ASSUME NEW e \in accepted'
               PROVE  \/ messages'[e.id] # NoRow /\ messages'[e.id].env = e
                      \/ e.expires + BusyTimeout <= clock'
    BY DEF AcceptedRemembered
  <2>1. CASE e \notin accepted
    BY <1>2, <2>1, AcceptStep DEF OpsInv
  <2>2. CASE e \in accepted
    <3>1. /\ e \in Envelope
          /\ e.id \in MsgId
          /\ e.expires \in Nat
          /\ clock \in Nat
      BY <1>2, <2>2, EnvelopeAssumption DEF OpsInv, TypeOK, EnvelopeShape
    <3>2. CASE e.expires + BusyTimeout <= clock
      BY <1>2, <3>1, <3>2, ClockGrows, TimeAssumption DEF OpsInv
    <3>3. CASE messages[e.id] # NoRow /\ messages[e.id].env = e
      <4>1. CASE messages'[e.id] # NoRow
        BY <1>2, <3>1, <3>3, <4>1, SameMessage DEF Inserted, OpsInv
      <4>2. CASE messages'[e.id] = NoRow
        <5>1. PICK h \in Handler :
                 /\ Working(h)
                 /\ messages[e.id].received + Retention <= op[h].now
          BY <1>2, <3>1, <3>3, <4>2, RowGone DEF OpsInv
        <5>2. op[h].now \in Nat /\ op[h].now <= clock
          BY <1>2, <5>1, WorkingNumbers
        <5>3. messages[e.id].received \in Nat
          BY <1>2, <3>1, <3>3, RowNumbers DEF OpsInv
        <5>4. e.expires <= messages[e.id].received + Skew + Lifetime
          BY <1>2, <3>1, <3>3 DEF BoundedLifetime, Present
        <5>5. e.expires + BusyTimeout <= clock
          BY <3>1, <5>1, <5>2, <5>3, <5>4, TimeAssumption
          DEF RetentionCoversLifetime
        <5>6. QED
          BY <1>2, <3>1, <5>5, ClockGrows, TimeAssumption DEF OpsInv
      <4>3. QED
        BY <4>1, <4>2
    <3>4. QED
      BY <1>2, <2>2, <3>2, <3>3 DEF AcceptedRemembered
  <2>3. QED
    BY <2>1, <2>2
<1>3. QED
  BY <1>1, <1>2, OpsInvariant, LifetimeBounded, PTL DEF Spec

\* Then no message is ever queued a second time: its row is found, or it is
\* refused as expired.
THEOREM ResubmissionRecognised ==
    ASSUME RetentionCoversLifetime
    PROVE  Spec => AcceptedOnce
<1>1. ASSUME OpsInv, AcceptedRemembered, [Next]_vars, NEW e \in accepted,
             messages[e.id] = NoRow, messages'[e.id] # NoRow,
             messages'[e.id].env = e
      PROVE  FALSE
  <2>1. e.id \in MsgId /\ e.expires \in Nat /\ clock \in Nat
    BY <1>1, EnvelopeAssumption DEF OpsInv, TypeOK, EnvelopeShape
  <2>2. e.expires + BusyTimeout <= clock
    BY <1>1 DEF AcceptedRemembered
  <2>3. PICK h \in Handler : Inserted(e.id, h)
    BY <1>1, <2>1, SameMessage DEF OpsInv
  <2>4. op[h].env = e
    BY <1>1, <2>3 DEF Inserted, NewRow
  <2>5. /\ op[h].now \in Nat
        /\ clock <= op[h].now + BusyTimeout
        /\ e.expires > op[h].now
    BY <1>1, <2>3, <2>4, WorkingNumbers DEF Inserted
  <2>6. QED
    BY <2>1, <2>2, <2>5, TimeAssumption
<1>2. OpsInv /\ AcceptedRemembered /\ [Next]_vars =>
        [\A e \in accepted :
          messages[e.id] = NoRow =>
            messages'[e.id] = NoRow \/ messages'[e.id].env # e]_vars
  BY <1>1
<1>3. QED
  BY <1>2, OpsInvariant, AcceptedStaysKnown, PTL DEF Spec, AcceptedOnce

----------------------------------------------------------------------------
(* The limit on the table.                                                 *)

LEMMA PresentFinite ==
    ASSUME NEW S \in SUBSET MsgId, NEW T \in SUBSET MsgId, S \subseteq T
    PROVE  /\ Cardinality(S) \in Nat
           /\ Cardinality(T) \in Nat
           /\ IsFiniteSet(T)
           /\ Cardinality(S) <= Cardinality(T)
BY LimitAssumption, FS_Subset, FS_CardinalityType

\* A maintenance adds no row.
LEMMA MaintainShrinks ==
    ASSUME TypeOK, NEW now \in Nat
    PROVE  Present(Maintain(now)) \subseteq Present(messages)
BY MaintainType

\* Only an accepted send adds a row.
LEMMA OthersAddNoRow ==
    ASSUME TypeOK, [Next]_vars, ~(\E h \in Handler : SendAccept(h))
    PROVE  Present(messages') \subseteq Present(messages)
<1>1. ASSUME NEW h \in Handler, LeaseGrant(h)
      PROVE  Present(messages') \subseteq Present(messages)
  <2> DEFINE now == op[h].now
             table == Maintain(now)
  <2>1. now \in Nat
    BY <1>1, OpTypes DEF LeaseGrant, HoldsLock
  <2>2. PICK m \in Present(table) :
           messages' = [table EXCEPT ![m] =
                          Grant(@, issued[m] + 1, now + op[h].seconds)]
    BY <1>1 DEF LeaseGrant, Ready
  <2>3. table \in [MsgId -> Row \cup {NoRow}]
        /\ Present(table) \subseteq Present(messages)
    BY <2>1, MaintainType
  <2> HIDE DEF table
  <2>4. QED
    BY <2>2, <2>3 DEF Present
<1>2. ASSUME NEW h \in Handler, LeaseNone(h) \/ StatusRun(h)
      PROVE  Present(messages') \subseteq Present(messages)
  <2>1. op[h].now \in Nat /\ messages' = Maintain(op[h].now)
    BY <1>2, OpTypes DEF LeaseNone, StatusRun, HoldsLock
  <2>2. QED
    BY <2>1, MaintainShrinks
<1>3. ASSUME NEW p \in Peer, NEW m \in MsgId, NEW l \in 1 .. issued[m],
             Acknowledge(p, m, l)
      PROVE  Present(messages') \subseteq Present(messages)
  BY <1>3 DEF Acknowledge, Present, TypeOK
<1>4. CASE messages' = messages
  BY <1>4 DEF Present
<1>5. QED
  BY <1>1, <1>2, <1>3, <1>4
  DEF Next, Run, Poll, vars, Tick, Crash, Boot, RegisterPeer, SendStart, LeaseStart,
      StatusStart, SendRollback, GiveUp

\* Only a send that found room adds a row.
LEMMA CapacityKept ==
    ASSUME TypeOK, CapacityRespected, [Next]_vars
    PROVE  CapacityRespected'
<1>1. CASE ~(\E h \in Handler : SendAccept(h))
  <2>1. Present(messages') \subseteq Present(messages)
    BY <1>1, OthersAddNoRow
  <2>2. Cardinality(Present(messages')) <= Cardinality(Present(messages))
        /\ Cardinality(Present(messages')) \in Nat
        /\ Cardinality(Present(messages)) \in Nat
    BY <2>1, PresentFinite DEF Present
  <2>3. QED
    BY <2>2, LimitAssumption DEF CapacityRespected
<1>2. ASSUME NEW h \in Handler, SendAccept(h)
      PROVE  CapacityRespected'
  <2> DEFINE e == op[h].env
             S == Present(Maintain(op[h].now))
  <2>1. /\ messages' = [Maintain(op[h].now) EXCEPT ![e.id] =
                          NewRow(e, op[h].now)]
        /\ Cardinality(S) < MaxMessages
    BY <1>2 DEF SendAccept, Insertable, HasRoom
  <2>2. e.id \in MsgId
    BY <1>2, OpTypes, EnvelopeAssumption
    DEF SendAccept, HoldsLock, EnvelopeShape
  <2>3. Present(messages') \subseteq S \cup {e.id}
    BY <2>1 DEF Present, Maintain
  <2> HIDE DEF S
  <2>4. S \in SUBSET MsgId /\ S \cup {e.id} \in SUBSET MsgId
    BY <2>2 DEF S, Present
  <2>5. IsFiniteSet(S) /\ Cardinality(S) \in Nat
    BY <2>4, PresentFinite
  <2>6. Cardinality(S \cup {e.id}) <= Cardinality(S) + 1
    <3>1. Cardinality(S \cup {e.id}) =
            IF e.id \in S THEN Cardinality(S) ELSE Cardinality(S) + 1
      BY <2>5, FS_AddElement
    <3>2. QED
      BY <2>5, <3>1
  <2>7. /\ Cardinality(Present(messages')) <= Cardinality(S \cup {e.id})
        /\ Cardinality(Present(messages')) \in Nat
        /\ Cardinality(S \cup {e.id}) \in Nat
    <3>1. Present(messages') \in SUBSET MsgId
      BY DEF Present
    <3>2. QED
      BY <2>3, <2>4, <3>1, PresentFinite
  <2>8. Cardinality(Present(messages')) <= MaxMessages
    BY <2>1, <2>5, <2>6, <2>7, LimitAssumption DEF S
  <2>9. QED
    BY <2>8 DEF CapacityRespected
<1>3. QED
  BY <1>1, <1>2

LEMMA CapacityAtFirst == Init => CapacityRespected
<1> SUFFICES ASSUME Init
             PROVE  CapacityRespected
  OBVIOUS
<1>1. Present(messages) = {}
  BY DEF Init, Present
<1>2. Cardinality({}) = 0
  BY FS_EmptySet
<1>3. QED
  BY <1>1, <1>2, LimitAssumption DEF CapacityRespected

\* The table never outgrows --max-messages.
THEOREM CapacityHolds == Spec => []CapacityRespected
<1>1. TypeOK /\ CapacityRespected /\ [Next]_vars => CapacityRespected'
  BY CapacityKept
<1>2. QED
  BY <1>1, CapacityAtFirst, TypeCorrect, PTL DEF Spec

----------------------------------------------------------------------------
(* The order of delivery and the conversation of a reply.                  *)

\* What the maintenance leaves live is not expired by the clock it used.
LEMMA LiveIsCurrent ==
    ASSUME NEW r \in Row, NEW now \in Nat,
           MaintainRow(r, now) # NoRow, IsLive(MaintainRow(r, now))
    PROVE  r.env.expires > now
<1>1. r.env.expires \in Nat
  BY EnvelopeAssumption DEF Row, EnvelopeShape
<1> SUFFICES ASSUME r.env.expires <= now
             PROVE  FALSE
  BY <1>1
<1>2. CASE IsLive(r)
  <2> DEFINE x == [r EXCEPT !.status = "expired", !.lease = NoLease,
                            !.until = NoLease]
  <2>1. Expire(r, now) = x
    BY <1>2 DEF Expire
  <2>2. x.status = "expired"
    BY DEF Row
  <2>3. Release(x, now) = x
    BY <2>2 DEF Release
  <2> HIDE DEF x
  <2>4. QED
    BY <2>1, <2>2, <2>3 DEF MaintainRow, IsLive
<1>3. CASE ~IsLive(r)
  BY <1>3 DEF MaintainRow, Expire, Release, IsLive
<1>4. QED
  BY <1>2, <1>3

\* The order of the query never puts a more urgent message second.
LEMMA BeforeIsUrgent ==
    ASSUME NEW e \in Envelope, NEW f \in Envelope, Before(e, f)
    PROVE  ~MoreUrgent(f, e)
<1>1. /\ e.priority \in {"high", "normal", "low"}
      /\ f.priority \in {"high", "normal", "low"}
      /\ e.sent \in Nat /\ f.sent \in Nat
  BY EnvelopeAssumption DEF EnvelopeShape
<1>2. QED
  BY <1>1 DEF Before, Rank, MoreUrgent

\* A claim hands out the most urgent of the messages that it leaves waiting.
LEMMA GrantInOrder ==
    ASSUME TypeOK, [Next]_vars, NEW m \in MsgId, issued'[m] # issued[m],
           NEW k \in Present(messages'),
           messages'[k].status = "pending",
           messages'[k].env.recipient = messages'[m].env.recipient
    PROVE  ~MoreUrgent(messages'[k].env, messages'[m].env)
<1>1. PICK h \in Handler : LeaseGrant(h)
  BY DEF Next, Run, Poll, vars, Tick, Crash, Boot, RegisterPeer, SendStart,
     LeaseStart, StatusStart, SendRollback, GiveUp, SendAccept, LeaseNone,
     StatusRun, Acknowledge
<1> DEFINE now == op[h].now
           table == Maintain(now)
           ready == Ready(op[h].peer, now)
<1>2. PICK n \in ready :
         /\ \A j \in ready \ {n} : Before(table[n].env, table[j].env)
         /\ issued' = [issued EXCEPT ![n] = @ + 1]
         /\ messages' = [table EXCEPT ![n] =
               Grant(@, issued[n] + 1, now + op[h].seconds)]
  BY <1>1 DEF LeaseGrant
<1>3. n = m
  BY <1>2 DEF TypeOK
<1>4. now \in Nat
  BY <1>1, OpTypes DEF LeaseGrant, HoldsLock
<1>5. /\ m \in Present(table)
      /\ table[m] \in Row
      /\ table[m].env.recipient = op[h].peer
  BY <1>2, <1>3, <1>4, MaintainType DEF Ready
<1>6. messages'[m] = Grant(table[m], issued[m] + 1, now + op[h].seconds)
  BY <1>2, <1>3 DEF Present, Maintain
<1>7. messages'[m].status = "leased" /\ messages'[m].env = table[m].env
  <2> HIDE DEF table
  <2>1. QED
    BY <1>5, <1>6 DEF Grant, Row
<1>8. k # m
  BY <1>7
<1>9. messages'[k] = table[k] /\ k \in Present(table)
  BY <1>2, <1>3, <1>8 DEF Present, Maintain
<1>10. /\ messages[k] \in Row
       /\ table[k] \in Row
       /\ table[k] = MaintainRow(messages[k], now)
       /\ table[k] # NoRow
       /\ table[k].env = messages[k].env
  BY <1>4, <1>9, MaintainType DEF Present
<1>11. table[k].env.expires > now
  <2>1. IsLive(table[k])
    BY <1>9 DEF IsLive
  <2> HIDE DEF table
  <2>2. QED
    BY <1>4, <1>10, <2>1, LiveIsCurrent
<1> HIDE DEF table
<1>12. k \in ready
  BY <1>5, <1>7, <1>9, <1>11 DEF Ready, table
<1>13. Before(table[m].env, table[k].env)
  BY <1>2, <1>3, <1>8, <1>12
<1>14. QED
  BY <1>5, <1>7, <1>9, <1>10, <1>13, BeforeIsUrgent DEF Row

\* lease_next hands out the most urgent message that waits for the peer; one
\* whose lease ran out has its old place in the line.
THEOREM DeliveryInOrder == Spec => NoOvertaking
<1>1. TypeOK /\ [Next]_vars =>
        [\A m \in MsgId :
          Granted(m) =>
            \A k \in Present(messages') :
                /\ messages'[k].status = "pending"
                /\ messages'[k].env.recipient = messages'[m].env.recipient
                => ~MoreUrgent(messages'[k].env, messages'[m].env)]_vars
  BY GrantInOrder DEF Granted
<1>2. QED
  BY <1>1, TypeCorrect, PTL DEF Spec, NoOvertaking

\* A non-empty set of numbers has a least one.
LEMMA Least ==
    ASSUME NEW S \in SUBSET Nat, S # {}
    PROVE  \E x \in S : \A y \in S : x <= y
<1> DEFINE R == {ss \in Nat \X Nat : ss[1] < ss[2]}
<1>1. \A x, y \in Nat : x < y => <<x, y>> \in R
  OBVIOUS
<1>2. IsWellFoundedOn(R, Nat)
  BY NatLessThanWellFounded DEF OpToRel
<1> HIDE DEF R
<1>3. PICK x \in S : \A y \in S : ~(<<y, x>> \in R)
  BY <1>2, WFMin
<1>4. ASSUME NEW y \in S
      PROVE  x <= y
  <2>1. x \in Nat /\ y \in Nat /\ ~(y < x)
    BY <1>1, <1>3
  <2>2. QED
    BY <2>1
<1>5. QED
  BY <1>4

\* Exactly one message comes first for a claim, whatever ties there are in
\* priority and sent_at: ORDER BY ... LIMIT 1 is decided by the messages alone,
\* so two claims of the same queue never disagree on whose turn it is.
THEOREM ClaimIsDecided ==
    ASSUME TypeOK, NEW h \in Handler, HoldsLock(h, "lease"),
           Ready(op[h].peer, op[h].now) # {}
    PROVE  LET table == Maintain(op[h].now)
               ready == Ready(op[h].peer, op[h].now)
               First(m) == \A k \in ready \ {m} : Before(table[m].env, table[k].env)
           IN  /\ \E m \in ready : First(m)
               /\ \A m, n \in ready : First(m) /\ First(n) => m = n
<1> DEFINE table == Maintain(op[h].now)
           ready == Ready(op[h].peer, op[h].now)
           rank(m) == Rank[table[m].env.priority]
           sent(m) == table[m].env.sent
<1>1. op[h].now \in Nat
  BY OpTypes DEF HoldsLock
<1>2. ASSUME NEW m \in ready
      PROVE  /\ m \in Nat
             /\ table[m].env.id = m
             /\ rank(m) \in Nat
             /\ sent(m) \in Nat
  <2>1. /\ m \in MsgId /\ table[m] # NoRow /\ messages[m] # NoRow
        /\ table[m] = MaintainRow(messages[m], op[h].now)
    BY <1>2 DEF Ready, Present, Maintain
  <2>2. messages[m] \in Row /\ messages[m].env.id = m
    BY <2>1 DEF TypeOK, Present
  <2>3. table[m].env = messages[m].env
    BY <1>1, <2>1, <2>2, MaintainRowType
  <2>4. /\ messages[m].env.priority \in {"high", "normal", "low"}
        /\ messages[m].env.sent \in Nat
    BY <2>2, EnvelopeAssumption DEF Row, EnvelopeShape
  <2>5. Rank[messages[m].env.priority] \in Nat
    BY <2>4 DEF Rank
  <2> HIDE DEF table
  <2>6. QED
    BY <2>1, <2>2, <2>3, <2>4, <2>5, IdAssumption
<1> HIDE DEF table, ready, rank, sent
<1>3. PICK a \in ready : \A k \in ready : rank(a) <= rank(k)
  <2> DEFINE S == {rank(k) : k \in ready}
  <2>1. S \in SUBSET Nat /\ S # {}
    BY <1>2 DEF ready
  <2>2. PICK x \in S : \A y \in S : x <= y
    BY <2>1, Least
  <2>3. QED
    BY <2>2
<1> DEFINE Urgent == {k \in ready : rank(k) = rank(a)}
<1>4. PICK b \in Urgent : \A k \in Urgent : sent(b) <= sent(k)
  <2> DEFINE S == {sent(k) : k \in Urgent}
  <2>1. S \in SUBSET Nat /\ S # {}
    BY <1>2, <1>3
  <2>2. PICK x \in S : \A y \in S : x <= y
    BY <2>1, Least
  <2>3. QED
    BY <2>2
<1> DEFINE Oldest == {k \in Urgent : sent(k) = sent(b)}
<1>5. PICK m \in Oldest : \A k \in Oldest : m <= k
  <2>1. Oldest \in SUBSET Nat /\ Oldest # {}
    BY <1>2, <1>4
  <2>2. QED
    BY <2>1, Least
<1>6. ASSUME NEW i \in ready, NEW k \in ready
      PROVE  Before(table[i].env, table[k].env) <=>
               \/ rank(i) < rank(k)
               \/ rank(i) = rank(k) /\ sent(i) < sent(k)
               \/ rank(i) = rank(k) /\ sent(i) = sent(k) /\ i < k
  BY <1>2 DEF Before, rank, sent
<1>7. m \in ready /\ \A k \in ready \ {m} : Before(table[m].env, table[k].env)
  <2>1. m \in ready /\ rank(m) = rank(a) /\ sent(m) = sent(b)
    BY <1>5
  <2>2. ASSUME NEW k \in ready, k # m
        PROVE  Before(table[m].env, table[k].env)
    <3>1. rank(a) < rank(k) \/ k \in Urgent
      BY <1>2, <1>3
    <3>2. k \in Urgent => sent(b) < sent(k) \/ k \in Oldest
      BY <1>2, <1>4
    <3>3. k \in Oldest => m < k
      BY <1>2, <1>5, <2>1, <2>2
    <3>4. QED
      BY <1>6, <2>1, <3>1, <3>2, <3>3
  <2>3. QED
    BY <2>1, <2>2
<1>8. ASSUME NEW i \in ready, NEW k \in ready, i # k,
             Before(table[i].env, table[k].env), Before(table[k].env, table[i].env)
      PROVE  FALSE
  <2>1. /\ i \in Nat /\ rank(i) \in Nat /\ sent(i) \in Nat
        /\ k \in Nat /\ rank(k) \in Nat /\ sent(k) \in Nat
    BY <1>2
  <2>2. QED
    BY <1>6, <1>8, <2>1
<1>9. QED
  BY <1>7, <1>8 DEF table, ready

\* The original of a reply is there when the reply is accepted, and what is there
\* was accepted: the history has both from then on, whatever is cleaned up.
LEMMA RepliesKept ==
    ASSUME TypeOK, StoredWasAccepted, RepliesStayInConversation, [Next]_vars
    PROVE  RepliesStayInConversation'
<1> SUFFICES ASSUME NEW e \in accepted', e.replyTo # NoReply
             PROVE  \E f \in accepted' :
                       f.id = e.replyTo /\ Participants(f) = Participants(e)
  BY DEF RepliesStayInConversation, Participants
<1>1. CASE e \in accepted
  BY <1>1, AcceptedGrows DEF RepliesStayInConversation
<1>2. CASE e \notin accepted
  <2>1. /\ messages[e.replyTo] # NoRow
        /\ Participants(messages[e.replyTo].env) = Participants(e)
    BY <1>2, AcceptStep DEF ReplyFits
  <2>2. e.replyTo \in MsgId
    <3>1. e \in Envelope
      BY NextType DEF TypeOK
    <3>2. QED
      BY <3>1, EnvelopeAssumption DEF EnvelopeShape
  <2>3. /\ messages[e.replyTo].env \in accepted
        /\ messages[e.replyTo].env.id = e.replyTo
    BY <2>1, <2>2 DEF StoredWasAccepted, TypeOK, Present
  <2>4. QED
    BY <2>1, <2>3, AcceptedGrows
<1>3. QED
  BY <1>1, <1>2

\* A reply is only ever accepted into a conversation of its own two peers, for
\* any messages: ids may be used again, by anybody, once they are cleaned up.
THEOREM RepliesStay == Spec => []RepliesStayInConversation
<1>1. Init => RepliesStayInConversation
  BY DEF Init, RepliesStayInConversation
<1>2. QED
  BY <1>1, RepliesKept, StoredInvariant, TypeCorrect, PTL DEF Spec
=============================================================================
