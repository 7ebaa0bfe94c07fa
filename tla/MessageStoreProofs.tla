------------------------- MODULE MessageStoreProofs -------------------------
(***************************************************************************)
(* Proofs about MessageStore for every value of its constants.             *)
(***************************************************************************)
EXTENDS MessageStore, FiniteSetTheorems, TLAPS

----------------------------------------------------------------------------
(* What the maintenance does to one row.                                   *)

\* _maintain forgets a row that is settled (perhaps by this very call) and old
\* enough, or keeps it, expires it, or takes back a lease that ran out.
LEMMA MaintainRowCases ==
    ASSUME NEW r \in Row, NEW now \in Nat
    PROVE  LET k == MaintainRow(r, now)
           IN  \/ /\ k = NoRow
                  /\ IsLive(r) => r.env.expires <= now
                  /\ r.received + Retention <= now
               \/ k = r
               \/ /\ k = [r EXCEPT !.status = "expired", !.lease = NoLease,
                                   !.until = NoLease]
                  /\ IsLive(r)
                  /\ r.env.expires <= now
               \/ /\ k = [r EXCEPT !.status = "pending", !.lease = NoLease,
                                   !.until = NoLease]
                  /\ r.status = "leased"
                  /\ r.until <= now
                  /\ r.env.expires > now
<1> DEFINE e == Expire(r, now)
           l == Release(e, now)
<1>0. /\ r.env.expires \in Nat
      /\ r.status \in Status
  BY EnvelopeAssumption DEF Row, EnvelopeShape
<1>1. \/ e = r /\ (IsLive(r) => r.env.expires > now)
      \/ /\ e = [r EXCEPT !.status = "expired", !.lease = NoLease,
                          !.until = NoLease]
         /\ IsLive(r)
         /\ r.env.expires <= now
  BY <1>0 DEF Expire
<1>2. CASE e = r /\ (IsLive(r) => r.env.expires > now)
  <2>1. \/ l = r
        \/ /\ l = [r EXCEPT !.status = "pending", !.lease = NoLease,
                            !.until = NoLease]
           /\ r.status = "leased"
           /\ r.until <= now
           /\ r.env.expires > now
    BY <1>2 DEF Release
  <2>2. l = r /\ Purgeable(l, now) => ~IsLive(r) /\ r.received + Retention <= now
    BY DEF Purgeable, IsLive
  <2>3. l = [r EXCEPT !.status = "pending", !.lease = NoLease, !.until = NoLease]
        => ~Purgeable(l, now)
    BY DEF Purgeable, Row
  <2>4. QED
    BY <2>1, <2>2, <2>3 DEF MaintainRow
<1>3. CASE /\ e = [r EXCEPT !.status = "expired", !.lease = NoLease,
                            !.until = NoLease]
           /\ IsLive(r)
           /\ r.env.expires <= now
  <2>1. e.status = "expired" /\ e.received = r.received
    BY <1>3 DEF Row
  <2>2. l = e
    BY <2>1 DEF Release
  <2>3. QED
    BY <1>3, <2>1, <2>2 DEF MaintainRow, Purgeable
<1>4. QED
  BY <1>1, <1>2, <1>3

\* A row that survives the maintenance is a row of the same message.
LEMMA MaintainRowType ==
    ASSUME NEW r \in Row, NEW now \in Nat
    PROVE  LET k == MaintainRow(r, now)
           IN  \/ k = NoRow
               \/ /\ k \in Row
                  /\ k.env = r.env
                  /\ k.received = r.received
                  /\ k.attempts = r.attempts
<1> DEFINE k == MaintainRow(r, now)
           Put(s) == [r EXCEPT !.status = s, !.lease = NoLease, !.until = NoLease]
<1>1. \/ k = NoRow
      \/ k = r
      \/ k = Put("expired")
      \/ k = Put("pending")
  BY MaintainRowCases
<1>2. CASE k = Put("expired")
  <2>1. /\ Put("expired") \in Row
        /\ Put("expired").env = r.env
        /\ Put("expired").received = r.received
        /\ Put("expired").attempts = r.attempts
    BY DEF Row, NoLease, Status
  <2>2. QED
    BY <1>2, <2>1
<1>3. CASE k = Put("pending")
  <2>1. /\ Put("pending") \in Row
        /\ Put("pending").env = r.env
        /\ Put("pending").received = r.received
        /\ Put("pending").attempts = r.attempts
    BY DEF Row, NoLease, Status
  <2>2. QED
    BY <1>3, <2>1
<1>4. QED
  BY <1>1, <1>2, <1>3

\* The whole table: the ids present afterwards were present before, with the
\* same message.
LEMMA MaintainType ==
    ASSUME TypeOK, NEW now \in Nat
    PROVE  /\ Maintain(now) \in [MsgId -> Row \cup {NoRow}]
           /\ \A m \in Present(Maintain(now)) :
                /\ m \in Present(messages)
                /\ messages[m] \in Row
                /\ Maintain(now)[m] \in Row
                /\ Maintain(now)[m] = MaintainRow(messages[m], now)
                /\ Maintain(now)[m].env = messages[m].env
                /\ Maintain(now)[m].received = messages[m].received
                /\ Maintain(now)[m].attempts = messages[m].attempts
<1>1. ASSUME NEW m \in MsgId, messages[m] # NoRow
      PROVE  /\ messages[m] \in Row
             /\ Maintain(now)[m] = MaintainRow(messages[m], now)
             /\ \/ Maintain(now)[m] = NoRow
                \/ /\ Maintain(now)[m] \in Row
                   /\ Maintain(now)[m].env = messages[m].env
                   /\ Maintain(now)[m].received = messages[m].received
                   /\ Maintain(now)[m].attempts = messages[m].attempts
  <2>1. messages[m] \in Row
    BY <1>1 DEF TypeOK
  <2>2. Maintain(now)[m] = MaintainRow(messages[m], now)
    BY <1>1 DEF Maintain
  <2>3. QED
    BY <2>1, <2>2, MaintainRowType
<1>2. ASSUME NEW m \in MsgId, messages[m] = NoRow
      PROVE  Maintain(now)[m] = NoRow
  BY <1>2 DEF Maintain
<1>3. Maintain(now) = [m \in MsgId |-> Maintain(now)[m]]
  BY DEF Maintain
<1>4. Maintain(now) \in [MsgId -> Row \cup {NoRow}]
  BY <1>1, <1>2, <1>3
<1>5. QED
  BY <1>1, <1>2, <1>4 DEF Present

----------------------------------------------------------------------------
(* Type correctness.                                                       *)

LEMMA OpTypes ==
    ASSUME TypeOK, NEW h \in Handler
    PROVE  /\ op[h].kind = "send" => op[h].env \in Envelope /\ op[h].now \in Nat
           /\ op[h].kind = "lease" =>
                /\ op[h].peer \in Peer
                /\ op[h].seconds \in LeaseTimes
                /\ op[h].now \in Nat
           /\ op[h].kind = "status" => op[h].now \in Nat
<1>1. op[h] \in {Idle} \cup SendOp \cup LeaseOp \cup StatusOp
  BY DEF TypeOK
<1>2. QED
  BY <1>1 DEF Idle, SendOp, LeaseOp, StatusOp

LEMMA InitType == Init => TypeOK
<1> SUFFICES ASSUME Init
             PROVE  TypeOK
  OBVIOUS
<1>1. messages \in [MsgId -> Row \cup {NoRow}] /\ Present(messages) = {}
  BY DEF Init, Present
<1>2. op \in [Handler -> {Idle} \cup SendOp \cup LeaseOp \cup StatusOp]
  BY DEF Init
<1>3. issued \in [MsgId -> Nat] /\ ackedWith \in [MsgId -> Nat]
  BY DEF Init, NoLease
<1>4. QED
  BY <1>1, <1>2, <1>3 DEF Init, TypeOK

LEMMA NextType == TypeOK /\ [Next]_vars => TypeOK'
<1> SUFFICES ASSUME TypeOK, [Next]_vars
             PROVE  TypeOK'
  OBVIOUS
<1>1. CASE Tick
  BY <1>1 DEF Tick, TypeOK, Present
<1>2. CASE Crash \/ Boot
  BY <1>2 DEF Crash, Boot, TypeOK, Present, Idle
<1>3. ASSUME NEW p \in Peer, RegisterPeer(p)
      PROVE  TypeOK'
  BY <1>3 DEF RegisterPeer, TypeOK, Present
<1>4. ASSUME NEW h \in Handler, NEW e \in Envelope, SendStart(h, e)
      PROVE  TypeOK'
  <2>1. [kind |-> "send", env |-> e, now |-> clock] \in SendOp
    BY DEF SendOp, TypeOK
  <2>2. QED
    BY <1>4, <2>1 DEF SendStart, TypeOK, Present
<1>5. ASSUME NEW h \in Handler, Poll(h)
      PROVE  TypeOK'
  <2>1. PICK p \in Peer, s \in LeaseTimes : LeaseStart(h, p, s)
    BY <1>5 DEF Poll
  <2>2. [kind |-> "lease", peer |-> p, seconds |-> s, now |-> clock] \in LeaseOp
    BY DEF LeaseOp, TypeOK
  <2>3. QED
    BY <2>1, <2>2 DEF LeaseStart, TypeOK, Present
<1>6. ASSUME NEW h \in Handler, StatusStart(h)
      PROVE  TypeOK'
  <2>1. [kind |-> "status", now |-> clock] \in StatusOp
    BY DEF StatusOp, TypeOK
  <2>2. QED
    BY <1>6, <2>1 DEF StatusStart, TypeOK, Present
<1>7. ASSUME NEW h \in Handler, SendAccept(h)
      PROVE  TypeOK'
  <2> DEFINE e == op[h].env
             now == op[h].now
  <2>1. e \in Envelope /\ now \in Nat
    BY <1>7, OpTypes DEF SendAccept, HoldsLock
  <2>2. e.id \in MsgId
    BY <2>1, EnvelopeAssumption DEF EnvelopeShape
  <2>3. NewRow(e, now) \in Row /\ NewRow(e, now).env = e
    BY <2>1 DEF NewRow, Row, Status, NoLease
  <2>4. messages' = [Maintain(now) EXCEPT ![e.id] = NewRow(e, now)]
    BY <1>7 DEF SendAccept
  <2>5. messages' \in [MsgId -> Row \cup {NoRow}]
    BY <2>1, <2>3, <2>4, MaintainType
  <2>6. \A m \in Present(messages') : messages'[m].env.id = m
    BY <2>1, <2>2, <2>3, <2>4, MaintainType DEF Present, TypeOK
  <2>7. QED
    BY <1>7, <2>1, <2>5, <2>6 DEF SendAccept, TypeOK, Present
<1>8. ASSUME NEW h \in Handler, SendRollback(h)
      PROVE  TypeOK'
  BY <1>8 DEF SendRollback, TypeOK, Present
<1>9. ASSUME NEW h \in Handler, LeaseGrant(h)
      PROVE  TypeOK'
  <2> DEFINE now == op[h].now
             until == op[h].now + op[h].seconds
             table == Maintain(now)
  <2>1. /\ now \in Nat
        /\ op[h].seconds \in LeaseTimes
    BY <1>9, OpTypes DEF LeaseGrant, HoldsLock
  <2>2. until \in Nat
    <3>1. op[h].seconds \in Nat
      BY <2>1, TimeAssumption
    <3>2. QED
      BY <2>1, <3>1
  <2>3. PICK m \in Ready(op[h].peer, now) :
           /\ issued' = [issued EXCEPT ![m] = @ + 1]
           /\ messages' = [table EXCEPT ![m] = Grant(@, issued[m] + 1, until)]
    BY <1>9 DEF LeaseGrant
  <2>4. m \in Present(table)
    BY <2>3 DEF Ready
  <2> HIDE DEF until
  <2>5. /\ table \in [MsgId -> Row \cup {NoRow}]
        /\ \A n \in Present(table) : table[n] \in Row /\ table[n].env.id = n
    BY <2>1, MaintainType DEF TypeOK
  <2> HIDE DEF table
  <2>6. m \in MsgId /\ issued[m] + 1 \in Nat
    BY <2>4 DEF TypeOK, Present
  <2> DEFINE g == Grant(table[m], issued[m] + 1, until)
  <2>7. g \in Row /\ g.env = table[m].env
    <3>1. table[m] \in Row
      BY <2>4, <2>5
    <3>2. table[m].attempts + 1 \in Nat
      BY <3>1 DEF Row
    <3>3. QED
      BY <2>2, <2>6, <3>1, <3>2 DEF Grant, Row, Status
  <2>8. messages' = [table EXCEPT ![m] = g]
    BY <2>3, <2>5, <2>6
  <2> HIDE DEF g
  <2>9. /\ messages' \in [MsgId -> Row \cup {NoRow}]
        /\ \A n \in Present(messages') : messages'[n].env.id = n
    BY <2>4, <2>5, <2>6, <2>7, <2>8 DEF Present
  <2>10. issued' \in [MsgId -> Nat]
    BY <2>3, <2>6 DEF TypeOK
  <2>11. QED
    BY <1>9, <2>9, <2>10 DEF LeaseGrant, TypeOK, Present
<1>10. ASSUME NEW h \in Handler, LeaseNone(h) \/ StatusRun(h)
       PROVE  TypeOK'
  <2>1. op[h].now \in Nat /\ messages' = Maintain(op[h].now)
    BY <1>10, OpTypes DEF LeaseNone, StatusRun, HoldsLock
  <2>2. /\ messages' \in [MsgId -> Row \cup {NoRow}]
        /\ \A m \in Present(messages') : messages'[m].env.id = m
    BY <2>1, MaintainType DEF TypeOK
  <2>3. QED
    BY <1>10, <2>2 DEF LeaseNone, StatusRun, TypeOK, Present
<1>11. ASSUME NEW h \in Handler, GiveUp(h)
       PROVE  TypeOK'
  BY <1>11 DEF GiveUp, TypeOK, Present
<1>12. ASSUME NEW p \in Peer, NEW m \in MsgId, NEW l \in 1 .. issued[m],
              Acknowledge(p, m, l)
       PROVE  TypeOK'
  <2> DEFINE r == messages[m]
             a == [r EXCEPT !.status = "acknowledged", !.lease = NoLease,
                            !.until = NoLease]
  <2>1. r \in Row
    BY <1>12 DEF Acknowledge, TypeOK
  <2>2. a \in Row /\ a.env = r.env
    BY <2>1 DEF Row, Status, NoLease
  <2>3. messages' = [messages EXCEPT ![m] = a]
    BY <1>12 DEF Acknowledge, TypeOK
  <2>4. l \in Nat
    BY DEF TypeOK
  <2>5. QED
    BY <1>12, <2>1, <2>2, <2>3, <2>4 DEF Acknowledge, TypeOK, Present
<1>13. CASE UNCHANGED vars
  BY <1>13 DEF vars, TypeOK, Present
<1>14. QED
  BY <1>1, <1>2, <1>3, <1>4, <1>5, <1>6, <1>7, <1>8, <1>9, <1>10, <1>11,
     <1>12, <1>13 DEF Next, Run

\* Every variable has its type in every reachable state, and each row is stored
\* under its own id.
THEOREM TypeCorrect == Spec => []TypeOK
BY InitType, NextType, PTL DEF Spec
=============================================================================
