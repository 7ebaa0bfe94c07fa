--------------------------- MODULE SetBackProofs ----------------------------
(***************************************************************************)
(* Proofs about ClockSetBack.  RowStep and the facts about a row need no   *)
(* clock; in place of OpsSawThePast stands the weaker invariant that no    *)
(* operation saw a later time of day than the latest one.                  *)
(***************************************************************************)
EXTENDS ClockSetBack, MessageStoreSafety

SetBackInv ==
    /\ TypeOK
    /\ SendsWereTimely
    /\ latest \in Nat
    /\ clock <= latest
    /\ \A h \in Handler : op[h] # Idle => op[h].now <= latest

\* The clock alone moves, to wherever.
OnlyClock == UNCHANGED <<hub, peers, messages, op, issued, accepted, ackedWith>>

\* A step is one of the store, or one of the clock alone.
LEMMA StoreOrClock ==
    ASSUME [SetBackNext]_setBackVars
    PROVE  [Next]_vars \/ OnlyClock
BY DEF SetBackNext, Forward, SetBack, setBackVars, vars, OnlyClock

LEMMA SetBackInvariant == SetBackSpec => []SetBackInv
<1>1. SetBackInit => SetBackInv
  <2> SUFFICES ASSUME SetBackInit PROVE SetBackInv
    OBVIOUS
  <2>1. TypeOK
    BY InitType DEF SetBackInit
  <2>2. clock = 0 /\ latest = clock /\ \A h \in Handler : op[h] = Idle
    BY DEF SetBackInit, Init
  <2>3. QED
    BY <2>1, <2>2 DEF SetBackInv, SendsWereTimely, Idle
<1>2. SetBackInv /\ [SetBackNext]_setBackVars => SetBackInv'
  <2> SUFFICES ASSUME SetBackInv, [SetBackNext]_setBackVars
               PROVE  SetBackInv'
    OBVIOUS
  <2>1. CASE Forward(Next)
    <3>1. Next /\ latest' = IF clock' > latest THEN clock' ELSE latest
      BY <2>1 DEF Forward, Remember
    <3>2. TypeOK' /\ clock \in Nat /\ clock' \in Nat
      BY <3>1, NextType DEF SetBackInv, TypeOK
    <3>3. latest' \in Nat /\ clock' <= latest' /\ latest <= latest' /\ clock <= latest'
      BY <3>1, <3>2 DEF SetBackInv
    <3>4. ASSUME NEW h \in Handler, op'[h] # Idle
          PROVE  op'[h].now <= latest'
      <4>1. CASE op'[h] = op[h]
        <5>1. op[h].now \in Nat /\ op[h].now <= latest
          BY <3>4, <4>1 DEF SetBackInv, TypeOK, SendOp, LeaseOp, StatusOp
        <5>2. QED
          BY <3>3, <4>1, <5>1 DEF SetBackInv
      <4>2. CASE op'[h].now = clock
        BY <3>3, <4>2
      <4>3. QED
        BY <3>1, <3>4, <4>1, <4>2, OpsReadClock DEF SetBackInv
    <3>5. SendsWereTimely'
      BY <3>1, SendsStep DEF SetBackInv
    <3>6. QED
      BY <3>2, <3>3, <3>4, <3>5 DEF SetBackInv
  <2>2. CASE SetBack /\ UNCHANGED latest
    <3>1. /\ clock' \in 0 .. clock - 1 /\ clock \in Nat
          /\ OnlyClock /\ latest' = latest
      BY <2>2 DEF SetBack, SetBackInv, TypeOK, OnlyClock
    <3>2. TypeOK'
      BY <3>1 DEF SetBackInv, TypeOK, Present, OnlyClock
    <3>3. QED
      BY <3>1, <3>2 DEF SetBackInv, SendsWereTimely, OnlyClock
  <2>3. CASE UNCHANGED setBackVars
    BY <2>3 DEF setBackVars, vars, SetBackInv, TypeOK, Present, SendsWereTimely
  <2>4. QED
    BY <2>1, <2>2, <2>3 DEF SetBackNext
<1>3. QED
  BY <1>1, <1>2, PTL DEF SetBackSpec

\* The latest time of day only grows.
LEMMA LatestGrows ==
    ASSUME SetBackInv, [SetBackNext]_setBackVars
    PROVE  latest' \in Nat /\ latest <= latest'
<1>1. CASE Forward(Next)
  <2>1. clock' \in Nat
    BY <1>1, NextType DEF Forward, SetBackInv, TypeOK
  <2>2. QED
    BY <1>1, <2>1 DEF Forward, Remember, SetBackInv
<1>2. CASE latest' = latest
  BY <1>2 DEF SetBackInv
<1>3. QED
  BY <1>1, <1>2 DEF SetBackNext, setBackVars

\* What an operation with the lock compares, by the latest time of day.
LEMMA WorkingByLatest ==
    ASSUME SetBackInv, NEW h \in Handler, Working(h)
    PROVE  op[h].now \in Nat /\ op[h].now <= latest
BY WorkingTypes DEF SetBackInv

----------------------------------------------------------------------------
(* What does not depend on the clock: leases, fencing, order, the limit.   *)

\* The lease in a row is the last one that was given; no clock is needed for it.
LEMMA LeaseInvSetBack == SetBackSpec => []LeaseInv
<1>1. SetBackInit => LeaseInv
  BY DEF SetBackInit, Init, LeaseInv, ColumnsOfRow, FencedRow
<1>2. SetBackInv /\ LeaseInv /\ [SetBackNext]_setBackVars => LeaseInv'
  <2>1. LeaseInv /\ OnlyClock => LeaseInv'
    BY DEF OnlyClock, LeaseInv, ColumnsOfRow, FencedRow
  <2>2. QED
    BY <2>1, StoreOrClock, LeaseInvKept DEF SetBackInv
<1>3. QED
  BY <1>1, <1>2, SetBackInvariant, PTL DEF SetBackSpec

\* A message is settled only by the lease that was given last, whatever the clock
\* says: acknowledge compares lease ids and no times.
THEOREM FencingSurvivesSetBack == SetBackSpec => []FencedAck
<1>1. LeaseInv => FencedAck
  BY DEF LeaseInv, FencedRow, FencedAck, Present
<1>2. QED
  BY <1>1, LeaseInvSetBack, PTL

\* The columns of the lease are filled in a leased row and only there, also after
\* a maintenance by a clock that was set back.
THEOREM ColumnsSurviveSetBack == SetBackSpec => []LeaseColumnsAgree
<1>1. LeaseInv => LeaseColumnsAgree
  BY DEF LeaseInv, ColumnsOfRow, LeaseColumnsAgree, Present
<1>2. QED
  BY <1>1, LeaseInvSetBack, PTL

\* The limit holds although a clock that was set back expires nothing.
THEOREM LimitSurvivesSetBack == SetBackSpec => []CapacityRespected
<1>1. SetBackInit => CapacityRespected
  BY CapacityAtFirst DEF SetBackInit
<1>2. SetBackInv /\ CapacityRespected /\ [SetBackNext]_setBackVars =>
        CapacityRespected'
  <2>1. CapacityRespected /\ OnlyClock => CapacityRespected'
    BY DEF OnlyClock, CapacityRespected, Present
  <2>2. QED
    BY <2>1, StoreOrClock, CapacityKept DEF SetBackInv
<1>3. QED
  BY <1>1, <1>2, SetBackInvariant, PTL DEF SetBackSpec

\* The checks of send_message compare a message with one reading of the clock,
\* which is also the time it is received at.
LEMMA BoundedRows == SetBackSpec => [](\A m \in MsgId : BoundedRow(m))
<1> DEFINE Inv == \A m \in MsgId : BoundedRow(m)
<1>1. SetBackInit => Inv
  BY DEF SetBackInit, Init, BoundedRow
<1>2. SetBackInv /\ Inv /\ [SetBackNext]_setBackVars => Inv'
  <2>1. Inv /\ OnlyClock => Inv'
    BY DEF OnlyClock, BoundedRow
  <2>2. SetBackInv /\ Inv /\ [Next]_vars => Inv'
    BY LifetimeKept DEF SetBackInv
  <2>3. QED
    BY <2>1, <2>2, StoreOrClock
<1>3. QED
  BY <1>1, <1>2, SetBackInvariant, PTL DEF SetBackSpec

\* A stored message expires within MAX_MESSAGE_LIFETIME and the tolerated skew of
\* the time of day it was received at, whatever the clock does afterwards.
THEOREM LifetimeSurvivesSetBack == SetBackSpec => []BoundedLifetime
<1>1. (\A m \in MsgId : BoundedRow(m)) => BoundedLifetime
  BY DEF BoundedRow, BoundedLifetime, Present
<1>2. QED
  BY <1>1, BoundedRows, PTL

\* The order does not depend on the clock: setting it back grants nothing.
THEOREM OrderSurvivesSetBack == SetBackSpec => NoOvertaking
<1>1. [SetBackNext]_setBackVars => [Next]_vars \/ \A m \in MsgId : ~Granted(m)
  BY StoreOrClock DEF OnlyClock, Granted
<1>2. SetBackInv /\ [SetBackNext]_setBackVars =>
        [\A m \in MsgId :
          Granted(m) =>
            \A k \in Present(messages') :
                /\ messages'[k].status = "pending"
                /\ messages'[k].env.recipient = messages'[m].env.recipient
                => ~MoreUrgent(messages'[k].env, messages'[m].env)]_vars
  BY <1>1, GrantInOrder DEF Granted, SetBackInv
<1>3. QED
  BY <1>2, SetBackInvariant, PTL DEF SetBackSpec, NoOvertaking

\* A row keeps its message, whatever the clock says.
LEMMA SameMessageAfterSetBack ==
    ASSUME SetBackInv, [SetBackNext]_setBackVars, NEW m \in MsgId,
           messages'[m] # NoRow
    PROVE  \/ messages[m] # NoRow /\ messages'[m].env = messages[m].env
           \/ \E h \in Handler : Inserted(m, h)
BY StoreOrClock, SameMessage DEF SetBackInv, OnlyClock

\* No clock decides what is accepted as the answer to what.
LEMMA StoredInvSetBack == SetBackSpec => []StoredWasAccepted
<1>1. SetBackInit => StoredWasAccepted
  BY DEF SetBackInit, Init, StoredWasAccepted
<1>2. SetBackInv /\ StoredWasAccepted /\ [SetBackNext]_setBackVars =>
        StoredWasAccepted'
  <2>1. StoredWasAccepted /\ OnlyClock => StoredWasAccepted'
    BY DEF OnlyClock, StoredWasAccepted
  <2>2. QED
    BY <2>1, StoreOrClock, StoredKept DEF SetBackInv
<1>3. QED
  BY <1>1, <1>2, SetBackInvariant, PTL DEF SetBackSpec

\* A reply is only accepted into a conversation of its own two peers, although a
\* clock that is set back gives ids free earlier and keeps originals longer.
THEOREM RepliesSurviveSetBack == SetBackSpec => []RepliesStayInConversation
<1>1. SetBackInit => RepliesStayInConversation
  BY DEF SetBackInit, Init, RepliesStayInConversation
<1>2. SetBackInv /\ StoredWasAccepted /\ RepliesStayInConversation
        /\ [SetBackNext]_setBackVars => RepliesStayInConversation'
  <2>1. RepliesStayInConversation /\ OnlyClock => RepliesStayInConversation'
    BY DEF OnlyClock, RepliesStayInConversation
  <2>2. QED
    BY <2>1, StoreOrClock, RepliesKept DEF SetBackInv
<1>3. QED
  BY <1>1, <1>2, SetBackInvariant, StoredInvSetBack, PTL DEF SetBackSpec

----------------------------------------------------------------------------
(* What the latest time of day decides.                                    *)

\* What leaves the queue unread had expired by the latest time of day.
THEOREM NothingLostBySetBack == SetBackSpec => SetBackLosesNothing
<1>1. ASSUME SetBackInv, [SetBackNext]_setBackVars, NEW m \in MsgId,
             messages[m] # NoRow, IsLive(messages[m])
      PROVE  \/ messages[m].env.expires <= latest
             \/ /\ messages'[m] # NoRow
                /\ messages'[m].env = messages[m].env
                /\ messages'[m].received = messages[m].received
                /\ messages'[m].status # "expired"
  <2>1. CASE OnlyClock
    BY <1>1, <2>1 DEF OnlyClock, IsLive
  <2>2. ASSUME NEW n \in Nat, n <= latest, messages[m].env.expires <= n
        PROVE  messages[m].env.expires <= latest
    BY <1>1, <2>2, RowNumbers DEF SetBackInv
  <2>3. CASE [Next]_vars /\ messages'[m] = NoRow
    BY <1>1, <2>2, <2>3, RowGone, WorkingByLatest DEF SetBackInv
  <2>4. CASE [Next]_vars /\ messages'[m] # NoRow
    <3>1. ASSUME NEW h \in Handler, Maintained(m, h)
          PROVE  \/ messages[m].env.expires <= latest
                 \/ messages'[m].status # "expired"
      BY <1>1, <2>2, <2>4, <3>1, MaintainedFacts, WorkingByLatest
      DEF Maintained, IsLive, SetBackInv
    <3>2. ASSUME NEW h \in Handler, Leased(m, h)
          PROVE  messages'[m].status # "expired"
      BY <1>1, <3>2, LeasedFacts DEF SetBackInv
    <3>3. Acked(m) => messages'[m].status # "expired"
      BY <1>1, AckedFacts DEF SetBackInv
    <3>4. Kept(m) => messages'[m].status # "expired"
      BY <1>1 DEF Kept, IsLive
    <3>5. ASSUME NEW h \in Handler
          PROVE  ~Inserted(m, h)
      BY <1>1 DEF Inserted
    <3>6. QED
      BY <1>1, <2>4, <3>1, <3>2, <3>3, <3>4, <3>5, RowStep, SameMessage
      DEF SetBackInv
  <2>5. QED
    BY <1>1, <2>1, <2>3, <2>4, StoreOrClock
<1>2. SetBackInv /\ [SetBackNext]_setBackVars =>
        [\A m \in Present(messages) :
          IsLive(messages[m]) =>
            \/ messages[m].env.expires <= latest
            \/ /\ messages'[m] # NoRow
               /\ messages'[m].env = messages[m].env
               /\ messages'[m].received = messages[m].received
               /\ messages'[m].status # "expired"]_setBackVars
  BY <1>1 DEF Present
<1>3. QED
  BY <1>2, SetBackInvariant, PTL DEF SetBackSpec, SetBackLosesNothing

\* A lease that had not run out by the latest time of day is the holder's.
THEOREM LeaseHonouredAfterSetBack == SetBackSpec => SetBackHonoursLease
<1>1. ASSUME SetBackInv, [SetBackNext]_setBackVars, NEW m \in MsgId,
             messages[m] # NoRow, messages[m].status = "leased",
             messages[m].until > latest, messages[m].env.expires > latest
      PROVE  \/ messages'[m] = messages[m]
             \/ /\ messages'[m] # NoRow
                /\ messages'[m].status = "acknowledged"
                /\ ackedWith'[m] = messages[m].lease
  <2>1. ASSUME NEW h \in Handler, Working(h)
        PROVE  /\ ~(messages[m].until <= op[h].now)
               /\ ~(messages[m].env.expires <= op[h].now)
    BY <1>1, <2>1, WorkingByLatest, RowNumbers DEF SetBackInv
  <2>2. ASSUME NEW h \in Handler, Maintained(m, h)
        PROVE  messages'[m] = messages[m]
    BY <1>1, <2>1, <2>2, MaintainedFacts DEF Maintained, IsLive, SetBackInv
  <2>3. ASSUME NEW h \in Handler, Leased(m, h)
        PROVE  FALSE
    <3>1. messages[m].until <= op[h].now
      BY <1>1, <2>3, LeasedFacts DEF SetBackInv
    <3>2. QED
      BY <2>1, <2>3, <3>1 DEF Leased
  <2>4. ASSUME NEW h \in Handler
        PROVE  ~Inserted(m, h)
    BY <1>1 DEF Inserted
  <2>5. CASE Acked(m)
    BY <1>1, <2>5, AckedFacts, NoRowAssumption DEF Acked, SetBackInv
  <2>6. QED
    BY <1>1, <2>2, <2>3, <2>4, <2>5, StoreOrClock, RowStep
    DEF SetBackInv, Kept, OnlyClock
<1>2. SetBackInv /\ [SetBackNext]_setBackVars =>
        [\A m \in Present(messages) :
          LET r == messages[m]
          IN  r.status = "leased" /\ r.until > latest /\ r.env.expires > latest =>
                \/ messages'[m] = r
                \/ /\ messages'[m] # NoRow
                   /\ messages'[m].status = "acknowledged"
                   /\ ackedWith'[m] = r.lease]_setBackVars
  BY <1>1 DEF Present
<1>3. QED
  BY <1>2, SetBackInvariant, PTL DEF SetBackSpec, SetBackHonoursLease

\* With a retention that covers a message's life, the tolerated skew and the
\* wait for the lock, the hub forgets a message it accepted only after a time of
\* day at which the message had expired.  ResubmissionRecognised does not
\* survive: once the clock is set back, such a message is accepted again.
THEOREM RememberedByLatest ==
    ASSUME RetentionCoversLifetime
    PROVE  SetBackSpec => []SetBackRemembers
<1>1. SetBackInit => SetBackRemembers
  BY DEF SetBackInit, Init, SetBackRemembers
<1>2. ASSUME SetBackInv, \A m \in MsgId : BoundedRow(m), SetBackRemembers,
             [SetBackNext]_setBackVars
      PROVE  SetBackRemembers'
  <2> SUFFICES ASSUME NEW e \in accepted'
               PROVE  \/ messages'[e.id] # NoRow /\ messages'[e.id].env = e
                      \/ e.expires + BusyTimeout <= latest'
    BY DEF SetBackRemembers
  <2>1. CASE e \notin accepted
    BY <1>2, <2>1, AcceptStep, StoreOrClock DEF SetBackInv, OnlyClock
  <2>2. CASE e \in accepted /\ e.expires + BusyTimeout <= latest
    <3>1. e.expires \in Nat
      BY <1>2, <2>2, EnvelopeAssumption DEF SetBackInv, TypeOK, EnvelopeShape
    <3>2. QED
      BY <1>2, <2>2, <3>1, LatestGrows, TimeAssumption DEF SetBackInv
  <2>3. CASE e \in accepted /\ messages[e.id] # NoRow /\ messages[e.id].env = e
    <3>1. e.id \in MsgId /\ e.expires \in Nat
      BY <1>2, <2>3, EnvelopeAssumption DEF SetBackInv, TypeOK, EnvelopeShape
    <3>2. CASE messages'[e.id] # NoRow
      BY <1>2, <2>3, <3>1, <3>2, SameMessageAfterSetBack DEF Inserted
    <3>3. CASE messages'[e.id] = NoRow
      <4>1. [Next]_vars
        BY <1>2, <2>3, <3>1, <3>3, StoreOrClock DEF OnlyClock
      <4>2. PICK h \in Handler :
               Working(h) /\ messages[e.id].received + Retention <= op[h].now
        BY <1>2, <2>3, <3>1, <3>3, <4>1, RowGone DEF SetBackInv
      <4>3. op[h].now \in Nat /\ op[h].now <= latest /\ latest \in Nat
        BY <1>2, <4>2, WorkingByLatest DEF SetBackInv
      <4>4. messages[e.id].received \in Nat
        BY <1>2, <2>3, <3>1, RowNumbers DEF SetBackInv
      <4>5. e.expires <= messages[e.id].received + Skew + Lifetime
        BY <1>2, <2>3, <3>1 DEF BoundedRow
      <4>6. e.expires + BusyTimeout <= latest
        BY <3>1, <4>2, <4>3, <4>4, <4>5, TimeAssumption
        DEF RetentionCoversLifetime
      <4>7. QED
        BY <1>2, <3>1, <4>3, <4>6, LatestGrows, TimeAssumption
    <3>4. QED
      BY <3>2, <3>3
  <2>4. QED
    BY <1>2, <2>1, <2>2, <2>3 DEF SetBackRemembers
<1>3. QED
  BY <1>1, <1>2, SetBackInvariant, BoundedRows, PTL DEF SetBackSpec
=============================================================================
