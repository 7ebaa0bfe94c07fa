---------------------------- MODULE MessageStore ----------------------------
(***************************************************************************)
(* The messages table of the Courier hub (store.py) and the operations of  *)
(* CourierStore that read and change it.  Request threads run them         *)
(* concurrently.  BEGIN IMMEDIATE takes SQLite's write lock, so each       *)
(* transaction is one atomic step; but send_message, lease_next and status *)
(* read the wall clock BEFORE they ask for the lock and may then wait for  *)
(* it, so the `now' a transaction works with can be older than the         *)
(* transactions that committed before it.  A waiting operation is an entry *)
(* of `op'.  acknowledge takes no decision by the clock.                   *)
(***************************************************************************)
EXTENDS Integers, FiniteSets

CONSTANTS
    Peer,          \* peer ids that register_peer may issue
    MsgId,         \* message ids; their order is the text order of the UUIDs
    Envelope,      \* the messages clients submit, recipient already resolved
    Handler,       \* request threads of the hub
    NoRow,         \* an id that has no row
    MaxPeers,      \* --max-peers
    MaxMessages,   \* --max-messages
    Retention,     \* --retention-seconds
    LeaseTimes,    \* the lease_seconds that clients ask for
    Skew,          \* how far sent_at may lie ahead (five minutes)
    Lifetime,      \* MAX_MESSAGE_LIFETIME (30 days)
    BusyTimeout,   \* how long BEGIN IMMEDIATE waits for the lock (10 s)
    MaxClock       \* bound on the clock

NoReply == 0       \* reply_to = ""
NoLease == 0       \* lease_id and lease_until are NULL

EnvelopeShape ==
    [id: MsgId, sender: Peer, recipient: Peer, body: STRING, sent: Nat,
     expires: Nat, replyTo: MsgId \cup {NoReply},
     priority: {"high", "normal", "low"}]

Status == {"pending", "leased", "acknowledged", "expired"}

Row == [env: Envelope, received: Nat, status: Status, lease: Nat,
        until: Nat, attempts: Nat]

Idle == [kind |-> "idle"]
SendOp == [kind: {"send"}, env: Envelope, now: Nat]
LeaseOp == [kind: {"lease"}, peer: Peer, seconds: LeaseTimes, now: Nat]
StatusOp == [kind: {"status"}, now: Nat]

ASSUME IdAssumption == MsgId \subseteq Nat \ {0}
ASSUME EnvelopeAssumption == Envelope \subseteq EnvelopeShape
ASSUME NoRowAssumption == NoRow \notin Row
ASSUME LimitAssumption ==
    /\ MaxPeers \in Nat \ {0}
    /\ MaxMessages \in Nat \ {0}
    /\ IsFiniteSet(MsgId)
    /\ IsFiniteSet(Peer)
ASSUME TimeAssumption ==
    /\ Retention \in Nat
    /\ Skew \in Nat
    /\ Lifetime \in Nat \ {0}
    /\ BusyTimeout \in Nat \ {0}
    /\ LeaseTimes \subseteq Nat \ {0}
    /\ MaxClock \in Nat

VARIABLES
    hub,        \* the server process: "up" or "down"
    clock,      \* the hub's wall clock
    peers,      \* ids with a row in the peers table
    messages,   \* the messages table, by message id
    op,         \* what each request thread is doing
    issued,     \* per id, how many lease ids were ever drawn for it
    accepted,   \* history: envelopes that were ever inserted
    ackedWith   \* history: per id, the lease id of its last acknowledgement

vars == <<hub, clock, peers, messages, op, issued, accepted, ackedWith>>

----------------------------------------------------------------------------
(* The maintenance that every send, claim and status performs.             *)

Present(table) == {m \in MsgId : table[m] # NoRow}

IsLive(r) == r.status \in {"pending", "leased"}

\* Fault: only pending rows expire.
ExpirePendingOnly(r, now) ==
    IF r.status = "pending" /\ r.env.expires <= now
    THEN [r EXCEPT !.status = "expired", !.lease = NoLease, !.until = NoLease]
    ELSE r

\* Fault: a row that was received after the time of day is taken for garbage.
ExpireFromFuture(r, now) ==
    IF IsLive(r) /\ (r.env.expires <= now \/ r.received > now)
    THEN [r EXCEPT !.status = "expired", !.lease = NoLease, !.until = NoLease]
    ELSE r

Expire(r, now) ==
    IF IsLive(r) /\ r.env.expires <= now
    THEN [r EXCEPT !.status = "expired", !.lease = NoLease, !.until = NoLease]
    ELSE r

\* Fault: a leased row is released whatever its lease_until.
ReleaseAnyLease(r, now) ==
    IF r.status = "leased" /\ r.env.expires > now
    THEN [r EXCEPT !.status = "pending", !.lease = NoLease, !.until = NoLease]
    ELSE r

\* Fault: the released row keeps its old lease_id.
ReleaseKeepsLease(r, now) ==
    IF r.status = "leased" /\ r.until <= now /\ r.env.expires > now
    THEN [r EXCEPT !.status = "pending", !.until = NoLease]
    ELSE r

\* Fault: the comparison of Expire is copied, no live row is ever released.
ReleaseExpired(r, now) ==
    IF r.status = "leased" /\ r.until <= now /\ r.env.expires <= now
    THEN [r EXCEPT !.status = "pending", !.lease = NoLease, !.until = NoLease]
    ELSE r

\* Fault: a lease that ends too far ahead is taken for one of a wrong clock.
ReleaseImplausible(r, now) ==
    IF /\ r.status = "leased" /\ r.env.expires > now
       /\ r.until <= now \/ \A s \in LeaseTimes : r.until > now + s
    THEN [r EXCEPT !.status = "pending", !.lease = NoLease, !.until = NoLease]
    ELSE r

Release(r, now) ==
    IF r.status = "leased" /\ r.until <= now /\ r.env.expires > now
    THEN [r EXCEPT !.status = "pending", !.lease = NoLease, !.until = NoLease]
    ELSE r

\* Fault: the cleanup does not look at the status.
PurgeableByAge(r, now) == r.received + Retention <= now

\* Fault: the cutoff is off by one.
PurgeableTooSoon(r, now) ==
    /\ r.status \in {"acknowledged", "expired"}
    /\ r.received + Retention <= now + 1

Purgeable(r, now) ==
    /\ r.status \in {"acknowledged", "expired"}
    /\ r.received + Retention <= now

MaintainRow(r, now) ==
    LET kept == Release(Expire(r, now), now)
    IN  IF Purgeable(kept, now) THEN NoRow ELSE kept

\* The messages table after _maintain.
Maintain(now) ==
    [m \in MsgId |->
        IF messages[m] = NoRow THEN NoRow ELSE MaintainRow(messages[m], now)]

----------------------------------------------------------------------------
Init ==
    /\ hub = "up"
    /\ clock = 0
    /\ peers = {}
    /\ messages = [m \in MsgId |-> NoRow]
    /\ op = [h \in Handler |-> Idle]
    /\ issued = [m \in MsgId |-> 0]
    /\ accepted = {}
    /\ ackedWith = [m \in MsgId |-> NoLease]

Tick ==
    /\ clock < MaxClock
    /\ clock' = clock + 1
    /\ UNCHANGED <<hub, peers, messages, op, issued, accepted, ackedWith>>

\* register_peer: the id is a fresh UUID, the limit is checked under the lock.
\* An alias conflict refuses the registration and changes nothing here.
RegisterPeer(p) ==
    /\ hub = "up"
    /\ p \notin peers
    /\ Cardinality(peers) < MaxPeers
    /\ peers' = peers \cup {p}
    /\ UNCHANGED <<hub, clock, messages, op, issued, accepted, ackedWith>>

\* Fault: no busy timeout, a transaction may start however late.
HoldsLockAnyTime(h, kind) == op[h].kind = kind

\* A thread that waits for the write lock gets it within the busy timeout ...
HoldsLock(h, kind) ==
    /\ op[h].kind = kind
    /\ clock <= op[h].now + BusyTimeout

\* ... or gives up: sqlite3 raises OperationalError and nothing is written.  At
\* the bound of the clock the wait passes without being seen.
GiveUp(h) ==
    /\ op[h] # Idle
    /\ clock >= op[h].now + BusyTimeout \/ clock = MaxClock
    /\ op' = [op EXCEPT ![h] = Idle]
    /\ UNCHANGED <<hub, clock, peers, messages, issued, accepted, ackedWith>>

\* The hub dies: open transactions roll back, the tables stay.
Crash ==
    /\ hub = "up"
    /\ hub' = "down"
    /\ op' = [h \in Handler |-> Idle]
    /\ UNCHANGED <<clock, peers, messages, issued, accepted, ackedWith>>

\* It is started again on the same database; initialize changes no table.
Boot ==
    /\ hub = "down"
    /\ hub' = "up"
    /\ UNCHANGED <<clock, peers, messages, op, issued, accepted, ackedWith>>

----------------------------------------------------------------------------
(* send_message                                                            *)

\* Fault: sent_at is not compared with the clock.
TimelyIgnoringSkew(e) == e.expires > clock

\* The checks made before the transaction, with the clock as it is then.  What is
\* not timely is refused at once and changes nothing here, whether its id is
\* known or not: Delivery has the answer.
Timely(e) ==
    /\ e.sent <= clock + Skew
    /\ e.expires > clock

SendStart(h, e) ==
    /\ hub = "up"
    /\ op[h] = Idle
    /\ e.sender \in peers
    /\ Timely(e)
    /\ op' = [op EXCEPT ![h] = [kind |-> "send", env |-> e, now |-> clock]]
    /\ UNCHANGED <<hub, clock, peers, messages, issued, accepted, ackedWith>>

\* Message.__post_init__, the part that relates the two timestamps.
WellFormed(e) ==
    /\ e.expires > e.sent
    /\ e.expires - e.sent <= Lifetime

Participants(e) == {e.sender, e.recipient}

\* Fault: a reply only needs its original to exist.
ReplyFitsAnyone(e) == e.replyTo # NoReply => messages[e.replyTo] # NoRow

ReplyFits(e) ==
    e.replyTo # NoReply =>
        /\ messages[e.replyTo] # NoRow
        /\ Participants(messages[e.replyTo].env) = Participants(e)

\* Fault: the limit is exceeded by one.
HasRoomOffByOne(now) == Cardinality(Present(Maintain(now))) <= MaxMessages

HasRoom(now) == Cardinality(Present(Maintain(now))) < MaxMessages

Insertable(e, now) ==
    /\ e.recipient \in peers
    /\ WellFormed(e)
    /\ messages[e.id] = NoRow
    /\ ReplyFits(e)
    /\ HasRoom(now)

\* Fault: a status that the CHECK constraint of the table does not list.
NewRowQueued(e, now) ==
    [env |-> e, received |-> now, status |-> "queued", lease |-> NoLease,
     until |-> NoLease, attempts |-> 0]

NewRow(e, now) ==
    [env |-> e, received |-> now, status |-> "pending", lease |-> NoLease,
     until |-> NoLease, attempts |-> 0]

SendAccept(h) ==
    /\ HoldsLock(h, "send")
    /\ LET e == op[h].env
           now == op[h].now
       IN  /\ Insertable(e, now)
           /\ messages' = [Maintain(now) EXCEPT ![e.id] = NewRow(e, now)]
           /\ accepted' = accepted \cup {e}
    /\ op' = [op EXCEPT ![h] = Idle]
    /\ UNCHANGED <<hub, clock, peers, issued, ackedWith>>

\* An id that is already known (same content or not), an unknown recipient, a
\* malformed message, a bad reply_to or a full table: all roll back, and with
\* them the maintenance that ran in the same transaction.
SendRollback(h) ==
    /\ HoldsLock(h, "send")
    /\ ~Insertable(op[h].env, op[h].now)
    /\ op' = [op EXCEPT ![h] = Idle]
    /\ UNCHANGED <<hub, clock, peers, messages, issued, accepted, ackedWith>>

----------------------------------------------------------------------------
(* lease_next                                                              *)

LeaseStart(h, p, s) ==
    /\ hub = "up"
    /\ op[h] = Idle
    /\ p \in peers
    /\ op' = [op EXCEPT ![h] =
                [kind |-> "lease", peer |-> p, seconds |-> s, now |-> clock]]
    /\ UNCHANGED <<hub, clock, peers, messages, issued, accepted, ackedWith>>

Ready(p, now) ==
    {m \in Present(Maintain(now)) :
        LET r == Maintain(now)[m]
        IN  r.status = "pending" /\ r.env.recipient = p /\ r.env.expires > now}

Rank == [high |-> 0, normal |-> 1, low |-> 2]

\* Fault: the text of the priority is compared ("high" < "low" < "normal").
BeforeByText(e, f) ==
    LET text == [high |-> 0, low |-> 1, normal |-> 2]
    IN  \/ text[e.priority] < text[f.priority]
        \/ text[e.priority] = text[f.priority] /\ e.sent < f.sent
        \/ /\ text[e.priority] = text[f.priority]
           /\ e.sent = f.sent /\ e.id < f.id

\* ORDER BY priority, sent_at, message_id.
Before(e, f) ==
    \/ Rank[e.priority] < Rank[f.priority]
    \/ Rank[e.priority] = Rank[f.priority] /\ e.sent < f.sent
    \/ Rank[e.priority] = Rank[f.priority] /\ e.sent = f.sent /\ e.id < f.id

\* Fault: leases are numbered by the attempts of the row.
GrantByAttempt(r, l, until) ==
    [r EXCEPT !.status = "leased", !.lease = r.attempts + 1, !.until = until,
              !.attempts = @ + 1]

Grant(r, l, until) ==
    [r EXCEPT !.status = "leased", !.lease = l, !.until = until,
              !.attempts = @ + 1]

LeaseGrant(h) ==
    /\ HoldsLock(h, "lease")
    /\ LET table == Maintain(op[h].now)
           ready == Ready(op[h].peer, op[h].now)
       IN  \E m \in ready :
             /\ \A k \in ready \ {m} : Before(table[m].env, table[k].env)
             /\ issued' = [issued EXCEPT ![m] = @ + 1]
             /\ messages' = [table EXCEPT ![m] =
                   Grant(@, issued[m] + 1, op[h].now + op[h].seconds)]
    /\ op' = [op EXCEPT ![h] = Idle]
    /\ UNCHANGED <<hub, clock, peers, accepted, ackedWith>>

\* Nothing is ready: the maintenance is committed all the same.
LeaseNone(h) ==
    /\ HoldsLock(h, "lease")
    /\ Ready(op[h].peer, op[h].now) = {}
    /\ messages' = Maintain(op[h].now)
    /\ op' = [op EXCEPT ![h] = Idle]
    /\ UNCHANGED <<hub, clock, peers, issued, accepted, ackedWith>>

----------------------------------------------------------------------------
(* acknowledge and status                                                  *)

\* Fault: the lease id is not compared.
HoldsAnyLease(r, p, l) == r.env.recipient = p /\ r.status = "leased"

HoldsLease(r, p, l) ==
    /\ r.env.recipient = p
    /\ r.status = "leased"
    /\ r.lease = l

\* acknowledge looks at the row only: neither lease_until nor expires_at is
\* compared with the clock.  A refused call (LeaseConflict) changes nothing.
Acknowledge(p, m, l) ==
    /\ hub = "up"
    /\ p \in peers
    /\ messages[m] # NoRow
    /\ HoldsLease(messages[m], p, l)
    /\ messages' = [messages EXCEPT ![m].status = "acknowledged",
                                    ![m].lease = NoLease,
                                    ![m].until = NoLease]
    /\ ackedWith' = [ackedWith EXCEPT ![m] = l]
    /\ UNCHANGED <<hub, clock, peers, op, issued, accepted>>

StatusStart(h) ==
    /\ hub = "up"
    /\ op[h] = Idle
    /\ peers # {}
    /\ op' = [op EXCEPT ![h] = [kind |-> "status", now |-> clock]]
    /\ UNCHANGED <<hub, clock, peers, messages, issued, accepted, ackedWith>>

StatusRun(h) ==
    /\ HoldsLock(h, "status")
    /\ messages' = Maintain(op[h].now)
    /\ op' = [op EXCEPT ![h] = Idle]
    /\ UNCHANGED <<hub, clock, peers, issued, accepted, ackedWith>>

----------------------------------------------------------------------------
Run(h) ==
    \/ SendAccept(h)
    \/ SendRollback(h)
    \/ LeaseGrant(h)
    \/ LeaseNone(h)
    \/ StatusRun(h)
    \/ GiveUp(h)

Poll(h) == \E p \in Peer, s \in LeaseTimes : LeaseStart(h, p, s)

Next ==
    \/ Tick
    \/ Crash
    \/ Boot
    \/ \E p \in Peer : RegisterPeer(p)
    \/ \E h \in Handler :
          \/ \E e \in Envelope : SendStart(h, e)
          \/ Poll(h)
          \/ StatusStart(h)
          \/ Run(h)
    \/ \E p \in Peer, m \in MsgId :
          \E l \in 1 .. issued[m] : Acknowledge(p, m, l)

Spec == Init /\ [][Next]_vars

----------------------------------------------------------------------------
(* Properties                                                              *)

\* Every variable has its type and every row is stored under its own id, with
\* a status that the CHECK constraint of the table admits.
TypeOK ==
    /\ hub \in {"up", "down"}
    /\ clock \in Nat
    /\ peers \subseteq Peer
    /\ messages \in [MsgId -> Row \cup {NoRow}]
    /\ \A m \in Present(messages) : messages[m].env.id = m
    /\ op \in [Handler -> {Idle} \cup SendOp \cup LeaseOp \cup StatusOp]
    /\ issued \in [MsgId -> Nat]
    /\ accepted \subseteq Envelope
    /\ ackedWith \in [MsgId -> Nat]

\* lease_id and lease_until are set exactly while the row is leased, the lease
\* in the row is the one issued last, and what was never handed out is neither
\* leased nor acknowledged.
LeaseColumnsAgree ==
    \A m \in Present(messages) :
        LET r == messages[m]
        IN  /\ r.status = "leased" <=> r.lease # NoLease
            /\ r.status = "leased" <=> r.until # NoLease
            /\ r.lease # NoLease => r.lease = issued[m]
            /\ r.status \in {"leased", "acknowledged"} => r.attempts > 0
            /\ r.attempts <= issued[m]

\* An acknowledged message was acknowledged with the last lease ever issued for
\* it: a consumer whose lease was given to another one cannot settle it.
FencedAck ==
    \A m \in Present(messages) :
        messages[m].status = "acknowledged" => ackedWith[m] = issued[m]

\* The table never outgrows --max-messages, whatever runs concurrently.
CapacityRespected == Cardinality(Present(messages)) <= MaxMessages

\* A stored message has a bounded life: it was not expired by the clock its
\* sender's request saw, and it expires at most MAX_MESSAGE_LIFETIME and the
\* tolerated five minutes after the hub received it.
BoundedLifetime ==
    \A m \in Present(messages) :
        LET r == messages[m]
        IN  /\ r.received < r.env.expires
            /\ r.env.expires <= r.received + Skew + Lifetime

\* A reply is only ever accepted into a conversation of its own sender and
\* recipient: the hub had accepted a message between these two under the id it
\* answers, whoever else uses that id once the message is cleaned up.
RepliesStayInConversation ==
    \A e \in accepted :
        e.replyTo # NoReply =>
            \E f \in accepted :
                f.id = e.replyTo /\ Participants(f) = Participants(e)

\* A message leaves the queue by an acknowledgement or after its own deadline,
\* never otherwise, and it is the same message until then.
NothingLost ==
    [][\A m \in Present(messages) :
          IsLive(messages[m]) =>
            \/ messages[m].env.expires <= clock
            \/ /\ messages'[m] # NoRow
               /\ messages'[m].env = messages[m].env
               /\ messages'[m].received = messages[m].received
               /\ messages'[m].status # "expired"]_vars

\* A settled row stays as it is until the retention window has passed.
AuditKept ==
    [][\A m \in Present(messages) :
          ~IsLive(messages[m]) =>
            \/ messages'[m] = messages[m]
            \/ /\ messages'[m] = NoRow
               /\ messages[m].received + Retention <= clock]_vars

\* Until lease_until (or the expiry of the message) passes, the holder keeps
\* the message: only an acknowledgement with that lease ends it.
LeaseHonoured ==
    [][\A m \in Present(messages) :
          LET r == messages[m]
          IN  r.status = "leased" /\ r.until > clock /\ r.env.expires > clock =>
                \/ messages'[m] = r
                \/ /\ messages'[m] # NoRow
                   /\ messages'[m].status = "acknowledged"
                   /\ ackedWith'[m] = r.lease]_vars

Granted(m) == issued'[m] # issued[m]

\* f has the higher priority, or the same and was sent earlier.
MoreUrgent(f, e) ==
    LET level == [low |-> 1, normal |-> 2, high |-> 3]
    IN  \/ level[f.priority] > level[e.priority]
        \/ f.priority = e.priority /\ f.sent < e.sent

\* No message is handed out while a more urgent one for the same peer waits;
\* one whose lease ran out has its old place in the line.
NoOvertaking ==
    [][\A m \in MsgId :
          Granted(m) =>
            \A k \in Present(messages') :
                /\ messages'[k].status = "pending"
                /\ messages'[k].env.recipient = messages'[m].env.recipient
                => ~MoreUrgent(messages'[k].env, messages'[m].env)]_vars

\* A message is handed out at most the lock wait after its expiry, and at most
\* that long after the very lease that comes with it has run out.
GrantedWithinLockWait ==
    [][\A m \in MsgId :
          Granted(m) => /\ messages'[m].env.expires > clock - BusyTimeout
                        /\ messages'[m].until > clock - BusyTimeout]_vars

\* What docs/architecture.md says: expired messages are never leased.
ExpiredNeverLeased ==
    [][\A m \in MsgId : Granted(m) => messages'[m].env.expires > clock]_vars

\* The same message is never queued a second time: a repeated submission finds
\* its row, or is refused as expired.
AcceptedOnce ==
    [][\A e \in accepted :
          messages[e.id] = NoRow =>
            messages'[e.id] = NoRow \/ messages'[e.id].env # e]_vars

\* The hub remembers what it accepted: the row is there, or no request that saw
\* the message unexpired can get the lock any more.
AcceptedRemembered ==
    \A e \in accepted :
        \/ messages[e.id] # NoRow /\ messages[e.id].env = e
        \/ e.expires + BusyTimeout <= clock

\* What docs/requirements.md says of a message that was even acknowledged:
\* submitting it again is idempotent, it is not queued a second time.
AckedNeverRequeued ==
    [][\A e \in accepted :
          ackedWith[e.id] # NoLease /\ messages[e.id] = NoRow =>
            messages'[e.id] = NoRow \/ messages'[e.id].env # e]_vars

\* The window in which resubmissions are recognised covers the life of every
\* message, the clock skew that is tolerated and the wait for the lock.
RetentionCoversLifetime == Skew + Lifetime + BusyTimeout <= Retention
=============================================================================
