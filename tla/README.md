# Agent Courier in TLA+

Agent Courier is a small message hub for coding agents: one Python process with
an SQLite database, a threaded HTTP server in front of it, and a command line
client. This directory holds TLA+ models of its moving parts, the TLC
configurations that check them on small instances, and TLAPS proofs of their
safety properties for every value of the constants.

## 1. The system

| Component | State | Operations | Interacts with |
|---|---|---|---|
| Message store (`store.py`, `models.py`) | `messages` table: content, digest, status, lease, attempts, received_at | `send_message`, `lease_next`, `acknowledge`, `status`; each but `acknowledge` runs `_maintain` (expire, release, clean up) first | called by request threads; one connection and one `BEGIN IMMEDIATE` transaction per call |
| Peer directory (`store.py`) | `peers` table: id, alias, alias key, token digest, last_seen_at | `register_peer`, `authenticate`, `list_peers`, `_resolve_recipient` | every request authenticates; `send_message` resolves its recipient |
| HTTP server (`server.py`) | one thread per connection; the bytes of a connection not read yet; a long poll's deadline | enroll, send, next, ack, heartbeat, peers, status | the two tables; the answer to the client |
| API client (`api.py`) | none between calls | one HTTP request per method, with a timeout | the server; the command line |
| Command line (`cli.py`) | none | `create-token`, `serve`, `join`, `send`, `claim`, `ack`, read-only commands | client, private files, server |
| Private files (`config.py`) | credential files, the operator token | exclusive creation, cleanup, check by `stat`, reading | `join` and `create-token` write them, every other command reads them |
| Wire models (`models.py`) | none | validation, normal form, formatting | all of the above; run when a message comes in and again when its row is read |
| Transport (`server.py`, `cli.py`) | a bound port, a wrapped socket | check of address, certificate, key and consent; bind; wrap | the arguments of `serve` |

What is hard in it:

* **Stale clocks.** `send_message`, `lease_next`, `status` and `register_peer`
  read the clock, and only then ask for SQLite's write lock, for which they may
  wait ten seconds. Transactions are serial, but the `now` they decide with is
  not monotonic. (`authenticate` reads it inside the transaction.)
* **No background work.** Leases return and messages expire only inside later
  requests, and a request may give up on the lock.
* **Lost answers.** A client that times out cannot tell a request that failed
  from one that was served; the thread goes on without it.
* **Bounded memory.** The rows that make a resubmission recognisable are
  deleted after `--retention-seconds`.
* **One message, many spellings.** White space, UUID notation, capitals and time
  zones differ between clients; the digest, the columns that are compared as
  text and the rows that are read back depend on one normal form.
* **Two checks of one thing.** `serve` and `make_server` both decide about TLS,
  with different conditions; a token file is checked by `stat` and then opened
  by name; the size of a message is measured in three encodings.
* **Two places for one secret.** `join` commits the peer at the hub and then
  writes the only copy of its token to a file, with other joins around it.

Correct means, in short: the store loses, steals and repeats no message and
stays within its limits; the directory never gives a name twice; a client is
told the truth; a message means the same however it is spelled; a hub serves
what its operator consented to; and what was started ends. `PROJECT.json` lists each hazard at
its line with the properties that cover it.

## 2. Modules

| Module | What it is |
|---|---|
| `MessageStore` | The messages table and the operations on it, with stale clocks, lock timeouts and crashes. |
| `Mailbox` | Abstract: what the hub promises about one message. |
| `MessageLife` | `MessageStore` seen from one message, with the refinement mapping to `Mailbox`. |
| `Courier` | Abstract: what the hub promises all its clients, as one atomic table of letters. |
| `Delivery` | `MessageStore` under its clients: connections, lost answers, repeated sends, long polls, with the refinement mapping to `Courier`. Composes server, client and store. |
| `Directory` | Abstract: what the hub promises about the names of peers. |
| `Enrollment` | `register_peer`, `authenticate`, `courier join` and its credential file, with the refinement mapping to `Directory`. |
| `ClockSetBack` | `MessageStore` with a wall clock that may be set back. |
| `Wire` | Pure operators: what `models.py` makes of texts, UUIDs, timestamps and messages. |
| `Connection` | One HTTP connection after another: heads, bodies that are read or left, keep-alive, and the table that messages arrive in, by the rules of `Wire`. |
| `Startup` | `create-token` and `serve`: token file, checks, port, TLS. |
| `MC*` | Constants of the small instances, nothing else. |
| `MessageStoreProofs`, `MessageStoreSafety`, `SetBackProofs`, `DeliveryProofs`, `CourierProofs`, `EnrollmentProofs`, `ConnectionProofs`, `StartupProofs` | The theorems and their proofs. |

Definitions marked `Fault:` (for instance `ReleaseAnyLease`) are plausible
mistakes in one place of the code. No specification uses them; `PROJECT.json`
names, for every property, the mistake it catches.

### MessageStore

`messages` maps an id to its row or `NoRow`. `op[h]` is the operation a request
thread has started but whose transaction has not run, with the `now` it has
read. `peers` holds registered ids. `issued` counts the lease ids drawn for a
message (a random UUID is modelled by its ordinal number). `accepted` and
`ackedWith` are history.

| Action | Code |
|---|---|
| `SendStart`, then `SendAccept` or `SendRollback` | `send_message`: what passes the checks before the lock (the rest leaves the store alone and is answered in `Delivery`); the transaction that inserts; every path that rolls back |
| `LeaseStart`, then `LeaseGrant` or `LeaseNone` | `lease_next` |
| `StatusStart`, `StatusRun` | `status`, which maintains as well |
| `Acknowledge` | `acknowledge`, the one operation that takes no decision by the clock |
| `GiveUp` | `busy_timeout` passes: `OperationalError`, the thread ends. Where the clock stops, at `MaxClock`, it may pass at any moment |
| `RegisterPeer` | `register_peer`, as far as messages depend on it |
| `Crash`, `Boot`, `Tick` | the process dies and is started again; time |

`_maintain` is the operator `Maintain`: `Expire`, `Release` and `Purgeable` in
the order of the three statements. It is part of the transactions that call it,
and undone with them.

### Enrollment

`peers` is the peers table. A `courier join` (`Joiner`: an alias and a path)
goes through `stage`; its request through `request`; `file` maps a path to the
file it names, with the process that created it, and a text that is `Torn`
until the write is over. A time-out leaves the request with the hub; a kill
leaves the file as it is; `FileFails` is the `except` branch, whose `unlink`
may fail too. `Discard` is the user who removes an unreadable file, one that is
still being written included. The process that writes it goes on with a file
without a name, and `chmod` and `unlink` then go to whatever the path names:
the file of another join, if there is one. `cleared` is the history of such
paths. `SetBack` is a wall clock that is set back.
`CallStart`, `Authenticate` and `CallFails` are a request that reads a
credential file and is authenticated; a heartbeat is just that.

### Delivery

`conn[h]` is the connection that a thread serves. `HangUp` closes the client's
end only. `Begin` reads the clock of a submission and checks it; `RefuseUntimely`
answers one that is past its deadline, or too far ahead, before its id is looked
up. `CommandSend` stamps `sent_at` as `courier send` does each time it is
run; `Resend` repeats an envelope that was accepted, as a caller of the API can
that keeps its `sent_at`. `Claim`, `Look`, `Deliver`, `LookAgain` and
`AnswerEmpty` are the loop of `_handle_next`. `told[h]` is the answer that the
last client of `h` heard, if it did; `inbox` holds received deliveries, and
anybody who holds one may acknowledge it, once or more often: `Ack` is the
request, which settles the row or is refused, and whose answer may be lost.
`line` is history: what waited when a claim came in and has waited ever since.

### Courier

`mail` maps an id to its letter: nowhere, waiting, held under a lease, or
closed. `calls`, `inbox` and `told` are the open calls, the deliveries and the
answers, as in `Delivery`. Each answer is given at one instant, by the table and
the clock of that instant, or up to `Grace` later where the hub may act on a
clock it has read; beside it letters only age (`Ages`: a hold runs out, a
deadline closes a letter, a closed letter is forgotten). `Refuse` says that a
letter the hub has is refused only after its deadline, `NoneWaits` that an empty inbox is empty,
`HandOver` that the most urgent letter comes first under a lease nobody had.

`Delivery` maps `Mail` (rows without `received_at` and `attempts`) and `Calls`
(connections without the deadline of a long poll) to it, with `BusyTimeout` for
`Grace`. Hidden are the operations that wait for the lock, the clocks they have
read, the hub's being up or down, the peers, the rounds of a long poll and the
history. The constant `MoreUrgent` is `ORDER BY` of `lease_next`.

### ClockSetBack

`SetBack` puts the clock of `MessageStore` to any earlier time; every step of
`MessageStore` is a step here. `latest` is the latest time of day ever shown.
The properties about time say of `latest` what those of `MessageStore` say of
the clock: nothing is lost, taken back or forgotten before `latest` allows it.
It has the fairness of the store as well, and its two liveness properties.

### Wire and Connection

A text is its ink (what is left after `strip`) and whether it is padded; ink
has the sizes that the code measures: characters, bytes in UTF-8, and bytes
with every other character escaped. A timestamp is seconds in its time zone, a
fraction and the zone's offset; `Chars` is its formatted text with each field
of fixed width as one character, which orders the same, and `TextBefore` is
the comparison of SQLite. `IsMessage` and `Normal` are `Message.__post_init__`.

`stream` holds the heads and bodies that the hub has not read. `Unauthorized`,
`AnswerAtOnce` and `RefuseLength` answer without reading a body (`Leave`),
`RefuseMessage`, `AcceptMessage` and `KnownMessage` read it (`Consume`);
`Shuts` says which answers close the connection, and `Garbled` is the library
when a body that was left stands before a request line. `asks` and `answers`
are history. The client of `api.py` asks to close each connection
(`close = TRUE`); others need not. Of two bodies only what the properties tell
apart is modelled, and the rest of `send_message` (peers, clock, limits) is in
`MessageStore`.

### Startup

`stage[s]` is how far `serve` came in a terminal: arguments accepted
(`Run`), token file checked by `stat` (`CheckFile`), read by name (`ReadFile`),
store opened, port bound (`Bind`), certificate and key looked at (`Secure`).
`making[m]` is how far a `create-token` came, `file` is what is at the path,
with the process that created it. `WriteFails` is the `except` branch, whose
`unlink` goes by the path; `KillMaker` leaves an empty file; `Remove` is the
user. `End` covers every failure of a step, and a hub that is stopped.

## 3. What is checked

TLC runs (all exhaustive for their constants):

| Run | Question | Instance |
|---|---|---|
| `store_core` | Is any message lost, stolen from its holder, settled by an old lease, or kept beyond a limit? | two threads, two ids of which one stands for two contents, a reply, a table of ONE row, clock 0..4, lock wait 1, retention 1 |
| `store_setback` | Does a clock that is set back lose a message, or take it from its holder? Does redelivery keep the order, a reply its conversation, is a message forgotten only after its time, does every message settle and every lease come back? | one thread that may give up on the lock every time, clock 0..3, set back once to any time, two ids of which one is used by two senders, a more urgent answer that fits one of the two, one message with a deadline beyond the clock, the shortest retention that covers the longest life, crashes |
| `store_remembered` | Is a message queued once, and is the hub a `Mailbox`? | the longest life, the fastest tolerated clock, and the shortest retention that covers both and the lock wait |
| `enroll_core` | Can whoever joined call the hub? Is a name ever given twice? | three joins, two for one alias in two spellings, two for one file; two ids, two tokens, clock 0..1, set back any number of times |
| `delivery_core` | Is what a client hears true, and do all clients see one atomic table (`Courier`)? | two connections, one id with a text stamped at different times (other content each time), repetitions before and after the deadline, leases and long polls of one tick, hang-ups, crashes, clock 0..2 |
| `delivery_liveness` | Does every request end? | two connections, a send and polls with waits 0 and 1, crashes |
| `connection_core` | Is a message recognised in every spelling, and can its row be read again? Do columns compare as instants? When is a request misread? | spellings of one message, bodies at and beyond the limits, requests that are refused before they are read, kept and closed connections |
| `startup_core` | Can a hub serve plain HTTP that nobody consented to, announce another scheme than it serves, or take an unfinished token? | two `create-token` commands for one path, two terminals, all sixteen combinations of address, certificate, key and consent, one port |
| `store_expired_lease`, `store_resubmission`, `delivery_retry`, `connection_size` | see section 5 | expected violations |

Why these bounds are enough for the cases that matter: two threads suffice for
every race between a stale clock and a newer transaction, because transactions
are atomic and a third thread only adds another transaction; a lock wait of one
tick makes a `now` stale by one tick, which puts it on either side of every
boundary (`expires_at`, `lease_until`, the retention); leases run out before
and after the expiry of their message; a table of one row is full at once;
the clock runs past the expiry and the cleanup of every message. A message that
is compared with a repetition and with another one needs three requests on one
connection, and a body that is left is noticed by the next request: `MaxAsks`
allows both. One port is enough for two hubs to compete for it. For safety the
proofs of section 4 remove the bounds altogether.

The deadlock check is on in every run but those of `Connection`, whose client
has sent all its requests after `MaxAsks`. It says little, since a hub that is up
can always crash and one that is down can be started: that requests and
messages get on is what `EveryMessageSettles`, `EveryLeaseReturns` and
`EveryRequestEnds` show.

**Named bounds.** `MaxClock` (guard of `Tick`, and of `Claim`, so that a
deadline lies within the bound; see `GiveUp` as well) is the only bound on
time, `MaxSetBacks` bounds how often the clock is set back, `MaxAsks` the
requests of one client; ids, peers, threads, envelopes, drafts, joins and paths
are finite constants; `issued` is bounded by the clock and the threads.

**Fairness.** `FairSetBack` (store): time passes, a thread that asked for the
lock gets it or gives up (SQLite's busy handler guarantees one of the two), the
hub is started again when it is down, and somebody keeps polling. The clock is
set back and the hub crashes finitely often; one that dies inside every request
promises nothing. Two assumptions are strong fairness. Polling, only because
the model has one thread: the hub starts one for every request, so a poll is not
kept out by others. And the transaction of a poll: every single poll may give up
on the lock, at the bound of the clock too, but not all of them for ever. This
one the code does not guarantee: SQLite retries for ten seconds and is not a
fair lock. Without it both liveness properties fail, and rightly: a hub whose
polls all time out moves nothing. `EveryMessageSettles` speaks of messages whose
deadline the clock can reach: time stops at `MaxClock`, where polls go on and may
give up as before. `FairDelivery`: time passes, the hub is started again, and a
thread goes on with the request it serves. Nothing is assumed of the clients:
they need not poll, and may hang up.

## 4. What is proved

Every safety property of every passing run is a theorem, for any number of
peers, threads, messages, joins, files, any limits and any length of time.

* `MessageStoreProofs`: `TypeCorrect`.
* `MessageStoreSafety`: `RowStep` says what one step can do to one row: keep,
  maintain, insert, lease or acknowledge it. The theorems are case analyses of
  it. Most need `OpsSawThePast`, the invariant about stale clocks: an operation
  that waits has read its clock in the past, and a waiting send was timely by
  what it read. `FencedAck` is not inductive: it needs that the lease in a row
  is the last one issued (`LeaseInv`). `AcceptedRemembered` needs
  `BoundedLifetime` and the assumption `RetentionCoversLifetime`
  (`Skew + Lifetime + BusyTimeout <= Retention`), which the default retention
  of seven days does not satisfy: section 5. `RepliesStay` assumes nothing of
  the ids, which clients choose and may use twice: every row was accepted
  (`StoredKept`), so what the check of a reply finds under the id was.
  `ClaimIsDecided`: whenever something is ready, exactly one message comes
  first, so `LIMIT 1` never picks among equals. Its proof takes a smallest rank,
  then a smallest time, then a smallest id, each by well-founded induction on
  the naturals.
* `SetBackProofs`: of what needs no clock (`FencedAck`, `LeaseColumnsAgree`,
  `CapacityRespected`, `NoOvertaking`, replies) and of `BoundedLifetime`, whose
  checks read one clock, the step lemmas of `MessageStoreSafety` carry over to a
  step of the clock alone. `NothingLostBySetBack`, `LeaseHonouredAfterSetBack`
  and `RememberedByLatest` rest on the invariant that no operation decides with
  a clock later than `latest`: a set-back clock makes `now` too early, never too
  late. The last one assumes `RetentionCoversLifetime`. `AcceptedOnce` does not
  survive: a message that had expired, was forgotten, and becomes current when
  the clock is set back is accepted again.
* `EnrollmentProofs`: types with "a request is answered once"; `Held`, which
  follows a credential from the answer to the finished file and says that a
  file belongs to the one process that created it, on every path that the user
  has not cleared; `PeersStep` (a peer is added or touched, nothing else), from
  which `ContactFollowsClock` follows with a clock that goes either way; and the
  refinement of `Directory`.
* `DeliveryProofs`: `StoreStep`, every step of a client is a step of the store
  or none, hence `DeliverySpec => Spec` and all of the above hold of the
  composition. It needs `Typed`: above all, that clients hold only leases that
  were issued and that a claim runs `lease_next` for its own peer. `EmptyIsTrue`
  then rests on `WaitingIsReady`: an older clock shows more messages as ready,
  never fewer. `AnsweredLeasesAreOver` needs that an answered lease was issued
  and that the ids of new leases are new.
* `CourierProofs`: the two refinements of the store. `LetterImplementsMailbox`
  and `ClientsSeeAMailbox` follow one message and assume
  `RetentionCoversLifetime`. `ClientsSeeACourier` follows all of them and needs
  no such assumption: every step of `Delivery` is a step of `Courier` or none.
  The lemma it turns on is `MaintainedAges`: what the maintenance does by an old
  clock, the present clock allows as well. A thread's operation must be the one
  of its connection (`Busy`); what is granted is first in the order of the
  instant of the grant (`GrantInOrder`); after a look nothing that is left could
  be handed out (`NoneWaits`); and a message that was accepted stays admissible
  (`AcceptedFits`), so that its repetition is refused only when it is untimely;
  then it is past its deadline, because it was not too far ahead when it was
  accepted (`AcceptedWereSent`, `UntimelyIsSeen`).
* `ConnectionProofs`: first facts about `Wire` for all values: a normal form is
  a message and its own normal form, formatting and parsing are inverse, and
  `TextOrder`, the order of texts is the order of instants. Then an invariant
  that ties `stream`, `asks`, `answers` and `messages` together: a row is the
  normal form of the request that was answered 201, and a body without its head
  follows only an answer that had left it.
* `StartupProofs`: a token in memory was read from a file that its creator had
  written, and `Paired` and `Refuses` together give `ConsentedOrEncrypted`.

The assumptions are the named `ASSUME`s of the modules: ids are numbers so that
they are ordered as their text is, the null values are no rows, `Envelope` has
the shape of a validated message, ids of peers are no aliases (an alias has at
most 32 characters, a UUID has 36), constants of time are naturals.

The constants of `Wire` are assumed to behave as Python's functions do: lower
case keeps the three levels, `str(UUID)` gives a text that denotes the UUID and
fits its limit, the empty text denotes none. `Lower` is not assumed to keep
other texts apart.

Only model-checked: `EveryMessageSettles`, `EveryLeaseReturns` and
`EveryRequestEnds` (liveness is out of the prover's reach).

## 5. Where the code and its documents disagree

1. `docs/architecture.md:90` says that expired messages are never leased.
   `lease_next` decides with the clock it read before it waited for the lock:
   `store_expired_lease` leases a message when the clock has reached its
   `expires_at`, which the code itself calls expired. The code does guarantee
   `GrantedWithinLockWait`.
2. `docs/requirements.md:33` says that a duplicate submission of the same id
   and content is idempotent. After `--retention-seconds` (seven days by
   default, messages live up to thirty) an acknowledged message is forgotten and
   the duplicate is queued again: `store_resubmission`. With
   `RetentionCoversLifetime` it is not: `AcceptedOnce`.
3. `cli.py:102` calls `--message-id` a "UUID idempotency key". A second run of
   the same command stamps a new `sent_at`, which is part of the digest, and is
   refused as other content: `delivery_retry`.
4. `schemas/message-v1.schema.json:46` and `MAX_BODY_CHARACTERS` allow 8000
   characters. The client escapes all but ASCII, and the hub refuses a request
   of more than 32768 bytes: some 5400 Cyrillic letters, or 2700 emoji, do not
   fit, although the message itself would. `connection_size` sends a message
   that passes every check of `Message` and gets 413.

More that a reader should know. A submission that is repeated after its
deadline is refused with 400 although the hub has the message: `store.py:357`
looks at the deadline before anything looks at the id, so
`docs/requirements.md:33` holds until the deadline only. `Courier` says so in
`Refuse`. An acknowledgement repeated after a lost answer is refused although
it took effect; `docs/requirements.md:88` asks for idempotence "where retry is
expected", and here the refusal says what a retry needs to know:
`AnsweredLeaseIsOver`. The answers 404, 411, 413 and that of the heartbeat
leave the request's body on a connection that stays open, so the next request
on it is answered 501 and the connection closed; the client of `api.py` never
reuses a connection. A certificate without a key, or the other way round,
passes the check of `serve` and is refused by `make_server`, after the port was
bound. And a `join` whose answer is lost or whose file exists leaves the alias
taken with nobody holding its token.

## 6. Not modelled

* The time between reading the clock and asking for the lock, and that a
  transaction takes: both count as waiting for the lock. The long poll's
  monotonic clock runs with the wall clock in `Delivery`, which is not set back
  there.
* What becomes of the repetition of a message that a clock which was ahead had
  cleaned up: it is queued again. `SetBackRemembers` says which messages that
  can be.
* Commands and requests that only read (`peers`, `/healthz`, the printing of
  `status`, `presence`), argument parsing and output.
* The validation of `Peer` (the same helpers as `Message`); JSON values that are
  neither null nor text, which are refused in every field; values that make
  Python raise something no handler maps, such as timestamps in the years 1 and
  9999 or half of a surrogate pair; a `Content-Length` of zero or less, which is
  answered 400 and leaves nothing unread.
* The data: runtimes and descriptions; digests are taken as injective, tokens
  and ids as unique when drawn; what TLS does on the wire.
* Disk errors of SQLite (every transaction commits or is undone); modes, owners
  and symbolic links of files; a token file whose single write is torn (a
  credential file's is modelled).
* `acknowledged_at` and `retired_at`: one is never read, the other never
  written.
* In `Delivery`: the `status` request (in `MessageStore`) and authentication
  (in `Enrollment`). In `Connection`: pipelining, since every client waits for
  its answer; and the status of a garbled request is always 501, where a left
  body with blanks gets 400, and one with line breaks would be parsed at once
  (the bodies of `api.py` have none).
* A user who deletes a credential that can be read. One who deletes a file while
  a join is writing it is modelled, and `JoinedHoldsCredential` says nothing of
  that path from then on.
* In `Startup`: more than one address of each kind. Two hubs compete for a port
  when both listen on loopback, or both elsewhere.
* That a transaction is undone as a whole when a check fails or the hub dies
  between its statements: SQLite promises it, and a transaction is one step here.
* The tests, the schema and the documents, which were read for what they say.

## 7. Plan

Done, in this order: `MessageStore` with its proofs, `Mailbox`, `Enrollment`
with `Directory`, `Delivery`, `Wire` with `Connection`, `ClockSetBack`,
`Startup`, each with its proofs, and `Courier` with the proof that `Delivery`
implements it.

What could still be added:

1. The composition of `Delivery` with `Enrollment` (which token a request
   carries) and with `Connection` (how it is spelled).
2. The `Peer` half of `Wire`: aliases and their case folds.
