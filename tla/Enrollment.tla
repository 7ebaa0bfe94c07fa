----------------------------- MODULE Enrollment -----------------------------
(***************************************************************************)
(* How a peer gets its identity.  `courier join' asks the hub to register  *)
(* an alias, receives the peer's token once, and writes it to a credential *)
(* file that must not exist yet.  Several joins run at the same time, may  *)
(* be killed, may hear nothing of a registration that took place, and may  *)
(* fail halfway through the file; the hub may crash.  Requests of peers    *)
(* that read a credential file are authenticated and refresh last_seen_at. *)
(***************************************************************************)
EXTENDS Integers, FiniteSets

CONSTANTS
    PeerId,      \* UUIDs that register_peer may draw
    Token,       \* secrets that register_peer may draw
    Alias,       \* spellings of aliases
    CaseFold,    \* str.casefold: the alias_key of a spelling
    Path,        \* credential files
    Joiner,      \* invocations of `courier join', with their arguments
    Handler,     \* request threads that authenticate peers
    NoRow,       \* a peer id without a row
    NoFile,      \* a path without a file
    Torn,        \* the text of a file that was not written to its end
    MaxPeers,    \* --max-peers
    MaxClock     \* bound on the clock

JoinerShape == [no: Nat, alias: Alias, path: Path]

Row == [alias: Alias, token: Token, seen: Nat]

Credentials == [peer: PeerId, alias: Alias, token: Token]

\* What the answer of the hub can be, besides credentials.
None == [answer |-> "none"]
Refused == [answer |-> "refused"]

File == [by: Joiner, text: Credentials \cup {Torn}]

Stage == {"new", "asked", "answered", "writing", "written", "done", "failed"}
Request == [at: {"client", "wire", "hub", "over"}, now: Nat]

Idle == [asked |-> 0]
Call == [token: Token, asked: Nat]

ASSUME JoinerAssumption == Joiner \subseteq JoinerShape
ASSUME FoldAssumption == DOMAIN CaseFold = Alias
ASSUME NullAssumption ==
    /\ NoRow \notin Row
    /\ NoFile \notin File
    /\ Torn \notin Credentials
ASSUME DisjointAssumption == PeerId \cap Alias = {}
ASSUME LimitAssumption ==
    /\ MaxPeers \in Nat \ {0}
    /\ MaxClock \in Nat
    /\ IsFiniteSet(PeerId)

VARIABLES
    hub,       \* the server process: "up" or "down"
    clock,     \* the hub's wall clock
    peers,     \* the peers table, by peer id
    request,   \* per join, where its request is and the clock it was read at
    answer,    \* per join, what the hub answered
    stage,     \* per join, how far its process came
    file,      \* the credential files
    call,      \* per request thread, the token it is asked to authenticate
    cleared    \* history: paths the user cleared while a join wrote there

vars == <<hub, clock, peers, request, answer, stage, file, call, cleared>>

Registered == {id \in PeerId : peers[id] # NoRow}

----------------------------------------------------------------------------
Init ==
    /\ hub = "up"
    /\ clock = 0
    /\ peers = [id \in PeerId |-> NoRow]
    /\ request = [j \in Joiner |-> [at |-> "client", now |-> 0]]
    /\ answer = [j \in Joiner |-> None]
    /\ stage = [j \in Joiner |-> "new"]
    /\ file = [p \in Path |-> NoFile]
    /\ call = [h \in Handler |-> Idle]
    /\ cleared = {}

Tick ==
    /\ clock < MaxClock
    /\ clock' = clock + 1
    /\ UNCHANGED <<hub, peers, request, answer, stage, file, call, cleared>>

\* The wall clock is set back.
SetBack ==
    /\ clock' \in 0 .. clock - 1
    /\ UNCHANGED <<hub, peers, request, answer, stage, file, call, cleared>>

\* The request threads die with the hub, the table stays.
Crash ==
    /\ hub = "up"
    /\ hub' = "down"
    /\ request' = [j \in Joiner |->
                     IF request[j].at = "hub" THEN [request[j] EXCEPT !.at = "over"]
                                              ELSE request[j]]
    /\ call' = [h \in Handler |-> Idle]
    /\ UNCHANGED <<clock, peers, answer, stage, file, cleared>>

Boot ==
    /\ hub = "down"
    /\ hub' = "up"
    /\ UNCHANGED <<clock, peers, request, answer, stage, file, call, cleared>>

----------------------------------------------------------------------------
(* The hub: register_peer                                                  *)

\* The hub reads the clock before it asks for the write lock.
Arrive(j) ==
    /\ hub = "up"
    /\ request[j].at = "wire"
    /\ request' = [request EXCEPT ![j] = [at |-> "hub", now |-> clock]]
    /\ UNCHANGED <<hub, clock, peers, answer, stage, file, call, cleared>>

\* Fault: spellings are compared as they are.
TakenExactly(alias) == \E id \in Registered : peers[id].alias = alias

\* UNIQUE(alias_key).
Taken(alias) ==
    \E id \in Registered : CaseFold[peers[id].alias] = CaseFold[alias]

Full == Cardinality(Registered) >= MaxPeers

InUse(token) == \E id \in Registered : peers[id].token = token

\* The peer id and the token are drawn at random: they are new.
RegisterPeer(j) ==
    /\ request[j].at = "hub"
    /\ ~Full
    /\ ~Taken(j.alias)
    /\ \E id \in PeerId \ Registered, token \in Token :
          /\ ~InUse(token)
          /\ peers' = [peers EXCEPT ![id] =
                [alias |-> j.alias, token |-> token, seen |-> request[j].now]]
          /\ answer' = [answer EXCEPT ![j] =
                [peer |-> id, alias |-> j.alias, token |-> token]]
    /\ request' = [request EXCEPT ![j].at = "over"]
    /\ UNCHANGED <<hub, clock, stage, file, call, cleared>>

\* AliasConflict or StoreFull: the transaction rolls back.
RefusePeer(j) ==
    /\ request[j].at = "hub"
    /\ Full \/ Taken(j.alias)
    /\ answer' = [answer EXCEPT ![j] = Refused]
    /\ request' = [request EXCEPT ![j].at = "over"]
    /\ UNCHANGED <<hub, clock, peers, stage, file, call, cleared>>

\* The write lock did not come in time: the thread dies without an answer.
NoLock(j) ==
    /\ request[j].at = "hub"
    /\ request' = [request EXCEPT ![j].at = "over"]
    /\ UNCHANGED <<hub, clock, peers, answer, stage, file, call, cleared>>

----------------------------------------------------------------------------
(* The client: _command_join and _exclusive_private_write                  *)

Join(j) ==
    /\ stage[j] = "new"
    /\ stage' = [stage EXCEPT ![j] = "asked"]
    /\ request' = [request EXCEPT ![j].at = "wire"]
    /\ UNCHANGED <<hub, clock, peers, answer, file, call, cleared>>

\* Fault: the status of the answer is not looked at.
IsCreatedAlways(a) == a # None

IsCreated(a) == a \notin {None, Refused}

JoinAnswered(j) ==
    /\ stage[j] = "asked"
    /\ answer[j] # None
    /\ stage' = [stage EXCEPT ![j] =
                   IF IsCreated(answer[j]) THEN "answered" ELSE "failed"]
    /\ UNCHANGED <<hub, clock, peers, request, answer, file, call, cleared>>

\* The answer is lost or late: the hub may still serve the request.
JoinTimesOut(j) ==
    /\ stage[j] = "asked"
    /\ stage' = [stage EXCEPT ![j] = "failed"]
    /\ UNCHANGED <<hub, clock, peers, request, answer, file, call, cleared>>

Put(p, f) == file' = [file EXCEPT ![p] = f]

\* open(O_CREAT | O_EXCL) succeeds.
CreateFile(j) ==
    /\ stage[j] = "answered"
    /\ file[j.path] = NoFile
    /\ Put(j.path, [by |-> j, text |-> Torn])
    /\ stage' = [stage EXCEPT ![j] = "writing"]
    /\ UNCHANGED <<hub, clock, peers, request, answer, call, cleared>>

\* write, flush and fsync; the descriptor is the file this process created,
\* whatever the path names by now.
WriteFile(j) ==
    /\ stage[j] = "writing"
    /\ IF file[j.path] # NoFile /\ file[j.path].by = j
       THEN Put(j.path, [by |-> j, text |-> answer[j]])
       ELSE UNCHANGED file
    /\ stage' = [stage EXCEPT ![j] = "written"]
    /\ UNCHANGED <<hub, clock, peers, request, answer, call, cleared>>

\* chmod of whatever the path names by now, and the command reports success.
FinishFile(j) ==
    /\ stage[j] = "written"
    /\ file[j.path] # NoFile
    /\ stage' = [stage EXCEPT ![j] = "done"]
    /\ UNCHANGED <<hub, clock, peers, request, answer, file, call, cleared>>

\* Fault: the open is inside the try, its failure removes the file as well.
CleansUpAlways(j) == stage[j] \in {"answered", "writing", "written"}

CleansUp(j) == stage[j] \in {"writing", "written"}

\* The open is refused because the file exists (or for another reason), or a
\* later step fails and whatever the path names is unlinked, if it can be.
FileFails(j) ==
    /\ stage[j] \in {"answered", "writing", "written"}
    /\ \/ UNCHANGED file
       \/ CleansUp(j) /\ Put(j.path, NoFile)
    /\ stage' = [stage EXCEPT ![j] = "failed"]
    /\ UNCHANGED <<hub, clock, peers, request, answer, call, cleared>>

\* The process is killed: nothing is cleaned up.
Kill(j) ==
    /\ stage[j] \in {"asked", "answered", "writing", "written"}
    /\ stage' = [stage EXCEPT ![j] = "failed"]
    /\ UNCHANGED <<hub, clock, peers, request, answer, file, call, cleared>>

\* read_peer_credentials accepts a file that was written to its end only: the
\* last character closes the JSON object.
Readable(p) == file[p] # NoFile /\ file[p].text # Torn

\* The user removes a file that cannot be read: a join that was killed left it,
\* or one is still writing it.
Discard(p) ==
    /\ file[p] # NoFile
    /\ ~Readable(p)
    /\ Put(p, NoFile)
    /\ cleared' = IF \E j \in Joiner : stage[j] = "writing" /\ j.path = p
                  THEN cleared \cup {p} ELSE cleared
    /\ UNCHANGED <<hub, clock, peers, request, answer, stage, call>>

----------------------------------------------------------------------------
(* authenticate                                                            *)

CallStart(h, p) ==
    /\ hub = "up"
    /\ call[h] = Idle
    /\ Readable(p)
    /\ call' = [call EXCEPT ![h] = [token |-> file[p].text.token, asked |-> clock]]
    /\ UNCHANGED <<hub, clock, peers, request, answer, stage, file, cleared>>

\* Fault: the clock is read before the lock, as the other operations do.
SeenAtAsked(h) == call[h].asked

\* The clock is read inside the transaction.
SeenAt(h) == clock

Authenticate(h) ==
    /\ call[h] # Idle
    /\ \E id \in Registered :
          /\ peers[id].token = call[h].token
          /\ peers' = [peers EXCEPT ![id].seen = SeenAt(h)]
    /\ call' = [call EXCEPT ![h] = Idle]
    /\ UNCHANGED <<hub, clock, request, answer, stage, file, cleared>>

\* No peer has this token, or the lock did not come.
CallFails(h) ==
    /\ call[h] # Idle
    /\ call' = [call EXCEPT ![h] = Idle]
    /\ UNCHANGED <<hub, clock, peers, request, answer, stage, file, cleared>>

----------------------------------------------------------------------------
Command(j) ==
    \/ Join(j)
    \/ JoinAnswered(j)
    \/ JoinTimesOut(j)
    \/ CreateFile(j)
    \/ WriteFile(j)
    \/ FinishFile(j)
    \/ FileFails(j)
    \/ Kill(j)

Next ==
    \/ Tick
    \/ SetBack
    \/ Crash
    \/ Boot
    \/ \E j \in Joiner :
          \/ Arrive(j)
          \/ RegisterPeer(j)
          \/ RefusePeer(j)
          \/ NoLock(j)
          \/ Command(j)
    \/ \E p \in Path :
          \/ Discard(p)
          \/ \E h \in Handler : CallStart(h, p)
    \/ \E h \in Handler : Authenticate(h) \/ CallFails(h)

Spec == Init /\ [][Next]_vars

----------------------------------------------------------------------------
(* Properties                                                              *)

TypeOK ==
    /\ hub \in {"up", "down"}
    /\ clock \in Nat
    /\ peers \in [PeerId -> Row \cup {NoRow}]
    /\ request \in [Joiner -> Request]
    /\ answer \in [Joiner -> Credentials \cup {None, Refused}]
    /\ stage \in [Joiner -> Stage]
    /\ file \in [Path -> File \cup {NoFile}]
    /\ call \in [Handler -> Call \cup {Idle}]
    /\ cleared \subseteq Path

\* The hub knows the peer, by this alias and this token.
Opens(c) ==
    /\ c \in Credentials
    /\ c.peer \in Registered
    /\ peers[c.peer].alias = c.alias
    /\ peers[c.peer].token = c.token

\* A join that reported success left a credential that the hub accepts for the
\* alias it asked for, and keeps it: no other join, crash or failed cleanup
\* takes the file away, unless the user cleared its path under a join that was
\* writing there: such a join goes on to work on the path, not on its file.
\* Every other file that can be read is accepted as well.
JoinedHoldsCredential ==
    /\ \A p \in Path : Readable(p) => Opens(file[p].text)
    /\ \A j \in Joiner :
          stage[j] = "done" /\ j.path \notin cleared =>
              /\ Readable(j.path)
              /\ file[j.path].by = j
              /\ file[j.path].text.alias = j.alias

\* The order in which requests of a peer get the write lock never moves its last
\* contact back: only a contact that lies ahead of the clock, which was set
\* back, is moved to an earlier time.
LastSeenFollowsClock ==
    [][\A id \in Registered :
          /\ peers'[id] # NoRow
          /\ peers'[id].seen < peers[id].seen => peers[id].seen > clock]_vars

\* _resolve_recipient: the peers that a query could mean.
Resolve(query) ==
    {id \in Registered :
        \/ id = query
        \/ query \in Alias /\ CaseFold[peers[id].alias] = CaseFold[query]}

D == INSTANCE Directory WITH
        Address <- PeerId \cup Alias, Identity <- PeerId,
        reach <- [q \in PeerId \cup Alias |-> Resolve(q)]

\* The hub keeps the promise of the directory, whatever joins race or fail.
DirectoryIsSafe == D!Spec
=============================================================================
