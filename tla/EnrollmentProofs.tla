-------------------------- MODULE EnrollmentProofs --------------------------
(***************************************************************************)
(* Proofs about Enrollment for every value of its constants.               *)
(***************************************************************************)
EXTENDS Enrollment, TLAPS

----------------------------------------------------------------------------
(* Types.                                                                  *)

\* A null answer is no credential.
LEMMA NullAnswers == None \notin Credentials /\ Refused \notin Credentials
<1>1. \A c \in Credentials : c # None /\ c # Refused
  <2>1. \A c \in Credentials : DOMAIN c = {"peer", "alias", "token"}
    BY DEF Credentials
  <2>2. DOMAIN None = {"answer"} /\ DOMAIN Refused = {"answer"}
    BY DEF None, Refused
  <2>3. "peer" \notin {"answer"}
    OBVIOUS
  <2>4. QED
    BY <2>1, <2>2, <2>3, Zenon
<1>2. QED
  BY <1>1

\* A request is answered at most once, after it was served, and a join that
\* touches its file was answered with credentials.
AnsweredOnce ==
    \A j \in Joiner :
        /\ stage[j] = "new" => request[j].at = "client"
        /\ request[j].at # "over" => answer[j] = None
        /\ stage[j] \in {"answered", "writing", "written", "done"} =>
              answer[j] \in Credentials

Typed == TypeOK /\ AnsweredOnce

\* The initial state is well typed.
LEMMA InitType == Init => Typed
<1> SUFFICES ASSUME Init PROVE Typed
  OBVIOUS
<1>1. [at |-> "client", now |-> 0] \in Request
  BY DEF Request
<1>2. /\ hub \in {"up", "down"}
      /\ clock \in Nat
      /\ peers \in [PeerId -> Row \cup {NoRow}]
      /\ stage \in [Joiner -> Stage]
      /\ file \in [Path -> File \cup {NoFile}]
  BY DEF Init, Stage
<1>3. /\ request \in [Joiner -> Request]
      /\ answer \in [Joiner -> Credentials \cup {None, Refused}]
      /\ call \in [Handler -> Call \cup {Idle}]
  BY <1>1 DEF Init
<1>4. QED
  BY <1>2, <1>3 DEF Typed, TypeOK, AnsweredOnce, Init

\* Every step keeps the state well typed.
LEMMA NextType == Typed /\ [Next]_vars => Typed'
<1> SUFFICES ASSUME Typed, [Next]_vars PROVE Typed'
  OBVIOUS
<1> USE NullAnswers DEF Typed, TypeOK, AnsweredOnce
<1>1. CASE UNCHANGED vars
  BY <1>1 DEF vars
<1>2. CASE Tick \/ SetBack
  BY <1>2 DEF Tick, SetBack
<1>3. CASE Crash
  <2>1. request' \in [Joiner -> Request]
    BY <1>3 DEF Crash, Request
  <2>2. call' \in [Handler -> Call \cup {Idle}]
    BY <1>3 DEF Crash
  <2>3. QED
    BY <1>3, <2>1, <2>2 DEF Crash
<1>4. CASE Boot
  BY <1>4 DEF Boot
<1>5. ASSUME NEW j \in Joiner, Arrive(j) PROVE Typed'
  BY <1>5 DEF Arrive, Request
<1>6. ASSUME NEW j \in Joiner, RegisterPeer(j) PROVE Typed'
  <2>1. PICK id \in PeerId \ Registered, token \in Token :
          /\ peers' = [peers EXCEPT ![id] =
                [alias |-> j.alias, token |-> token, seen |-> request[j].now]]
          /\ answer' = [answer EXCEPT ![j] =
                [peer |-> id, alias |-> j.alias, token |-> token]]
    BY <1>6 DEF RegisterPeer
  <2>2. j.alias \in Alias /\ request[j].now \in Nat
    BY JoinerAssumption DEF JoinerShape, Request
  <2>3. /\ [alias |-> j.alias, token |-> token, seen |-> request[j].now] \in Row
        /\ [peer |-> id, alias |-> j.alias, token |-> token] \in Credentials
    BY <2>2 DEF Row, Credentials
  <2>4. /\ peers' \in [PeerId -> Row \cup {NoRow}]
        /\ answer' \in [Joiner -> Credentials \cup {None, Refused}]
        /\ \A k \in Joiner : answer'[k] = answer[k] \/ answer'[k] \in Credentials
    BY <2>1, <2>3
  <2>5. request' \in [Joiner -> Request]
    BY <1>6 DEF RegisterPeer, Request
  <2>6. QED
    BY <1>6, <2>4, <2>5 DEF RegisterPeer
<1>7. ASSUME NEW j \in Joiner, RefusePeer(j) PROVE Typed'
  BY <1>7 DEF RefusePeer, Request
<1>8. ASSUME NEW j \in Joiner, NoLock(j) PROVE Typed'
  BY <1>8 DEF NoLock, Request
<1>9. ASSUME NEW j \in Joiner, Command(j) PROVE Typed'
  <2>1. CASE Join(j)
    BY <2>1 DEF Join, Stage, Request
  <2>2. CASE JoinAnswered(j)
    BY <2>2 DEF JoinAnswered, Stage, IsCreated
  <2>3. CASE JoinTimesOut(j)
    BY <2>3 DEF JoinTimesOut, Stage
  <2>4. CASE CreateFile(j)
    <3>1. [by |-> j, text |-> Torn] \in File
      BY DEF File
    <3>2. QED
      BY <2>4, <3>1 DEF CreateFile, Put, Stage
  <2>5. CASE WriteFile(j)
    <3>1. answer[j] \in Credentials
      BY <2>5 DEF WriteFile
    <3>2. [by |-> j, text |-> answer[j]] \in File
      BY <3>1 DEF File
    <3>3. file' \in [Path -> File \cup {NoFile}]
      BY <2>5, <3>2 DEF WriteFile, Put
    <3>4. QED
      BY <2>5, <3>1, <3>3 DEF WriteFile, Stage
  <2>6. CASE FinishFile(j)
    BY <2>6 DEF FinishFile, Stage
  <2>7. CASE FileFails(j)
    BY <2>7 DEF FileFails, Put, Stage
  <2>8. CASE Kill(j)
    BY <2>8 DEF Kill, Stage
  <2>9. QED
    BY <1>9, <2>1, <2>2, <2>3, <2>4, <2>5, <2>6, <2>7, <2>8 DEF Command
<1>10. ASSUME NEW p \in Path, Discard(p) PROVE Typed'
  BY <1>10 DEF Discard, Put
<1>11. ASSUME NEW h \in Handler, NEW p \in Path, CallStart(h, p) PROVE Typed'
  <2>1. file[p].text.token \in Token
    BY <1>11 DEF CallStart, Readable, File, Credentials
  <2>2. QED
    BY <1>11, <2>1 DEF CallStart, Call
<1>12. ASSUME NEW h \in Handler, Authenticate(h) PROVE Typed'
  BY <1>12 DEF Authenticate, SeenAt, Registered, Row
<1>13. ASSUME NEW h \in Handler, CallFails(h) PROVE Typed'
  BY <1>13 DEF CallFails
<1>14. QED
  BY <1>1, <1>2, <1>3, <1>4, <1>5, <1>6, <1>7, <1>8, <1>9, <1>10, <1>11,
     <1>12, <1>13 DEF Next

\* Every reachable state of the enrollment is well typed, and a join that goes
\* on to write a file holds a credential.
THEOREM EnrollmentTypeCorrect == Spec => []TypeOK
<1>1. QED
  BY InitType, NextType, PTL DEF Spec, Typed

----------------------------------------------------------------------------
(* What a step does to the peers table.                                    *)

\* A peer is added under a spelling, with a token, that nobody has ...
Adds(id, row) ==
    /\ id \in PeerId \ Registered
    /\ row \in Row
    /\ ~Taken(row.alias)
    /\ ~InUse(row.token)
    /\ peers' = [peers EXCEPT ![id] = row]

\* ... or the last contact with a peer is set to the clock.
Touches(id) ==
    /\ id \in Registered
    /\ peers' = [peers EXCEPT ![id].seen = clock]

\* No step changes the peers table otherwise.
LEMMA PeersStep ==
    ASSUME Typed, [Next]_vars
    PROVE  \/ UNCHANGED peers
           \/ \E id \in PeerId, row \in Row : Adds(id, row)
           \/ \E id \in PeerId : Touches(id)
<1>1. ASSUME NEW j \in Joiner, RegisterPeer(j)
      PROVE  \E id \in PeerId, row \in Row : Adds(id, row)
  <2>1. PICK id \in PeerId \ Registered, token \in Token :
          /\ ~InUse(token)
          /\ peers' = [peers EXCEPT ![id] =
                [alias |-> j.alias, token |-> token, seen |-> request[j].now]]
    BY <1>1 DEF RegisterPeer
  <2> DEFINE row == [alias |-> j.alias, token |-> token, seen |-> request[j].now]
  <2>2. row \in Row
    BY JoinerAssumption DEF Typed, TypeOK, JoinerShape, Request, Row
  <2>3. row.alias = j.alias /\ row.token = token
    OBVIOUS
  <2>4. ~Taken(j.alias)
    BY <1>1 DEF RegisterPeer
  <2>5. Adds(id, row)
    BY <2>1, <2>2, <2>3, <2>4 DEF Adds
  <2>6. QED
    BY <2>2, <2>5
<1>2. ASSUME NEW h \in Handler, Authenticate(h)
      PROVE  \E id \in PeerId : Touches(id)
  BY <1>2 DEF Authenticate, Touches, SeenAt, Registered
<1>3. ASSUME NEW j \in Joiner,
             Arrive(j) \/ RefusePeer(j) \/ NoLock(j) \/ Command(j)
      PROVE  UNCHANGED peers
  BY <1>3 DEF Arrive, RefusePeer, NoLock, Command, Join, JoinAnswered,
     JoinTimesOut, CreateFile, WriteFile, FinishFile, FileFails, Kill
<1>4. ASSUME Tick \/ SetBack \/ Crash \/ Boot \/ UNCHANGED vars
      PROVE  UNCHANGED peers
  BY <1>4 DEF Tick, SetBack, Crash, Boot, vars
<1>5. ASSUME NEW p \in Path, NEW h \in Handler,
             Discard(p) \/ CallStart(h, p) \/ CallFails(h)
      PROVE  UNCHANGED peers
  BY <1>5 DEF Discard, CallStart, CallFails
<1>6. ASSUME NEW p \in Path, Discard(p) PROVE UNCHANGED peers
  BY <1>6 DEF Discard
<1>7. ASSUME NEW h \in Handler, CallFails(h) PROVE UNCHANGED peers
  BY <1>7 DEF CallFails
<1>8. QED
  BY <1>1, <1>2, <1>3, <1>4, <1>5, <1>6, <1>7 DEF Next

\* A row stays, with its alias and its token.
LEMMA RowsStay ==
    ASSUME Typed, [Next]_vars, NEW id \in Registered
    PROVE  /\ id \in Registered'
           /\ peers'[id].alias = peers[id].alias
           /\ peers'[id].token = peers[id].token
<1>1. peers[id] \in Row
  BY DEF Typed, TypeOK, Registered
<1>2. CASE UNCHANGED peers
  BY <1>2 DEF Registered
<1>3. CASE \E k \in PeerId, row \in Row : Adds(k, row)
  BY <1>3 DEF Adds, Registered, Typed, TypeOK
<1>4. CASE \E k \in PeerId : Touches(k)
  <2>1. PICK k \in PeerId : Touches(k)
    BY <1>4
  <2>2. /\ [peers[id] EXCEPT !.seen = clock] \in Row
        /\ [peers[id] EXCEPT !.seen = clock].alias = peers[id].alias
        /\ [peers[id] EXCEPT !.seen = clock].token = peers[id].token
    BY <1>1 DEF Row, Typed, TypeOK
  <2>3. \/ peers'[id] = peers[id]
        \/ peers'[id] = [peers[id] EXCEPT !.seen = clock]
    BY <2>1 DEF Touches, Registered, Typed, TypeOK
  <2>4. peers'[id] # NoRow
    BY <1>1, <2>2, <2>3, NullAssumption
  <2>5. QED
    BY <2>2, <2>3, <2>4 DEF Registered
<1>5. QED
  BY <1>2, <1>3, <1>4, PeersStep

----------------------------------------------------------------------------
(* The credential files.                                                   *)

\* Credentials that were answered open the hub, under the alias asked for, and
\* a join that works on its file is the one that created it, unless the user
\* cleared the path meanwhile.
Held ==
    /\ \A j \in Joiner :
          answer[j] \in Credentials => Opens(answer[j]) /\ answer[j].alias = j.alias
    /\ \A p \in Path : Readable(p) => Opens(file[p].text)
    /\ \A j \in Joiner :
          stage[j] = "writing" /\ j.path \notin cleared =>
              file[j.path] = [by |-> j, text |-> Torn]
    /\ \A j \in Joiner :
          stage[j] \in {"written", "done"} /\ j.path \notin cleared =>
              file[j.path] = [by |-> j, text |-> answer[j]]

\* The file a join works on, or has written.
LEMMA OwnFile ==
    ASSUME Typed, Held, NEW k \in Joiner,
           stage[k] \in {"writing", "written", "done"}, k.path \notin cleared
    PROVE  /\ file[k.path] # NoFile
           /\ file[k.path].by = k
           /\ stage[k] # "writing" => /\ file[k.path].text = answer[k]
                                     /\ answer[k] \in Credentials
<1>1. CASE stage[k] = "writing"
  <2>1. file[k.path] = [by |-> k, text |-> Torn]
    BY <1>1 DEF Held
  <2>2. [by |-> k, text |-> Torn] \in File
    BY DEF File
  <2>3. QED
    BY <1>1, <2>1, <2>2, NullAssumption
<1>2. CASE stage[k] \in {"written", "done"}
  <2>1. file[k.path] = [by |-> k, text |-> answer[k]]
    BY <1>2 DEF Held
  <2>2. answer[k] \in Credentials
    BY <1>2 DEF Typed, AnsweredOnce
  <2>3. [by |-> k, text |-> answer[k]] \in File
    BY <2>2 DEF File
  <2>4. QED
    BY <1>2, <2>1, <2>2, <2>3, NullAssumption
<1>3. QED
  BY <1>1, <1>2

\* Nothing is held at first.
LEMMA InitHeld == Init => Held
<1>1. QED
  BY NullAnswers DEF Init, Held, Readable

\* What the hub accepts it accepts for good.
LEMMA StillOpen ==
    ASSUME Typed, Held, [Next]_vars
    PROVE  /\ \A j \in Joiner : answer[j] \in Credentials /\ answer'[j] = answer[j] =>
                 Opens(answer[j])' /\ answer[j].alias = j.alias
           /\ \A p \in Path : Readable(p) /\ file'[p] = file[p] =>
                 Opens(file[p].text)'
<1>1. ASSUME NEW j \in Joiner, answer[j] \in Credentials, answer'[j] = answer[j]
      PROVE  Opens(answer[j])' /\ answer[j].alias = j.alias
  <2>1. Opens(answer[j]) /\ answer[j].alias = j.alias
    BY <1>1 DEF Held
  <2>2. /\ answer[j].peer \in Registered'
        /\ peers'[answer[j].peer].alias = answer[j].alias
        /\ peers'[answer[j].peer].token = answer[j].token
    BY <2>1, RowsStay DEF Opens
  <2>3. QED
    BY <1>1, <2>1, <2>2 DEF Opens
<1>2. ASSUME NEW p \in Path, Readable(p), file'[p] = file[p]
      PROVE  Opens(file[p].text)'
  <2>1. Opens(file[p].text)
    BY <1>2 DEF Held
  <2>2. /\ file[p].text.peer \in Registered'
        /\ peers'[file[p].text.peer].alias = file[p].text.alias
        /\ peers'[file[p].text.peer].token = file[p].text.token
    BY <2>1, RowsStay DEF Opens
  <2>3. QED
    BY <1>2, <2>1, <2>2 DEF Opens
<1>3. QED
  BY <1>1, <1>2

\* A step that adds no answer, touches no file and ends no work on one.
LEMMA HeldStays ==
    ASSUME Typed, Held, [Next]_vars, UNCHANGED <<answer, file, cleared>>,
           \A j \in Joiner :
                stage'[j] \in {"writing", "written", "done"} => stage'[j] = stage[j]
    PROVE  Held'
<1>1. \A j \in Joiner :
          answer'[j] \in Credentials => Opens(answer[j])' /\ answer'[j].alias = j.alias
  BY StillOpen
<1>2. \A p \in Path : Readable(p)' => Opens(file[p].text)'
  BY StillOpen DEF Readable
<1>3. QED
  BY <1>1, <1>2 DEF Held

\* Every step keeps the credentials in order.
LEMMA NextHeld == Typed /\ Held /\ [Next]_vars => Held'
<1> SUFFICES ASSUME Typed, Held, [Next]_vars PROVE Held'
  OBVIOUS
<1>1. CASE Tick \/ SetBack \/ Crash \/ Boot \/ UNCHANGED vars
  BY <1>1, HeldStays DEF Tick, SetBack, Crash, Boot, vars
<1>2. ASSUME NEW j \in Joiner,
             Arrive(j) \/ NoLock(j) \/ Join(j) \/ JoinTimesOut(j) \/ Kill(j)
                \/ JoinAnswered(j)
      PROVE  Held'
  <2>1. /\ UNCHANGED <<answer, file, cleared>>
        /\ stage' = stage \/ \E s \in {"asked", "answered", "failed"} :
                                  stage' = [stage EXCEPT ![j] = s]
    BY <1>2 DEF Arrive, NoLock, Join, JoinTimesOut, Kill, JoinAnswered
  <2>2. \A k \in Joiner :
          stage'[k] \in {"writing", "written", "done"} => stage'[k] = stage[k]
    BY <2>1 DEF Typed, TypeOK
  <2>3. QED
    BY <2>1, <2>2, HeldStays
<1>3. ASSUME NEW j \in Joiner, RegisterPeer(j) \/ RefusePeer(j) PROVE Held'
  <2>1. /\ request[j].at = "hub"
        /\ answer[j] = None
        /\ stage[j] \notin {"written", "done"}
    BY <1>3, NullAnswers DEF RegisterPeer, RefusePeer, Typed, AnsweredOnce
  <2>2. /\ UNCHANGED <<stage, file, cleared>>
        /\ \A k \in Joiner \ {j} : answer'[k] = answer[k]
    BY <1>3 DEF RegisterPeer, RefusePeer, Typed, TypeOK
  <2>3. answer'[j] \in Credentials => Opens(answer[j])' /\ answer'[j].alias = j.alias
    <3>1. CASE RefusePeer(j)
      <4>1. answer'[j] = Refused
        BY <3>1 DEF RefusePeer, Typed, TypeOK
      <4>2. QED
        BY <4>1, NullAnswers
    <3>2. CASE RegisterPeer(j)
      <4>1. PICK id \in PeerId \ Registered, token \in Token :
              /\ peers' = [peers EXCEPT ![id] =
                    [alias |-> j.alias, token |-> token, seen |-> request[j].now]]
              /\ answer' = [answer EXCEPT ![j] =
                    [peer |-> id, alias |-> j.alias, token |-> token]]
        BY <3>2 DEF RegisterPeer
      <4>2. /\ answer'[j] = [peer |-> id, alias |-> j.alias, token |-> token]
            /\ peers'[id] = [alias |-> j.alias, token |-> token, seen |-> request[j].now]
        BY <4>1 DEF Typed, TypeOK
      <4>3. peers'[id] # NoRow
        <5>1. [alias |-> j.alias, token |-> token, seen |-> request[j].now] \in Row
          BY JoinerAssumption DEF Typed, TypeOK, JoinerShape, Request, Row
        <5>2. QED
          BY <4>2, <5>1, NullAssumption
      <4>4. answer'[j] \in Credentials
        BY <4>2, JoinerAssumption DEF JoinerShape, Credentials
      <4>5. QED
        BY <4>2, <4>3, <4>4 DEF Opens, Registered
    <3>3. QED
      BY <1>3, <3>1, <3>2
  <2>4. \A k \in Joiner :
          answer'[k] \in Credentials => Opens(answer[k])' /\ answer'[k].alias = k.alias
    BY <2>2, <2>3, StillOpen
  <2>5. \A p \in Path : Readable(p)' => Opens(file[p].text)'
    BY <2>2, StillOpen DEF Readable
  <2>6. QED
    BY <2>1, <2>2, <2>4, <2>5 DEF Held
<1>4. ASSUME NEW j \in Joiner, CreateFile(j) PROVE Held'
  <2>1. /\ UNCHANGED <<answer, cleared>>
        /\ file[j.path] = NoFile
        /\ file' = [file EXCEPT ![j.path] = [by |-> j, text |-> Torn]]
        /\ stage' = [stage EXCEPT ![j] = "writing"]
        /\ j.path \in Path
    BY <1>4, JoinerAssumption DEF CreateFile, Put, JoinerShape
  <2>2. \A k \in Joiner \ {j} :
          stage[k] \in {"writing", "written", "done"} /\ k.path \notin cleared =>
              file[k.path] # NoFile /\ k.path # j.path
    BY <2>1, OwnFile
  <2>3. \A k \in Joiner :
          answer'[k] \in Credentials => Opens(answer[k])' /\ answer'[k].alias = k.alias
    BY <2>1, StillOpen
  <2>4. ASSUME NEW p \in Path, Readable(p)' PROVE Opens(file[p].text)'
    BY <2>1, <2>4, StillOpen DEF Readable, Typed, TypeOK
  <2>5. \A k \in Joiner :
          stage'[k] = "writing" /\ k.path \notin cleared' =>
              file'[k.path] = [by |-> k, text |-> Torn]
    BY <2>1, <2>2, JoinerAssumption DEF Held, Typed, TypeOK, JoinerShape
  <2>6. \A k \in Joiner :
          stage'[k] \in {"written", "done"} /\ k.path \notin cleared' =>
              file'[k.path] = [by |-> k, text |-> answer'[k]]
    BY <2>1, <2>2, JoinerAssumption DEF Held, Typed, TypeOK, JoinerShape
  <2>7. QED
    BY <2>3, <2>4, <2>5, <2>6 DEF Held
<1>5. ASSUME NEW j \in Joiner, WriteFile(j) \/ FinishFile(j) \/ FileFails(j)
      PROVE  Held'
  <2>1. PICK s \in {"written", "done", "failed"} :
          stage' = [stage EXCEPT ![j] = s]
    BY <1>5 DEF WriteFile, FinishFile, FileFails
  <2>2. UNCHANGED <<answer, cleared>> /\ j.path \in Path
    BY <1>5, JoinerAssumption DEF WriteFile, FinishFile, FileFails, JoinerShape
  <2>3. \/ UNCHANGED file
        \/ /\ stage[j] \in {"writing", "written"}
           /\ file' = [file EXCEPT ![j.path] = NoFile]
           /\ s = "failed"
        \/ /\ stage[j] = "writing"
           /\ file' = [file EXCEPT ![j.path] = [by |-> j, text |-> answer[j]]]
           /\ s = "written"
    BY <1>5, <2>1 DEF WriteFile, FinishFile, FileFails, CleansUp, Put, Typed, TypeOK
  <2>4. s \in {"written", "done"} /\ j.path \notin cleared =>
          file'[j.path] = [by |-> j, text |-> answer[j]]
    <3>1. CASE WriteFile(j) /\ j.path \notin cleared
      <4>1. file[j.path] = [by |-> j, text |-> Torn]
        BY <3>1 DEF WriteFile, Held
      <4>2. file[j.path] # NoFile
        BY <4>1, NullAssumption DEF File
      <4>3. file' = [file EXCEPT ![j.path] = [by |-> j, text |-> answer[j]]]
        BY <3>1, <4>1, <4>2 DEF WriteFile, Put
      <4>4. QED
        BY <2>2, <4>3 DEF Typed, TypeOK
    <3>2. CASE FinishFile(j)
      BY <3>2 DEF FinishFile, Held
    <3>3. CASE FileFails(j)
      BY <2>1, <3>3 DEF FileFails, Typed, TypeOK
    <3>4. QED
      BY <1>5, <3>1, <3>2, <3>3
  <2>5. ASSUME NEW k \in Joiner \ {j},
               stage[k] \in {"writing", "written", "done"}, k.path \notin cleared
        PROVE  file'[k.path] = file[k.path]
    <3>1. file[k.path].by = k
      BY <2>5, OwnFile
    <3>2. stage[j] \in {"writing", "written"} /\ j.path \notin cleared =>
            file[j.path].by = j
      BY OwnFile
    <3>3. k.path \in Path
      BY JoinerAssumption DEF JoinerShape
    <3>4. QED
      BY <2>2, <2>3, <2>5, <3>1, <3>2, <3>3 DEF Typed, TypeOK
  <2>6. \A k \in Joiner :
          answer'[k] \in Credentials => Opens(answer[k])' /\ answer'[k].alias = k.alias
    BY <2>2, StillOpen
  <2>7. ASSUME NEW p \in Path, Readable(p)' PROVE Opens(file[p].text)'
    <3>1. CASE file'[p] = file[p]
      BY <2>7, <3>1, StillOpen DEF Readable
    <3>2. CASE file'[p] # file[p]
      <4>1. p = j.path /\ stage[j] = "writing" /\ file'[p].text = answer[j]
        BY <2>2, <2>3, <2>7, <3>2 DEF Readable, Typed, TypeOK
      <4>2. answer[j] \in Credentials
        BY <4>1 DEF Typed, AnsweredOnce
      <4>3. Opens(answer[j])'
        BY <2>2, <4>2, StillOpen
      <4>4. QED
        BY <2>2, <4>1, <4>3 DEF Opens
    <3>3. QED
      BY <3>1, <3>2
  <2>8. \A k \in Joiner :
          stage'[k] = "writing" /\ k.path \notin cleared' =>
              file'[k.path] = [by |-> k, text |-> Torn]
    BY <2>1, <2>2, <2>5 DEF Held, Typed, TypeOK
  <2>9. \A k \in Joiner :
          stage'[k] \in {"written", "done"} /\ k.path \notin cleared' =>
              file'[k.path] = [by |-> k, text |-> answer'[k]]
    BY <2>1, <2>2, <2>4, <2>5 DEF Held, Typed, TypeOK
  <2>10. QED
    BY <2>6, <2>7, <2>8, <2>9 DEF Held
<1>6. ASSUME NEW p \in Path, Discard(p) PROVE Held'
  <2>1. /\ UNCHANGED <<answer, stage>>
        /\ file' = [file EXCEPT ![p] = NoFile]
        /\ ~Readable(p)
        /\ file[p] # NoFile
        /\ cleared \subseteq cleared'
    BY <1>6 DEF Discard, Put
  <2>2. \A k \in Joiner :
          stage[k] \in {"writing", "written", "done"} /\ k.path \notin cleared' =>
              k.path # p
    <3>1. \A k \in Joiner :
            stage[k] = "writing" /\ k.path \notin cleared' => k.path # p
      BY <1>6 DEF Discard
    <3>2. \A k \in Joiner :
            stage[k] \in {"written", "done"} /\ k.path \notin cleared =>
                file[k.path].text \in Credentials
      BY OwnFile
    <3>3. QED
      BY <2>1, <3>1, <3>2, NullAssumption DEF Readable
  <2>3. \A k \in Joiner :
          answer'[k] \in Credentials => Opens(answer[k])' /\ answer'[k].alias = k.alias
    BY <2>1, StillOpen
  <2>4. ASSUME NEW q \in Path, Readable(q)' PROVE Opens(file[q].text)'
    BY <2>1, <2>4, StillOpen DEF Readable, Typed, TypeOK
  <2>5. \A k \in Joiner :
          stage[k] \in {"writing", "written", "done"} /\ k.path \notin cleared' =>
              file'[k.path] = file[k.path]
    BY <2>1, <2>2, JoinerAssumption DEF Typed, TypeOK, JoinerShape
  <2>6. QED
    BY <2>1, <2>3, <2>4, <2>5 DEF Held
<1>7. ASSUME NEW h \in Handler,
             Authenticate(h) \/ CallFails(h) \/ \E p \in Path : CallStart(h, p)
      PROVE  Held'
  BY <1>7, HeldStays DEF Authenticate, CallFails, CallStart
<1>8. QED
  BY <1>1, <1>2, <1>3, <1>4, <1>5, <1>6, <1>7 DEF Next, Command

\* A join that reported success left a credential that the hub accepts, and no
\* other join or failure takes it away, for any number of joins, files and peers,
\* unless the user cleared the path under a join that was writing there.
THEOREM JoinedCanCall == Spec => []JoinedHoldsCredential
<1>1. ASSUME Typed, Held PROVE JoinedHoldsCredential
  <2>1. ASSUME NEW j \in Joiner, stage[j] = "done", j.path \notin cleared
        PROVE  /\ Readable(j.path)
               /\ file[j.path].by = j
               /\ file[j.path].text.alias = j.alias
    <3>1. /\ answer[j] \in Credentials
          /\ file[j.path] = [by |-> j, text |-> answer[j]]
          /\ answer[j].alias = j.alias
      BY <1>1, <2>1 DEF Held, Typed, AnsweredOnce
    <3>2. file[j.path] # NoFile /\ answer[j] # Torn
      BY <3>1, NullAssumption DEF File
    <3>3. QED
      BY <3>1, <3>2 DEF Readable
  <2>2. QED
    BY <1>1, <2>1 DEF Held, JoinedHoldsCredential
<1>2. QED
  BY <1>1, InitType, NextType, InitHeld, NextHeld, PTL DEF Spec

----------------------------------------------------------------------------
(* The last contact.                                                       *)

\* A step leaves the last contact with a peer, or sets it to the clock.
LEMMA SeenStep ==
    ASSUME Typed, [Next]_vars, NEW id \in Registered
    PROVE  peers'[id].seen = peers[id].seen \/ peers'[id].seen = clock
<1>1. peers[id] \in Row
  BY DEF Registered, Typed, TypeOK
<1>2. CASE UNCHANGED peers
  BY <1>2
<1>3. CASE \E k \in PeerId, row \in Row : Adds(k, row)
  BY <1>3 DEF Adds, Registered, Typed, TypeOK
<1>4. CASE \E k \in PeerId : Touches(k)
  <2>1. PICK k \in PeerId : peers' = [peers EXCEPT ![k].seen = clock]
    BY <1>4 DEF Touches
  <2>2. peers'[id] = peers[id] \/ peers'[id] = [peers[id] EXCEPT !.seen = clock]
    BY <2>1 DEF Registered, Typed, TypeOK
  <2>3. [peers[id] EXCEPT !.seen = clock].seen = clock
    BY <1>1 DEF Row
  <2>4. QED
    BY <2>2, <2>3
<1>5. QED
  BY <1>2, <1>3, <1>4, PeersStep

\* The last contact with a peer moves back only when it lies ahead of the clock:
\* a request that waited long for the lock does not write an older time.
THEOREM ContactFollowsClock == Spec => LastSeenFollowsClock
<1>1. ASSUME Typed, [Next]_vars, NEW id \in Registered
      PROVE  /\ peers'[id] # NoRow
             /\ peers'[id].seen < peers[id].seen => peers[id].seen > clock
  <2>1. peers'[id] # NoRow
    BY <1>1, RowsStay DEF Registered
  <2>2. peers[id].seen \in Nat /\ clock \in Nat
    BY <1>1 DEF Registered, Typed, TypeOK, Row
  <2>3. QED
    BY <1>1, <2>1, <2>2, SeenStep
<1>2. Typed /\ [Next]_vars =>
        [\A id \in Registered :
            /\ peers'[id] # NoRow
            /\ peers'[id].seen < peers[id].seen => peers[id].seen > clock]_vars
  BY <1>1
<1>3. QED
  BY <1>2, InitType, NextType, PTL DEF Spec, LastSeenFollowsClock

----------------------------------------------------------------------------
(* The directory.                                                          *)

\* alias_key is unique.
KeysUnique ==
    \A i, k \in Registered : CaseFold[peers[i].alias] = CaseFold[peers[k].alias] => i = k

\* A new alias is not taken, and no row changes its alias.
LEMMA KeysStep ==
    ASSUME Typed, KeysUnique, [Next]_vars
    PROVE  KeysUnique'
<1>1. CASE \E id \in PeerId, row \in Row : Adds(id, row)
  <2>1. PICK id \in PeerId, row \in Row : Adds(id, row)
    BY <1>1
  <2>2. /\ peers'[id] = row
        /\ \A k \in Registered' \ {id} : k \in Registered /\ peers'[k] = peers[k]
    BY <2>1 DEF Adds, Registered, Typed, TypeOK
  <2>3. \A k \in Registered : CaseFold[peers[k].alias] # CaseFold[row.alias]
    BY <2>1 DEF Adds, Taken
  <2>4. QED
    BY <2>2, <2>3 DEF KeysUnique
<1>2. CASE UNCHANGED peers \/ \E id \in PeerId : Touches(id)
  <2>1. Registered' \subseteq Registered
    BY <1>2 DEF Touches, Registered, Typed, TypeOK
  <2>2. \A k \in Registered' : peers'[k].alias = peers[k].alias
    BY <2>1, RowsStay
  <2>3. QED
    BY <2>1, <2>2 DEF KeysUnique
<1>3. QED
  BY <1>1, <1>2, PeersStep

\* No two peers share an alias, in any spelling.
THEOREM AliasesUnique == Spec => []KeysUnique
<1>1. Init => KeysUnique
  BY DEF Init, KeysUnique, Registered
<1>2. QED
  BY <1>1, InitType, NextType, KeysStep, PTL DEF Spec

Addresses == PeerId \cup Alias

\* A peer that is added is reached by its id and by the spellings of its alias,
\* which reached nobody.
LEMMA AddsJoins ==
    ASSUME Typed, NEW id \in PeerId, NEW row \in Row, Adds(id, row)
    PROVE  /\ \A q \in Addresses : id \notin Resolve(q)
           /\ \A q \in Addresses :
                 \/ Resolve(q)' = Resolve(q)
                 \/ Resolve(q) = {} /\ Resolve(q)' = {id}
<1>1. /\ peers'[id] = row
      /\ id \notin Registered
      /\ \A k \in PeerId \ {id} : peers'[k] = peers[k]
      /\ \A k \in Registered : CaseFold[peers[k].alias] # CaseFold[row.alias]
  BY DEF Adds, Taken, Typed, TypeOK
<1>2. Registered' = Registered \cup {id}
  BY <1>1, NullAssumption DEF Registered
<1>3. row.alias \in Alias
  BY DEF Row
<1>4. ASSUME NEW q \in Addresses
      PROVE  \/ Resolve(q)' = Resolve(q)
             \/ Resolve(q) = {} /\ Resolve(q)' = {id}
  <2>1. \A k \in Registered : k # id /\ peers'[k] = peers[k]
    BY <1>1 DEF Registered
  <2>2. CASE q = id \/ (q \in Alias /\ CaseFold[row.alias] = CaseFold[q])
    <3>1. Resolve(q) = {}
      <4>1. CASE q = id
        <5>1. q \notin Alias
          BY <4>1, DisjointAssumption
        <5>2. QED
          BY <1>1, <4>1, <5>1 DEF Resolve
      <4>2. CASE q \in Alias /\ CaseFold[row.alias] = CaseFold[q]
        <5>1. q \notin PeerId
          BY <4>2, DisjointAssumption
        <5>2. QED
          BY <1>1, <4>2, <5>1 DEF Resolve, Registered
      <4>3. QED
        BY <2>2, <4>1, <4>2
    <3>2. id \in Resolve(q)'
      BY <1>1, <1>2, <2>2 DEF Resolve
    <3>3. \A k \in Resolve(q)' : k = id
      BY <1>2, <2>1, <3>1 DEF Resolve
    <3>4. QED
      BY <3>1, <3>2, <3>3
  <2>3. CASE ~(q = id \/ (q \in Alias /\ CaseFold[row.alias] = CaseFold[q]))
    <3>1. id \notin Resolve(q)'
      BY <1>1, <2>3 DEF Resolve
    <3>2. \A k \in Registered : k \in Resolve(q)' <=> k \in Resolve(q)
      BY <1>2, <2>1 DEF Resolve
    <3>3. Resolve(q) \subseteq Registered /\ Resolve(q)' \subseteq Registered \cup {id}
      BY <1>2 DEF Resolve
    <3>4. QED
      BY <1>1, <3>1, <3>2, <3>3
  <2>4. QED
    BY <2>2, <2>3
<1>5. QED
  BY <1>1, <1>4 DEF Resolve

\* The hub keeps the promise of the directory: an address that reaches a peer
\* reaches this peer for good, whatever joins race, fail or are repeated.
THEOREM EnrollmentImplementsDirectory == Spec => DirectoryIsSafe
<1> DEFINE reach == [q \in Addresses |-> Resolve(q)]
<1>1. Init => D!Init
  BY DEF Init, D!Init, D!Nobody, Resolve, Registered
<1>2. ASSUME Typed, [Next]_vars PROVE D!Next \/ reach' = reach
  <2>1. CASE \E id \in PeerId, row \in Row : Adds(id, row)
    <3>1. PICK id \in PeerId, row \in Row : Adds(id, row)
      BY <2>1
    <3>2. /\ \A q \in Addresses : id \notin Resolve(q)
          /\ \A q \in Addresses :
                 \/ Resolve(q)' = Resolve(q)
                 \/ Resolve(q) = {} /\ Resolve(q)' = {id}
      BY <1>2, <3>1, AddsJoins
    <3>3. \A q \in Addresses : Resolve(q)' \in SUBSET PeerId
      BY DEF Resolve, Registered
    <3>4. D!Join(id)
      BY <3>2, <3>3 DEF D!Join, Addresses
    <3>5. QED
      BY <3>4 DEF D!Next
  <2>2. CASE UNCHANGED peers \/ \E id \in PeerId : Touches(id)
    <3>1. Registered' = Registered
      BY <1>2, <2>2, RowsStay DEF Touches, Registered, Typed, TypeOK
    <3>2. \A k \in Registered : peers'[k].alias = peers[k].alias
      BY <1>2, RowsStay
    <3>3. \A q \in Addresses : Resolve(q)' = Resolve(q)
      BY <3>1, <3>2 DEF Resolve
    <3>4. QED
      BY <3>3
  <2>3. QED
    BY <1>2, <2>1, <2>2, PeersStep
<1>3. Typed /\ [Next]_vars => [D!Next]_reach
  BY <1>2
<1>4. QED
  BY <1>1, <1>3, InitType, NextType, PTL DEF Spec, DirectoryIsSafe, D!Spec, Addresses
=============================================================================
