------------------------------ MODULE Startup ------------------------------
(***************************************************************************)
(* How a hub comes up.  `courier create-token' draws the operator token    *)
(* and writes it to a file of its own; `courier serve' checks its          *)
(* arguments, checks the token file, reads it, opens the store, binds its  *)
(* port, and only then looks at the certificate and the key.  Several of   *)
(* these commands run at a time, each may fail or be killed between two    *)
(* steps, and the user may take the token file away at any moment.         *)
(***************************************************************************)
EXTENDS Naturals, FiniteSets

CONSTANTS
    Maker,     \* invocations of `create-token', each draws a token of its own
    Hub,       \* terminals in which `serve' is run, again and again
    Plan,      \* the arguments it is run with
    NoFile,    \* nothing is at the path of the operator token
    Blank,     \* the text of a file that was created and not yet written
    NoSecret   \* a hub that has not read its token

PlanShape ==
    [listen: {"loopback", "elsewhere"}, port: Nat, cert: BOOLEAN, key: BOOLEAN,
     allow: BOOLEAN]

\* A token is named after the invocation that drew it.
Text == Maker \cup {Blank}
File == [by: Maker, text: Text]

ASSUME PlanAssumption == Plan # {} /\ Plan \subseteq PlanShape
ASSUME NullAssumption ==
    Blank \notin Maker /\ NoSecret \notin Text /\ NoFile \notin File

VARIABLES
    file,      \* what is at the path of the operator token
    making,    \* per create-token, how far it is
    stage,     \* per terminal, how far serve is
    plan,      \* per terminal, the arguments of the last serve
    secret,    \* per terminal, the operator token in memory
    wrapped    \* per terminal, whether the socket is wrapped in TLS

vars == <<file, making, stage, plan, secret, wrapped>>

Init ==
    /\ file = NoFile
    /\ making = [m \in Maker |-> "new"]
    /\ stage = [s \in Hub |-> "idle"]
    /\ plan \in [Hub -> Plan]
    /\ secret = [s \in Hub |-> NoSecret]
    /\ wrapped = [s \in Hub |-> FALSE]

----------------------------------------------------------------------------
(* create-token                                                            *)

Making(m, from, to) ==
    /\ making[m] \in from
    /\ making' = [making EXCEPT ![m] = to]
    /\ UNCHANGED <<stage, plan, secret, wrapped>>

\* O_CREAT | O_EXCL.
Create(m) ==
    \/ /\ file = NoFile
       /\ file' = [by |-> m, text |-> Blank]
       /\ Making(m, {"new"}, "opened")
    \/ /\ file # NoFile
       /\ UNCHANGED file
       /\ Making(m, {"new"}, "failed")

\* One write to the descriptor, whatever the path names by now.
Write(m) ==
    /\ file' = IF file # NoFile /\ file.by = m THEN [by |-> m, text |-> m] ELSE file
    /\ Making(m, {"opened"}, "written")

Finish(m) == UNCHANGED file /\ Making(m, {"written"}, "done")

\* An error after the open: unlink goes by the path, and its own errors pass.
WriteFails(m) ==
    /\ file' \in {NoFile, file}
    /\ Making(m, {"opened", "written"}, "failed")

KillMaker(m) == UNCHANGED file /\ Making(m, {"opened", "written"}, "failed")

\* The user takes the file away: a leftover, or a token that is replaced.
Remove ==
    /\ file # NoFile
    /\ file' = NoFile
    /\ UNCHANGED <<making, stage, plan, secret, wrapped>>

----------------------------------------------------------------------------
(* serve                                                                   *)

Serving(s, from, to) ==
    /\ stage[s] = from
    /\ stage' = [stage EXCEPT ![s] = to]
    /\ UNCHANGED <<file, making>>

HasTls(p) == p.cert \/ p.key

\* Plain HTTP beyond loopback needs --allow-tailnet-http.
Refuses(p) == p.listen = "elsewhere" /\ ~HasTls(p) /\ ~p.allow

Run(s, p) ==
    /\ stage[s] = "idle"
    /\ ~Refuses(p)
    /\ Serving(s, "idle", "started")
    /\ plan' = [plan EXCEPT ![s] = p]
    /\ UNCHANGED <<secret, wrapped>>

\* A text of at least twenty characters: the size of the file says the same.
LongEnough(text) == text # Blank

\* _check_private_file and the size, taken from stat ...
CheckFile(s) ==
    /\ file # NoFile
    /\ LongEnough(file.text)
    /\ Serving(s, "started", "checked")
    /\ UNCHANGED <<plan, secret, wrapped>>

\* Fault: the size that stat reported is trusted.
AsStatSaid(text) == TRUE

TokenIsValid(text) == LongEnough(text)

\* ... and the text, opened by name again: it may be another file.
ReadFile(s) ==
    /\ file # NoFile
    /\ TokenIsValid(file.text)
    /\ Serving(s, "checked", "ready")
    /\ secret' = [secret EXCEPT ![s] = file.text]
    /\ UNCHANGED <<plan, wrapped>>

\* The limits are in range and initialize succeeds.
OpenStore(s) == Serving(s, "ready", "opened") /\ UNCHANGED <<plan, secret, wrapped>>

\* There is one address of each kind; two hubs may share a port between them.
Holds(t, p) ==
    /\ stage[t] \in {"bound", "serving"}
    /\ plan[t].listen = p.listen
    /\ plan[t].port = p.port

\* The constructor of HTTPServer binds and listens; nothing is accepted yet.
Bind(s) ==
    /\ \A t \in Hub : ~Holds(t, plan[s])
    /\ Serving(s, "opened", "bound")
    /\ UNCHANGED <<plan, secret, wrapped>>

\* Fault: a certificate without a key, or the other way round, passes.
EitherWillDo(p) == TRUE

\* make_server wants both or neither.
Paired(p) == p.cert = p.key

Secure(s) ==
    /\ Paired(plan[s])
    /\ Serving(s, "bound", "serving")
    /\ wrapped' = [wrapped EXCEPT ![s] = plan[s].cert /\ plan[s].key]
    /\ UNCHANGED <<plan, secret>>

\* serve ends: any step may fail, and a hub that serves is stopped or killed.
End(s) ==
    /\ stage[s] # "idle"
    /\ Serving(s, stage[s], "idle")
    /\ secret' = [secret EXCEPT ![s] = NoSecret]
    /\ wrapped' = [wrapped EXCEPT ![s] = FALSE]
    /\ UNCHANGED plan

----------------------------------------------------------------------------
CreateToken(m) == Create(m) \/ Write(m) \/ Finish(m) \/ WriteFails(m) \/ KillMaker(m)

Serve(s) ==
    \/ \E p \in Plan : Run(s, p)
    \/ CheckFile(s)
    \/ ReadFile(s)
    \/ OpenStore(s)
    \/ Bind(s)
    \/ Secure(s)
    \/ End(s)

Next ==
    \/ \E m \in Maker : CreateToken(m)
    \/ \E s \in Hub : Serve(s)
    \/ Remove

Spec == Init /\ [][Next]_vars

----------------------------------------------------------------------------
(* Properties                                                              *)

TypeOK ==
    /\ file \in File \cup {NoFile}
    /\ making \in [Maker -> {"new", "opened", "written", "done", "failed"}]
    /\ stage \in [Hub -> {"idle", "started", "checked", "ready", "opened", "bound",
                          "serving"}]
    /\ plan \in [Hub -> Plan]
    /\ secret \in [Hub -> Text \cup {NoSecret}]
    /\ wrapped \in [Hub -> BOOLEAN]

\* docs/requirements.md:77: plain HTTP is served beyond loopback only with the
\* operator's explicit consent.  The command line takes a certificate OR a key for
\* TLS and lets the consent go; make_server decides later, with the port bound.
ConsentedOrEncrypted ==
    \A s \in Hub :
        stage[s] = "serving" /\ plan[s].listen = "elsewhere" /\ ~wrapped[s] =>
            plan[s].allow

\* The scheme that serve prints is the scheme that it serves.
ServedAsAnnounced ==
    \A s \in Hub : stage[s] = "serving" => (HasTls(plan[s]) <=> wrapped[s])

\* A hub that serves has a whole token, one that a create-token had written to its
\* end: never the text of a file that took the place of the one it had checked.
ServesWholeToken ==
    \A s \in Hub :
        stage[s] = "serving" =>
            \E m \in Maker : secret[s] = m /\ making[m] \notin {"new", "opened"}
=============================================================================
