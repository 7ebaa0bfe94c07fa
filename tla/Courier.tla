------------------------------ MODULE Courier ------------------------------
(***************************************************************************)
(* What the hub promises its clients: ONE table of letters that every call *)
(* reads and changes at a single instant between the question and the      *)
(* answer.  A letter is submitted, waits, is held by one consumer under a  *)
(* lease, is closed by that consumer or by its deadline, and is forgotten  *)
(* later.  The requests that wait for the database, the clocks they have   *)
(* read, the rounds of a long poll and the rollbacks are hidden.           *)
(***************************************************************************)
EXTENDS Integers

CONSTANTS
    Handler,            \* callers: the calls that are open at one time
    Peer, MsgId, Envelope,
    Grace,              \* how late the hub may act on a clock it has read
    MoreUrgent(_, _)    \* the order in which letters for a peer are due

VARIABLES
    clock,      \* the wall clock
    mail,       \* per id, the letter that the hub knows under it
    issued,     \* per id, how many leases were given
    calls,      \* per caller, the open call
    inbox,      \* the deliveries that clients received
    told        \* per caller, the last answer that was heard

vars == <<clock, mail, issued, calls, inbox, told>>

Nowhere == [at |-> "nowhere"]
Waiting(e) == [at |-> "waiting", env |-> e]
Held(e, l, t) == [at |-> "held", env |-> e, lease |-> l, until |-> t]
Closed(e) == [at |-> "closed", env |-> e]

NoCall == [kind |-> "none"]
Call ==
    [kind: {"send"}, env: Envelope, open: {TRUE}]
      \cup [kind: {"claim"}, peer: Peer, open: {TRUE}]

Silence == [verdict |-> "none"]

Init ==
    /\ clock = 0
    /\ mail = [m \in MsgId |-> Nowhere]
    /\ issued = [m \in MsgId |-> 0]
    /\ calls = [h \in Handler |-> NoCall]
    /\ inbox = {}
    /\ told = [h \in Handler |-> Silence]

----------------------------------------------------------------------------
(* What time alone does to a letter: a hold that ran out is taken back,    *)
(* a letter past its deadline is closed, a closed one may be forgotten.    *)

Overdue(x) == x.at = "held" /\ x.until <= clock

Outlived(x) == x.at \in {"waiting", "held"} /\ x.env.expires <= clock

Ages(x, y) ==
    \/ y = x
    \/ Overdue(x) /\ y = Waiting(x.env)
    \/ (Outlived(x) \/ x.at = "closed") /\ y \in {Closed(x.env), Nowhere}

\* The letters outside S only age.
Elsewhere(S) ==
    /\ mail' = [m \in MsgId |-> mail'[m]]
    /\ \A m \in MsgId \ S : Ages(mail[m], mail'[m])

InTime(e) == e.expires > clock - Grace

----------------------------------------------------------------------------
(* Calls and answers.                                                      *)

Tick ==
    /\ clock' = clock + 1
    /\ UNCHANGED <<mail, issued, calls, inbox, told>>

Ask(h) ==
    /\ calls[h] = NoCall
    /\ \E c \in Call : calls' = [calls EXCEPT ![h] = c]
    /\ told' = [told EXCEPT ![h] = Silence]
    /\ UNCHANGED <<clock, mail, issued, inbox>>

\* The client does not wait for the answer any more.
Leave(h) ==
    /\ calls[h] # NoCall
    /\ calls' = [calls EXCEPT ![h].open = FALSE]
    /\ UNCHANGED <<clock, mail, issued, inbox, told>>

Ends(h, answer) ==
    /\ calls' = [calls EXCEPT ![h] = NoCall]
    /\ told' = [told EXCEPT ![h] = IF calls[h].open THEN answer ELSE Silence]

\* A call is lost, and nothing is done for it ...
Drop(h) ==
    /\ calls[h] # NoCall
    /\ Ends(h, Silence)
    /\ UNCHANGED <<clock, mail, issued, inbox>>

\* ... or all of them are, with the hub.
Fail ==
    /\ calls' = [h \in Handler |-> NoCall]
    /\ UNCHANGED <<clock, mail, issued, inbox, told>>

----------------------------------------------------------------------------
(* send                                                                    *)

Accept(h) ==
    /\ calls[h].kind = "send"
    /\ LET e == calls[h].env
       IN  /\ mail[e.id] = Nowhere
           /\ InTime(e)
           /\ mail'[e.id] = Waiting(e)
           /\ Elsewhere({e.id})
           /\ Ends(h, [env |-> e, verdict |-> "queued"])
    /\ UNCHANGED <<clock, issued, inbox>>

Recognise(h) ==
    /\ calls[h].kind = "send"
    /\ LET e == calls[h].env
       IN  /\ mail[e.id] # Nowhere
           /\ Ends(h, [env |-> e,
                       verdict |-> IF mail[e.id].env = e THEN "already queued"
                                                         ELSE "conflict"])
    /\ UNCHANGED <<clock, mail, issued, inbox>>

\* Whatever else the hub refuses: not a letter that it has and that could still
\* be submitted.
Refuse(h) ==
    /\ calls[h].kind = "send"
    /\ LET e == calls[h].env
       IN  /\ \/ mail[e.id] = Nowhere \/ mail[e.id].env # e
              \/ e.expires <= clock
           /\ Ends(h, [env |-> e, verdict |-> "refused"])
    /\ UNCHANGED <<clock, mail, issued, inbox>>

----------------------------------------------------------------------------
(* claim                                                                   *)

\* No letter for p is left that could be handed out.
NoneWaits(p) ==
    \A m \in MsgId : mail'[m].at = "waiting" => mail'[m].env.recipient # p

Look(h) ==
    /\ calls[h].kind = "claim"
    /\ Elsewhere({})
    /\ NoneWaits(calls[h].peer)
    /\ UNCHANGED <<clock, issued, calls, inbox, told>>

\* The most urgent letter for the peer, under a lease that nobody had before.
HandOver(h) ==
    /\ calls[h].kind = "claim"
    /\ \E m \in MsgId :
          LET e == mail[m].env
              given == [peer |-> calls[h].peer, id |-> m, lease |-> issued[m] + 1]
          IN  /\ mail[m].at = "waiting" \/ Overdue(mail[m])
              /\ e.recipient = calls[h].peer
              /\ InTime(e)
              /\ mail'[m].at = "held" /\ mail'[m].until > clock - Grace
              /\ mail'[m] = Held(e, issued[m] + 1, mail'[m].until)
              /\ Elsewhere({m})
              /\ \A k \in MsgId :
                    mail'[k].at = "waiting" /\ mail'[k].env.recipient = e.recipient
                      => ~MoreUrgent(mail'[k].env, e)
              /\ issued' = [issued EXCEPT ![m] = @ + 1]
              /\ inbox' = IF calls[h].open THEN inbox \cup {given} ELSE inbox
    /\ Ends(h, Silence)
    /\ UNCHANGED clock

\* Nothing waits, and nothing waited through the whole of the call.
FindNothing(h) ==
    /\ calls[h].kind = "claim"
    /\ Elsewhere({})
    /\ NoneWaits(calls[h].peer)
    /\ Ends(h, [verdict |-> "empty", waited |-> {}])
    /\ UNCHANGED <<clock, issued, inbox>>

----------------------------------------------------------------------------
(* ack, by whoever received the delivery                                   *)

Holds(r) == mail[r.id].at = "held" /\ mail[r.id].lease = r.lease

Hears(h, answer) == told' = [told EXCEPT ![h] = answer]

\* Done, and the answer may be lost.
Settle(h, r) ==
    /\ Holds(r)
    /\ mail[r.id].env.recipient = r.peer
    /\ mail' = [mail EXCEPT ![r.id] = Closed(mail[r.id].env)]
    /\ Hears(h, Silence) \/ Hears(h, [by |-> r, verdict |-> "acknowledged"])

\* Only somebody whose lease is over is refused.
Conflict(h, r) ==
    /\ ~Holds(r)
    /\ UNCHANGED mail
    /\ Hears(h, [by |-> r, verdict |-> "lease conflict"])

Ack(h, r) ==
    /\ calls[h] = NoCall
    /\ Settle(h, r) \/ Conflict(h, r) \/ (UNCHANGED mail /\ Hears(h, Silence))
    /\ UNCHANGED <<clock, issued, calls, inbox>>

----------------------------------------------------------------------------
Next ==
    \/ Tick
    \/ Fail
    \/ \E h \in Handler :
          \/ Ask(h) \/ Leave(h) \/ Drop(h)
          \/ Accept(h) \/ Recognise(h) \/ Refuse(h)
          \/ Look(h) \/ HandOver(h) \/ FindNothing(h)
          \/ \E r \in inbox : Ack(h, r)

Spec == Init /\ [][Next]_vars
=============================================================================
