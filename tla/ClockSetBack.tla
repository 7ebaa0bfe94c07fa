---------------------------- MODULE ClockSetBack ----------------------------
(***************************************************************************)
(* The store under a wall clock that may be set back (utc_now asks the     *)
(* system for the time of day, which an operator or a time server may set  *)
(* to an earlier one while the hub runs).  The store keeps only instants   *)
(* it read from the clock, so what it did up to the latest of them stands. *)
(***************************************************************************)
EXTENDS MessageStore

CONSTANT MaxSetBacks    \* bound on how often the clock is set back

VARIABLES
    latest,     \* the latest time of day that the clock ever showed
    setBacks    \* how often it was set back

setBackVars == <<vars, latest, setBacks>>

SetBackInit == Init /\ latest = clock /\ setBacks = 0

SetBack ==
    /\ setBacks < MaxSetBacks
    /\ setBacks' = setBacks + 1
    /\ clock' \in 0 .. clock - 1
    /\ UNCHANGED <<hub, peers, messages, op, issued, accepted, ackedWith>>

Remember == latest' = IF clock' > latest THEN clock' ELSE latest

\* A step of the hub, its clients or the clock, as in MessageStore.
Forward(step) == step /\ Remember /\ UNCHANGED setBacks

SetBackNext == Forward(Next) \/ (SetBack /\ UNCHANGED latest)

SetBackSpec == SetBackInit /\ [][SetBackNext]_setBackVars

(***************************************************************************)
(* Time passes, a thread that asked for the lock gets it or gives up, the  *)
(* hub is started again when it is down, and somebody keeps polling.  The  *)
(* clock is set back and the hub crashes finitely often: one that dies     *)
(* during every request promises nothing.  Two steps need strong fairness. *)
(* Poll, only because the model has few threads: the hub starts one for    *)
(* every request, so a poll is not kept out for good by other requests.    *)
(* And the transaction of some poll: every single poll may give up on the  *)
(* lock, but the lock is not lost by all of them, for ever.  sqlite3       *)
(* retries for ten seconds and promises no more; it is an assumption.      *)
(***************************************************************************)
FairSetBack ==
    /\ SetBackSpec
    /\ WF_setBackVars(Forward(Tick))
    /\ WF_setBackVars(Forward(Boot))
    /\ \A h \in Handler : WF_setBackVars(Forward(Run(h)))
    /\ SF_setBackVars(Forward(\E h \in Handler : Poll(h)))
    /\ SF_setBackVars(Forward(\E h \in Handler : LeaseGrant(h) \/ LeaseNone(h)))
    /\ <>[][~Crash]_setBackVars

----------------------------------------------------------------------------
(* Properties                                                              *)

\* Setting the clock back loses no message: what leaves the queue unread had
\* expired by the latest time of day the hub saw.
SetBackLosesNothing ==
    [][\A m \in Present(messages) :
          IsLive(messages[m]) =>
            \/ messages[m].env.expires <= latest
            \/ /\ messages'[m] # NoRow
               /\ messages'[m].env = messages[m].env
               /\ messages'[m].received = messages[m].received
               /\ messages'[m].status # "expired"]_setBackVars

\* ... and it takes no message from its holder: a lease that had not run out by
\* the latest time of day ends only with an acknowledgement.
SetBackHonoursLease ==
    [][\A m \in Present(messages) :
          LET r == messages[m]
          IN  r.status = "leased" /\ r.until > latest /\ r.env.expires > latest =>
                \/ messages'[m] = r
                \/ /\ messages'[m] # NoRow
                   /\ messages'[m].status = "acknowledged"
                   /\ ackedWith'[m] = r.lease]_setBackVars

\* It forgets no message that could be submitted again, as far as the latest
\* time of day tells: a repetition that is not recognised is one of a message
\* that had expired once, and that setting the clock back made current again.
SetBackRemembers ==
    \A e \in accepted :
        \/ messages[e.id] # NoRow /\ messages[e.id].env = e
        \/ e.expires + BusyTimeout <= latest

Queued(m) == messages[m] # NoRow /\ IsLive(messages[m])

\* Every message is acknowledged or expires as long as anybody polls: none whose
\* deadline the clock can reach stays pending or leased for ever.
EveryMessageSettles ==
    \A m \in MsgId :
        Queued(m) /\ messages[m].env.expires <= MaxClock ~> ~Queued(m)

RanOut(m) ==
    messages[m] # NoRow /\ messages[m].status = "leased" /\ messages[m].until <= clock

\* No lease stays in the way after it ran out, although a single poll may fail to
\* get the lock and the answer that gave the lease may be one that nobody read.
EveryLeaseReturns == \A m \in MsgId : RanOut(m) ~> ~RanOut(m)
=============================================================================
