--------------------------- MODULE StartupProofs ---------------------------
(***************************************************************************)
(* What a hub serves, and with which token, for any number of commands and *)
(* any arguments.                                                          *)
(***************************************************************************)
EXTENDS Startup, TLAPS

\* Whoever has the token in a file or in memory has a whole one.
Whole(text) == text \in Maker /\ making[text] \notin {"new", "opened"}

FileInv == file # NoFile => file.text = Blank \/ Whole(file.text)

\* What serve has established by the time it has come this far.
HubInv ==
    \A s \in Hub :
        /\ stage[s] # "idle" => ~Refuses(plan[s])
        /\ stage[s] \in {"ready", "opened", "bound", "serving"} => Whole(secret[s])
        /\ stage[s] = "serving" =>
             Paired(plan[s]) /\ wrapped[s] = (plan[s].cert /\ plan[s].key)

Inv == TypeOK /\ FileInv /\ HubInv

LEMMA PlanFields ==
    ASSUME NEW p \in Plan
    PROVE  p.cert \in BOOLEAN /\ p.key \in BOOLEAN /\ p.allow \in BOOLEAN
BY PlanAssumption DEF PlanShape

LEMMA FileFields ==
    /\ \A m \in Maker, t \in Text :
         LET f == [by |-> m, text |-> t]
         IN  f \in File /\ f # NoFile /\ f.by = m /\ f.text = t
    /\ \A f \in File : f.by \in Maker /\ f.text \in Text /\ f # NoFile
BY NullAssumption DEF File

LEMMA InitInv == Init => Inv
<1> SUFFICES ASSUME Init
             PROVE  Inv
  OBVIOUS
<1>1. TypeOK
  BY DEF Init, TypeOK
<1>2. FileInv
  BY DEF Init, FileInv
<1>3. HubInv
  BY DEF Init, HubInv
<1>4. QED
  BY <1>1, <1>2, <1>3 DEF Inv

\* A create-token moves forward only: what is whole stays whole.
LEMMA MakerStep ==
    ASSUME Inv, NEW m \in Maker, CreateToken(m)
    PROVE  /\ making' \in [Maker -> {"new", "opened", "written", "done", "failed"}]
           /\ \A t : Whole(t) => Whole(t)'
           /\ UNCHANGED <<stage, plan, secret, wrapped>>
<1>1. making \in [Maker -> {"new", "opened", "written", "done", "failed"}]
  BY DEF Inv, TypeOK
<1>2. PICK from, to :
         /\ \/ from = {"new"} /\ to \in {"opened", "failed"}
            \/ from \in {{"opened"}, {"written"}, {"opened", "written"}}
               /\ to \in {"written", "done", "failed"}
         /\ Making(m, from, to)
  BY DEF CreateToken, Create, Write, Finish, WriteFails, KillMaker
<1>3. /\ making' = [making EXCEPT ![m] = to]
      /\ to \in {"opened", "written", "done", "failed"}
      /\ to = "opened" => making[m] = "new"
      /\ UNCHANGED <<stage, plan, secret, wrapped>>
  BY <1>2 DEF Making
<1>4. ASSUME NEW t, Whole(t)
      PROVE  Whole(t)'
  <2>1. CASE t = m
    BY <1>1, <1>3, <1>4, <2>1 DEF Whole
  <2>2. CASE t # m
    BY <1>1, <1>3, <1>4, <2>2 DEF Whole
  <2>3. QED
    BY <2>1, <2>2
<1>5. making' \in [Maker -> {"new", "opened", "written", "done", "failed"}]
  BY <1>1, <1>3
<1>6. QED
  BY <1>3, <1>4, <1>5

\* What create-token leaves at the path.
LEMMA MakerFile ==
    ASSUME Inv, NEW m \in Maker, CreateToken(m)
    PROVE  file' \in File \cup {NoFile} /\ FileInv'
<1>1. file \in File \cup {NoFile} /\ FileInv
  BY DEF Inv, TypeOK
<1>2. CASE file' \in {NoFile, file}
  BY <1>1, <1>2, MakerStep DEF FileInv
<1>3. CASE file' = [by |-> m, text |-> Blank]
  BY <1>3, FileFields DEF FileInv, Text
<1>4. CASE Write(m) /\ file' = [by |-> m, text |-> m]
  <2>1. making'[m] = "written"
    BY <1>4 DEF Write, Making, Inv, TypeOK
  <2>2. file' \in File /\ file'.text = m
    BY <1>4, FileFields DEF Text
  <2>3. Whole(m)'
    BY <2>1 DEF Whole
  <2>4. FileInv'
    BY <2>2, <2>3 DEF FileInv, Whole
  <2>5. QED
    BY <2>2, <2>4
<1>5. QED
  BY <1>2, <1>3, <1>4 DEF CreateToken, Create, Write, Finish, WriteFails, KillMaker

\* A step of serve reads what the invariant says of the file.
LEMMA ServeStep ==
    ASSUME Inv, NEW s \in Hub, Serve(s)
    PROVE  TypeOK' /\ FileInv' /\ HubInv'
<1>1. UNCHANGED <<file, making>>
  BY DEF Serve, Run, CheckFile, ReadFile, OpenStore, Bind, Secure, End, Serving
<1>2. FileInv' /\ \A t : Whole(t) => Whole(t)'
  BY <1>1 DEF Inv, FileInv, Whole
<1>3. \A t \in Hub \ {s} : /\ stage'[t] = stage[t] /\ plan'[t] = plan[t]
                           /\ secret'[t] = secret[t] /\ wrapped'[t] = wrapped[t]
  BY DEF Inv, TypeOK, Serve, Run, CheckFile, ReadFile, OpenStore, Bind, Secure, End,
     Serving
<1> DEFINE Here == /\ stage'[s] # "idle" => ~Refuses(plan'[s])
                   /\ stage'[s] \in {"ready", "opened", "bound", "serving"} =>
                        Whole(secret'[s])
                   /\ stage'[s] = "serving" =>
                        /\ Paired(plan'[s])
                        /\ wrapped'[s] = (plan'[s].cert /\ plan'[s].key)
           Types == TypeOK'
<1>4. TypeOK
  BY DEF Inv
<1>5. /\ stage[s] # "idle" => ~Refuses(plan[s])
      /\ stage[s] \in {"ready", "opened", "bound", "serving"} => Whole(secret[s])
  BY DEF Inv, HubInv
<1>6. ASSUME NEW p \in Plan, Run(s, p)
      PROVE  Types /\ Here
  BY <1>1, <1>4, <1>6 DEF TypeOK, Run, Serving
<1>7. ASSUME CheckFile(s) \/ OpenStore(s) \/ Bind(s)
      PROVE  Types /\ Here
  BY <1>1, <1>4, <1>5, <1>7 DEF TypeOK, CheckFile, OpenStore, Bind, Serving
<1>8. ASSUME ReadFile(s)
      PROVE  Types /\ Here
  <2>1. file \in File /\ file.text # Blank /\ FileInv
    BY <1>4, <1>8 DEF Inv, TypeOK, ReadFile, TokenIsValid, LongEnough
  <2>2. file.text \in Text /\ Whole(file.text)
    BY <2>1, FileFields DEF FileInv
  <2>3. QED
    BY <1>1, <1>4, <1>5, <1>8, <2>2 DEF TypeOK, ReadFile, Serving
<1>9. ASSUME Secure(s)
      PROVE  Types /\ Here
  <2>1. plan[s].cert \in BOOLEAN /\ plan[s].key \in BOOLEAN
    BY <1>4, PlanFields DEF TypeOK
  <2>2. /\ stage[s] = "bound" /\ stage' = [stage EXCEPT ![s] = "serving"]
        /\ Paired(plan[s]) /\ UNCHANGED <<plan, secret>>
        /\ wrapped' = [wrapped EXCEPT ![s] = plan[s].cert /\ plan[s].key]
    BY <1>9 DEF Secure, Serving
  <2>3. wrapped' \in [Hub -> BOOLEAN]
    BY <1>4, <2>1, <2>2 DEF TypeOK
  <2>4. wrapped'[s] = (plan[s].cert /\ plan[s].key)
    BY <1>4, <2>2, Zenon DEF TypeOK
  <2>5. Types
    BY <1>1, <1>4, <2>2, <2>3 DEF TypeOK
  <2>6. stage'[s] = "serving"
    BY <1>4, <2>2 DEF TypeOK
  <2>7. QED
    BY <1>5, <2>2, <2>4, <2>5, <2>6
<1>10. ASSUME End(s)
       PROVE  Types /\ Here
  BY <1>1, <1>4, <1>10 DEF TypeOK, End, Serving
<1>11. Types /\ Here
  BY <1>6, <1>7, <1>8, <1>9, <1>10 DEF Serve
<1>12. HubInv'
  <2> SUFFICES ASSUME NEW t \in Hub
               PROVE  /\ stage'[t] # "idle" => ~Refuses(plan'[t])
                      /\ stage'[t] \in {"ready", "opened", "bound", "serving"} =>
                           Whole(secret[t])'
                      /\ stage'[t] = "serving" =>
                           /\ Paired(plan'[t])
                           /\ wrapped'[t] = (plan'[t].cert /\ plan'[t].key)
    BY DEF HubInv, Refuses, Paired, HasTls
  <2>1. CASE t = s
    BY <1>1, <1>11, <2>1 DEF Whole
  <2>2. CASE t # s
    <3>1. /\ stage'[t] = stage[t] /\ plan'[t] = plan[t]
          /\ secret'[t] = secret[t] /\ wrapped'[t] = wrapped[t]
      BY <1>3, <2>2
    <3>2. /\ stage[t] # "idle" => ~Refuses(plan[t])
          /\ stage[t] \in {"ready", "opened", "bound", "serving"} => Whole(secret[t])
          /\ stage[t] = "serving" =>
               Paired(plan[t]) /\ wrapped[t] = (plan[t].cert /\ plan[t].key)
      BY DEF Inv, HubInv
    <3>3. Whole(secret[t]) => Whole(secret[t])'
      BY <1>1, <3>1 DEF Whole
    <3>4. QED
      BY <3>1, <3>2, <3>3
  <2>3. QED
    BY <2>1, <2>2
<1>13. QED
  BY <1>2, <1>11, <1>12

LEMMA NextInv == Inv /\ [Next]_vars => Inv'
<1> SUFFICES ASSUME Inv, [Next]_vars
             PROVE  TypeOK' /\ FileInv' /\ HubInv'
  BY DEF Inv
<1>1. ASSUME NEW m \in Maker, CreateToken(m)
      PROVE  TypeOK' /\ FileInv' /\ HubInv'
  <2>1. TypeOK' /\ FileInv'
    BY <1>1, MakerStep, MakerFile DEF Inv, TypeOK
  <2>2. \A s \in Hub : Whole(secret[s]) => Whole(secret[s])'
    BY <1>1, MakerStep DEF Whole
  <2>3. HubInv'
    BY <1>1, <2>2, MakerStep DEF Inv, HubInv, Refuses, Paired, HasTls
  <2>4. QED
    BY <2>1, <2>3
<1>2. ASSUME NEW s \in Hub, Serve(s)
      PROVE  TypeOK' /\ FileInv' /\ HubInv'
  BY <1>2, ServeStep
<1>3. CASE Remove
  BY <1>3 DEF Remove, Inv, TypeOK, FileInv, HubInv, Whole, Refuses, Paired, HasTls
<1>4. CASE UNCHANGED vars
  BY <1>4 DEF vars, Inv, TypeOK, FileInv, HubInv, Whole, Refuses, Paired, HasTls
<1>5. QED
  BY <1>1, <1>2, <1>3, <1>4 DEF Next

LEMMA Invariant == Spec => []Inv
BY InitInv, NextInv, PTL DEF Spec

\* Commands, the token file and what hubs hold have their types.
THEOREM StartupTypes == Spec => []TypeOK
<1>1. Inv => TypeOK
  BY DEF Inv
<1>2. QED
  BY <1>1, Invariant, PTL

\* Plain HTTP is never served beyond loopback without the operator's consent,
\* although one half of a TLS configuration is enough to skip the question.
THEOREM NeverPlainUnasked == Spec => []ConsentedOrEncrypted
<1>1. Inv => ConsentedOrEncrypted
  <2> SUFFICES ASSUME Inv, NEW s \in Hub, stage[s] = "serving",
                      plan[s].listen = "elsewhere", ~wrapped[s]
               PROVE  plan[s].allow
    BY DEF ConsentedOrEncrypted
  <2>1. plan[s].cert \in BOOLEAN /\ plan[s].key \in BOOLEAN /\ plan[s].allow \in BOOLEAN
    BY PlanFields DEF Inv, TypeOK
  <2>2. /\ ~Refuses(plan[s]) /\ Paired(plan[s])
        /\ wrapped[s] = (plan[s].cert /\ plan[s].key)
    BY DEF Inv, HubInv
  <2>3. ~(plan[s].cert /\ plan[s].key) /\ plan[s].cert = plan[s].key
    BY <2>2, Zenon DEF Paired
  <2>4. QED
    BY <2>1, <2>2, <2>3 DEF Refuses, HasTls
<1>2. QED
  BY <1>1, Invariant, PTL

\* serve prints https exactly when it serves https.
THEOREM AnnouncementIsTrue == Spec => []ServedAsAnnounced
<1>1. Inv => ServedAsAnnounced
  <2> SUFFICES ASSUME Inv, NEW s \in Hub, stage[s] = "serving"
               PROVE  HasTls(plan[s]) <=> wrapped[s]
    BY DEF ServedAsAnnounced
  <2>1. plan[s].cert \in BOOLEAN /\ plan[s].key \in BOOLEAN
    BY PlanFields DEF Inv, TypeOK
  <2>2. plan[s].cert = plan[s].key /\ wrapped[s] = (plan[s].cert /\ plan[s].key)
    BY DEF Inv, HubInv, Paired
  <2>3. QED
    BY <2>1, <2>2 DEF HasTls
<1>2. QED
  BY <1>1, Invariant, PTL

\* The operator token of a hub that serves is one that was written to its end,
\* whatever happened to the file between its check and its reading.
THEOREM TokenIsWhole == Spec => []ServesWholeToken
<1>1. Inv => ServesWholeToken
  BY DEF Inv, HubInv, ServesWholeToken, Whole
<1>2. QED
  BY <1>1, Invariant, PTL
=============================================================================
