-------------------------- MODULE ConnectionProofs --------------------------
(***************************************************************************)
(* Proofs about Wire and Connection: the normal form is a fixed point of   *)
(* validation, formatted instants are ordered as their texts, and what the *)
(* answers on a connection say of the messages table.                      *)
(***************************************************************************)
EXTENDS Connection, TLAPS

----------------------------------------------------------------------------
(* Instants                                                                *)

\* An instant is the only one with its seconds and its fraction.
LEMMA Division ==
    ASSUME NEW i \in Int
    PROVE  /\ i \div Second \in Int
           /\ i % Second \in 0 .. Second - 1
           /\ i = Second * (i \div Second) + (i % Second)
<1>1. i \div Second \in Int
    BY BoundAssumption
<1>2. i % Second \in 0 .. Second - 1
    BY BoundAssumption
<1>3. i = Second * (i \div Second) + (i % Second)
    BY BoundAssumption
<1> QED
    BY <1>1, <1>2, <1>3

\* format_timestamp writes a timestamp that parse_timestamp reads as the same
\* instant.
LEMMA FormatReads ==
    ASSUME NEW i \in Int
    PROVE  /\ Format(i) \in Stamp
           /\ IsTimestamp(Format(i))
           /\ Instant(Format(i)) = i
<1>1. Format(i) \in Stamp
    BY Division DEF Format, Stamp
<1>2. Instant(Format(i)) = Second * (i \div Second - 0) + (i % Second)
    BY DEF Format, Instant
<1>3. i \div Second - 0 = i \div Second
    BY Division
<1> QED
    BY <1>1, <1>2, <1>3, Division DEF IsTimestamp, Format

\* Two divisions compare as the pairs of quotient and remainder do.
LEMMA Pairs ==
    ASSUME NEW q \in Int, NEW r \in 0 .. Second - 1,
           NEW p \in Int, NEW s \in 0 .. Second - 1
    PROVE  Second * q + r < Second * p + s <=> (q < p \/ (q = p /\ r < s))
<1> DEFINE d == p - q
<1>0. Second \in Nat /\ Second > 0 /\ d \in Int /\ p = q + d
    BY BoundAssumption
<1>1. Second * p = Second * q + Second * d
    BY <1>0
<1>2. /\ d >= 1 => Second * d >= Second
      /\ d <= -1 => Second * d <= -Second
      /\ Second * d \in Int
      /\ Second * q \in Int
    BY <1>0
<1> HIDE DEF d
<1>3. CASE d >= 1
    BY <1>0, <1>1, <1>2, <1>3
<1>4. CASE d <= -1
    BY <1>0, <1>1, <1>2, <1>4
<1>5. CASE d = 0
    BY <1>0, <1>1, <1>2, <1>5
<1> QED
    BY <1>0, <1>3, <1>4, <1>5

\* SQLite's order of two formatted timestamps is the order of the instants.
THEOREM TextOrder ==
    \A i, j \in Int :
        TextBefore(Chars(Format(i)), Chars(Format(j))) <=> i < j
<1> SUFFICES ASSUME NEW i \in Int, NEW j \in Int
             PROVE  TextBefore(Chars(Format(i)), Chars(Format(j))) <=> i < j
    OBVIOUS
<1> DEFINE q == i \div Second
           r == i % Second
           p == j \div Second
           s == j % Second
<1>1. /\ q \in Int /\ r \in 0 .. Second - 1 /\ i = Second * q + r
      /\ p \in Int /\ s \in 0 .. Second - 1 /\ j = Second * p + s
    BY Division
<1>2. Chars(Format(i)) = <<q, Dot, r, Zed>> /\ Chars(Format(j)) = <<p, Dot, s, Zed>>
    BY DEF Chars, Format
<1>3. i < j <=> (q < p \/ (q = p /\ r < s))
    BY <1>1, Pairs
<1> HIDE DEF q, r, p, s
<1>4. TextBefore(<<q, Dot, r, Zed>>, <<p, Dot, s, Zed>>) <=> (q < p \/ (q = p /\ r < s))
    BY <1>1, BoundAssumption DEF TextBefore, Dot, Zed
<1> QED
    BY <1>2, <1>3, <1>4
----------------------------------------------------------------------------
(* The normal form                                                         *)

LEMMA NullIsNoText == Null \notin Text
BY InkAssumption DEF Text

LEMMA PlainText ==
    ASSUME NEW i \in Ink
    PROVE  Plain(i) \in Text /\ Plain(i).ink = i /\ Plain(i) # Null
<1>1. Plain(i) \in Text /\ Plain(i).ink = i
    BY DEF Plain, Text
<1> QED
    BY <1>1, NullIsNoText

\* A text that fits still fits when it is stripped, and is not stripped twice.
LEMMA StrippedNormal ==
    ASSUME NEW v \in Text \cup {Null}, NEW n \in Nat, NEW required \in BOOLEAN,
           Fits(v, n, required)
    PROVE  /\ Stripped(v) \in Text
           /\ Fits(Stripped(v), n, required)
           /\ Stripped(Stripped(v)) = Stripped(v)
<1>1. CASE v = Null
    BY <1>1, InkAssumption, PlainText, NullIsNoText DEF Stripped, Fits
<1>2. CASE v # Null
  <2>1. v.ink \in Ink /\ Stripped(v) = Plain(v.ink)
    BY <1>2 DEF Stripped, Text
  <2> QED
    BY <1>2, <2>1, PlainText DEF Stripped, Fits
<1> QED
    BY <1>1, <1>2

\* A UUID has one canonical text, whatever notation it came in.
LEMMA UuidNormal ==
    ASSUME NEW v, IsUuid(v)
    PROVE  /\ Uuid(v) \in Text
           /\ IsUuid(Uuid(v))
           /\ UuidOf[Uuid(v).ink.says] = UuidOf[v.ink.says]
           /\ Uuid(Uuid(v)) = Uuid(v)
           /\ Uuid(v).ink # Blank
<1> DEFINE u == UuidOf[v.ink.says]
<1>1. u \in Uuids
    BY UuidAssumption DEF IsUuid
<1>2. /\ Canonical[u] \in Ink
      /\ Canonical[u].says \in DOMAIN UuidOf
      /\ UuidOf[Canonical[u].says] = u
      /\ Canonical[u].size <= 64 /\ ~Canonical[u].nul /\ Canonical[u] # Blank
    BY <1>1, UuidAssumption
<1>3. Uuid(v) = Plain(Canonical[u])
    BY DEF Uuid
<1> HIDE DEF u
<1>4. Uuid(v) \in Text /\ Uuid(v).ink = Canonical[u] /\ Uuid(v) # Null
    BY <1>2, <1>3, PlainText
<1>5. IsUuid(Uuid(v))
    BY <1>2, <1>4 DEF IsUuid, Fits
<1>6. Uuid(Uuid(v)) = Plain(Canonical[UuidOf[Uuid(v).ink.says]])
    BY DEF Uuid
<1> QED
    BY <1>2, <1>3, <1>4, <1>5, <1>6 DEF u

LEMMA ReplyNormal ==
    ASSUME NEW v \in Text \cup {Null}, IsReply(v)
    PROVE  /\ Reply(v) \in Text
           /\ IsReply(Reply(v))
           /\ Reply(Reply(v)) = Reply(v)
<1>1. Fits(v, 64, FALSE)
    BY DEF IsReply
<1>2. CASE Stripped(v).ink = Blank
  <2>1. Reply(v) = Plain(Blank) /\ Blank \in Ink
    BY <1>2, InkAssumption DEF Reply
  <2>2. Reply(v) \in Text /\ Reply(v).ink = Blank /\ Reply(v) # Null
    BY <2>1, PlainText
  <2>3. Stripped(Reply(v)).ink = Blank
    BY <2>1, <2>2, PlainText DEF Stripped
  <2>4. Fits(Reply(v), 64, FALSE)
    BY <2>2, InkAssumption DEF Fits
  <2> QED
    BY <2>1, <2>2, <2>3, <2>4 DEF IsReply, Reply
<1>3. CASE Stripped(v).ink # Blank
  <2>1. IsUuid(v) /\ Reply(v) = Uuid(v)
    BY <1>3 DEF IsReply, Reply
  <2>2. Fits(Uuid(v), 64, FALSE)
    BY <2>1, UuidNormal DEF IsUuid, Fits
  <2>3. Stripped(Uuid(v)).ink # Blank
    BY <2>1, UuidNormal, NullIsNoText, PlainText DEF Stripped, Text
  <2> QED
    BY <2>1, <2>2, <2>3, UuidNormal DEF IsReply, Reply
<1> QED
    BY <1>2, <1>3

LEMMA PriorityNormal ==
    ASSUME NEW v \in Text \cup {Null}, IsPriority(v)
    PROVE  /\ Priority(v) \in Text
           /\ IsPriority(Priority(v))
           /\ Priority(Priority(v)) = Priority(v)
<1> DEFINE i == Lower[v.ink]
<1>1. i \in Levels /\ i \in Ink
    BY DEF IsPriority, Levels
<1>2. Lower[i] = i /\ i.size <= 16 /\ ~i.nul /\ i # Blank
    BY <1>1, PriorityAssumption
<1>3. Priority(v) = Plain(i)
    BY DEF Priority
<1> HIDE DEF i
<1>4. Priority(v) \in Text /\ Priority(v).ink = i /\ Priority(v) # Null
    BY <1>1, <1>3, PlainText
<1> QED
    BY <1>1, <1>2, <1>3, <1>4 DEF IsPriority, Priority, Fits

\* What validation lets through is brought to a form that validation lets
\* through, of the same id, and that it does not change any more.
LEMMA NormalIsNormal ==
    ASSUME NEW m, IsMessage(m)
    PROVE  /\ Normal(m) \in Spelling
           /\ IsMessage(Normal(m))
           /\ Normal(Normal(m)) = Normal(m)
           /\ Key(Normal(m)) = Key(m)
<1> DEFINE i == Instant(m.sent)
           j == Instant(m.expires)
           n == Normal(m)
<1>1. /\ m.body \in Text \cup {Null} /\ m.reply \in Text \cup {Null}
      /\ m.priority \in Text \cup {Null}
      /\ IsUuid(m.id) /\ Fits(m.body, MaxBody, TRUE) /\ IsReply(m.reply)
      /\ IsPriority(m.priority) /\ MaxBody \in Nat
    BY BoundAssumption DEF IsMessage, IsReply, IsPriority, Fits
<1>2. i \in Int /\ j \in Int
    BY BoundAssumption DEF IsMessage, IsTimestamp, Stamp, Instant
<1>3. j > i /\ j - i <= Lifetime /\ Encoded(n) <= MaxBytes
    BY DEF IsMessage
<1> HIDE DEF i, j
<1>4. /\ n.id = Uuid(m.id) /\ n.body = Stripped(m.body) /\ n.reply = Reply(m.reply)
      /\ n.priority = Priority(m.priority) /\ n.sent = Format(i)
      /\ n.expires = Format(j)
    BY DEF Normal, i, j
<1>5. n \in Spelling
    BY <1>1, <1>2, UuidNormal, StrippedNormal, ReplyNormal, PriorityNormal, FormatReads
    DEF Normal, Spelling, i, j
<1>6. /\ Uuid(n.id) = n.id /\ Stripped(n.body) = n.body /\ Reply(n.reply) = n.reply
      /\ Priority(n.priority) = n.priority
    BY <1>1, <1>4, UuidNormal, StrippedNormal, ReplyNormal, PriorityNormal
<1>7. Instant(n.sent) = i /\ Instant(n.expires) = j
    BY <1>2, <1>4, FormatReads
<1>8. Normal(n) = n
  <2>1. Normal(n) = [id |-> n.id, body |-> n.body, reply |-> n.reply,
                     priority |-> n.priority, sent |-> Format(i), expires |-> Format(j)]
      BY <1>6, <1>7 DEF Normal
  <2>2. n = [id |-> n.id, body |-> n.body, reply |-> n.reply,
             priority |-> n.priority, sent |-> Format(i), expires |-> Format(j)]
      BY <1>4 DEF Normal, i, j
  <2> QED
      BY <2>1, <2>2
<1>9. IsMessage(n)
  <2>1. IsUuid(n.id) /\ IsReply(n.reply) /\ IsPriority(n.priority)
      BY <1>1, <1>4, UuidNormal, ReplyNormal, PriorityNormal
  <2>2. Fits(n.body, MaxBody, TRUE)
      BY <1>1, <1>4, StrippedNormal
  <2>3. IsTimestamp(n.sent) /\ IsTimestamp(n.expires)
      BY <1>2, <1>4, FormatReads
  <2> HIDE DEF n
  <2> QED
      BY <1>3, <1>7, <1>8, <2>1, <2>2, <2>3 DEF IsMessage
<1>10. Key(n) = Key(m)
    BY <1>1, <1>4, UuidNormal DEF Key
<1> QED
    BY <1>5, <1>8, <1>9, <1>10

\* The id of a message is one of the table's.
LEMMA KeyInTable ==
    ASSUME NEW m, IsMessage(m)
    PROVE  Key(m) \in Uuids
BY UuidAssumption DEF IsMessage, IsUuid, Key

----------------------------------------------------------------------------
(* The table                                                               *)

TableOK == messages \in [Uuids -> Spelling \cup {NoRow}]

TableInv == TableOK /\ StoredReads

LEMMA TableInvInductive == Spec => []TableInv
<1>1. Init => TableInv
    BY DEF Init, TableInv, TableOK, StoredReads
<1>2. TableInv /\ [Next]_vars => TableInv'
  <2> SUFFICES ASSUME TableInv, [Next]_vars
               PROVE  TableInv'
      OBVIOUS
  <2>1. CASE AcceptMessage
    <3> DEFINE m == Asked.body
               u == Key(m)
    <3>1. IsMessage(m) /\ messages' = [messages EXCEPT ![u] = Normal(m)]
        BY <2>1 DEF AcceptMessage
    <3> HIDE DEF m
    <3>2. u \in Uuids /\ Normal(m) \in Spelling /\ IsMessage(Normal(m))
          /\ Normal(Normal(m)) = Normal(m) /\ Key(Normal(m)) = u
        BY <3>1, KeyInTable, NormalIsNormal
    <3> HIDE DEF u
    <3>3. TableOK'
        BY <3>1, <3>2 DEF TableInv, TableOK
    <3>4. ASSUME NEW w \in Uuids, messages'[w] # NoRow
          PROVE  /\ IsMessage(messages'[w]) /\ Decode(messages'[w]) = messages'[w]
                 /\ Key(messages'[w]) = w
      <4>1. CASE w = u
          BY <3>1, <3>2, <4>1 DEF TableInv, TableOK, Decode
      <4>2. CASE w # u
          BY <3>1, <3>2, <3>4, <4>2 DEF TableInv, TableOK, StoredReads
      <4> QED
          BY <4>1, <4>2
    <3> QED
        BY <3>3, <3>4 DEF TableInv, StoredReads
  <2>2. CASE UNCHANGED messages
      BY <2>2 DEF TableInv, TableOK, StoredReads
  <2> QED
      BY <2>1, <2>2 DEF Next, vars, Send, Reconnect, Unauthorized, AnswerAtOnce,
         RefuseLength, RefuseMessage, KnownMessage, Garbled
<1> QED
    BY <1>1, <1>2, PTL DEF Spec

\* Every row can be read again, and comes out as the message that was put in.
THEOREM StoredRowsRead == Spec => []StoredReads
BY TableInvInductive, PTL DEF TableInv

\* The columns that SQLite compares as texts hold formatted instants.
THEOREM ColumnsInOrder == Spec => []ColumnsOrdered
<1>1. TableInv => ColumnsOrdered
  <2> SUFFICES ASSUME TableInv, NEW s \in Stamps, NEW t \in Stamps
               PROVE  TextBefore(Chars(s), Chars(t)) <=> Instant(s) < Instant(t)
      BY DEF ColumnsOrdered
  <2>1. ASSUME NEW x \in Stamps
        PROVE  Instant(x) \in Int /\ x = Format(Instant(x))
    <3>1. PICK u \in Uuids : /\ messages[u] # NoRow
                             /\ x \in {messages[u].sent, messages[u].expires}
        BY <2>1 DEF Stamps
    <3>2. /\ IsMessage(messages[u]) /\ Normal(messages[u]) = messages[u]
        BY <3>1 DEF TableInv, StoredReads, Decode
    <3>3. x = Format(Instant(x))
        BY <3>1, <3>2 DEF Normal
    <3>4. x \in Stamp
        BY <3>1, <3>2 DEF IsMessage, IsTimestamp
    <3>5. Instant(x) \in Int
        BY <3>4, BoundAssumption DEF Stamp, Instant
    <3> QED
        BY <3>3, <3>5
  <2>2. Instant(s) \in Int /\ Instant(t) \in Int
        /\ s = Format(Instant(s)) /\ t = Format(Instant(t))
      BY <2>1
  <2> QED
      BY <2>2, TextOrder
<1> QED
    BY <1>1, TableInvInductive, PTL

----------------------------------------------------------------------------
(* The connection                                                          *)

\* The k-th answer was given without reading the body of its request.
Unread(k) ==
    /\ k \in DOMAIN answers
    /\ \/ answers[k].status \in {404, 411, 413}
       \/ asks[answers[k].to].route = "heartbeat"

\* The answer before the k-th was.
AfterUnread(k) ==
    /\ k > 1
    /\ \/ answers[k - 1].status \in {404, 411, 413}
       \/ asks[answers[k - 1].to].route = "heartbeat"

LEMMA GarbledExplanation ==
    /\ GarbledOnlyAfterUnread <=>
          \A k \in DOMAIN answers : answers[k].status = 501 => AfterUnread(k)
    /\ GarbledOnlyAfterUnread' <=>
          \A k \in DOMAIN answers' : answers'[k].status = 501 => AfterUnread(k)'
BY DEF GarbledOnlyAfterUnread, AfterUnread

Waiting == Len(asks) = Len(answers) + 1

\* What is in the stream: a body that was left, and the request that waits.
Shape(left) ==
    /\ left # <<>> => left = <<Part("body", Len(answers))>> /\ Unread(Len(answers))
    /\ stream = left \o IF Waiting THEN Parts(asks[Len(asks)], Len(asks)) ELSE <<>>

OneAtATime ==
    /\ asks \in Seq(Ask)
    /\ answers \in Seq([to: Nat, status: Nat])
    /\ Waiting \/ Len(asks) = Len(answers)
    /\ \A k \in DOMAIN answers : answers[k].to = k
    /\ ~open => Len(asks) = Len(answers)

StreamInv ==
    /\ OneAtATime
    /\ open => Shape(<<>>) \/ Shape(<<Part("body", Len(answers))>>)
    /\ GarbledOnlyAfterUnread

\* A handler works on the last request, and on nothing that was left before it.
LEMMA HeadIsLast ==
    ASSUME StreamInv, AtHead
    PROVE  /\ Waiting /\ First.of = Len(asks) /\ Asked \in Ask
           /\ stream = Parts(Asked, Len(asks))
<1> DEFINE n == Len(asks)
<1>1. open /\ stream # <<>> /\ First.part = "head"
    BY DEF AtHead
<1>2. asks \in Seq(Ask) /\ answers \in Seq([to: Nat, status: Nat])
    BY DEF StreamInv, OneAtATime
<1>3. Parts(asks[n], n) \in {<<Part("head", n)>>, <<Part("head", n), Part("body", n)>>}
    BY DEF Parts
<1>4. ~Shape(<<Part("body", Len(answers))>>)
  <2> SUFFICES ASSUME Shape(<<Part("body", Len(answers))>>) PROVE FALSE
      OBVIOUS
  <2>1. First = Part("body", Len(answers))
      BY <1>3 DEF Shape, First
  <2> QED
      BY <1>1, <2>1 DEF Part
<1>5. Shape(<<>>)
    BY <1>1, <1>4 DEF StreamInv
<1>6. Waiting /\ stream = Parts(asks[n], n)
    BY <1>1, <1>3, <1>5 DEF Shape
<1>7. First = Part("head", n)
    BY <1>3, <1>6 DEF First
<1>8. First.of = n /\ asks[n] \in Ask
    BY <1>2, <1>6, <1>7 DEF Part, Waiting
<1> QED
    BY <1>6, <1>8 DEF Asked

\* An answer is the next one in the list, and the others stay as they are.
LEMMA Answered ==
    ASSUME StreamInv, AtHead, NEW status \in Nat, Respond(status), UNCHANGED asks
    PROVE  /\ OneAtATime'
           /\ Len(answers') = Len(asks) /\ Len(asks) = Len(answers) + 1
           /\ answers'[Len(asks)] = [to |-> Len(asks), status |-> status]
           /\ \A k \in DOMAIN answers : answers'[k] = answers[k]
           /\ DOMAIN answers' = DOMAIN answers \cup {Len(asks)}
           /\ ~Waiting'
<1>1. /\ asks \in Seq(Ask) /\ answers \in Seq([to: Nat, status: Nat])
      /\ \A k \in DOMAIN answers : answers[k].to = k
    BY DEF StreamInv, OneAtATime
<1>2. Waiting /\ First.of = Len(asks)
    BY HeadIsLast
<1>3. answers' = Append(answers, [to |-> Len(asks), status |-> status])
    BY <1>2 DEF Respond
<1>4. Len(asks) = Len(answers) + 1
    BY <1>2 DEF Waiting
<1>5. /\ answers' \in Seq([to: Nat, status: Nat]) /\ Len(answers') = Len(answers) + 1
      /\ answers'[Len(asks)] = [to |-> Len(asks), status |-> status]
      /\ \A k \in DOMAIN answers : answers'[k] = answers[k]
      /\ DOMAIN answers' = DOMAIN answers \cup {Len(asks)}
    BY <1>1, <1>3, <1>4
<1>6. ASSUME NEW k \in DOMAIN answers'
      PROVE  answers'[k].to = k
    <2>1. CASE k \in DOMAIN answers
        <3>1. answers'[k] = answers[k]
            BY <1>5, <2>1
        <3>2. answers[k].to = k
            BY <1>1, <2>1
        <3> QED
            BY <3>1, <3>2
    <2>2. CASE k = Len(asks)
        BY <1>5, <2>2
    <2> QED
        BY <1>5, <2>1, <2>2
<1> QED
    BY <1>1, <1>4, <1>5, <1>6 DEF OneAtATime, Waiting

\* Nothing was mistaken before and the new answer is not 501: still nothing.
LEMMA NoNewGarble ==
    ASSUME StreamInv, AtHead, NEW status \in Nat \ {501}, Respond(status),
           UNCHANGED asks
    PROVE  GarbledOnlyAfterUnread'
<1>0. status \in Nat /\ status # 501
    OBVIOUS
<1>1. /\ \A k \in DOMAIN answers : answers'[k] = answers[k]
      /\ DOMAIN answers' = DOMAIN answers \cup {Len(asks)}
      /\ answers'[Len(asks)] = [to |-> Len(asks), status |-> status]
    BY <1>0, Answered
<1>2. answers \in Seq([to: Nat, status: Nat])
    BY DEF StreamInv, OneAtATime
<1> SUFFICES ASSUME NEW k \in DOMAIN answers', answers'[k].status = 501
             PROVE  AfterUnread(k)'
    BY GarbledExplanation
<1>3. k \in DOMAIN answers /\ answers[k].status = 501
    BY <1>0, <1>1
<1>4. AfterUnread(k)
    BY <1>3, GarbledExplanation DEF StreamInv
<1>5. k > 1 /\ k - 1 \in DOMAIN answers
    BY <1>2, <1>3, <1>4 DEF AfterUnread
<1> QED
    BY <1>1, <1>4, <1>5 DEF AfterUnread

\* What is left after an answer that did not read the body.
LEMMA LeaveKeeps ==
    ASSUME StreamInv, AtHead, NEW status \in Nat \ {501}, Leave(status),
           \/ status = 401
           \/ status \in {404, 411, 413}
           \/ Asked.route \in {"status", "heartbeat"}
    PROVE  StreamInv'
<1> DEFINE n == Len(asks)
<1>1. /\ Respond(status) /\ UNCHANGED asks
      /\ stream' = Tail(stream) /\ open' = ~Shuts(status)
    BY DEF Leave
<1>2. stream = Parts(asks[n], n) /\ Asked = asks[n]
    BY HeadIsLast DEF Asked
<1>3. OneAtATime' /\ GarbledOnlyAfterUnread'
    BY <1>1, Answered, NoNewGarble
<1>4. /\ Len(answers') = n /\ Len(asks') = n /\ n \in Nat
      /\ answers'[n] = [to |-> n, status |-> status] /\ n \in DOMAIN answers'
    BY <1>1, Answered DEF StreamInv, OneAtATime
<1>5. ~Waiting'
    BY <1>4 DEF Waiting
<1>6. CASE status = 401
    BY <1>1, <1>3, <1>6 DEF Shuts, StreamInv
<1>7. CASE Asked.route = "status"
  <2>1. stream' = <<>>
      BY <1>1, <1>2, <1>7 DEF Parts
  <2>2. Shape(<<>>)'
      BY <1>5, <2>1 DEF Shape
  <2> QED
      BY <1>3, <2>2 DEF StreamInv
<1>8. CASE status # 401 /\ Asked.route # "status"
  <2>1. stream' = <<Part("body", n)>>
      BY <1>1, <1>2, <1>8 DEF Parts
  <2>2. asks'[answers'[n].to] = Asked
      BY <1>1, <1>2, <1>4
  <2>3. Unread(Len(answers))'
      BY <1>4, <1>8, <2>2 DEF Unread
  <2>4. Shape(<<Part("body", Len(answers))>>)'
      BY <1>4, <1>5, <2>1, <2>3 DEF Shape
  <2> QED
      BY <1>3, <2>4 DEF StreamInv
<1> QED
    BY <1>6, <1>7, <1>8

\* Nothing is left after one that did.
LEMMA ConsumeKeeps ==
    ASSUME StreamInv, Arrives, NEW status \in Nat \ {501}, Consume(status)
    PROVE  StreamInv'
<1>1. /\ AtHead /\ Asked.route = "send"
      /\ Respond(status) /\ UNCHANGED asks /\ stream' = Tail(Tail(stream))
    BY DEF Arrives, Consume
<1>2. stream = Parts(Asked, Len(asks))
    BY <1>1, HeadIsLast
<1>3. stream' = <<>>
    BY <1>1, <1>2 DEF Parts
<1>4. OneAtATime' /\ GarbledOnlyAfterUnread'
    BY <1>1, Answered, NoNewGarble
<1>5. ~Waiting'
    BY <1>1, Answered
<1> QED
    BY <1>3, <1>4, <1>5 DEF StreamInv, Shape

\* A body before the head is one that the last handler had left.
LEMMA GarbledKeeps ==
    ASSUME StreamInv, Garbled
    PROVE  StreamInv'
<1> DEFINE n == Len(asks)
<1>1. /\ open /\ Len(stream) > 1 /\ First.part = "body"
      /\ answers' = Append(answers, [to |-> stream[2].of, status |-> 501])
      /\ open' = FALSE /\ UNCHANGED asks
    BY DEF Garbled
<1>2. /\ asks \in Seq(Ask) /\ answers \in Seq([to: Nat, status: Nat])
      /\ \A k \in DOMAIN answers : answers[k].to = k
      /\ Waiting \/ Len(asks) = Len(answers)
    BY DEF StreamInv, OneAtATime
<1>3. Parts(asks[n], n) \in {<<Part("head", n)>>, <<Part("head", n), Part("body", n)>>}
    BY DEF Parts
<1>4. Shape(<<Part("body", Len(answers))>>) /\ Waiting /\ stream[2] = Part("head", n)
  <2>1. ~Shape(<<>>)
    <3> SUFFICES ASSUME Shape(<<>>) PROVE FALSE
        OBVIOUS
    <3>1. First = Part("head", n)
        BY <1>1, <1>3 DEF Shape, First
    <3> QED
        BY <1>1, <3>1 DEF Part
  <2>2. Shape(<<Part("body", Len(answers))>>)
      BY <1>1, <2>1 DEF StreamInv
  <2>3. Waiting
      BY <1>1, <2>2 DEF Shape
  <2>4. stream = <<Part("body", Len(answers))>> \o Parts(asks[n], n)
      BY <2>2, <2>3 DEF Shape
  <2>5. stream[2] = Part("head", n)
      BY <1>3, <2>4
  <2> QED
      BY <2>2, <2>3, <2>5
<1>5. Unread(Len(answers)) /\ n = Len(answers) + 1
    BY <1>4 DEF Shape, Waiting
<1>6. answers' = Append(answers, [to |-> n, status |-> 501])
    BY <1>1, <1>4 DEF Part
<1>7. /\ answers' \in Seq([to: Nat, status: Nat]) /\ Len(answers') = n
      /\ answers'[n] = [to |-> n, status |-> 501]
      /\ \A k \in DOMAIN answers : answers'[k] = answers[k]
      /\ DOMAIN answers' = DOMAIN answers \cup {n}
      /\ n \in Nat
    BY <1>2, <1>5, <1>6
<1>8. \A k \in DOMAIN answers' : answers'[k].to = k
    BY <1>2, <1>7
<1>9. OneAtATime'
    BY <1>1, <1>2, <1>7, <1>8 DEF OneAtATime
<1>10. ASSUME NEW k \in DOMAIN answers', answers'[k].status = 501
       PROVE  AfterUnread(k)'
  <2>1. CASE k = n
      BY <1>1, <1>2, <1>5, <1>7, <2>1 DEF Unread, AfterUnread
  <2>2. CASE k # n
    <3>1. k \in DOMAIN answers /\ answers[k].status = 501
        BY <1>7, <1>10, <2>2
    <3>2. AfterUnread(k)
        BY <3>1, GarbledExplanation DEF StreamInv
    <3>3. k > 1 /\ k - 1 \in DOMAIN answers
        BY <1>2, <3>1, <3>2 DEF AfterUnread
    <3> QED
        BY <1>1, <1>7, <3>2, <3>3 DEF AfterUnread
  <2> QED
      BY <2>1, <2>2
<1> QED
    BY <1>1, <1>9, <1>10, GarbledExplanation DEF StreamInv

LEMMA SendKeeps ==
    ASSUME StreamInv, NEW q \in Ask, Send(q)
    PROVE  StreamInv'
<1> DEFINE n == Len(asks)
<1>1. /\ open /\ Len(answers) = n /\ asks' = Append(asks, q)
      /\ stream' = stream \o Parts(q, n + 1)
      /\ UNCHANGED <<open, answers>>
    BY DEF Send
<1>2. /\ asks \in Seq(Ask) /\ answers \in Seq([to: Nat, status: Nat])
      /\ \A k \in DOMAIN answers : answers[k].to = k
    BY DEF StreamInv, OneAtATime
<1>3. /\ asks' \in Seq(Ask) /\ Len(asks') = n + 1 /\ asks'[n + 1] = q
      /\ \A k \in 1 .. n : asks'[k] = asks[k]
      /\ n \in Nat /\ DOMAIN answers = 1 .. n
    BY <1>1, <1>2
<1>4. Waiting' /\ ~Waiting
  <2>1. Waiting' <=> Len(asks') = Len(answers) + 1
      BY <1>1 DEF Waiting
  <2>2. n # n + 1
      BY <1>3
  <2> QED
      BY <1>1, <1>3, <2>1, <2>2 DEF Waiting
<1>5. OneAtATime'
    BY <1>1, <1>2, <1>3, <1>4 DEF OneAtATime
<1>6. \A k \in DOMAIN answers : asks'[answers'[k].to] = asks[answers[k].to]
    BY <1>1, <1>2, <1>3
<1>7. GarbledOnlyAfterUnread'
  <2> SUFFICES ASSUME NEW k \in DOMAIN answers, answers[k].status = 501
               PROVE  AfterUnread(k)'
      BY <1>1, GarbledExplanation
  <2>1. AfterUnread(k)
      BY GarbledExplanation DEF StreamInv
  <2>2. k - 1 \in DOMAIN answers
      BY <1>3, <2>1 DEF AfterUnread
  <2>3. answers' = answers
      BY <1>1
  <2>4. asks'[answers'[k - 1].to] = asks[answers[k - 1].to]
      BY <1>6, <2>2
  <2> QED
      BY <2>1, <2>3, <2>4 DEF AfterUnread
<1>8. ASSUME NEW k, Unread(k)
      PROVE  Unread(k)'
  <2>1. k \in DOMAIN answers /\ answers' = answers
      BY <1>1, <1>8 DEF Unread
  <2>2. asks'[answers'[k].to] = asks[answers[k].to]
      BY <1>6, <2>1
  <2> QED
      BY <1>8, <2>1, <2>2 DEF Unread
<1>9. ASSUME NEW left, Shape(left)
      PROVE  /\ left # <<>> => /\ left = <<Part("body", Len(answers'))>>
                             /\ Unread(Len(answers))'
             /\ stream' = left \o Parts(asks'[Len(asks')], Len(asks'))
  <2>1. left \in {<<>>, <<Part("body", n)>>} /\ stream = left \o <<>>
      BY <1>1, <1>4, <1>9 DEF Shape
  <2>2. stream = left
      BY <2>1
  <2>3. ASSUME left # <<>>
        PROVE  left = <<Part("body", Len(answers'))>> /\ Unread(Len(answers))'
    <3>1. PICK k : k = Len(answers)
        OBVIOUS
    <3>2. left = <<Part("body", k)>> /\ Unread(k) /\ k = Len(answers')
        BY <1>1, <1>9, <2>3, <3>1 DEF Shape
    <3>3. Unread(k)'
        BY <1>8, <3>2
    <3> QED
        BY <3>2, <3>3
  <2>4. stream' = left \o Parts(asks'[Len(asks')], Len(asks'))
      BY <1>1, <1>3, <2>2
  <2> QED
      BY <2>3, <2>4
<1>10. Shape(<<>>) => Shape(<<>>)'
    BY <1>1, <1>4, <1>9 DEF Shape
<1>11. Shape(<<Part("body", Len(answers))>>) => Shape(<<Part("body", Len(answers))>>)'
    BY <1>1, <1>4, <1>9 DEF Shape
<1> QED
    BY <1>1, <1>5, <1>7, <1>10, <1>11 DEF StreamInv

LEMMA StreamInvInductive == Spec => []StreamInv
<1>1. Init => StreamInv
  <2> SUFFICES ASSUME Init PROVE StreamInv
      OBVIOUS
  <2>1. asks = <<>> /\ answers = <<>> /\ stream = <<>> /\ open
      BY DEF Init
  <2>2. OneAtATime /\ ~Waiting
      BY <2>1 DEF OneAtATime, Waiting
  <2>3. Shape(<<>>)
      BY <2>1, <2>2 DEF Shape
  <2>4. GarbledOnlyAfterUnread
      BY <2>1 DEF GarbledOnlyAfterUnread
  <2> QED
      BY <2>2, <2>3, <2>4 DEF StreamInv
<1>2. StreamInv /\ [Next]_vars => StreamInv'
  <2> SUFFICES ASSUME StreamInv, [Next]_vars
               PROVE  StreamInv'
      OBVIOUS
  <2>1. CASE \E q \in Ask : Send(q)
      BY <2>1, SendKeeps
  <2>2. CASE Reconnect
    <3>1. /\ ~open /\ open' /\ stream' = <<>> /\ UNCHANGED <<asks, answers>>
        BY <2>2 DEF Reconnect
    <3>2. OneAtATime' /\ ~Waiting' /\ GarbledOnlyAfterUnread'
        BY <3>1 DEF StreamInv, OneAtATime, Waiting, GarbledOnlyAfterUnread
    <3>3. Shape(<<>>)'
        BY <3>1, <3>2 DEF Shape
    <3> QED
        BY <3>2, <3>3 DEF StreamInv
  <2>3. CASE Unauthorized
      BY <2>3, LeaveKeeps DEF Unauthorized
  <2>4. CASE AnswerAtOnce
      BY <2>4, LeaveKeeps DEF AnswerAtOnce
  <2>5. CASE RefuseLength
      BY <2>5, LeaveKeeps DEF RefuseLength
  <2>6. CASE RefuseMessage
      BY <2>6, ConsumeKeeps DEF RefuseMessage
  <2>7. CASE AcceptMessage
      BY <2>7, ConsumeKeeps DEF AcceptMessage
  <2>8. CASE KnownMessage
    <3>1. PICK status \in {200, 409} : Arrives /\ Consume(status)
        BY <2>8 DEF KnownMessage
    <3> QED
        BY <3>1, ConsumeKeeps
  <2>9. CASE Garbled
      BY <2>9, GarbledKeeps
  <2>10. CASE UNCHANGED vars
      BY <2>10 DEF vars, StreamInv, OneAtATime, Waiting, Shape, Unread,
         GarbledOnlyAfterUnread
  <2> QED
      BY <2>1, <2>2, <2>3, <2>4, <2>5, <2>6, <2>7, <2>8, <2>9, <2>10 DEF Next
<1> QED
    BY <1>1, <1>2, PTL DEF Spec

\* Only a body that was left is taken for a request.
THEOREM GarbledExplained == Spec => []GarbledOnlyAfterUnread
BY StreamInvInductive, PTL DEF StreamInv

----------------------------------------------------------------------------
(* Repetitions                                                             *)

\* Texts that say the same are the same when they are plain.
LEMMA PlainOneToOne ==
    ASSUME NEW i, NEW j
    PROVE  Plain(i) = Plain(j) <=> i = j
<1>1. Plain(i).ink = i /\ Plain(j).ink = j
    BY DEF Plain
<1> QED
    BY <1>1

\* The digest tells messages apart by what they mean, however they are spelled.
LEMMA DigestMeaning ==
    ASSUME NEW m, NEW n, IsMessage(m), IsMessage(n), Key(m) = Key(n)
    PROVE  SameDigest(m, n) <=> SameMeaning(m, n)
<1>1. /\ IsUuid(m.id) /\ Fits(m.body, MaxBody, TRUE) /\ IsReply(m.reply)
      /\ IsPriority(m.priority) /\ m.sent \in Stamp /\ m.expires \in Stamp
      /\ IsUuid(n.id) /\ Fits(n.body, MaxBody, TRUE) /\ IsReply(n.reply)
      /\ IsPriority(n.priority) /\ n.sent \in Stamp /\ n.expires \in Stamp
    BY DEF IsMessage, IsTimestamp
<1>2. /\ Instant(m.sent) \in Int /\ Instant(n.sent) \in Int
      /\ Instant(m.expires) \in Int /\ Instant(n.expires) \in Int
    BY <1>1, BoundAssumption DEF Stamp, Instant
<1>3. Uuid(m.id) = Uuid(n.id)
    BY DEF Key, Uuid
<1>4. Stripped(m.body) = Stripped(n.body) <=> m.body.ink = n.body.ink
    BY <1>1, NullIsNoText, PlainOneToOne DEF Fits, Stripped
<1>5. Priority(m.priority) = Priority(n.priority)
        <=> Lower[m.priority.ink] = Lower[n.priority.ink]
    BY PlainOneToOne DEF Priority
<1>6. /\ Format(Instant(m.sent)) = Format(Instant(n.sent))
            <=> Instant(m.sent) = Instant(n.sent)
      /\ Format(Instant(m.expires)) = Format(Instant(n.expires))
            <=> Instant(m.expires) = Instant(n.expires)
    BY <1>2, FormatReads
<1>7. Reply(m.reply) = Reply(n.reply)
        <=> \/ Stripped(m.reply).ink = Stripped(n.reply).ink
            \/ IsUuid(m.reply) /\ IsUuid(n.reply) /\ Uuid(m.reply) = Uuid(n.reply)
  <2>1. /\ Stripped(m.reply).ink # Blank =>
             IsUuid(m.reply) /\ Reply(m.reply) = Uuid(m.reply) /\ Uuid(m.reply).ink # Blank
        /\ Stripped(n.reply).ink # Blank =>
             IsUuid(n.reply) /\ Reply(n.reply) = Uuid(n.reply) /\ Uuid(n.reply).ink # Blank
      BY <1>1, UuidNormal DEF IsReply, Reply
  <2>2. /\ Stripped(m.reply).ink = Blank => Reply(m.reply) = Plain(Blank)
        /\ Stripped(n.reply).ink = Blank => Reply(n.reply) = Plain(Blank)
        /\ Plain(Blank).ink = Blank
      BY DEF Reply, Plain
  <2>3. /\ IsUuid(m.reply) => Stripped(m.reply).ink = m.reply.ink /\ m.reply.ink # Blank
        /\ IsUuid(n.reply) => Stripped(n.reply).ink = n.reply.ink /\ n.reply.ink # Blank
      BY NullIsNoText DEF IsUuid, Fits, Stripped, Plain
  <2>4. ASSUME IsUuid(m.reply), IsUuid(n.reply), m.reply.ink = n.reply.ink
        PROVE  Uuid(m.reply) = Uuid(n.reply)
      BY <2>4 DEF Uuid
  <2> QED
      BY <2>1, <2>2, <2>3, <2>4
<1>8. SameDigest(m, n) <=>
        /\ Stripped(m.body) = Stripped(n.body)
        /\ Reply(m.reply) = Reply(n.reply)
        /\ Priority(m.priority) = Priority(n.priority)
        /\ Format(Instant(m.sent)) = Format(Instant(n.sent))
        /\ Format(Instant(m.expires)) = Format(Instant(n.expires))
    BY <1>3 DEF SameDigest, Normal
<1>9. SameMeaning(m, n) <=>
        /\ m.body.ink = n.body.ink
        /\ \/ Stripped(m.reply).ink = Stripped(n.reply).ink
           \/ IsUuid(m.reply) /\ IsUuid(n.reply) /\ Uuid(m.reply) = Uuid(n.reply)
        /\ Lower[m.priority.ink] = Lower[n.priority.ink]
        /\ Instant(m.sent) = Instant(n.sent)
        /\ Instant(m.expires) = Instant(n.expires)
    BY DEF SameMeaning, Instant
<1> QED
    BY <1>4, <1>5, <1>6, <1>7, <1>8, <1>9

\* What the table holds is what was answered 201.
AcceptedStored ==
    \A k \in DOMAIN answers :
        answers[k].status = 201 =>
            /\ IsMessage(Said(k))
            /\ messages[Key(Said(k))] = Normal(Said(k))

StoredAccepted ==
    \A u \in Uuids :
        messages[u] # NoRow =>
            \E k \in DOMAIN answers : answers[k].status = 201 /\ Key(Said(k)) = u

RepetitionInv ==
    /\ StreamInv
    /\ TableInv
    /\ AcceptedStored
    /\ StoredAccepted
    /\ RepetitionRecognised

\* The answer k says what it should, given the answers before it.
Truthful(k) ==
    LET prior == {j \in 1 .. k - 1 :
                    answers[j].status = 201 /\ Key(Said(j)) = Key(Said(k))}
    IN  /\ answers[k].status = 201 => prior = {}
        /\ answers[k].status = 409 =>
              prior # {} /\ \A j \in prior : ~SameMeaning(Said(j), Said(k))
        /\ answers[k].status = 200 /\ asks[answers[k].to].route = "send" =>
              prior # {} /\ \A j \in prior : SameMeaning(Said(j), Said(k))

\* The same after a step, of the requests as they are then.
LEMMA TruthfulNext ==
    ASSUME NEW k
    PROVE  LET prior == {j \in 1 .. k - 1 :
                  answers'[j].status = 201 /\ Key(Said(j)') = Key(Said(k)')}
           IN  /\ answers'[k].status = 201 => prior = {}
               /\ answers'[k].status = 409 =>
                     prior # {} /\ \A j \in prior : ~SameMeaning(Said(j)', Said(k)')
               /\ answers'[k].status = 200 =>
                     prior # {} /\ \A j \in prior : SameMeaning(Said(j)', Said(k)')
               => Truthful(k)'
BY DEF Truthful, Key, SameMeaning, IsUuid, Uuid, Stripped, Fits

LEMMA AllTruthful ==
    /\ RepetitionRecognised <=> \A k \in DOMAIN answers : Truthful(k)
    /\ RepetitionRecognised' <=> \A k \in DOMAIN answers' : Truthful(k)'
BY DEF RepetitionRecognised, Truthful

\* Answers that were given, and the requests they belong to, do not change.
LEMMA HistoryKept ==
    ASSUME StreamInv, [Next]_vars
    PROVE  /\ DOMAIN answers \subseteq DOMAIN answers'
           /\ \A k \in DOMAIN answers :
                 /\ answers'[k] = answers[k]
                 /\ asks'[answers[k].to] = asks[answers[k].to]
                 /\ Said(k)' = Said(k)
                 /\ 1 .. k - 1 \subseteq DOMAIN answers
<1>1. /\ asks \in Seq(Ask) /\ answers \in Seq([to: Nat, status: Nat])
      /\ \A k \in DOMAIN answers : answers[k].to = k
      /\ Waiting \/ Len(asks) = Len(answers)
    BY DEF StreamInv, OneAtATime
<1>2. Len(asks) \in Nat /\ Len(answers) \in Nat /\ Len(answers) <= Len(asks)
    BY <1>1 DEF Waiting
<1>3. \A k \in DOMAIN answers :
        answers[k].to \in 1 .. Len(asks) /\ 1 .. k - 1 \subseteq DOMAIN answers
    BY <1>1, <1>2
<1>4. \/ asks' = asks \/ \E q \in Ask : asks' = Append(asks, q)
    BY DEF Next, vars, Send, Reconnect, Unauthorized, AnswerAtOnce, RefuseLength,
       RefuseMessage, AcceptMessage, KnownMessage, Garbled, Leave, Consume
<1>5. \A i \in 1 .. Len(asks) : asks'[i] = asks[i]
    BY <1>1, <1>2, <1>4
<1>6. answers' = answers \/ \E x : answers' = Append(answers, x)
  <2>1. ASSUME NEW status, Respond(status)
        PROVE  \E x : answers' = Append(answers, x)
      BY <2>1 DEF Respond
  <2>2. ASSUME Garbled
        PROVE  \E x : answers' = Append(answers, x)
      BY <2>2 DEF Garbled
  <2>3. \/ UNCHANGED answers \/ Garbled \/ \E status : Respond(status)
      BY DEF Next, vars, Send, Reconnect, Unauthorized, AnswerAtOnce, RefuseLength,
         RefuseMessage, AcceptMessage, KnownMessage, Leave, Consume
  <2> QED
      BY <2>1, <2>2, <2>3
<1>7. /\ DOMAIN answers \subseteq DOMAIN answers'
      /\ \A k \in DOMAIN answers : answers'[k] = answers[k]
  <2>1. ASSUME NEW x, answers' = Append(answers, x)
        PROVE  /\ DOMAIN answers \subseteq DOMAIN answers'
               /\ \A k \in DOMAIN answers : answers'[k] = answers[k]
      BY <1>1, <1>2, <2>1
  <2> QED
      BY <1>6, <2>1
<1>8. \A k \in DOMAIN answers : asks'[answers[k].to] = asks[answers[k].to]
    BY <1>3, <1>5
<1> QED
    BY <1>3, <1>7, <1>8 DEF Said

\* What was true of an answer stays true.
LEMMA TruthKept ==
    ASSUME StreamInv, [Next]_vars, NEW k \in DOMAIN answers, Truthful(k)
    PROVE  Truthful(k)'
<1>1. \A j \in 1 .. k - 1 : answers'[j] = answers[j] /\ Said(j)' = Said(j)
    BY HistoryKept
<1>2. /\ answers'[k] = answers[k] /\ Said(k)' = Said(k)
      /\ asks'[answers[k].to] = asks[answers[k].to]
    BY HistoryKept
<1> QED
    BY <1>1, <1>2 DEF Truthful, Key

\* An answer that neither accepts nor recognises a message.
LEMMA QuietKeeps ==
    ASSUME RepetitionInv, [Next]_vars, UNCHANGED messages,
           \A k \in DOMAIN answers' \ DOMAIN answers :
              /\ answers'[k].status \notin {201, 409}
              /\ answers'[k].status = 200 => asks'[answers'[k].to].route # "send"
    PROVE  AcceptedStored' /\ StoredAccepted' /\ RepetitionRecognised'
<1>0. StreamInv
    BY DEF RepetitionInv
<1>1. /\ DOMAIN answers \subseteq DOMAIN answers'
      /\ \A k \in DOMAIN answers : answers'[k] = answers[k] /\ Said(k)' = Said(k)
    BY <1>0, HistoryKept
<1>2. AcceptedStored'
    BY <1>1 DEF RepetitionInv, AcceptedStored, Key
<1>3. StoredAccepted'
    BY <1>1 DEF RepetitionInv, StoredAccepted, Key
<1>4. ASSUME NEW k \in DOMAIN answers'
      PROVE  Truthful(k)'
  <2>1. CASE k \in DOMAIN answers
      BY <1>0, <2>1, AllTruthful, TruthKept DEF RepetitionInv
  <2>2. CASE k \notin DOMAIN answers
      BY <2>2 DEF Truthful
  <2> QED
      BY <2>1, <2>2
<1> QED
    BY <1>2, <1>3, <1>4, AllTruthful

\* The answer to a message that arrives, and what it is about.
LEMMA MessageAnswered ==
    ASSUME RepetitionInv, Arrives, NEW status \in Nat, Consume(status)
    PROVE  /\ Len(asks) \notin DOMAIN answers
           /\ DOMAIN answers' = DOMAIN answers \cup {Len(asks)}
           /\ answers'[Len(asks)] = [to |-> Len(asks), status |-> status]
           /\ asks' = asks /\ Said(Len(asks))' = Asked.body
           /\ 1 .. Len(asks) - 1 = DOMAIN answers
<1>1. StreamInv /\ AtHead /\ Respond(status) /\ UNCHANGED asks
    BY DEF RepetitionInv, Arrives, Consume
<1>2. /\ Len(asks) = Len(answers) + 1
      /\ answers'[Len(asks)] = [to |-> Len(asks), status |-> status]
      /\ DOMAIN answers' = DOMAIN answers \cup {Len(asks)}
    BY <1>1, Answered
<1>3. answers \in Seq([to: Nat, status: Nat])
    BY <1>1 DEF StreamInv, OneAtATime
<1>4. First.of = Len(asks)
    BY <1>1, HeadIsLast
<1>5. Said(Len(asks))' = asks[Len(asks)].body
  <2>1. PICK n : n = Len(asks)
      OBVIOUS
  <2>2. Said(n)' = asks'[answers'[n].to].body
      BY DEF Said
  <2>3. Len(asks') = n
      BY <1>1, <2>1
  <2> QED
      BY <1>1, <1>2, <2>1, <2>2, <2>3
<1>6. Len(asks) \notin DOMAIN answers /\ 1 .. Len(asks) - 1 = DOMAIN answers
    BY <1>2, <1>3
<1> QED
    BY <1>1, <1>2, <1>4, <1>5, <1>6 DEF Asked

LEMMA AcceptKeeps ==
    ASSUME RepetitionInv, AcceptMessage
    PROVE  AcceptedStored' /\ StoredAccepted' /\ RepetitionRecognised'
<1>1. PICK b, u, n : b = Asked.body /\ u = Key(b) /\ n = Len(asks)
    OBVIOUS
<1>2. /\ IsMessage(b) /\ messages[u] = NoRow
      /\ messages' = [messages EXCEPT ![u] = Normal(b)]
      /\ Arrives /\ Consume(201)
    BY <1>1 DEF AcceptMessage
<1>3. /\ n \notin DOMAIN answers /\ DOMAIN answers' = DOMAIN answers \cup {n}
      /\ answers'[n] = [to |-> n, status |-> 201] /\ 1 .. n - 1 = DOMAIN answers
      /\ Said(n)' = b
  <2>1. n = Len(asks) /\ b = Asked.body
      BY <1>1
  <2>2. Arrives /\ Consume(201) /\ 201 \in Nat
      BY <1>2
  <2>3. /\ asks' = asks /\ Said(Len(asks))' = Asked.body
        /\ n \notin DOMAIN answers /\ DOMAIN answers' = DOMAIN answers \cup {n}
        /\ answers'[n] = [to |-> n, status |-> 201] /\ 1 .. n - 1 = DOMAIN answers
      BY <2>1, <2>2, MessageAnswered
  <2> QED
      BY <2>1, <2>3
<1>4. StreamInv /\ [Next]_vars
    BY DEF RepetitionInv, Next
<1>5. \A k \in DOMAIN answers : answers'[k] = answers[k] /\ Said(k)' = Said(k)
    BY <1>4, HistoryKept
<1>6. u \in Uuids /\ Normal(b) \in Spelling /\ Normal(b) # NoRow
    BY <1>1, <1>2, KeyInTable, NormalIsNormal, AskAssumption
<1>7. /\ messages'[u] = Normal(b)
      /\ \A w \in Uuids \ {u} : messages'[w] = messages[w]
    BY <1>2, <1>6 DEF RepetitionInv, TableInv, TableOK
\* No earlier acceptance has the same id: its row would be there.
<1>8. \A k \in DOMAIN answers : answers[k].status = 201 =>
        /\ IsMessage(Said(k)) /\ Key(Said(k)) \in Uuids \ {u}
        /\ messages[Key(Said(k))] = Normal(Said(k))
  <2> SUFFICES ASSUME NEW k \in DOMAIN answers, answers[k].status = 201
               PROVE  /\ IsMessage(Said(k)) /\ Key(Said(k)) \in Uuids \ {u}
                      /\ messages[Key(Said(k))] = Normal(Said(k))
      OBVIOUS
  <2>1. IsMessage(Said(k)) /\ messages[Key(Said(k))] = Normal(Said(k))
      BY DEF RepetitionInv, AcceptedStored
  <2>2. Normal(Said(k)) # NoRow /\ Key(Said(k)) \in Uuids
      BY <2>1, NormalIsNormal, KeyInTable, AskAssumption
  <2> QED
      BY <1>2, <2>1, <2>2
<1>9. AcceptedStored'
  <2> SUFFICES ASSUME NEW k \in DOMAIN answers', answers'[k].status = 201
               PROVE  IsMessage(Said(k)') /\ messages'[Key(Said(k)')] = Normal(Said(k)')
      BY DEF AcceptedStored, Key, Normal
  <2>1. CASE k = n
      BY <1>1, <1>2, <1>3, <1>7, <2>1
  <2>2. CASE k # n
      BY <1>3, <1>5, <1>7, <1>8, <2>2
  <2> QED
      BY <2>1, <2>2
<1>10. StoredAccepted'
  <2> SUFFICES ASSUME NEW w \in Uuids, messages'[w] # NoRow
               PROVE  \E k \in DOMAIN answers' :
                         answers'[k].status = 201 /\ Key(Said(k)') = w
      BY DEF StoredAccepted, Key
  <2>1. CASE w = u
      BY <1>1, <1>3, <2>1
  <2>2. CASE w # u
    <3>1. PICK k \in DOMAIN answers : answers[k].status = 201 /\ Key(Said(k)) = w
        BY <1>7, <2>2 DEF RepetitionInv, StoredAccepted
    <3> QED
        BY <1>3, <1>5, <3>1
  <2> QED
      BY <2>1, <2>2
<1>11. Truthful(n)'
  <2>1. \A j \in 1 .. n - 1 :
          ~(answers'[j].status = 201 /\ Key(Said(j)') = Key(Said(n)'))
      BY <1>1, <1>3, <1>5, <1>8
  <2>2. answers'[n].status = 201
      BY <1>3
  <2> QED
      BY <2>1, <2>2 DEF Truthful, Key
<1>12. RepetitionRecognised'
  <2> SUFFICES ASSUME NEW k \in DOMAIN answers'
               PROVE  Truthful(k)'
      BY AllTruthful
  <2>1. CASE k \in DOMAIN answers
      BY <1>4, <2>1, AllTruthful, TruthKept DEF RepetitionInv
  <2>2. CASE k = n
      BY <1>11, <2>2
  <2> QED
      BY <1>3, <2>1, <2>2
<1> QED
    BY <1>9, <1>10, <1>12

LEMMA KnownKeeps ==
    ASSUME RepetitionInv, KnownMessage
    PROVE  AcceptedStored' /\ StoredAccepted' /\ RepetitionRecognised'
<1>b. PICK b : b = Asked.body
    OBVIOUS
<1>u. PICK u : u = Key(b)
    OBVIOUS
<1>n. PICK n : n = Len(asks)
    OBVIOUS
<1>s. PICK s : s = IF SameDigest(messages[u], b) THEN 200 ELSE 409
    OBVIOUS
<1>1. /\ b = Asked.body /\ u = Key(b) /\ n = Len(asks)
      /\ s = IF SameDigest(messages[u], b) THEN 200 ELSE 409
    BY <1>b, <1>u, <1>n, <1>s
<1>2. /\ IsMessage(b) /\ messages[u] # NoRow /\ messages' = messages
      /\ Arrives /\ Consume(s)
    BY <1>1 DEF KnownMessage
<1>3. /\ n \notin DOMAIN answers /\ DOMAIN answers' = DOMAIN answers \cup {n}
      /\ answers'[n] = [to |-> n, status |-> s] /\ 1 .. n - 1 = DOMAIN answers
      /\ Said(n)' = b
  <2>1. s \in Nat /\ n = Len(asks) /\ b = Asked.body
      BY <1>1
  <2>2. Arrives /\ Consume(s)
      BY <1>2
  <2>3. /\ asks' = asks /\ Said(Len(asks))' = Asked.body
        /\ n \notin DOMAIN answers /\ DOMAIN answers' = DOMAIN answers \cup {n}
        /\ answers'[n] = [to |-> n, status |-> s] /\ 1 .. n - 1 = DOMAIN answers
      BY <2>1, <2>2, MessageAnswered
  <2> QED
      BY <2>1, <2>3
<1>4. StreamInv /\ [Next]_vars
    BY DEF RepetitionInv, Next
<1>5. \A k \in DOMAIN answers : answers'[k] = answers[k] /\ Said(k)' = Said(k)
    BY <1>4, HistoryKept
<1>6. AcceptedStored'
  <2> SUFFICES ASSUME NEW k \in DOMAIN answers', answers'[k].status = 201
               PROVE  IsMessage(Said(k)') /\ messages'[Key(Said(k)')] = Normal(Said(k)')
      BY DEF AcceptedStored, Key, Normal
  <2>1. k \in DOMAIN answers
      BY <1>1, <1>3
  <2> QED
      BY <1>2, <1>5, <2>1 DEF RepetitionInv, AcceptedStored
<1>7. StoredAccepted'
  <2> SUFFICES ASSUME NEW w \in Uuids, messages'[w] # NoRow
               PROVE  \E k \in DOMAIN answers' :
                         answers'[k].status = 201 /\ Key(Said(k)') = w
      BY DEF StoredAccepted, Key
  <2>1. PICK k \in DOMAIN answers : answers[k].status = 201 /\ Key(Said(k)) = w
      BY <1>2 DEF RepetitionInv, StoredAccepted
  <2> QED
      BY <1>3, <1>5, <2>1
\* The row is the one that an earlier message with this id was brought to.
<1>8. \A j \in DOMAIN answers :
        answers[j].status = 201 /\ Key(Said(j)) = u =>
          (SameDigest(messages[u], b) <=> SameMeaning(Said(j), b))
  <2> SUFFICES ASSUME NEW j \in DOMAIN answers, answers[j].status = 201, Key(Said(j)) = u
               PROVE  SameDigest(messages[u], b) <=> SameMeaning(Said(j), b)
      OBVIOUS
  <2>1. IsMessage(Said(j)) /\ messages[u] = Normal(Said(j))
      BY DEF RepetitionInv, AcceptedStored
  <2>2. Normal(messages[u]) = Normal(Said(j))
      BY <2>1, NormalIsNormal
  <2>3. SameDigest(messages[u], b) <=> SameDigest(Said(j), b)
      BY <2>2 DEF SameDigest
  <2> QED
      BY <1>1, <1>2, <2>1, <2>3, DigestMeaning
<1>9. PICK i \in DOMAIN answers : answers[i].status = 201 /\ Key(Said(i)) = u
    BY <1>1, <1>2, KeyInTable DEF RepetitionInv, StoredAccepted
<1>10. Truthful(n)'
  <2> DEFINE prior == {j \in 1 .. n - 1 :
                         answers'[j].status = 201 /\ Key(Said(j)') = Key(Said(n)')}
  <2>1. i \in prior
      BY <1>1, <1>3, <1>5, <1>9
  <2>2. \A j \in prior : SameDigest(messages[u], b) <=> SameMeaning(Said(j)', Said(n)')
      BY <1>1, <1>3, <1>5, <1>8
  <2>3. answers'[n].status = s
      BY <1>3
  <2>4. /\ answers'[n].status # 201
        /\ answers'[n].status = 409 => ~SameDigest(messages[u], b)
        /\ answers'[n].status = 200 => SameDigest(messages[u], b)
      BY <1>1, <2>3
  <2>5. /\ answers'[n].status = 201 => prior = {}
        /\ answers'[n].status = 409 =>
              prior # {} /\ \A j \in prior : ~SameMeaning(Said(j)', Said(n)')
        /\ answers'[n].status = 200 =>
              prior # {} /\ \A j \in prior : SameMeaning(Said(j)', Said(n)')
    <3> HIDE DEF prior
    <3> QED
        BY <2>1, <2>2, <2>4
  <2> QED
      BY <2>5, TruthfulNext
<1>11. RepetitionRecognised'
  <2> SUFFICES ASSUME NEW k \in DOMAIN answers'
               PROVE  Truthful(k)'
      BY AllTruthful
  <2>1. CASE k \in DOMAIN answers
      BY <1>4, <2>1, AllTruthful, TruthKept DEF RepetitionInv
  <2>2. CASE k = n
      BY <1>10, <2>2
  <2> QED
      BY <1>3, <2>1, <2>2
<1> QED
    BY <1>6, <1>7, <1>11

LEMMA RepetitionInvInductive == Spec => []RepetitionInv
<1>1. Init => AcceptedStored /\ StoredAccepted /\ RepetitionRecognised
    BY DEF Init, AcceptedStored, StoredAccepted, RepetitionRecognised
<1>2. ASSUME RepetitionInv, [Next]_vars
      PROVE  AcceptedStored' /\ StoredAccepted' /\ RepetitionRecognised'
  <2>0. StreamInv
      BY <1>2 DEF RepetitionInv
  <2>1. CASE AcceptMessage
      BY <1>2, <2>1, AcceptKeeps
  <2>2. CASE KnownMessage
      BY <1>2, <2>2, KnownKeeps
  <2>3. CASE Garbled
    <3>1. answers \in Seq([to: Nat, status: Nat]) /\ UNCHANGED messages
          /\ answers' = Append(answers, [to |-> stream[2].of, status |-> 501])
        BY <2>0, <2>3 DEF Garbled, StreamInv, OneAtATime
    <3>2. \A k \in DOMAIN answers' \ DOMAIN answers : answers'[k].status = 501
        BY <3>1
    <3> QED
        BY <1>2, <3>1, <3>2, QuietKeeps
  <2>4. ASSUME NEW status \in Nat \ {201, 409}, AtHead, Leave(status) \/ Consume(status),
               status = 200 => Asked.route # "send", UNCHANGED messages
        PROVE  AcceptedStored' /\ StoredAccepted' /\ RepetitionRecognised'
    <3>1. Respond(status) /\ UNCHANGED asks /\ status \in Nat /\ status \notin {201, 409}
        BY <2>4 DEF Leave, Consume
    <3>2. /\ DOMAIN answers' = DOMAIN answers \cup {Len(asks)}
          /\ answers'[Len(asks)] = [to |-> Len(asks), status |-> status]
        BY <2>0, <2>4, <3>1, Answered
    <3>3. Asked = asks[Len(asks)]
        BY <2>0, <2>4, HeadIsLast DEF Asked
    <3>4. \A k \in DOMAIN answers' \ DOMAIN answers :
            /\ answers'[k].status = status
            /\ asks'[answers'[k].to] = Asked
        BY <3>1, <3>2, <3>3
    <3> QED
        BY <1>2, <2>4, <3>1, <3>4, QuietKeeps
  <2>5. CASE UNCHANGED <<answers, messages>>
      BY <1>2, <2>5, QuietKeeps
  <2>6. CASE Unauthorized
      BY <2>4, <2>6 DEF Unauthorized
  <2>7. CASE AnswerAtOnce
    <3>1. Asked.route # "send"
        BY <2>7 DEF AnswerAtOnce
    <3> QED
        BY <2>4, <2>7, <3>1 DEF AnswerAtOnce
  <2>8. CASE RefuseLength
      BY <2>4, <2>8 DEF RefuseLength
  <2>9. CASE RefuseMessage
      BY <2>4, <2>9 DEF RefuseMessage, Arrives
  <2> QED
      BY <1>2, <2>1, <2>2, <2>3, <2>5, <2>6, <2>7, <2>8, <2>9
      DEF Next, vars, Send, Reconnect
<1> QED
    BY <1>1, <1>2, StreamInvInductive, TableInvInductive, PTL DEF Spec, RepetitionInv

\* Sending a message again, in whatever words, is recognised, and nothing else is.
THEOREM RepetitionsRecognised == Spec => []RepetitionRecognised
BY RepetitionInvInductive, PTL DEF RepetitionInv
=============================================================================
