--------------------------- MODULE PipelineProofs ---------------------------
(***************************************************************************)
(* Theorems about the queues of module Pipeline, for any number of nodes,  *)
(* any order of the peer tables, any capacities and any node that hangs.   *)
(***************************************************************************)
EXTENDS Pipeline, FiniteSetTheorems, SequenceTheorems, TLAPS

-----------------------------------------------------------------------------
(* What may travel on a link, and the typing invariant *)

\* Only the primary sends a PrePrepare, and only to the primary go Requests.
MessageOn(n, m) ==
    {x \in Message : /\ x.type = "PrePrepare" => n = Primary
                     /\ x.type = "Request" => m = Primary}

\* A message and the peers it is for.
Outgoing == [message : Message, to : Seq(Node)]

\* A message in the hands of n, and the peers it goes to, each once.
OutgoingOf(n) ==
    {out \in Outgoing :
        /\ out.to # << >>
        /\ \A i, j \in DOMAIN out.to : out.to[i] = out.to[j] => i = j
        /\ \A i \in DOMAIN out.to : out.to[i] # n
        /\ out.message.type = "PrePrepare" => n = Primary
        /\ out.message.type = "Request" => out.to = <<Primary>>}

\* What is in an inbox, and what the readers of m put into its inbox.
Incoming == [from : Node, message : Message]

IncomingOf(m) ==
    {in \in Incoming :
        in.from # m /\ in.message \in MessageOn(in.from, m)}

PipeTyped ==
    /\ sequence \in Nat
    /\ stable \in [Node -> Nat]
    /\ todo \in [Node -> Seq(Outgoing)]
    /\ outgoing \in [Node -> Seq(Outgoing)]
    /\ carried \in [Node -> Outgoing \cup {None}]
    /\ queue \in [Node -> [Node -> Seq(Message)]]
    /\ socket \in [Node -> [Node -> Seq(Message)]]
    /\ inbox \in [Node -> Seq(Incoming)]
    /\ hung \subseteq Hangable
    /\ submits \in 0 .. MaxSubmits
    /\ sent \in [Node \X Node -> Seq(Message)]
    /\ got \in [Node \X Node -> Seq(Message)]

\* Every message is on a link it belongs to.
Routed ==
    \A n \in Node :
        /\ todo[n] \in Seq(OutgoingOf(n))
        /\ outgoing[n] \in Seq(OutgoingOf(n))
        /\ carried[n] # None => carried[n] \in OutgoingOf(n)
        /\ queue[n][n] = << >> /\ socket[n][n] = << >>
        /\ \A m \in Node : /\ queue[n][m] \in Seq(MessageOn(n, m))
                           /\ socket[n][m] \in Seq(MessageOn(n, m))
        /\ inbox[n] \in Seq(IncomingOf(n))

\* No queue is over its capacity.
Bounded ==
    \A n \in Node :
        /\ Len(outgoing[n]) <= OutCap
        /\ Len(inbox[n]) <= InCap
        /\ \A m \in Node : /\ Len(queue[n][m]) <= PeerCap
                           /\ Len(socket[n][m]) <= SocketCap

PipeInv == PipeTyped /\ Routed /\ Bounded

-----------------------------------------------------------------------------
(* Sequences *)

LEMMA AppendTyped ==
    ASSUME NEW S, NEW s \in Seq(S), NEW e \in S
    PROVE  /\ Append(s, e) \in Seq(S)
           /\ Append(s, e) # << >>
           /\ Len(Append(s, e)) = Len(s) + 1
           /\ \A i \in 1 .. Len(s) : Append(s, e)[i] = s[i]
           /\ Append(s, e)[Len(s) + 1] = e
OBVIOUS

LEMMA HeadTailTyped ==
    ASSUME NEW S, NEW s \in Seq(S), s # << >>
    PROVE  /\ Head(s) \in S
           /\ Head(s) = s[1]
           /\ Tail(s) \in Seq(S)
           /\ Len(s) \in Nat \ {0}
           /\ Len(Tail(s)) = Len(s) - 1
           /\ \A i \in 1 .. Len(Tail(s)) : Tail(s)[i] = s[i + 1]
<1>1. /\ Head(s) \in S
      /\ Tail(s) \in Seq(S)
      /\ Len(Tail(s)) = Len(s) - 1
      /\ \A i \in 1 .. Len(Tail(s)) : Tail(s)[i] = s[i + 1]
  BY HeadTailProperties
<1>2. Len(s) \in Nat \ {0}
  BY EmptySeq
<1>3. Head(s) = s[1]
  OBVIOUS
<1> QED
  BY <1>1, <1>2, <1>3

Queue(x)   == x \in Seq(Message)
Cat(x, y)  == x \o y
Push(x, e) == Append(x, e)

LEMMA CatTyped ==
    ASSUME NEW x, NEW y, Queue(x), Queue(y)
    PROVE  Queue(Cat(x, y))
BY DEF Queue, Cat

\* An element appended to the last of two queues is appended to both together.
LEMMA CatAppend ==
    ASSUME NEW x, NEW y, NEW e \in Message, Queue(x), Queue(y)
    PROVE  Cat(x, Push(y, e)) = Push(Cat(x, y), e)
BY DEF Queue, Cat, Push

\* Taking the head of one queue and appending it to the queue in front of it
\* leaves what the two hold together as it was.
LEMMA ShiftSeq ==
    ASSUME NEW S, NEW x \in Seq(S), NEW y \in Seq(S), NEW z \in Seq(S), y # << >>
    PROVE  Append(x, Head(y)) \o (Tail(y) \o z) = x \o (y \o z)
<1>0. x \in Seq(S) /\ y \in Seq(S) /\ z \in Seq(S)
  OBVIOUS
<1> DEFINE l == Append(x, Head(y)) \o (Tail(y) \o z)
           r == x \o (y \o z)
<1>1. /\ Head(y) \in S /\ Tail(y) \in Seq(S) /\ Head(y) = y[1]
      /\ Len(y) \in Nat \ {0} /\ Len(Tail(y)) = Len(y) - 1
      /\ \A i \in 1 .. Len(y) - 1 : Tail(y)[i] = y[i + 1]
  BY <1>0, HeadTailTyped
<1>2. /\ Append(x, Head(y)) \in Seq(S) /\ Len(Append(x, Head(y))) = Len(x) + 1
      /\ \A i \in 1 .. Len(x) : Append(x, Head(y))[i] = x[i]
      /\ Append(x, Head(y))[Len(x) + 1] = y[1]
  BY <1>0, <1>1, AppendTyped
<1>3. /\ Tail(y) \o z \in Seq(S) /\ Len(Tail(y) \o z) = Len(y) - 1 + Len(z)
      /\ \A i \in 1 .. Len(y) - 1 + Len(z) : (Tail(y) \o z)[i] =
            IF i <= Len(y) - 1 THEN Tail(y)[i] ELSE z[i - (Len(y) - 1)]
  BY <1>0, <1>1, ConcatProperties
<1>4. /\ y \o z \in Seq(S) /\ Len(y \o z) = Len(y) + Len(z)
      /\ \A i \in 1 .. Len(y) + Len(z) : (y \o z)[i] =
            IF i <= Len(y) THEN y[i] ELSE z[i - Len(y)]
  BY <1>0, ConcatProperties
<1>5. Len(x) \in Nat /\ Len(z) \in Nat
  BY <1>0, LenProperties
<1>6. /\ l \in Seq(S) /\ Len(l) = Len(x) + 1 + (Len(y) - 1 + Len(z))
      /\ \A i \in 1 .. Len(l) : l[i] =
            IF i <= Len(x) + 1 THEN Append(x, Head(y))[i]
            ELSE (Tail(y) \o z)[i - (Len(x) + 1)]
  BY <1>2, <1>3, ConcatProperties
<1>7. /\ r \in Seq(S) /\ Len(r) = Len(x) + (Len(y) + Len(z))
      /\ \A i \in 1 .. Len(r) : r[i] =
            IF i <= Len(x) THEN x[i] ELSE (y \o z)[i - Len(x)]
  BY <1>0, <1>4, ConcatProperties
<1>8. ASSUME NEW i \in 1 .. Len(l) PROVE l[i] = r[i]
  <2>1. i \in Nat /\ i \in 1 .. Len(r)
    BY <1>1, <1>5, <1>6, <1>7
  <2>2. CASE i <= Len(x)
    BY <1>2, <1>5, <1>6, <1>7, <2>1, <2>2
  <2>3. CASE i = Len(x) + 1
    BY <1>1, <1>2, <1>4, <1>5, <1>6, <1>7, <2>1, <2>3
  <2>4. CASE i > Len(x) + 1
    <3> DEFINE j == i - Len(x)
    <3>1. j \in 2 .. Len(y) + Len(z) /\ j - 1 \in 1 .. Len(y) - 1 + Len(z)
      BY <1>1, <1>5, <1>7, <2>1, <2>4
    <3>2. l[i] = (Tail(y) \o z)[j - 1]
      BY <1>5, <1>6, <2>1, <2>4
    <3>3. r[i] = (y \o z)[j]
      BY <1>5, <1>7, <2>1, <2>4
    <3>4. CASE j <= Len(y)
      BY <1>1, <1>3, <1>4, <1>5, <3>1, <3>2, <3>3, <3>4
    <3>5. CASE j > Len(y)
      BY <1>1, <1>3, <1>4, <1>5, <3>1, <3>2, <3>3, <3>5
    <3> QED
      <4> HIDE DEF l, r, j
      <4>1. Len(y) \in Nat /\ j \in Int
        BY <1>1, <1>5, <3>1
      <4> QED
        BY <3>4, <3>5, <4>1
  <2> QED
    BY <1>5, <2>1, <2>2, <2>3, <2>4
<1>9. Len(l) = Len(r)
  BY <1>1, <1>5, <1>6, <1>7
<1>10. l = r
  <2> HIDE DEF l, r
  <2> QED
    BY <1>6, <1>7, <1>8, <1>9, SeqEqual
<1> QED
  BY <1>10, Zenon DEF l, r

LEMMA Shift ==
    ASSUME NEW x, NEW y, NEW z, Queue(x), Queue(y), Queue(z), y # << >>
    PROVE  Cat(Append(x, Head(y)), Cat(Tail(y), z)) = Cat(x, Cat(y, z))
<1>1. x \in Seq(Message) /\ y \in Seq(Message) /\ z \in Seq(Message)
  BY DEF Queue
<1>2. Append(x, Head(y)) \o (Tail(y) \o z) = x \o (y \o z)
  BY <1>1, ShiftSeq
<1> QED
  BY <1>2, Zenon DEF Cat

LEMMA ShiftOne ==
    ASSUME NEW x, NEW z, NEW e \in Message, Queue(x), Queue(z)
    PROVE  Cat(Append(x, e), Cat(<< >>, z)) = Cat(x, Cat(<<e>>, z))
<1> DEFINE y == <<e>>
<1>1. Queue(y) /\ y # << >> /\ Head(y) = e /\ Tail(y) = << >>
  BY DEF Queue
<1> HIDE DEF y
<1>2. Cat(Append(x, Head(y)), Cat(Tail(y), z)) = Cat(x, Cat(y, z))
  BY <1>1, Shift
<1>3. Cat(Append(x, e), Cat(<< >>, z)) = Cat(x, Cat(y, z))
  BY <1>1, <1>2, Zenon
<1> QED
  BY <1>3, Zenon DEF y

LEMMA TakeOne ==
    ASSUME NEW y, Queue(y), y # << >>
    PROVE  Cat(<<Head(y)>>, Tail(y)) = Cat(<< >>, y)
<1> DEFINE x == << >>
           e == Head(y)
<1>1. Queue(x) /\ Append(x, e) = <<e>>
  BY DEF Queue
<1>2. Tail(y) \in Seq(Message)
  BY HeadTailTyped DEF Queue
<1>3. Cat(Tail(y), x) = Tail(y) /\ Cat(y, x) = y
  BY <1>2, ConcatEmptySeq DEF Queue, Cat
<1>4. Cat(Append(x, e), Cat(Tail(y), x)) = Cat(x, Cat(y, x))
  <2> HIDE DEF x
  <2> QED
    BY <1>1, Shift
<1>5. Cat(<<e>>, Tail(y)) = Cat(x, y)
  BY <1>1, <1>3, <1>4, Zenon
<1> QED
  BY <1>5, Zenon

\* The queues of a channel one behind the other: what the receiver has got, its
\* share of the inbox, the socket, the peer's queue, what the outgoing task
\* carries, and the share of outgoing_tx.
Channel(g, a, so, qu, c, b) == Cat(g, Cat(a, Cat(so, Cat(qu, Cat(c, b)))))

\* What a task hands on stays in the channel, at its place.
LEMMA ChannelEmit ==
    ASSUME NEW g, NEW a, NEW so, NEW qu, NEW c, NEW b, NEW e \in Message,
           Queue(g), Queue(a), Queue(so), Queue(qu), Queue(c), Queue(b)
    PROVE  Channel(g, a, so, qu, c, Append(b, e)) = Append(Channel(g, a, so, qu, c, b), e)
<1>1. Channel(g, a, so, qu, c, Push(b, e)) = Push(Channel(g, a, so, qu, c, b), e)
  BY CatAppend, CatTyped DEF Channel
<1> QED
  BY <1>1, Zenon DEF Push

LEMMA ChannelTake ==
    ASSUME NEW g, NEW a, NEW so, NEW qu, NEW b, Queue(b), b # << >>
    PROVE  Channel(g, a, so, qu, <<Head(b)>>, Tail(b)) = Channel(g, a, so, qu, << >>, b)
<1>1. Cat(<<Head(b)>>, Tail(b)) = Cat(<< >>, b)
  BY TakeOne
<1> QED
  BY <1>1, Zenon DEF Channel

LEMMA ChannelServe ==
    ASSUME NEW g, NEW a, NEW so, NEW qu, NEW b, NEW e \in Message, Queue(qu), Queue(b)
    PROVE  Channel(g, a, so, Append(qu, e), << >>, b) = Channel(g, a, so, qu, <<e>>, b)
<1>1. Cat(Append(qu, e), Cat(<< >>, b)) = Cat(qu, Cat(<<e>>, b))
  BY ShiftOne
<1> QED
  BY <1>1, Zenon DEF Channel

LEMMA ChannelWrite ==
    ASSUME NEW g, NEW a, NEW so, NEW qu, NEW c, NEW b,
           Queue(so), Queue(qu), Queue(c), Queue(b), qu # << >>
    PROVE  Channel(g, a, Append(so, Head(qu)), Tail(qu), c, b) = Channel(g, a, so, qu, c, b)
BY Shift, CatTyped DEF Channel

LEMMA ChannelRead ==
    ASSUME NEW g, NEW a, NEW so, NEW qu, NEW c, NEW b,
           Queue(a), Queue(so), Queue(qu), Queue(c), Queue(b), so # << >>
    PROVE  Channel(g, Append(a, Head(so)), Tail(so), qu, c, b) = Channel(g, a, so, qu, c, b)
BY Shift, CatTyped DEF Channel

LEMMA ChannelReceive ==
    ASSUME NEW g, NEW a, NEW so, NEW qu, NEW c, NEW b,
           Queue(g), Queue(a), Queue(so), Queue(qu), Queue(c), Queue(b), a # << >>
    PROVE  Channel(Append(g, Head(a)), Tail(a), so, qu, c, b) = Channel(g, a, so, qu, c, b)
BY Shift, CatTyped DEF Channel

-----------------------------------------------------------------------------
(* Every message is on a link it belongs to *)

\* What the handlers send is well routed.
LEMMA BroadcastRouted ==
    ASSUME NEW n \in Node, NEW m \in Message,
           m.type = "PrePrepare" => n = Primary, m.type # "Request"
    PROVE  /\ Broadcast(n, m) \in OutgoingOf(n)
           /\ Broadcast(n, m) \in Outgoing
           /\ Broadcast(n, m).message = m
<1>1. /\ Peers[n] \in Seq(Node) /\ Peers[n] # << >>
      /\ \A i, j \in DOMAIN Peers[n] : Peers[n][i] = Peers[n][j] => i = j
      /\ \A i \in DOMAIN Peers[n] : Peers[n][i] # n
  <2>1. Peers[n] \in Seq(Node) /\ Peers[n] # << >>
    BY PipelineAssumption
  <2>2. \A i, j \in DOMAIN Peers[n] : Peers[n][i] = Peers[n][j] => i = j
    BY PipelineAssumption
  <2>3. {Peers[n][i] : i \in DOMAIN Peers[n]} = Node \ {n}
    BY PipelineAssumption
  <2> QED
    BY <2>1, <2>2, <2>3
<1> QED
  BY <1>1 DEF Broadcast, OutgoingOf, Outgoing

LEMMA SendToRouted ==
    ASSUME NEW n \in Node \ {Primary}
    PROVE  /\ SendTo(Primary, [type |-> "Request"]) \in OutgoingOf(n)
           /\ SendTo(Primary, [type |-> "Request"]) \in Outgoing
<1> DEFINE request == [type |-> "Request"]
           out == [message |-> request, to |-> <<Primary>>]
<1>1. request \in Message /\ request.type = "Request"
  BY DEF Message
<1>2. <<Primary>> \in Seq(Node) /\ <<Primary>> # << >> /\ DOMAIN <<Primary>> = {1}
  BY PipelineAssumption
<1> HIDE DEF request
<1>3. out \in Outgoing
  BY <1>1, <1>2 DEF Outgoing
<1>4. out \in OutgoingOf(n)
  BY <1>1, <1>2, <1>3 DEF OutgoingOf, Outgoing
<1> QED
  BY <1>3, <1>4 DEF SendTo, request

LEMMA VotesRouted ==
    ASSUME NEW n \in Node, NEW s \in 1 .. MaxSubmits
    PROVE  Votes(n, s) \in Seq(OutgoingOf(n)) /\ Votes(n, s) \in Seq(Outgoing)
<1> DEFINE pair == << Broadcast(n, Msg("Prepare", s)), Broadcast(n, Msg("Commit", s)) >>
           last == Broadcast(n, Msg("Checkpoint", s))
<1>1. \A t \in {"Prepare", "Commit", "Checkpoint"} :
         /\ Msg(t, s) \in Message
         /\ Msg(t, s).type \notin {"Request", "PrePrepare"}
  BY DEF Msg, Message
<1>2. \A t \in {"Prepare", "Commit", "Checkpoint"} :
         /\ Broadcast(n, Msg(t, s)) \in OutgoingOf(n)
         /\ Broadcast(n, Msg(t, s)) \in Outgoing
  BY <1>1, BroadcastRouted
<1>3. /\ pair \in Seq(OutgoingOf(n)) /\ pair \in Seq(Outgoing)
      /\ last \in OutgoingOf(n) /\ last \in Outgoing
  BY <1>2
<1>4. Votes(n, s) = IF s % Interval = 0 THEN Append(pair, last) ELSE pair
  BY DEF Votes
<1> HIDE DEF pair, last
<1>5. Append(pair, last) \in Seq(OutgoingOf(n)) /\ Append(pair, last) \in Seq(Outgoing)
  BY <1>3, AppendTyped
<1> QED
  BY <1>3, <1>4, <1>5

\* A handler starts when the one before has sent all it had to send, and what
\* it will send itself is well routed.
Answers(n) ==
    /\ \E answer \in Seq(OutgoingOf(n)) :
          /\ answer \in Seq(Outgoing)
          /\ todo' = [todo EXCEPT ![n] = answer]
    /\ sequence' \in Nat
    /\ stable' \in [Node -> Nat]

\* There are not more numbers than requests, and a request that is received has
\* not got one yet.
Numbered ==
    /\ sequence <= submits
    /\ (inbox[Primary] # << >> /\ Head(inbox[Primary]).message.type = "Request") =>
          sequence < submits

LEMMA OrderingAnswers ==
    ASSUME PipeInv, sequence < MaxSubmits, Ordering(Primary), stable' = stable
    PROVE  Answers(Primary)
<1> DEFINE s == sequence + 1
           first == << Broadcast(Primary, Msg("PrePrepare", s)) >>
           votes == Votes(Primary, s)
<1>1. /\ s \in 1 .. MaxSubmits /\ sequence' = s /\ s \in Nat /\ Primary \in Node
      /\ stable' \in [Node -> Nat]
  BY PipelineAssumption DEF Ordering, PipeInv, PipeTyped
<1>2. CASE Refused(s)
  <2>1. todo' = [todo EXCEPT ![Primary] = << >>]
    BY <1>2 DEF Ordering
  <2>2. << >> \in Seq(OutgoingOf(Primary)) /\ << >> \in Seq(Outgoing)
    OBVIOUS
  <2> QED
    BY <1>1, <2>1, <2>2 DEF Answers
<1>3. CASE ~Refused(s)
  <2>1. todo' = [todo EXCEPT ![Primary] = first \o votes]
    BY <1>3 DEF Ordering
  <2>2. Msg("PrePrepare", s) \in Message /\ Msg("PrePrepare", s).type # "Request"
    BY <1>1 DEF Msg, Message
  <2>3. first \in Seq(OutgoingOf(Primary)) /\ first \in Seq(Outgoing)
    BY <1>1, <2>2, BroadcastRouted
  <2>4. votes \in Seq(OutgoingOf(Primary)) /\ votes \in Seq(Outgoing)
    BY <1>1, VotesRouted
  <2> HIDE DEF first, votes
  <2>5. first \o votes \in Seq(OutgoingOf(Primary)) /\ first \o votes \in Seq(Outgoing)
    BY <2>3, <2>4, ConcatProperties
  <2> QED
    BY <1>1, <2>1, <2>5 DEF Answers
<1> QED
  BY <1>2, <1>3

LEMMA HandleRequestAnswers ==
    ASSUME PipeInv, NEW n \in Node, HandleRequest(n),
           n = Primary => sequence < MaxSubmits
    PROVE  Answers(n)
<1>1. CASE n = Primary
  BY <1>1, OrderingAnswers DEF HandleRequest
<1>2. CASE n # Primary
  <2> DEFINE answer == <<SendTo(Primary, [type |-> "Request"])>>
  <2>1. /\ todo' = [todo EXCEPT ![n] = answer]
        /\ sequence' = sequence /\ stable' = stable
    BY <1>2 DEF HandleRequest
  <2>2. /\ SendTo(Primary, [type |-> "Request"]) \in OutgoingOf(n)
        /\ SendTo(Primary, [type |-> "Request"]) \in Outgoing
    BY <1>2, SendToRouted
  <2>3. answer \in Seq(OutgoingOf(n)) /\ answer \in Seq(Outgoing)
    BY <2>2
  <2>4. sequence' \in Nat /\ stable' \in [Node -> Nat]
    BY <2>1 DEF PipeInv, PipeTyped
  <2> QED
    BY <2>1, <2>3, <2>4 DEF Answers
<1> QED
  BY <1>1, <1>2

\* A handler that sends nothing.
LEMMA SilentAnswers ==
    ASSUME PipeInv, NEW n \in Node, todo[n] = << >>, todo' = todo,
           sequence' = sequence, stable' \in [Node -> Nat]
    PROVE  Answers(n)
<1>1. todo' = [todo EXCEPT ![n] = << >>] /\ sequence' \in Nat
  BY DEF PipeInv, PipeTyped
<1>2. << >> \in Seq(OutgoingOf(n)) /\ << >> \in Seq(Outgoing)
  OBVIOUS
<1> QED
  BY <1>1, <1>2 DEF Answers

LEMMA ProcessMessageAnswers ==
    ASSUME PipeInv, NEW n \in Node, NEW q \in Node, NEW m \in MessageOn(q, n),
           todo[n] = << >>, ProcessMessage(n, m),
           (n = Primary /\ m.type = "Request") => sequence < MaxSubmits
    PROVE  Answers(n)
<1>0. m.type = "Request" \/ m.sequence \in 1 .. MaxSubmits
  BY DEF MessageOn, Message
<1>1. CASE m.type = "Request"
  BY <1>1, HandleRequestAnswers DEF ProcessMessage
<1>2. CASE m.type = "PrePrepare"
  <2> DEFINE s == m.sequence
             answer == IF stable[n] < s /\ s <= stable[n] + Window THEN Votes(n, s)
                       ELSE << >>
  <2>1. todo' = [todo EXCEPT ![n] = answer] /\ sequence' = sequence /\ stable' = stable
    BY <1>2 DEF ProcessMessage, HandlePrePrepare
  <2>2. Votes(n, s) \in Seq(OutgoingOf(n)) /\ Votes(n, s) \in Seq(Outgoing)
    BY <1>0, <1>2, VotesRouted
  <2>3. << >> \in Seq(OutgoingOf(n)) /\ << >> \in Seq(Outgoing)
    OBVIOUS
  <2>4. answer \in Seq(OutgoingOf(n)) /\ answer \in Seq(Outgoing)
    BY <2>2, <2>3
  <2>5. sequence' \in Nat /\ stable' \in [Node -> Nat]
    BY <2>1 DEF PipeInv, PipeTyped
  <2> HIDE DEF answer
  <2> QED
    BY <2>1, <2>4, <2>5 DEF Answers
<1>3. CASE m.type = "Checkpoint"
  <2>1. /\ todo' = todo /\ sequence' = sequence
        /\ stable' = [stable EXCEPT ![n] =
                          IF m.sequence > stable[n] THEN m.sequence ELSE stable[n]]
    BY <1>3 DEF ProcessMessage, HandleCheckpoint
  <2>2. stable' \in [Node -> Nat]
    BY <1>0, <1>3, <2>1 DEF PipeInv, PipeTyped
  <2> QED
    BY <2>1, <2>2, SilentAnswers
<1>4. CASE m.type \in {"Prepare", "Commit"}
  <2>1. todo' = todo /\ sequence' = sequence /\ stable' = stable
    BY <1>4 DEF ProcessMessage
  <2>2. stable' \in [Node -> Nat]
    BY <2>1 DEF PipeInv, PipeTyped
  <2> QED
    BY <2>1, <2>2, SilentAnswers
<1> QED
  BY <1>1, <1>2, <1>3, <1>4 DEF ProcessMessage

LEMMA PipeInit == Init => PipeInv
<1> SUFFICES ASSUME Init PROVE PipeInv
  OBVIOUS
<1> USE DEF Init
<1>1. \A S : << >> \in Seq(S) /\ Len(<< >>) = 0
  BY EmptySeq
<1>2. PipeTyped
  BY <1>1, PipelineAssumption DEF PipeTyped
<1>3. Routed
  BY <1>1 DEF Routed
<1>4. Bounded
  <2>1. OutCap \in Nat /\ PeerCap \in Nat /\ SocketCap \in Nat /\ InCap \in Nat
    BY PipelineAssumption
  <2>2. ASSUME NEW n \in Node
        PROVE  /\ Len(outgoing[n]) = 0 /\ Len(inbox[n]) = 0
               /\ \A m \in Node : Len(queue[n][m]) = 0 /\ Len(socket[n][m]) = 0
    OBVIOUS
  <2>3. \A k \in Nat : 0 <= k
    OBVIOUS
  <2> QED
    BY <2>1, <2>2, <2>3 DEF Bounded
<1> QED
  BY <1>2, <1>3, <1>4 DEF PipeInv

LEMMA HandlerKeeps ==
    ASSUME PipeInv, NEW n \in Node, Answers(n),
           UNCHANGED <<outgoing, carried, queue, socket, hung, sent>>,
           inbox' \in [Node -> Seq(Incoming)],
           \A m \in Node : /\ inbox'[m] \in Seq(IncomingOf(m))
                           /\ Len(inbox'[m]) <= InCap,
           submits' \in 0 .. MaxSubmits,
           got' \in [Node \X Node -> Seq(Message)]
    PROVE  PipeInv'
<1>1. PICK answer \in Seq(OutgoingOf(n)) :
         answer \in Seq(Outgoing) /\ todo' = [todo EXCEPT ![n] = answer]
  BY DEF Answers
<1>2. /\ todo' \in [Node -> Seq(Outgoing)]
      /\ \A m \in Node : todo'[m] \in Seq(OutgoingOf(m))
  <2>1. todo \in [Node -> Seq(Outgoing)] /\ \A m \in Node : todo[m] \in Seq(OutgoingOf(m))
    BY DEF PipeInv, PipeTyped, Routed
  <2> QED
    BY <1>1, <2>1
<1>3. sequence' \in Nat /\ stable' \in [Node -> Nat]
  BY DEF Answers
<1>4. PipeTyped'
  BY <1>2, <1>3 DEF PipeInv, PipeTyped
<1>5. Routed'
  BY <1>2 DEF PipeInv, Routed
<1>6. Bounded'
  BY DEF PipeInv, Bounded
<1> QED
  BY <1>4, <1>5, <1>6 DEF PipeInv

LEMMA SubmitKeeps ==
    ASSUME PipeInv, Numbered, NEW n \in Node, Submit(n)
    PROVE  PipeInv'
<1>1. Answers(n)
  <2>1. submits < MaxSubmits /\ HandleRequest(n)
    BY DEF Submit
  <2>2. sequence < MaxSubmits
    <3>1. sequence \in Nat /\ submits \in Nat /\ MaxSubmits \in Nat
      BY PipelineAssumption DEF PipeInv, PipeTyped
    <3> QED
      BY <2>1, <3>1 DEF Numbered
  <2> QED
    BY <2>1, <2>2, HandleRequestAnswers
<1>2. submits' \in 0 .. MaxSubmits
  <2>1. MaxSubmits \in Nat /\ submits \in 0 .. MaxSubmits
    BY PipelineAssumption DEF PipeInv, PipeTyped
  <2>2. submits < MaxSubmits /\ submits' = submits + 1
    BY DEF Submit
  <2> QED
    BY <2>1, <2>2
<1>3. UNCHANGED <<outgoing, carried, queue, socket, inbox, hung, sent, got>>
  BY DEF Submit
<1>4. /\ inbox' \in [Node -> Seq(Incoming)]
      /\ \A m \in Node : inbox'[m] \in Seq(IncomingOf(m)) /\ Len(inbox'[m]) <= InCap
      /\ got' \in [Node \X Node -> Seq(Message)]
  BY <1>3 DEF PipeInv, PipeTyped, Routed, Bounded
<1> QED
  BY <1>1, <1>2, <1>3, <1>4, HandlerKeeps

\* The message at the head of an inbox.
LEMMA NextReceived ==
    ASSUME PipeInv, NEW n \in Node, inbox[n] # << >>
    PROVE  /\ Head(inbox[n]) \in IncomingOf(n)
           /\ Head(inbox[n]).from \in Node \ {n}
           /\ Head(inbox[n]).message \in MessageOn(Head(inbox[n]).from, n)
           /\ Head(inbox[n]).message \in Message
           /\ Tail(inbox[n]) \in Seq(IncomingOf(n))
           /\ Tail(inbox[n]) \in Seq(Incoming)
           /\ Len(Tail(inbox[n])) = Len(inbox[n]) - 1
           /\ Len(inbox[n]) \in Nat
<1>1. inbox[n] \in Seq(IncomingOf(n)) /\ inbox[n] \in Seq(Incoming)
  BY DEF PipeInv, PipeTyped, Routed
<1>2. /\ Head(inbox[n]) \in IncomingOf(n)
      /\ Tail(inbox[n]) \in Seq(IncomingOf(n))
      /\ Len(Tail(inbox[n])) = Len(inbox[n]) - 1
      /\ Len(inbox[n]) \in Nat
  BY <1>1, HeadTailTyped
<1>3. Tail(inbox[n]) \in Seq(Incoming)
  BY <1>1, HeadTailTyped
<1> QED
  BY <1>2, <1>3 DEF IncomingOf, Incoming, MessageOn

LEMMA ReceiveKeeps ==
    ASSUME PipeInv, Numbered, NEW n \in Node, Receive(n)
    PROVE  PipeInv'
<1> DEFINE next == Head(inbox[n])
<1>1. inbox[n] # << >> /\ todo[n] = << >>
  BY DEF Receive
<1>2. /\ next.from \in Node
      /\ next.message \in MessageOn(next.from, n) /\ next.message \in Message
      /\ Tail(inbox[n]) \in Seq(IncomingOf(n))
      /\ Tail(inbox[n]) \in Seq(Incoming)
      /\ Len(Tail(inbox[n])) = Len(inbox[n]) - 1 /\ Len(inbox[n]) \in Nat
  BY <1>1, NextReceived
<1>3. Answers(n)
  <2>1. (n = Primary /\ next.message.type = "Request") => sequence < MaxSubmits
    <3>1. /\ sequence \in Nat /\ submits \in Nat /\ MaxSubmits \in Nat
          /\ submits <= MaxSubmits
      BY PipelineAssumption DEF PipeInv, PipeTyped
    <3>2. (n = Primary /\ next.message.type = "Request") => sequence < submits
      BY <1>1 DEF Numbered
    <3> QED
      BY <3>1, <3>2
  <2>2. ProcessMessage(n, next.message)
    BY DEF Receive
  <2> QED
    BY <1>1, <1>2, <2>1, <2>2, ProcessMessageAnswers
<1>4. /\ inbox' \in [Node -> Seq(Incoming)]
      /\ \A m \in Node : inbox'[m] \in Seq(IncomingOf(m)) /\ Len(inbox'[m]) <= InCap
  <2>1. inbox' = [inbox EXCEPT ![n] = Tail(inbox[n])]
    BY DEF Receive
  <2>2. /\ inbox \in [Node -> Seq(Incoming)]
        /\ \A m \in Node : inbox[m] \in Seq(IncomingOf(m)) /\ Len(inbox[m]) <= InCap
    BY DEF PipeInv, PipeTyped, Routed, Bounded
  <2>3. InCap \in Nat
    BY PipelineAssumption
  <2>4. ASSUME NEW m \in Node
        PROVE  inbox'[m] \in Seq(IncomingOf(m)) /\ Len(inbox'[m]) <= InCap
    <3>1. CASE m = n
      BY <1>2, <2>1, <2>2, <2>3, <3>1
    <3>2. CASE m # n
      BY <2>1, <2>2, <3>2
    <3> QED
      BY <3>1, <3>2
  <2> QED
    BY <1>2, <2>1, <2>2, <2>4
<1>5. got' \in [Node \X Node -> Seq(Message)]
  <2>1. got' = [got EXCEPT ![<<next.from, n>>] = Append(got[<<next.from, n>>], next.message)]
    BY DEF Receive
  <2>2. got \in [Node \X Node -> Seq(Message)] /\ <<next.from, n>> \in Node \X Node
    BY <1>2 DEF PipeInv, PipeTyped
  <2>3. Append(got[<<next.from, n>>], next.message) \in Seq(Message)
    BY <1>2, <2>2, AppendTyped
  <2> QED
    BY <2>1, <2>2, <2>3
<1>6. UNCHANGED <<outgoing, carried, queue, socket, hung, submits, sent>>
  BY DEF Receive
<1>7. submits' \in 0 .. MaxSubmits
  BY <1>6 DEF PipeInv, PipeTyped
<1> QED
  BY <1>3, <1>4, <1>5, <1>6, <1>7, HandlerKeeps

LEMMA EmitKeeps ==
    ASSUME PipeInv, NEW n \in Node, Emit(n)
    PROVE  PipeInv'
<1> DEFINE next == Head(todo[n])
<1>1. /\ todo[n] \in Seq(OutgoingOf(n)) /\ todo[n] \in Seq(Outgoing) /\ todo[n] # << >>
      /\ outgoing[n] \in Seq(OutgoingOf(n)) /\ outgoing[n] \in Seq(Outgoing)
  BY DEF Emit, PipeInv, PipeTyped, Routed
<1>2. /\ next \in OutgoingOf(n) /\ next \in Outgoing
      /\ Tail(todo[n]) \in Seq(OutgoingOf(n)) /\ Tail(todo[n]) \in Seq(Outgoing)
  BY <1>1, HeadTailTyped
<1>3. next.message \in Message
  BY <1>2 DEF Outgoing
<1>4. /\ Append(outgoing[n], next) \in Seq(OutgoingOf(n))
      /\ Append(outgoing[n], next) \in Seq(Outgoing)
      /\ Len(Append(outgoing[n], next)) = Len(outgoing[n]) + 1
      /\ Len(outgoing[n]) \in Nat
  BY <1>1, <1>2, AppendTyped, LenProperties
<1>5. /\ outgoing' = [outgoing EXCEPT ![n] = Append(outgoing[n], next)]
      /\ todo' = [todo EXCEPT ![n] = Tail(todo[n])]
      /\ Len(outgoing[n]) < OutCap /\ OutCap \in Nat
      /\ UNCHANGED <<sequence, stable, carried, queue, socket, inbox, hung, submits, got>>
  BY PipelineAssumption DEF Emit
<1>6. sent' \in [Node \X Node -> Seq(Message)]
  <2>1. sent' = [l \in Node \X Node |->
           IF l[1] = n /\ IsFor(l[2], next) THEN Append(sent[l], next.message) ELSE sent[l]]
    BY DEF Emit
  <2>2. sent \in [Node \X Node -> Seq(Message)]
    BY DEF PipeInv, PipeTyped
  <2>3. \A l \in Node \X Node : Append(sent[l], next.message) \in Seq(Message)
    BY <1>3, <2>2, AppendTyped
  <2> QED
    BY <2>1, <2>2, <2>3
<1> HIDE DEF next
<1>7. PipeTyped'
  <2>1. todo' \in [Node -> Seq(Outgoing)] /\ outgoing' \in [Node -> Seq(Outgoing)]
    BY <1>2, <1>4, <1>5 DEF PipeInv, PipeTyped
  <2> QED
    BY <1>5, <1>6, <2>1 DEF PipeInv, PipeTyped
<1>8. Routed'
  BY <1>2, <1>4, <1>5 DEF PipeInv, PipeTyped, Routed
<1>9. Bounded'
  <2>1. Len(Append(outgoing[n], next)) <= OutCap
    BY <1>4, <1>5
  <2>2. \A m \in Node : outgoing'[m] =
           IF m = n THEN Append(outgoing[n], next) ELSE outgoing[m]
    BY <1>5 DEF PipeInv, PipeTyped
  <2>3. \A m \in Node : Len(outgoing'[m]) <= OutCap
    BY <2>1, <2>2 DEF PipeInv, Bounded
  <2> QED
    BY <1>5, <2>3 DEF PipeInv, Bounded
<1> QED
  BY <1>7, <1>8, <1>9 DEF PipeInv

\* The outgoing task has a message in its hands or not.
LEMMA NoneIsNoMessage == None \notin Outgoing
BY NoneAssumption DEF Outgoing

LEMMA TakeOutgoingKeeps ==
    ASSUME PipeInv, NEW n \in Node, TakeOutgoing(n)
    PROVE  PipeInv'
<1> DEFINE next == Head(outgoing[n])
<1>1. /\ outgoing[n] \in Seq(OutgoingOf(n)) /\ outgoing[n] \in Seq(Outgoing)
      /\ outgoing[n] # << >>
  BY DEF TakeOutgoing, PipeInv, PipeTyped, Routed
<1>2. /\ next \in OutgoingOf(n) /\ next \in Outgoing
      /\ Tail(outgoing[n]) \in Seq(OutgoingOf(n)) /\ Tail(outgoing[n]) \in Seq(Outgoing)
      /\ Len(Tail(outgoing[n])) = Len(outgoing[n]) - 1 /\ Len(outgoing[n]) \in Nat
  BY <1>1, HeadTailTyped
<1>3. /\ carried' = [carried EXCEPT ![n] = next]
      /\ outgoing' = [outgoing EXCEPT ![n] = Tail(outgoing[n])]
      /\ UNCHANGED <<sequence, stable, todo, queue, socket, inbox, hung, submits, sent, got>>
  BY DEF TakeOutgoing
<1> HIDE DEF next
<1>4. PipeTyped'
  <2>1. carried' \in [Node -> Outgoing \cup {None}] /\ outgoing' \in [Node -> Seq(Outgoing)]
    BY <1>2, <1>3 DEF PipeInv, PipeTyped
  <2> QED
    BY <1>3, <2>1 DEF PipeInv, PipeTyped
<1>5. Routed'
  BY <1>2, <1>3 DEF PipeInv, PipeTyped, Routed
<1>6. Bounded'
  <2>1. Len(Tail(outgoing[n])) <= OutCap
    <3>1. OutCap \in Nat /\ Len(outgoing[n]) <= OutCap
      BY PipelineAssumption DEF PipeInv, Bounded
    <3> QED
      BY <1>2, <3>1
  <2>2. \A m \in Node : outgoing'[m] = IF m = n THEN Tail(outgoing[n]) ELSE outgoing[m]
    BY <1>3 DEF PipeInv, PipeTyped
  <2>3. \A m \in Node : Len(outgoing'[m]) <= OutCap
    BY <2>1, <2>2 DEF PipeInv, Bounded
  <2> QED
    BY <1>3, <2>3 DEF PipeInv, Bounded
<1> QED
  BY <1>4, <1>5, <1>6 DEF PipeInv

\* The peer that is served next, and what remains to be done.
LEMMA NextServed ==
    ASSUME PipeInv, NEW n \in Node, carried[n] # None
    PROVE  /\ carried[n] \in OutgoingOf(n)
           /\ carried[n].message \in Message
           /\ carried[n].to \in Seq(Node)
           /\ carried[n].to # << >>
           /\ Head(carried[n].to) \in Node \ {n}
           /\ carried[n].message \in MessageOn(n, Head(carried[n].to))
           /\ Len(carried[n].to) # 1 =>
                 /\ [message |-> carried[n].message, to |-> Tail(carried[n].to)] \in OutgoingOf(n)
                 /\ [message |-> carried[n].message, to |-> Tail(carried[n].to)] \in Outgoing
<1> DEFINE out == carried[n]
           rest == Tail(out.to)
<1>1. out \in OutgoingOf(n) /\ out \in Outgoing
  BY DEF PipeInv, Routed, OutgoingOf
<1>2. out.message \in Message /\ out.to \in Seq(Node) /\ out.to # << >>
  BY <1>1 DEF OutgoingOf, Outgoing
<1>3. /\ Head(out.to) \in Node /\ Head(out.to) = out.to[1]
      /\ rest \in Seq(Node)
      /\ Len(out.to) \in Nat \ {0}
      /\ Len(rest) = Len(out.to) - 1
      /\ \A i \in 1 .. Len(rest) : rest[i] = out.to[i + 1]
  BY <1>2, HeadTailTyped
<1>4. Head(out.to) # n
  BY <1>1, <1>2, <1>3 DEF OutgoingOf
<1>5. out.message \in MessageOn(n, Head(out.to))
  BY <1>1, <1>2, <1>3 DEF OutgoingOf, MessageOn
<1>6. ASSUME Len(out.to) # 1
      PROVE  /\ [message |-> out.message, to |-> rest] \in OutgoingOf(n)
             /\ [message |-> out.message, to |-> rest] \in Outgoing
  <2> DEFINE new == [message |-> out.message, to |-> rest]
  <2>1. new \in Outgoing /\ new.to = rest /\ new.message = out.message
    BY <1>1, <1>3 DEF Outgoing
  <2>2. rest # << >>
    <3>1. Len(rest) # 0
      BY <1>3, <1>6
    <3>2. Len(<< >>) = 0
      OBVIOUS
    <3> HIDE DEF rest
    <3> QED
      BY <3>1, <3>2
  <2>3. DOMAIN rest = 1 .. Len(out.to) - 1 /\ DOMAIN out.to = 1 .. Len(out.to)
    BY <1>2, <1>3, LenProperties
  <2>4. \A i \in DOMAIN rest : i + 1 \in DOMAIN out.to /\ rest[i] = out.to[i + 1]
    BY <1>3, <2>3
  <2>5. \A i, j \in DOMAIN rest : rest[i] = rest[j] => i = j
    <3> SUFFICES ASSUME NEW i \in DOMAIN rest, NEW j \in DOMAIN rest, rest[i] = rest[j]
                 PROVE  i = j
      OBVIOUS
    <3>1. i + 1 = j + 1
      BY <1>1, <2>4 DEF OutgoingOf
    <3> QED
      BY <1>3, <2>3, <3>1
  <2>6. \A i \in DOMAIN rest : rest[i] # n
    BY <1>1, <2>4 DEF OutgoingOf
  <2>7. out.message.type # "Request"
    <3>1. Len(<<Primary>>) = 1
      OBVIOUS
    <3> QED
      BY <1>1, <1>6, <3>1 DEF OutgoingOf
  <2> HIDE DEF rest
  <2> QED
    BY <1>1, <2>1, <2>2, <2>5, <2>6, <2>7 DEF OutgoingOf
<1> QED
  BY <1>1, <1>2, <1>3, <1>4, <1>5, <1>6

LEMMA SendToPeerKeeps ==
    ASSUME PipeInv, NEW n \in Node, SendToPeer(n)
    PROVE  PipeInv'
<1> DEFINE p == Head(carried[n].to)
           x == carried[n].message
           left == IF Len(carried[n].to) = 1 THEN None
                   ELSE [message |-> carried[n].message, to |-> Tail(carried[n].to)]
<1>1. /\ p \in Node \ {n} /\ x \in MessageOn(n, p) /\ x \in Message
      /\ left # None => left \in OutgoingOf(n)
      /\ left \in Outgoing \cup {None}
  BY NextServed DEF SendToPeer
<1>2. /\ Len(queue[n][p]) < PeerCap
      /\ queue' = [queue EXCEPT ![n][p] = Append(queue[n][p], x)]
      /\ carried' = [carried EXCEPT ![n] = left]
      /\ UNCHANGED <<sequence, stable, todo, outgoing, socket, inbox, hung, submits, sent, got>>
  <2>1. Enqueue(n, p, x)
    BY DEF SendToPeer
  <2>2. carried' = [carried EXCEPT ![n] = left]
    BY DEF SendToPeer
  <2>3. UNCHANGED <<sequence, stable, todo, outgoing, socket, inbox, hung, submits, sent, got>>
    BY DEF SendToPeer
  <2>4. /\ Len(queue[n][p]) < PeerCap
        /\ queue' = [queue EXCEPT ![n][p] = Append(queue[n][p], x)]
    <3> HIDE DEF p, x, left
    <3> QED
      BY <2>1 DEF Enqueue
  <2> HIDE DEF p, x, left
  <2> QED
    BY <2>2, <2>3, <2>4
<1>3. /\ queue \in [Node -> [Node -> Seq(Message)]]
      /\ queue[n][p] \in Seq(MessageOn(n, p)) /\ queue[n][p] \in Seq(Message)
  <2>1. p \in Node
    BY <1>1
  <2> HIDE DEF p, x, left
  <2>2. queue \in [Node -> [Node -> Seq(Message)]]
    BY DEF PipeInv, PipeTyped
  <2>3. queue[n][p] \in Seq(MessageOn(n, p))
    BY <2>1 DEF PipeInv, Routed
  <2> QED
    BY <2>1, <2>2, <2>3
<1>4. /\ Append(queue[n][p], x) \in Seq(MessageOn(n, p))
      /\ Append(queue[n][p], x) \in Seq(Message)
      /\ Len(Append(queue[n][p], x)) = Len(queue[n][p]) + 1
      /\ Len(queue[n][p]) \in Nat
  BY <1>1, <1>3, AppendTyped, LenProperties
<1>5. /\ queue' \in [Node -> [Node -> Seq(Message)]]
      /\ \A a, b \in Node : queue'[a][b] =
            IF a = n /\ b = p THEN Append(queue[n][p], x) ELSE queue[a][b]
  BY <1>1, <1>2, <1>3, <1>4
<1> HIDE DEF p, x, left
<1>6. PipeTyped'
  <2>1. carried' \in [Node -> Outgoing \cup {None}]
    BY <1>1, <1>2 DEF PipeInv, PipeTyped
  <2> QED
    BY <1>2, <1>5, <2>1 DEF PipeInv, PipeTyped
<1>7. Routed'
  <2>1. \A m \in Node : carried'[m] # None => carried'[m] \in OutgoingOf(m)
    BY <1>1, <1>2 DEF PipeInv, PipeTyped, Routed
  <2>2. \A a \in Node : queue'[a][a] = << >> /\
           \A b \in Node : queue'[a][b] \in Seq(MessageOn(a, b))
    BY <1>1, <1>4, <1>5 DEF PipeInv, Routed
  <2> QED
    BY <1>2, <2>1, <2>2 DEF PipeInv, Routed
<1>8. Bounded'
  <2>1. PeerCap \in Nat
    BY PipelineAssumption
  <2> QED
    BY <1>2, <1>4, <1>5, <2>1 DEF PipeInv, Bounded
<1> QED
  BY <1>6, <1>7, <1>8 DEF PipeInv

LEMMA PeerWriterKeeps ==
    ASSUME PipeInv, NEW n \in Node, NEW m \in Node, PeerWriter(n, m)
    PROVE  PipeInv'
<1> DEFINE x == Head(queue[n][m])
<1>1. /\ queue[n][m] \in Seq(MessageOn(n, m)) /\ queue[n][m] \in Seq(Message)
      /\ socket[n][m] \in Seq(MessageOn(n, m)) /\ socket[n][m] \in Seq(Message)
      /\ queue[n][m] # << >> /\ n # m
  BY DEF PeerWriter, PipeInv, PipeTyped, Routed
<1>2. /\ x \in MessageOn(n, m) /\ x \in Message
      /\ Tail(queue[n][m]) \in Seq(MessageOn(n, m)) /\ Tail(queue[n][m]) \in Seq(Message)
      /\ Len(Tail(queue[n][m])) = Len(queue[n][m]) - 1 /\ Len(queue[n][m]) \in Nat
  BY <1>1, HeadTailTyped
<1>3. /\ Append(socket[n][m], x) \in Seq(MessageOn(n, m))
      /\ Append(socket[n][m], x) \in Seq(Message)
      /\ Len(Append(socket[n][m], x)) = Len(socket[n][m]) + 1
      /\ Len(socket[n][m]) \in Nat
  BY <1>1, <1>2, AppendTyped, LenProperties
<1>4. /\ Len(socket[n][m]) < SocketCap
      /\ socket' = [socket EXCEPT ![n][m] = Append(socket[n][m], x)]
      /\ queue' = [queue EXCEPT ![n][m] = Tail(queue[n][m])]
      /\ UNCHANGED <<sequence, stable, todo, outgoing, carried, inbox, hung, submits, sent, got>>
  BY DEF PeerWriter
<1>5. /\ queue' \in [Node -> [Node -> Seq(Message)]]
      /\ \A a, b \in Node : queue'[a][b] =
            IF a = n /\ b = m THEN Tail(queue[n][m]) ELSE queue[a][b]
  <2>1. queue \in [Node -> [Node -> Seq(Message)]]
    BY DEF PipeInv, PipeTyped
  <2>2. Tail(queue[n][m]) \in Seq(Message) /\ queue' = [queue EXCEPT ![n][m] = Tail(queue[n][m])]
    BY <1>2, <1>4
  <2> QED
    BY <2>1, <2>2
<1> DEFINE more == Append(socket[n][m], x)
<1>6. /\ socket' \in [Node -> [Node -> Seq(Message)]]
      /\ \A a, b \in Node : socket'[a][b] =
            IF a = n /\ b = m THEN Append(socket[n][m], x) ELSE socket[a][b]
  <2>1. socket \in [Node -> [Node -> Seq(Message)]]
    BY DEF PipeInv, PipeTyped
  <2>2. more \in Seq(Message) /\ socket' = [socket EXCEPT ![n][m] = more]
    BY <1>3, <1>4
  <2> HIDE DEF more
  <2>3. /\ socket' \in [Node -> [Node -> Seq(Message)]]
        /\ \A a, b \in Node : socket'[a][b] =
              IF a = n /\ b = m THEN more ELSE socket[a][b]
    BY <2>1, <2>2
  <2> QED
    BY <2>3, Zenon DEF more
<1> HIDE DEF x, more
<1>7. PipeTyped'
  BY <1>4, <1>5, <1>6 DEF PipeInv, PipeTyped
<1>8. Routed'
  <2>1. \A a, b \in Node : queue'[a][b] \in Seq(MessageOn(a, b))
    BY <1>2, <1>5 DEF PipeInv, Routed
  <2>2. \A a, b \in Node : socket'[a][b] \in Seq(MessageOn(a, b))
    BY <1>3, <1>6 DEF PipeInv, Routed
  <2>3. \A a \in Node : queue'[a][a] = << >> /\ socket'[a][a] = << >>
    <3>1. \A a \in Node : queue[a][a] = << >> /\ socket[a][a] = << >>
      BY DEF PipeInv, Routed
    <3> QED
      BY <1>1, <1>5, <1>6, <3>1
  <2> QED
    BY <1>4, <2>1, <2>2, <2>3 DEF PipeInv, Routed
<1>9. Bounded'
  <2>1. PeerCap \in Nat /\ SocketCap \in Nat
    BY PipelineAssumption
  <2>2. \A a, b \in Node : Len(queue'[a][b]) <= PeerCap
    <3>1. Len(Tail(queue[n][m])) <= PeerCap
      BY <1>2, <2>1 DEF PipeInv, Bounded
    <3> QED
      BY <1>5, <3>1 DEF PipeInv, Bounded
  <2>3. \A a, b \in Node : Len(socket'[a][b]) <= SocketCap
    BY <1>3, <1>4, <1>6, <2>1 DEF PipeInv, Bounded
  <2> QED
    BY <1>4, <2>2, <2>3 DEF PipeInv, Bounded
<1> QED
  BY <1>7, <1>8, <1>9 DEF PipeInv

LEMMA PeerReaderKeeps ==
    ASSUME PipeInv, NEW n \in Node, NEW m \in Node, PeerReader(n, m)
    PROVE  PipeInv'
<1> DEFINE x == Head(socket[n][m])
           in == [from |-> n, message |-> x]
<1>1. /\ socket[n][m] \in Seq(MessageOn(n, m)) /\ socket[n][m] \in Seq(Message)
      /\ inbox[m] \in Seq(IncomingOf(m))
      /\ inbox[m] \in Seq(Incoming)
      /\ socket[n][m] # << >> /\ n # m
  BY DEF PeerReader, PipeInv, PipeTyped, Routed
<1>2. /\ x \in MessageOn(n, m) /\ x \in Message
      /\ Tail(socket[n][m]) \in Seq(MessageOn(n, m)) /\ Tail(socket[n][m]) \in Seq(Message)
      /\ Len(Tail(socket[n][m])) = Len(socket[n][m]) - 1 /\ Len(socket[n][m]) \in Nat
  BY <1>1, HeadTailTyped
<1>3. in \in IncomingOf(m) /\ in \in Incoming
  BY <1>1, <1>2 DEF IncomingOf, Incoming
<1>4. /\ Len(inbox[m]) < InCap
      /\ inbox' = [inbox EXCEPT ![m] = Append(inbox[m], in)]
      /\ socket' = [socket EXCEPT ![n][m] = Tail(socket[n][m])]
      /\ UNCHANGED <<sequence, stable, todo, outgoing, carried, queue, hung, submits, sent, got>>
  BY DEF PeerReader
<1> HIDE DEF in, x
<1>5. /\ Append(inbox[m], in) \in Seq(IncomingOf(m))
      /\ Append(inbox[m], in) \in Seq(Incoming)
      /\ Len(Append(inbox[m], in)) = Len(inbox[m]) + 1
      /\ Len(inbox[m]) \in Nat
  BY <1>1, <1>3, AppendTyped, LenProperties
<1>6. /\ socket' \in [Node -> [Node -> Seq(Message)]]
      /\ \A a, b \in Node : socket'[a][b] =
            IF a = n /\ b = m THEN Tail(socket[n][m]) ELSE socket[a][b]
  <2>1. socket \in [Node -> [Node -> Seq(Message)]]
    BY DEF PipeInv, PipeTyped
  <2>2. Tail(socket[n][m]) \in Seq(Message) /\ socket' = [socket EXCEPT ![n][m] = Tail(socket[n][m])]
    BY <1>2, <1>4
  <2> QED
    BY <2>1, <2>2
<1>7. /\ inbox' \in [Node -> Seq(Incoming)]
      /\ \A a \in Node : inbox'[a] =
            IF a = m THEN Append(inbox[m], in) ELSE inbox[a]
  <2>1. inbox \in [Node -> Seq(Incoming)]
    BY DEF PipeInv, PipeTyped
  <2> QED
    BY <1>4, <1>5, <2>1
<1>8. PipeTyped'
  BY <1>4, <1>6, <1>7 DEF PipeInv, PipeTyped
<1>9. Routed'
  <2>1. \A a, b \in Node : socket'[a][b] \in Seq(MessageOn(a, b))
    BY <1>2, <1>6 DEF PipeInv, Routed
  <2>2. \A a \in Node : socket'[a][a] = << >>
    <3>1. \A a \in Node : socket[a][a] = << >>
      BY DEF PipeInv, Routed
    <3> QED
      BY <1>1, <1>6, <3>1
  <2>3. \A a \in Node : inbox'[a] \in Seq(IncomingOf(a))
    BY <1>5, <1>7 DEF PipeInv, Routed
  <2> QED
    BY <1>4, <2>1, <2>2, <2>3 DEF PipeInv, Routed
<1>10. Bounded'
  <2>1. InCap \in Nat /\ SocketCap \in Nat
    BY PipelineAssumption
  <2>2. \A a \in Node : Len(inbox'[a]) <= InCap
    BY <1>4, <1>5, <1>7, <2>1 DEF PipeInv, Bounded
  <2>3. \A a, b \in Node : Len(socket'[a][b]) <= SocketCap
    <3>1. Len(Tail(socket[n][m])) <= SocketCap
      BY <1>2, <2>1 DEF PipeInv, Bounded
    <3> QED
      BY <1>6, <3>1 DEF PipeInv, Bounded
  <2> QED
    BY <1>4, <2>2, <2>3 DEF PipeInv, Bounded
<1> QED
  BY <1>8, <1>9, <1>10 DEF PipeInv

\* Every step is one of a node that has not been stopped, and a node stops.
LEMMA PipeCases ==
    ASSUME [Next]_vars
    PROVE  \/ \E n \in Node : Submit(n)
           \/ \E n \in Node : Receive(n)
           \/ \E n \in Node : Emit(n)
           \/ \E n \in Node : TakeOutgoing(n)
           \/ \E n \in Node : SendToPeer(n)
           \/ \E n, m \in Node : PeerWriter(n, m)
           \/ \E n, m \in Node : PeerReader(n, m)
           \/ \E n \in Node : Hang(n)
           \/ UNCHANGED vars
BY DEF Next, Task

LEMMA PipeStep == PipeInv /\ Numbered /\ [Next]_vars => PipeInv'
<1> SUFFICES ASSUME PipeInv, Numbered, [Next]_vars PROVE PipeInv'
  OBVIOUS
<1>1. ASSUME NEW n \in Node, Hang(n) PROVE PipeInv'
  BY <1>1 DEF Hang, PipeInv, PipeTyped, Routed, Bounded
<1>2. ASSUME UNCHANGED vars PROVE PipeInv'
  BY <1>2 DEF vars, PipeInv, PipeTyped, Routed, Bounded
<1> QED
  BY <1>1, <1>2, PipeCases, SubmitKeeps, ReceiveKeeps, EmitKeeps, TakeOutgoingKeeps,
     SendToPeerKeeps, PeerWriterKeeps, PeerReaderKeeps

-----------------------------------------------------------------------------
(* The messages of a queue that belong to one link *)

\* a holds, in the order of the queue q, the messages of its members in S; f
\* tells where they are.
At(f, q, S, a) ==
    /\ f \in [DOMAIN a -> DOMAIN q]
    /\ \A i, j \in DOMAIN a : i < j => f[i] < f[j]
    /\ \A k \in DOMAIN q : q[k] \in S <=> \E i \in DOMAIN a : f[i] = k
    /\ \A i \in DOMAIN a : a[i] = q[f[i]].message

Part(q, S, a) == \E f : At(f, q, S, a)

LEMMA PartOfEmpty ==
    ASSUME NEW S
    PROVE  Part(<< >>, S, << >>)
<1>1. At(<< >>, << >>, S, << >>)
  BY DEF At
<1> QED
  BY <1>1 DEF Part

LEMMA PartAppendOut ==
    ASSUME NEW E, NEW q \in Seq(E), NEW S, NEW a \in Seq(Message), Part(q, S, a),
           NEW e \in E, e \notin S
    PROVE  Part(Append(q, e), S, a)
<1>1. PICK f : At(f, q, S, a)
  BY DEF Part
<1>2. /\ DOMAIN Append(q, e) = 1 .. Len(q) + 1 /\ DOMAIN q = 1 .. Len(q)
      /\ Len(q) \in Nat
      /\ \A i \in 1 .. Len(q) : Append(q, e)[i] = q[i]
      /\ Append(q, e)[Len(q) + 1] = e
  BY AppendTyped, LenProperties
<1>3. At(f, Append(q, e), S, a)
  <2>1. f \in [DOMAIN a -> DOMAIN Append(q, e)]
    BY <1>1, <1>2 DEF At
  <2>2. \A i \in DOMAIN a : f[i] \in 1 .. Len(q) /\ f[i] # Len(q) + 1
    BY <1>1, <1>2 DEF At
  <2>3. ASSUME NEW k \in DOMAIN Append(q, e)
        PROVE  Append(q, e)[k] \in S <=> \E i \in DOMAIN a : f[i] = k
    <3>1. CASE k = Len(q) + 1
      BY <1>2, <2>2, <3>1
    <3>2. CASE k \in 1 .. Len(q)
      BY <1>1, <1>2, <3>2 DEF At
    <3> QED
      BY <1>2, <3>1, <3>2
  <2>4. \A i \in DOMAIN a : a[i] = Append(q, e)[f[i]].message
    BY <1>1, <1>2, <2>2 DEF At
  <2>5. \A i, j \in DOMAIN a : i < j => f[i] < f[j]
    BY <1>1 DEF At
  <2> QED
    BY <2>1, <2>3, <2>4, <2>5 DEF At
<1> QED
  BY <1>3 DEF Part

LEMMA PartAppendIn ==
    ASSUME NEW E, NEW q \in Seq(E), NEW S, NEW a \in Seq(Message), Part(q, S, a),
           NEW e \in E, e \in S, e.message \in Message
    PROVE  Part(Append(q, e), S, Append(a, e.message))
<1> DEFINE qq == Append(q, e)
           aa == Append(a, e.message)
           L == Len(q)
           K == Len(a)
<1>1. PICK f : At(f, q, S, a)
  BY DEF Part
<1>2. /\ DOMAIN qq = 1 .. L + 1 /\ DOMAIN q = 1 .. L /\ L \in Nat
      /\ \A i \in 1 .. L : qq[i] = q[i]
      /\ qq[L + 1] = e
  BY AppendTyped, LenProperties
<1>3. /\ DOMAIN aa = 1 .. K + 1 /\ DOMAIN a = 1 .. K /\ K \in Nat
      /\ \A i \in 1 .. K : aa[i] = a[i]
      /\ aa[K + 1] = e.message
  BY AppendTyped, LenProperties
<1> DEFINE g == [i \in 1 .. K + 1 |-> IF i = K + 1 THEN L + 1 ELSE f[i]]
<1> HIDE DEF qq, aa, L, K
<1>4. \A i \in 1 .. K : f[i] \in 1 .. L
  BY <1>1, <1>2, <1>3 DEF At
<1>5. g[K + 1] = L + 1 /\ \A i \in 1 .. K : g[i] = f[i]
  BY <1>3
<1>6. g \in [DOMAIN aa -> DOMAIN qq]
  BY <1>2, <1>3, <1>4
<1> HIDE DEF g
<1>7. ASSUME NEW i \in DOMAIN aa, NEW j \in DOMAIN aa, i < j PROVE g[i] < g[j]
  <2>1. i \in 1 .. K
    BY <1>3, <1>7
  <2>2. CASE j = K + 1
    BY <1>2, <1>4, <1>5, <2>1, <2>2
  <2>3. CASE j \in 1 .. K
    BY <1>1, <1>3, <1>5, <1>7, <2>1, <2>3 DEF At
  <2> QED
    BY <1>3, <2>2, <2>3
<1>8. ASSUME NEW k \in DOMAIN qq
      PROVE  qq[k] \in S <=> \E i \in DOMAIN aa : g[i] = k
  <2>1. CASE k = L + 1
    <3>1. K + 1 \in DOMAIN aa
      BY <1>3
    <3> QED
      BY <1>2, <1>5, <2>1, <3>1
  <2>2. CASE k \in 1 .. L
    <3>1. qq[k] \in S <=> \E i \in 1 .. K : f[i] = k
      BY <1>1, <1>2, <1>3, <2>2 DEF At
    <3>2. ASSUME NEW i \in 1 .. K, f[i] = k PROVE \E j \in DOMAIN aa : g[j] = k
      <4>1. i \in DOMAIN aa /\ g[i] = k
        BY <1>3, <1>5, <3>2
      <4> QED
        BY <4>1
    <3>3. ASSUME NEW j \in DOMAIN aa, g[j] = k PROVE \E i \in 1 .. K : f[i] = k
      <4>1. j # K + 1
        BY <1>2, <1>5, <2>2, <3>3
      <4>2. j \in 1 .. K
        BY <1>3, <4>1
      <4> QED
        BY <1>5, <3>3, <4>2
    <3> QED
      BY <3>1, <3>2, <3>3
  <2> QED
    BY <1>2, <2>1, <2>2
<1>9. ASSUME NEW i \in DOMAIN aa PROVE aa[i] = qq[g[i]].message
  <2>1. CASE i = K + 1
    BY <1>2, <1>3, <1>5, <2>1
  <2>2. CASE i \in 1 .. K
    BY <1>1, <1>2, <1>3, <1>4, <1>5, <2>2 DEF At
  <2> QED
    BY <1>3, <2>1, <2>2
<1>10. At(g, qq, S, aa)
  BY <1>6, <1>7, <1>8, <1>9 DEF At
<1> QED
  BY <1>10 DEF Part, qq, aa

LEMMA PartTailOut ==
    ASSUME NEW E, NEW q \in Seq(E), q # << >>, NEW S, NEW a \in Seq(Message),
           Part(q, S, a), Head(q) \notin S
    PROVE  Part(Tail(q), S, a)
<1> DEFINE qq == Tail(q)
           L == Len(q)
           K == Len(a)
<1>1. PICK f : At(f, q, S, a)
  BY DEF Part
<1>2. /\ DOMAIN qq = 1 .. L - 1 /\ DOMAIN q = 1 .. L /\ L \in Nat \ {0}
      /\ \A i \in 1 .. L - 1 : qq[i] = q[i + 1]
      /\ Head(q) = q[1]
  BY HeadTailTyped, LenProperties
<1>3. DOMAIN a = 1 .. K /\ K \in Nat
  BY LenProperties
<1> DEFINE g == [i \in 1 .. K |-> f[i] - 1]
<1> HIDE DEF qq, L, K
<1>4. \A i \in 1 .. K : f[i] \in 2 .. L
  <2>1. \A i \in 1 .. K : f[i] \in 1 .. L /\ f[i] # 1
    BY <1>1, <1>2, <1>3 DEF At
  <2> QED
    BY <1>2, <2>1
<1>5. \A i \in 1 .. K : g[i] = f[i] - 1 /\ g[i] \in 1 .. L - 1
  BY <1>2, <1>4
<1>6. g \in [DOMAIN a -> DOMAIN qq]
  BY <1>2, <1>3, <1>5
<1> HIDE DEF g
<1>7. ASSUME NEW i \in DOMAIN a, NEW j \in DOMAIN a, i < j PROVE g[i] < g[j]
  <2>1. f[i] < f[j]
    BY <1>1, <1>7 DEF At
  <2>2. f[i] \in Nat /\ f[j] \in Nat /\ g[i] = f[i] - 1 /\ g[j] = f[j] - 1
    <3>1. i \in 1 .. K /\ j \in 1 .. K
      BY <1>3
    <3>2. f[i] \in 2 .. L /\ f[j] \in 2 .. L
      BY <1>4, <3>1
    <3>3. g[i] = f[i] - 1 /\ g[j] = f[j] - 1
      BY <1>5, <3>1
    <3> QED
      BY <1>2, <3>2, <3>3
  <2> QED
    BY <2>1, <2>2
<1>8. ASSUME NEW k \in DOMAIN qq
      PROVE  qq[k] \in S <=> \E i \in DOMAIN a : g[i] = k
  <2>1. k + 1 \in DOMAIN q /\ qq[k] = q[k + 1] /\ k \in Nat
    BY <1>2
  <2>2. q[k + 1] \in S <=> \E i \in 1 .. K : f[i] = k + 1
    BY <1>1, <1>3, <2>1 DEF At
  <2>3. \A i \in 1 .. K : f[i] = k + 1 <=> g[i] = k
    BY <1>2, <1>4, <1>5, <2>1
  <2> QED
    BY <1>3, <2>1, <2>2, <2>3
<1>9. \A i \in DOMAIN a : a[i] = qq[g[i]].message
  <2>1. \A i \in 1 .. K : qq[g[i]] = q[f[i]]
    BY <1>2, <1>4, <1>5
  <2> QED
    BY <1>1, <1>3, <2>1 DEF At
<1>10. At(g, qq, S, a)
  BY <1>6, <1>7, <1>8, <1>9 DEF At
<1> QED
  BY <1>10 DEF Part, qq

LEMMA PartTailIn ==
    ASSUME NEW E, NEW q \in Seq(E), q # << >>, NEW S, NEW a \in Seq(Message),
           Part(q, S, a), Head(q) \in S
    PROVE  /\ a # << >>
           /\ Head(a) = Head(q).message
           /\ Part(Tail(q), S, Tail(a))
<1> DEFINE qq == Tail(q)
           aa == Tail(a)
           L == Len(q)
           K == Len(a)
<1>1. PICK f : At(f, q, S, a)
  BY DEF Part
<1>2. /\ DOMAIN qq = 1 .. L - 1 /\ DOMAIN q = 1 .. L /\ L \in Nat \ {0}
      /\ \A i \in 1 .. L - 1 : qq[i] = q[i + 1]
      /\ Head(q) = q[1]
  BY HeadTailTyped, LenProperties
<1>3. DOMAIN a = 1 .. K /\ K \in Nat
  BY LenProperties
<1>4. PICK i1 \in 1 .. K : f[i1] = 1
  BY <1>1, <1>2, <1>3 DEF At
<1>5. K >= 1 /\ 1 \in 1 .. K
  BY <1>3, <1>4
<1>6. a # << >>
  BY <1>3, <1>4
<1>7. /\ DOMAIN aa = 1 .. K - 1
      /\ \A i \in 1 .. K - 1 : aa[i] = a[i + 1]
      /\ Head(a) = a[1]
  BY <1>6, HeadTailTyped, LenProperties
<1> DEFINE g == [i \in 1 .. K - 1 |-> f[i + 1] - 1]
<1> HIDE DEF qq, aa, L, K
<1>8. \A i \in 1 .. K : f[i] \in 1 .. L
  BY <1>1, <1>2, <1>3 DEF At
<1>9. \A i, j \in 1 .. K : i < j => f[i] < f[j]
  BY <1>1, <1>3 DEF At
<1>10. f[1] = 1
  <2>1. CASE i1 = 1
    BY <1>4, <2>1
  <2>2. CASE i1 # 1
    <3>1. f[1] < f[i1]
      BY <1>4, <1>5, <1>9, <2>2
    <3> QED
      BY <1>2, <1>4, <1>5, <1>8, <3>1
  <2> QED
    BY <2>1, <2>2
<1>11. \A i \in 1 .. K - 1 : i + 1 \in 1 .. K /\ f[i + 1] \in 2 .. L
  <2> SUFFICES ASSUME NEW i \in 1 .. K - 1
               PROVE  i + 1 \in 1 .. K /\ f[i + 1] \in 2 .. L
    OBVIOUS
  <2>1. i + 1 \in 1 .. K /\ 1 < i + 1
    BY <1>3
  <2>2. f[1] < f[i + 1]
    BY <1>5, <1>9, <2>1
  <2> QED
    BY <1>2, <1>8, <1>10, <2>1, <2>2
<1>12. \A i \in 1 .. K - 1 : g[i] = f[i + 1] - 1 /\ g[i] \in 1 .. L - 1
  BY <1>2, <1>11
<1>13. g \in [DOMAIN aa -> DOMAIN qq]
  BY <1>2, <1>7, <1>12
<1> HIDE DEF g
<1>14. ASSUME NEW i \in DOMAIN aa, NEW j \in DOMAIN aa, i < j PROVE g[i] < g[j]
  <2>1. i \in 1 .. K - 1 /\ j \in 1 .. K - 1 /\ i + 1 < j + 1
    BY <1>3, <1>7, <1>14
  <2>2. f[i + 1] < f[j + 1]
    BY <1>9, <1>11, <2>1
  <2>3. f[i + 1] \in Nat /\ f[j + 1] \in Nat
    BY <1>2, <1>11, <2>1
  <2>4. g[i] = f[i + 1] - 1 /\ g[j] = f[j + 1] - 1
    BY <1>12, <2>1
  <2> QED
    BY <2>2, <2>3, <2>4
<1>15. ASSUME NEW k \in DOMAIN qq
      PROVE  qq[k] \in S <=> \E i \in DOMAIN aa : g[i] = k
  <2>1. k + 1 \in DOMAIN q /\ qq[k] = q[k + 1] /\ k \in Nat /\ k >= 1
    BY <1>2
  <2>2. q[k + 1] \in S <=> \E i \in 1 .. K : f[i] = k + 1
    BY <1>1, <1>3, <2>1 DEF At
  <2>3. ASSUME NEW i \in 1 .. K, f[i] = k + 1 PROVE \E j \in DOMAIN aa : g[j] = k
    <3>1. i # 1
      BY <1>10, <2>1, <2>3
    <3>2. i - 1 \in 1 .. K - 1 /\ (i - 1) + 1 = i
      BY <1>3, <3>1
    <3>3. g[i - 1] = f[i] - 1
      BY <1>12, <3>2
    <3> QED
      BY <1>7, <2>1, <2>3, <3>2, <3>3
  <2>4. ASSUME NEW j \in DOMAIN aa, g[j] = k PROVE \E i \in 1 .. K : f[i] = k + 1
    <3>1. j \in 1 .. K - 1 /\ f[j + 1] - 1 = k /\ f[j + 1] \in 2 .. L
      BY <1>7, <1>11, <1>12, <2>4
    <3>2. j + 1 \in 1 .. K
      BY <1>11, <3>1
    <3>3. f[j + 1] = k + 1
      BY <1>2, <2>1, <3>1
    <3> QED
      BY <3>2, <3>3
  <2> QED
    BY <2>1, <2>2, <2>3, <2>4
<1>16. ASSUME NEW i \in DOMAIN aa PROVE aa[i] = qq[g[i]].message
  <2>1. i \in 1 .. K - 1
    BY <1>7
  <2>2. qq[g[i]] = q[f[i + 1]]
    <3>1. g[i] = f[i + 1] - 1 /\ g[i] \in 1 .. L - 1 /\ f[i + 1] \in 2 .. L
      BY <1>11, <1>12, <2>1
    <3>2. qq[g[i]] = q[g[i] + 1]
      BY <1>2, <3>1
    <3>3. g[i] + 1 = f[i + 1]
      BY <1>2, <3>1
    <3> QED
      BY <3>2, <3>3
  <2>3. a[i + 1] = q[f[i + 1]].message
    BY <1>1, <1>3, <1>11, <2>1 DEF At
  <2> QED
    BY <1>7, <2>1, <2>2, <2>3
<1>17. At(g, qq, S, aa)
  BY <1>13, <1>14, <1>15, <1>16 DEF At
<1>18. a[1] = q[1].message
  BY <1>1, <1>3, <1>5, <1>10 DEF At
<1> QED
  BY <1>2, <1>6, <1>7, <1>17, <1>18 DEF Part, qq, aa

-----------------------------------------------------------------------------
(* One ordered channel: where the messages of a link are *)

From(n) == {in \in Incoming : in.from = n}
For(m)  == {out \in Outgoing : IsFor(m, out)}

\* What the outgoing task of n still has for m.
CarriedTo(n, m) ==
    IF carried[n] # None /\ IsFor(m, carried[n]) THEN <<carried[n].message>>
    ELSE << >>

\* The message queues between the two engines, with what they hold for others
\* or from others left out, continue what has been received to what was sent.
Flow(n, m) ==
    \E a, b \in Seq(Message) :
        /\ Part(inbox[m], From(n), a)
        /\ Part(outgoing[n], For(m), b)
        /\ sent[<<n, m>>] =
              Channel(got[<<n, m>>], a, socket[n][m], queue[n][m], CarriedTo(n, m), b)

FlowInv == \A n, m \in Node : Flow(n, m)

LEMMA FlowSame ==
    ASSUME NEW n \in Node, NEW m \in Node, Flow(n, m),
           inbox'[m] = inbox[m], outgoing'[n] = outgoing[n],
           carried'[n] = carried[n], socket'[n][m] = socket[n][m],
           queue'[n][m] = queue[n][m], sent'[<<n, m>>] = sent[<<n, m>>],
           got'[<<n, m>>] = got[<<n, m>>]
    PROVE  Flow(n, m)'
BY DEF Flow, CarriedTo

\* The parts a step leaves of the two shared queues give the channel.
LEMMA FlowOf ==
    ASSUME NEW n \in Node, NEW m \in Node,
           NEW a \in Seq(Message), NEW b \in Seq(Message),
           Part(inbox'[m], From(n), a), Part(outgoing'[n], For(m), b),
           sent'[<<n, m>>] =
              Channel(got'[<<n, m>>], a, socket'[n][m], queue'[n][m], CarriedTo(n, m)', b)
    PROVE  Flow(n, m)'
BY Zenon DEF Flow, From, For

\* The types of all that is on the way from n to m.
LEMMA FlowTypes ==
    ASSUME PipeInv, NEW n \in Node, NEW m \in Node
    PROVE  /\ Queue(sent[<<n, m>>]) /\ Queue(got[<<n, m>>])
           /\ Queue(socket[n][m]) /\ Queue(queue[n][m]) /\ Queue(CarriedTo(n, m))
           /\ inbox[m] \in Seq(Incoming)
           /\ outgoing[n] \in Seq(Outgoing)
<1>1. /\ Queue(sent[<<n, m>>]) /\ Queue(got[<<n, m>>])
      /\ Queue(socket[n][m]) /\ Queue(queue[n][m])
      /\ inbox[m] \in Seq(Incoming)
      /\ outgoing[n] \in Seq(Outgoing)
  BY DEF PipeInv, PipeTyped, Queue
<1>2. Queue(CarriedTo(n, m))
  <2>1. carried[n] # None => carried[n].message \in Message
    BY DEF PipeInv, Routed, OutgoingOf, Outgoing
  <2> QED
    BY <2>1 DEF CarriedTo, Queue
<1> QED
  BY <1>1, <1>2

\* What the channel was is what it is: the parts the PICK of a step names.
FlowBy(n, m, a, b) ==
    /\ a \in Seq(Message) /\ b \in Seq(Message) /\ Queue(a) /\ Queue(b)
    /\ Part(inbox[m], From(n), a)
    /\ Part(outgoing[n], For(m), b)
    /\ sent[<<n, m>>] =
          Channel(got[<<n, m>>], a, socket[n][m], queue[n][m], CarriedTo(n, m), b)

LEMMA FlowParts ==
    ASSUME FlowInv, NEW n \in Node, NEW m \in Node
    PROVE  \E a, b \in Seq(Message) : FlowBy(n, m, a, b)
<1>1. Flow(n, m)
  BY DEF FlowInv
<1> QED
  BY <1>1, Zenon DEF Flow, FlowBy, Queue

LEMMA FlowInit == Init => FlowInv
<1> SUFFICES ASSUME Init, NEW n \in Node, NEW m \in Node PROVE Flow(n, m)
  BY DEF FlowInv
<1>1. /\ inbox[m] = << >> /\ outgoing[n] = << >> /\ socket[n][m] = << >>
      /\ queue[n][m] = << >> /\ CarriedTo(n, m) = << >>
      /\ sent[<<n, m>>] = << >> /\ got[<<n, m>>] = << >>
  BY DEF Init, CarriedTo
<1>2. << >> \in Seq(Message)
  OBVIOUS
<1>3. Channel(<< >>, << >>, << >>, << >>, << >>, << >>) = << >>
  <2>1. << >> \o << >> = << >>
    BY <1>2, ConcatEmptySeq
  <2> QED
    BY <2>1, Zenon DEF Channel, Cat
<1>4. Part(<< >>, From(n), << >>) /\ Part(<< >>, For(m), << >>)
  BY PartOfEmpty
<1> QED
  BY <1>1, <1>2, <1>3, <1>4, Zenon DEF Flow

\* A handler's send appends to the last queue of the links it is for.
LEMMA EmitFlows ==
    ASSUME PipeInv, FlowInv, NEW n \in Node, Emit(n)
    PROVE  FlowInv'
<1> SUFFICES ASSUME NEW p \in Node, NEW q \in Node PROVE Flow(p, q)'
  BY DEF FlowInv
<1> DEFINE next == Head(todo[n])
<1>1. next \in Outgoing /\ next.message \in Message
  <2>1. todo[n] \in Seq(Outgoing) /\ todo[n] # << >>
    BY DEF Emit, PipeInv, PipeTyped
  <2>2. next \in Outgoing
    BY <2>1, HeadTailTyped
  <2> HIDE DEF next
  <2> QED
    BY <2>2 DEF Outgoing
<1>2. /\ outgoing' = [outgoing EXCEPT ![n] = Append(outgoing[n], next)]
      /\ sent' = [l \in Node \X Node |->
             IF l[1] = n /\ IsFor(l[2], next) THEN Append(sent[l], next.message)
             ELSE sent[l]]
      /\ UNCHANGED <<carried, queue, socket, inbox, got>>
  BY DEF Emit
<1> HIDE DEF next
<1>3. /\ outgoing'[n] = Append(outgoing[n], next)
      /\ p # n => outgoing'[p] = outgoing[p]
      /\ sent'[<<p, q>>] = IF p = n /\ IsFor(q, next)
                          THEN Append(sent[<<p, q>>], next.message) ELSE sent[<<p, q>>]
      /\ CarriedTo(p, q)' = CarriedTo(p, q)
  BY <1>2 DEF PipeInv, PipeTyped, CarriedTo
<1>4. CASE p # n
  BY <1>2, <1>3, <1>4, FlowSame DEF FlowInv
<1>5. CASE p = n
  <2>0. PICK a \in Seq(Message), b \in Seq(Message) : FlowBy(p, q, a, b)
    BY FlowParts
  <2>1. /\ Part(inbox[q], From(p), a)
        /\ Part(outgoing[p], For(q), b)
        /\ sent[<<p, q>>] =
              Channel(got[<<p, q>>], a, socket[p][q], queue[p][q], CarriedTo(p, q), b)
    BY <2>0, Zenon DEF FlowBy
  <2>2. outgoing[p] \in Seq(Outgoing)
    BY FlowTypes
  <2>3. CASE IsFor(q, next)
    <3> DEFINE bb == Append(b, next.message)
    <3>1. bb \in Seq(Message)
      BY <1>1, AppendTyped
    <3>2. Part(outgoing'[p], For(q), bb)
      BY <1>1, <1>3, <1>5, <2>1, <2>2, <2>3, PartAppendIn DEF For
    <3>3. Queue(a) /\ Queue(b)
      BY <2>0 DEF FlowBy
    <3>4. Channel(got[<<p, q>>], a, socket[p][q], queue[p][q], CarriedTo(p, q), bb)
             = Append(sent[<<p, q>>], next.message)
      <4> DEFINE e == next.message
      <4>1. /\ e \in Message /\ Queue(got[<<p, q>>]) /\ Queue(socket[p][q])
            /\ Queue(queue[p][q]) /\ Queue(CarriedTo(p, q))
        BY <1>1, FlowTypes
      <4> HIDE DEF e
      <4>2. Channel(got[<<p, q>>], a, socket[p][q], queue[p][q], CarriedTo(p, q), Append(b, e))
             = Append(Channel(got[<<p, q>>], a, socket[p][q], queue[p][q],
                              CarriedTo(p, q), b), e)
        BY <3>3, <4>1, ChannelEmit
      <4> QED
        BY <2>1, <4>2, Zenon DEF e
    <3>5. sent'[<<p, q>>] = Append(sent[<<p, q>>], next.message)
      BY <1>3, <1>5, <2>3
    <3> HIDE DEF bb
    <3>6. sent'[<<p, q>>] =
             Channel(got'[<<p, q>>], a, socket'[p][q], queue'[p][q], CarriedTo(p, q)', bb)
      BY <1>2, <1>3, <3>4, <3>5
    <3>7. Part(inbox'[q], From(p), a)
      BY <1>2, <2>1
    <3> QED
      BY <3>1, <3>2, <3>6, <3>7, FlowOf
  <2>4. CASE ~IsFor(q, next)
    <3>1. Part(outgoing'[p], For(q), b)
      BY <1>1, <1>3, <1>5, <2>1, <2>2, <2>4, PartAppendOut DEF For
    <3> QED
      BY <1>2, <1>3, <1>5, <2>1, <2>4, <3>1, FlowOf
  <2> QED
    BY <2>3, <2>4
<1> QED
  BY <1>4, <1>5

\* The outgoing task takes over the head of the queue.
LEMMA TakeOutgoingFlows ==
    ASSUME PipeInv, FlowInv, NEW n \in Node, TakeOutgoing(n)
    PROVE  FlowInv'
<1> SUFFICES ASSUME NEW p \in Node, NEW q \in Node PROVE Flow(p, q)'
  BY DEF FlowInv
<1> DEFINE next == Head(outgoing[n])
<1>1. /\ outgoing[n] \in Seq(Outgoing) /\ outgoing[n] # << >> /\ carried[n] = None
  BY DEF TakeOutgoing, PipeInv, PipeTyped
<1>2. next \in Outgoing /\ next.message \in Message /\ next # None
  BY <1>1, HeadTailTyped, NoneIsNoMessage DEF Outgoing
<1>3. /\ carried' = [carried EXCEPT ![n] = next]
      /\ outgoing' = [outgoing EXCEPT ![n] = Tail(outgoing[n])]
      /\ UNCHANGED <<queue, socket, inbox, sent, got>>
  BY DEF TakeOutgoing
<1>4. CASE p # n
  <2>1. outgoing'[p] = outgoing[p] /\ carried'[p] = carried[p]
    BY <1>3, <1>4 DEF PipeInv, PipeTyped
  <2> QED
    BY <1>3, <2>1, FlowSame DEF FlowInv
<1>5. CASE p = n
  <2>0. PICK a \in Seq(Message), b \in Seq(Message) : FlowBy(p, q, a, b)
    BY FlowParts
  <2>1. /\ Part(inbox[q], From(p), a)
        /\ Part(outgoing[p], For(q), b)
        /\ sent[<<p, q>>] =
              Channel(got[<<p, q>>], a, socket[p][q], queue[p][q], CarriedTo(p, q), b)
    BY <2>0, Zenon DEF FlowBy
  <2>2. outgoing'[p] = Tail(outgoing[p]) /\ carried'[p] = next
    <3>1. /\ outgoing \in [Node -> Seq(Outgoing)]
          /\ carried \in [Node -> Outgoing \cup {None}]
      BY DEF PipeInv, PipeTyped
    <3> QED
      BY <1>3, <1>5, <3>1
  <2>3. CarriedTo(p, q) = << >>
    BY <1>1, <1>5 DEF CarriedTo
  <2>4. CASE next \in For(q)
    <3>1. b # << >> /\ Head(b) = next.message /\ Part(outgoing'[p], For(q), Tail(b))
      BY <1>1, <1>5, <2>1, <2>2, <2>4, PartTailIn
    <3>2. CarriedTo(p, q)' = <<next.message>>
      BY <1>2, <2>2, <2>4 DEF CarriedTo, For
    <3>3. Tail(b) \in Seq(Message)
      BY <3>1, HeadTailTyped
    <3>4. Queue(b)
      BY <2>0 DEF FlowBy
    <3>5. sent'[<<p, q>>] =
             Channel(got'[<<p, q>>], a, socket'[p][q], queue'[p][q], CarriedTo(p, q)', Tail(b))
      <4>1. CarriedTo(p, q)' = <<Head(b)>>
        BY <3>1, <3>2
      <4>2. Channel(got[<<p, q>>], a, socket[p][q], queue[p][q], <<Head(b)>>, Tail(b))
               = Channel(got[<<p, q>>], a, socket[p][q], queue[p][q], << >>, b)
        BY <3>1, <3>4, ChannelTake
      <4>3. UNCHANGED <<queue, socket, sent, got>>
        BY <1>3
      <4> QED
        BY <2>1, <2>3, <4>1, <4>2, <4>3
    <3>6. Part(inbox'[q], From(p), a)
      BY <1>3, <2>1
    <3> QED
      BY <3>1, <3>3, <3>5, <3>6, FlowOf
  <2>5. CASE next \notin For(q)
    <3>1. Part(outgoing'[p], For(q), b)
      BY <1>1, <1>5, <2>1, <2>2, <2>5, PartTailOut
    <3>2. CarriedTo(p, q)' = << >>
      BY <1>2, <2>2, <2>5 DEF CarriedTo, For
    <3> QED
      BY <1>3, <2>1, <2>3, <3>1, <3>2, FlowOf
  <2> QED
    BY <2>4, <2>5
<1> QED
  BY <1>4, <1>5

\* A peer that has been served is not among those left, because no peer occurs
\* twice in the table.
LEMMA ServedOnce ==
    ASSUME PipeInv, NEW n \in Node, SendToPeer(n), NEW q \in Node
    PROVE  /\ CarriedTo(n, Head(carried[n].to)) = <<carried[n].message>>
           /\ CarriedTo(n, q)' =
                 IF q = Head(carried[n].to) THEN << >> ELSE CarriedTo(n, q)
<1> DEFINE out == carried[n]
           rest == Tail(out.to)
           p == Head(out.to)
<1>1. out # None
  BY DEF SendToPeer
<1>2. /\ out \in OutgoingOf(n) /\ out \in Outgoing
      /\ out.to \in Seq(Node) /\ out.to # << >>
  BY <1>1 DEF PipeInv, Routed, OutgoingOf, Outgoing
<1>3. /\ p = out.to[1]
      /\ rest \in Seq(Node)
      /\ Len(out.to) \in Nat \ {0}
      /\ Len(rest) = Len(out.to) - 1
      /\ \A i \in 1 .. Len(rest) : rest[i] = out.to[i + 1]
  BY <1>2, HeadTailTyped
<1>4. DOMAIN out.to = 1 .. Len(out.to) /\ DOMAIN rest = 1 .. Len(out.to) - 1
  BY <1>2, <1>3, LenProperties
<1>5. carried'[n] = IF Len(out.to) = 1 THEN None ELSE [message |-> out.message, to |-> rest]
  BY DEF SendToPeer, PipeInv, PipeTyped
<1>6. Len(out.to) # 1 => [message |-> out.message, to |-> rest] # None
  BY <1>1, NextServed, NoneIsNoMessage
<1>7. IsFor(p, out)
  BY <1>3, <1>4 DEF IsFor
<1>8. ~\E i \in DOMAIN rest : rest[i] = p
  <2> SUFFICES ASSUME NEW i \in DOMAIN rest, rest[i] = p PROVE FALSE
    OBVIOUS
  <2>1. i + 1 \in DOMAIN out.to /\ 1 \in DOMAIN out.to /\ out.to[i + 1] = out.to[1]
    BY <1>3, <1>4
  <2>2. i + 1 = 1
    BY <1>2, <2>1 DEF OutgoingOf
  <2> QED
    BY <1>3, <1>4, <2>2
<1>9. ASSUME q # p
      PROVE  IsFor(q, out) <=> \E i \in DOMAIN rest : rest[i] = q
  <2>1. ASSUME NEW j \in DOMAIN out.to, out.to[j] = q
        PROVE  \E i \in DOMAIN rest : rest[i] = q
    <3>1. j # 1
      BY <1>3, <1>9, <2>1
    <3>2. j - 1 \in DOMAIN rest /\ (j - 1) + 1 = j
      BY <1>3, <1>4, <3>1
    <3>3. rest[j - 1] = out.to[j]
      BY <1>3, <1>4, <3>2
    <3> QED
      BY <2>1, <3>2, <3>3
  <2>2. ASSUME NEW i \in DOMAIN rest, rest[i] = q
        PROVE  \E j \in DOMAIN out.to : out.to[j] = q
    <3>1. i + 1 \in DOMAIN out.to /\ out.to[i + 1] = q
      BY <1>3, <1>4, <2>2
    <3> QED
      BY <3>1
  <2> QED
    BY <2>1, <2>2 DEF IsFor
<1>10. CarriedTo(n, q)' =
          IF Len(out.to) # 1 /\ \E i \in DOMAIN rest : rest[i] = q
          THEN <<out.message>> ELSE << >>
  <2>1. CASE Len(out.to) = 1
    <3>1. carried'[n] = None
      BY <1>5, <2>1
    <3> QED
      BY <2>1, <3>1 DEF CarriedTo
  <2>2. CASE Len(out.to) # 1
    <3> DEFINE left == [message |-> out.message, to |-> rest]
    <3>1. carried'[n] = left /\ left # None
      BY <1>5, <1>6, <2>2
    <3>2. IsFor(q, left) <=> \E i \in DOMAIN rest : rest[i] = q
      BY Zenon DEF IsFor
    <3>3. left.message = out.message
      OBVIOUS
    <3> HIDE DEF left, rest
    <3>4. CarriedTo(n, q)' = IF IsFor(q, left) THEN <<left.message>> ELSE << >>
      BY <3>1 DEF CarriedTo
    <3> QED
      BY <2>2, <3>2, <3>3, <3>4
  <2> QED
    BY <2>1, <2>2
<1>11. CASE Len(out.to) = 1
  <2>1. DOMAIN rest = {}
    BY <1>3, <1>4, <1>11
  <2> HIDE DEF rest
  <2> QED
    BY <1>1, <1>7, <1>9, <1>10, <1>11, <2>1 DEF CarriedTo
<1>12. CASE Len(out.to) # 1
  <2> HIDE DEF rest
  <2> QED
    BY <1>1, <1>7, <1>8, <1>9, <1>10, <1>12 DEF CarriedTo
<1> QED
  BY <1>11, <1>12

LEMMA SendToPeerFlows ==
    ASSUME PipeInv, FlowInv, NEW n \in Node, SendToPeer(n)
    PROVE  FlowInv'
<1> SUFFICES ASSUME NEW p \in Node, NEW q \in Node PROVE Flow(p, q)'
  BY DEF FlowInv
<1> DEFINE m == Head(carried[n].to)
           x == carried[n].message
<1>1. m \in Node /\ x \in Message
  BY NextServed DEF SendToPeer
<1>2. Enqueue(n, m, x) /\ UNCHANGED <<outgoing, socket, inbox, sent, got>>
  BY DEF SendToPeer
<1>3. /\ CarriedTo(n, m) = <<x>>
      /\ CarriedTo(n, q)' = IF q = m THEN << >> ELSE CarriedTo(n, q)
  BY ServedOnce
<1>4. p # n => carried'[p] = carried[p]
  BY DEF SendToPeer, PipeInv, PipeTyped
<1> HIDE DEF m, x
<1>5. queue'[p][q] = IF p = n /\ q = m THEN Append(queue[p][q], x) ELSE queue[p][q]
  BY <1>1, <1>2 DEF Enqueue, PipeInv, PipeTyped
<1>6. CASE p # n
  BY <1>2, <1>4, <1>5, <1>6, FlowSame DEF FlowInv
<1>7. CASE p = n /\ q # m
  <2>1. CarriedTo(p, q)' = CarriedTo(p, q) /\ queue'[p][q] = queue[p][q]
    BY <1>3, <1>5, <1>7
  <2>2. Flow(p, q)
    BY DEF FlowInv
  <2> QED
    BY <1>2, <2>1, <2>2 DEF Flow
<1>8. CASE p = n /\ q = m
  <2>0. PICK a \in Seq(Message), b \in Seq(Message) : FlowBy(p, q, a, b)
    BY FlowParts
  <2>1. /\ Part(inbox[q], From(p), a)
        /\ Part(outgoing[p], For(q), b)
        /\ sent[<<p, q>>] =
              Channel(got[<<p, q>>], a, socket[p][q], queue[p][q], CarriedTo(p, q), b)
    BY <2>0, Zenon DEF FlowBy
  <2>2. Queue(queue[p][q]) /\ Queue(b)
    BY <2>0, FlowTypes DEF FlowBy
  <2>3. Channel(got[<<p, q>>], a, socket[p][q], Append(queue[p][q], x), << >>, b)
           = Channel(got[<<p, q>>], a, socket[p][q], queue[p][q], <<x>>, b)
    BY <1>1, <2>2, ChannelServe
  <2>4. queue'[p][q] = Append(queue[p][q], x) /\ CarriedTo(p, q)' = << >> /\ CarriedTo(p, q) = <<x>>
    BY <1>3, <1>5, <1>8
  <2>5. UNCHANGED <<socket, sent, got>>
    BY <1>2
  <2>6. Part(inbox'[q], From(p), a) /\ Part(outgoing'[p], For(q), b)
    BY <1>2, <2>1
  <2>7. sent'[<<p, q>>] =
           Channel(got'[<<p, q>>], a, socket'[p][q], queue'[p][q], CarriedTo(p, q)', b)
    BY <2>1, <2>3, <2>4, <2>5
  <2> QED
    BY <2>6, <2>7, FlowOf
<1> QED
  BY <1>6, <1>7, <1>8

LEMMA PeerWriterFlows ==
    ASSUME PipeInv, FlowInv, NEW n \in Node, NEW m \in Node, PeerWriter(n, m)
    PROVE  FlowInv'
<1> SUFFICES ASSUME NEW p \in Node, NEW q \in Node PROVE Flow(p, q)'
  BY DEF FlowInv
<1>1. UNCHANGED <<outgoing, carried, inbox, sent, got>> /\ queue[n][m] # << >>
  BY DEF PeerWriter
<1>2. /\ queue'[p][q] = IF p = n /\ q = m THEN Tail(queue[p][q]) ELSE queue[p][q]
      /\ socket'[p][q] = IF p = n /\ q = m THEN Append(socket[p][q], Head(queue[p][q]))
                         ELSE socket[p][q]
  BY DEF PeerWriter, PipeInv, PipeTyped
<1>3. CASE ~(p = n /\ q = m)
  BY <1>1, <1>2, <1>3, FlowSame DEF FlowInv
<1>4. CASE p = n /\ q = m
  <2>0. PICK a \in Seq(Message), b \in Seq(Message) : FlowBy(p, q, a, b)
    BY FlowParts
  <2>1. /\ Part(inbox[q], From(p), a)
        /\ Part(outgoing[p], For(q), b)
        /\ sent[<<p, q>>] =
              Channel(got[<<p, q>>], a, socket[p][q], queue[p][q], CarriedTo(p, q), b)
    BY <2>0, Zenon DEF FlowBy
  <2>2. /\ Queue(socket[p][q]) /\ Queue(queue[p][q]) /\ Queue(CarriedTo(p, q)) /\ Queue(b)
        /\ queue[p][q] # << >>
    BY <1>1, <1>4, <2>0, FlowTypes DEF FlowBy
  <2>3. Channel(got[<<p, q>>], a, Append(socket[p][q], Head(queue[p][q])), Tail(queue[p][q]),
                CarriedTo(p, q), b)
           = Channel(got[<<p, q>>], a, socket[p][q], queue[p][q], CarriedTo(p, q), b)
    BY <2>2, ChannelWrite
  <2>4. CarriedTo(p, q)' = CarriedTo(p, q)
    BY <1>1 DEF CarriedTo
  <2>5. /\ queue'[p][q] = Tail(queue[p][q])
        /\ socket'[p][q] = Append(socket[p][q], Head(queue[p][q]))
    BY <1>2, <1>4
  <2>6. Part(inbox'[q], From(p), a) /\ Part(outgoing'[p], For(q), b)
    BY <1>1, <2>1
  <2>7. UNCHANGED <<sent, got>>
    BY <1>1
  <2>8. sent'[<<p, q>>] =
           Channel(got'[<<p, q>>], a, socket'[p][q], queue'[p][q], CarriedTo(p, q)', b)
    BY <2>1, <2>3, <2>4, <2>5, <2>7
  <2> QED
    BY <2>6, <2>8, FlowOf
<1> QED
  BY <1>3, <1>4

LEMMA PeerReaderFlows ==
    ASSUME PipeInv, FlowInv, NEW n \in Node, NEW m \in Node, PeerReader(n, m)
    PROVE  FlowInv'
<1> SUFFICES ASSUME NEW p \in Node, NEW q \in Node PROVE Flow(p, q)'
  BY DEF FlowInv
<1> DEFINE x == Head(socket[n][m])
           in == [from |-> n, message |-> x]
<1>1. UNCHANGED <<outgoing, carried, queue, sent, got>> /\ socket[n][m] # << >>
  BY DEF PeerReader
<1>2. /\ inbox'[q] = IF q = m THEN Append(inbox[q], in) ELSE inbox[q]
      /\ socket'[p][q] = IF p = n /\ q = m THEN Tail(socket[p][q]) ELSE socket[p][q]
  BY DEF PeerReader, PipeInv, PipeTyped
<1>3. socket[n][m] \in Seq(Message) /\ x \in Message
  BY <1>1, HeadTailTyped DEF PipeInv, PipeTyped
<1>4. /\ in \in Incoming
      /\ in.from = n /\ in.message = x
  BY <1>3 DEF Incoming
<1>5. CASE q # m
  BY <1>1, <1>2, <1>5, FlowSame DEF FlowInv
<1>6. CASE q = m
  <2>0. PICK a \in Seq(Message), b \in Seq(Message) : FlowBy(p, q, a, b)
    BY FlowParts
  <2>1. /\ Part(inbox[q], From(p), a)
        /\ Part(outgoing[p], For(q), b)
        /\ sent[<<p, q>>] =
              Channel(got[<<p, q>>], a, socket[p][q], queue[p][q], CarriedTo(p, q), b)
    BY <2>0, Zenon DEF FlowBy
  <2>2. inbox[q] \in Seq(Incoming)
    BY FlowTypes
  <2>3. CarriedTo(p, q)' = CarriedTo(p, q)
    BY <1>1 DEF CarriedTo
  <2>4. inbox'[q] = Append(inbox[q], in)
    BY <1>2, <1>6
  <2>5. CASE p # n
    <3>1. in \notin From(p)
      BY <1>4, <2>5 DEF From, Incoming
    <3> HIDE DEF in
    <3>2. Part(inbox'[q], From(p), a)
      BY <1>4, <2>1, <2>2, <2>4, <3>1, PartAppendOut
    <3>3. socket'[p][q] = socket[p][q]
      BY <1>2, <2>5
    <3>4. Part(outgoing'[p], For(q), b)
      BY <1>1, <2>1
    <3>5. sent'[<<p, q>>] =
             Channel(got'[<<p, q>>], a, socket'[p][q], queue'[p][q], CarriedTo(p, q)', b)
      BY <1>1, <2>1, <2>3, <3>3
    <3> QED
      BY <3>2, <3>4, <3>5, FlowOf
  <2>6. CASE p = n
    <3>1. in \in From(p)
      BY <1>4, <2>6 DEF From, Incoming
    <3>2. /\ Queue(a) /\ Queue(socket[p][q]) /\ Queue(queue[p][q])
          /\ Queue(CarriedTo(p, q)) /\ Queue(b) /\ socket[p][q] # << >>
      BY <1>1, <1>6, <2>0, <2>6, FlowTypes DEF FlowBy
    <3>3. x = Head(socket[p][q]) /\ socket'[p][q] = Tail(socket[p][q])
      BY <1>2, <1>6, <2>6
    <3> HIDE DEF in, x
    <3>4. Part(inbox'[q], From(p), Append(a, x))
      BY <1>3, <1>4, <2>1, <2>2, <2>4, <3>1, PartAppendIn
    <3>5. Channel(got[<<p, q>>], Append(a, Head(socket[p][q])), Tail(socket[p][q]),
                  queue[p][q], CarriedTo(p, q), b)
             = Channel(got[<<p, q>>], a, socket[p][q], queue[p][q], CarriedTo(p, q), b)
      BY <3>2, ChannelRead
    <3>6. Append(a, x) \in Seq(Message)
      BY <1>3, AppendTyped
    <3>7. Part(outgoing'[p], For(q), b)
      BY <1>1, <2>1
    <3>8. UNCHANGED <<queue, sent, got>>
      BY <1>1
    <3>9. sent'[<<p, q>>] =
             Channel(got'[<<p, q>>], Append(a, x), socket'[p][q], queue'[p][q], CarriedTo(p, q)', b)
      BY <2>1, <2>3, <3>3, <3>5, <3>8
    <3> QED
      BY <3>4, <3>6, <3>7, <3>9, FlowOf
  <2> QED
    BY <2>5, <2>6
<1> QED
  BY <1>5, <1>6

\* What an engine receives is next in the order in which it was sent.
LEMMA ReceivedIsNext ==
    ASSUME PipeInv, FlowInv, NEW n \in Node, inbox[n] # << >>
    PROVE  LET from == Head(inbox[n]).from
               l == <<from, n>>
           IN  /\ Len(got[l]) < Len(sent[l])
               /\ sent[l][Len(got[l]) + 1] = Head(inbox[n]).message
<1> DEFINE next == Head(inbox[n])
           p == next.from
           l == <<p, n>>
<1>1. next \in From(p) /\ p \in Node /\ next.message \in Message
  BY NextReceived DEF From, IncomingOf, Incoming
<1>2. PICK a \in Seq(Message), b \in Seq(Message) : FlowBy(p, n, a, b)
  BY <1>1, FlowParts
<1> DEFINE z == Cat(socket[p][n], Cat(queue[p][n], Cat(CarriedTo(p, n), b)))
           g == got[l]
<1>3. /\ inbox[n] \in Seq(Incoming)
      /\ z \in Seq(Message) /\ g \in Seq(Message)
  <2>1. /\ Queue(socket[p][n]) /\ Queue(queue[p][n]) /\ Queue(CarriedTo(p, n))
        /\ Queue(g) /\ Queue(b) /\ inbox[n] \in Seq(Incoming)
    BY <1>1, <1>2, FlowTypes DEF FlowBy
  <2>2. Queue(z)
    BY <2>1, CatTyped
  <2> QED
    BY <2>1, <2>2 DEF Queue
<1> HIDE DEF z, p, next, g
<1>4. a # << >> /\ Head(a) = next.message
  <2>1. Part(inbox[n], From(p), a)
    BY <1>2 DEF FlowBy
  <2>2. Head(inbox[n]) \in From(p) /\ Head(inbox[n]) = next
    BY <1>1 DEF next
  <2> QED
    BY <1>3, <2>1, <2>2, PartTailIn
<1>5. Len(a) \in Nat \ {0} /\ Head(a) = a[1]
  BY <1>4, HeadTailTyped
<1>6. /\ a \o z \in Seq(Message) /\ Len(a \o z) = Len(a) + Len(z)
      /\ (a \o z)[1] = a[1] /\ Len(z) \in Nat /\ Len(g) \in Nat
  BY <1>3, <1>5, ConcatProperties, LenProperties
<1>7. /\ Len(g \o (a \o z)) = Len(g) + (Len(a) + Len(z))
      /\ (g \o (a \o z))[Len(g) + 1] = (a \o z)[1]
  BY <1>3, <1>5, <1>6, ConcatProperties
<1>8. sent[l] = g \o (a \o z)
  BY <1>2, Zenon DEF FlowBy, Channel, Cat, z, g
<1>9. Len(g) < Len(sent[l]) /\ sent[l][Len(g) + 1] = next.message
  BY <1>4, <1>5, <1>6, <1>7, <1>8
<1> QED
  BY <1>9 DEF g, next, p

\* A message leaves the inbox for the engine.
LEMMA ReceiveFlows ==
    ASSUME PipeInv, FlowInv, NEW n \in Node, Receive(n)
    PROVE  FlowInv'
<1> SUFFICES ASSUME NEW p \in Node, NEW q \in Node PROVE Flow(p, q)'
  BY DEF FlowInv
<1> DEFINE next == Head(inbox[n])
<1>1. UNCHANGED <<outgoing, carried, queue, socket, sent>> /\ inbox[n] # << >>
  BY DEF Receive
<1>2. /\ next.from \in Node /\ next.message \in Message
      /\ next \in Incoming
  BY <1>1, NextReceived DEF IncomingOf, Incoming
<1>3. /\ inbox'[q] = IF q = n THEN Tail(inbox[q]) ELSE inbox[q]
      /\ got'[<<p, q>>] = IF p = next.from /\ q = n
                         THEN Append(got[<<p, q>>], next.message) ELSE got[<<p, q>>]
  <2>1. /\ got' = [got EXCEPT ![<<next.from, n>>] =
                                 Append(got[<<next.from, n>>], next.message)]
        /\ inbox' = [inbox EXCEPT ![n] = Tail(inbox[n])]
    BY DEF Receive
  <2>2. /\ got \in [Node \X Node -> Seq(Message)]
        /\ inbox \in [Node -> Seq(Incoming)]
    BY DEF PipeInv, PipeTyped
  <2> HIDE DEF next
  <2> QED
    BY <1>2, <2>1, <2>2
<1>4. CASE q # n
  BY <1>1, <1>3, <1>4, FlowSame DEF FlowInv
<1>5. CASE q = n
  <2>0. PICK a \in Seq(Message), b \in Seq(Message) : FlowBy(p, q, a, b)
    BY FlowParts
  <2>1. /\ Part(inbox[q], From(p), a)
        /\ Part(outgoing[p], For(q), b)
        /\ sent[<<p, q>>] =
              Channel(got[<<p, q>>], a, socket[p][q], queue[p][q], CarriedTo(p, q), b)
    BY <2>0, Zenon DEF FlowBy
  <2>2. /\ inbox[q] \in Seq(Incoming)
        /\ inbox'[q] = Tail(inbox[q]) /\ inbox[q] # << >> /\ next = Head(inbox[q])
    BY <1>1, <1>3, <1>5, FlowTypes
  <2>3. CarriedTo(p, q)' = CarriedTo(p, q)
    BY <1>1 DEF CarriedTo
  <2> HIDE DEF next
  <2>4. CASE p # next.from
    <3>1. next \notin From(p)
      BY <2>4 DEF From, Incoming
    <3>2. Part(inbox'[q], From(p), a)
      BY <2>1, <2>2, <3>1, PartTailOut
    <3>3. got'[<<p, q>>] = got[<<p, q>>]
      BY <1>3, <2>4
    <3>4. Part(outgoing'[p], For(q), b)
      BY <1>1, <2>1
    <3>5. sent'[<<p, q>>] =
             Channel(got'[<<p, q>>], a, socket'[p][q], queue'[p][q], CarriedTo(p, q)', b)
      BY <1>1, <2>1, <2>3, <3>3
    <3> QED
      BY <3>2, <3>4, <3>5, FlowOf
  <2>5. CASE p = next.from
    <3>1. next \in From(p)
      BY <1>2, <2>5 DEF From, Incoming
    <3>2. a # << >> /\ Head(a) = next.message /\ Part(inbox'[q], From(p), Tail(a))
      BY <2>1, <2>2, <3>1, PartTailIn
    <3>3. /\ Queue(got[<<p, q>>]) /\ Queue(a) /\ Queue(socket[p][q]) /\ Queue(queue[p][q])
          /\ Queue(CarriedTo(p, q)) /\ Queue(b)
      BY <2>0, FlowTypes DEF FlowBy
    <3>4. got'[<<p, q>>] = Append(got[<<p, q>>], Head(a))
      BY <1>3, <1>5, <2>5, <3>2
    <3>5. Channel(Append(got[<<p, q>>], Head(a)), Tail(a), socket[p][q], queue[p][q],
                  CarriedTo(p, q), b)
             = Channel(got[<<p, q>>], a, socket[p][q], queue[p][q], CarriedTo(p, q), b)
      BY <3>2, <3>3, ChannelReceive
    <3>6. Tail(a) \in Seq(Message)
      BY <3>2, HeadTailTyped
    <3>7. Part(outgoing'[p], For(q), b)
      BY <1>1, <2>1
    <3>8. UNCHANGED <<socket, queue, sent>>
      BY <1>1
    <3>9. sent'[<<p, q>>] =
             Channel(got'[<<p, q>>], Tail(a), socket'[p][q], queue'[p][q], CarriedTo(p, q)', b)
      BY <2>1, <2>3, <3>4, <3>5, <3>8
    <3> QED
      BY <3>2, <3>6, <3>7, <3>9, FlowOf
  <2> QED
    BY <2>4, <2>5
<1> QED
  BY <1>4, <1>5

LEMMA FlowStep == PipeInv /\ FlowInv /\ [Next]_vars => FlowInv'
<1> SUFFICES ASSUME PipeInv, FlowInv, [Next]_vars PROVE FlowInv'
  OBVIOUS
<1>1. ASSUME UNCHANGED <<outgoing, carried, queue, socket, inbox, sent, got>>
      PROVE  FlowInv'
  <2> SUFFICES ASSUME NEW p \in Node, NEW q \in Node PROVE Flow(p, q)'
    BY DEF FlowInv
  <2> QED
    BY <1>1, FlowSame DEF FlowInv
<1>2. (\E n \in Node : Submit(n) \/ Hang(n)) \/ UNCHANGED vars =>
         UNCHANGED <<outgoing, carried, queue, socket, inbox, sent, got>>
  BY DEF Submit, Hang, vars
<1> QED
  BY <1>1, <1>2, PipeCases, EmitFlows, TakeOutgoingFlows, SendToPeerFlows,
     PeerWriterFlows, PeerReaderFlows, ReceiveFlows

-----------------------------------------------------------------------------
(* What the handlers answer *)

\* Short sequences.
LEMMA AppendIs ==
    ASSUME NEW S, NEW x \in Seq(S), NEW e \in S, NEW z \in Seq(S),
           Len(z) = Len(x) + 1, \A i \in 1 .. Len(x) : z[i] = x[i], z[Len(x) + 1] = e
    PROVE  Append(x, e) = z
<1> DEFINE l == Append(x, e)
<1>1. /\ l \in Seq(S) /\ Len(l) = Len(x) + 1
      /\ \A i \in 1 .. Len(x) : l[i] = x[i]
      /\ l[Len(x) + 1] = e
  BY AppendTyped
<1>2. Len(x) \in Nat
  BY LenProperties
<1> HIDE DEF l
<1>3. \A i \in 1 .. Len(l) : l[i] = z[i]
  BY <1>1, <1>2
<1>4. l = z
  BY <1>1, <1>3, SeqEqual
<1> QED
  BY <1>4 DEF l

LEMMA AppendThird ==
    ASSUME NEW a, NEW b, NEW c
    PROVE  Append(<< a, b >>, c) = << a, b, c >>
<1> DEFINE S == {a, b, c}
           x == << a, b >>
           z == << a, b, c >>
<1>1. /\ c \in S /\ x \in Seq(S) /\ z \in Seq(S) /\ Len(x) = 2 /\ Len(z) = 3
      /\ z[1] = x[1] /\ z[2] = x[2] /\ z[3] = c
  OBVIOUS
<1> HIDE DEF S, x, z
<1>2. /\ Len(z) = Len(x) + 1 /\ z[Len(x) + 1] = c
      /\ \A i \in 1 .. Len(x) : z[i] = x[i]
  BY <1>1
<1>3. Append(x, c) = z
  BY <1>1, <1>2, AppendIs
<1> QED
  BY <1>3, Zenon DEF x, z

LEMMA CatFirst ==
    ASSUME NEW S, NEW a \in S, NEW y \in Seq(S), NEW z \in Seq(S),
           Len(z) = Len(y) + 1, z[1] = a, \A i \in 1 .. Len(y) : z[i + 1] = y[i]
    PROVE  << a >> \o y = z
<1> DEFINE x == << a >>
           l == x \o y
<1>1. x \in Seq(S) /\ Len(x) = 1 /\ x[1] = a
  OBVIOUS
<1> HIDE DEF x
<1>2. /\ l \in Seq(S) /\ Len(l) = 1 + Len(y)
      /\ \A i \in 1 .. 1 + Len(y) : l[i] = IF i <= 1 THEN x[i] ELSE y[i - 1]
  <2>1. /\ l \in Seq(S) /\ Len(l) = Len(x) + Len(y)
        /\ \A i \in 1 .. Len(x) + Len(y) :
              l[i] = IF i <= Len(x) THEN x[i] ELSE y[i - Len(x)]
    BY <1>1, ConcatProperties
  <2> HIDE DEF l
  <2> QED
    BY <1>1, <2>1
<1> HIDE DEF l
<1>3. ASSUME NEW i \in 1 .. Len(l) PROVE l[i] = z[i]
  <2>1. Len(y) \in Nat
    BY LenProperties
  <2>2. CASE i = 1
    BY <1>1, <1>2, <2>1, <2>2
  <2>3. CASE i # 1
    <3>1. i - 1 \in 1 .. Len(y) /\ i \in 1 .. 1 + Len(y) /\ ~(i <= 1) /\ (i - 1) + 1 = i
      BY <1>2, <2>1, <2>3
    <3> QED
      BY <1>2, <3>1
  <2> QED
    BY <2>2, <2>3
<1>4. Len(l) = Len(z)
  <2>1. Len(y) \in Nat
    BY LenProperties
  <2> QED
    BY <1>2, <2>1
<1>5. l = z
  BY <1>2, <1>3, <1>4, SeqEqual
<1> QED
  BY <1>5 DEF l, x

LEMMA CatFirstOfFour ==
    ASSUME NEW a, NEW b, NEW c, NEW d
    PROVE  /\ << a >> \o << b, c >> = << a, b, c >>
           /\ << a >> \o << b, c, d >> = << a, b, c, d >>
<1> DEFINE S == {a, b, c, d}
<1>1. << a >> \o << b, c >> = << a, b, c >>
  <2> DEFINE y == << b, c >>
             z == << a, b, c >>
  <2>1. /\ a \in S /\ y \in Seq(S) /\ z \in Seq(S) /\ Len(y) = 2 /\ Len(z) = 3
        /\ z[1] = a /\ z[2] = y[1] /\ z[3] = y[2]
    OBVIOUS
  <2> HIDE DEF S, y, z
  <2>2. Len(z) = Len(y) + 1 /\ \A i \in 1 .. Len(y) : z[i + 1] = y[i]
    BY <2>1
  <2>3. << a >> \o y = z
    BY <2>1, <2>2, CatFirst
  <2> QED
    BY <2>3, Zenon DEF y, z
<1>2. << a >> \o << b, c, d >> = << a, b, c, d >>
  <2> DEFINE y == << b, c, d >>
             z == << a, b, c, d >>
  <2>1. /\ a \in S /\ y \in Seq(S) /\ z \in Seq(S) /\ Len(y) = 3 /\ Len(z) = 4
        /\ z[1] = a /\ z[2] = y[1] /\ z[3] = y[2] /\ z[4] = y[3]
    OBVIOUS
  <2> HIDE DEF S, y, z
  <2>2. Len(z) = Len(y) + 1 /\ \A i \in 1 .. Len(y) : z[i + 1] = y[i]
    BY <2>1
  <2>3. << a >> \o y = z
    BY <2>1, <2>2, CatFirst
  <2> QED
    BY <2>3, Zenon DEF y, z
<1> QED
  BY <1>1, <1>2

\* A handler that sends no Request.
Quiet(answer) == \A i \in DOMAIN answer : answer[i].message.type # "Request"

LEMMA VotesQuiet ==
    ASSUME NEW n, NEW s
    PROVE  Quiet(Votes(n, s))
<1> DEFINE pair == << Broadcast(n, Msg("Prepare", s)), Broadcast(n, Msg("Commit", s)) >>
           last == Broadcast(n, Msg("Checkpoint", s))
<1>1. Quiet(pair) /\ Len(pair) = 2
  BY DEF Quiet, Broadcast, Msg
<1>2. Append(pair, last) = << Broadcast(n, Msg("Prepare", s)),
                             Broadcast(n, Msg("Commit", s)), last >>
  BY AppendThird
<1>3. Quiet(Append(pair, last))
  BY <1>2 DEF Quiet, Broadcast, Msg
<1> QED
  <2> HIDE DEF pair, last
  <2>1. Votes(n, s) = IF s % Interval = 0 THEN Append(pair, last) ELSE pair
    BY Zenon DEF Votes, pair, last
  <2> QED
    BY <1>1, <1>3, <2>1

\* Only the primary gets Requests and orders, and only the others PrePrepares.
LEMMA ReceiveCases ==
    ASSUME PipeInv, NEW n \in Node, Receive(n)
    PROVE  LET m == Head(inbox[n]).message
           IN  \/ /\ n = Primary /\ m.type = "Request" /\ Ordering(Primary)
                  /\ stable' = stable
               \/ /\ n # Primary /\ m.type = "PrePrepare"
                  /\ \E answer \in {<< >>, Votes(n, m.sequence)} :
                        Quiet(answer) /\ todo' = [todo EXCEPT ![n] = answer]
                  /\ sequence' = sequence /\ stable' = stable
               \/ /\ m.type = "Checkpoint"
                  /\ todo' = todo /\ sequence' = sequence
                  /\ stable' = [stable EXCEPT ![n] =
                         IF m.sequence > stable[n] THEN m.sequence ELSE stable[n]]
               \/ /\ m.type \in {"Prepare", "Commit"}
                  /\ todo' = todo /\ sequence' = sequence /\ stable' = stable
<1> DEFINE next == Head(inbox[n])
           m == next.message
<1>1. inbox[n] # << >> /\ ProcessMessage(n, m)
  BY DEF Receive
<1>2. next.from # n /\ m \in MessageOn(next.from, n)
  BY <1>1, NextReceived
<1> HIDE DEF next
<1>3. CASE m.type = "Request"
  <2>1. n = Primary
    BY <1>2, <1>3 DEF MessageOn
  <2>2. HandleRequest(n)
    BY <1>1, <1>3 DEF ProcessMessage
  <2>3. Ordering(Primary) /\ stable' = stable
    BY <2>1, <2>2 DEF HandleRequest
  <2> QED
    BY <1>3, <2>1, <2>3 DEF next
<1>4. CASE m.type = "PrePrepare"
  <2> DEFINE s == m.sequence
             votes == Votes(n, s)
             answer == IF stable[n] < s /\ s <= stable[n] + Window THEN votes ELSE << >>
  <2>1. /\ todo' = [todo EXCEPT ![n] = answer]
        /\ sequence' = sequence /\ stable' = stable
    BY <1>1, <1>4 DEF ProcessMessage, HandlePrePrepare
  <2>2. n # Primary
    BY <1>2, <1>4 DEF MessageOn
  <2>3. Quiet(votes) /\ Quiet(<< >>)
    BY VotesQuiet DEF Quiet
  <2> HIDE DEF votes
  <2>4. answer \in {<< >>, votes} /\ Quiet(answer)
    BY <2>3
  <2> HIDE DEF answer
  <2> QED
    BY <1>4, <2>1, <2>2, <2>4 DEF next, votes
<1>5. CASE m.type = "Checkpoint"
  BY <1>1, <1>5 DEF ProcessMessage, HandleCheckpoint, next
<1>6. CASE m.type \in {"Prepare", "Commit"}
  BY <1>1, <1>6 DEF ProcessMessage, next
<1> QED
  BY <1>1, <1>3, <1>4, <1>5, <1>6 DEF ProcessMessage, next

\* The place of a message of the primary in the order in which it sends them:
\* four for each number, in the order of ordering, voting and announcing.
Rank(type) == IF type = "PrePrepare" THEN 0
              ELSE IF type = "Prepare" THEN 1
              ELSE IF type = "Commit" THEN 2 ELSE 3
Number(out) == out.message.sequence
Key(out) == 4 * Number(out) + Rank(out.message.type)

\* The messages of a handler that orders s are the next in that order.
Orders(answer, s) ==
    /\ Quiet(answer)
    /\ Len(answer) \in {3, 4}
    /\ \A k \in 1 .. Len(answer) : /\ Number(answer[k]) = s
                                   /\ Key(answer[k]) = 4 * s + (k - 1)

LEMMA OrderingOrders ==
    ASSUME NEW n, NEW s \in Nat
    PROVE  Orders(<< Broadcast(n, Msg("PrePrepare", s)) >> \o Votes(n, s), s)
<1> DEFINE a == Broadcast(n, Msg("PrePrepare", s))
           b == Broadcast(n, Msg("Prepare", s))
           c == Broadcast(n, Msg("Commit", s))
           d == Broadcast(n, Msg("Checkpoint", s))
           l == << a >> \o Votes(n, s)
<1>1. l = IF s % Interval = 0 THEN << a, b, c, d >> ELSE << a, b, c >>
  <2> HIDE DEF a, b, c, d
  <2>1. Votes(n, s) = IF s % Interval = 0 THEN << b, c, d >> ELSE << b, c >>
    <3>1. Votes(n, s) = IF s % Interval = 0 THEN Append(<< b, c >>, d) ELSE << b, c >>
      BY Zenon DEF Votes, b, c, d
    <3>2. Append(<< b, c >>, d) = << b, c, d >>
      BY AppendThird
    <3> QED
      BY <3>1, <3>2, Zenon
  <2>2. << a >> \o << b, c, d >> = << a, b, c, d >> /\ << a >> \o << b, c >> = << a, b, c >>
    BY CatFirstOfFour
  <2> QED
    BY <2>1, <2>2, Zenon
<1>2. /\ Number(a) = s /\ Key(a) = 4 * s + 0 /\ a.message.type # "Request"
      /\ Number(b) = s /\ Key(b) = 4 * s + 1 /\ b.message.type # "Request"
      /\ Number(c) = s /\ Key(c) = 4 * s + 2 /\ c.message.type # "Request"
      /\ Number(d) = s /\ Key(d) = 4 * s + 3 /\ d.message.type # "Request"
  BY DEF Broadcast, Msg, Number, Key, Rank
<1> HIDE DEF a, b, c, d
<1>3. Orders(<< a, b, c, d >>, s)
  <2>1. Quiet(<< a, b, c, d >>)
    BY <1>2 DEF Quiet
  <2> QED
    BY <1>2, <2>1 DEF Orders
<1>4. Orders(<< a, b, c >>, s)
  <2>1. Quiet(<< a, b, c >>)
    BY <1>2 DEF Quiet
  <2> QED
    BY <1>2, <2>1 DEF Orders
<1>5. Orders(l, s)
  <2> HIDE DEF l
  <2> QED
    BY <1>1, <1>3, <1>4
<1> QED
  BY <1>5 DEF a

\* What the primary orders and refuses.
LEMMA OrderingCases ==
    ASSUME PipeInv, Ordering(Primary)
    PROVE  /\ sequence' = sequence + 1
           /\ \E answer : /\ Quiet(answer)
                          /\ todo' = [todo EXCEPT ![Primary] = answer]
                          /\ todo'[Primary] = answer
                          /\ \/ answer = << >>
                             \/ /\ Orders(answer, sequence + 1)
                                /\ sequence + 1 <= stable[Primary] + Window
<1> DEFINE s == sequence + 1
           answer == << Broadcast(Primary, Msg("PrePrepare", s)) >> \o Votes(Primary, s)
<1>1. /\ Primary \in DOMAIN todo /\ s \in Nat
      /\ stable[Primary] \in Nat /\ Window \in Nat
  BY PipelineAssumption DEF PipeInv, PipeTyped, Window
<1>2. sequence' = s
  BY DEF Ordering
<1>3. CASE Refused(s)
  <2>1. todo' = [todo EXCEPT ![Primary] = << >>]
    BY <1>3 DEF Ordering
  <2>2. Quiet(<< >>)
    BY DEF Quiet
  <2> QED
    BY <1>1, <1>2, <2>1, <2>2
<1>4. CASE ~Refused(s)
  <2>1. todo' = [todo EXCEPT ![Primary] = answer]
    BY <1>4 DEF Ordering
  <2>2. Orders(answer, s)
    BY <1>1, OrderingOrders
  <2>3. s <= stable[Primary] + Window
    BY <1>1, <1>4 DEF Refused
  <2> HIDE DEF answer
  <2> QED
    BY <1>1, <1>2, <2>1, <2>2, <2>3 DEF Orders
<1> QED
  BY <1>3, <1>4

-----------------------------------------------------------------------------
(* The requests and the primary's counter *)

\* The handlers with a Request yet to send.  They send nothing else.
Waiting == {n \in Node : ~ Quiet(todo[n])}

RequestAlone == \A n \in Node : Quiet(todo[n]) \/ Len(todo[n]) = 1

\* Where the Requests are among the messages of a log that went to the primary.
Requests(log) ==
    {x \in Node \X Nat : /\ x[2] \in DOMAIN log[<<x[1], Primary>>]
                         /\ log[<<x[1], Primary>>][x[2]].type = "Request"}

\* The Requests on their way.
Pending == Requests(sent) \ Requests(got)

\* Every request of a client is waiting, on its way, or numbered.
CountInv ==
    /\ RequestAlone
    /\ IsFiniteSet(Waiting) /\ IsFiniteSet(Pending)
    /\ submits = sequence + Cardinality(Pending) + Cardinality(Waiting)

LEMMA RequestsSame ==
    ASSUME NEW log, NEW longer,
           \A k \in Node : longer[<<k, Primary>>] = log[<<k, Primary>>]
    PROVE  Requests(longer) = Requests(log)
BY DEF Requests

\* The place of the next message of n in a log, and the log longer by it.
Place(log, n) == <<n, Len(log[<<n, Primary>>]) + 1>>

Longer(log, longer, n, m) ==
    /\ log[<<n, Primary>>] \in Seq(Message)
    /\ longer[<<n, Primary>>] = Append(log[<<n, Primary>>], m)
    /\ \A k \in Node \ {n} : longer[<<k, Primary>>] = log[<<k, Primary>>]

LEMMA RequestsAppend ==
    ASSUME NEW log, NEW longer, NEW n \in Node, NEW m \in Message,
           Longer(log, longer, n, m)
    PROVE  /\ Place(log, n) \notin Requests(log)
           /\ Requests(longer) = IF m.type = "Request"
                                 THEN Requests(log) \cup {Place(log, n)}
                                 ELSE Requests(log)
<1> USE DEF Longer
<1> DEFINE s == log[<<n, Primary>>]
           t == longer[<<n, Primary>>]
           place == <<n, Len(s) + 1>>
<1>1. /\ Len(s) \in Nat /\ Len(t) = Len(s) + 1
      /\ DOMAIN s = 1 .. Len(s) /\ DOMAIN t = 1 .. Len(t)
      /\ \A i \in 1 .. Len(s) : t[i] = s[i]
      /\ t[Len(s) + 1] = m
  <2>1. s \in Seq(Message) /\ t = Append(s, m)
    OBVIOUS
  <2> HIDE DEF s, t
  <2> QED
    BY <2>1, AppendTyped, LenProperties
<1>2. \A i \in Nat : /\ <<n, i>> \in Requests(log) <=>
                           i \in DOMAIN s /\ s[i].type = "Request"
                     /\ <<n, i>> \in Requests(longer) <=>
                           i \in DOMAIN t /\ t[i].type = "Request"
  BY DEF Requests
<1>3. \A k \in Node \ {n}, i \in Nat : <<k, i>> \in Requests(log) <=> <<k, i>> \in Requests(longer)
  BY DEF Requests
<1>4. Requests(log) \subseteq Node \X Nat /\ Requests(longer) \subseteq Node \X Nat
  BY DEF Requests
<1> HIDE DEF s, t
<1>5. Len(s) + 1 \in Nat /\ Len(s) + 1 \notin DOMAIN s
  BY <1>1
<1>6. place \notin Requests(log)
  BY <1>2, <1>5
<1>7. \A i \in Nat : i \in DOMAIN t <=> i \in DOMAIN s \/ i = Len(s) + 1
  BY <1>1
<1>8. \A i \in DOMAIN s : t[i] = s[i]
  BY <1>1
<1>9. \A k \in Node, i \in Nat :
         <<k, i>> \in Requests(longer) <=>
            <<k, i>> \in Requests(log) \/ (<<k, i>> = place /\ m.type = "Request")
  <2> SUFFICES ASSUME NEW k \in Node, NEW i \in Nat
               PROVE  <<k, i>> \in Requests(longer) <=>
                         <<k, i>> \in Requests(log) \/ (<<k, i>> = place /\ m.type = "Request")
    OBVIOUS
  <2>1. CASE k # n
    BY <1>3, <2>1
  <2>2. CASE k = n /\ i = Len(s) + 1
    BY <1>1, <1>2, <1>5, <1>7, <2>2
  <2>3. CASE k = n /\ i # Len(s) + 1
    BY <1>2, <1>7, <1>8, <2>3
  <2> QED
    BY <2>1, <2>2, <2>3
<1>10. place \in Node \X Nat
  BY <1>5
<1> HIDE DEF place
<1>11. Requests(longer) = IF m.type = "Request" THEN Requests(log) \cup {place}
                          ELSE Requests(log)
  <2> DEFINE older == Requests(log)
             newer == Requests(longer)
  <2>1. \A x \in Node \X Nat :
           x \in newer <=> x \in older \/ (x = place /\ m.type = "Request")
    BY <1>9
  <2>2. older \subseteq Node \X Nat /\ newer \subseteq Node \X Nat
    BY <1>4
  <2> HIDE DEF older, newer
  <2>3. CASE m.type = "Request"
    <3>1. newer = older \cup {place}
      BY <1>10, <2>1, <2>2, <2>3
    <3> QED
      BY <2>3, <3>1 DEF older, newer
  <2>4. CASE m.type # "Request"
    <3>1. newer = older
      BY <2>1, <2>2, <2>4
    <3> QED
      BY <2>4, <3>1 DEF older, newer
  <2> QED
    BY <2>3, <2>4
<1> QED
  BY <1>6, <1>11 DEF place, s, Place

\* Nothing is received that has not been sent.
LEMMA GotWithinSent ==
    ASSUME PipeInv, FlowInv, NEW n \in Node, NEW m \in Node
    PROVE  /\ Len(got[<<n, m>>]) \in Nat /\ Len(sent[<<n, m>>]) \in Nat
           /\ Len(got[<<n, m>>]) <= Len(sent[<<n, m>>])
<1>1. PICK a \in Seq(Message), b \in Seq(Message) : FlowBy(n, m, a, b)
  BY FlowParts
<1> DEFINE z == Cat(socket[n][m], Cat(queue[n][m], Cat(CarriedTo(n, m), b)))
           g == got[<<n, m>>]
<1>2. z \in Seq(Message) /\ g \in Seq(Message)
  <2>1. /\ Queue(socket[n][m]) /\ Queue(queue[n][m]) /\ Queue(CarriedTo(n, m))
        /\ Queue(g) /\ Queue(b)
    BY <1>1, FlowTypes DEF FlowBy
  <2>2. Queue(z)
    BY <2>1, CatTyped
  <2> QED
    BY <2>1, <2>2 DEF Queue
<1>3. sent[<<n, m>>] = g \o (a \o z)
  BY <1>1, Zenon DEF FlowBy, Channel, Cat
<1> HIDE DEF z, g
<1>4. a \o z \in Seq(Message)
  BY <1>2, ConcatProperties
<1>5. /\ Len(g \o (a \o z)) = Len(g) + Len(a \o z)
      /\ Len(a \o z) \in Nat /\ Len(g) \in Nat
  BY <1>2, <1>4, ConcatProperties, LenProperties
<1>6. Len(g) + Len(a \o z) \in Nat /\ Len(g) <= Len(g) + Len(a \o z)
  BY <1>5
<1>7. Len(sent[<<n, m>>]) \in Nat /\ Len(g) <= Len(sent[<<n, m>>])
  BY <1>3, <1>5, <1>6
<1> QED
  BY <1>5, <1>7 DEF g

LEMMA CountInit == Init => CountInv
<1> SUFFICES ASSUME Init PROVE CountInv
  OBVIOUS
<1>1. \A n \in Node : Quiet(todo[n])
  BY DEF Init, Quiet
<1>2. Waiting = {} /\ RequestAlone
  BY <1>1 DEF Waiting, RequestAlone
<1>3. Pending = {}
  BY DEF Init, Pending
<1>4. IsFiniteSet({}) /\ Cardinality({}) = 0
  BY FS_EmptySet
<1> QED
  BY <1>2, <1>3, <1>4 DEF Init, CountInv

\* A handler's answer makes its node wait with a Request or not.
LEMMA WaitingAfter ==
    ASSUME PipeInv, NEW n \in Node, NEW answer,
           todo' = [todo EXCEPT ![n] = answer]
    PROVE  /\ Waiting' = IF Quiet(answer) THEN Waiting \ {n} ELSE Waiting \cup {n}
           /\ RequestAlone /\ (Quiet(answer) \/ Len(answer) = 1) => RequestAlone'
<1>1. \A m \in Node : todo'[m] = IF m = n THEN answer ELSE todo[m]
  BY DEF PipeInv, PipeTyped
<1>2. \A m \in Node \ {n} : Quiet(todo'[m]) <=> Quiet(todo[m])
  BY <1>1
<1>3. Quiet(todo'[n]) <=> Quiet(answer)
  BY <1>1
<1>4. Waiting' = IF Quiet(answer) THEN Waiting \ {n} ELSE Waiting \cup {n}
  BY <1>2, <1>3 DEF Waiting
<1>5. RequestAlone /\ (Quiet(answer) \/ Len(answer) = 1) => RequestAlone'
  BY <1>1 DEF RequestAlone
<1> QED
  BY <1>4, <1>5

LEMMA IdleIsQuiet ==
    ASSUME NEW n \in Node, todo[n] = << >>
    PROVE  n \notin Waiting
BY DEF Waiting, Quiet

LEMMA CountTypes ==
    ASSUME PipeInv, CountInv
    PROVE  /\ sequence \in Nat /\ submits \in Nat
           /\ Cardinality(Pending) \in Nat /\ Cardinality(Waiting) \in Nat
<1>1. Cardinality(Pending) \in Nat /\ Cardinality(Waiting) \in Nat
  BY FS_CardinalityType DEF CountInv
<1>2. sequence \in Nat /\ submits \in 0 .. MaxSubmits /\ MaxSubmits \in Nat
  BY PipelineAssumption DEF PipeInv, PipeTyped
<1> QED
  BY <1>1, <1>2

LEMMA SubmitCounts ==
    ASSUME PipeInv, CountInv, NEW n \in Node, Submit(n)
    PROVE  CountInv'
<1>1. /\ todo[n] = << >> /\ submits' = submits + 1 /\ Pending' = Pending
      /\ HandleRequest(n)
  BY DEF Submit, Pending
<1>2. n \notin Waiting
  BY <1>1, IdleIsQuiet
<1>3. CASE n = Primary
  <2>1. PICK answer : /\ Quiet(answer) /\ todo' = [todo EXCEPT ![n] = answer]
                      /\ sequence' = sequence + 1
    <3>1. Ordering(Primary)
      BY <1>1, <1>3 DEF HandleRequest
    <3> QED
      BY <1>3, <3>1, OrderingCases
  <2>2. Waiting' = Waiting /\ RequestAlone'
    BY <1>2, <2>1, WaitingAfter DEF CountInv
  <2> QED
    BY <1>1, <2>1, <2>2, CountTypes DEF CountInv
<1>4. CASE n # Primary
  <2> DEFINE answer == <<SendTo(Primary, [type |-> "Request"])>>
  <2>1. todo' = [todo EXCEPT ![n] = answer] /\ sequence' = sequence
    BY <1>1, <1>4 DEF HandleRequest
  <2>2. Len(answer) = 1 /\ ~ Quiet(answer)
    BY DEF Quiet, SendTo
  <2> HIDE DEF answer
  <2>3. Waiting' = Waiting \cup {n} /\ RequestAlone'
    BY <2>1, <2>2, WaitingAfter DEF CountInv
  <2>4. IsFiniteSet(Waiting') /\ Cardinality(Waiting') = Cardinality(Waiting) + 1
    BY <1>2, <2>3, FS_AddElement DEF CountInv
  <2> QED
    BY <1>1, <2>1, <2>3, <2>4, CountTypes DEF CountInv
<1> QED
  BY <1>3, <1>4

LEMMA ReceiveCounts ==
    ASSUME PipeInv, FlowInv, CountInv, NEW n \in Node, Receive(n)
    PROVE  CountInv'
<1> DEFINE next == Head(inbox[n])
           p == next.from
           m == next.message
           place == Place(got, p)
<1>1. /\ todo[n] = << >> /\ submits' = submits /\ sent' = sent /\ inbox[n] # << >>
      /\ got' = [got EXCEPT ![<<p, n>>] = Append(got[<<p, n>>], m)]
  BY DEF Receive
<1>2. p \in Node /\ m \in Message
  BY <1>1, NextReceived
<1>3. n \notin Waiting
  BY <1>1, IdleIsQuiet
<1>4. got \in [Node \X Node -> Seq(Message)] /\ Primary \in Node
  BY PipelineAssumption DEF PipeInv, PipeTyped
<1>5. /\ Len(got[<<p, n>>]) < Len(sent[<<p, n>>])
      /\ sent[<<p, n>>][Len(got[<<p, n>>]) + 1] = m
  BY <1>1, ReceivedIsNext
<1>6. \/ n = Primary /\ m.type = "Request" /\ Ordering(Primary)
      \/ /\ n # Primary /\ sequence' = sequence
         /\ \E answer : Quiet(answer) /\ todo' = [todo EXCEPT ![n] = answer]
      \/ m.type # "Request" /\ todo' = todo /\ sequence' = sequence
  BY ReceiveCases
<1> HIDE DEF next
<1>7. CASE n = Primary
  <2>1. /\ place \notin Requests(got)
        /\ Requests(got') = IF m.type = "Request" THEN Requests(got) \cup {place}
                            ELSE Requests(got)
    <3>1. got'[<<p, Primary>>] = Append(got[<<p, Primary>>], m)
      BY <1>1, <1>2, <1>4, <1>7
    <3>2. \A k \in Node \ {p} : got'[<<k, Primary>>] = got[<<k, Primary>>]
      BY <1>1, <1>2, <1>4, <1>7
    <3>3. got[<<p, Primary>>] \in Seq(Message)
      BY <1>2, <1>4
    <3> HIDE DEF p, m
    <3>4. Longer(got, got', p, m)
      BY <3>1, <3>2, <3>3 DEF Longer
    <3> QED
      BY <1>2, <3>4, RequestsAppend
  <2>2. CASE m.type = "Request"
    <3>1. place \in Requests(sent)
      <4>1. Len(got[<<p, n>>]) \in Nat /\ Len(sent[<<p, n>>]) \in Nat
        BY <1>2, GotWithinSent
      <4>2. sent[<<p, n>>] \in Seq(Message)
        BY <1>2 DEF PipeInv, PipeTyped
      <4>3. Len(got[<<p, n>>]) + 1 \in DOMAIN sent[<<p, n>>]
        BY <1>5, <4>1, <4>2
      <4> HIDE DEF p, m
      <4> QED
        BY <1>2, <1>5, <1>7, <2>2, <4>1, <4>3 DEF Requests, Place
    <3>2. place \in Pending /\ Pending' = Pending \ {place}
      BY <1>1, <2>1, <2>2, <3>1 DEF Pending
    <3> HIDE DEF place
    <3>3. IsFiniteSet(Pending') /\ Cardinality(Pending') = Cardinality(Pending) - 1
      BY <3>2, FS_RemoveElement DEF CountInv
    <3>4. Ordering(Primary)
      <4>1. m.type = "Request" /\ ProcessMessage(n, m)
        BY <2>2 DEF Receive, next
      <4> QED
        BY <1>7, <4>1 DEF ProcessMessage, HandleRequest
    <3>5. PICK answer : /\ Quiet(answer) /\ todo' = [todo EXCEPT ![n] = answer]
                        /\ sequence' = sequence + 1
      BY <1>7, <3>4, OrderingCases
    <3>6. Waiting' = Waiting /\ RequestAlone'
      BY <1>3, <3>5, WaitingAfter DEF CountInv
    <3> QED
      BY <1>1, <3>3, <3>5, <3>6, CountTypes DEF CountInv
  <2>3. CASE m.type # "Request"
    <3>1. todo' = todo /\ sequence' = sequence
      BY <1>6, <1>7, <2>3
    <3>2. Waiting' = Waiting /\ RequestAlone' = RequestAlone
      BY <3>1 DEF Waiting, RequestAlone
    <3>3. Pending' = Pending
      BY <1>1, <2>1, <2>3 DEF Pending
    <3> QED
      BY <1>1, <3>1, <3>2, <3>3 DEF CountInv
  <2> QED
    BY <2>2, <2>3
<1>8. CASE n # Primary
  <2>1. \A k \in Node : got'[<<k, Primary>>] = got[<<k, Primary>>]
    BY <1>1, <1>2, <1>4, <1>8
  <2>2. Requests(got') = Requests(got)
    BY <2>1, RequestsSame
  <2>3. Pending' = Pending
    BY <1>1, <2>2 DEF Pending
  <2>4. sequence' = sequence /\ Waiting' = Waiting /\ RequestAlone'
    <3>1. CASE todo' = todo /\ sequence' = sequence
      BY <3>1 DEF Waiting, RequestAlone, CountInv
    <3>2. ASSUME sequence' = sequence,
                 NEW answer, Quiet(answer), todo' = [todo EXCEPT ![n] = answer]
          PROVE  sequence' = sequence /\ Waiting' = Waiting /\ RequestAlone'
      BY <1>3, <3>2, WaitingAfter DEF CountInv
    <3> QED
      BY <1>6, <1>8, <3>1, <3>2
  <2> QED
    BY <1>1, <2>3, <2>4 DEF CountInv
<1> QED
  BY <1>7, <1>8

LEMMA EmitCounts ==
    ASSUME PipeInv, FlowInv, CountInv, NEW n \in Node, Emit(n)
    PROVE  CountInv'
<1> DEFINE next == Head(todo[n])
           m == next.message
           rest == Tail(todo[n])
           place == Place(sent, n)
<1>1. /\ todo[n] # << >> /\ got' = got /\ sequence' = sequence /\ submits' = submits
      /\ sent' = [l \in Node \X Node |->
                     IF l[1] = n /\ IsFor(l[2], next) THEN Append(sent[l], m) ELSE sent[l]]
      /\ todo' = [todo EXCEPT ![n] = rest]
  BY DEF Emit
<1>2. /\ todo[n] \in Seq(OutgoingOf(n)) /\ todo[n] \in Seq(Outgoing)
      /\ sent \in [Node \X Node -> Seq(Message)] /\ Primary \in Node
  BY PipelineAssumption DEF PipeInv, PipeTyped, Routed
<1>3. /\ next \in OutgoingOf(n) /\ next = todo[n][1] /\ rest \in Seq(Outgoing)
      /\ Len(todo[n]) \in Nat \ {0} /\ Len(rest) = Len(todo[n]) - 1
      /\ \A i \in 1 .. Len(rest) : rest[i] = todo[n][i + 1]
  BY <1>1, <1>2, HeadTailTyped
<1>4. m \in Message
  BY <1>3 DEF OutgoingOf, Outgoing
<1>5. DOMAIN todo[n] = 1 .. Len(todo[n]) /\ DOMAIN rest = 1 .. Len(rest)
  BY <1>2, <1>3
<1> HIDE DEF next, rest
<1>6. \A k \in Node \ {n} : sent'[<<k, Primary>>] = sent[<<k, Primary>>]
  BY <1>1, <1>2
<1>7. sent'[<<n, Primary>>] = IF IsFor(Primary, next)
                              THEN Append(sent[<<n, Primary>>], m) ELSE sent[<<n, Primary>>]
  BY <1>1, <1>2
<1>8. sent[<<n, Primary>>] \in Seq(Message)
  BY <1>2
<1> HIDE DEF m
<1>9. sent'[<<n, Primary>>] = Append(sent[<<n, Primary>>], m) =>
         /\ place \notin Requests(sent)
         /\ Requests(sent') = IF m.type = "Request" THEN Requests(sent) \cup {place}
                              ELSE Requests(sent)
  <2> SUFFICES ASSUME sent'[<<n, Primary>>] = Append(sent[<<n, Primary>>], m)
               PROVE  /\ place \notin Requests(sent)
                      /\ Requests(sent') = IF m.type = "Request"
                                           THEN Requests(sent) \cup {place}
                                           ELSE Requests(sent)
    OBVIOUS
  <2>1. Longer(sent, sent', n, m)
    BY <1>6, <1>8 DEF Longer
  <2> QED
    BY <1>4, <2>1, RequestsAppend
<1>10. CASE m.type = "Request"
  <2>1. next.to = <<Primary>>
    BY <1>3, <1>10 DEF OutgoingOf, m
  <2>2. IsFor(Primary, next)
    BY <2>1 DEF IsFor
  <2>3. /\ place \notin Requests(sent)
        /\ Requests(sent') = Requests(sent) \cup {place}
    <3>1. sent'[<<n, Primary>>] = Append(sent[<<n, Primary>>], m)
      BY <1>7, <2>2
    <3> QED
      BY <1>10, <1>9, <3>1
  <2>4. place \notin Requests(got)
    <3>1. /\ Len(got[<<n, Primary>>]) \in Nat /\ Len(sent[<<n, Primary>>]) \in Nat
          /\ Len(got[<<n, Primary>>]) <= Len(sent[<<n, Primary>>])
      BY <1>2, GotWithinSent
    <3>2. got[<<n, Primary>>] \in Seq(Message)
      BY <1>2 DEF PipeInv, PipeTyped
    <3>3. Len(sent[<<n, Primary>>]) + 1 \notin DOMAIN got[<<n, Primary>>]
      BY <3>1, <3>2
    <3> QED
      BY <3>3 DEF Requests, Place
  <2>5. place \notin Pending /\ Pending' = Pending \cup {place}
    BY <1>1, <2>3, <2>4 DEF Pending
  <2> HIDE DEF place
  <2>6. IsFiniteSet(Pending') /\ Cardinality(Pending') = Cardinality(Pending) + 1
    BY <2>5, FS_AddElement DEF CountInv
  <2>7. ~ Quiet(todo[n])
    BY <1>3, <1>5, <1>10 DEF Quiet, m
  <2>8. Len(todo[n]) = 1
    BY <2>7 DEF CountInv, RequestAlone
  <2>9. Len(rest) = 0
    BY <1>3, <2>8
  <2>10. Quiet(rest)
    BY <1>5, <2>9 DEF Quiet
  <2>11. n \in Waiting /\ Waiting' = Waiting \ {n} /\ RequestAlone'
    BY <1>1, <2>7, <2>10, WaitingAfter DEF Waiting, CountInv
  <2>12. IsFiniteSet(Waiting') /\ Cardinality(Waiting') = Cardinality(Waiting) - 1
    BY <2>11, FS_RemoveElement DEF CountInv
  <2> QED
    BY <1>1, <2>6, <2>11, <2>12, CountTypes DEF CountInv
<1>11. CASE m.type # "Request"
  <2>1. Requests(sent') = Requests(sent)
    <3>1. CASE IsFor(Primary, next)
      <4>1. sent'[<<n, Primary>>] = Append(sent[<<n, Primary>>], m)
        BY <1>7, <3>1
      <4> QED
        BY <1>11, <1>9, <4>1
    <3>2. CASE ~ IsFor(Primary, next)
      <4>1. \A k \in Node : sent'[<<k, Primary>>] = sent[<<k, Primary>>]
        BY <1>6, <1>7, <3>2
      <4> QED
        BY <4>1, RequestsSame
    <3> QED
      BY <3>1, <3>2
  <2>2. Pending' = Pending
    BY <1>1, <2>1 DEF Pending
  <2>3. Quiet(todo[n])
    <3>1. CASE Len(todo[n]) = 1
      BY <1>3, <1>5, <1>11, <3>1 DEF Quiet, m
    <3> QED
      BY <3>1 DEF CountInv, RequestAlone
  <2>4. Quiet(rest)
    <3> SUFFICES ASSUME NEW i \in 1 .. Len(rest) PROVE rest[i].message.type # "Request"
      BY <1>5 DEF Quiet
    <3>1. i + 1 \in DOMAIN todo[n]
      BY <1>3, <1>5
    <3> QED
      BY <1>3, <2>3, <3>1 DEF Quiet
  <2>5. n \notin Waiting /\ Waiting' = Waiting /\ RequestAlone'
    BY <1>1, <2>3, <2>4, WaitingAfter DEF Waiting, CountInv
  <2> QED
    BY <1>1, <2>2, <2>5 DEF CountInv
<1> QED
  BY <1>10, <1>11

LEMMA CountStep == PipeInv /\ FlowInv /\ CountInv /\ [Next]_vars => CountInv'
<1> SUFFICES ASSUME PipeInv, FlowInv, CountInv, [Next]_vars PROVE CountInv'
  OBVIOUS
<1>1. ASSUME UNCHANGED <<sequence, stable, todo, submits, sent, got>> PROVE CountInv'
  BY <1>1 DEF CountInv, RequestAlone, Waiting, Pending
<1>2. \/ \E n \in Node : TakeOutgoing(n) \/ SendToPeer(n) \/ Hang(n)
      \/ \E n, m \in Node : PeerWriter(n, m) \/ PeerReader(n, m)
      \/ UNCHANGED vars
      => UNCHANGED <<sequence, stable, todo, submits, sent, got>>
  BY DEF TakeOutgoing, SendToPeer, Hang, PeerWriter, PeerReader, vars
<1> QED
  BY <1>1, <1>2, PipeCases, SubmitCounts, ReceiveCounts, EmitCounts

\* The invariant of the counter leaves a number for every request received.
LEMMA CountNumbered == PipeInv /\ FlowInv /\ CountInv => Numbered
<1> SUFFICES ASSUME PipeInv, FlowInv, CountInv PROVE Numbered
  OBVIOUS
<1> DEFINE c == Cardinality(Pending)
           w == Cardinality(Waiting)
           next == Head(inbox[Primary])
           place == Place(got, next.from)
<1>1. /\ sequence \in Nat /\ c \in Nat /\ w \in Nat /\ submits \in Nat
      /\ submits = sequence + c + w
  BY CountTypes DEF CountInv
<1>2. sequence <= submits
  <2> HIDE DEF c, w
  <2> QED
    BY <1>1
<1>3. ASSUME inbox[Primary] # << >>, next.message.type = "Request"
      PROVE  sequence < submits
  <2> DEFINE p == next.from
             g == Len(got[<<p, Primary>>])
  <2>1. Primary \in Node /\ p \in Node
    BY <1>3, NextReceived, PipelineAssumption
  <2>2. g < Len(sent[<<p, Primary>>]) /\ sent[<<p, Primary>>][g + 1] = next.message
    BY <1>3, <2>1, ReceivedIsNext
  <2>3. /\ g \in Nat /\ Len(sent[<<p, Primary>>]) \in Nat
        /\ sent[<<p, Primary>>] \in Seq(Message) /\ got[<<p, Primary>>] \in Seq(Message)
    BY <2>1, GotWithinSent DEF PipeInv, PipeTyped
  <2>4. g + 1 \in DOMAIN sent[<<p, Primary>>] /\ g + 1 \notin DOMAIN got[<<p, Primary>>]
    BY <2>2, <2>3
  <2> HIDE DEF g
  <2>5. <<p, g + 1>> \in Requests(sent) /\ <<p, g + 1>> \notin Requests(got)
    <3> HIDE DEF next
    <3>1. g + 1 \in Nat /\ <<p, g + 1>> \in Node \X Nat
      BY <2>1, <2>3
    <3> HIDE DEF p
    <3> QED
      BY <1>3, <2>2, <2>4, <3>1 DEF Requests
  <2>6. <<p, g + 1>> \in Pending
    BY <2>5 DEF Pending
  <2>7. c # 0
    BY <2>6, FS_EmptySet DEF CountInv
  <2> HIDE DEF c, w
  <2> QED
    BY <1>1, <2>7
<1> QED
  BY <1>2, <1>3 DEF Numbered

-----------------------------------------------------------------------------
(* The messages that the primary has yet to part with *)

\* What the primary is about to send and what waits in outgoing_tx.
Line == outgoing[Primary] \o todo[Primary]

\* The messages of a number follow those of the numbers below, each at its own
\* place, so that a line that spans few numbers is short.
Ascending(l) == \A i, j \in DOMAIN l : i < j => Key(l[i]) + (j - i) <= Key(l[j])

\* A line of messages about numbers, the largest of which is at most high.
UpTo(l, high) == \A i \in DOMAIN l : Number(l[i]) <= high

LineInv ==
    /\ Quiet(Line) /\ Ascending(Line)
    /\ UpTo(Line, sequence) /\ UpTo(Line, stable[Primary] + Window)

\* s has been ordered, and its pre-prepare is no more among the primary's own
\* messages (or has never been sent).
Passed(s) == s <= sequence /\ \A i \in DOMAIN Line : 4 * s < Key(Line[i])

\* Whatever a node takes for stable has left the queue of the primary.
StableInv == \A n \in Node : Passed(stable[n])

LEMMA KeyTypes ==
    ASSUME NEW l \in Seq(Outgoing), Quiet(l), NEW i \in DOMAIN l
    PROVE  /\ Number(l[i]) \in Nat /\ Key(l[i]) \in Nat
           /\ 4 * Number(l[i]) <= Key(l[i]) /\ Key(l[i]) <= 4 * Number(l[i]) + 3
<1>1. l[i] \in Outgoing /\ l[i].message.type # "Request"
  BY DEF Quiet
<1>2. l[i].message.sequence \in Nat
  BY <1>1 DEF Outgoing, Message
<1> DEFINE s == Number(l[i])
           r == Rank(l[i].message.type)
<1>3. s \in Nat /\ r \in 0 .. 3
  BY <1>2 DEF Number, Rank
<1>4. Key(l[i]) = 4 * s + r
  BY Zenon DEF Key
<1> HIDE DEF s, r
<1>5. 4 * s + r \in Nat /\ 4 * s <= 4 * s + r /\ 4 * s + r <= 4 * s + 3
  BY <1>3
<1>6. s \in Nat /\ Key(l[i]) \in Nat /\ 4 * s <= Key(l[i]) /\ Key(l[i]) <= 4 * s + 3
  BY <1>3, <1>4, <1>5, Zenon
<1> QED
  BY <1>6 DEF s

\* A line that spans a window is as long as the handlers of a window make it,
\* and the number below may add three.
LEMMA AscendingShort ==
    ASSUME NEW l \in Seq(Outgoing), Quiet(l), Ascending(l),
           NEW low \in Nat, NEW w \in Nat, UpTo(l, low + w),
           \A i \in DOMAIN l : 4 * low < Key(l[i])
    PROVE  Len(l) <= 4 * w + 3
<1> DEFINE k == Len(l)
<1>1. k \in Nat /\ DOMAIN l = 1 .. k
  BY LenProperties
<1> HIDE DEF k
<1>2. CASE k = 0
  BY <1>2 DEF k
<1>3. CASE k # 0
  <2>1. 1 \in DOMAIN l /\ k \in DOMAIN l
    BY <1>1, <1>3
  <2> DEFINE first == Key(l[1])
             last == Key(l[k])
             s == Number(l[k])
  <2>2. /\ first \in Nat /\ last \in Nat /\ s \in Nat
        /\ last <= 4 * s + 3 /\ s <= low + w /\ 4 * low < first
    BY <2>1, KeyTypes DEF UpTo
  <2>3. 1 < k => first + (k - 1) <= last
    BY <2>1 DEF Ascending
  <2>4. k = 1 => first = last
    OBVIOUS
  <2> HIDE DEF first, last, s
  <2>5. first + (k - 1) <= last
    BY <1>1, <1>3, <2>2, <2>3, <2>4
  <2>6. k <= 4 * w + 3
    BY <1>1, <2>2, <2>5
  <2> QED
    BY <2>6 DEF k
<1> QED
  BY <1>2, <1>3

\* The first message leaves a line.
LEMMA AscendingTail ==
    ASSUME NEW l \in Seq(Outgoing), Quiet(l), Ascending(l), l # << >>
    PROVE  /\ Quiet(Tail(l)) /\ Ascending(Tail(l))
           /\ \A i \in DOMAIN Tail(l) : /\ i + 1 \in DOMAIN l
                                        /\ Tail(l)[i] = l[i + 1]
                                        /\ Key(l[1]) < Key(Tail(l)[i])
<1> DEFINE t == Tail(l)
<1>1. /\ Len(l) \in Nat \ {0} /\ Len(t) = Len(l) - 1 /\ t \in Seq(Outgoing)
      /\ \A i \in 1 .. Len(l) - 1 : t[i] = l[i + 1]
  BY HeadTailTyped
<1> HIDE DEF t
<1>2. DOMAIN l = 1 .. Len(l) /\ DOMAIN t = 1 .. Len(l) - 1
  BY <1>1
<1>3. ASSUME NEW i \in DOMAIN t PROVE i \in Nat /\ i + 1 \in DOMAIN l /\ t[i] = l[i + 1]
  BY <1>1, <1>2
<1>4. Quiet(t)
  BY <1>3 DEF Quiet
<1>5. ASSUME NEW i \in DOMAIN t, NEW j \in DOMAIN t, i < j
      PROVE  Key(t[i]) + (j - i) <= Key(t[j])
  <2>1. i + 1 < j + 1 /\ (j + 1) - (i + 1) = j - i
    BY <1>3, <1>5
  <2>2. Key(l[i + 1]) + ((j + 1) - (i + 1)) <= Key(l[j + 1])
    BY <1>3, <2>1 DEF Ascending
  <2> QED
    BY <1>3, <2>1, <2>2
<1>6. ASSUME NEW i \in DOMAIN t PROVE Key(l[1]) < Key(t[i])
  <2>1. 1 \in DOMAIN l /\ 1 < i + 1 /\ i \in Nat /\ i # 0 /\ (i + 1) - 1 = i
    BY <1>1, <1>2, <1>3
  <2> DEFINE a == Key(l[1])
             b == Key(l[i + 1])
  <2>2. a + ((i + 1) - 1) <= b
    BY <1>3, <2>1 DEF Ascending
  <2>3. a \in Nat /\ b \in Nat
    BY <1>3, <2>1, KeyTypes
  <2> HIDE DEF a, b
  <2>4. a < b
    BY <2>1, <2>2, <2>3
  <2> QED
    BY <1>3, <2>4 DEF a, b
<1> QED
  BY <1>3, <1>4, <1>5, <1>6 DEF Ascending, t

\* The messages of the next number join a line.
LEMMA AscendingCat ==
    ASSUME NEW l \in Seq(Outgoing), Quiet(l), Ascending(l), NEW s \in Nat, UpTo(l, s),
           NEW a \in Seq(Outgoing), Orders(a, s + 1)
    PROVE  /\ Quiet(l \o a) /\ Ascending(l \o a)
           /\ \A i \in DOMAIN (l \o a) :
                 \/ i \in DOMAIN l /\ (l \o a)[i] = l[i]
                 \/ /\ Number((l \o a)[i]) = s + 1
                    /\ 4 * (s + 1) <= Key((l \o a)[i])
<1> DEFINE r == l \o a
           k == Len(l)
           m == Len(a)
<1>1. /\ r \in Seq(Outgoing) /\ Len(r) = k + m
      /\ \A i \in 1 .. k + m : r[i] = IF i <= k THEN l[i] ELSE a[i - k]
  BY ConcatProperties
<1>2. k \in Nat /\ m \in Nat /\ DOMAIN l = 1 .. k /\ DOMAIN a = 1 .. m
  BY LenProperties
<1>3. DOMAIN r = 1 .. k + m
  BY <1>1
<1> HIDE DEF r, k, m
<1>4. \A i \in 1 .. m : /\ Number(a[i]) = s + 1 /\ Key(a[i]) = 4 * (s + 1) + (i - 1)
                        /\ a[i].message.type # "Request"
  BY <1>2 DEF Orders, Quiet, m
<1>5. ASSUME NEW i \in DOMAIN r
      PROVE  /\ i \in Nat
             /\ \/ i \in DOMAIN l /\ i <= k /\ r[i] = l[i]
                \/ i - k \in 1 .. m /\ k < i /\ r[i] = a[i - k]
  BY <1>1, <1>2, <1>3
<1>6. Quiet(r)
  BY <1>4, <1>5 DEF Quiet
<1>7. ASSUME NEW i \in DOMAIN r
      PROVE  \/ i \in DOMAIN l /\ r[i] = l[i]
             \/ Number(r[i]) = s + 1 /\ 4 * (s + 1) <= Key(r[i])
  <2>1. CASE i - k \in 1 .. m /\ r[i] = a[i - k]
    <3>1. Number(r[i]) = s + 1 /\ Key(r[i]) = 4 * (s + 1) + ((i - k) - 1)
      BY <1>4, <2>1
    <3> DEFINE u == i - k
    <3>2. u \in 1 .. m
      BY <2>1
    <3> HIDE DEF u
    <3>3. 4 * (s + 1) <= 4 * (s + 1) + (u - 1)
      BY <1>2, <3>2
    <3> QED
      BY <3>1, <3>3 DEF u
  <2> QED
    BY <1>5, <2>1
<1>8. ASSUME NEW i \in DOMAIN l
      PROVE  Key(l[i]) \in Nat /\ Key(l[i]) + (k - i) <= 4 * s + 3
  <2>1. k \in DOMAIN l /\ i \in Nat /\ i <= k
    BY <1>2
  <2> DEFINE x == Key(l[i])
             y == Key(l[k])
             z == Number(l[k])
  <2>2. /\ x \in Nat /\ y \in Nat /\ z \in Nat
        /\ y <= 4 * z + 3 /\ z <= s
    BY <2>1, KeyTypes DEF UpTo
  <2>3. i < k => x + (k - i) <= y
    BY <2>1 DEF Ascending
  <2>4. i = k => x = y
    OBVIOUS
  <2> HIDE DEF x, y, z
  <2>5. x + (k - i) <= y
    BY <1>2, <2>1, <2>2, <2>3, <2>4
  <2>6. x + (k - i) <= 4 * s + 3
    BY <1>2, <2>1, <2>2, <2>5
  <2> QED
    BY <2>2, <2>6 DEF x
<1>9. ASSUME NEW i \in DOMAIN r, NEW j \in DOMAIN r, i < j
      PROVE  Key(r[i]) + (j - i) <= Key(r[j])
  <2>1. i \in Nat /\ j \in Nat
    BY <1>5
  <2>2. CASE i <= k /\ j <= k
    BY <1>2, <1>5, <1>9, <2>1, <2>2 DEF Ascending
  <2>3. CASE i <= k /\ k < j
    <3>1. i \in DOMAIN l /\ r[i] = l[i] /\ j - k \in 1 .. m /\ r[j] = a[j - k]
      BY <1>2, <1>5, <2>1, <2>3
    <3>2. Key(r[j]) = 4 * (s + 1) + ((j - k) - 1)
      BY <1>4, <3>1
    <3>3. Key(r[i]) \in Nat /\ Key(r[i]) + (k - i) <= 4 * s + 3
      BY <1>8, <3>1
    <3> DEFINE x == Key(r[i])
    <3> HIDE DEF x
    <3>4. x \in Nat /\ x + (k - i) <= 4 * s + 3
      BY <3>3 DEF x
    <3>5. x + (j - i) <= 4 * (s + 1) + ((j - k) - 1)
      BY <1>2, <2>1, <3>4
    <3> QED
      BY <3>2, <3>5 DEF x
  <2>4. CASE k < i
    <3>1. i - k \in 1 .. m /\ r[i] = a[i - k] /\ j - k \in 1 .. m /\ r[j] = a[j - k]
      BY <1>2, <1>5, <1>9, <2>1, <2>4
    <3>2. /\ Key(r[i]) = 4 * (s + 1) + ((i - k) - 1)
          /\ Key(r[j]) = 4 * (s + 1) + ((j - k) - 1)
      BY <1>4, <3>1
    <3>3. 4 * (s + 1) + ((i - k) - 1) + (j - i) <= 4 * (s + 1) + ((j - k) - 1)
      BY <1>2, <2>1
    <3> QED
      BY <3>2, <3>3
  <2> QED
    BY <1>2, <2>1, <2>2, <2>3, <2>4
<1>10. Ascending(r)
  BY <1>9 DEF Ascending
<1> QED
  BY <1>6, <1>7, <1>10 DEF r

\* How a step changes the line.
LineSame == Line' = Line /\ sequence' = sequence

LineTaken ==
    /\ Line # << >> /\ Line' = Tail(Line) /\ sequence' = sequence
    /\ Head(outgoing[Primary]) = Line[1]

LineGrows ==
    /\ sequence' = sequence + 1 /\ stable' = stable
    /\ \/ Line' = Line
       \/ /\ sequence + 1 <= stable[Primary] + Window
          /\ \E answer \in Seq(Outgoing) :
                Orders(answer, sequence + 1) /\ Line' = Line \o answer

LEMMA LineTypes ==
    ASSUME PipeInv
    PROVE  /\ Primary \in Node /\ Window \in Nat /\ OutCap \in Nat /\ sequence \in Nat
           /\ stable \in [Node -> Nat]
           /\ todo[Primary] \in Seq(Outgoing) /\ outgoing[Primary] \in Seq(Outgoing)
           /\ Line \in Seq(Outgoing)
           /\ Len(Line) = Len(outgoing[Primary]) + Len(todo[Primary])
           /\ Len(outgoing[Primary]) \in Nat /\ Len(todo[Primary]) \in Nat
<1>1. /\ Primary \in Node /\ Window \in Nat /\ OutCap \in Nat /\ sequence \in Nat
      /\ stable \in [Node -> Nat]
      /\ todo[Primary] \in Seq(Outgoing) /\ outgoing[Primary] \in Seq(Outgoing)
  BY PipelineAssumption DEF PipeInv, PipeTyped, Window
<1>2. outgoing[Primary] \o todo[Primary] \in Seq(Outgoing)
  BY <1>1, ConcatProperties
<1>3. Len(outgoing[Primary] \o todo[Primary]) = Len(outgoing[Primary]) + Len(todo[Primary])
  BY <1>1, ConcatProperties
<1> QED
  BY <1>1, <1>2, <1>3, LenProperties DEF Line

\* The head of the first of two sequences is the head of both together.
LEMMA TailCat ==
    ASSUME NEW S, NEW x \in Seq(S), NEW y \in Seq(S), x # << >>
    PROVE  /\ x \o y # << >> /\ Head(x) = (x \o y)[1]
           /\ Tail(x) \o y = Tail(x \o y)
<1> DEFINE r == x \o y
           l == Tail(x) \o y
<1>1. /\ r \in Seq(S) /\ Len(r) = Len(x) + Len(y)
      /\ \A i \in 1 .. Len(x) + Len(y) : r[i] = IF i <= Len(x) THEN x[i] ELSE y[i - Len(x)]
  BY ConcatProperties
<1>2. /\ Head(x) = x[1] /\ Tail(x) \in Seq(S) /\ Len(x) \in Nat \ {0}
      /\ Len(Tail(x)) = Len(x) - 1
      /\ \A i \in 1 .. Len(x) - 1 : Tail(x)[i] = x[i + 1]
  BY HeadTailTyped
<1>3. Len(y) \in Nat
  BY LenProperties
<1>4. /\ l \in Seq(S) /\ Len(l) = Len(x) - 1 + Len(y)
      /\ \A i \in 1 .. Len(x) - 1 + Len(y) :
            l[i] = IF i <= Len(x) - 1 THEN Tail(x)[i] ELSE y[i - (Len(x) - 1)]
  BY <1>2, ConcatProperties
<1> HIDE DEF r, l
<1>5. Len(r) # 0 /\ r[1] = x[1]
  BY <1>1, <1>2, <1>3
<1>6. r # << >>
  BY <1>5
<1>7. /\ Tail(r) \in Seq(S) /\ Len(Tail(r)) = Len(r) - 1
      /\ \A i \in 1 .. Len(r) - 1 : Tail(r)[i] = r[i + 1]
  BY <1>1, <1>6, HeadTailTyped
<1>8. Len(l) = Len(Tail(r))
  BY <1>1, <1>2, <1>3, <1>4, <1>7
<1>9. ASSUME NEW i \in 1 .. Len(l) PROVE l[i] = Tail(r)[i]
  <2>1. i \in Nat /\ i # 0 /\ i + 1 \in 1 .. Len(x) + Len(y) /\ i \in 1 .. Len(r) - 1
    BY <1>1, <1>2, <1>3, <1>4
  <2>2. CASE i <= Len(x) - 1
    BY <1>1, <1>2, <1>3, <1>4, <1>7, <2>1, <2>2
  <2>3. CASE i > Len(x) - 1
    <3>1. i - (Len(x) - 1) = (i + 1) - Len(x) /\ ~(i + 1 <= Len(x))
      BY <1>2, <2>1, <2>3
    <3> QED
      BY <1>1, <1>2, <1>3, <1>4, <1>7, <2>1, <2>3, <3>1
  <2> QED
    BY <1>2, <2>1, <2>2, <2>3
<1>10. l = Tail(r)
  BY <1>4, <1>7, <1>8, <1>9, SeqEqual
<1> QED
  BY <1>2, <1>5, <1>6, <1>10 DEF l, r

LEMMA OrderingLine ==
    ASSUME PipeInv, PipeInv', todo[Primary] = << >>, Ordering(Primary),
           stable' = stable, outgoing' = outgoing
    PROVE  LineGrows
<1>1. PICK answer :
         /\ todo'[Primary] = answer
         /\ \/ answer = << >>
            \/ /\ Orders(answer, sequence + 1)
               /\ sequence + 1 <= stable[Primary] + Window
  BY OrderingCases
<1>2. sequence' = sequence + 1
  BY OrderingCases
<1>3. answer \in Seq(Outgoing) /\ outgoing[Primary] \in Seq(Outgoing)
  BY <1>1, LineTypes, PipelineAssumption DEF PipeInv, PipeTyped
<1>4. Line = outgoing[Primary]
  BY <1>3, ConcatEmptySeq DEF Line
<1>5. Line' = outgoing[Primary] \o answer
  BY <1>1 DEF Line
<1>6. answer = << >> => Line' = Line
  BY <1>3, <1>4, <1>5, ConcatEmptySeq
<1>7. Line' = Line \o answer
  BY <1>4, <1>5, Zenon
<1> QED
  BY <1>1, <1>2, <1>3, <1>6, <1>7 DEF LineGrows

LEMMA LineMoves ==
    ASSUME PipeInv, PipeInv', [Next]_vars
    PROVE  LineSame \/ (LineTaken /\ TakeOutgoing(Primary)) \/ LineGrows
<1>1. ASSUME todo'[Primary] = todo[Primary], outgoing'[Primary] = outgoing[Primary],
             sequence' = sequence
      PROVE  LineSame
  BY <1>1 DEF LineSame, Line
<1>2. ASSUME NEW n \in Node, Submit(n) PROVE LineSame \/ LineGrows
  <2>1. CASE n = Primary
    BY <1>2, <2>1, OrderingLine DEF Submit, HandleRequest
  <2>2. CASE n # Primary
    <3>1. /\ outgoing' = outgoing /\ sequence' = sequence
          /\ \E answer : todo' = [todo EXCEPT ![n] = answer]
      BY <1>2, <2>2 DEF Submit, HandleRequest
    <3>2. todo'[Primary] = todo[Primary]
      BY <2>2, <3>1, PipelineAssumption DEF PipeInv, PipeTyped
    <3> QED
      BY <1>1, <3>1, <3>2
  <2> QED
    BY <2>1, <2>2
<1>3. ASSUME NEW n \in Node, Receive(n) PROVE LineSame \/ LineGrows
  <2>1. outgoing' = outgoing /\ todo[n] = << >>
    BY <1>3 DEF Receive
  <2>2. CASE n = Primary /\ Ordering(Primary) /\ stable' = stable
    BY <2>1, <2>2, OrderingLine
  <2>3. CASE ~(n = Primary /\ Ordering(Primary) /\ stable' = stable)
    <3>1. sequence' = sequence /\ todo'[Primary] = todo[Primary]
      BY <1>3, <2>3, ReceiveCases, LineTypes DEF PipeInv, PipeTyped
    <3> QED
      BY <1>1, <2>1, <3>1
  <2> QED
    BY <2>2, <2>3
<1>4. ASSUME NEW n \in Node, Emit(n) PROVE LineSame
  <2>1. CASE n # Primary
    BY <1>1, <1>4, <2>1 DEF Emit
  <2>2. CASE n = Primary
    <3>1. /\ todo[Primary] # << >> /\ sequence' = sequence
          /\ todo'[Primary] = Tail(todo[Primary])
          /\ outgoing'[Primary] = Append(outgoing[Primary], Head(todo[Primary]))
      BY <1>4, <2>2, LineTypes DEF Emit, PipeInv, PipeTyped
    <3> DEFINE x == outgoing[Primary]
               y == todo[Primary]
    <3>2. x \in Seq(Outgoing) /\ y \in Seq(Outgoing) /\ y # << >>
      BY <3>1, LineTypes
    <3>3. Tail(y) \in Seq(Outgoing)
      BY <3>2, HeadTailTyped
    <3>4. /\ << >> \in Seq(Outgoing)
          /\ Tail(y) \o << >> = Tail(y) /\ y \o << >> = y
      BY <3>2, <3>3, ConcatEmptySeq
    <3>5. Append(x, Head(y)) \o (Tail(y) \o << >>) = x \o (y \o << >>)
      <4> HIDE DEF x, y
      <4> QED
        BY <3>2, <3>4, ShiftSeq
    <3>6. Append(x, Head(y)) \o Tail(y) = x \o y
      BY <3>4, <3>5, Zenon
    <3>7. Line' = Line
      BY <3>1, <3>6, Zenon DEF Line
    <3> QED
      BY <3>1, <3>7 DEF LineSame
  <2> QED
    BY <2>1, <2>2
<1>5. ASSUME NEW n \in Node, TakeOutgoing(n)
      PROVE  LineSame \/ (LineTaken /\ TakeOutgoing(Primary))
  <2>1. CASE n # Primary
    BY <1>1, <1>5, <2>1 DEF TakeOutgoing
  <2>2. CASE n = Primary
    <3>1. /\ outgoing[Primary] # << >> /\ sequence' = sequence
          /\ todo'[Primary] = todo[Primary]
          /\ outgoing'[Primary] = Tail(outgoing[Primary])
      BY <1>5, <2>2, LineTypes DEF TakeOutgoing, PipeInv, PipeTyped
    <3> DEFINE x == outgoing[Primary]
               y == todo[Primary]
    <3>2. x \in Seq(Outgoing) /\ y \in Seq(Outgoing) /\ x # << >>
      BY <3>1, LineTypes
    <3>3. x \o y # << >> /\ Head(x) = (x \o y)[1] /\ Tail(x) \o y = Tail(x \o y)
      <4> HIDE DEF x, y
      <4> QED
        BY <3>2, TailCat
    <3>4. Line' = Tail(Line) /\ Line # << >> /\ Head(outgoing[Primary]) = Line[1]
      BY <3>1, <3>3, Zenon DEF Line
    <3> QED
      BY <1>5, <2>2, <3>1, <3>4 DEF LineTaken
  <2> QED
    BY <2>1, <2>2
<1>6. (\/ \E n \in Node : SendToPeer(n) \/ Hang(n)
       \/ \E n, m \in Node : PeerWriter(n, m) \/ PeerReader(n, m)
       \/ UNCHANGED vars) =>
         todo' = todo /\ outgoing' = outgoing /\ sequence' = sequence
  BY DEF SendToPeer, Hang, PeerWriter, PeerReader, vars
<1> QED
  BY <1>1, <1>2, <1>3, <1>4, <1>5, <1>6, PipeCases

\* What has passed stays so.
LEMMA PassedStays ==
    ASSUME PipeInv, PipeInv', LineInv, [Next]_vars, NEW s \in Nat, Passed(s)
    PROVE  Passed(s)'
<1>1. /\ sequence \in Nat /\ s <= sequence /\ Line \in Seq(Outgoing)
      /\ \A i \in DOMAIN Line : 4 * s < Key(Line[i])
      /\ Quiet(Line) /\ Ascending(Line) /\ UpTo(Line, sequence)
  BY LineTypes DEF Passed, LineInv
<1>2. CASE LineSame
  <2>1. Line' = Line /\ sequence' = sequence
    BY <1>2 DEF LineSame
  <2> QED
    BY <1>1, <2>1 DEF Passed
<1>3. CASE LineTaken
  <2> DEFINE l == Line
             t == Tail(l)
  <2>1. Line' = t /\ l # << >> /\ sequence' = sequence
    BY <1>3 DEF LineTaken
  <2>2. \A i \in DOMAIN t : i + 1 \in DOMAIN l /\ t[i] = l[i + 1]
    <3> HIDE DEF l
    <3>1. l \in Seq(Outgoing) /\ Quiet(l) /\ Ascending(l)
      BY <1>1 DEF l
    <3> QED
      BY <2>1, <3>1, AscendingTail
  <2> HIDE DEF t
  <2>3. \A i \in DOMAIN t : 4 * s < Key(t[i])
    BY <1>1, <2>2
  <2> QED
    BY <1>1, <2>1, <2>3 DEF Passed
<1>4. CASE LineGrows
  <2>1. sequence' = sequence + 1 /\ s <= sequence'
    BY <1>1, <1>4 DEF LineGrows
  <2>2. CASE Line' = Line
    BY <1>1, <2>1, <2>2 DEF Passed
  <2>3. ASSUME NEW a \in Seq(Outgoing), Orders(a, sequence + 1), Line' = Line \o a
        PROVE  Passed(s)'
    <3> DEFINE l == Line
               r == l \o a
    <3>1. \A i \in DOMAIN r : \/ i \in DOMAIN l /\ r[i] = l[i]
                              \/ 4 * (sequence + 1) <= Key(r[i])
      <4> HIDE DEF l
      <4>1. l \in Seq(Outgoing) /\ Quiet(l) /\ Ascending(l) /\ UpTo(l, sequence)
        BY <1>1 DEF l
      <4> QED
        BY <1>1, <2>3, <4>1, AscendingCat
    <3> HIDE DEF r
    <3>2. ASSUME NEW i \in DOMAIN r PROVE 4 * s < Key(r[i])
      <4>1. CASE i \in DOMAIN l /\ r[i] = l[i]
        BY <1>1, <4>1
      <4>2. CASE 4 * (sequence + 1) <= Key(r[i])
        <5>1. r[i] \in Outgoing /\ Key(r[i]) \in Nat
          <6>1. r \in Seq(Outgoing)
            BY <1>1, <2>3, ConcatProperties DEF r
          <6>2. Quiet(r)
            BY <1>1, <2>3, AscendingCat DEF r
          <6> QED
            BY <6>1, <6>2, KeyTypes
        <5> DEFINE k == Key(r[i])
        <5>2. k \in Nat /\ 4 * (sequence + 1) <= k
          BY <4>2, <5>1
        <5> HIDE DEF k
        <5>3. 4 * s < k
          BY <1>1, <5>2
        <5> QED
          BY <5>3 DEF k
      <4> QED
        BY <3>1, <4>1, <4>2
    <3>3. Line' = r
      BY <2>3 DEF r
    <3> QED
      BY <2>1, <3>2, <3>3 DEF Passed
  <2> QED
    BY <1>4, <2>2, <2>3 DEF LineGrows
<1> QED
  BY <1>2, <1>3, <1>4, LineMoves

LEMMA LineStep ==
    ASSUME PipeInv, PipeInv', LineInv, [Next]_vars, stable'[Primary] \in Nat,
           stable[Primary] <= stable'[Primary]
    PROVE  LineInv'
<1>1. /\ sequence \in Nat /\ sequence' \in Nat /\ Line \in Seq(Outgoing)
      /\ stable[Primary] \in Nat /\ Window \in Nat
      /\ Quiet(Line) /\ Ascending(Line) /\ UpTo(Line, sequence)
      /\ UpTo(Line, stable[Primary] + Window)
  BY LineTypes DEF LineInv, PipeInv, PipeTyped
<1> DEFINE low == stable[Primary]
           high == stable'[Primary]
<1>2. \A i \in DOMAIN Line : Number(Line[i]) \in Nat
  BY <1>1, KeyTypes
<1>3. UpTo(Line, high + Window)
  <2> SUFFICES ASSUME NEW i \in DOMAIN Line PROVE Number(Line[i]) <= high + Window
    BY DEF UpTo
  <2> DEFINE s == Number(Line[i])
  <2>1. s \in Nat /\ s <= low + Window /\ low \in Nat /\ high \in Nat /\ low <= high
    BY <1>1, <1>2 DEF UpTo
  <2> HIDE DEF s, low, high
  <2>2. s <= high + Window
    BY <1>1, <2>1
  <2> QED
    BY <2>2 DEF s
<1>4. CASE LineSame
  <2>1. Line' = Line /\ sequence' = sequence
    BY <1>4 DEF LineSame
  <2>2. Quiet(Line)' /\ Ascending(Line)' /\ UpTo(Line, sequence)'
    BY <1>1, <2>1 DEF Quiet, Ascending, UpTo, Key, Number
  <2>3. UpTo(Line, stable[Primary] + Window)'
    BY <1>3, <2>1 DEF UpTo, Number, Window
  <2> QED
    BY <2>2, <2>3 DEF LineInv
<1>5. CASE LineTaken
  <2> DEFINE l == Line
             t == Tail(l)
  <2>1. Line' = t /\ l # << >> /\ sequence' = sequence
    BY <1>5 DEF LineTaken
  <2>2. /\ Quiet(t) /\ Ascending(t)
        /\ \A i \in DOMAIN t : i + 1 \in DOMAIN l /\ t[i] = l[i + 1]
    <3> HIDE DEF l
    <3>1. l \in Seq(Outgoing) /\ Quiet(l) /\ Ascending(l)
      BY <1>1 DEF l
    <3> QED
      BY <2>1, <3>1, AscendingTail
  <2> HIDE DEF t
  <2>3. UpTo(t, sequence) /\ UpTo(t, high + Window)
    BY <1>1, <1>3, <2>2 DEF UpTo
  <2>4. Quiet(Line)' /\ Ascending(Line)' /\ UpTo(Line, sequence)'
    BY <2>1, <2>2, <2>3 DEF Quiet, Ascending, UpTo, Key, Number
  <2>5. UpTo(Line, stable[Primary] + Window)'
    BY <2>1, <2>3 DEF UpTo, Number, Window
  <2> QED
    BY <2>4, <2>5 DEF LineInv
<1>6. CASE LineGrows
  <2>1. sequence' = sequence + 1 /\ high = low
    BY <1>6 DEF LineGrows
  <2>2. \A i \in DOMAIN Line : Number(Line[i]) <= sequence + 1
    <3> SUFFICES ASSUME NEW i \in DOMAIN Line PROVE Number(Line[i]) <= sequence + 1
      OBVIOUS
    <3> DEFINE s == Number(Line[i])
    <3>1. s \in Nat /\ s <= sequence
      BY <1>1, <1>2 DEF UpTo
    <3> HIDE DEF s
    <3>2. s <= sequence + 1
      BY <1>1, <3>1
    <3> QED
      BY <3>2 DEF s
  <2>3. CASE Line' = Line
    <3>1. Quiet(Line)' /\ Ascending(Line)' /\ UpTo(Line, sequence)'
      BY <1>1, <2>1, <2>2, <2>3 DEF Quiet, Ascending, UpTo, Key, Number
    <3>2. UpTo(Line, stable[Primary] + Window)'
      BY <1>3, <2>3 DEF UpTo, Number, Window
    <3> QED
      BY <3>1, <3>2 DEF LineInv
  <2>4. ASSUME sequence + 1 <= low + Window, NEW a \in Seq(Outgoing),
               Orders(a, sequence + 1), Line' = Line \o a
        PROVE  LineInv'
    <3> DEFINE l == Line
               r == l \o a
    <3>1. /\ Quiet(r) /\ Ascending(r)
          /\ \A i \in DOMAIN r : \/ i \in DOMAIN l /\ r[i] = l[i]
                                 \/ Number(r[i]) = sequence + 1
      <4> HIDE DEF l
      <4>1. l \in Seq(Outgoing) /\ Quiet(l) /\ Ascending(l) /\ UpTo(l, sequence)
        BY <1>1 DEF l
      <4> QED
        BY <1>1, <2>4, <4>1, AscendingCat
    <3>2. Line' = r
      BY <2>4
    <3> HIDE DEF r
    <3>3. UpTo(r, sequence + 1)
      <4> SUFFICES ASSUME NEW i \in DOMAIN r PROVE Number(r[i]) <= sequence + 1
        BY DEF UpTo
      <4>1. CASE i \in DOMAIN l /\ r[i] = l[i]
        BY <2>2, <4>1
      <4>2. CASE Number(r[i]) = sequence + 1
        BY <1>1, <4>2
      <4> QED
        BY <3>1, <4>1, <4>2
    <3>4. UpTo(r, high + Window)
      <4> SUFFICES ASSUME NEW i \in DOMAIN r PROVE Number(r[i]) <= high + Window
        BY DEF UpTo
      <4>1. CASE i \in DOMAIN l /\ r[i] = l[i]
        BY <1>3, <4>1 DEF UpTo
      <4>2. CASE Number(r[i]) = sequence + 1
        BY <2>1, <2>4, <4>2
      <4> QED
        BY <3>1, <4>1, <4>2
    <3>5. Quiet(Line)' /\ Ascending(Line)' /\ UpTo(Line, sequence)'
      BY <2>1, <3>1, <3>2, <3>3 DEF Quiet, Ascending, UpTo, Key, Number
    <3>6. UpTo(Line, stable[Primary] + Window)'
      BY <3>2, <3>4 DEF UpTo, Number, Window
    <3> QED
      BY <3>5, <3>6 DEF LineInv
  <2> QED
    BY <1>6, <2>3, <2>4 DEF LineGrows
<1> QED
  BY <1>4, <1>5, <1>6, LineMoves

\* Two water marks of messages and what may be left of the number below.
LEMMA RoomForPrimary == PipeInv /\ LineInv /\ StableInv => PrimaryNeverWaits
<1> SUFFICES ASSUME PipeInv, LineInv, StableInv, todo[Primary] # << >>
             PROVE  Len(outgoing[Primary]) < OutCap
  BY DEF PrimaryNeverWaits
<1> DEFINE low == stable[Primary]
           t == Len(todo[Primary])
           o == Len(outgoing[Primary])
<1>1. /\ t \in Nat /\ o \in Nat /\ Window \in Nat /\ OutCap \in Nat /\ low \in Nat
      /\ Line \in Seq(Outgoing) /\ Len(Line) = o + t
      /\ Primary \in Node /\ todo[Primary] \in Seq(Outgoing)
  BY LineTypes
<1>2. t # 0
  BY <1>1, EmptySeq
<1>3. Len(Line) <= 4 * Window + 3
  <2>1. /\ Quiet(Line) /\ Ascending(Line) /\ UpTo(Line, low + Window)
        /\ \A i \in DOMAIN Line : 4 * low < Key(Line[i])
    BY <1>1 DEF LineInv, StableInv, Passed
  <2> HIDE DEF low
  <2> QED
    BY <1>1, <2>1, AscendingShort
<1> HIDE DEF t, o
<1>4. o < OutCap
  BY <1>1, <1>2, <1>3, CapacityAssumption
<1> QED
  BY <1>4 DEF o

-----------------------------------------------------------------------------
(* The messages that have left the primary *)

\* The messages about numbers whose pre-prepare has left the primary's queue.
Past == {x \in Message : x.type = "Request" \/ Passed(x.sequence)}

OutIn(P) == {out \in Outgoing : out.message \in P}
InIn(P) == {in \in Incoming : in.message \in P}

\* Every message that is not the primary's to send is in P.
HeldIn(P) ==
    \A n \in Node :
        /\ n # Primary => todo[n] \in Seq(OutIn(P)) /\ outgoing[n] \in Seq(OutIn(P))
        /\ carried[n] # None => carried[n] \in OutIn(P)
        /\ \A m \in Node : queue[n][m] \in Seq(P) /\ socket[n][m] \in Seq(P)
        /\ inbox[n] \in Seq(InIn(P))

PastInv == HeldIn(Past)

\* What answers to messages of P is in P.
Closed(P) ==
    /\ P \subseteq Message /\ [type |-> "Request"] \in P
    /\ \A x \in P : x.type = "PrePrepare" =>
          \A t \in {"Prepare", "Commit", "Checkpoint"} : Msg(t, x.sequence) \in P

LEMMA SeqWider ==
    ASSUME NEW S, NEW T, S \subseteq T, NEW q \in Seq(S)
    PROVE  q \in Seq(T)
OBVIOUS

LEMMA HeldWider ==
    ASSUME NEW P, HeldIn(Past), Past \subseteq P
    PROVE  HeldIn(P)
<1>1. OutIn(Past) \subseteq OutIn(P) /\ InIn(Past) \subseteq InIn(P)
  BY DEF OutIn, InIn
<1> DEFINE O == OutIn(Past)
           I == InIn(Past)
           O2 == OutIn(P)
           I2 == InIn(P)
           Q == Past
<1> SUFFICES ASSUME NEW n \in Node
             PROVE  /\ n # Primary => todo[n] \in Seq(O2) /\ outgoing[n] \in Seq(O2)
                    /\ carried[n] # None => carried[n] \in O2
                    /\ \A m \in Node : queue[n][m] \in Seq(P) /\ socket[n][m] \in Seq(P)
                    /\ inbox[n] \in Seq(I2)
  BY DEF HeldIn
<1>2. /\ n # Primary => todo[n] \in Seq(O) /\ outgoing[n] \in Seq(O)
      /\ carried[n] # None => carried[n] \in O
      /\ \A m \in Node : queue[n][m] \in Seq(Q) /\ socket[n][m] \in Seq(Q)
      /\ inbox[n] \in Seq(I)
  BY DEF HeldIn
<1>3. O \subseteq O2 /\ I \subseteq I2 /\ Q \subseteq P
  BY <1>1
<1> HIDE DEF O, I, O2, I2, Q
<1>4. n # Primary => todo[n] \in Seq(O2) /\ outgoing[n] \in Seq(O2)
  BY <1>2, <1>3, SeqWider
<1>5. \A m \in Node : queue[n][m] \in Seq(P) /\ socket[n][m] \in Seq(P)
  BY <1>2, <1>3, SeqWider
<1>6. inbox[n] \in Seq(I2)
  BY <1>2, <1>3, SeqWider
<1> QED
  BY <1>2, <1>3, <1>4, <1>5, <1>6

LEMMA VotesIn ==
    ASSUME NEW P, Closed(P), NEW n \in Node, NEW x \in P, x.type = "PrePrepare"
    PROVE  Votes(n, x.sequence) \in Seq(OutIn(P))
<1> DEFINE s == x.sequence
           pair == << Broadcast(n, Msg("Prepare", s)), Broadcast(n, Msg("Commit", s)) >>
           last == Broadcast(n, Msg("Checkpoint", s))
<1>1. \A t \in {"Prepare", "Commit", "Checkpoint"} :
         Broadcast(n, Msg(t, s)) \in OutIn(P)
  <2>1. Peers[n] \in Seq(Node)
    BY PipelineAssumption
  <2>2. \A t \in {"Prepare", "Commit", "Checkpoint"} : Msg(t, s) \in P /\ Msg(t, s) \in Message
    BY DEF Closed
  <2> QED
    BY <2>1, <2>2 DEF Broadcast, OutIn, Outgoing
<1>2. pair \in Seq(OutIn(P)) /\ last \in OutIn(P)
  BY <1>1
<1>3. Votes(n, s) = IF s % Interval = 0 THEN Append(pair, last) ELSE pair
  BY DEF Votes
<1> HIDE DEF pair, last
<1>4. Append(pair, last) \in Seq(OutIn(P))
  BY <1>2, AppendTyped
<1> QED
  BY <1>2, <1>3, <1>4

LEMMA ForwardIn ==
    ASSUME NEW P, Closed(P)
    PROVE  << SendTo(Primary, [type |-> "Request"]) >> \in Seq(OutIn(P))
<1>1. <<Primary>> \in Seq(Node)
  BY PipelineAssumption
<1>2. [type |-> "Request"] \in P /\ [type |-> "Request"] \in Message
  BY DEF Closed
<1>3. SendTo(Primary, [type |-> "Request"]) \in OutIn(P)
  BY <1>1, <1>2 DEF SendTo, OutIn, Outgoing
<1> QED
  BY <1>3

\* A handler of another node than the primary answers within P.
LEMMA AnswerHeld ==
    ASSUME PipeInv, NEW P, HeldIn(P), NEW n \in Node, NEW answer,
           todo' = [todo EXCEPT ![n] = answer],
           n # Primary => answer \in Seq(OutIn(P))
    PROVE  \A k \in Node : k # Primary => todo'[k] \in Seq(OutIn(P))
<1>1. \A k \in Node : todo'[k] = IF k = n THEN answer ELSE todo[k]
  BY DEF PipeInv, PipeTyped
<1>2. \A k \in Node : k # Primary => todo[k] \in Seq(OutIn(P))
  BY DEF HeldIn
<1> QED
  BY <1>1, <1>2

LEMMA HeldHead ==
    ASSUME NEW S, NEW q \in Seq(S), q # << >>
    PROVE  Head(q) \in S /\ Tail(q) \in Seq(S)
BY HeadTailTyped

LEMMA SubmitHolds ==
    ASSUME PipeInv, NEW P, Closed(P), HeldIn(P), NEW n \in Node, Submit(n)
    PROVE  HeldIn(P)'
<1>1. UNCHANGED <<outgoing, carried, queue, socket, inbox>> /\ HandleRequest(n)
  BY DEF Submit
<1>2. \A k \in Node : k # Primary => todo'[k] \in Seq(OutIn(P))
  <2>1. CASE n = Primary
    <3>1. \E answer : todo' = [todo EXCEPT ![n] = answer]
      BY <1>1, <2>1, OrderingCases DEF HandleRequest
    <3> QED
      BY <2>1, <3>1, AnswerHeld
  <2>2. CASE n # Primary
    <3>1. todo' = [todo EXCEPT ![n] = << SendTo(Primary, [type |-> "Request"]) >>]
      BY <1>1, <2>2 DEF HandleRequest
    <3> QED
      BY <3>1, ForwardIn, AnswerHeld
  <2> QED
    BY <2>1, <2>2
<1> QED
  BY <1>1, <1>2 DEF HeldIn

LEMMA ReceiveHolds ==
    ASSUME PipeInv, NEW P, Closed(P), HeldIn(P), NEW n \in Node, Receive(n)
    PROVE  HeldIn(P)'
<1> DEFINE next == Head(inbox[n])
           m == next.message
<1>1. /\ UNCHANGED <<outgoing, carried, queue, socket>>
      /\ inbox[n] # << >> /\ inbox' = [inbox EXCEPT ![n] = Tail(inbox[n])]
  BY DEF Receive
<1>2. next \in InIn(P) /\ Tail(inbox[n]) \in Seq(InIn(P))
  <2>1. inbox[n] \in Seq(InIn(P))
    BY DEF HeldIn
  <2> QED
    BY <1>1, <2>1, HeldHead
<1>3. m \in P
  BY <1>2 DEF InIn
<1>4. \A k \in Node : inbox'[k] \in Seq(InIn(P))
  <2>1. \A k \in Node : inbox[k] \in Seq(InIn(P))
    BY DEF HeldIn
  <2>2. \A k \in Node : inbox'[k] = IF k = n THEN Tail(inbox[n]) ELSE inbox[k]
    BY <1>1 DEF PipeInv, PipeTyped
  <2> QED
    BY <1>2, <2>1, <2>2
<1>5. \/ n = Primary /\ Ordering(Primary)
      \/ /\ m.type = "PrePrepare"
         /\ \E answer \in {<< >>, Votes(n, m.sequence)} : todo' = [todo EXCEPT ![n] = answer]
      \/ todo' = todo
  BY ReceiveCases
<1>6. \A k \in Node : k # Primary => todo'[k] \in Seq(OutIn(P))
  <2>1. CASE n = Primary /\ Ordering(Primary)
    <3>1. \E answer : todo' = [todo EXCEPT ![n] = answer]
      BY <2>1, OrderingCases
    <3> QED
      BY <2>1, <3>1, AnswerHeld
  <2>2. ASSUME m.type = "PrePrepare", NEW answer \in {<< >>, Votes(n, m.sequence)},
               todo' = [todo EXCEPT ![n] = answer]
        PROVE  \A k \in Node : k # Primary => todo'[k] \in Seq(OutIn(P))
    <3>1. Votes(n, m.sequence) \in Seq(OutIn(P))
      <4> HIDE DEF m
      <4> QED
        BY <1>3, <2>2, VotesIn
    <3>2. << >> \in Seq(OutIn(P))
      OBVIOUS
    <3>3. answer \in Seq(OutIn(P))
      BY <2>2, <3>1, <3>2
    <3> QED
      BY <2>2, <3>3, AnswerHeld
  <2>3. CASE todo' = todo
    BY <2>3 DEF HeldIn
  <2> QED
    BY <1>5, <2>1, <2>2, <2>3
<1> QED
  BY <1>1, <1>4, <1>6 DEF HeldIn

LEMMA EmitHolds ==
    ASSUME PipeInv, NEW P, HeldIn(P), NEW n \in Node, Emit(n)
    PROVE  HeldIn(P)'
<1>1. /\ UNCHANGED <<carried, queue, socket, inbox>>
      /\ todo[n] # << >> /\ todo' = [todo EXCEPT ![n] = Tail(todo[n])]
      /\ outgoing' = [outgoing EXCEPT ![n] = Append(outgoing[n], Head(todo[n]))]
  BY DEF Emit
<1>2. \A k \in Node : /\ todo'[k] = IF k = n THEN Tail(todo[n]) ELSE todo[k]
                      /\ outgoing'[k] = IF k = n THEN Append(outgoing[n], Head(todo[n]))
                                        ELSE outgoing[k]
  BY <1>1 DEF PipeInv, PipeTyped
<1>3. \A k \in Node : k # Primary => /\ todo[k] \in Seq(OutIn(P))
                                     /\ outgoing[k] \in Seq(OutIn(P))
  BY DEF HeldIn
<1>4. n # Primary => /\ Tail(todo[n]) \in Seq(OutIn(P))
                     /\ Append(outgoing[n], Head(todo[n])) \in Seq(OutIn(P))
  <2> SUFFICES ASSUME n # Primary
               PROVE  /\ Tail(todo[n]) \in Seq(OutIn(P))
                      /\ Append(outgoing[n], Head(todo[n])) \in Seq(OutIn(P))
    OBVIOUS
  <2>1. Head(todo[n]) \in OutIn(P) /\ Tail(todo[n]) \in Seq(OutIn(P))
    BY <1>1, <1>3, HeldHead
  <2> QED
    BY <1>3, <2>1, AppendTyped
<1>5. ASSUME NEW k \in Node, k # Primary
      PROVE  todo'[k] \in Seq(OutIn(P)) /\ outgoing'[k] \in Seq(OutIn(P))
  <2>1. CASE k = n
    BY <1>2, <1>4, <1>5, <2>1, Zenon
  <2>2. CASE k # n
    BY <1>2, <1>3, <1>5, <2>2, Zenon
  <2> QED
    BY <2>1, <2>2
<1>6. UNCHANGED <<carried, queue, socket, inbox>>
  BY <1>1
<1> QED
  BY <1>5, <1>6 DEF HeldIn

LEMMA TakeOutgoingHolds ==
    ASSUME PipeInv, NEW P, HeldIn(P), NEW n \in Node, TakeOutgoing(n),
           n = Primary => Head(outgoing[Primary]) \in OutIn(P)
    PROVE  HeldIn(P)'
<1>1. /\ UNCHANGED <<todo, queue, socket, inbox>>
      /\ outgoing[n] # << >> /\ outgoing' = [outgoing EXCEPT ![n] = Tail(outgoing[n])]
      /\ carried' = [carried EXCEPT ![n] = Head(outgoing[n])]
  BY DEF TakeOutgoing
<1>2. \A k \in Node : /\ outgoing'[k] = IF k = n THEN Tail(outgoing[n]) ELSE outgoing[k]
                      /\ carried'[k] = IF k = n THEN Head(outgoing[n]) ELSE carried[k]
  BY <1>1 DEF PipeInv, PipeTyped
<1>3. /\ \A k \in Node : k # Primary => outgoing[k] \in Seq(OutIn(P))
      /\ \A k \in Node : carried[k] # None => carried[k] \in OutIn(P)
  BY DEF HeldIn
<1>4. n # Primary => Head(outgoing[n]) \in OutIn(P) /\ Tail(outgoing[n]) \in Seq(OutIn(P))
  BY <1>1, <1>3, HeldHead
<1>5. \A k \in Node : k # Primary => outgoing'[k] \in Seq(OutIn(P))
  BY <1>2, <1>3, <1>4
<1>6. \A k \in Node : carried'[k] # None => carried'[k] \in OutIn(P)
  BY <1>2, <1>3, <1>4
<1> QED
  BY <1>1, <1>5, <1>6 DEF HeldIn

LEMMA SendToPeerHolds ==
    ASSUME PipeInv, NEW P, HeldIn(P), NEW n \in Node, SendToPeer(n)
    PROVE  HeldIn(P)'
<1> DEFINE p == Head(carried[n].to)
           x == carried[n].message
<1>1. /\ UNCHANGED <<todo, outgoing, socket, inbox>> /\ carried[n] # None
      /\ queue' = [queue EXCEPT ![n][p] = Append(queue[n][p], x)]
      /\ carried' = [carried EXCEPT ![n] =
             IF Len(carried[n].to) = 1 THEN None
             ELSE [message |-> x, to |-> Tail(carried[n].to)]]
  BY DEF SendToPeer, Enqueue
<1>2. carried[n] \in OutIn(P) /\ carried[n] \in OutgoingOf(n)
  BY <1>1 DEF HeldIn, PipeInv, Routed
<1>3. x \in P /\ x \in Message /\ carried[n].to \in Seq(Node) /\ carried[n].to # << >>
  BY <1>2 DEF OutIn, OutgoingOf, Outgoing
<1>4. p \in Node /\ Tail(carried[n].to) \in Seq(Node)
  BY <1>3, HeldHead
<1>5. [message |-> x, to |-> Tail(carried[n].to)] \in OutIn(P)
  BY <1>3, <1>4 DEF OutIn, Outgoing
<1>6. \A k \in Node : carried'[k] # None => carried'[k] \in OutIn(P)
  <2> DEFINE rest == IF Len(carried[n].to) = 1 THEN None
                     ELSE [message |-> x, to |-> Tail(carried[n].to)]
  <2>1. \A k \in Node : carried'[k] = IF k = n THEN rest ELSE carried[k]
    BY <1>1 DEF PipeInv, PipeTyped
  <2>2. rest # None => rest \in OutIn(P)
    BY <1>5
  <2>3. \A k \in Node : carried[k] # None => carried[k] \in OutIn(P)
    BY DEF HeldIn
  <2> HIDE DEF rest
  <2> QED
    BY <2>1, <2>2, <2>3
<1> HIDE DEF p, x
<1>7. Append(queue[n][p], x) \in Seq(P)
  <2>1. queue[n][p] \in Seq(P)
    BY <1>4 DEF HeldIn
  <2> QED
    BY <1>3, <2>1, AppendTyped
<1>8. \A k, m \in Node : queue'[k][m] \in Seq(P)
  <2>1. \A k, m \in Node : queue[k][m] \in Seq(P)
    BY DEF HeldIn
  <2>2. \A k, m \in Node : queue'[k][m] =
           IF k = n /\ m = p THEN Append(queue[n][p], x) ELSE queue[k][m]
    BY <1>1, <1>4 DEF PipeInv, PipeTyped
  <2> QED
    BY <1>7, <2>1, <2>2
<1> QED
  BY <1>1, <1>6, <1>8 DEF HeldIn

LEMMA PeerWriterHolds ==
    ASSUME PipeInv, NEW P, HeldIn(P), NEW n \in Node, NEW m \in Node, PeerWriter(n, m)
    PROVE  HeldIn(P)'
<1>1. /\ UNCHANGED <<todo, outgoing, carried, inbox>> /\ queue[n][m] # << >>
      /\ queue' = [queue EXCEPT ![n][m] = Tail(queue[n][m])]
      /\ socket' = [socket EXCEPT ![n][m] = Append(socket[n][m], Head(queue[n][m]))]
  BY DEF PeerWriter
<1>2. \A j, k \in Node : queue[j][k] \in Seq(P) /\ socket[j][k] \in Seq(P)
  BY DEF HeldIn
<1>3. Head(queue[n][m]) \in P /\ Tail(queue[n][m]) \in Seq(P)
  BY <1>1, <1>2, HeldHead
<1>4. Append(socket[n][m], Head(queue[n][m])) \in Seq(P)
  BY <1>2, <1>3, AppendTyped
<1>5. \A j, k \in Node :
         /\ queue'[j][k] = IF j = n /\ k = m THEN Tail(queue[n][m]) ELSE queue[j][k]
         /\ socket'[j][k] = IF j = n /\ k = m
                            THEN Append(socket[n][m], Head(queue[n][m])) ELSE socket[j][k]
  BY <1>1 DEF PipeInv, PipeTyped
<1>6. \A j, k \in Node : queue'[j][k] \in Seq(P) /\ socket'[j][k] \in Seq(P)
  BY <1>2, <1>3, <1>4, <1>5
<1> QED
  BY <1>1, <1>6 DEF HeldIn

LEMMA PeerReaderHolds ==
    ASSUME PipeInv, NEW P, HeldIn(P), NEW n \in Node, NEW m \in Node, PeerReader(n, m)
    PROVE  HeldIn(P)'
<1> DEFINE x == Head(socket[n][m])
           in == [from |-> n, message |-> x]
<1>1. /\ UNCHANGED <<todo, outgoing, carried, queue>> /\ socket[n][m] # << >>
      /\ socket' = [socket EXCEPT ![n][m] = Tail(socket[n][m])]
      /\ inbox' = [inbox EXCEPT ![m] = Append(inbox[m], in)]
  BY DEF PeerReader
<1>2. \A j, k \in Node : socket[j][k] \in Seq(P)
  BY DEF HeldIn
<1>3. /\ x \in P /\ Tail(socket[n][m]) \in Seq(P) /\ x \in Message
  <2>1. socket[n][m] \in Seq(P) /\ socket[n][m] \in Seq(Message)
    BY <1>2 DEF PipeInv, PipeTyped
  <2> QED
    BY <1>1, <2>1, HeldHead
<1>4. in \in InIn(P)
  BY <1>3 DEF InIn, Incoming
<1> HIDE DEF x, in
<1>5. Append(inbox[m], in) \in Seq(InIn(P))
  <2>1. inbox[m] \in Seq(InIn(P))
    BY DEF HeldIn
  <2> QED
    BY <1>4, <2>1, AppendTyped
<1>6. \A j, k \in Node :
         socket'[j][k] = IF j = n /\ k = m THEN Tail(socket[n][m]) ELSE socket[j][k]
  BY <1>1 DEF PipeInv, PipeTyped
<1>7. \A k \in Node : inbox'[k] = IF k = m THEN Append(inbox[m], in) ELSE inbox[k]
  BY <1>1 DEF PipeInv, PipeTyped
<1>8. \A j, k \in Node : socket'[j][k] \in Seq(P)
  BY <1>2, <1>3, <1>6
<1>9. \A k \in Node : inbox'[k] \in Seq(InIn(P))
  BY <1>5, <1>7 DEF HeldIn
<1> QED
  BY <1>1, <1>8, <1>9 DEF HeldIn

LEMMA HeldStep ==
    ASSUME PipeInv, NEW P, Closed(P), HeldIn(P), [Next]_vars,
           TakeOutgoing(Primary) => Head(outgoing[Primary]) \in OutIn(P)
    PROVE  HeldIn(P)'
<1>1. ASSUME UNCHANGED <<todo, outgoing, carried, queue, socket, inbox>>
      PROVE  HeldIn(P)'
  BY <1>1 DEF HeldIn
<1>2. (\E n \in Node : Hang(n)) \/ UNCHANGED vars =>
         UNCHANGED <<todo, outgoing, carried, queue, socket, inbox>>
  BY DEF Hang, vars
<1> QED
  BY <1>1, <1>2, PipeCases, SubmitHolds, ReceiveHolds, EmitHolds, TakeOutgoingHolds,
     SendToPeerHolds, PeerWriterHolds, PeerReaderHolds

\* What leaves the line has passed.
LEMMA TakenIsPast ==
    ASSUME PipeInv, PipeInv', LineInv, [Next]_vars, TakeOutgoing(Primary)
    PROVE  Head(outgoing[Primary]) \in OutIn(Past')
<1>0. PICK out : out = Head(outgoing[Primary])
  OBVIOUS
<1> DEFINE l == Line
           s == Number(out)
<1>1. /\ l \in Seq(Outgoing) /\ Quiet(l) /\ Ascending(l) /\ UpTo(l, sequence)
      /\ sequence \in Nat /\ outgoing[Primary] \in Seq(Outgoing)
      /\ todo[Primary] \in Seq(Outgoing) /\ Primary \in Node
  BY LineTypes DEF LineInv
<1>2. /\ outgoing[Primary] # << >> /\ sequence' = sequence /\ todo' = todo
      /\ outgoing' = [outgoing EXCEPT ![Primary] = Tail(outgoing[Primary])]
  BY DEF TakeOutgoing
<1>3. /\ l # << >> /\ out = l[1]
      /\ Tail(outgoing[Primary]) \o todo[Primary] = Tail(l)
  BY <1>0, <1>1, <1>2, TailCat DEF Line
<1>4. Line' = Tail(l)
  <2>1. /\ outgoing'[Primary] = Tail(outgoing[Primary]) /\ todo'[Primary] = todo[Primary]
    BY <1>1, <1>2 DEF PipeInv, PipeTyped
  <2> HIDE DEF l
  <2>2. Line' = Tail(outgoing[Primary]) \o todo[Primary]
    BY <2>1 DEF Line
  <2> QED
    BY <1>3, <2>2
<1>5. out \in Outgoing
  BY <1>0, <1>1, <1>2, HeldHead
<1> HIDE DEF l
<1>6. \A i \in DOMAIN Tail(l) : Key(l[1]) < Key(Tail(l)[i])
  BY <1>1, <1>3, AscendingTail
<1>7. 1 \in DOMAIN l
  BY <1>1, <1>3
<1>8. s \in Nat /\ 4 * s <= Key(l[1]) /\ Key(l[1]) \in Nat /\ s <= sequence
  BY <1>1, <1>3, <1>7, KeyTypes DEF UpTo
<1>9. \A i \in DOMAIN Tail(l) : Key(Tail(l)[i]) \in Nat
  <2>1. Tail(l) \in Seq(Outgoing)
    BY <1>1, <1>3, HeldHead
  <2>2. Quiet(Tail(l))
    BY <1>1, <1>3, AscendingTail
  <2> QED
    BY <2>1, <2>2, KeyTypes
<1>10. \A i \in DOMAIN Tail(l) : 4 * s < Key(Tail(l)[i])
  <2> SUFFICES ASSUME NEW i \in DOMAIN Tail(l) PROVE 4 * s < Key(Tail(l)[i])
    OBVIOUS
  <2> DEFINE a == Key(l[1])
             b == Key(Tail(l)[i])
  <2>1. a \in Nat /\ b \in Nat /\ a < b /\ s \in Nat /\ 4 * s <= a
    BY <1>6, <1>8, <1>9
  <2> HIDE DEF a, b, s
  <2>2. 4 * s < b
    BY <2>1
  <2> QED
    BY <2>2 DEF b
<1>11. Passed(s)'
  <2>1. s <= sequence'
    BY <1>2, <1>8
  <2>2. \A i \in DOMAIN Line' : 4 * s < Key(Line'[i])
    BY <1>4, <1>10
  <2> HIDE DEF s
  <2> QED
    BY <2>1, <2>2 DEF Passed
<1>12. out \in OutIn(Past')
  <2>1. out.message \in Message
    BY <1>5 DEF Outgoing
  <2>2. Passed(out.message.sequence)'
    BY <1>11, Zenon DEF Number
  <2>3. out.message \in Past'
    BY <2>1, <2>2 DEF Past
  <2> QED
    BY <1>5, <2>3 DEF OutIn
<1> QED
  BY <1>0, <1>12

\* The past only grows, and what answers to it is in it.
LEMMA PastGrows ==
    ASSUME PipeInv, PipeInv', LineInv, [Next]_vars
    PROVE  Past \subseteq Past' /\ Closed(Past')
<1>1. ASSUME NEW x \in Past PROVE x \in Past'
  <2>1. x \in Message
    BY DEF Past
  <2>2. CASE x.type = "Request"
    BY <2>1, <2>2 DEF Past
  <2>3. CASE x.type # "Request"
    <3> DEFINE s == x.sequence
    <3>1. s \in Nat /\ Passed(s)
      BY <2>1, <2>3 DEF Past, Message
    <3>2. Passed(s)'
      <4> HIDE DEF s
      <4> QED
        BY <3>1, PassedStays
    <3> QED
      BY <2>1, <3>2 DEF Past
  <2> QED
    BY <2>2, <2>3
<1>2. Past' \subseteq Message /\ [type |-> "Request"] \in Past'
  BY DEF Past, Message
<1>3. ASSUME NEW x \in Past', x.type = "PrePrepare",
             NEW t \in {"Prepare", "Commit", "Checkpoint"}
      PROVE  Msg(t, x.sequence) \in Past'
  <2>1. x \in Message /\ Passed(x.sequence)'
    BY <1>3 DEF Past
  <2>2. Msg(t, x.sequence) \in Message /\ Msg(t, x.sequence).sequence = x.sequence
    BY <1>3, <2>1 DEF Msg, Message
  <2> QED
    BY <2>1, <2>2 DEF Past
<1> QED
  BY <1>1, <1>2, <1>3 DEF Closed

LEMMA PastStep ==
    ASSUME PipeInv, PipeInv', LineInv, PastInv, [Next]_vars
    PROVE  PastInv'
<1>1. PICK P : P = Past'
  OBVIOUS
<1>2. Past \subseteq P /\ Closed(P)
  BY <1>1, PastGrows
<1>3. HeldIn(P)
  BY <1>2, HeldWider DEF PastInv
<1>4. TakeOutgoing(Primary) => Head(outgoing[Primary]) \in OutIn(P)
  BY <1>1, TakenIsPast
<1>5. HeldIn(P)'
  BY <1>2, <1>3, <1>4, HeldStep
<1> QED
  BY <1>1, <1>5 DEF PastInv, HeldIn, OutIn, InIn

\* A node takes for stable what another announces, and its pre-prepare has left
\* the primary before anyone can.
LEMMA StableStep ==
    ASSUME PipeInv, PipeInv', LineInv, StableInv, PastInv, [Next]_vars
    PROVE  StableInv' /\ \A n \in Node : stable[n] <= stable'[n]
<1>1. stable \in [Node -> Nat] /\ stable' \in [Node -> Nat]
  BY DEF PipeInv, PipeTyped
<1>2. \A n \in Node : Passed(stable[n])
  BY DEF StableInv
<1>3. ASSUME stable' = stable
      PROVE  StableInv' /\ \A n \in Node : stable[n] <= stable'[n]
  <2>1. ASSUME NEW n \in Node PROVE Passed(stable[n])'
    <3>1. PICK s \in Nat : s = stable[n]
      BY <1>1
    <3>2. Passed(s)'
      BY <1>2, <3>1, PassedStays
    <3> QED
      BY <1>3, <3>1, <3>2 DEF Passed
  <2> QED
    BY <1>1, <1>3, <2>1 DEF StableInv
<1>4. ASSUME NEW n \in Node, Receive(n), stable' # stable
      PROVE  StableInv' /\ \A k \in Node : stable[k] <= stable'[k]
  <2> DEFINE m == Head(inbox[n]).message
             c == m.sequence
  <2>1. /\ m.type = "Checkpoint"
        /\ stable' = [stable EXCEPT ![n] = IF c > stable[n] THEN c ELSE stable[n]]
    BY <1>4, ReceiveCases
  <2>2. m \in Message /\ m.type = "Checkpoint" /\ Passed(m.sequence)
    <3>1. inbox[n] # << >> /\ inbox[n] \in Seq(InIn(Past))
      BY <1>4 DEF Receive, PastInv, HeldIn
    <3>2. Head(inbox[n]) \in InIn(Past)
      BY <3>1, HeldHead
    <3>3. m \in Past
      BY <3>2 DEF InIn
    <3> QED
      BY <2>1, <3>3 DEF Past
  <2>3. c \in Nat
    BY <2>2 DEF Message
  <2>4. ASSUME NEW k \in Node PROVE Passed(stable[k])' /\ stable[k] <= stable'[k]
    <3>1. stable'[k] = stable[k] \/ stable'[k] = c
      BY <1>1, <2>1
    <3>2. PICK s \in Nat : s = stable'[k]
      BY <1>1
    <3>3. Passed(s)
      BY <1>2, <2>2, <3>1, <3>2
    <3>4. Passed(s)'
      BY <3>3, PassedStays
    <3>5. Passed(stable[k])'
      BY <3>2, <3>4 DEF Passed
    <3>6. stable[k] <= stable'[k]
      BY <1>1, <2>1, <2>3
    <3> QED
      BY <3>5, <3>6
  <2> QED
    BY <2>4 DEF StableInv
<1>5. (\/ \E n \in Node : \/ Submit(n) \/ Emit(n) \/ TakeOutgoing(n) \/ SendToPeer(n)
                          \/ Hang(n)
       \/ \E n, m \in Node : PeerWriter(n, m) \/ PeerReader(n, m)
       \/ UNCHANGED vars) => stable' = stable
  BY DEF Submit, HandleRequest, Emit, TakeOutgoing, SendToPeer, Hang, PeerWriter,
         PeerReader, vars
<1> QED
  BY <1>3, <1>4, <1>5, PipeCases

LEMMA LineInit == Init => LineInv /\ StableInv /\ PastInv
<1> SUFFICES ASSUME Init PROVE LineInv /\ StableInv /\ PastInv
  OBVIOUS
<1>1. /\ todo[Primary] = << >> /\ outgoing[Primary] = << >>
      /\ sequence = 0 /\ \A n \in Node : stable[n] = 0
  BY PipelineAssumption DEF Init
<1>2. Line = << >>
  BY <1>1 DEF Line
<1>3. LineInv
  BY <1>2 DEF LineInv, Quiet, Ascending, UpTo
<1>4. StableInv
  <2>1. Passed(0)
    BY <1>1, <1>2 DEF Passed
  <2> QED
    BY <1>1, <2>1 DEF StableInv
<1>5. PastInv
  <2>1. \A S : << >> \in Seq(S)
    BY EmptySeq
  <2>2. \A n \in Node : /\ todo[n] = << >> /\ outgoing[n] = << >> /\ inbox[n] = << >>
                        /\ carried[n] = None
                        /\ \A m \in Node : queue[n][m] = << >> /\ socket[n][m] = << >>
    BY DEF Init
  <2> QED
    BY <2>1, <2>2 DEF PastInv, HeldIn
<1> QED
  BY <1>3, <1>4, <1>5

LEMMA CountedTypes == PipeInv /\ CountInv /\ StableInv => TypeOK
<1> SUFFICES ASSUME PipeInv, CountInv, StableInv PROVE TypeOK
  OBVIOUS
<1>1. sequence \in 0 .. MaxSubmits
  <2> DEFINE c == Cardinality(Pending)
             w == Cardinality(Waiting)
  <2>1. sequence \in Nat /\ c \in Nat /\ w \in Nat /\ submits = sequence + c + w
    BY CountTypes DEF CountInv
  <2>2. submits \in 0 .. MaxSubmits /\ MaxSubmits \in Nat
    BY PipelineAssumption DEF PipeInv, PipeTyped
  <2> HIDE DEF c, w
  <2> QED
    BY <2>1, <2>2
<1>2. \A n \in Node : stable[n] \in 0 .. sequence
  <2> SUFFICES ASSUME NEW n \in Node PROVE stable[n] \in 0 .. sequence
    OBVIOUS
  <2>1. stable[n] \in Nat /\ stable[n] <= sequence /\ sequence \in Nat
    BY DEF StableInv, Passed, PipeInv, PipeTyped
  <2>2. \A a, b \in Nat : a <= b => a \in 0 .. b
    OBVIOUS
  <2> QED
    BY <2>1, <2>2, Zenon
<1> QED
  BY <1>1, <1>2 DEF PipeInv, PipeTyped, Bounded, TypeOK

-----------------------------------------------------------------------------
(* Theorems *)

\* The inductive invariant of the queues: what is in them belongs there, fits,
\* and is the rest of what has been sent; no request is counted twice; what the
\* primary has yet to part with ascends within the water marks; and what others
\* hold, or take for stable, is about numbers that have left the primary.
LEMMA QueuesKept ==
    Spec => [](PipeInv /\ FlowInv /\ CountInv /\ LineInv /\ StableInv /\ PastInv)
<1> DEFINE Inv == PipeInv /\ FlowInv /\ CountInv /\ LineInv /\ StableInv /\ PastInv
<1>1. Init => Inv
  BY PipeInit, FlowInit, CountInit, LineInit
<1>2. Inv /\ [Next]_vars => Inv'
  <2> SUFFICES ASSUME Inv, [Next]_vars PROVE Inv'
    OBVIOUS
  <2>1. PipeInv'
    BY CountNumbered, PipeStep
  <2>2. FlowInv' /\ CountInv'
    BY FlowStep, CountStep
  <2>3. StableInv' /\ \A n \in Node : stable[n] <= stable'[n]
    BY <2>1, StableStep
  <2>4. stable'[Primary] \in Nat /\ stable[Primary] <= stable'[Primary]
    BY <2>1, <2>3, PipelineAssumption DEF PipeInv, PipeTyped
  <2>5. LineInv' /\ PastInv'
    BY <2>1, <2>4, LineStep, PastStep
  <2> QED
    BY <2>1, <2>2, <2>3, <2>5
<1> QED
  BY <1>1, <1>2, PTL DEF Spec

\* Every queue keeps its capacity, what is sent and received are messages, the
\* primary numbers no more requests than clients have made (each is on its way
\* once, so that no number is spent on a request forwarded twice), and no node
\* takes for stable what the primary has not ordered.
THEOREM QueuesTyped == Spec => []TypeOK
BY QueuesKept, CountedTypes, PTL

\* The handlers of the primary never await room in outgoing_tx, under any load
\* and however slow the outgoing task, the writers and the other nodes are.  The
\* window (pbft.rs, handle_request, handle_checkpoint) moves to a number only by
\* the Checkpoint of a node that has read its pre-prepare: by then all below has
\* left outgoing_tx, and what two intervals add to it fits.
THEOREM PrimaryGoesOn == Spec => []PrimaryNeverWaits
BY QueuesKept, RoomForPrimary, PTL

\* Every step of the tasks is a step of one ordered channel, or none of it.
LEMMA ChannelStep ==
    PipeInv /\ FlowInv /\ [Next]_vars => [Links!Next]_<<sent, got>>
<1> SUFFICES ASSUME PipeInv, FlowInv, [Next]_vars
             PROVE  Links!Next \/ UNCHANGED <<sent, got>>
  OBVIOUS
<1>1. ASSUME NEW n \in Node, Emit(n) PROVE Links!Next
  <2> DEFINE next == Head(todo[n])
             links == {l \in Node \X Node : l[1] = n /\ IsFor(l[2], next)}
  <2>1. next.message \in Message
    <3>1. todo[n] \in Seq(Outgoing) /\ todo[n] # << >>
      BY <1>1 DEF Emit, PipeInv, PipeTyped
    <3>2. next \in Outgoing
      BY <3>1, HeadTailTyped
    <3> HIDE DEF next
    <3> QED
      BY <3>2 DEF Outgoing
  <2>2. sent' = [l \in Node \X Node |->
                    IF l \in links THEN Append(sent[l], next.message) ELSE sent[l]]
        /\ got' = got
    BY <1>1 DEF Emit
  <2>3. links \in SUBSET (Node \X Node)
    OBVIOUS
  <2> HIDE DEF next, links
  <2>4. Links!Send(next.message, links)
    BY <2>2 DEF Links!Send
  <2> QED
    BY <2>1, <2>3, <2>4 DEF Links!Next
<1>2. ASSUME NEW n \in Node, Receive(n) PROVE Links!Next
  <2> DEFINE next == Head(inbox[n])
             l == <<next.from, n>>
  <2>1. inbox[n] # << >> /\ sent' = sent
        /\ got' = [got EXCEPT ![l] = Append(got[l], next.message)]
    BY <1>2 DEF Receive
  <2>2. l \in Node \X Node
    BY <2>1, NextReceived
  <2>3. Len(got[l]) < Len(sent[l]) /\ sent[l][Len(got[l]) + 1] = next.message
    BY <2>1, ReceivedIsNext
  <2> HIDE DEF l, next
  <2>4. Links!Deliver(l)
    BY <2>1, <2>3 DEF Links!Deliver
  <2> QED
    BY <2>2, <2>4 DEF Links!Next
<1>3. \/ \E n \in Node : Submit(n) \/ TakeOutgoing(n) \/ SendToPeer(n) \/ Hang(n)
      \/ \E n, m \in Node : PeerWriter(n, m) \/ PeerReader(n, m)
      \/ UNCHANGED vars
      => UNCHANGED <<sent, got>>
  BY DEF Submit, TakeOutgoing, SendToPeer, Hang, PeerWriter, PeerReader, vars
<1> QED
  BY <1>1, <1>2, <1>3, PipeCases

\* The refinement: the outgoing task, the queues of the peers, the writers, the
\* sockets, the readers and the inbox, taken together, are one ordered channel
\* from every engine to every other, from which nothing is lost.
THEOREM OneChannel == Spec => InOrder
<1>1. Init => Links!Init
  BY DEF Init, Links!Init
<1>2. PipeInv /\ FlowInv /\ [Next]_vars => [Links!Next]_<<sent, got>>
  BY ChannelStep
<1> QED
  BY <1>1, <1>2, QueuesKept, PTL DEF Spec, InOrder, Links!Spec

=============================================================================
