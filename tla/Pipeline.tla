------------------------------ MODULE Pipeline ------------------------------
(***************************************************************************)
(* The way of a message from one engine to another through the tasks and   *)
(* bounded queues of a node (src/src/main.rs, src/src/node.rs and          *)
(* src/src/network.rs):                                                    *)
(*                                                                         *)
(*   main loop -> outgoing -> outgoing task -> a queue per peer -> writer  *)
(*     -> socket -> reader -> inbox -> main loop of the peer               *)
(*                                                                         *)
(* Every arrow awaits room at its target, and the outgoing task awaits the *)
(* peers of a broadcast one after the other.  The connections are those of *)
(* a settled mesh.  The engines are those of a network with f = 0 (two or  *)
(* three replicas), in which one vote is a quorum: a handler sends all it  *)
(* has to send for a number in one go, and one Checkpoint of another node  *)
(* moves the water marks.  The requests are all different.                 *)
(***************************************************************************)
EXTENDS Naturals, Sequences

CONSTANTS
    Node,
    Peers,       \* the other nodes in the order of a node's peer table
    Primary,     \* the primary of view 0, the only node that orders
    None,        \* the outgoing task is between two messages
    OutCap,      \* outgoing_tx and outgoing_rx (1000 in the code)
    PeerCap,     \* the queue of a PeerHandle (100)
    SocketCap,   \* what the sockets of a connection hold
    InCap,       \* message_tx and message_rx (1000)
    Interval,    \* checkpoint_interval (100)
    MaxSubmits,  \* bound on the client requests
    Hangable     \* the nodes that may stop running without closing anything

ASSUME PipelineAssumption ==
    /\ Primary \in Node
    /\ Peers \in [Node -> Seq(Node)]
    /\ \A n \in Node :
          /\ {Peers[n][i] : i \in DOMAIN Peers[n]} = Node \ {n}
          /\ \A i, j \in DOMAIN Peers[n] : Peers[n][i] = Peers[n][j] => i = j
          /\ Peers[n] # << >>
    /\ Hangable \subseteq Node
    /\ {OutCap, PeerCap, SocketCap, InCap} \subseteq Nat \ {0}
    /\ Interval \in Nat \ {0}
    /\ MaxSubmits \in Nat

\* How far the high water mark is above the low one.
Window == 2 * Interval

\* What the handlers of a window send, at most four messages for a number, and
\* what may be left of the number below fit the outgoing queue (1000 in the code).
ASSUME CapacityAssumption == 4 * Window + 3 <= OutCap

VARIABLES
    sequence,  \* the primary's counter
    stable,    \* stable_checkpoint of a node, its low water mark
    todo,      \* what the handler running in a main loop has yet to send
    outgoing,  \* the queue of outgoing_tx
    carried,   \* the message of the outgoing task and whom it still goes to
    queue,     \* queue[n][m]: the queue of n's PeerHandle for m
    socket,    \* socket[n][m]: written by n and not yet read by m
    inbox,     \* the queue of message_tx, with the senders
    hung,      \* the nodes that have stopped running
    submits,   \* client requests so far
    sent,      \* sent[<<n, m>>]: all that n's engine has sent to m
    got        \* got[<<n, m>>]: all that m's engine has received from n

vars == <<sequence, stable, todo, outgoing, carried, queue, socket, inbox, hung,
          submits, sent, got>>

-----------------------------------------------------------------------------
(* Messages and what a handler sends *)

Message == [type : {"PrePrepare", "Prepare", "Commit", "Checkpoint"},
            sequence : 1 .. MaxSubmits]
           \cup [type : {"Request"}]
Msg(type, s) == [type |-> type, sequence |-> s]

ASSUME NoneAssumption == None \notin [message : Message, to : Seq(Node)]

\* OutgoingMessage: a message and the peers it is for, in the table's order.
Broadcast(n, m) == [message |-> m, to |-> Peers[n]]
SendTo(p, m)    == [message |-> m, to |-> <<p>>]
IsFor(m, out)   == \E i \in DOMAIN out.to : out.to[i] = m

\* One vote is a quorum: whoever votes for a number prepares, commits and
\* executes it, and announces a checkpoint at the multiples of the interval.
Votes(n, s) ==
    LET votes == << Broadcast(n, Msg("Prepare", s)), Broadcast(n, Msg("Commit", s)) >>
    IN  IF s % Interval = 0 THEN Append(votes, Broadcast(n, Msg("Checkpoint", s)))
        ELSE votes

\* Beyond the high water mark a request is refused and its number lost.
RefusedNever(s) == FALSE
Refused(s) == s > stable[Primary] + Window

\* handle_request: the primary orders and votes.
Ordering(n) ==
    LET s == sequence + 1
    IN  /\ sequence' = s
        /\ todo' = [todo EXCEPT ![n] =
               IF Refused(s) THEN << >>
               ELSE << Broadcast(n, Msg("PrePrepare", s)) >> \o Votes(n, s)]

HandleRequest(n) ==
    /\ \/ n = Primary /\ Ordering(n)
       \/ /\ n # Primary
          /\ todo' = [todo EXCEPT ![n] =
                         <<SendTo(Primary, [type |-> "Request"])>>]
          /\ UNCHANGED sequence
    /\ UNCHANGED stable

\* A pre-prepare outside the water marks is refused.
HandlePrePrepare(n, s) ==
    /\ todo' = [todo EXCEPT ![n] =
           IF stable[n] < s /\ s <= stable[n] + Window THEN Votes(n, s) ELSE << >>]
    /\ UNCHANGED <<sequence, stable>>

\* The Checkpoint of one other node makes it stable.
HandleCheckpoint(n, s) ==
    /\ stable' = [stable EXCEPT ![n] = IF s > @ THEN s ELSE @]
    /\ UNCHANGED <<todo, sequence>>

\* process_message: the votes of others add nothing to a quorum of one.
ProcessMessage(n, m) ==
    \/ m.type = "Request" /\ HandleRequest(n)
    \/ m.type = "PrePrepare" /\ HandlePrePrepare(n, m.sequence)
    \/ m.type = "Checkpoint" /\ HandleCheckpoint(n, m.sequence)
    \/ m.type \in {"Prepare", "Commit"} /\ UNCHANGED <<todo, sequence, stable>>

-----------------------------------------------------------------------------
(* The main loop *)

Submit(n) ==
    /\ todo[n] = << >>
    /\ submits < MaxSubmits
    /\ submits' = submits + 1
    /\ HandleRequest(n)
    /\ UNCHANGED <<outgoing, carried, queue, socket, inbox, hung, sent, got>>

Receive(n) ==
    /\ todo[n] = << >>
    /\ inbox[n] # << >>
    /\ LET next == Head(inbox[n])
       IN  /\ got' = [got EXCEPT ![<<next.from, n>>] = Append(@, next.message)]
           /\ ProcessMessage(n, next.message)
    /\ inbox' = [inbox EXCEPT ![n] = Tail(@)]
    /\ UNCHANGED <<outgoing, carried, queue, socket, hung, submits, sent>>

\* The handler's next send on outgoing_tx.
Emit(n) ==
    /\ todo[n] # << >>
    /\ Len(outgoing[n]) < OutCap
    /\ LET next == Head(todo[n])
       IN  /\ outgoing' = [outgoing EXCEPT ![n] = Append(@, next)]
           /\ sent' = [l \in Node \X Node |->
                  IF l[1] = n /\ IsFor(l[2], next)
                  THEN Append(sent[l], next.message) ELSE sent[l]]
    /\ todo' = [todo EXCEPT ![n] = Tail(@)]
    /\ UNCHANGED <<sequence, stable, carried, queue, socket, inbox, hung, submits,
                   got>>

-----------------------------------------------------------------------------
(* The outgoing task, the writers and the readers *)

TakeOutgoing(n) ==
    /\ carried[n] = None
    /\ outgoing[n] # << >>
    /\ carried' = [carried EXCEPT ![n] = Head(outgoing[n])]
    /\ outgoing' = [outgoing EXCEPT ![n] = Tail(@)]
    /\ UNCHANGED <<sequence, stable, todo, queue, socket, inbox, hung, submits, sent,
                   got>>

\* PeerHandle::send awaits room in the peer's queue.
EnqueueUnbounded(n, m, message) ==
    queue' = [queue EXCEPT ![n][m] = Append(@, message)]
EnqueueOrDrop(n, m, message) ==
    IF Len(queue[n][m]) < PeerCap
    THEN queue' = [queue EXCEPT ![n][m] = Append(@, message)]
    ELSE UNCHANGED queue
Enqueue(n, m, message) ==
    /\ Len(queue[n][m]) < PeerCap
    /\ queue' = [queue EXCEPT ![n][m] = Append(@, message)]

\* The rest of the peers wait until the queue of the first has room.
SendToPeer(n) ==
    /\ carried[n] # None
    /\ Enqueue(n, Head(carried[n].to), carried[n].message)
    /\ carried' = [carried EXCEPT ![n] =
           IF Len(@.to) = 1 THEN None
           ELSE [message |-> @.message, to |-> Tail(@.to)]]
    /\ UNCHANGED <<sequence, stable, todo, outgoing, socket, inbox, hung, submits,
                   sent, got>>

PeerWriter(n, m) ==
    /\ queue[n][m] # << >>
    /\ Len(socket[n][m]) < SocketCap
    /\ socket' = [socket EXCEPT ![n][m] = Append(@, Head(queue[n][m]))]
    /\ queue' = [queue EXCEPT ![n][m] = Tail(@)]
    /\ UNCHANGED <<sequence, stable, todo, outgoing, carried, inbox, hung, submits,
                   sent, got>>

PeerReader(n, m) ==
    /\ socket[n][m] # << >>
    /\ Len(inbox[m]) < InCap
    /\ inbox' = [inbox EXCEPT ![m] =
                    Append(@, [from |-> n, message |-> Head(socket[n][m])])]
    /\ socket' = [socket EXCEPT ![n][m] = Tail(@)]
    /\ UNCHANGED <<sequence, stable, todo, outgoing, carried, queue, hung, submits,
                   sent, got>>

-----------------------------------------------------------------------------
\* The process is stopped, or cut off without a reset: its sockets stay open.
Hang(n) ==
    /\ n \in Hangable
    /\ hung' = hung \cup {n}
    /\ UNCHANGED <<sequence, stable, todo, outgoing, carried, queue, socket, inbox,
                   submits, sent, got>>

Init ==
    /\ sequence = 0
    /\ stable = [n \in Node |-> 0]
    /\ todo = [n \in Node |-> << >>]
    /\ outgoing = [n \in Node |-> << >>]
    /\ carried = [n \in Node |-> None]
    /\ queue = [n \in Node |-> [m \in Node |-> << >>]]
    /\ socket = [n \in Node |-> [m \in Node |-> << >>]]
    /\ inbox = [n \in Node |-> << >>]
    /\ hung = {}
    /\ submits = 0
    /\ sent = [l \in Node \X Node |-> << >>]
    /\ got = [l \in Node \X Node |-> << >>]

\* The tasks of a node that go on without a client.
Task(n) ==
    \/ Receive(n)
    \/ Emit(n)
    \/ TakeOutgoing(n)
    \/ SendToPeer(n)
    \/ \E m \in Node : PeerWriter(n, m)
    \/ \E m \in Node : PeerReader(m, n)

Next ==
    \/ \E n \in Node \ hung : Submit(n) \/ Task(n)
    \/ \E n \in Node \ hung : Hang(n)

Spec == Init /\ [][Next]_vars

\* Tokio runs every ready task of a running node.  There are finitely many
\* messages, so that it is enough to be fair to the tasks of a node together.
FairSpec == Spec /\ \A n \in Node : WF_vars(n \notin hung /\ Task(n))

-----------------------------------------------------------------------------
(* Properties *)

\* Every variable keeps its type and every queue its capacity, and no node
\* takes for stable what the primary has not ordered.
TypeOK ==
    /\ sequence \in 0 .. MaxSubmits
    /\ \A n \in Node :
          /\ stable[n] \in 0 .. sequence
          /\ Len(outgoing[n]) <= OutCap
          /\ Len(inbox[n]) <= InCap
          /\ \A m \in Node :
                /\ sent[<<n, m>>] \in Seq(Message)
                /\ got[<<n, m>>] \in Seq(Message)
                /\ Len(queue[n][m]) <= PeerCap
                /\ Len(socket[n][m]) <= SocketCap
    /\ hung \subseteq Hangable
    /\ submits \in 0 .. MaxSubmits

\* The handlers of the primary never wait for room in outgoing_tx, under any
\* load and however slow the tasks behind the queue are: the window moves only
\* when another node answers a pre-prepare, which has then left the queue.  So
\* the main loop of the primary always gets back to its inbox.
PrimaryNeverWaits ==
    todo[Primary] # << >> => Len(outgoing[Primary]) < OutCap

Links == INSTANCE Channel WITH Link <- Node \X Node

\* Five tasks and four queues together are one ordered channel from every
\* engine to every other: nothing is lost, duplicated or overtaken.
InOrder == Links!Spec

\* DOCUMENTATION.md on the broadcast: "We clone the peer list to avoid holding
\* the lock while sending. This prevents deadlocks and allows concurrent sends."
\* While all nodes run, again and again everything that was sent has been
\* handled.  Between two nodes it is so, for one of them is the primary.  Among
\* three it is not: two backups can fill each other's queues, and then the main
\* loops of both wait for room in outgoing_tx, for good.
AllHandled == []<>(got = sent \/ hung # {})

=============================================================================
