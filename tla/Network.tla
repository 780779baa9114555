------------------------------ MODULE Network -------------------------------
(***************************************************************************)
(* How the nodes find each other: the listener, the handshake, the peer    *)
(* table and peer discovery of src/src/network.rs, driven by the startup   *)
(* of src/src/main.rs and of the library's NodeBuilder (src/src/node.rs).  *)
(*                                                                         *)
(* A connection is a record of what its two ends are doing.  At each end a *)
(* reader task owns the read half of the socket and a writer task the      *)
(* write half; the writer lives as long as the PeerHandle in the table,    *)
(* and dropping the write half is what the remote reader sees as the end   *)
(* of the stream.  A node's address stands for the node.  The messages     *)
(* that travel on an open connection are left to module Pipeline.          *)
(***************************************************************************)
EXTENDS Naturals, Sequences, FiniteSets

CONSTANTS
    Node,         \* the node ids
    None,         \* no entry in the peer table, no ack yet
    Deployments,  \* the -b options of the nodes, and the nodes that may fail
    Library,      \* the nodes made by NodeBuilder: they dial before they listen
    MaxFaults     \* bound on the processes that end and the readers that fail

\* The k-th connection that n has opened to m.
Id == Node \X Node \X Nat

ASSUME NetworkAssumption ==
    /\ IsFiniteSet(Node)
    /\ Deployments \subseteq [options : [Node -> Seq(Node)],
                              failing : SUBSET Node]
    /\ \A D \in Deployments, n \in Node :
          \A i \in DOMAIN D.options[n] : D.options[n][i] # n
    /\ Library \subseteq Node
    /\ MaxFaults \in Nat
    /\ None \notin Id

VARIABLES
    deployment,  \* the one of Deployments in use
    up,          \* is the process running?
    listening,   \* has start_listener bound its port?
    bootstrap,   \* the bootstrap addresses not yet tried
    dials,       \* dials[n][m]: tasks spawned by discovery at n to connect to m
    conns,       \* every connection ever opened, by its id
    peers,       \* peers[n][m]: the connection behind n's handle for m, or None
    disturbed,   \* has a node been started before the others had settled, or
                 \* a reader failed?
    faults

vars == <<deployment, up, listening, bootstrap, dials, conns, peers, disturbed,
          faults>>
processVars == <<deployment, up, listening, disturbed, faults>>

-----------------------------------------------------------------------------
(* Connections *)

Side == {"dialer", "acceptor"}
Other(side) == IF side = "dialer" THEN "acceptor" ELSE "dialer"

\* "acked": the acceptor has sent the ack and has not stored the peer yet.
Reader == {"handshake", "acked", "running", "ended"}

Connection ==
    [discovers : BOOLEAN, known : (SUBSET Node) \cup {None},
     reader : [Side -> Reader], writing : [Side -> BOOLEAN]]

NewConnection(discovers) ==
    [discovers |-> discovers, known |-> None,
     reader |-> [side \in Side |-> "handshake"],
     writing |-> [side \in Side |-> TRUE]]

Local(c, side)  == IF side = "dialer" THEN c[1] ELSE c[2]
Remote(c, side) == Local(c, Other(side))

\* The handle in the local table sends on this connection.
Holds(c, side) == peers[Local(c, side)][Remote(c, side)] = c

\* The read half sees the end of the stream.
AtEnd(c, side) == ~conns[c].writing[Other(side)]

\* The insert into the HashMap: a handle that was there is dropped.
InsertUnderOwnId(c, side) ==
    peers' = [peers EXCEPT ![Local(c, side)][Local(c, side)] = c]
Insert(c, side) ==
    peers' = [peers EXCEPT ![Local(c, side)][Remote(c, side)] = c]

\* The remove from the HashMap goes by node id, whichever handle is there.
RemoveNothing(c, side) == UNCHANGED peers
Remove(c, side) ==
    peers' = [peers EXCEPT ![Local(c, side)][Remote(c, side)] = None]

-----------------------------------------------------------------------------
(* The dialing end: connect_to_peer *)

\* Network::connect_to_peer, awaited by the startup, has not returned yet.
Connecting(n) ==
    \E c \in DOMAIN conns :
        /\ conns[c].discovers
        /\ Local(c, "dialer") = n
        /\ conns[c].reader["dialer"] = "handshake"

\* TcpStream::connect and the handshake message; nobody listening is an error.
Dial(n, m, discovers) ==
    LET earlier == {c \in DOMAIN conns : c[1] = n /\ c[2] = m}
        id == <<n, m, Cardinality(earlier) + 1>>
    IN  IF listening[m]
        THEN conns' = [c \in DOMAIN conns \cup {id} |->
                          IF c = id THEN NewConnection(discovers) ELSE conns[c]]
        ELSE UNCHANGED conns

\* The bootstrap addresses are tried one after the other, each once.
DialBootstrap(n) ==
    /\ up[n]
    /\ bootstrap[n] # << >>
    /\ ~Connecting(n)
    /\ Dial(n, Head(bootstrap[n]), TRUE)
    /\ bootstrap' = [bootstrap EXCEPT ![n] = Tail(@)]
    /\ UNCHANGED <<processVars, dials, peers>>

\* A task spawned by discovery: it dials even if the peer is known by now, and
\* does not discover further peers.
DialDiscovered(n, m) ==
    /\ dials[n][m] > 0
    /\ Dial(n, m, FALSE)
    /\ dials' = [dials EXCEPT ![n][m] = @ - 1]
    /\ UNCHANGED <<processVars, bootstrap, peers>>

\* The peers of the ack that are neither this node nor in its table.
DiscoveredInverted(c) ==
    {m \in conns[c].known \ {Local(c, "dialer")} :
        peers[Local(c, "dialer")][m] # None}
Discovered(c) ==
    {m \in conns[c].known \ {Local(c, "dialer")} :
        peers[Local(c, "dialer")][m] = None}

\* The ack arrives: the peer is stored, its tasks start, and a task is spawned
\* for every discovered peer.
DialerConnected(c) ==
    /\ conns[c].reader["dialer"] = "handshake"
    /\ conns[c].known # None
    /\ Insert(c, "dialer")
    /\ conns' = [conns EXCEPT ![c].reader["dialer"] = "running",
                              ![c].known = {}]
    /\ IF conns[c].discovers
       THEN dials' = [dials EXCEPT ![Local(c, "dialer")] = [m \in Node |->
                         @[m] + IF m \in Discovered(c) THEN 1 ELSE 0]]
       ELSE UNCHANGED dials
    /\ UNCHANGED <<processVars, bootstrap>>

-----------------------------------------------------------------------------
(* The accepting end: handle_incoming_connection *)

\* The handshake is answered with the peers known before this one is stored.
SendAck(c) ==
    /\ conns[c].reader["acceptor"] = "handshake"
    /\ conns' = [conns EXCEPT
           ![c].reader["acceptor"] = "acked",
           ![c].known = {m \in Node : peers[Local(c, "acceptor")][m] # None}]
    /\ UNCHANGED <<processVars, bootstrap, dials, peers>>

AcceptorConnected(c) ==
    /\ conns[c].reader["acceptor"] = "acked"
    /\ Insert(c, "acceptor")
    /\ conns' = [conns EXCEPT ![c].reader["acceptor"] = "running"]
    /\ UNCHANGED <<processVars, bootstrap, dials>>

\* The stream ends before the ack, or before the handshake is read and answered:
\* connect_to_peer and handle_incoming_connection return an error.
HandshakeFails(c, side) ==
    /\ conns[c].reader[side] = "handshake"
    /\ side = "dialer" => conns[c].known = None
    /\ AtEnd(c, side)
    /\ conns' = [conns EXCEPT ![c].reader[side] = "ended",
                              ![c].writing[side] = FALSE]
    /\ UNCHANGED <<processVars, bootstrap, dials, peers>>

-----------------------------------------------------------------------------
(* The reader and the writer of an end *)

\* peer_writer: every sender is gone, so the queue is drained and ends.  (A
\* write that fails because the remote socket is closed ends the writer too,
\* but then the reader is at the end of the stream and does the rest.)
WriterEnds(c, side) ==
    /\ conns[c].writing[side]
    /\ conns[c].reader[side] \in {"running", "ended"}
    /\ ~Holds(c, side)
    /\ conns' = [conns EXCEPT ![c].writing[side] = FALSE]
    /\ UNCHANGED <<processVars, bootstrap, dials, peers>>

\* peer_reader returns, and whatever handle the table has for the peer goes.
ReaderReturns(c, side) ==
    /\ conns[c].reader[side] = "running"
    /\ Remove(c, side)
    /\ conns' = [conns EXCEPT ![c].reader[side] = "ended"]
    /\ UNCHANGED <<bootstrap, dials>>

ReaderEnds(c, side) ==
    /\ AtEnd(c, side)
    /\ ReaderReturns(c, side)
    /\ UNCHANGED processVars

\* receive_message gives up on a frame that is too large.
ReaderFails(c, side) ==
    /\ Local(c, side) \in deployment.failing
    /\ faults < MaxFaults
    /\ faults' = faults + 1
    /\ disturbed' = TRUE
    /\ ReaderReturns(c, side)
    /\ UNCHANGED <<deployment, up, listening>>

-----------------------------------------------------------------------------
(* Processes *)

\* Nothing is under way: no connection being opened or closed.
Settled ==
    /\ \A n \in Node : up[n] => listening[n]
    /\ \A n \in Node : bootstrap[n] = << >> /\ \A m \in Node : dials[n][m] = 0
    /\ \A c \in DOMAIN conns, side \in Side :
          /\ conns[c].reader[side] \in {"running", "ended"}
          /\ conns[c].writing[side] => Holds(c, side)
          /\ conns[c].reader[side] = "running" => ~AtEnd(c, side)

\* main.rs listens before it dials, NodeBuilder::build_and_connect after.
Start(n) ==
    /\ ~up[n]
    /\ up' = [up EXCEPT ![n] = TRUE]
    /\ listening' = [listening EXCEPT ![n] = n \notin Library]
    /\ bootstrap' = [bootstrap EXCEPT ![n] = deployment.options[n]]
    /\ disturbed' = (\/ disturbed
                     \/ ~Settled
                     \/ \E i \in DOMAIN deployment.options[n] :
                           ~up[deployment.options[n][i]])
    /\ UNCHANGED <<deployment, dials, conns, peers, faults>>

\* Node::start, called once build_and_connect has returned.
Listen(n) ==
    /\ up[n]
    /\ ~listening[n]
    /\ bootstrap[n] = << >>
    /\ ~Connecting(n)
    /\ listening' = [listening EXCEPT ![n] = TRUE]
    /\ UNCHANGED <<deployment, up, bootstrap, dials, conns, peers, disturbed,
                   faults>>

\* The process exits and the system closes its sockets.
Crash(n) ==
    /\ up[n]
    /\ n \in deployment.failing
    /\ faults < MaxFaults
    /\ faults' = faults + 1
    /\ up' = [up EXCEPT ![n] = FALSE]
    /\ listening' = [listening EXCEPT ![n] = FALSE]
    /\ bootstrap' = [bootstrap EXCEPT ![n] = << >>]
    /\ dials' = [dials EXCEPT ![n] = [m \in Node |-> 0]]
    /\ peers' = [peers EXCEPT ![n] = [m \in Node |-> None]]
    /\ conns' = [c \in DOMAIN conns |-> [conns[c] EXCEPT
           !.reader = [side \in Side |->
               IF Local(c, side) = n THEN "ended" ELSE @[side]],
           !.writing = [side \in Side |-> @[side] /\ Local(c, side) # n]]]
    /\ UNCHANGED <<deployment, disturbed>>

Init ==
    /\ deployment \in Deployments
    /\ up = [n \in Node |-> FALSE]
    /\ listening = [n \in Node |-> FALSE]
    /\ bootstrap = [n \in Node |-> << >>]
    /\ dials = [n \in Node |-> [m \in Node |-> 0]]
    /\ conns = [c \in {} |-> NewConnection(FALSE)]
    /\ peers = [n \in Node |-> [m \in Node |-> None]]
    /\ disturbed = FALSE
    /\ faults = 0

\* The steps of the tasks of running nodes.
NodeStep(n) ==
    \/ Listen(n)
    \/ DialBootstrap(n)
    \/ \E m \in Node : DialDiscovered(n, m)
ConnectionStep(c) ==
    \/ DialerConnected(c)
    \/ SendAck(c)
    \/ AcceptorConnected(c)
    \/ \E side \in Side :
          \/ HandshakeFails(c, side)
          \/ WriterEnds(c, side)
          \/ ReaderEnds(c, side)

Next ==
    \/ \E n \in Node : Start(n) \/ Crash(n) \/ NodeStep(n)
    \/ \E c \in DOMAIN conns :
          ConnectionStep(c) \/ \E side \in Side : ReaderFails(c, side)

Spec == Init /\ [][Next]_vars

Progress ==
    \/ \E n \in Node : NodeStep(n)
    \/ \E c \in DOMAIN conns : ConnectionStep(c)

\* Tokio runs every task that is ready.  Every task takes finitely many steps,
\* so that the steps of all tasks together need be fair, not each of them.
FairSpec == Spec /\ WF_vars(Progress)

=============================================================================
