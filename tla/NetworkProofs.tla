--------------------------- MODULE NetworkProofs ----------------------------
(***************************************************************************)
(* Theorems about the peer tables of module Network, for any set of nodes, *)
(* any -b options that do not name the node itself, and any crashes.       *)
(***************************************************************************)
EXTENDS NetworkProperties, FiniteSetTheorems, TLAPS

-----------------------------------------------------------------------------
(* The inductive invariant *)

\* Nobody dials itself: the options name others, and discovery skips the node.
NoSelfDials ==
    /\ \A n \in Node : \A i \in DOMAIN bootstrap[n] : bootstrap[n][i] # n
    /\ \A n \in Node : dials[n][n] = 0
    /\ \A c \in DOMAIN conns : c[1] # c[2]

\* The connections from n to m are numbered from 1 on without a gap, so that a
\* new connection never takes the id of an old one.
Numbered ==
    \A n, m \in Node : \E k \in Nat :
        \A i \in Nat : <<n, m, i>> \in DOMAIN conns <=> i \in 1 .. k

\* A handle in a table belongs to a connection whose reader is running at that
\* end: the reader removes the entry when it ends, and the entry is inserted
\* before the reader starts.
HeldIsRead ==
    \A c \in DOMAIN conns, side \in Side :
        Holds(c, side) => conns[c].reader[side] = "running"

NetworkInv == TypeOK /\ NoSelfDials /\ Numbered /\ HeldIsRead

-----------------------------------------------------------------------------
(* Connections *)

\* The two ends of a connection.
LEMMA Ends ==
    ASSUME NEW c \in Id, NEW side \in Side
    PROVE  /\ Other(side) \in Side
           /\ Other(side) # side
           /\ Other(Other(side)) = side
           /\ Local(c, side) \in Node
           /\ Remote(c, side) \in Node
           /\ Remote(c, Other(side)) = Local(c, side)
           /\ Local(c, Other(side)) = Remote(c, side)
           /\ {Local(c, side), Remote(c, side)} = {c[1], c[2]}
BY DEF Id, Side, Other, Local, Remote

\* Of the first k connections from n to m there are k.
Earlier(n, m, k) == {<<n, m, i>> : i \in 1 .. k}

LEMMA CountEarlier ==
    ASSUME NEW n, NEW m, NEW k \in Nat
    PROVE  Cardinality(Earlier(n, m, k)) = k
<1> DEFINE S == Earlier(n, m, k)
           g == [i \in 1 .. k |-> <<n, m, i>>]
<1>1. g \in Bijection(1 .. k, S)
  <2>1. g \in [1 .. k -> S]
    BY DEF Earlier
  <2>2. \A i, j \in 1 .. k : g[i] = g[j] => i = j
    OBVIOUS
  <2>3. \A s \in S : \E i \in 1 .. k : g[i] = s
    BY DEF Earlier
  <2> QED
    BY <2>1, <2>2, <2>3 DEF Bijection, Injection, IsInjective, Surjection
<1>2. ExistsBijection(1 .. k, S)
  BY <1>1 DEF ExistsBijection
<1> QED
  BY <1>2, FS_CountingElements

\* The connection opened is the first from n to m that does not exist yet.
Opens(n, m, discovers, k) ==
    /\ \A i \in Nat : <<n, m, i>> \in DOMAIN conns <=> i \in 1 .. k
    /\ <<n, m, k + 1>> \notin DOMAIN conns
    /\ listening[m]
    /\ DOMAIN conns' = DOMAIN conns \cup {<<n, m, k + 1>>}
    /\ conns'[<<n, m, k + 1>>] = NewConnection(discovers)
    /\ \A c \in DOMAIN conns : conns'[c] = conns[c]

\* A dial finds nobody listening or opens a connection with a new id.
LEMMA DialEffect ==
    ASSUME NetworkInv, NEW n \in Node, NEW m \in Node,
           NEW discovers \in BOOLEAN, Dial(n, m, discovers)
    PROVE  \/ conns' = conns
           \/ \E k \in Nat : Opens(n, m, discovers, k)
<1> DEFINE earlier == {c \in DOMAIN conns : c[1] = n /\ c[2] = m}
<1>1. PICK k \in Nat : \A i \in Nat :
           <<n, m, i>> \in DOMAIN conns <=> i \in 1 .. k
  BY DEF NetworkInv, Numbered
<1>2. earlier = Earlier(n, m, k)
  <2>1. ASSUME NEW c \in earlier PROVE c \in Earlier(n, m, k)
    <3>1. c \in Node \X Node \X Nat
      BY DEF NetworkInv, TypeOK, Id
    <3>2. c = <<n, m, c[3]>> /\ c[3] \in Nat
      BY <3>1
    <3> QED
      BY <1>1, <3>2 DEF Earlier
  <2>2. \A i \in 1 .. k : <<n, m, i>> \in earlier
    BY <1>1
  <2> QED
    BY <2>1, <2>2 DEF Earlier
<1>3. Cardinality(earlier) = k
  BY <1>2, CountEarlier
<1>4. <<n, m, k + 1>> \notin DOMAIN conns
  BY <1>1
<1> QED
  BY <1>1, <1>3, <1>4 DEF Dial, Opens

-----------------------------------------------------------------------------
(* The invariant holds *)

\* No process runs at the start.
LEMMA NetworkInit == Init => NetworkInv
<1> SUFFICES ASSUME Init PROVE NetworkInv
  OBVIOUS
<1> USE DEF Init
<1>1. DOMAIN conns = {}
  OBVIOUS
<1>2. TypeOK
  <2>1. /\ bootstrap \in [Node -> Seq(Node)]
        /\ peers \in [Node -> [Node -> DOMAIN conns \cup {None}]]
        /\ dials \in [Node -> [Node -> Nat]]
    OBVIOUS
  <2>2. faults \in 0 .. MaxFaults
    BY NetworkAssumption
  <2> QED
    BY <1>1, <2>1, <2>2 DEF TypeOK
<1>3. NoSelfDials
  BY <1>1 DEF NoSelfDials
<1>4. Numbered
  <2> SUFFICES ASSUME NEW n \in Node, NEW m \in Node
               PROVE  \E k \in Nat : \A i \in Nat :
                         <<n, m, i>> \in DOMAIN conns <=> i \in 1 .. k
    BY DEF Numbered
  <2>1. \A i \in Nat : <<n, m, i>> \in DOMAIN conns <=> i \in 1 .. 0
    BY <1>1
  <2> QED
    BY <2>1
<1>5. HeldIsRead
  BY <1>1 DEF HeldIsRead
<1> QED
  BY <1>2, <1>3, <1>4, <1>5 DEF NetworkInv

\* Every step is one of a node or of a connection.
LEMMA NetworkCases ==
    ASSUME [Next]_vars
    PROVE  \/ \E n \in Node : Start(n)
           \/ \E n \in Node : Crash(n)
           \/ \E n \in Node : Listen(n)
           \/ \E n \in Node : DialBootstrap(n)
           \/ \E n, m \in Node : DialDiscovered(n, m)
           \/ \E c \in DOMAIN conns : DialerConnected(c)
           \/ \E c \in DOMAIN conns : SendAck(c)
           \/ \E c \in DOMAIN conns : AcceptorConnected(c)
           \/ \E c \in DOMAIN conns, side \in Side : HandshakeFails(c, side)
           \/ \E c \in DOMAIN conns, side \in Side : WriterEnds(c, side)
           \/ \E c \in DOMAIN conns, side \in Side : ReaderEnds(c, side)
           \/ \E c \in DOMAIN conns, side \in Side : ReaderFails(c, side)
           \/ UNCHANGED vars
BY DEF Next, NodeStep, ConnectionStep

\* A new connection is held by nobody and disturbs no other.
LEMMA OpenedKeeps ==
    ASSUME NetworkInv, NEW n \in Node, NEW m \in Node, n # m,
           NEW discovers \in BOOLEAN, Dial(n, m, discovers),
           UNCHANGED peers
    PROVE  /\ DOMAIN conns \subseteq DOMAIN conns' /\ DOMAIN conns' \subseteq Id
           /\ \A c \in DOMAIN conns' : conns'[c] \in Connection /\ c[1] # c[2]
           /\ Numbered'
           /\ HeldIsRead'
<1>1. CASE conns' = conns
  BY <1>1 DEF NetworkInv, TypeOK, NoSelfDials, Numbered, HeldIsRead, Holds
<1>2. CASE ~ conns' = conns
  <2>0. PICK k \in Nat : Opens(n, m, discovers, k)
    BY <1>2, DialEffect
  <2>1. /\ \A i \in Nat : <<n, m, i>> \in DOMAIN conns <=> i \in 1 .. k
        /\ <<n, m, k + 1>> \notin DOMAIN conns
        /\ DOMAIN conns' = DOMAIN conns \cup {<<n, m, k + 1>>}
        /\ conns'[<<n, m, k + 1>>] = NewConnection(discovers)
        /\ \A c \in DOMAIN conns : conns'[c] = conns[c]
    BY <2>0 DEF Opens
  <2> DEFINE id == <<n, m, k + 1>>
  <2>2. id \in Id /\ id[1] = n /\ id[2] = m
    BY DEF Id
  <2>3. DOMAIN conns' = DOMAIN conns \cup {id}
    BY <2>1
  <2>4. NewConnection(discovers) \in Connection
    BY DEF NewConnection, Connection, Side, Reader
  <2>5. DOMAIN conns \subseteq DOMAIN conns' /\ DOMAIN conns' \subseteq Id
    BY <2>2, <2>3 DEF NetworkInv, TypeOK
  <2>6. \A c \in DOMAIN conns' : conns'[c] \in Connection /\ c[1] # c[2]
    BY <2>1, <2>2, <2>3, <2>4 DEF NetworkInv, TypeOK, NoSelfDials
  <2>7. Numbered'
    <3> SUFFICES ASSUME NEW a \in Node, NEW b \in Node
                 PROVE  \E l \in Nat : \A i \in Nat :
                           <<a, b, i>> \in DOMAIN conns' <=> i \in 1 .. l
      BY DEF Numbered
    <3>1. CASE a = n /\ b = m
      <4>1. \A i \in Nat : <<a, b, i>> \in DOMAIN conns' <=> i \in 1 .. k + 1
        <5> SUFFICES ASSUME NEW i \in Nat
                     PROVE  <<a, b, i>> \in DOMAIN conns' <=> i \in 1 .. k + 1
          OBVIOUS
        <5>1. <<a, b, i>> \in DOMAIN conns' <=> <<a, b, i>> \in DOMAIN conns \/ i = k + 1
          BY <2>3, <3>1
        <5>2. <<a, b, i>> \in DOMAIN conns <=> i \in 1 .. k
          BY <2>1, <3>1
        <5> QED
          BY <2>1, <5>1, <5>2
      <4> QED
        BY <2>1, <4>1
    <3>2. CASE ~(a = n /\ b = m)
      <4>1. \A i \in Nat : <<a, b, i>> \in DOMAIN conns' <=> <<a, b, i>> \in DOMAIN conns
        BY <2>3, <3>2
      <4>2. \E l \in Nat : \A i \in Nat : <<a, b, i>> \in DOMAIN conns <=> i \in 1 .. l
        BY DEF NetworkInv, Numbered
      <4> QED
        BY <4>1, <4>2
    <3> QED
      BY <3>1, <3>2
  <2>8. HeldIsRead'
    <3> SUFFICES ASSUME NEW c \in DOMAIN conns', NEW side \in Side, Holds(c, side)
                 PROVE  conns'[c].reader[side] = "running"
      BY DEF HeldIsRead, Holds
    <3>1. c \in Id
      BY <2>5
    <3>2. c # id
      <4>1. Local(c, side) \in Node /\ Remote(c, side) \in Node
        BY <3>1, Ends
      <4>2. c \in DOMAIN conns \cup {None}
        BY <4>1 DEF Holds, NetworkInv, TypeOK
      <4> QED
        BY <2>1, <2>2, <4>2, NetworkAssumption
    <3> QED
      BY <2>1, <2>3, <3>2 DEF NetworkInv, HeldIsRead
  <2> QED
    BY <2>5, <2>6, <2>7, <2>8
<1> QED
  BY <1>1, <1>2

\* Inserting the own connection into the table: the entry is the connection's,
\* and no other connection gains an entry.
LEMMA InsertEffect ==
    ASSUME NetworkInv, NEW c \in DOMAIN conns, NEW side \in Side, Insert(c, side)
    PROVE  /\ peers' \in [Node -> [Node -> DOMAIN conns \cup {None}]]
           /\ \A n, m \in Node : peers'[n][m] =
                 IF n = Local(c, side) /\ m = Remote(c, side) THEN c ELSE peers[n][m]
<1>1. Local(c, side) \in Node /\ Remote(c, side) \in Node
  BY Ends DEF NetworkInv, TypeOK
<1> QED
  BY <1>1 DEF Insert, NetworkInv, TypeOK

LEMMA RemoveEffect ==
    ASSUME NetworkInv, NEW c \in DOMAIN conns, NEW side \in Side, Remove(c, side)
    PROVE  /\ peers' \in [Node -> [Node -> DOMAIN conns \cup {None}]]
           /\ \A n, m \in Node : peers'[n][m] =
                 IF n = Local(c, side) /\ m = Remote(c, side) THEN None ELSE peers[n][m]
<1>1. Local(c, side) \in Node /\ Remote(c, side) \in Node
  BY Ends DEF NetworkInv, TypeOK
<1> QED
  BY <1>1 DEF Remove, NetworkInv, TypeOK

\* The step of a connection after its dial: no id is added, and what has to be
\* shown is about the tables and the readers.
LEMMA SameIdsOfFaults ==
    ASSUME NetworkInv, DOMAIN conns' = DOMAIN conns,
           \A c \in DOMAIN conns : conns'[c] \in Connection,
           peers' \in [Node -> [Node -> DOMAIN conns \cup {None}]],
           \A n, m \in Node : peers'[n][m] # None => peers'[n][m] = peers[n][m]
              \/ \E side \in Side : /\ Local(peers'[n][m], side) = n
                                     /\ Remote(peers'[n][m], side) = m,
           dials' \in [Node -> [Node -> Nat]],
           \A n \in Node : dials'[n][n] = 0,
           UNCHANGED <<deployment, up, listening, bootstrap>>,
           disturbed' \in BOOLEAN, faults' \in 0 .. MaxFaults,
           HeldIsRead'
    PROVE  NetworkInv'
<1>1. TypeOK'
  <2>1. ASSUME NEW n \in Node, NEW m \in Node, peers'[n][m] # None
        PROVE  \E side \in Side : /\ Local(peers'[n][m], side) = n
                                  /\ Remote(peers'[n][m], side) = m
    <3>1. CASE peers'[n][m] = peers[n][m]
      <4>1. peers[n][m] # None
        BY <2>1, <3>1
      <4>2. PICK side \in Side : Local(peers[n][m], side) = n /\ Remote(peers[n][m], side) = m
        BY <4>1 DEF NetworkInv, TypeOK
      <4> QED
        BY <3>1, <4>2
    <3>2. CASE peers'[n][m] # peers[n][m]
      BY <2>1, <3>2
    <3> QED
      BY <3>1, <3>2
  <2>2. \A n, m \in Node : peers'[n][m] # None =>
           \E side \in Side : /\ Local(peers[n][m], side)' = n
                              /\ Remote(peers[n][m], side)' = m
    BY <2>1 DEF Local, Remote, Other
  <2>3. /\ deployment' \in Deployments
        /\ up' \in [Node -> BOOLEAN]
        /\ listening' \in [Node -> BOOLEAN]
        /\ bootstrap' \in [Node -> Seq(Node)]
    BY DEF NetworkInv, TypeOK
  <2> QED
    BY <2>2, <2>3 DEF NetworkInv, TypeOK
<1>2. NoSelfDials'
  BY DEF NetworkInv, NoSelfDials
<1>3. Numbered'
  BY DEF NetworkInv, Numbered
<1> QED
  BY <1>1, <1>2, <1>3 DEF NetworkInv

LEMMA SameIds ==
    ASSUME NetworkInv, DOMAIN conns' = DOMAIN conns,
           \A c \in DOMAIN conns : conns'[c] \in Connection,
           peers' \in [Node -> [Node -> DOMAIN conns \cup {None}]],
           \A n, m \in Node : peers'[n][m] # None => peers'[n][m] = peers[n][m]
              \/ \E side \in Side : /\ Local(peers'[n][m], side) = n
                                     /\ Remote(peers'[n][m], side) = m,
           dials' \in [Node -> [Node -> Nat]],
           \A n \in Node : dials'[n][n] = 0,
           bootstrap' = bootstrap, UNCHANGED processVars,
           HeldIsRead'
    PROVE  NetworkInv'
<1>1. /\ UNCHANGED <<deployment, up, listening, bootstrap>>
      /\ disturbed' \in BOOLEAN /\ faults' \in 0 .. MaxFaults
  BY DEF NetworkInv, TypeOK, processVars
<1> QED
  BY <1>1, SameIdsOfFaults

\* The reader of one side of a connection that is not held moves on, or one
\* that is held keeps running, and the tables lose entries at most.
LEMMA ReaderMoves ==
    ASSUME NetworkInv, NEW c \in DOMAIN conns, NEW side \in Side,
           DOMAIN conns' = DOMAIN conns,
           \A d \in DOMAIN conns, s \in Side :
              <<d, s>> # <<c, side>> => conns'[d].reader[s] = conns[d].reader[s],
           \A n, m \in Node :
              peers'[n][m] \in {peers[n][m], None}
              \/ (n = Local(c, side) /\ m = Remote(c, side) /\ peers'[n][m] = c),
           conns'[c].reader[side] = "running" \/ ~Holds(c, side)'
    PROVE  HeldIsRead'
<1> SUFFICES ASSUME NEW d \in DOMAIN conns, NEW s \in Side, Holds(d, s)'
             PROVE  conns'[d].reader[s] = "running"
  BY DEF HeldIsRead
<1>1. CASE d = c /\ s = side
  BY <1>1
<1>2. CASE d = c /\ s # side
  <2>1. c \in Id /\ c[1] # c[2]
    BY DEF NetworkInv, TypeOK, NoSelfDials
  <2>2. Local(c, s) # Local(c, side)
    BY <1>2, <2>1 DEF Local, Side
  <2>3. Local(c, s) \in Node /\ Remote(c, s) \in Node
    BY <2>1, Ends
  <2>4. Holds(c, s)
    BY <1>2, <2>1, <2>2, <2>3, NetworkAssumption DEF Holds, Local, Remote, Other
  <2> QED
    BY <1>2, <2>4 DEF NetworkInv, HeldIsRead
<1>3. CASE d # c
  <2>1. c \in Id /\ d \in Id
    BY DEF NetworkInv, TypeOK
  <2>2. Local(d, s) \in Node /\ Remote(d, s) \in Node
    BY <2>1, Ends
  <2>3. Holds(d, s)
    BY <1>3, <2>1, <2>2, NetworkAssumption DEF Holds, Local, Remote, Other
  <2> QED
    BY <1>3, <2>3 DEF NetworkInv, HeldIsRead
<1> QED
  BY <1>1, <1>2, <1>3

\* Entries that stay the same or go are still connections between the two nodes.
LEMMA EndsKept ==
    ASSUME NetworkInv, \A n, m \in Node : peers'[n][m] \in {peers[n][m], None}
    PROVE  \A n, m \in Node : peers'[n][m] # None =>
              \E side \in Side : /\ Local(peers[n][m], side)' = n
                                 /\ Remote(peers[n][m], side)' = m
<1> SUFFICES ASSUME NEW n \in Node, NEW m \in Node, peers'[n][m] # None
             PROVE  \E side \in Side : /\ Local(peers[n][m], side)' = n
                                       /\ Remote(peers[n][m], side)' = m
  OBVIOUS
<1>1. peers'[n][m] = peers[n][m] /\ peers[n][m] # None
  OBVIOUS
<1>2. PICK side \in Side : Local(peers[n][m], side) = n /\ Remote(peers[n][m], side) = m
  BY <1>1 DEF NetworkInv, TypeOK
<1> QED
  BY <1>1, <1>2 DEF Local, Remote, Other

LEMMA StartKeeps ==
    ASSUME NetworkInv, NEW n \in Node, Start(n)
    PROVE  NetworkInv'
<1>1. /\ deployment.options \in [Node -> Seq(Node)]
      /\ \A i \in DOMAIN deployment.options[n] : deployment.options[n][i] # n
  BY NetworkAssumption DEF NetworkInv, TypeOK
<1>2. bootstrap' = [bootstrap EXCEPT ![n] = deployment.options[n]]
  BY DEF Start
<1>3. TypeOK'
  <2>1. bootstrap' \in [Node -> Seq(Node)]
    BY <1>1, <1>2 DEF NetworkInv, TypeOK
  <2>2. disturbed' \in BOOLEAN
    BY DEF Start, NetworkInv, TypeOK
  <2>3. \A m, k \in Node : peers'[m][k] # None =>
           \E side \in Side : /\ Local(peers[m][k], side)' = m
                              /\ Remote(peers[m][k], side)' = k
    BY EndsKept DEF Start
  <2> QED
    BY <2>1, <2>2, <2>3 DEF NetworkInv, TypeOK, Start
<1>4. NoSelfDials'
  BY <1>1, <1>2 DEF NetworkInv, NoSelfDials, Start, TypeOK
<1>5. Numbered' /\ HeldIsRead'
  BY DEF NetworkInv, Numbered, HeldIsRead, Holds, Start
<1> QED
  BY <1>3, <1>4, <1>5 DEF NetworkInv

LEMMA ListenKeeps ==
    ASSUME NetworkInv, NEW n \in Node, Listen(n)
    PROVE  NetworkInv'
<1>1. TypeOK'
  BY DEF NetworkInv, TypeOK, Listen, Local, Remote, Other
<1>2. NoSelfDials' /\ Numbered' /\ HeldIsRead'
  BY DEF NetworkInv, NoSelfDials, Numbered, HeldIsRead, Holds, Listen
<1> QED
  BY <1>1, <1>2 DEF NetworkInv

\* What a crash makes of a connection.
LEMMA CrashConnection ==
    ASSUME NetworkInv, NEW n \in Node, Crash(n)
    PROVE  /\ DOMAIN conns' = DOMAIN conns
           /\ \A c \in DOMAIN conns :
                 /\ conns'[c].discovers = conns[c].discovers
                 /\ conns'[c].known = conns[c].known
                 /\ conns'[c].reader = [side \in Side |->
                       IF Local(c, side) = n THEN "ended" ELSE conns[c].reader[side]]
                 /\ conns'[c].writing = [side \in Side |->
                       conns[c].writing[side] /\ Local(c, side) # n]
                 /\ conns'[c] \in Connection
<1>1. conns' = [c \in DOMAIN conns |-> [conns[c] EXCEPT
         !.reader = [side \in Side |-> IF Local(c, side) = n THEN "ended" ELSE @[side]],
         !.writing = [side \in Side |-> @[side] /\ Local(c, side) # n]]]
  BY DEF Crash
<1>2. \A c \in DOMAIN conns : conns[c] \in Connection
  BY DEF NetworkInv, TypeOK
<1>3. ASSUME NEW c \in DOMAIN conns
      PROVE  /\ conns'[c].discovers = conns[c].discovers
             /\ conns'[c].known = conns[c].known
             /\ conns'[c].reader = [side \in Side |->
                   IF Local(c, side) = n THEN "ended" ELSE conns[c].reader[side]]
             /\ conns'[c].writing = [side \in Side |->
                   conns[c].writing[side] /\ Local(c, side) # n]
             /\ conns'[c] \in Connection
  <2> DEFINE ended == [side \in Side |->
                         IF Local(c, side) = n THEN "ended" ELSE conns[c].reader[side]]
             silent == [side \in Side |-> conns[c].writing[side] /\ Local(c, side) # n]
  <2>1. conns'[c] = [conns[c] EXCEPT !.reader = ended, !.writing = silent]
    BY <1>1
  <2>2. ended \in [Side -> Reader]
    BY <1>2 DEF Connection, Reader
  <2>3. silent \in [Side -> BOOLEAN]
    OBVIOUS
  <2>4. conns[c] \in Connection
    BY <1>2
  <2> HIDE DEF ended, silent
  <2>5. /\ conns'[c].discovers = conns[c].discovers /\ conns'[c].known = conns[c].known
        /\ conns'[c].reader = ended /\ conns'[c].writing = silent
        /\ conns'[c] \in Connection
    BY <2>1, <2>2, <2>3, <2>4 DEF Connection
  <2> QED
    BY <2>5, Zenon DEF ended, silent
<1>4. DOMAIN conns' = DOMAIN conns
  BY <1>1
<1> QED
  BY <1>3, <1>4

\* The readers of a process that exits end with its table.
LEMMA CrashKeeps ==
    ASSUME NetworkInv, NEW n \in Node, Crash(n)
    PROVE  NetworkInv'
<1>1. /\ DOMAIN conns' = DOMAIN conns
      /\ \A c \in DOMAIN conns :
            /\ conns'[c].discovers = conns[c].discovers
            /\ conns'[c].known = conns[c].known
            /\ conns'[c].reader = [side \in Side |->
                  IF Local(c, side) = n THEN "ended" ELSE conns[c].reader[side]]
            /\ conns'[c] \in Connection
  BY CrashConnection
<1>2. /\ peers' \in [Node -> [Node -> DOMAIN conns \cup {None}]]
      /\ \A m, k \in Node : peers'[m][k] = IF m = n THEN None ELSE peers[m][k]
  BY DEF NetworkInv, TypeOK, Crash
<1>3. HeldIsRead'
  <2> SUFFICES ASSUME NEW c \in DOMAIN conns, NEW side \in Side, Holds(c, side)'
               PROVE  conns'[c].reader[side] = "running"
    BY <1>1 DEF HeldIsRead
  <2>1. c \in Id /\ Local(c, side) \in Node /\ Remote(c, side) \in Node
    BY Ends DEF NetworkInv, TypeOK
  <2>2. Local(c, side) # n /\ Holds(c, side)
    BY <1>2, <2>1, NetworkAssumption DEF Holds, Local, Remote, Other
  <2>3. conns[c].reader[side] = "running"
    BY <2>2 DEF NetworkInv, HeldIsRead
  <2>4. conns'[c].reader = [e \in Side |->
           IF Local(c, e) = n THEN "ended" ELSE conns[c].reader[e]]
    BY <1>1
  <2> QED
    BY <2>2, <2>3, <2>4
<1>4. TypeOK'
  <2>1. /\ bootstrap' \in [Node -> Seq(Node)]
        /\ dials' \in [Node -> [Node -> Nat]]
        /\ up' \in [Node -> BOOLEAN]
        /\ listening' \in [Node -> BOOLEAN]
    <3>1. << >> \in Seq(Node) /\ [m \in Node |-> 0] \in [Node -> Nat]
      OBVIOUS
    <3>2. /\ bootstrap \in [Node -> Seq(Node)]
          /\ dials \in [Node -> [Node -> Nat]]
          /\ up \in [Node -> BOOLEAN]
          /\ listening \in [Node -> BOOLEAN]
      BY DEF NetworkInv, TypeOK
    <3> QED
      BY <3>1, <3>2 DEF Crash
  <2>2. faults' \in 0 .. MaxFaults
    <3>1. MaxFaults \in Nat /\ faults \in 0 .. MaxFaults
      BY NetworkAssumption DEF NetworkInv, TypeOK
    <3>2. faults < MaxFaults /\ faults' = faults + 1
      BY DEF Crash
    <3> QED
      BY <3>1, <3>2
  <2>3. \A m, k \in Node : peers'[m][k] # None =>
           \E side \in Side : /\ Local(peers[m][k], side)' = m
                              /\ Remote(peers[m][k], side)' = k
    <3>1. \A m, k \in Node : peers'[m][k] \in {peers[m][k], None}
      <4> SUFFICES ASSUME NEW m \in Node, NEW k \in Node
                   PROVE  peers'[m][k] \in {peers[m][k], None}
        OBVIOUS
      <4>1. peers'[m][k] = IF m = n THEN None ELSE peers[m][k]
        BY <1>2, Zenon
      <4> QED
        BY <4>1
    <3> QED
      BY <3>1, EndsKept
  <2>4. /\ deployment' \in Deployments /\ disturbed' \in BOOLEAN
        /\ DOMAIN conns' \subseteq Id
    BY <1>1 DEF NetworkInv, TypeOK, Crash
  <2> QED
    BY <1>1, <1>2, <2>1, <2>2, <2>3, <2>4 DEF TypeOK
<1>5. NoSelfDials'
  <2>1. \A m \in Node : bootstrap'[m] = IF m = n THEN << >> ELSE bootstrap[m]
    BY DEF NetworkInv, TypeOK, Crash
  <2>2. \A m \in Node : dials'[m][m] = 0
    BY DEF NetworkInv, TypeOK, NoSelfDials, Crash
  <2> QED
    BY <1>1, <2>1, <2>2 DEF NetworkInv, NoSelfDials
<1>6. Numbered'
  BY <1>1 DEF NetworkInv, Numbered
<1> QED
  BY <1>3, <1>4, <1>5, <1>6 DEF NetworkInv

LEMMA DialKeeps ==
    ASSUME NetworkInv, NEW n \in Node, NEW m \in Node,
           (DialBootstrap(n) /\ m = Head(bootstrap[n])) \/ DialDiscovered(n, m)
    PROVE  NetworkInv'
<1>1. n # m
  <2>1. CASE DialBootstrap(n) /\ m = Head(bootstrap[n])
    <3>1. bootstrap[n] \in Seq(Node) /\ bootstrap[n] # << >>
      BY <2>1 DEF DialBootstrap, NetworkInv, TypeOK
    <3>2. 1 \in DOMAIN bootstrap[n] /\ m = bootstrap[n][1]
      BY <2>1, <3>1
    <3> QED
      BY <3>2 DEF NetworkInv, NoSelfDials
  <2>2. CASE DialDiscovered(n, m)
    BY <2>2 DEF DialDiscovered, NetworkInv, NoSelfDials
  <2> QED
    BY <2>1, <2>2
<1>2. PICK discovers \in BOOLEAN : Dial(n, m, discovers)
  BY DEF DialBootstrap, DialDiscovered
<1>3. peers' = peers /\ UNCHANGED processVars
  BY DEF DialBootstrap, DialDiscovered
<1>4. /\ DOMAIN conns \subseteq DOMAIN conns' /\ DOMAIN conns' \subseteq Id
      /\ \A c \in DOMAIN conns' : conns'[c] \in Connection /\ c[1] # c[2]
      /\ Numbered'
      /\ HeldIsRead'
  BY <1>1, <1>2, <1>3, OpenedKeeps
<1>5. /\ bootstrap' \in [Node -> Seq(Node)]
      /\ \A k \in Node : \A i \in DOMAIN bootstrap'[k] : bootstrap'[k][i] # k
  <2>1. CASE bootstrap' = bootstrap
    BY <2>1 DEF NetworkInv, TypeOK, NoSelfDials
  <2>2. CASE DialBootstrap(n)
    <3>1. bootstrap[n] \in Seq(Node) /\ bootstrap[n] # << >>
      BY <2>2 DEF DialBootstrap, NetworkInv, TypeOK
    <3>2. /\ bootstrap' \in [Node -> Seq(Node)]
          /\ \A k \in Node : bootstrap'[k] =
                IF k = n THEN Tail(bootstrap[n]) ELSE bootstrap[k]
      <4>1. Tail(bootstrap[n]) \in Seq(Node)
        BY <3>1
      <4>2. bootstrap \in [Node -> Seq(Node)]
        BY DEF NetworkInv, TypeOK
      <4>3. bootstrap' = [bootstrap EXCEPT ![n] = Tail(bootstrap[n])]
        BY <2>2 DEF DialBootstrap
      <4> QED
        BY <4>1, <4>2, <4>3
    <3>3. \A i \in DOMAIN Tail(bootstrap[n]) :
             i + 1 \in DOMAIN bootstrap[n] /\ Tail(bootstrap[n])[i] = bootstrap[n][i + 1]
      BY <3>1
    <3>4. ASSUME NEW k \in Node, NEW i \in DOMAIN bootstrap'[k]
          PROVE  bootstrap'[k][i] # k
      <4>1. CASE k = n
        <5>1. bootstrap'[n] = Tail(bootstrap[n])
          BY <3>2
        <5>2. i + 1 \in DOMAIN bootstrap[n] /\ bootstrap'[n][i] = bootstrap[n][i + 1]
          BY <3>3, <4>1, <5>1
        <5> QED
          BY <4>1, <5>2 DEF NetworkInv, NoSelfDials
      <4>2. CASE k # n
        BY <3>2, <4>2 DEF NetworkInv, NoSelfDials
      <4> QED
        BY <4>1, <4>2
    <3> QED
      BY <3>2, <3>4
  <2> QED
    BY <2>1, <2>2 DEF DialDiscovered
<1>6. dials' \in [Node -> [Node -> Nat]] /\ \A k \in Node : dials'[k][k] = 0
  <2>1. CASE dials' = dials
    BY <2>1 DEF NetworkInv, TypeOK, NoSelfDials
  <2>2. CASE DialDiscovered(n, m)
    <3>1. dials[n][m] \in Nat /\ dials[n][m] > 0
      BY <2>2 DEF DialDiscovered, NetworkInv, TypeOK
    <3>2. dials' = [dials EXCEPT ![n][m] = dials[n][m] - 1]
      BY <2>2 DEF DialDiscovered
    <3> QED
      BY <1>1, <3>1, <3>2 DEF NetworkInv, TypeOK, NoSelfDials
  <2> QED
    BY <2>1, <2>2 DEF DialBootstrap
<1>7. TypeOK'
  <2>1. peers' \in [Node -> [Node -> DOMAIN conns' \cup {None}]]
    BY <1>3, <1>4 DEF NetworkInv, TypeOK
  <2>2. \A a, b \in Node : peers'[a][b] # None =>
           \E side \in Side : /\ Local(peers[a][b], side)' = a
                              /\ Remote(peers[a][b], side)' = b
    BY <1>3, EndsKept
  <2>3. /\ deployment' \in Deployments
        /\ up' \in [Node -> BOOLEAN]
        /\ listening' \in [Node -> BOOLEAN]
        /\ disturbed' \in BOOLEAN
        /\ faults' \in 0 .. MaxFaults
    BY <1>3 DEF NetworkInv, TypeOK, processVars
  <2> QED
    BY <1>4, <1>5, <1>6, <2>1, <2>2, <2>3 DEF TypeOK
<1> QED
  BY <1>4, <1>5, <1>6, <1>7 DEF NetworkInv, NoSelfDials

LEMMA DialerConnectedKeeps ==
    ASSUME NetworkInv, NEW c \in DOMAIN conns, DialerConnected(c)
    PROVE  NetworkInv'
<1>1. "dialer" \in Side /\ c \in Id /\ conns[c] \in Connection
  BY DEF Side, NetworkInv, TypeOK
<1>2. /\ peers' \in [Node -> [Node -> DOMAIN conns \cup {None}]]
      /\ \A n, m \in Node : peers'[n][m] =
            IF n = Local(c, "dialer") /\ m = Remote(c, "dialer") THEN c ELSE peers[n][m]
  BY <1>1, InsertEffect DEF DialerConnected
<1>3. /\ DOMAIN conns' = DOMAIN conns
      /\ \A d \in DOMAIN conns : d # c => conns'[d] = conns[d]
      /\ conns'[c] \in Connection
      /\ conns'[c].reader["dialer"] = "running"
      /\ conns'[c].reader["acceptor"] = conns[c].reader["acceptor"]
  BY <1>1 DEF DialerConnected, Connection, Reader, Side
<1>4. \A d \in DOMAIN conns : conns'[d] \in Connection
  BY <1>3 DEF NetworkInv, TypeOK
<1>5. HeldIsRead'
  BY <1>1, <1>2, <1>3, ReaderMoves DEF Side
<1>6. \A n, m \in Node : peers'[n][m] # None => peers'[n][m] = peers[n][m]
         \/ \E side \in Side : /\ Local(peers'[n][m], side) = n
                                /\ Remote(peers'[n][m], side) = m
  BY <1>1, <1>2
<1>7. dials' \in [Node -> [Node -> Nat]] /\ \A n \in Node : dials'[n][n] = 0
  <2>1. CASE dials' = dials
    BY <2>1 DEF NetworkInv, TypeOK, NoSelfDials
  <2>2. CASE dials' # dials
    <3> DEFINE l == Local(c, "dialer")
               row == [m \in Node |-> dials[l][m] + IF m \in Discovered(c) THEN 1 ELSE 0]
    <3>1. dials' = [dials EXCEPT ![l] = row]
      BY <2>2 DEF DialerConnected
    <3>2. l \in Node /\ dials \in [Node -> [Node -> Nat]]
      BY <1>1, Ends DEF NetworkInv, TypeOK
    <3>3. row \in [Node -> Nat] /\ row[l] = dials[l][l]
      BY <3>2 DEF Discovered
    <3> HIDE DEF l, row
    <3> QED
      BY <3>1, <3>2, <3>3 DEF NetworkInv, NoSelfDials
  <2> QED
    BY <2>1, <2>2
<1>8. bootstrap' = bootstrap /\ UNCHANGED processVars
  BY DEF DialerConnected
<1> QED
  BY <1>2, <1>3, <1>4, <1>5, <1>6, <1>7, <1>8, SameIds

LEMMA AcceptorConnectedKeeps ==
    ASSUME NetworkInv, NEW c \in DOMAIN conns, AcceptorConnected(c)
    PROVE  NetworkInv'
<1>1. "acceptor" \in Side /\ c \in Id /\ conns[c] \in Connection
  BY DEF Side, NetworkInv, TypeOK
<1>2. /\ peers' \in [Node -> [Node -> DOMAIN conns \cup {None}]]
      /\ \A n, m \in Node : peers'[n][m] =
            IF n = Local(c, "acceptor") /\ m = Remote(c, "acceptor") THEN c
            ELSE peers[n][m]
  BY <1>1, InsertEffect DEF AcceptorConnected
<1>3. /\ DOMAIN conns' = DOMAIN conns
      /\ \A d \in DOMAIN conns : d # c => conns'[d] = conns[d]
      /\ conns'[c] \in Connection
      /\ conns'[c].reader["acceptor"] = "running"
      /\ conns'[c].reader["dialer"] = conns[c].reader["dialer"]
  BY <1>1 DEF AcceptorConnected, Connection, Reader, Side
<1>4. \A d \in DOMAIN conns : conns'[d] \in Connection
  BY <1>3 DEF NetworkInv, TypeOK
<1>5. HeldIsRead'
  BY <1>1, <1>2, <1>3, ReaderMoves DEF Side
<1>6. \A n, m \in Node : peers'[n][m] # None => peers'[n][m] = peers[n][m]
         \/ \E side \in Side : /\ Local(peers'[n][m], side) = n
                                /\ Remote(peers'[n][m], side) = m
  BY <1>1, <1>2
<1>7. dials' \in [Node -> [Node -> Nat]] /\ \A n \in Node : dials'[n][n] = 0
  BY DEF AcceptorConnected, NetworkInv, TypeOK, NoSelfDials
<1>8. bootstrap' = bootstrap /\ UNCHANGED processVars
  BY DEF AcceptorConnected
<1> QED
  BY <1>2, <1>3, <1>4, <1>5, <1>6, <1>7, <1>8, SameIds

\* The steps of an end that leave the tables alone: a reader that moves has not
\* been running, so that no table holds its connection.
LEMMA QuietStepKeeps ==
    ASSUME NetworkInv, NEW c \in DOMAIN conns, NEW side \in Side,
           \/ HandshakeFails(c, side)
           \/ side = "acceptor" /\ SendAck(c)
           \/ WriterEnds(c, side)
    PROVE  NetworkInv'
<1>1. c \in Id /\ conns[c] \in Connection
  BY DEF NetworkInv, TypeOK
<1>2. UNCHANGED <<processVars, bootstrap, dials, peers>>
  BY DEF HandshakeFails, SendAck, WriterEnds
<1>3. /\ DOMAIN conns' = DOMAIN conns
      /\ \A d \in DOMAIN conns : d # c => conns'[d] = conns[d]
      /\ conns'[c] \in Connection
      /\ conns'[c].reader[Other(side)] = conns[c].reader[Other(side)]
  <2>1. CASE HandshakeFails(c, side)
    BY <1>1, <2>1 DEF HandshakeFails, Connection, Reader, Side, Other
  <2>2. CASE side = "acceptor" /\ SendAck(c)
    BY <1>1, <2>2 DEF SendAck, Connection, Reader, Side, Other
  <2>3. CASE WriterEnds(c, side)
    BY <1>1, <2>3 DEF WriterEnds, Connection, Reader, Side, Other
  <2> QED
    BY <2>1, <2>2, <2>3
<1>4. ~Holds(c, side)
  <2>1. CASE WriterEnds(c, side)
    BY <2>1 DEF WriterEnds
  <2>2. CASE conns[c].reader[side] = "handshake"
    BY <2>2 DEF NetworkInv, HeldIsRead
  <2> QED
    BY <2>1, <2>2 DEF HandshakeFails, SendAck
<1>5. ~Holds(c, side)'
  BY <1>2, <1>4 DEF Holds
<1>6. HeldIsRead'
  <2>1. \A d \in DOMAIN conns, s \in Side :
           <<d, s>> # <<c, side>> => conns'[d].reader[s] = conns[d].reader[s]
    BY <1>3 DEF Side, Other
  <2>2. \A n, m \in Node : peers'[n][m] \in {peers[n][m], None}
    BY <1>2
  <2> QED
    BY <1>3, <1>5, <2>1, <2>2, ReaderMoves
<1>7. /\ peers' \in [Node -> [Node -> DOMAIN conns \cup {None}]]
      /\ dials' \in [Node -> [Node -> Nat]]
      /\ \A n \in Node : dials'[n][n] = 0
  BY <1>2 DEF NetworkInv, TypeOK, NoSelfDials
<1>8. \A d \in DOMAIN conns : conns'[d] \in Connection
  BY <1>3 DEF NetworkInv, TypeOK
<1> QED
  BY <1>2, <1>3, <1>6, <1>7, <1>8, SameIds

LEMMA ReaderReturnsKeeps ==
    ASSUME NetworkInv, NEW c \in DOMAIN conns, NEW side \in Side,
           ReaderEnds(c, side) \/ ReaderFails(c, side)
    PROVE  NetworkInv'
<1> USE DEF ReaderEnds, ReaderFails
<1>1. c \in Id /\ conns[c] \in Connection
  BY DEF NetworkInv, TypeOK
<1>2. /\ peers' \in [Node -> [Node -> DOMAIN conns \cup {None}]]
      /\ \A n, m \in Node : peers'[n][m] =
            IF n = Local(c, side) /\ m = Remote(c, side) THEN None ELSE peers[n][m]
  BY RemoveEffect DEF ReaderReturns
<1>3. /\ DOMAIN conns' = DOMAIN conns
      /\ \A d \in DOMAIN conns : d # c => conns'[d] = conns[d]
      /\ conns'[c] \in Connection
      /\ conns'[c].reader[Other(side)] = conns[c].reader[Other(side)]
  BY <1>1 DEF ReaderReturns, Connection, Reader, Side, Other
<1>4. ~Holds(c, side)'
  BY <1>1, <1>2, Ends, NetworkAssumption DEF Holds, Local, Remote, Other
<1>5. HeldIsRead'
  <2>1. \A d \in DOMAIN conns, s \in Side :
           <<d, s>> # <<c, side>> => conns'[d].reader[s] = conns[d].reader[s]
    BY <1>3 DEF Side, Other
  <2>2. \A n, m \in Node : peers'[n][m] \in {peers[n][m], None}
    BY <1>2
  <2> QED
    BY <1>3, <1>4, <2>1, <2>2, ReaderMoves
<1>6. dials' \in [Node -> [Node -> Nat]] /\ \A n \in Node : dials'[n][n] = 0
  BY DEF ReaderReturns, NetworkInv, TypeOK, NoSelfDials
<1>7. \A d \in DOMAIN conns : conns'[d] \in Connection
  BY <1>3 DEF NetworkInv, TypeOK
<1>8. /\ UNCHANGED <<deployment, up, listening, bootstrap>>
      /\ disturbed' \in BOOLEAN /\ faults' \in 0 .. MaxFaults
  <2>1. CASE ReaderEnds(c, side)
    BY <2>1 DEF ReaderReturns, processVars, NetworkInv, TypeOK
  <2>2. CASE ReaderFails(c, side)
    <3>1. MaxFaults \in Nat /\ faults \in 0 .. MaxFaults
      BY NetworkAssumption DEF NetworkInv, TypeOK
    <3>2. faults < MaxFaults /\ faults' = faults + 1
      BY <2>2
    <3>3. faults' \in 0 .. MaxFaults
      BY <3>1, <3>2
    <3> QED
      BY <2>2, <3>3 DEF ReaderReturns
  <2> QED
    BY <2>1, <2>2
<1> QED
  BY <1>2, <1>3, <1>5, <1>6, <1>7, <1>8, SameIdsOfFaults

LEMMA NetworkStep == NetworkInv /\ [Next]_vars => NetworkInv'
<1> SUFFICES ASSUME NetworkInv, [Next]_vars PROVE NetworkInv'
  OBVIOUS
<1>1. ASSUME NEW n \in Node, DialBootstrap(n) PROVE NetworkInv'
  <2>1. Head(bootstrap[n]) \in Node
    BY <1>1 DEF DialBootstrap, NetworkInv, TypeOK
  <2> QED
    BY <1>1, <2>1, DialKeeps
<1>2. ASSUME UNCHANGED vars PROVE NetworkInv'
  <2>1. /\ conns' = conns /\ peers' = peers /\ dials' = dials
        /\ bootstrap' = bootstrap /\ UNCHANGED processVars
    BY <1>2 DEF vars, processVars
  <2>2. HeldIsRead'
    BY <2>1 DEF NetworkInv, HeldIsRead, Holds
  <2>3. /\ \A d \in DOMAIN conns : conns'[d] \in Connection
        /\ peers' \in [Node -> [Node -> DOMAIN conns \cup {None}]]
        /\ dials' \in [Node -> [Node -> Nat]]
        /\ \A n \in Node : dials'[n][n] = 0
    BY <2>1 DEF NetworkInv, TypeOK, NoSelfDials
  <2> QED
    BY <2>1, <2>2, <2>3, SameIds
<1>3. "dialer" \in Side /\ "acceptor" \in Side
  BY DEF Side
<1> QED
  BY <1>1, <1>2, <1>3, NetworkCases, StartKeeps, CrashKeeps, ListenKeeps, DialKeeps,
     DialerConnectedKeeps, AcceptorConnectedKeeps, QuietStepKeeps, ReaderReturnsKeeps

-----------------------------------------------------------------------------
(* The mesh of patient starts: the inductive invariant *)

\* The star of run.sh around root.
StarAt(root) ==
    /\ root \notin deployment.failing
    /\ deployment.options[root] = << >>
    /\ \A n \in Node \ {root} : deployment.options[n] = <<root>>

\* Both tasks of both ends are gone.
Dead(c) ==
    \A side \in Side : conns[c].reader[side] = "ended" /\ ~ conns[c].writing[side]

\* Nothing has ended, and each end that runs is the one its table holds.
Sound(c) ==
    \A side \in Side :
        /\ conns[c].writing[side]
        /\ conns[c].reader[side] # "ended"
        /\ conns[c].reader[side] = "running" => Holds(c, side)

Running(c) == \A side \in Side : conns[c].reader[side] = "running"

Between(c, n, m) == (c[1] = n /\ c[2] = m) \/ (c[1] = m /\ c[2] = n)

\* Network::connect_to_peer has not returned.
Learning(c) == conns[c].discovers /\ conns[c].reader["dialer"] = "handshake"

\* A node that is not running has nothing open.
DownIsClosed ==
    \A n \in Node : ~ up[n] =>
        /\ ~ listening[n]
        /\ bootstrap[n] = << >>
        /\ \A m \in Node : dials[n][m] = 0
        /\ \A c \in DOMAIN conns, side \in Side : Local(c, side) = n =>
              conns[c].reader[side] = "ended" /\ ~ conns[c].writing[side]

\* Two nodes have at most one connection that is not dead.
OneAlive ==
    \A c, d \in DOMAIN conns :
        (c # d /\ Between(c, d[1], d[2])) => Dead(c) \/ Dead(d)

\* Between running nodes a connection is sound, or its rests are gone.
SoundOrDead ==
    \A c \in DOMAIN conns : (up[c[1]] /\ up[c[2]]) => Dead(c) \/ Sound(c)

\* Nobody but the last node that was started dials.
OnlyDials(root, j) ==
    /\ bootstrap[root] = << >>
    /\ bootstrap[j] \in {<< >>, <<root>>}
    /\ \A n \in Node \ {j} :
          /\ bootstrap[n] = << >>
          /\ \A m \in Node : dials[n][m] = 0
          /\ up[n] => listening[n]
    /\ \A c \in DOMAIN conns : conns[c].reader["dialer"] = "handshake" =>
          c[1] = j /\ (conns[c].discovers => c[2] = root)

\* The others are connected already.
OthersMeshed(j) ==
    \A n, m \in Node \ {j} : (n # m /\ up[n] /\ up[m]) =>
        \E c \in DOMAIN conns : Between(c, n, m) /\ Sound(c) /\ Running(c)

\* j is or will be connected to m.
Reaches(root, j, m) ==
    \/ \E c \in DOMAIN conns : Between(c, j, m) /\ Sound(c)
    \/ dials[j][m] # 0
    \/ bootstrap[j] = <<root>>
    \/ /\ m # root
       /\ \E c \in DOMAIN conns :
             Learning(c) /\ (conns[c].known = None \/ m \in conns[c].known)

JoinerReaches(root, j) ==
    \A m \in Node \ {j} : (up[j] /\ up[m]) => Reaches(root, j, m)

\* It does not connect to anybody twice.
ReachesOnce(root, j) ==
    /\ bootstrap[j] # << >> =>
          /\ \A m \in Node : dials[j][m] = 0
          /\ \A c \in DOMAIN conns : j \in {c[1], c[2]} => Dead(c)
    /\ \A c \in DOMAIN conns : Learning(c) =>
          /\ bootstrap[j] = << >>
          /\ \A m \in Node : dials[j][m] = 0
          /\ \A d \in DOMAIN conns \ {c} : j \in {d[1], d[2]} => Dead(d)
          /\ conns[c].known # None => root \notin conns[c].known
    /\ \A m \in Node : dials[j][m] # 0 =>
          /\ dials[j][m] = 1
          /\ \A c \in DOMAIN conns : Between(c, j, m) => Dead(c)

JoinInv(root, j) ==
    /\ OneAlive
    /\ SoundOrDead
    /\ \A n \in Node : up[n] => up[root]
    /\ OnlyDials(root, j)
    /\ OthersMeshed(j)
    /\ JoinerReaches(root, j)
    /\ ReachesOnce(root, j)

MeshInv ==
    /\ DownIsClosed
    /\ \A root \in Node : (StarAt(root) /\ ~ disturbed) => \E j \in Node : JoinInv(root, j)

-----------------------------------------------------------------------------
(* What a step of one connection leaves of the others *)

\* The two ends of a connection are two nodes.
LEMMA TwoEnds ==
    ASSUME NetworkInv, NEW c \in DOMAIN conns
    PROVE  /\ c \in Id /\ c[1] \in Node /\ c[2] \in Node /\ c[1] # c[2]
           /\ Local(c, "dialer") = c[1] /\ Remote(c, "dialer") = c[2]
           /\ Local(c, "acceptor") = c[2] /\ Remote(c, "acceptor") = c[1]
           /\ conns[c] \in Connection
           /\ Side = {"dialer", "acceptor"} /\ "dialer" # "acceptor"
<1>1. c \in Id /\ c[1] # c[2] /\ conns[c] \in Connection
  BY DEF NetworkInv, TypeOK, NoSelfDials
<1> QED
  BY <1>1 DEF Id, Local, Remote, Other, Side

LEMMA SoundIsNotDead ==
    ASSUME NEW c, Sound(c)
    PROVE  ~ Dead(c)
BY DEF Sound, Dead, Side

\* What a step of c may change in the tables: entries of its two ends for each
\* other.
OwnEntries(c) ==
    \A n, m \in Node : peers'[n][m] # peers[n][m] => Between(c, n, m)

\* What the steps of c have in common.
Moves(c) ==
    /\ UNCHANGED <<processVars, bootstrap>>
    /\ DOMAIN conns' = DOMAIN conns
    /\ \A d \in DOMAIN conns \ {c} : conns'[d] = conns[d]
    /\ OwnEntries(c)
    /\ conns'[c].discovers = conns[c].discovers
    /\ conns'[c].reader["dialer"] = "handshake" =>
          conns[c].reader["dialer"] = "handshake"
    /\ \A side \in Side :
          conns[c].reader[side] = "ended" /\ ~ conns[c].writing[side] =>
             conns'[c].reader[side] = "ended" /\ ~ conns'[c].writing[side]
    /\ ~ Dead(c)
    /\ Sound(c) => Sound(c)' /\ (Running(c) => Running(c)')

LEMMA DialerConnectedMoves ==
    ASSUME NetworkInv, NEW c \in DOMAIN conns, DialerConnected(c)
    PROVE  Moves(c)
<1>1. /\ c[1] \in Node /\ c[2] \in Node /\ c[1] # c[2]
      /\ Local(c, "dialer") = c[1] /\ Remote(c, "dialer") = c[2]
      /\ Local(c, "acceptor") = c[2] /\ Remote(c, "acceptor") = c[1]
      /\ conns[c] \in Connection /\ Side = {"dialer", "acceptor"}
  BY TwoEnds
<1>2. \A n, m \in Node : peers'[n][m] =
         IF n = c[1] /\ m = c[2] THEN c ELSE peers[n][m]
  BY <1>1, InsertEffect DEF DialerConnected
<1>3. /\ DOMAIN conns' = DOMAIN conns
      /\ \A d \in DOMAIN conns : d # c => conns'[d] = conns[d]
      /\ conns'[c].discovers = conns[c].discovers
      /\ conns'[c].writing = conns[c].writing
      /\ conns'[c].reader["dialer"] = "running"
      /\ conns'[c].reader["acceptor"] = conns[c].reader["acceptor"]
      /\ conns[c].reader["dialer"] = "handshake"
  BY <1>1 DEF DialerConnected, Connection, Reader
<1>4. OwnEntries(c)
  BY <1>2 DEF OwnEntries, Between
<1>5. ~ Dead(c) /\ ~ Running(c)
  BY <1>1, <1>3 DEF Dead, Running
<1>6. Sound(c) => Sound(c)'
  BY <1>1, <1>2, <1>3 DEF Sound, Holds, Local, Remote, Other
<1>7. UNCHANGED <<processVars, bootstrap>>
  BY DEF DialerConnected
<1> QED
  BY <1>1, <1>3, <1>4, <1>5, <1>6, <1>7 DEF Moves

LEMMA AcceptorMoves ==
    ASSUME NetworkInv, NEW c \in DOMAIN conns, SendAck(c) \/ AcceptorConnected(c)
    PROVE  /\ Moves(c)
           /\ conns'[c].reader["dialer"] = conns[c].reader["dialer"]
           /\ conns'[c].known = IF SendAck(c) THEN {m \in Node : peers[c[2]][m] # None}
                                ELSE conns[c].known
           /\ dials' = dials
<1>1. /\ c[1] \in Node /\ c[2] \in Node /\ c[1] # c[2]
      /\ Local(c, "dialer") = c[1] /\ Remote(c, "dialer") = c[2]
      /\ Local(c, "acceptor") = c[2] /\ Remote(c, "acceptor") = c[1]
      /\ conns[c] \in Connection /\ Side = {"dialer", "acceptor"}
  BY TwoEnds
<1>2. /\ DOMAIN conns' = DOMAIN conns
      /\ \A d \in DOMAIN conns : d # c => conns'[d] = conns[d]
      /\ conns'[c].discovers = conns[c].discovers
      /\ conns'[c].writing = conns[c].writing
      /\ conns'[c].reader["dialer"] = conns[c].reader["dialer"]
      /\ conns[c].reader["acceptor"] \in {"handshake", "acked"}
      /\ conns'[c].reader["acceptor"] = IF SendAck(c) THEN "acked" ELSE "running"
      /\ conns'[c].known = IF SendAck(c) THEN {m \in Node : peers[c[2]][m] # None}
                           ELSE conns[c].known
  <2>1. CASE SendAck(c)
    <3>1. conns[c].reader["acceptor"] = "handshake"
      BY <2>1 DEF SendAck
    <3>2. /\ DOMAIN conns' = DOMAIN conns
          /\ \A d \in DOMAIN conns : d # c => conns'[d] = conns[d]
          /\ conns'[c] = [conns[c] EXCEPT
                 !.reader["acceptor"] = "acked",
                 !.known = {m \in Node : peers[c[2]][m] # None}]
      BY <1>1, <2>1 DEF SendAck
    <3>3. /\ conns'[c].discovers = conns[c].discovers
          /\ conns'[c].writing = conns[c].writing
          /\ conns'[c].known = {m \in Node : peers[c[2]][m] # None}
          /\ conns'[c].reader = [conns[c].reader EXCEPT !["acceptor"] = "acked"]
      BY <1>1, <3>2 DEF Connection
    <3>4. /\ conns'[c].reader["acceptor"] = "acked"
          /\ conns'[c].reader["dialer"] = conns[c].reader["dialer"]
      BY <1>1, <3>3 DEF Connection
    <3> QED
      BY <2>1, <3>1, <3>2, <3>3, <3>4
  <2>2. CASE ~ SendAck(c) /\ AcceptorConnected(c)
    BY <1>1, <2>2 DEF AcceptorConnected, Connection, Reader
  <2> QED
    BY <2>1, <2>2
<1>3. \A n, m \in Node : peers'[n][m] =
         IF n = c[2] /\ m = c[1] /\ ~ SendAck(c) THEN c ELSE peers[n][m]
  <2>1. CASE SendAck(c)
    BY <2>1 DEF SendAck
  <2>2. CASE ~ SendAck(c) /\ AcceptorConnected(c)
    BY <1>1, <2>2, InsertEffect DEF AcceptorConnected
  <2> QED
    BY <2>1, <2>2
<1>4. OwnEntries(c)
  BY <1>3 DEF OwnEntries, Between
<1>5. ~ Dead(c) /\ ~ Running(c)
  BY <1>1, <1>2 DEF Dead, Running
<1>6. Sound(c) => Sound(c)'
  BY <1>1, <1>2, <1>3 DEF Sound, Holds, Local, Remote, Other
<1>7. UNCHANGED <<processVars, bootstrap, dials>>
  BY DEF SendAck, AcceptorConnected
<1> QED
  BY <1>1, <1>2, <1>4, <1>5, <1>6, <1>7 DEF Moves

\* An end closes only on a connection that is not sound.
LEMMA EndingMoves ==
    ASSUME NetworkInv, NEW c \in DOMAIN conns, NEW side \in Side,
           \/ HandshakeFails(c, side)
           \/ WriterEnds(c, side)
           \/ ReaderEnds(c, side)
    PROVE  /\ Moves(c)
           /\ ~ Sound(c)
           /\ conns'[c].known = conns[c].known
           /\ dials' = dials
<1>1. /\ c[1] \in Node /\ c[2] \in Node /\ c[1] # c[2]
      /\ Local(c, "dialer") = c[1] /\ Remote(c, "dialer") = c[2]
      /\ Local(c, "acceptor") = c[2] /\ Remote(c, "acceptor") = c[1]
      /\ conns[c] \in Connection /\ Side = {"dialer", "acceptor"}
  BY TwoEnds
<1>2. /\ DOMAIN conns' = DOMAIN conns
      /\ \A d \in DOMAIN conns : d # c => conns'[d] = conns[d]
      /\ conns'[c].discovers = conns[c].discovers
      /\ conns'[c].known = conns[c].known
      /\ \A s \in Side : /\ conns'[c].reader[s] \in {conns[c].reader[s], "ended"}
                         /\ conns'[c].writing[s] => conns[c].writing[s]
  <2>1. CASE HandshakeFails(c, side)
    BY <1>1, <2>1 DEF HandshakeFails, Connection, Reader
  <2>2. CASE WriterEnds(c, side)
    BY <1>1, <2>2 DEF WriterEnds, Connection, Reader
  <2>3. CASE ReaderEnds(c, side)
    BY <1>1, <2>3 DEF ReaderEnds, ReaderReturns, Connection, Reader
  <2> QED
    BY <2>1, <2>2, <2>3
<1>3. ~ Dead(c) /\ ~ Sound(c)
  <2>1. CASE HandshakeFails(c, side)
    BY <1>1, <2>1 DEF HandshakeFails, AtEnd, Other, Dead, Sound
  <2>2. CASE WriterEnds(c, side)
    BY <2>2 DEF WriterEnds, Dead, Sound
  <2>3. CASE ReaderEnds(c, side)
    BY <1>1, <2>3 DEF ReaderEnds, ReaderReturns, AtEnd, Other, Dead, Sound
  <2> QED
    BY <2>1, <2>2, <2>3
<1>4. OwnEntries(c)
  <2>1. CASE ReaderEnds(c, side)
    <3>1. \A n, m \in Node : peers'[n][m] =
             IF n = Local(c, side) /\ m = Remote(c, side) THEN None ELSE peers[n][m]
      BY <2>1, RemoveEffect DEF ReaderEnds, ReaderReturns
    <3> QED
      BY <1>1, <3>1 DEF OwnEntries, Between
  <2>2. CASE peers' = peers
    BY <2>2 DEF OwnEntries
  <2> QED
    BY <2>1, <2>2 DEF HandshakeFails, WriterEnds
<1>5. UNCHANGED <<processVars, bootstrap, dials>>
  BY DEF HandshakeFails, WriterEnds, ReaderEnds, ReaderReturns
<1> QED
  BY <1>1, <1>2, <1>3, <1>4, <1>5 DEF Moves

LEMMA ConnectionMoves ==
    ASSUME NetworkInv, NEW c \in DOMAIN conns, ConnectionStep(c)
    PROVE  Moves(c)
BY DialerConnectedMoves, AcceptorMoves, EndingMoves DEF ConnectionStep, Side

\* The other connections are as sound or dead as before.
LEMMA OthersKept ==
    ASSUME NetworkInv, OneAlive, NEW c \in DOMAIN conns, Moves(c)
    PROVE  \A d \in DOMAIN conns :
              /\ Dead(d) => Dead(d)'
              /\ Sound(d) => Sound(d)' /\ (Running(d) => Running(d)')
<1> SUFFICES ASSUME NEW d \in DOMAIN conns
             PROVE  /\ Dead(d) => Dead(d)'
                    /\ Sound(d) => Sound(d)' /\ (Running(d) => Running(d)')
  OBVIOUS
<1>1. CASE d = c
  BY <1>1 DEF Moves
<1>2. CASE d # c
  <2>1. conns'[d] = conns[d] /\ ~ Dead(c)
    BY <1>2 DEF Moves
  <2>2. (Dead(d) => Dead(d)') /\ (Running(d) => Running(d)')
    BY <2>1 DEF Dead, Running
  <2>3. ASSUME Sound(d) PROVE Sound(d)'
    <3>1. ~ Between(c, d[1], d[2])
      BY <1>2, <2>1, <2>3, SoundIsNotDead DEF OneAlive
    <3>2. /\ d[1] \in Node /\ d[2] \in Node
          /\ Local(d, "dialer") = d[1] /\ Remote(d, "dialer") = d[2]
          /\ Local(d, "acceptor") = d[2] /\ Remote(d, "acceptor") = d[1]
          /\ Side = {"dialer", "acceptor"}
      BY TwoEnds
    <3>3. peers'[d[1]][d[2]] = peers[d[1]][d[2]] /\ peers'[d[2]][d[1]] = peers[d[2]][d[1]]
      BY <3>1, <3>2 DEF Moves, OwnEntries, Between
    <3>4. \A s \in Side : Holds(d, s)' = Holds(d, s)
      BY <3>2, <3>3 DEF Holds, Local, Remote, Other
    <3> QED
      BY <2>1, <2>3, <3>4 DEF Sound
  <2> QED
    BY <2>2, <2>3
<1> QED
  BY <1>1, <1>2

-----------------------------------------------------------------------------
(* The mesh of patient starts: the steps of the connections *)

LEMMA ClosedMoves ==
    ASSUME NetworkInv, DownIsClosed, NEW c \in DOMAIN conns, Moves(c),
           dials' = dials \/ DialerConnected(c)
    PROVE  DownIsClosed'
<1> SUFFICES ASSUME NEW n \in Node, ~ up'[n]
             PROVE  /\ ~ listening'[n]
                    /\ bootstrap'[n] = << >>
                    /\ \A m \in Node : dials'[n][m] = 0
                    /\ \A d \in DOMAIN conns', side \in Side : Local(d, side)' = n =>
                          conns'[d].reader[side] = "ended" /\ ~ conns'[d].writing[side]
  BY DEF DownIsClosed
<1>1. /\ ~ up[n] /\ ~ listening'[n] /\ bootstrap'[n] = << >>
      /\ \A m \in Node : dials[n][m] = 0
  BY DEF Moves, processVars, DownIsClosed
<1>2. ASSUME NEW d \in DOMAIN conns, NEW side \in Side, Local(d, side) = n
      PROVE  conns'[d].reader[side] = "ended" /\ ~ conns'[d].writing[side]
  BY <1>1, <1>2 DEF Moves, DownIsClosed
<1>3. \A m \in Node : dials'[n][m] = 0
  <2>1. CASE dials' = dials
    BY <1>1, <2>1
  <2>2. CASE DialerConnected(c)
    <3>1. conns[c].reader["dialer"] = "handshake" /\ "dialer" \in Side
      BY <2>2 DEF DialerConnected, Side
    <3>2. Local(c, "dialer") # n
      BY <1>1, <3>1 DEF DownIsClosed
    <3>3. dials'[n] = dials[n]
      BY <2>2, <3>2 DEF DialerConnected, NetworkInv, TypeOK
    <3> QED
      BY <1>1, <3>3
  <2> QED
    BY <2>1, <2>2
<1>4. DOMAIN conns' = DOMAIN conns /\ \A d \in DOMAIN conns, side \in Side :
         Local(d, side)' = Local(d, side)
  BY DEF Moves, Local
<1> QED
  BY <1>1, <1>2, <1>3, <1>4

\* The parts of JoinInv that do not depend on what the joiner is about to do.
LEMMA MovesKeep ==
    ASSUME NetworkInv, NEW root \in Node, NEW j \in Node, JoinInv(root, j),
           NEW c \in DOMAIN conns, Moves(c), dials' = dials \/ DialerConnected(c)
    PROVE  /\ OneAlive' /\ SoundOrDead'
           /\ \A n \in Node : up'[n] => up'[root]
           /\ OnlyDials(root, j)'
           /\ OthersMeshed(j)'
<1>1. /\ UNCHANGED <<processVars, bootstrap>> /\ DOMAIN conns' = DOMAIN conns
      /\ up' = up /\ listening' = listening
  BY DEF Moves, processVars
<1>2. \A d \in DOMAIN conns : /\ Dead(d) => Dead(d)'
                              /\ Sound(d) => Sound(d)' /\ (Running(d) => Running(d)')
  BY OthersKept DEF JoinInv
<1>3. ~ Dead(c) /\ (Sound(c) => Sound(c)')
  BY DEF Moves
<1>4. OneAlive'
  <2> SUFFICES ASSUME NEW x \in DOMAIN conns, NEW y \in DOMAIN conns,
                      x # y, Between(x, y[1], y[2])
               PROVE  Dead(x)' \/ Dead(y)'
    BY <1>1 DEF OneAlive, Between
  <2>1. Dead(x) \/ Dead(y)
    BY DEF JoinInv, OneAlive
  <2> QED
    BY <1>2, <2>1
<1>5. SoundOrDead'
  BY <1>1, <1>2 DEF JoinInv, SoundOrDead
<1>6. OnlyDials(root, j)'
  <2>1. ASSUME NEW d \in DOMAIN conns, conns'[d].reader["dialer"] = "handshake"
        PROVE  d[1] = j /\ (conns'[d].discovers => d[2] = root)
    BY <2>1 DEF Moves, JoinInv, OnlyDials
  <2>2. \A n \in Node \ {j}, m \in Node : dials'[n][m] = 0
    <3>1. CASE dials' = dials
      BY <3>1 DEF JoinInv, OnlyDials
    <3>2. CASE DialerConnected(c)
      <4>1. c[1] = j /\ Local(c, "dialer") = j
        BY <3>2, TwoEnds DEF DialerConnected, JoinInv, OnlyDials
      <4>2. \A n \in Node \ {j} : dials'[n] = dials[n]
        BY <3>2, <4>1 DEF DialerConnected, NetworkInv, TypeOK
      <4> QED
        BY <4>2 DEF JoinInv, OnlyDials
    <3> QED
      BY <3>1, <3>2
  <2> QED
    BY <1>1, <2>1, <2>2 DEF JoinInv, OnlyDials
<1>7. OthersMeshed(j)'
  <2> SUFFICES ASSUME NEW n \in Node \ {j}, NEW m \in Node \ {j}, n # m, up[n], up[m]
               PROVE  \E d \in DOMAIN conns : Between(d, n, m) /\ Sound(d)' /\ Running(d)'
    BY <1>1 DEF OthersMeshed, Between
  <2>1. PICK d \in DOMAIN conns : Between(d, n, m) /\ Sound(d) /\ Running(d)
    BY DEF JoinInv, OthersMeshed
  <2> QED
    BY <1>2, <2>1
<1>8. \A n \in Node : up'[n] => up'[root]
  BY <1>1 DEF JoinInv
<1> QED
  BY <1>4, <1>5, <1>6, <1>7, <1>8

\* The tables have what the mesh has.
LEMMA MeshedEntries ==
    ASSUME NetworkInv, NEW j \in Node, OthersMeshed(j),
           NEW n \in Node \ {j}, NEW m \in Node \ {j}, n # m, up[n], up[m]
    PROVE  peers[n][m] # None
<1>1. PICK c \in DOMAIN conns : Between(c, n, m) /\ Sound(c) /\ Running(c)
  BY DEF OthersMeshed
<1>2. \A side \in Side : Holds(c, side)
  BY <1>1 DEF Sound, Running
<1>3. c # None
  BY NetworkAssumption DEF NetworkInv, TypeOK
<1> QED
  BY <1>1, <1>2, <1>3, TwoEnds DEF Holds, Between

\* Nobody has itself in its table.
LEMMA NoOwnEntry ==
    ASSUME NetworkInv, NEW n \in Node
    PROVE  peers[n][n] = None
<1> SUFFICES ASSUME peers[n][n] # None PROVE FALSE
  OBVIOUS
<1>1. PICK side \in Side : Local(peers[n][n], side) = n /\ Remote(peers[n][n], side) = n
  BY DEF NetworkInv, TypeOK
<1>2. peers[n][n] \in DOMAIN conns
  BY DEF NetworkInv, TypeOK
<1> QED
  BY <1>1, <1>2, TwoEnds

\* A step that spawns no discovery task and ends no Network::connect_to_peer.
LEMMA QuietMovesKeep ==
    ASSUME NetworkInv, NEW root \in Node, NEW j \in Node, JoinInv(root, j),
           NEW c \in DOMAIN conns, Moves(c), dials' = dials,
           Learning(c)' => \/ conns'[c].known = conns[c].known
                           \/ conns'[c].known = {m \in Node : peers[c[2]][m] # None},
           (Learning(c) /\ up[c[1]] /\ up[c[2]]) => Learning(c)'
    PROVE  JoinerReaches(root, j)' /\ ReachesOnce(root, j)'
<1>1. /\ DOMAIN conns' = DOMAIN conns /\ bootstrap' = bootstrap
      /\ up' = up /\ \A d \in DOMAIN conns \ {c} : conns'[d] = conns[d]
  BY DEF Moves, processVars
<1>2. \A d \in DOMAIN conns : /\ Dead(d) => Dead(d)'
                              /\ Sound(d) => Sound(d)'
  BY OthersKept DEF JoinInv
<1>3. ASSUME NEW d \in DOMAIN conns, Learning(d)' PROVE Learning(d)
  BY <1>1, <1>3 DEF Learning, Moves
<1>4. \A d \in DOMAIN conns : Learning(d) => d[1] = j /\ d[2] = root
  BY DEF JoinInv, OnlyDials, Learning
<1>5. JoinerReaches(root, j)'
  <2> SUFFICES ASSUME NEW m \in Node \ {j}, up[j], up[m]
               PROVE  Reaches(root, j, m)'
    BY <1>1 DEF JoinerReaches
  <2>1. Reaches(root, j, m)
    BY DEF JoinInv, JoinerReaches
  <2>2. CASE \E d \in DOMAIN conns : Between(d, j, m) /\ Sound(d)
    <3>1. \E d \in DOMAIN conns : Between(d, j, m) /\ Sound(d)'
      BY <1>2, <2>2
    <3> QED
      BY <1>1, <3>1 DEF Reaches, Between
  <2>3. CASE dials[j][m] # 0 \/ bootstrap[j] = <<root>>
    BY <1>1, <2>3 DEF Reaches
  <2>4. CASE /\ m # root
             /\ \E d \in DOMAIN conns :
                   Learning(d) /\ (conns[d].known = None \/ m \in conns[d].known)
    <3>1. PICK d \in DOMAIN conns :
             Learning(d) /\ (conns[d].known = None \/ m \in conns[d].known)
      BY <2>4
    <3>2. d[1] = j /\ d[2] = root /\ up[root]
      BY <1>4, <3>1 DEF JoinInv
    <3>3. Learning(d)'
      <4>1. CASE d = c
        BY <3>1, <3>2, <4>1
      <4>2. CASE d # c
        BY <1>1, <3>1, <4>2 DEF Learning
      <4> QED
        BY <4>1, <4>2
    <3>4. conns'[d].known = None \/ m \in conns'[d].known
      <4>1. CASE conns'[d].known = conns[d].known
        BY <3>1, <4>1
      <4>2. CASE conns'[d].known # conns[d].known
        <5>1. d = c /\ conns'[d].known = {k \in Node : peers[root][k] # None}
          BY <1>1, <3>2, <3>3, <4>2
        <5>2. root # j
          BY <3>2, TwoEnds
        <5>3. peers[root][m] # None
          BY <2>4, <3>2, <5>2, MeshedEntries DEF JoinInv
        <5> QED
          BY <5>1, <5>3
      <4> QED
        BY <4>1, <4>2
    <3> QED
      BY <1>1, <2>4, <3>3, <3>4 DEF Reaches
  <2> QED
    BY <2>1, <2>2, <2>3, <2>4 DEF Reaches
<1>6. ReachesOnce(root, j)'
  <2>1. bootstrap'[j] # << >> =>
           /\ \A m \in Node : dials'[j][m] = 0
           /\ \A d \in DOMAIN conns' : j \in {d[1], d[2]} => Dead(d)'
    BY <1>1, <1>2 DEF JoinInv, ReachesOnce
  <2>2. ASSUME NEW d \in DOMAIN conns, Learning(d)'
        PROVE  /\ bootstrap'[j] = << >>
               /\ \A m \in Node : dials'[j][m] = 0
               /\ \A e \in DOMAIN conns \ {d} : j \in {e[1], e[2]} => Dead(e)'
               /\ conns'[d].known # None => root \notin conns'[d].known
    <3>1. Learning(d)
      BY <1>3, <2>2
    <3>2. conns'[d].known # None => root \notin conns'[d].known
      <4>1. CASE conns'[d].known = conns[d].known
        BY <3>1, <4>1 DEF JoinInv, ReachesOnce
      <4>2. CASE conns'[d].known # conns[d].known
        <5>1. conns'[d].known = {k \in Node : peers[root][k] # None}
          BY <1>1, <1>4, <2>2, <3>1, <4>2
        <5> QED
          BY <5>1, NoOwnEntry
      <4> QED
        BY <4>1, <4>2
    <3> QED
      BY <1>1, <1>2, <3>1, <3>2 DEF JoinInv, ReachesOnce
  <2>3. ASSUME NEW m \in Node, dials'[j][m] # 0
        PROVE  /\ dials'[j][m] = 1
               /\ \A d \in DOMAIN conns' : Between(d, j, m) => Dead(d)'
    BY <1>1, <1>2, <2>3 DEF JoinInv, ReachesOnce
  <2> QED
    BY <1>1, <2>1, <2>2, <2>3 DEF ReachesOnce, Between
<1> QED
  BY <1>5, <1>6

\* The joiner learns the others from the root's ack and will dial them.
LEMMA LearnedKeep ==
    ASSUME NetworkInv, NEW root \in Node, NEW j \in Node, JoinInv(root, j),
           NEW c \in DOMAIN conns, DialerConnected(c), conns[c].discovers
    PROVE  JoinerReaches(root, j)' /\ ReachesOnce(root, j)'
<1>1. Learning(c) /\ conns[c].known # None
  BY DEF DialerConnected, Learning
<1>2. /\ c[1] = j /\ c[2] = root /\ j # root
      /\ Local(c, "dialer") = j /\ "dialer" \in Side /\ c \in Id
  BY <1>1, TwoEnds DEF JoinInv, OnlyDials, Learning
<1>3. /\ bootstrap[j] = << >> /\ \A m \in Node : dials[j][m] = 0
      /\ \A d \in DOMAIN conns \ {c} : j \in {d[1], d[2]} => Dead(d)
      /\ root \notin conns[c].known
  BY <1>1 DEF JoinInv, ReachesOnce
<1>4. /\ DOMAIN conns' = DOMAIN conns /\ bootstrap' = bootstrap
      /\ up' = up /\ \A d \in DOMAIN conns \ {c} : conns'[d] = conns[d]
      /\ Moves(c)
  BY DialerConnectedMoves DEF Moves, processVars
<1>5. \A d \in DOMAIN conns : /\ Dead(d) => Dead(d)'
                              /\ Sound(d) => Sound(d)'
  BY <1>4, OthersKept DEF JoinInv
<1>6. \A m \in Node : dials'[j][m] = IF m \in Discovered(c) THEN 1 ELSE 0
  <2>1. dials' = [dials EXCEPT ![j] = [m \in Node |->
                     dials[j][m] + IF m \in Discovered(c) THEN 1 ELSE 0]]
    BY <1>2 DEF DialerConnected
  <2>2. \A m \in Node : dials'[j][m] = dials[j][m] + IF m \in Discovered(c) THEN 1 ELSE 0
    BY <2>1 DEF NetworkInv, TypeOK
  <2> QED
    BY <1>3, <2>2
<1>7. conns'[c].reader["dialer"] # "handshake"
  <2>1. conns[c] \in Connection
    BY DEF NetworkInv, TypeOK
  <2> QED
    BY <2>1 DEF DialerConnected, Connection, Side
<1>8. \A d \in DOMAIN conns : ~ Learning(d)'
  <2> SUFFICES ASSUME NEW d \in DOMAIN conns, Learning(d)' PROVE FALSE
    OBVIOUS
  <2>1. d # c
    BY <1>7 DEF Learning
  <2>2. Learning(d)
    BY <1>4, <2>1 DEF Learning
  <2>3. d[1] = j
    BY <2>2 DEF JoinInv, OnlyDials, Learning
  <2>4. Dead(d)
    BY <1>3, <2>1, <2>3
  <2> QED
    BY <2>2, <2>4 DEF Learning, Dead, Side
\* The table of the joiner is empty.
<1>9. \A m \in Node \ {root} : peers[j][m] = None
  <2> SUFFICES ASSUME NEW m \in Node \ {root}, peers[j][m] # None PROVE FALSE
    OBVIOUS
  <2> DEFINE d == peers[j][m]
  <2>1. PICK side \in Side : Local(d, side) = j /\ Remote(d, side) = m
    BY DEF NetworkInv, TypeOK
  <2>2. d \in DOMAIN conns
    BY DEF NetworkInv, TypeOK
  <2>3. conns[d].reader[side] = "running"
    BY <2>1, <2>2 DEF Holds, NetworkInv, HeldIsRead
  <2> HIDE DEF d
  <2>4. Between(d, j, m)
    BY <2>1, <2>2, TwoEnds DEF Between
  <2>5. d # c
    BY <1>2, <2>4 DEF Between
  <2>6. Dead(d)
    BY <1>3, <2>2, <2>4, <2>5 DEF Between
  <2> QED
    BY <2>3, <2>6 DEF Dead
<1>10. JoinerReaches(root, j)'
  <2> SUFFICES ASSUME NEW m \in Node \ {j}, up[j], up[m]
               PROVE  Reaches(root, j, m)'
    BY <1>4 DEF JoinerReaches
  <2>1. Reaches(root, j, m)
    BY DEF JoinInv, JoinerReaches
  <2>2. CASE m = root
    <3>1. up[c[1]] /\ up[c[2]] /\ ~ Dead(c)
      BY <1>2, <1>4, <2>2 DEF Moves
    <3>2. Sound(c)'
      BY <1>5, <3>1 DEF JoinInv, SoundOrDead
    <3>3. Between(c, j, m)
      BY <1>2, <2>2 DEF Between
    <3> QED
      BY <1>4, <3>2, <3>3 DEF Reaches, Between
  <2>3. CASE m # root
    <3>1. ASSUME NEW d \in DOMAIN conns, Between(d, j, m), Sound(d) PROVE FALSE
      <4>1. d # c /\ j \in {d[1], d[2]}
        BY <1>2, <2>3, <3>1 DEF Between
      <4> QED
        BY <1>3, <3>1, <4>1, SoundIsNotDead
    <3>2. PICK d \in DOMAIN conns :
             Learning(d) /\ (conns[d].known = None \/ m \in conns[d].known)
      BY <1>3, <2>1, <3>1 DEF Reaches
    <3>3. d = c
      BY <1>3, <3>2 DEF JoinInv, OnlyDials, Learning, Dead, Side
    <3>4. m \in Discovered(c)
      BY <1>1, <1>2, <1>9, <2>3, <3>2, <3>3 DEF Discovered
    <3> QED
      BY <1>6, <3>4 DEF Reaches
  <2> QED
    BY <2>2, <2>3
<1>11. ReachesOnce(root, j)'
  <2>1. ASSUME NEW m \in Node, dials'[j][m] # 0
        PROVE  /\ dials'[j][m] = 1
               /\ \A d \in DOMAIN conns : Between(d, j, m) => Dead(d)'
    <3>1. m \in conns[c].known /\ dials'[j][m] = 1
      BY <1>6, <2>1 DEF Discovered
    <3>2. m # root
      BY <1>3, <3>1
    <3> QED
      BY <1>2, <1>3, <1>5, <3>1, <3>2 DEF Between
  <2>2. bootstrap'[j] = << >>
    BY <1>3, <1>4
  <2> QED
    BY <1>4, <1>8, <2>1, <2>2 DEF ReachesOnce, Between
<1> QED
  BY <1>10, <1>11

\* All steps of connections.
LEMMA ConnectionStepJoins ==
    ASSUME NetworkInv, DownIsClosed, NEW c \in DOMAIN conns, ConnectionStep(c)
    PROVE  /\ DownIsClosed'
           /\ \A root, j \in Node : JoinInv(root, j) => JoinInv(root, j)'
<1>1. Moves(c)
  BY ConnectionMoves
<1>2. dials' = dials \/ DialerConnected(c)
  BY DEF ConnectionStep, HandshakeFails, SendAck, AcceptorConnected, WriterEnds,
         ReaderEnds, ReaderReturns
<1>3. DownIsClosed'
  BY <1>1, <1>2, ClosedMoves
<1>4. ASSUME NEW root \in Node, NEW j \in Node, JoinInv(root, j)
      PROVE  JoinInv(root, j)'
  <2>1. JoinerReaches(root, j)' /\ ReachesOnce(root, j)'
    <3>1. CASE DialerConnected(c) /\ conns[c].discovers
      BY <1>4, <3>1, LearnedKeep
    <3>2. CASE DialerConnected(c) /\ ~ conns[c].discovers
      <4>1. dials' = dials /\ ~ Learning(c)
        BY <3>2 DEF DialerConnected, Learning
      <4>2. ~ Learning(c)'
        BY <1>1, <3>2 DEF Learning, Moves
      <4> QED
        BY <1>1, <1>4, <3>2, <4>1, <4>2, QuietMovesKeep
    <3>3. CASE SendAck(c) \/ AcceptorConnected(c)
      <4>1. Learning(c) => Learning(c)'
        BY <1>1, <3>3, AcceptorMoves DEF Learning, Moves
      <4> QED
        BY <1>1, <1>4, <3>3, <4>1, AcceptorMoves, QuietMovesKeep
    <3>4. CASE \E side \in Side : \/ HandshakeFails(c, side)
                              \/ WriterEnds(c, side)
                              \/ ReaderEnds(c, side)
      <4>1. ~ Sound(c) /\ conns'[c].known = conns[c].known /\ dials' = dials
        BY <3>4, EndingMoves DEF Side
      <4>2. ~ (up[c[1]] /\ up[c[2]])
        BY <1>1, <1>4, <4>1 DEF JoinInv, SoundOrDead, Moves
      <4> QED
        BY <1>1, <1>4, <4>1, <4>2, QuietMovesKeep
    <3> QED
      BY <3>1, <3>2, <3>3, <3>4 DEF ConnectionStep
  <2> QED
    BY <1>1, <1>2, <1>4, <2>1, MovesKeep DEF JoinInv
<1> QED
  BY <1>3, <1>4

-----------------------------------------------------------------------------
(* The mesh of patient starts: the steps of the nodes *)

\* A step that leaves all connections and tables alone.
LEMMA AlikeConnections ==
    ASSUME conns' = conns, peers' = peers
    PROVE  \A d \in DOMAIN conns : /\ Dead(d)' = Dead(d)
                                   /\ Sound(d)' = Sound(d)
                                   /\ Running(d)' = Running(d)
                                   /\ Learning(d)' = Learning(d)
BY DEF Dead, Sound, Running, Learning, Holds, Local, Remote, Other

LEMMA ListenJoins ==
    ASSUME NetworkInv, DownIsClosed, NEW n \in Node, Listen(n)
    PROVE  /\ DownIsClosed'
           /\ \A root, j \in Node : JoinInv(root, j) => JoinInv(root, j)'
<1>1. /\ up[n] /\ listening' = [listening EXCEPT ![n] = TRUE]
      /\ up' = up /\ bootstrap' = bootstrap /\ dials' = dials
      /\ conns' = conns /\ peers' = peers
  BY DEF Listen
<1>2. \A m \in Node : listening'[m] = IF m = n THEN TRUE ELSE listening[m]
  BY <1>1 DEF NetworkInv, TypeOK
<1>3. DownIsClosed'
  BY <1>1, <1>2 DEF DownIsClosed, Local
<1>4. ASSUME NEW root \in Node, NEW j \in Node, JoinInv(root, j)
      PROVE  JoinInv(root, j)'
  <2>1. \A d \in DOMAIN conns : /\ Dead(d)' = Dead(d)
                                /\ Sound(d)' = Sound(d)
                                /\ Running(d)' = Running(d)
                                /\ Learning(d)' = Learning(d)
    BY <1>1, AlikeConnections
  <2>2. OneAlive' /\ SoundOrDead' /\ OthersMeshed(j)' /\ \A m \in Node : up'[m] => up'[root]
    BY <1>1, <1>4, <2>1 DEF JoinInv, OneAlive, SoundOrDead, OthersMeshed, Between
  <2>3. OnlyDials(root, j)'
    BY <1>1, <1>2, <1>4 DEF JoinInv, OnlyDials
  <2>4. JoinerReaches(root, j)'
    BY <1>1, <1>4, <2>1 DEF JoinInv, JoinerReaches, Reaches, Between
  <2>5. ReachesOnce(root, j)'
    BY <1>1, <1>4, <2>1 DEF JoinInv, ReachesOnce, Between
  <2> QED
    BY <2>2, <2>3, <2>4, <2>5 DEF JoinInv
<1> QED
  BY <1>3, <1>4

\* What a process that exits leaves of the connections.
LEMMA CrashEffect ==
    ASSUME NetworkInv, NEW n \in Node, Crash(n)
    PROVE  /\ DOMAIN conns' = DOMAIN conns
           /\ up' = [up EXCEPT ![n] = FALSE]
           /\ \A m \in Node \ {n} : /\ up'[m] = up[m]
                                    /\ listening'[m] = listening[m]
                                    /\ bootstrap'[m] = bootstrap[m]
                                    /\ dials'[m] = dials[m]
           /\ ~ up'[n] /\ ~ listening'[n] /\ bootstrap'[n] = << >>
           /\ \A m \in Node : dials'[n][m] = 0
           /\ \A c \in DOMAIN conns :
                 /\ conns'[c].discovers = conns[c].discovers
                 /\ conns'[c].known = conns[c].known
                 /\ \A side \in Side :
                       IF Local(c, side) = n
                       THEN conns'[c].reader[side] = "ended" /\ ~ conns'[c].writing[side]
                       ELSE /\ conns'[c].reader[side] = conns[c].reader[side]
                            /\ conns'[c].writing[side] = conns[c].writing[side]
                 /\ Dead(c) => Dead(c)'
                 /\ n \notin {c[1], c[2]} => /\ Sound(c) => Sound(c)'
                                             /\ Running(c) => Running(c)'
                 /\ Learning(c)' => Learning(c)
                 /\ (Learning(c) /\ c[1] # n) => Learning(c)'
<1>1. /\ DOMAIN conns' = DOMAIN conns
      /\ \A c \in DOMAIN conns :
            /\ conns'[c].discovers = conns[c].discovers
            /\ conns'[c].known = conns[c].known
            /\ conns'[c].reader = [side \in Side |->
                  IF Local(c, side) = n THEN "ended" ELSE conns[c].reader[side]]
            /\ conns'[c].writing = [side \in Side |->
                  conns[c].writing[side] /\ Local(c, side) # n]
  BY CrashConnection
<1>2. \A c \in DOMAIN conns, side \in Side :
         IF Local(c, side) = n
         THEN conns'[c].reader[side] = "ended" /\ ~ conns'[c].writing[side]
         ELSE /\ conns'[c].reader[side] = conns[c].reader[side]
              /\ conns'[c].writing[side] = conns[c].writing[side]
  <2> SUFFICES ASSUME NEW c \in DOMAIN conns, NEW side \in Side
               PROVE  IF Local(c, side) = n
                      THEN conns'[c].reader[side] = "ended" /\ ~ conns'[c].writing[side]
                      ELSE /\ conns'[c].reader[side] = conns[c].reader[side]
                           /\ conns'[c].writing[side] = conns[c].writing[side]
    OBVIOUS
  <2>1. conns[c].writing[side] \in BOOLEAN
    <3>1. conns[c] \in Connection
      BY TwoEnds
    <3> QED
      BY <3>1 DEF Connection
  <2>2. conns'[c].reader[side] = IF Local(c, side) = n THEN "ended" ELSE conns[c].reader[side]
    <3>1. conns'[c].reader = [e \in Side |->
             IF Local(c, e) = n THEN "ended" ELSE conns[c].reader[e]]
      BY <1>1
    <3> QED
      BY <3>1
  <2>3. conns'[c].writing[side] = (conns[c].writing[side] /\ Local(c, side) # n)
    <3>1. conns'[c].writing = [e \in Side |-> conns[c].writing[e] /\ Local(c, e) # n]
      BY <1>1
    <3> QED
      BY <3>1
  <2> QED
    BY <2>1, <2>2, <2>3
<1>3. \A m, k \in Node : m # n => peers'[m][k] = peers[m][k]
  BY DEF NetworkInv, TypeOK, Crash
<1>4. ASSUME NEW c \in DOMAIN conns
      PROVE  /\ Dead(c) => Dead(c)'
             /\ n \notin {c[1], c[2]} => /\ Sound(c) => Sound(c)'
                                         /\ Running(c) => Running(c)'
             /\ Learning(c)' => Learning(c)
             /\ (Learning(c) /\ c[1] # n) => Learning(c)'
  <2>1. /\ c[1] \in Node /\ c[2] \in Node
        /\ Local(c, "dialer") = c[1] /\ Remote(c, "dialer") = c[2]
        /\ Local(c, "acceptor") = c[2] /\ Remote(c, "acceptor") = c[1]
        /\ Side = {"dialer", "acceptor"}
    BY TwoEnds
  <2>2. Dead(c) => Dead(c)'
    BY <1>2 DEF Dead
  <2>3. ASSUME n \notin {c[1], c[2]}
        PROVE  /\ Sound(c) => Sound(c)'
               /\ Running(c) => Running(c)'
    <3>1. \A side \in Side : /\ conns'[c].reader[side] = conns[c].reader[side]
                             /\ conns'[c].writing[side] = conns[c].writing[side]
      BY <1>2, <2>1, <2>3
    <3>2. \A side \in Side : Holds(c, side)' = Holds(c, side)
      BY <1>3, <2>1, <2>3 DEF Holds, Local, Remote, Other
    <3> QED
      BY <3>1, <3>2 DEF Sound, Running
  <2>4. Learning(c)' => Learning(c)
    BY <1>1, <1>2, <2>1 DEF Learning
  <2>5. (Learning(c) /\ c[1] # n) => Learning(c)'
    BY <1>1, <1>2, <2>1 DEF Learning
  <2> QED
    BY <2>2, <2>3, <2>4, <2>5
<1>5. /\ up' = [up EXCEPT ![n] = FALSE]
      /\ \A m \in Node \ {n} : /\ up'[m] = up[m]
                               /\ listening'[m] = listening[m]
                               /\ bootstrap'[m] = bootstrap[m]
                               /\ dials'[m] = dials[m]
      /\ ~ up'[n] /\ ~ listening'[n] /\ bootstrap'[n] = << >>
      /\ \A m \in Node : dials'[n][m] = 0
  BY DEF NetworkInv, TypeOK, Crash
<1> QED
  BY <1>1, <1>2, <1>4, <1>5

LEMMA CrashJoins ==
    ASSUME NetworkInv, DownIsClosed, NEW n \in Node, Crash(n)
    PROVE  /\ DownIsClosed'
           /\ \A root, j \in Node :
                 (StarAt(root) /\ JoinInv(root, j)) => JoinInv(root, j)'
<1>1. DownIsClosed'
  <2> SUFFICES ASSUME NEW m \in Node, ~ up'[m]
               PROVE  /\ ~ listening'[m]
                      /\ bootstrap'[m] = << >>
                      /\ \A k \in Node : dials'[m][k] = 0
                      /\ \A c \in DOMAIN conns', side \in Side : Local(c, side)' = m =>
                            conns'[c].reader[side] = "ended" /\ ~ conns'[c].writing[side]
    BY DEF DownIsClosed
  <2>1. \A c \in DOMAIN conns, side \in Side : Local(c, side)' = Local(c, side)
    BY DEF Local
  <2>2. CASE m = n
    BY <2>1, <2>2, CrashEffect
  <2>3. CASE m # n
    BY <2>1, <2>3, CrashEffect DEF DownIsClosed
  <2> QED
    BY <2>2, <2>3
<1>2. ASSUME NEW root \in Node, NEW j \in Node, StarAt(root), JoinInv(root, j)
      PROVE  JoinInv(root, j)'
  <2>1. n # root
    BY <1>2 DEF StarAt, Crash
  <2>2. DOMAIN conns' = DOMAIN conns /\ \A m \in Node : up'[m] => up[m] /\ m # n
    BY CrashEffect
  <2>3. \A c \in DOMAIN conns : Dead(c) => Dead(c)'
    BY CrashEffect
  <2>4. \A c \in DOMAIN conns : n \notin {c[1], c[2]} =>
           (Sound(c) => Sound(c)') /\ (Running(c) => Running(c)')
    BY CrashEffect
  <2>5. OneAlive'
    BY <1>2, <2>2, <2>3 DEF JoinInv, OneAlive, Between
  <2>6. SoundOrDead'
    <3> SUFFICES ASSUME NEW c \in DOMAIN conns, up'[c[1]], up'[c[2]]
                 PROVE  Dead(c)' \/ Sound(c)'
      BY <2>2 DEF SoundOrDead
    <3>1. c[1] \in Node /\ c[2] \in Node
      BY TwoEnds
    <3>2. up[c[1]] /\ up[c[2]] /\ n \notin {c[1], c[2]}
      BY <2>2, <3>1
    <3> QED
      BY <1>2, <2>3, <2>4, <3>2 DEF JoinInv, SoundOrDead
  <2>7. \A m \in Node : up'[m] => up'[root]
    BY <1>2, <2>1, <2>2, CrashEffect DEF JoinInv
  <2>8. OnlyDials(root, j)'
    <3>1. ASSUME NEW c \in DOMAIN conns, conns'[c].reader["dialer"] = "handshake"
          PROVE  c[1] = j /\ (conns'[c].discovers => c[2] = root)
      <4>1. conns[c].reader["dialer"] = "handshake" /\ conns'[c].discovers = conns[c].discovers
        BY <3>1, CrashEffect DEF Side
      <4> QED
        BY <1>2, <4>1 DEF JoinInv, OnlyDials
    <3>2. /\ bootstrap'[root] = << >>
          /\ bootstrap'[j] \in {<< >>, <<root>>}
      BY <1>2, <2>1, CrashEffect DEF JoinInv, OnlyDials
    <3>3. \A m \in Node \ {j} :
             /\ bootstrap'[m] = << >>
             /\ \A k \in Node : dials'[m][k] = 0
             /\ up'[m] => listening'[m]
      BY <1>2, CrashEffect DEF JoinInv, OnlyDials
    <3> QED
      BY <2>2, <3>1, <3>2, <3>3 DEF OnlyDials
  <2>9. OthersMeshed(j)'
    <3> SUFFICES ASSUME NEW k \in Node \ {j}, NEW m \in Node \ {j}, k # m, up'[k], up'[m]
                 PROVE  \E c \in DOMAIN conns : Between(c, k, m) /\ Sound(c)' /\ Running(c)'
      BY <2>2 DEF OthersMeshed, Between
    <3>1. PICK c \in DOMAIN conns : Between(c, k, m) /\ Sound(c) /\ Running(c)
      BY <1>2, <2>2 DEF JoinInv, OthersMeshed
    <3>2. n \notin {c[1], c[2]}
      BY <2>2, <3>1 DEF Between
    <3> QED
      BY <2>4, <3>1, <3>2
  <2>10. JoinerReaches(root, j)'
    <3> SUFFICES ASSUME NEW m \in Node \ {j}, up'[j], up'[m]
                 PROVE  Reaches(root, j, m)'
      BY DEF JoinerReaches
    <3>1. n # j /\ n # m /\ up[j] /\ up[m]
      BY <2>2
    <3>2. Reaches(root, j, m)
      BY <1>2, <3>1 DEF JoinInv, JoinerReaches
    <3>3. CASE \E c \in DOMAIN conns : Between(c, j, m) /\ Sound(c)
      <4>1. \E c \in DOMAIN conns : Between(c, j, m) /\ Sound(c)'
        BY <2>4, <3>1, <3>3 DEF Between
      <4> QED
        BY <2>2, <4>1 DEF Reaches, Between
    <3>4. CASE dials[j][m] # 0 \/ bootstrap[j] = <<root>>
      <4>1. dials'[j] = dials[j] /\ bootstrap'[j] = bootstrap[j]
        BY <3>1, CrashEffect
      <4> QED
        BY <3>4, <4>1 DEF Reaches
    <3>5. CASE /\ m # root
               /\ \E c \in DOMAIN conns :
                     Learning(c) /\ (conns[c].known = None \/ m \in conns[c].known)
      <4>1. PICK c \in DOMAIN conns :
               Learning(c) /\ (conns[c].known = None \/ m \in conns[c].known)
        BY <3>5
      <4>2. c[1] = j
        BY <1>2, <4>1 DEF JoinInv, OnlyDials, Learning
      <4>3. Learning(c)' /\ conns'[c].known = conns[c].known
        BY <3>1, <4>1, <4>2, CrashEffect
      <4> QED
        BY <2>2, <3>5, <4>1, <4>3 DEF Reaches
    <3> QED
      BY <3>2, <3>3, <3>4, <3>5 DEF Reaches
  <2>11. ReachesOnce(root, j)'
    <3>1. /\ bootstrap'[j] # << >> => bootstrap[j] # << >>
          /\ bootstrap[j] = << >> => bootstrap'[j] = << >>
      BY CrashEffect
    <3>2. \A m \in Node : dials'[j][m] \in {dials[j][m], 0}
      BY CrashEffect
    <3>3. bootstrap'[j] # << >> =>
             /\ \A m \in Node : dials'[j][m] = 0
             /\ \A c \in DOMAIN conns' : j \in {c[1], c[2]} => Dead(c)'
      BY <1>2, <2>2, <2>3, <3>1, <3>2 DEF JoinInv, ReachesOnce
    <3>4. ASSUME NEW c \in DOMAIN conns, Learning(c)'
          PROVE  /\ bootstrap'[j] = << >>
                 /\ \A m \in Node : dials'[j][m] = 0
                 /\ \A d \in DOMAIN conns \ {c} : j \in {d[1], d[2]} => Dead(d)'
                 /\ conns'[c].known # None => root \notin conns'[c].known
      <4>1. Learning(c) /\ conns'[c].known = conns[c].known
        BY <3>4, CrashEffect
      <4> QED
        BY <1>2, <2>3, <3>1, <3>2, <4>1 DEF JoinInv, ReachesOnce
    <3>5. ASSUME NEW m \in Node, dials'[j][m] # 0
          PROVE  /\ dials'[j][m] = 1
                 /\ \A c \in DOMAIN conns : Between(c, j, m) => Dead(c)'
      <4>1. dials'[j][m] = dials[j][m]
        BY <3>2, <3>5
      <4> QED
        BY <1>2, <2>3, <3>5, <4>1 DEF JoinInv, ReachesOnce
    <3> QED
      BY <2>2, <3>3, <3>4, <3>5 DEF ReachesOnce, Between
  <2> QED
    BY <2>5, <2>6, <2>7, <2>8, <2>9, <2>10, <2>11 DEF JoinInv
<1> QED
  BY <1>1, <1>2

\* What opening one leaves as it was, and what the new one is.
Opened(root, j, m, discovers, k) ==
    /\ \A c \in DOMAIN conns : /\ Dead(c)' = Dead(c)
                               /\ Sound(c)' = Sound(c)
                               /\ Running(c)' = Running(c)
                               /\ Learning(c)' = Learning(c)
                               /\ conns'[c] = conns[c]
    /\ Between(<<j, m, k + 1>>, j, m)
    /\ Sound(<<j, m, k + 1>>)'
    /\ Learning(<<j, m, k + 1>>)' = discovers
    /\ conns'[<<j, m, k + 1>>].known = None
    /\ conns'[<<j, m, k + 1>>].discovers = discovers
    /\ DOMAIN conns' = DOMAIN conns \cup {<<j, m, k + 1>>}
    /\ OneAlive' /\ SoundOrDead' /\ OthersMeshed(j)'
    /\ \A n \in Node : up'[n] => up'[root]

\* The connection the joiner opens, where nothing is left of an earlier one.
LEMMA OpenedJoins ==
    ASSUME NetworkInv, NEW root \in Node, NEW j \in Node, JoinInv(root, j),
           NEW m \in Node \ {j}, NEW discovers \in BOOLEAN, NEW k \in Nat,
           Opens(j, m, discovers, k), UNCHANGED <<peers, up>>,
           \A c \in DOMAIN conns : Between(c, j, m) => Dead(c)
    PROVE  Opened(root, j, m, discovers, k)
<1> DEFINE id == <<j, m, k + 1>>
<1>1. /\ id \notin DOMAIN conns
      /\ DOMAIN conns' = DOMAIN conns \cup {id}
      /\ conns'[id] = NewConnection(discovers)
      /\ \A c \in DOMAIN conns : conns'[c] = conns[c]
      /\ peers' = peers /\ up' = up
  BY DEF Opens
<1>2. /\ id[1] = j /\ id[2] = m /\ Between(id, j, m)
  BY DEF Between
<1> HIDE DEF id
<1>3. \A c \in DOMAIN conns : /\ Dead(c)' = Dead(c)
                              /\ Sound(c)' = Sound(c)
                              /\ Running(c)' = Running(c)
                              /\ Learning(c)' = Learning(c)
  BY <1>1 DEF Dead, Sound, Running, Learning, Holds, Local, Remote, Other
<1>4. /\ Sound(id)' /\ Learning(id)' = discovers
      /\ conns'[id].known = None /\ conns'[id].discovers = discovers
  <2>1. /\ \A side \in Side : /\ conns'[id].reader[side] = "handshake"
                              /\ conns'[id].writing[side]
        /\ conns'[id].known = None /\ conns'[id].discovers = discovers
    BY <1>1 DEF NewConnection
  <2> QED
    BY <2>1 DEF Sound, Learning, Side
<1>5. OneAlive'
  <2> SUFFICES ASSUME NEW x \in DOMAIN conns', NEW y \in DOMAIN conns',
                      x # y, Between(x, y[1], y[2])
               PROVE  Dead(x)' \/ Dead(y)'
    BY DEF OneAlive, Between
  <2>1. CASE x = id
    BY <1>1, <1>2, <1>3, <2>1 DEF Between
  <2>2. CASE y = id
    BY <1>1, <1>2, <1>3, <2>2 DEF Between
  <2>3. CASE x # id /\ y # id
    BY <1>1, <1>3, <2>3 DEF JoinInv, OneAlive
  <2> QED
    BY <2>1, <2>2, <2>3
<1>6. SoundOrDead'
  <2> SUFFICES ASSUME NEW c \in DOMAIN conns', up'[c[1]], up'[c[2]]
               PROVE  Dead(c)' \/ Sound(c)'
    BY DEF SoundOrDead
  <2> QED
    BY <1>1, <1>3, <1>4 DEF JoinInv, SoundOrDead
<1>7. OthersMeshed(j)'
  <2> SUFFICES ASSUME NEW a \in Node \ {j}, NEW b \in Node \ {j}, a # b, up[a], up[b]
               PROVE  \E c \in DOMAIN conns' : Between(c, a, b) /\ Sound(c)' /\ Running(c)'
    BY <1>1 DEF OthersMeshed, Between
  <2>1. PICK c \in DOMAIN conns : Between(c, a, b) /\ Sound(c) /\ Running(c)
    BY DEF JoinInv, OthersMeshed
  <2> QED
    BY <1>1, <1>3, <2>1
<1>8. \A n \in Node : up'[n] => up'[root]
  BY <1>1 DEF JoinInv
<1> QED
  BY <1>1, <1>2, <1>3, <1>4, <1>5, <1>6, <1>7, <1>8 DEF id, Opened

\* Nobody listens where no process runs, and who has something to dial runs.
LEMMA DialsCloseDown ==
    ASSUME NetworkInv, DownIsClosed, NEW n \in Node, NEW m \in Node, n # m,
           NEW discovers \in BOOLEAN, Dial(n, m, discovers), up[n],
           UNCHANGED <<processVars, peers>>,
           \A k \in Node \ {n} : bootstrap'[k] = bootstrap[k] /\ dials'[k] = dials[k]
    PROVE  DownIsClosed'
<1> SUFFICES ASSUME NEW l \in Node, ~ up'[l]
             PROVE  /\ ~ listening'[l]
                    /\ bootstrap'[l] = << >>
                    /\ \A k \in Node : dials'[l][k] = 0
                    /\ \A c \in DOMAIN conns', side \in Side : Local(c, side)' = l =>
                          conns'[c].reader[side] = "ended" /\ ~ conns'[c].writing[side]
  BY DEF DownIsClosed
<1>1. l # n /\ ~ up[l] /\ listening' = listening
  BY DEF processVars
<1>2. \A c \in DOMAIN conns', side \in Side : Local(c, side)' = Local(c, side)
  BY DEF Local
<1>3. ASSUME NEW c \in DOMAIN conns', NEW side \in Side, Local(c, side) = l
      PROVE  conns'[c].reader[side] = "ended" /\ ~ conns'[c].writing[side]
  <2>1. CASE conns' = conns
    BY <1>1, <1>3, <2>1 DEF DownIsClosed
  <2>2. CASE \E k \in Nat : Opens(n, m, discovers, k)
    <3>1. PICK k \in Nat : Opens(n, m, discovers, k)
      BY <2>2
    <3>2. l # m
      BY <1>1, <3>1 DEF Opens, DownIsClosed
    <3>3. c # <<n, m, k + 1>>
      BY <1>1, <1>3, <3>2 DEF Local
    <3>4. c \in DOMAIN conns /\ conns'[c] = conns[c]
      BY <3>1, <3>3 DEF Opens
    <3> QED
      BY <1>1, <1>3, <3>4 DEF DownIsClosed
  <2> QED
    BY <2>1, <2>2, DialEffect
<1> QED
  BY <1>1, <1>2, <1>3 DEF DownIsClosed

LEMMA DialBootstrapJoins ==
    ASSUME NetworkInv, DownIsClosed, NEW n \in Node, DialBootstrap(n)
    PROVE  /\ DownIsClosed'
           /\ \A root, j \in Node : JoinInv(root, j) => JoinInv(root, j)'
<1> DEFINE m == Head(bootstrap[n])
<1>1. /\ up[n] /\ bootstrap[n] # << >> /\ Dial(n, m, TRUE)
      /\ bootstrap' = [bootstrap EXCEPT ![n] = Tail(bootstrap[n])]
      /\ UNCHANGED <<processVars, dials, peers>>
      /\ up' = up /\ listening' = listening
  BY DEF DialBootstrap, processVars
<1>2. bootstrap \in [Node -> Seq(Node)] /\ bootstrap[n] \in Seq(Node)
  BY DEF NetworkInv, TypeOK
<1>3. m \in Node /\ m # n
  <2>1. 1 \in DOMAIN bootstrap[n] /\ m = bootstrap[n][1] /\ m \in Node
    BY <1>1, <1>2
  <2> QED
    BY <2>1 DEF NetworkInv, NoSelfDials
<1>4. \A k \in Node : bootstrap'[k] = IF k = n THEN Tail(bootstrap[n]) ELSE bootstrap[k]
  BY <1>1, <1>2
<1> HIDE DEF m
<1>5. DownIsClosed'
  BY <1>1, <1>3, <1>4, DialsCloseDown
<1>6. ASSUME NEW root \in Node, NEW j \in Node, JoinInv(root, j)
      PROVE  JoinInv(root, j)'
  <2>1. /\ n = j /\ bootstrap[j] = <<root>> /\ j # root
        /\ up[root] /\ listening[root]
    BY <1>1, <1>6 DEF JoinInv, OnlyDials
  <2>2. m = root /\ bootstrap'[j] = << >>
    BY <1>4, <2>1 DEF m
  <2>3. /\ \A k \in Node : dials[j][k] = 0
        /\ \A c \in DOMAIN conns : j \in {c[1], c[2]} => Dead(c)
    BY <1>6, <2>1 DEF JoinInv, ReachesOnce
  <2>4. PICK k \in Nat : Opens(j, root, TRUE, k)
    <3>1. conns' # conns
      <4>1. \E id : DOMAIN conns' = DOMAIN conns \cup {id} /\ conns'[id] = NewConnection(TRUE)
        BY <1>1, <2>1, <2>2 DEF Dial
      <4>2. PICK id : DOMAIN conns' = DOMAIN conns \cup {id} /\ conns'[id] = NewConnection(TRUE)
        BY <4>1
      <4>3. ASSUME conns' = conns PROVE FALSE
        <5>1. id \in DOMAIN conns /\ conns[id].reader["dialer"] = "handshake"
          BY <4>2, <4>3 DEF NewConnection, Side
        <5>2. id[1] = j
          BY <1>6, <5>1 DEF JoinInv, OnlyDials
        <5>3. Dead(id)
          BY <2>3, <5>1, <5>2
        <5> QED
          BY <5>1, <5>3 DEF Dead, Side
      <4> QED
        BY <4>3
    <3> QED
      BY <1>1, <2>1, <2>2, <3>1, DialEffect
  <2> DEFINE id == <<j, root, k + 1>>
  <2>5. \A c \in DOMAIN conns : Between(c, j, root) => Dead(c)
    BY <2>3 DEF Between
  <2>6. /\ \A c \in DOMAIN conns : /\ Dead(c)' = Dead(c)
                                   /\ Sound(c)' = Sound(c)
                                   /\ Learning(c)' = Learning(c)
                                   /\ conns'[c] = conns[c]
        /\ Between(id, j, root) /\ Sound(id)' /\ Learning(id)'
        /\ conns'[id].known = None
        /\ DOMAIN conns' = DOMAIN conns \cup {id}
        /\ OneAlive' /\ SoundOrDead' /\ OthersMeshed(j)'
        /\ \A l \in Node : up'[l] => up'[root]
    <3>1. UNCHANGED <<peers, up>> /\ root \in Node \ {j}
      BY <1>1, <2>1
    <3>2. Opened(root, j, root, TRUE, k)
      BY <1>6, <2>4, <2>5, <3>1, OpenedJoins
    <3> QED
      BY <3>2 DEF Opened
  <2>7. id[1] = j /\ id[2] = root
    OBVIOUS
  <2> HIDE DEF id
  <2>8. OnlyDials(root, j)'
    <3>1. ASSUME NEW c \in DOMAIN conns', conns'[c].reader["dialer"] = "handshake"
          PROVE  c[1] = j /\ (conns'[c].discovers => c[2] = root)
      BY <1>6, <2>6, <2>7, <3>1 DEF JoinInv, OnlyDials
    <3>2. \A l \in Node \ {j} : bootstrap'[l] = bootstrap[l]
      BY <1>4, <2>1
    <3> QED
      BY <1>1, <1>6, <2>1, <2>2, <3>1, <3>2 DEF JoinInv, OnlyDials
  <2>9. JoinerReaches(root, j)'
    <3> SUFFICES ASSUME NEW l \in Node \ {j} PROVE Reaches(root, j, l)'
      BY DEF JoinerReaches
    <3>1. CASE l = root
      <4>1. \E c \in DOMAIN conns' : Between(c, j, l) /\ Sound(c)'
        BY <2>6, <3>1
      <4> QED
        BY <4>1 DEF Reaches, Between
    <3>2. CASE l # root
      BY <2>6, <3>2 DEF Reaches
    <3> QED
      BY <3>1, <3>2
  <2>10. ReachesOnce(root, j)'
    <3>1. ASSUME NEW c \in DOMAIN conns', Learning(c)'
          PROVE  /\ \A d \in DOMAIN conns' \ {c} : j \in {d[1], d[2]} => Dead(d)'
                 /\ conns'[c].known = None
      <4>1. c = id
        <5>1. ASSUME c # id PROVE FALSE
          <6>1. c \in DOMAIN conns /\ Learning(c)
            BY <2>6, <3>1, <5>1
          <6>2. c[1] = j
            BY <1>6, <6>1 DEF JoinInv, OnlyDials, Learning
          <6> QED
            BY <2>3, <6>1, <6>2 DEF Learning, Dead, Side
        <5> QED
          BY <5>1
      <4> QED
        BY <2>3, <2>6, <4>1
    <3>2. \A l \in Node : dials'[j][l] = 0
      BY <1>1, <2>3
    <3> QED
      BY <2>2, <3>1, <3>2 DEF ReachesOnce
  <2> QED
    BY <2>6, <2>8, <2>9, <2>10 DEF JoinInv
<1> QED
  BY <1>5, <1>6

LEMMA DialDiscoveredJoins ==
    ASSUME NetworkInv, DownIsClosed, NEW n \in Node, NEW m \in Node, DialDiscovered(n, m)
    PROVE  /\ DownIsClosed'
           /\ \A root, j \in Node : JoinInv(root, j) => JoinInv(root, j)'
<1>1. /\ dials[n][m] > 0 /\ Dial(n, m, FALSE)
      /\ dials' = [dials EXCEPT ![n][m] = dials[n][m] - 1]
      /\ UNCHANGED <<processVars, bootstrap, peers>>
      /\ up' = up /\ listening' = listening
  BY DEF DialDiscovered, processVars
<1>2. dials \in [Node -> [Node -> Nat]] /\ dials[n][m] # 0
  BY <1>1 DEF NetworkInv, TypeOK
<1>3. n # m /\ up[n]
  BY <1>2 DEF NetworkInv, NoSelfDials, DownIsClosed
<1>4. \A a, b \in Node : dials'[a][b] = IF a = n /\ b = m THEN dials[n][m] - 1 ELSE dials[a][b]
  BY <1>1, <1>2
<1>5. DownIsClosed'
  <2>1. \A k \in Node \ {n} : dials'[k] = dials[k]
    BY <1>1, <1>2
  <2> QED
    BY <1>1, <1>3, <2>1, DialsCloseDown
<1>6. ASSUME NEW root \in Node, NEW j \in Node, JoinInv(root, j)
      PROVE  JoinInv(root, j)'
  <2>1. n = j
    BY <1>2, <1>6 DEF JoinInv, OnlyDials
  <2>2. /\ dials[j][m] = 1 /\ bootstrap[j] = << >>
        /\ \A c \in DOMAIN conns : Between(c, j, m) => Dead(c)
        /\ \A c \in DOMAIN conns : ~ Learning(c)
    BY <1>2, <1>6, <2>1 DEF JoinInv, ReachesOnce
  <2>3. \A l \in Node : dials'[j][l] = IF l = m THEN 0 ELSE dials[j][l]
    BY <1>4, <2>1, <2>2
  <2>4. \A l \in Node \ {j}, b \in Node : dials'[l][b] = dials[l][b]
    BY <1>4, <2>1
  <2>5. CASE conns' = conns
    <3>1. \A d \in DOMAIN conns : /\ Dead(d)' = Dead(d)
                                  /\ Sound(d)' = Sound(d)
                                  /\ Running(d)' = Running(d)
                                  /\ Learning(d)' = Learning(d)
      BY <1>1, <2>5, AlikeConnections
    <3>2. /\ OneAlive' /\ SoundOrDead' /\ OthersMeshed(j)'
          /\ \A l \in Node : up'[l] => up'[root]
      BY <1>1, <1>6, <2>5, <3>1 DEF JoinInv, OneAlive, SoundOrDead, OthersMeshed, Between
    <3>3. OnlyDials(root, j)'
      BY <1>1, <1>6, <2>4, <2>5 DEF JoinInv, OnlyDials
    <3>4. ~ up[m]
      <4>1. ASSUME listening[m] PROVE FALSE
        <5> DEFINE id == <<n, m, Cardinality({c \in DOMAIN conns : c[1] = n /\ c[2] = m}) + 1>>
        <5>1. /\ id \in DOMAIN conns' /\ conns'[id] = NewConnection(FALSE)
              /\ id[1] = n /\ id[2] = m
          BY <1>1, <4>1 DEF Dial
        <5> HIDE DEF id
        <5>2. Between(id, j, m) /\ conns[id].reader["dialer"] = "handshake"
          BY <2>1, <2>5, <5>1 DEF Between, NewConnection, Side
        <5> QED
          BY <2>2, <2>5, <5>1, <5>2 DEF Dead, Side
      <4> QED
        BY <1>3, <1>6, <2>1, <4>1 DEF JoinInv, OnlyDials
    <3>5. JoinerReaches(root, j)'
      <4> SUFFICES ASSUME NEW l \in Node \ {j}, up[j], up[l]
                   PROVE  Reaches(root, j, l)'
        BY <1>1 DEF JoinerReaches
      <4>1. Reaches(root, j, l) /\ l # m
        BY <1>6, <3>4 DEF JoinInv, JoinerReaches
      <4> QED
        BY <1>1, <2>3, <2>5, <3>1, <4>1 DEF Reaches, Between
    <3>6. ReachesOnce(root, j)'
      BY <1>1, <1>6, <2>2, <2>3, <2>5, <3>1 DEF JoinInv, ReachesOnce, Between
    <3> QED
      BY <3>2, <3>3, <3>5, <3>6 DEF JoinInv
  <2>6. ASSUME NEW k \in Nat, Opens(j, m, FALSE, k)
        PROVE  JoinInv(root, j)'
    <3> DEFINE id == <<j, m, k + 1>>
    <3>1. /\ \A c \in DOMAIN conns : /\ Dead(c)' = Dead(c)
                                     /\ Sound(c)' = Sound(c)
                                     /\ Learning(c)' = Learning(c)
                                     /\ conns'[c] = conns[c]
          /\ Between(id, j, m) /\ Sound(id)' /\ ~ Learning(id)'
          /\ conns'[id].discovers = FALSE
          /\ DOMAIN conns' = DOMAIN conns \cup {id}
          /\ OneAlive' /\ SoundOrDead' /\ OthersMeshed(j)'
          /\ \A l \in Node : up'[l] => up'[root]
      <4>1. UNCHANGED <<peers, up>> /\ m \in Node \ {j}
        BY <1>1, <1>3, <2>1
      <4>2. Opened(root, j, m, FALSE, k)
        BY <1>6, <2>2, <2>6, <4>1, OpenedJoins
      <4> QED
        BY <4>2 DEF Opened
    <3>2. id[1] = j /\ id[2] = m
      OBVIOUS
    <3> HIDE DEF id
    <3>3. OnlyDials(root, j)'
      <4>1. ASSUME NEW c \in DOMAIN conns', conns'[c].reader["dialer"] = "handshake"
            PROVE  c[1] = j /\ (conns'[c].discovers => c[2] = root)
        BY <1>6, <3>1, <3>2, <4>1 DEF JoinInv, OnlyDials
      <4> QED
        BY <1>1, <1>6, <2>4, <4>1 DEF JoinInv, OnlyDials
    <3>4. JoinerReaches(root, j)'
      <4> SUFFICES ASSUME NEW l \in Node \ {j}, up[j], up[l]
                   PROVE  Reaches(root, j, l)'
        BY <1>1 DEF JoinerReaches
      <4>1. CASE l = m
        <5>1. \E c \in DOMAIN conns' : Between(c, j, l) /\ Sound(c)'
          BY <3>1, <4>1
        <5> QED
          BY <5>1 DEF Reaches, Between
      <4>2. CASE l # m
        <5>1. Reaches(root, j, l)
          BY <1>6 DEF JoinInv, JoinerReaches
        <5>2. CASE \E c \in DOMAIN conns : Between(c, j, l) /\ Sound(c)
          <6>1. \E c \in DOMAIN conns' : Between(c, j, l) /\ Sound(c)'
            BY <3>1, <5>2
          <6> QED
            BY <6>1 DEF Reaches, Between
        <5>3. CASE dials[j][l] # 0
          BY <2>3, <4>2, <5>3 DEF Reaches
        <5> QED
          BY <2>2, <5>1, <5>2, <5>3 DEF Reaches
      <4> QED
        BY <4>1, <4>2
    <3>5. ReachesOnce(root, j)'
      <4>1. \A c \in DOMAIN conns' : ~ Learning(c)'
        BY <2>2, <3>1
      <4>2. ASSUME NEW l \in Node, dials'[j][l] # 0
            PROVE  /\ dials'[j][l] = 1
                   /\ \A c \in DOMAIN conns' : Between(c, j, l) => Dead(c)'
        <5>1. l # m /\ dials'[j][l] = dials[j][l]
          BY <2>3, <4>2
        <5>2. dials[j][l] = 1 /\ \A c \in DOMAIN conns : Between(c, j, l) => Dead(c)
          BY <1>6, <4>2, <5>1 DEF JoinInv, ReachesOnce
        <5>3. ~ Between(id, j, l)
          BY <1>3, <2>1, <3>2, <5>1 DEF Between
        <5> QED
          BY <3>1, <5>1, <5>2, <5>3
      <4>3. bootstrap'[j] = << >>
        BY <1>1, <2>2
      <4> QED
        BY <4>1, <4>2, <4>3 DEF ReachesOnce, Between
    <3> QED
      BY <3>1, <3>3, <3>4, <3>5 DEF JoinInv
  <2> QED
    BY <1>1, <1>3, <2>1, <2>5, <2>6, DialEffect
<1> QED
  BY <1>5, <1>6

\* At rest, whatever has not ended runs, and nothing is being dialled.
LEMMA SettledRest ==
    ASSUME NetworkInv, DownIsClosed, Settled
    PROVE  /\ \A n \in Node : bootstrap[n] = << >> /\ \A m \in Node : dials[n][m] = 0
           /\ \A c \in DOMAIN conns :
                 /\ conns[c].reader["dialer"] # "handshake" /\ ~ Learning(c)
                 /\ Sound(c) => Running(c)
                 /\ \A n \in Node : (n \in {c[1], c[2]} /\ ~ up[n]) => Dead(c)
<1>1. \A n \in Node : bootstrap[n] = << >> /\ \A m \in Node : dials[n][m] = 0
  BY DEF Settled
<1>2. ASSUME NEW c \in DOMAIN conns
      PROVE  /\ conns[c].reader["dialer"] # "handshake" /\ ~ Learning(c)
             /\ Sound(c) => Running(c)
  <2>1. \A side \in Side : conns[c].reader[side] \in {"running", "ended"}
    BY DEF Settled
  <2> QED
    BY <2>1 DEF Learning, Sound, Running, Side
<1>3. ASSUME NEW c \in DOMAIN conns, NEW n \in Node, n \in {c[1], c[2]}, ~ up[n]
      PROVE  Dead(c)
  <2>1. c \in Id
    BY TwoEnds
  <2>2. PICK side \in Side : Local(c, side) = n
    BY <1>3, TwoEnds
  <2>3. conns[c].reader[side] = "ended" /\ ~ conns[c].writing[side]
    BY <1>3, <2>2 DEF DownIsClosed
  <2>4. /\ Other(side) \in Side /\ Other(Other(side)) = side
        /\ \A s \in Side : s = side \/ s = Other(side)
    BY <2>1, Ends DEF Side, Other
  <2>5. AtEnd(c, Other(side))
    BY <2>3, <2>4 DEF AtEnd
  <2>6. conns[c].reader[Other(side)] = "ended"
    BY <2>4, <2>5 DEF Settled
  <2>7. ~ Holds(c, Other(side))
    BY <2>4, <2>6 DEF NetworkInv, HeldIsRead
  <2>8. conns[c].writing[Other(side)] => Holds(c, Other(side))
    BY <2>4 DEF Settled
  <2> QED
    BY <2>3, <2>4, <2>6, <2>7, <2>8 DEF Dead
<1> QED
  BY <1>1, <1>2, <1>3

\* The joiner has reached everybody once the tasks are at rest.
LEMMA SettledMesh ==
    ASSUME NetworkInv, DownIsClosed, Settled, NEW root \in Node, NEW j \in Node,
           JoinInv(root, j), NEW a \in Node, NEW b \in Node, a # b, up[a], up[b]
    PROVE  \E c \in DOMAIN conns : Between(c, a, b) /\ Sound(c) /\ Running(c)
<1>1. ASSUME NEW m \in Node \ {j}, up[j], up[m]
      PROVE  \E c \in DOMAIN conns : Between(c, j, m) /\ Sound(c) /\ Running(c)
  <2>1. Reaches(root, j, m)
    BY <1>1 DEF JoinInv, JoinerReaches
  <2>2. dials[j][m] = 0 /\ bootstrap[j] = << >> /\ << >> # <<root>>
    BY SettledRest
  <2> QED
    BY <2>1, <2>2, SettledRest DEF Reaches
<1>2. CASE a # j /\ b # j
  BY <1>2 DEF JoinInv, OthersMeshed
<1>3. CASE a = j
  BY <1>1, <1>3
<1>4. CASE b = j
  BY <1>1, <1>4 DEF Between
<1> QED
  BY <1>2, <1>3, <1>4

\* A patient start makes the node started the joiner.
LEMMA StartJoins ==
    ASSUME NetworkInv, MeshInv, NEW n \in Node, Start(n)
    PROVE  MeshInv'
<1>1. /\ ~ up[n]
      /\ up' = [up EXCEPT ![n] = TRUE]
      /\ listening' = [listening EXCEPT ![n] = n \notin Library]
      /\ bootstrap' = [bootstrap EXCEPT ![n] = deployment.options[n]]
      /\ dials' = dials /\ conns' = conns /\ peers' = peers /\ deployment' = deployment
  BY DEF Start
<1>2. \A l \in Node : /\ up'[l] = (l = n \/ up[l])
                      /\ bootstrap'[l] = IF l = n THEN deployment.options[n] ELSE bootstrap[l]
                      /\ l # n => listening'[l] = listening[l]
  BY <1>1 DEF NetworkInv, TypeOK
<1>3. DownIsClosed'
  <2>1. ASSUME NEW l \in Node, ~ up'[l]
        PROVE  /\ ~ listening'[l] /\ bootstrap'[l] = << >>
               /\ \A m \in Node : dials'[l][m] = 0
               /\ \A c \in DOMAIN conns', side \in Side :
                     Local(c, side) = l => conns'[c].reader[side] = "ended" /\ ~ conns'[c].writing[side]
    <3>1. l # n /\ ~ up[l]
      BY <1>2, <2>1
    <3>2. /\ ~ listening[l] /\ bootstrap[l] = << >>
          /\ \A m \in Node : dials[l][m] = 0
          /\ \A c \in DOMAIN conns, side \in Side :
                Local(c, side) = l => conns[c].reader[side] = "ended" /\ ~ conns[c].writing[side]
      BY <3>1 DEF MeshInv, DownIsClosed
    <3>3. listening'[l] = listening[l] /\ bootstrap'[l] = bootstrap[l]
      BY <1>2, <3>1
    <3>4. dials' = dials /\ conns' = conns
      BY <1>1
    <3> QED
      BY <3>2, <3>3, <3>4
  <2> QED
    BY <2>1, Zenon DEF DownIsClosed, Local
<1>4. ASSUME NEW root \in Node, StarAt(root)', ~ disturbed'
      PROVE  JoinInv(root, n)'
  <2>1. /\ ~ disturbed /\ Settled
        /\ \A i \in DOMAIN deployment.options[n] : up[deployment.options[n][i]]
    BY <1>4 DEF Start
  <2>2. StarAt(root)
    BY <1>1, <1>4 DEF StarAt
  <2>3. PICK j \in Node : JoinInv(root, j)
    BY <2>1, <2>2 DEF MeshInv
  <2>4. DownIsClosed
    BY DEF MeshInv
  <2>5. \A d \in DOMAIN conns : /\ Dead(d)' = Dead(d)
                                /\ Sound(d)' = Sound(d)
                                /\ Running(d)' = Running(d)
                                /\ Learning(d)' = Learning(d)
    BY <1>1, AlikeConnections
  <2>6. /\ \A l \in Node : bootstrap[l] = << >> /\ \A m \in Node : dials[l][m] = 0
        /\ \A c \in DOMAIN conns :
              /\ conns[c].reader["dialer"] # "handshake" /\ ~ Learning(c)
              /\ n \in {c[1], c[2]} => Dead(c)
    BY <1>1, <2>1, <2>4, SettledRest
  <2>7. /\ n = root => deployment.options[n] = << >>
        /\ n # root => deployment.options[n] = <<root>> /\ up[root]
    <3>1. n # root => deployment.options[n] = <<root>>
      BY <2>2 DEF StarAt
    <3>2. n # root => 1 \in DOMAIN deployment.options[n] /\ deployment.options[n][1] = root
      BY <3>1
    <3> QED
      BY <2>1, <2>2, <3>1, <3>2 DEF StarAt
  <2>8. OneAlive'
    BY <1>1, <2>3, <2>5 DEF JoinInv, OneAlive, Between
  <2>9. SoundOrDead'
    <3> SUFFICES ASSUME NEW c \in DOMAIN conns, up'[c[1]], up'[c[2]]
                 PROVE  Dead(c)' \/ Sound(c)'
      BY <1>1 DEF SoundOrDead
    <3>1. c[1] \in Node /\ c[2] \in Node
      BY TwoEnds
    <3>2. CASE n \in {c[1], c[2]}
      BY <2>5, <2>6, <3>2
    <3>3. CASE n \notin {c[1], c[2]}
      BY <1>2, <2>3, <2>5, <3>1, <3>3 DEF JoinInv, SoundOrDead
    <3> QED
      BY <3>2, <3>3
  <2>10. \A l \in Node : up'[l] => up'[root]
    BY <1>2, <2>3, <2>7 DEF JoinInv
  <2>11. OnlyDials(root, n)'
    <3>1. bootstrap'[root] = << >> /\ bootstrap'[n] \in {<< >>, <<root>>}
      BY <1>2, <2>6, <2>7
    <3>2. \A l \in Node \ {n} : up[l] => listening[l]
      BY <2>1 DEF Settled
    <3> QED
      BY <1>1, <1>2, <2>6, <3>1, <3>2 DEF OnlyDials
  <2>12. OthersMeshed(n)'
    <3> SUFFICES ASSUME NEW a \in Node \ {n}, NEW b \in Node \ {n}, a # b, up[a], up[b]
                 PROVE  \E c \in DOMAIN conns : Between(c, a, b) /\ Sound(c)' /\ Running(c)'
      BY <1>1, <1>2 DEF OthersMeshed, Between
    <3> QED
      BY <2>1, <2>3, <2>4, <2>5, SettledMesh
  <2>13. JoinerReaches(root, n)'
    <3>1. ASSUME NEW m \in Node \ {n}, up'[m] PROVE Reaches(root, n, m)'
      <4>1. up[root] /\ n # root
        BY <1>1, <1>2, <2>3, <3>1 DEF JoinInv
      <4> QED
        BY <1>2, <2>7, <4>1 DEF Reaches
    <3> QED
      BY <3>1 DEF JoinerReaches
  <2>14. ReachesOnce(root, n)'
    BY <1>1, <2>5, <2>6 DEF ReachesOnce, Between
  <2> QED
    BY <2>8, <2>9, <2>10, <2>11, <2>12, <2>13, <2>14 DEF JoinInv
<1> QED
  BY <1>3, <1>4 DEF MeshInv

LEMMA MeshInit == Init => MeshInv
<1> SUFFICES ASSUME Init PROVE MeshInv
  OBVIOUS
<1>1. /\ DOMAIN conns = {}
      /\ \A n \in Node : ~ up[n] /\ ~ listening[n] /\ bootstrap[n] = << >>
      /\ \A n, m \in Node : dials[n][m] = 0
  BY DEF Init
<1>2. DownIsClosed
  BY <1>1 DEF DownIsClosed
<1>3. ASSUME NEW root \in Node PROVE JoinInv(root, root)
  BY <1>1, <1>3 DEF JoinInv, OneAlive, SoundOrDead, OnlyDials, OthersMeshed,
     JoinerReaches, ReachesOnce
<1> QED
  BY <1>2, <1>3 DEF MeshInv

\* A step that starts no node leaves the star and the joiner as they are.
LEMMA JoinerStays ==
    ASSUME MeshInv, DownIsClosed', deployment' = deployment, disturbed' = disturbed,
           \A root, j \in Node : (StarAt(root) /\ JoinInv(root, j)) => JoinInv(root, j)'
    PROVE  MeshInv'
BY DEF MeshInv, StarAt

LEMMA MeshStep == NetworkInv /\ MeshInv /\ [Next]_vars => MeshInv'
<1> SUFFICES ASSUME NetworkInv, MeshInv, [Next]_vars PROVE MeshInv'
  OBVIOUS
<1>1. DownIsClosed
  BY DEF MeshInv
<1>2. ASSUME NEW n \in Node, Crash(n) PROVE MeshInv'
  BY <1>1, <1>2, CrashJoins, JoinerStays DEF Crash
<1>3. ASSUME NEW n \in Node, Listen(n) PROVE MeshInv'
  BY <1>1, <1>3, ListenJoins, JoinerStays DEF Listen
<1>4. ASSUME NEW n \in Node, DialBootstrap(n) PROVE MeshInv'
  <2>1. deployment' = deployment /\ disturbed' = disturbed
    BY <1>4 DEF DialBootstrap, processVars
  <2> QED
    BY <1>1, <1>4, <2>1, DialBootstrapJoins, JoinerStays
<1>5. ASSUME NEW n \in Node, NEW m \in Node, DialDiscovered(n, m) PROVE MeshInv'
  <2>1. deployment' = deployment /\ disturbed' = disturbed
    BY <1>5 DEF DialDiscovered, processVars
  <2> QED
    BY <1>1, <1>5, <2>1, DialDiscoveredJoins, JoinerStays
<1>6. ASSUME NEW c \in DOMAIN conns, ConnectionStep(c) PROVE MeshInv'
  <2>1. deployment' = deployment /\ disturbed' = disturbed
    BY <1>6 DEF ConnectionStep, DialerConnected, HandshakeFails, SendAck, AcceptorConnected,
       WriterEnds, ReaderEnds, processVars
  <2> QED
    BY <1>1, <1>6, <2>1, ConnectionStepJoins, JoinerStays
<1>7. ASSUME NEW c \in DOMAIN conns, NEW side \in Side, ReaderFails(c, side)
      PROVE  MeshInv'
  \* With a reader that failed nothing is claimed of the mesh.
  <2>1. /\ disturbed' /\ UNCHANGED <<up, listening, bootstrap, dials>>
        /\ DOMAIN conns' = DOMAIN conns
    BY <1>7 DEF ReaderFails, ReaderReturns
  <2>2. \A d \in DOMAIN conns, end \in Side :
           /\ conns'[d].reader[end] \in {conns[d].reader[end], "ended"}
           /\ conns'[d].writing[end] = conns[d].writing[end]
    <3>1. conns[c] \in Connection
      BY DEF NetworkInv, TypeOK
    <3> QED
      BY <1>7, <3>1 DEF ReaderFails, ReaderReturns, Connection
  <2>3. DownIsClosed'
    BY <1>1, <2>1, <2>2 DEF DownIsClosed, Local
  <2> QED
    BY <2>1, <2>3 DEF MeshInv
<1>8. ASSUME UNCHANGED vars PROVE MeshInv'
  <2>1. /\ conns' = conns /\ peers' = peers /\ up' = up /\ listening' = listening
        /\ bootstrap' = bootstrap /\ dials' = dials /\ deployment' = deployment
        /\ disturbed' = disturbed
    BY <1>8 DEF vars
  <2>2. \A d \in DOMAIN conns : /\ Dead(d)' = Dead(d)
                                /\ Sound(d)' = Sound(d)
                                /\ Running(d)' = Running(d)
                                /\ Learning(d)' = Learning(d)
    BY <2>1, AlikeConnections
  <2>3. DownIsClosed'
    BY <1>1, <2>1 DEF DownIsClosed, Local
  <2>4. ASSUME NEW root \in Node, NEW j \in Node, JoinInv(root, j) PROVE JoinInv(root, j)'
    <3>1. /\ OneAlive' /\ SoundOrDead' /\ OthersMeshed(j)'
          /\ \A n \in Node : up'[n] => up'[root]
      BY <2>1, <2>2, <2>4 DEF JoinInv, OneAlive, SoundOrDead, OthersMeshed, Between
    <3>2. OnlyDials(root, j)'
      BY <2>1, <2>4 DEF JoinInv, OnlyDials
    <3>3. JoinerReaches(root, j)'
      BY <2>1, <2>2, <2>4 DEF JoinInv, JoinerReaches, Reaches, Between
    <3>4. ReachesOnce(root, j)'
      BY <2>1, <2>2, <2>4 DEF JoinInv, ReachesOnce, Between
    <3> QED
      BY <3>1, <3>2, <3>3, <3>4 DEF JoinInv
  <2> QED
    BY <2>1, <2>3, <2>4, JoinerStays
<1> QED
  BY <1>2, <1>3, <1>4, <1>5, <1>6, <1>7, <1>8, StartJoins DEF Next, NodeStep

-----------------------------------------------------------------------------
(* The theorems *)

\* Every state is well typed, and an entry of a table is a connection between
\* the two nodes, whatever is dialled, discovered, replaced or restarted.
THEOREM NetworkTyped == Spec => []TypeOK
<1>1. Spec => []NetworkInv
  BY NetworkInit, NetworkStep, PTL DEF Spec
<1>2. NetworkInv => TypeOK
  BY DEF NetworkInv
<1> QED
  BY <1>1, <1>2, PTL

\* In a network of any size, once the tasks have come to rest the tables of a
\* pair of nodes agree: a handle belongs to a running reader, a reader at rest
\* sees the remote writer open, and a writer at rest is held by its table.
THEOREM TablesSymmetric == Spec => []TablesAgree
<1>1. Spec => []NetworkInv
  BY NetworkInit, NetworkStep, PTL DEF Spec
<1>2. NetworkInv => TablesAgree
  <2> SUFFICES ASSUME NetworkInv, Settled, NEW n \in Node, NEW m \in Node,
                      peers[n][m] # None
               PROVE  peers[m][n] = peers[n][m]
    BY DEF TablesAgree
  <2> DEFINE c == peers[n][m]
  <2>1. c \in DOMAIN conns /\ c \in Id
    BY DEF NetworkInv, TypeOK
  <2>2. PICK side \in Side : Local(c, side) = n /\ Remote(c, side) = m
    BY DEF NetworkInv, TypeOK
  <2>3. conns[c].reader[side] = "running"
    BY <2>1, <2>2 DEF Holds, NetworkInv, HeldIsRead
  <2>4. /\ Other(side) \in Side
        /\ Local(c, Other(side)) = m
        /\ Remote(c, Other(side)) = n
    BY <2>1, <2>2, Ends
  <2>5. conns[c].writing[Other(side)]
    BY <2>1, <2>3 DEF Settled, AtEnd
  <2>6. Holds(c, Other(side))
    BY <2>1, <2>4, <2>5 DEF Settled
  <2> QED
    BY <2>4, <2>6 DEF Holds
<1> QED
  BY <1>1, <1>2, PTL

\* The star of run.sh becomes a mesh, whatever the number of nodes, their kind
\* and the crashes of those that are not the root, as long as each node is
\* started after the earlier ones have settled and no reader fails: at rest the
\* entries of the tables are the connections that MeshInv keeps sound.
THEOREM PatientMesh == Spec => []PatientStartsMesh
<1>1. Spec => []NetworkInv
  BY NetworkInit, NetworkStep, PTL DEF Spec
<1>2. Spec => []MeshInv
  BY <1>1, MeshInit, MeshStep, PTL DEF Spec
<1>3. NetworkInv /\ MeshInv => PatientStartsMesh
  <2> SUFFICES ASSUME NetworkInv, MeshInv, Settled, Star, ~ disturbed,
                      NEW n \in Node, NEW m \in Node, up[n], up[m], n # m
               PROVE  peers[n][m] # None
    BY DEF PatientStartsMesh
  <2>1. PICK root \in Node : StarAt(root)
    BY DEF Star, StarAt
  <2>2. PICK j \in Node : JoinInv(root, j)
    BY <2>1 DEF MeshInv
  <2>3. PICK c \in DOMAIN conns : Between(c, n, m) /\ Sound(c) /\ Running(c)
    BY <2>2, SettledMesh DEF MeshInv
  <2>4. PICK side \in Side : Local(c, side) = n /\ Remote(c, side) = m
    BY <2>3, TwoEnds DEF Between
  <2>5. Holds(c, side)
    BY <2>3 DEF Sound, Running
  <2>6. peers[n][m] = c /\ c # None
    BY <2>4, <2>5, TwoEnds, NetworkAssumption DEF Holds
  <2> QED
    BY <2>6
<1> QED
  BY <1>1, <1>2, <1>3, PTL

=============================================================================
