------------------------- MODULE NetworkProperties --------------------------
(***************************************************************************)
(* What the peer tables of module Network promise.                         *)
(***************************************************************************)
EXTENDS Network

\* Every variable keeps its type, and an entry of a table is a connection
\* between the two nodes.
TypeOK ==
    /\ deployment \in Deployments
    /\ up \in [Node -> BOOLEAN]
    /\ listening \in [Node -> BOOLEAN]
    /\ bootstrap \in [Node -> Seq(Node)]
    /\ dials \in [Node -> [Node -> Nat]]
    /\ DOMAIN conns \subseteq Id
    /\ \A c \in DOMAIN conns : conns[c] \in Connection
    /\ peers \in [Node -> [Node -> DOMAIN conns \cup {None}]]
    /\ \A n, m \in Node : peers[n][m] # None =>
          \E side \in Side :
              Local(peers[n][m], side) = n /\ Remote(peers[n][m], side) = m
    /\ disturbed \in BOOLEAN
    /\ faults \in 0 .. MaxFaults

\* Once the tasks have come to rest both nodes of a pair send on the same
\* connection, or neither has the other in its table: however the inserts, the
\* removals by node id, the restarts and the readers that gave up were
\* interleaved, no node is left sending to a peer that does not answer.
TablesAgree ==
    Settled => \A n, m \in Node : peers[n][m] = peers[m][n]

\* The star of run.sh: one node is the only bootstrap peer of all the others.
Star ==
    \E root \in Node \ deployment.failing :
        /\ deployment.options[root] = << >>
        /\ \A n \in Node \ {root} : deployment.options[n] = <<root>>

\* DOCUMENTATION.md: "Network forms mesh topology".  It does for the deployment
\* of run.sh, also when nodes stop and come back, provided each node is started
\* after its bootstrap peer is up and the earlier ones have settled, and no reader
\* gives up on a frame: a connection that is lost that way is not opened again.
PatientStartsMesh ==
    (Settled /\ Star /\ ~disturbed) =>
        \A n, m \in Node : (up[n] /\ up[m] /\ n # m) => peers[n][m] # None

\* n reads from two connections to m.
Doubled(n, m) ==
    \E c, d \in DOMAIN conns, s, t \in Side :
        /\ c # d
        /\ Local(c, s) = n /\ Remote(c, s) = m /\ conns[c].reader[s] = "running"
        /\ Local(d, t) = n /\ Remote(d, t) = m /\ conns[d].reader[t] = "running"

\* Two connections to one peer never end as one: dropping the handle of the
\* first ends its readers, and these remove the entry of the second.
DoubledCutsOff ==
    \A n, m \in Node : Doubled(n, m) ~> peers[n][m] = None

=============================================================================
