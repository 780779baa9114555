----------------------------- MODULE PbftConfig -----------------------------
(***************************************************************************)
(* The static configuration of a P2P-PBFT deployment: the replica ids, the *)
(* sorted list `replicas` every node derives from the same seeds, and the  *)
(* numbers PbftConfig computes from n (src/src/pbft.rs, PbftConfig and     *)
(* PbftState::primary; src/src/main.rs builds the list).                   *)
(***************************************************************************)
EXTENDS Naturals, FiniteSets

CONSTANTS
    Replica,            \* the node ids (hex public keys)
    replicas,           \* Vec<NodeId>, here as a function on 0 .. n-1
    CheckpointInterval  \* PbftConfig::checkpoint_interval (100 in the code)

n == Cardinality(Replica)

\* The deployment main.rs sets up with --index: `replicas` lists every node
\* once, in the same order everywhere, and config.n is its length.
ASSUME ReplicasAssumption ==
    /\ IsFiniteSet(Replica)
    /\ n >= 1
    /\ replicas \in [0 .. n-1 -> Replica]
    /\ \A i, j \in 0 .. n-1 : replicas[i] = replicas[j] => i = j

ASSUME IntervalAssumption == CheckpointInterval \in Nat \ {0}

f == (n - 1) \div 3

QuorumOffByOne == 2 * f
Quorum == 2 * f + 1

Primary(v) == replicas[v % n]

=============================================================================
