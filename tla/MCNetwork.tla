----------------------------- MODULE MCNetwork ------------------------------
(***************************************************************************)
(* An instance of module Network for TLC.                                  *)
(***************************************************************************)
EXTENDS NetworkProperties

CONSTANTS n1, n2, n3

Deploy(first, second, third, failing) ==
    [options |-> [n \in {n1, n2, n3} |->
         CASE n = n1 -> first [] n = n2 -> second [] n = n3 -> third],
     failing |-> failing]

\* run.sh with nodes that stop and come back, a third node that repeats -b,
\* and two nodes that name each other.
ThreeDeployments ==
    {Deploy(<< >>, <<n1>>, <<n1>>, {n2, n3}),
     Deploy(<< >>, <<n1>>, <<n1, n2>>, {}),
     Deploy(<<n2>>, <<n1>>, <<n1>>, {})}

=============================================================================
