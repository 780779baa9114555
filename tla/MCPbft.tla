------------------------------- MODULE MCPbft -------------------------------
(***************************************************************************)
(* Instances of module Pbft for TLC.                                       *)
(***************************************************************************)
EXTENDS PbftProperties, TLC

CONSTANTS p0, r1, r2, r3, a, b, c

\* The sorted replica list: p0 is the primary of view 0, r1 of view 1, ...
Sorted == <<p0, r1, r2, r3>>
Four   == [i \in 0 .. 3 |-> Sorted[i + 1]]
Three  == [i \in 0 .. 2 |-> Sorted[i + 1]]
Two    == [i \in 0 .. 1 |-> Sorted[i + 1]]

\* While no replica leaves view 0 the list decides nothing but its primary.
Backups == Permutations({r1, r2, r3})

\* Requests are never compared but for equality.
Requests == Permutations(Request)

\* The part of the state space around one story: p0's connection to r3 breaks,
\* r1 executes a request, and only then p0 crashes, restarts and goes on.
RestartAfterExecution ==
    /\ \A r \in Replica : forwarded[r] = << >>
    /\ faults = 0 => submits = 0
    /\ faults = 1 => submits <= 1 /\ peers[p0] = {r1, r2}
    /\ (faults = 2 /\ ~up[p0]) => Len(delivered[r1]) = 1
    /\ submits = 2 => faults = 2

\* Either the timer of r2 fires, or the primary crashes and restarts without
\* memory or loses a connection.  (r1 would ask for the view it is to lead.)
TimerOrFault ==
    /\ ~view_changing[r1] /\ ~view_change_due[r1]
    /\ faults > 0 =>
          \A r \in Replica :
              view[r] = 0 /\ ~view_changing[r] /\ ~view_change_due[r]

=============================================================================
