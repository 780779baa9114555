------------------------------- MODULE Ledger -------------------------------
(***************************************************************************)
(* What the replicas together promise their clients: one ledger, written   *)
(* once per sequence number and in ascending order, and processes that     *)
(* execute from it alone, each request once per lifetime of the process.   *)
(* Who orders, votes and checkpoints is left open.                         *)
(***************************************************************************)
EXTENDS Naturals, Sequences

CONSTANTS Replica, Request, Seqs, None

VARIABLES
    ledger,    \* the request of a sequence number, or None
    executed,  \* the requests a process has executed since it started
    delivered  \* all that a replica has ever executed, oldest first

vars == <<ledger, executed, delivered>>

Init ==
    /\ ledger = [s \in Seqs |-> None]
    /\ executed = [r \in Replica |-> {}]
    /\ delivered = [r \in Replica |-> << >>]

\* A number may be skipped, but none is assigned below one in use.
Order(s, d) ==
    /\ ledger[s] = None /\ ledger'[s] = d
    /\ \A i \in Seqs : i > s => ledger[i] = None
    /\ ledger' = [ledger EXCEPT ![s] = d]

\* The ledger is read after the step: where one vote is a quorum, a request is
\* executed as it is ordered.
Execute(r, s, d) ==
    /\ d \notin executed[r]
    /\ executed' = [executed EXCEPT ![r] = @ \cup {d}]
    /\ delivered' = [delivered EXCEPT ![r] =
                        Append(@, [sequence |-> s, request |-> d])]
    /\ ledger'[s] = d

\* A process starts again with an empty memory.
Forget(r) ==
    /\ executed' = [executed EXCEPT ![r] = {}]
    /\ UNCHANGED <<ledger, delivered>>

Next ==
    \/ \E r \in Replica : Forget(r)
    \/ \E s \in Seqs, d \in Request :
          \/ \E r \in Replica : Execute(r, s, d) /\ UNCHANGED ledger
          \/ \E r \in Replica : Execute(r, s, d) /\ Order(s, d)
          \/ UNCHANGED <<executed, delivered>> /\ Order(s, d)

Spec == Init /\ [][Next]_vars

=============================================================================
