----------------------------- MODULE MCPipeline -----------------------------
(***************************************************************************)
(* Instances of module Pipeline for TLC.                                   *)
(***************************************************************************)
EXTENDS Pipeline

CONSTANTS p, r, t

PairTable == [n \in {p, r} |-> IF n = p THEN <<r>> ELSE <<p>>]

\* t comes first in the table of p.
TripleTable ==
    [n \in {p, r, t} |->
        CASE n = p -> <<t, r>> [] n = r -> <<p, t>> [] n = t -> <<p, r>>]

\* p has ordered number 1, and its Checkpoint waits in the inboxes of the others.
Ordered ==
    \A n \in {r, t} :
        inbox[n] = << [from |-> p, message |-> Msg("Checkpoint", 1)] >>

\* Both backups have answered number 1.  p has read the answers, but what they
\* sent to each other fills the socket, the queue and the hands of the outgoing
\* task, because the inboxes are full.
Jammed ==
    /\ Ordered
    /\ \A n \in {r, t} : carried[n] # None /\ got[<<n, p>>] # << >>
    /\ queue[r][t] # << >> /\ queue[t][r] # << >>
    /\ socket[r][t] # << >> /\ socket[t][r] # << >>

\* The part of the state space around one story: a client of the primary makes
\* a request, and when that has jammed the backups, their own clients make
\* theirs, first at r and then at t; the main loops take these before what is
\* in their inboxes.
ClientsWhileJammed ==
    /\ submits > 0 => sequence = 1
    /\ \A n \in {r, t} :
          /\ got[<<p, n>>] # sent[<<p, n>>] \/ sent[<<p, n>>] = << >>
          /\ carried[n] # None => Ordered
    /\ submits > 1 => Jammed
    /\ outgoing[t] # << >> /\ submits > 1 => Len(outgoing[r]) = OutCap /\ todo[r] # << >>

=============================================================================
