------------------------------ MODULE Channel -------------------------------
(***************************************************************************)
(* What the parts above the connections rely on: on every link messages    *)
(* reach the other end in the order they were sent, each once and none     *)
(* made up, and the rest is still to come.  Module Pbft reads its          *)
(* `outgoing` logs this way.                                               *)
(***************************************************************************)
EXTENDS Naturals, Sequences

CONSTANTS Link, Message

VARIABLES
    sent,  \* everything sent on a link so far, oldest first
    got    \* everything delivered so far

Init ==
    /\ sent = [l \in Link |-> << >>]
    /\ got = [l \in Link |-> << >>]

\* A message goes out on one link or on several at once.
Send(m, links) ==
    /\ sent' = [l \in Link |-> IF l \in links THEN Append(sent[l], m) ELSE sent[l]]
    /\ UNCHANGED got

Deliver(l) ==
    /\ Len(got[l]) < Len(sent[l])
    /\ got' = [got EXCEPT ![l] = Append(@, sent[l][Len(@) + 1])]
    /\ UNCHANGED sent

Next ==
    \/ \E m \in Message, links \in SUBSET Link : Send(m, links)
    \/ \E l \in Link : Deliver(l)

Spec == Init /\ [][Next]_<<sent, got>>

=============================================================================
