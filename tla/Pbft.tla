-------------------------------- MODULE Pbft --------------------------------
(***************************************************************************)
(* The PBFT engine of src/src/pbft.rs, one copy per replica, composed with *)
(* what the engine sees of its surroundings: the client requests and the   *)
(* message loop of src/src/main.rs, and the peer table and ordered         *)
(* connections of src/src/network.rs.                                      *)
(*                                                                         *)
(* The main loop runs one handler to its end before it takes the next      *)
(* message, so a handler is one step.  check_timeout is the exception: it  *)
(* releases the lock between the test and start_view_change, so these are  *)
(* two steps.  A digest is represented by its request (the hash does not   *)
(* collide), and a signature is left out: replicas only send messages they *)
(* signed themselves, and each is read from the log of its sender.         *)
(***************************************************************************)
EXTENDS PbftConfig, Sequences

CONSTANTS
    Request,      \* client requests
    None,         \* Rust's Option::None
    Started,      \* the replicas running and fully meshed at the start
    Restartable,  \* the replicas that may be (re)started
    Unstable,     \* the replicas that may crash, or whose connections may break
    MaxSeq,       \* bound on the sequence numbers the primary assigns
    MaxView,      \* bound on the view a replica may propose
    MaxSubmits,   \* bound on the client submissions
    MaxFaults     \* bound on crashes and broken connections

ASSUME BoundsAssumption ==
    /\ Started \subseteq Replica
    /\ Restartable \subseteq Replica
    /\ Unstable \subseteq Replica
    /\ {MaxSeq, MaxView, MaxSubmits, MaxFaults} \subseteq Nat
    /\ None \notin Request

VARIABLES
    view, sequence, stable_checkpoint, log, executed, checkpoints,
    view_changes, view_changing,
    view_change_due,  \* check_timeout has decided, start_view_change is next
    outgoing,         \* every message a replica has broadcast, oldest first
    forwarded,        \* a replica's queue of OutgoingMessage::SendTo
    delivered,        \* what a replica has sent on committed_tx, ever
    up,               \* is the process running?
    peers,            \* the peer table: whom a broadcast reaches
    received,         \* received[r][q]: how much of outgoing[q] r has read
    submits, faults   \* submissions and faults so far

engineVars  == <<view, sequence, stable_checkpoint, log, executed, checkpoints,
                 view_changes, view_changing, view_change_due>>
channelVars == <<outgoing, forwarded, delivered>>
nodeVars    == <<up, peers>>
vars == <<engineVars, channelVars, nodeVars, received, submits, faults>>

Seqs  == 1 .. MaxSeq
Views == 0 .. MaxView

-----------------------------------------------------------------------------
(* Messages (src/src/message.rs) and consensus instances *)

Ballot(type, v, s, d) ==
    [type |-> type, view |-> v, sequence |-> s, digest |-> d]
CheckpointMsg(s) == [type |-> "Checkpoint", sequence |-> s]
ViewMsg(type, v) == [type |-> type, new_view |-> v]

Message ==
    [type : {"PrePrepare", "Prepare", "Commit"},
     view : Views, sequence : Seqs, digest : Request]
    \cup [type : {"Checkpoint"}, sequence : Seqs]
    \cup [type : {"ViewChange", "NewView"}, new_view : Views]

Phase == {"Idle", "PrePrepared", "Prepared", "Committed"}

\* `request`, `digest` and `pre_prepare` are always set together: one field.
Instance ==
    [view : Views, digest : Request \cup {None}, phase : Phase,
     prepares : [Replica -> Request \cup {None}],
     commits  : [Replica -> Request \cup {None}]]

ASSUME NoneAssumption == None \notin Instance

NewInstance(v) ==
    [view |-> v, digest |-> None, phase |-> "Idle",
     prepares |-> [q \in Replica |-> None],
     commits  |-> [q \in Replica |-> None]]

GetOrCreateInstance(r, s) ==
    IF log[r][s] = None THEN NewInstance(view[r]) ELSE log[r][s]

\* The length of a `prepares` or `commits` map.
Votes(ballots) == Cardinality({q \in Replica : ballots[q] # None})

IsPrimaryOffByOne(r) == Primary(view[r] + 1) = r
IsPrimaryAtStart(r) == Primary(0) = r
IsPrimary(r) == Primary(view[r]) = r

AlreadyExecutedNever(r, d) == FALSE
AlreadyExecutedAtPrimary(r, d) == IsPrimary(r) /\ d \in executed[r]
AlreadyExecuted(r, d) == d \in executed[r]

LowWatermark(r)  == stable_checkpoint[r]
HighWatermarkThreeAhead(r) ==
    stable_checkpoint[r] +
        (IF stable_checkpoint[r] = 0 THEN 2 ELSE 3) * CheckpointInterval
HighWatermark(r) == stable_checkpoint[r] + 2 * CheckpointInterval
InWindow(r, s)   == LowWatermark(r) < s /\ s <= HighWatermark(r)

-----------------------------------------------------------------------------
(* The chain every vote goes through.  Each operator is handed the updated *)
(* instance and the messages already broadcast by the handler.             *)

Store(r, s, inst, sent) ==
    /\ log' = [log EXCEPT ![r][s] = inst]
    /\ outgoing' = [outgoing EXCEPT ![r] = @ \o sent]

TryCheckpoint(s) ==
    IF s % CheckpointInterval = 0 THEN <<CheckpointMsg(s)>> ELSE << >>

\* Commits may arrive before the pre-prepare and the prepares do.
ReadyToCommitAnyPhase(inst) == Votes(inst.commits) >= Quorum
ReadyToCommit(inst) ==
    inst.phase = "Prepared" /\ Votes(inst.commits) >= Quorum

TryAdvanceToCommitted(r, s, inst, sent) ==
    IF ReadyToCommit(inst)
    THEN LET done == [inst EXCEPT !.phase = "Committed"]
         IN  IF ~AlreadyExecuted(r, inst.digest)
             THEN /\ Store(r, s, done, sent \o TryCheckpoint(s))
                  /\ executed' = [executed EXCEPT ![r] = @ \cup {inst.digest}]
                  /\ delivered' = [delivered EXCEPT ![r] =
                         Append(@, [sequence |-> s, request |-> inst.digest])]
             ELSE /\ Store(r, s, done, sent)
                  /\ UNCHANGED <<executed, delivered>>
    ELSE /\ Store(r, s, inst, sent)
         /\ UNCHANGED <<executed, delivered>>

TryAdvanceToPrepared(r, s, inst, sent) ==
    IF /\ inst.digest # None
       /\ inst.phase = "PrePrepared"
       /\ Votes(inst.prepares) >= Quorum
    THEN TryAdvanceToCommitted(r, s,
             [inst EXCEPT !.phase = "Prepared", !.commits[r] = inst.digest],
             Append(sent, Ballot("Commit", inst.view, s, inst.digest)))
    ELSE /\ Store(r, s, inst, sent)
         /\ UNCHANGED <<executed, delivered>>

\* Storing a pre-prepare: the instance also records the replica's own prepare.
PrePrepared(r, inst, d) ==
    [inst EXCEPT !.digest = d, !.phase = "PrePrepared", !.prepares[r] = d]

-----------------------------------------------------------------------------
(* Handlers.  `queue` is `forwarded` without the request being handled.    *)

Forward(r, q, queue) ==
    /\ forwarded' = [queue EXCEPT ![r] =
                        Append(@, [to |-> Primary(view[r]), request |-> q])]
    /\ UNCHANGED <<engineVars, outgoing, delivered>>

NextSequenceStuck(r) == IF sequence[r] = 0 THEN 1 ELSE sequence[r]
NextSequence(r) == sequence[r] + 1

\* The sequence number is consumed before the watermark is tested.
OrderRequest(r, q) ==
    LET s == NextSequence(r)
        v == view[r]
    IN  /\ sequence' = [sequence EXCEPT ![r] = s]
        /\ IF s > HighWatermark(r)
           THEN UNCHANGED <<log, executed, outgoing, delivered>>
           ELSE TryAdvanceToPrepared(r, s,
                    PrePrepared(r, GetOrCreateInstance(r, s), q),
                    <<Ballot("PrePrepare", v, s, q), Ballot("Prepare", v, s, q)>>)
        /\ UNCHANGED <<view, stable_checkpoint, checkpoints, view_changes,
                       view_changing, view_change_due>>

HandleRequest(r, q, queue) ==
    \/ /\ ~IsPrimary(r)
       /\ Forward(r, q, queue)
    \/ /\ IsPrimary(r)
       /\ AlreadyExecuted(r, q)
       /\ forwarded' = queue
       /\ UNCHANGED <<engineVars, outgoing, delivered>>
    \/ /\ IsPrimary(r)
       /\ ~AlreadyExecuted(r, q)
       /\ sequence[r] < MaxSeq
       /\ OrderRequest(r, q)
       /\ forwarded' = queue

\* Everything an engine handler other than the request's leaves alone.
Frame == UNCHANGED <<sequence, view_change_due, forwarded>>

Ignore ==
    UNCHANGED <<view, stable_checkpoint, log, executed, checkpoints,
                view_changes, view_changing, outgoing, delivered>>

AcceptsPrePrepareAgain(r, q, m) ==
    /\ m.view = view[r]
    /\ q = Primary(view[r])
    /\ InWindow(r, m.sequence)
AcceptsPrePrepare(r, q, m) ==
    /\ m.view = view[r]
    /\ q = Primary(view[r])
    /\ InWindow(r, m.sequence)
    /\ GetOrCreateInstance(r, m.sequence).digest = None

HandlePrePrepare(r, q, m) ==
    IF AcceptsPrePrepare(r, q, m)
    THEN /\ TryAdvanceToPrepared(r, m.sequence,
                PrePrepared(r, GetOrCreateInstance(r, m.sequence), m.digest),
                <<Ballot("Prepare", m.view, m.sequence, m.digest)>>)
         /\ UNCHANGED <<view, stable_checkpoint, checkpoints, view_changes,
                        view_changing>>
    ELSE Ignore

\* A vote is compared with the pre-prepare only if that has arrived already.
AcceptsNoEarlyVote(r, m, inst, ballots, q) ==
    /\ m.view = view[r]
    /\ InWindow(r, m.sequence)
    /\ inst.digest = m.digest
    /\ ballots[q] = None
AcceptsVote(r, m, inst, ballots, q) ==
    /\ m.view = view[r]
    /\ InWindow(r, m.sequence)
    /\ inst.digest \in {None, m.digest}
    /\ ballots[q] = None

HandlePrepare(r, q, m) ==
    LET inst == GetOrCreateInstance(r, m.sequence)
    IN  IF AcceptsVote(r, m, inst, inst.prepares, q)
        THEN /\ TryAdvanceToPrepared(r, m.sequence,
                    [inst EXCEPT !.prepares[q] = m.digest], << >>)
             /\ UNCHANGED <<view, stable_checkpoint, checkpoints, view_changes,
                            view_changing>>
        ELSE Ignore

HandleCommit(r, q, m) ==
    LET inst == GetOrCreateInstance(r, m.sequence)
    IN  IF AcceptsVote(r, m, inst, inst.commits, q)
        THEN /\ TryAdvanceToCommitted(r, m.sequence,
                    [inst EXCEPT !.commits[q] = m.digest], << >>)
             /\ UNCHANGED <<view, stable_checkpoint, checkpoints, view_changes,
                            view_changing>>
        ELSE Ignore

BecomesStableEarly(r, s, seen) ==
    Cardinality(seen) >= f + 1 /\ s > stable_checkpoint[r]
BecomesStable(r, s, seen) ==
    Cardinality(seen) >= Quorum /\ s > stable_checkpoint[r]

RetainOffByOne(r, s) == [i \in Seqs |-> IF i >= s THEN log[r][i] ELSE None]
Retain(r, s) == [i \in Seqs |-> IF i > s THEN log[r][i] ELSE None]

HandleCheckpoint(r, q, m) ==
    LET s    == m.sequence
        seen == checkpoints[r][s] \cup {q}
    IN  /\ IF BecomesStable(r, s, seen)
           THEN /\ stable_checkpoint' = [stable_checkpoint EXCEPT ![r] = s]
                /\ log' = [log EXCEPT ![r] = Retain(r, s)]
                /\ checkpoints' = [checkpoints EXCEPT ![r] = [i \in Seqs |->
                              IF i = s THEN seen
                              ELSE IF i > s THEN checkpoints[r][i] ELSE {}]]
           ELSE /\ checkpoints' = [checkpoints EXCEPT ![r][s] = seen]
                /\ UNCHANGED <<stable_checkpoint, log>>
        /\ UNCHANGED <<view, executed, view_changes, view_changing, outgoing,
                       delivered>>

IsOldView(r, v) == v <= view[r]

HandleViewChange(r, q, m) ==
    LET v    == m.new_view
        seen == view_changes[r][v] \cup {q}
    IN  IF IsOldView(r, v) THEN Ignore
        ELSE /\ view_changes' = [view_changes EXCEPT ![r][v] = seen]
             /\ IF Cardinality(seen) >= Quorum /\ Primary(v) = r
                THEN outgoing' = [outgoing EXCEPT ![r] =
                                     Append(@, ViewMsg("NewView", v))]
                ELSE UNCHANGED outgoing
             /\ UNCHANGED <<view, stable_checkpoint, log, executed,
                            checkpoints, view_changing, delivered>>

AcceptsNextViewOnly(r, v) == v = view[r] + 1
AcceptsNewView(r, v) == ~IsOldView(r, v)

HandleNewView(r, m) ==
    LET v == m.new_view
    IN  IF AcceptsNewView(r, v)
        THEN /\ view' = [view EXCEPT ![r] = v]
             /\ view_changing' = [view_changing EXCEPT ![r] = FALSE]
             /\ view_changes' = [view_changes EXCEPT ![r] = [i \in Views |->
                                    IF i > v THEN view_changes[r][i] ELSE {}]]
             /\ UNCHANGED <<stable_checkpoint, log, executed, checkpoints,
                            outgoing, delivered>>
        ELSE Ignore

ProcessMessage(r, q, m) ==
    \/ m.type = "PrePrepare" /\ HandlePrePrepare(r, q, m)
    \/ m.type = "Prepare"    /\ HandlePrepare(r, q, m)
    \/ m.type = "Commit"     /\ HandleCommit(r, q, m)
    \/ m.type = "Checkpoint" /\ HandleCheckpoint(r, q, m)
    \/ m.type = "ViewChange" /\ HandleViewChange(r, q, m)
    \/ m.type = "NewView"    /\ HandleNewView(r, m)

-----------------------------------------------------------------------------
(* Node steps: the arms of the main loop, and the view change timer.       *)

Submit(r, q) ==
    /\ up[r]
    /\ submits < MaxSubmits
    /\ HandleRequest(r, q, forwarded)
    /\ submits' = submits + 1
    /\ UNCHANGED <<nodeVars, received, faults>>

\* The outgoing task takes a SendTo; the target's main loop handles it.
DeliverForwarded(r) ==
    /\ up[r]
    /\ forwarded[r] # << >>
    /\ LET q == Head(forwarded[r])
       IN  /\ q.to \in peers[r]
           /\ HandleRequest(q.to, q.request, [forwarded EXCEPT ![r] = Tail(@)])
    /\ UNCHANGED <<nodeVars, received, submits, faults>>

\* "Target peer not found for targeted send": the request is dropped.
DropForwarded(r) ==
    /\ up[r]
    /\ forwarded[r] # << >>
    /\ Head(forwarded[r]).to \notin peers[r]
    /\ forwarded' = [forwarded EXCEPT ![r] = Tail(@)]
    /\ UNCHANGED <<engineVars, outgoing, delivered, nodeVars, received, submits,
                   faults>>

\* The next message of q's broadcasts reaches r's main loop.
Deliver(r, q) ==
    /\ r \in peers[q]
    /\ received[r][q] < Len(outgoing[q])
    /\ ProcessMessage(r, q, outgoing[q][received[r][q] + 1])
    /\ received' = [received EXCEPT ![r][q] = @ + 1]
    /\ Frame
    /\ UNCHANGED <<nodeVars, submits, faults>>

\* The timeout may have elapsed whenever the check looks.
CheckTimeout(r) ==
    /\ up[r]
    /\ ~view_changing[r]
    /\ ~IsPrimary(r)
    /\ ~view_change_due[r]
    /\ view[r] < MaxView
    /\ view_change_due' = [view_change_due EXCEPT ![r] = TRUE]
    /\ UNCHANGED <<view, sequence, stable_checkpoint, log, executed,
                   checkpoints, view_changes, view_changing, channelVars,
                   nodeVars, received, submits, faults>>

NextViewSkipping(r) == view[r] + 2
NextView(r) == view[r] + 1

\* The replica's own ViewChange is recorded, and nothing is counted.
StartViewChange(r) ==
    /\ up[r]
    /\ view_change_due[r]
    /\ view_change_due' = [view_change_due EXCEPT ![r] = FALSE]
    /\ view[r] < MaxView
    /\ IF view_changing[r]
       THEN UNCHANGED <<view_changing, view_changes, outgoing>>
       ELSE LET v == NextView(r)
            IN  /\ view_changing' = [view_changing EXCEPT ![r] = TRUE]
                /\ view_changes' = [view_changes EXCEPT ![r][v] = @ \cup {r}]
                /\ outgoing' = [outgoing EXCEPT ![r] =
                                   Append(@, ViewMsg("ViewChange", v))]
    /\ UNCHANGED <<view, sequence, stable_checkpoint, log, executed,
                   checkpoints, forwarded, delivered, nodeVars, received,
                   submits, faults>>

-----------------------------------------------------------------------------
(* Processes and connections *)

\* The readers of a dead process's connections remove its entry everywhere, at
\* once: what a socket still holds is read before the crash or never, and not
\* after the process that follows has been heard.
Crash(r) ==
    /\ up[r]
    /\ r \in Unstable
    /\ faults < MaxFaults
    /\ faults' = faults + 1
    /\ up' = [up EXCEPT ![r] = FALSE]
    /\ peers' = [q \in Replica |-> IF q = r THEN {} ELSE peers[q] \ {r}]
    /\ UNCHANGED <<engineVars, channelVars, received, submits>>

\* PbftState::new: nothing is persisted, only the key (and so the id) is the
\* same.  What the old process had not sent is lost.
Restart(r) ==
    /\ ~up[r]
    /\ r \in Restartable
    /\ up' = [up EXCEPT ![r] = TRUE]
    /\ view' = [view EXCEPT ![r] = 0]
    /\ sequence' = [sequence EXCEPT ![r] = 0]
    /\ stable_checkpoint' = [stable_checkpoint EXCEPT ![r] = 0]
    /\ log' = [log EXCEPT ![r] = [s \in Seqs |-> None]]
    /\ executed' = [executed EXCEPT ![r] = {}]
    /\ checkpoints' = [checkpoints EXCEPT ![r] = [s \in Seqs |-> {}]]
    /\ view_changes' = [view_changes EXCEPT ![r] = [v \in Views |-> {}]]
    /\ view_changing' = [view_changing EXCEPT ![r] = FALSE]
    /\ view_change_due' = [view_change_due EXCEPT ![r] = FALSE]
    /\ forwarded' = [forwarded EXCEPT ![r] = << >>]
    /\ received' = [p \in Replica |-> [q \in Replica |->
                       IF p = r THEN 0
                       ELSE IF q = r THEN Len(outgoing[r]) ELSE received[p][q]]]
    /\ UNCHANGED <<outgoing, delivered, peers, submits, faults>>

\* q inserts r in its peer table: r is sent what is still in q's queue.  What
\* somebody has read of q's broadcasts has certainly left that queue.
Connect(q, r) ==
    /\ q # r
    /\ up[q] /\ up[r]
    /\ r \notin peers[q]
    /\ peers' = [peers EXCEPT ![q] = @ \cup {r}]
    /\ \E k \in 0 .. Len(outgoing[q]) :
           /\ \A p \in Replica : received[p][q] <= k
           /\ received' = [received EXCEPT ![r][q] = k]
    /\ UNCHANGED <<engineVars, channelVars, up, submits, faults>>

\* q's reader of the connection to r ends and removes the entry.
Disconnect(q, r) ==
    /\ q \in Unstable
    /\ faults < MaxFaults
    /\ r \in peers[q]
    /\ faults' = faults + 1
    /\ peers' = [peers EXCEPT ![q] = @ \ {r}]
    /\ UNCHANGED <<engineVars, channelVars, up, received, submits>>

-----------------------------------------------------------------------------
Init ==
    /\ view = [r \in Replica |-> 0]
    /\ sequence = [r \in Replica |-> 0]
    /\ stable_checkpoint = [r \in Replica |-> 0]
    /\ log = [r \in Replica |-> [s \in Seqs |-> None]]
    /\ executed = [r \in Replica |-> {}]
    /\ checkpoints = [r \in Replica |-> [s \in Seqs |-> {}]]
    /\ view_changes = [r \in Replica |-> [v \in Views |-> {}]]
    /\ view_changing = [r \in Replica |-> FALSE]
    /\ view_change_due = [r \in Replica |-> FALSE]
    /\ outgoing = [r \in Replica |-> << >>]
    /\ forwarded = [r \in Replica |-> << >>]
    /\ delivered = [r \in Replica |-> << >>]
    /\ up = [r \in Replica |-> r \in Started]
    /\ peers = [r \in Replica |-> IF r \in Started THEN Started \ {r} ELSE {}]
    /\ received = [r \in Replica |-> [q \in Replica |-> 0]]
    /\ submits = 0
    /\ faults = 0

Next ==
    \/ \E r \in Replica, q \in Request : Submit(r, q)
    \/ \E r \in Replica : DeliverForwarded(r)
    \/ \E r \in Replica : DropForwarded(r)
    \/ \E r, q \in Replica : Deliver(r, q)
    \/ \E r \in Replica : CheckTimeout(r)
    \/ \E r \in Replica : StartViewChange(r)
    \/ \E r \in Replica : Crash(r)
    \/ \E r \in Replica : Restart(r)
    \/ \E q, r \in Replica : Connect(q, r)
    \/ \E q, r \in Replica : Disconnect(q, r)

Spec == Init /\ [][Next]_vars

\* Tokio polls every ready task: a connected peer's messages are read and a
\* queued SendTo is sent.
DeliveryFairness ==
    /\ \A r, q \in Replica : WF_vars(Deliver(r, q))
    /\ \A r \in Replica : WF_vars(DeliverForwarded(r) \/ DropForwarded(r))

FairSpec == Spec /\ DeliveryFairness

=============================================================================
