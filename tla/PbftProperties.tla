--------------------------- MODULE PbftProperties ---------------------------
(***************************************************************************)
(* What the engine of module Pbft promises.                                *)
(***************************************************************************)
EXTENDS Pbft

\* What r has broadcast so far, as a set.
Sent(r) == {outgoing[r][i] : i \in 1 .. Len(outgoing[r])}

\* What r has executed so far, as a set.
Delivered(r) == {delivered[r][i] : i \in 1 .. Len(delivered[r])}

HasSent(r, type, s, d) ==
    \E m \in Sent(r) : m.type = type /\ m.sequence = s /\ m.digest = d

-----------------------------------------------------------------------------

\* Every variable keeps the type its Rust declaration gives it.
TypeOK ==
    /\ view \in [Replica -> Views]
    /\ sequence \in [Replica -> 0 .. MaxSeq]
    /\ stable_checkpoint \in [Replica -> 0 .. MaxSeq]
    /\ log \in [Replica -> [Seqs -> Instance \cup {None}]]
    /\ executed \in [Replica -> SUBSET Request]
    /\ checkpoints \in [Replica -> [Seqs -> SUBSET Replica]]
    /\ view_changes \in [Replica -> [Views -> SUBSET Replica]]
    /\ view_changing \in [Replica -> BOOLEAN]
    /\ view_change_due \in [Replica -> BOOLEAN]
    /\ outgoing \in [Replica -> Seq(Message)]
    /\ forwarded \in [Replica -> Seq([to : Replica, request : Request])]
    /\ delivered \in [Replica -> Seq([sequence : Seqs, request : Request])]
    /\ up \in [Replica -> BOOLEAN]
    /\ peers \in [Replica -> SUBSET Replica]
    /\ received \in [Replica -> [Replica -> Nat]]
    /\ submits \in 0 .. MaxSubmits
    /\ faults \in 0 .. MaxFaults

\* An instance past Idle has a pre-prepare.
PhaseOK(inst) == inst.phase # "Idle" => inst.digest # None

PhasesOK ==
    \A r \in Replica, s \in Seqs : log[r][s] # None => PhaseOK(log[r][s])

\* try_advance_to_committed: no two replicas ever execute different requests
\* at the same sequence number, whatever was lost, restarted or voted away.
Agreement ==
    \A r, q \in Replica : \A d \in Delivered(r), e \in Delivered(q) :
        d.sequence = e.sequence => d.request = e.request

\* handle_request orders nothing outside view 0: a new primary is never told
\* of its own NewView, so only the first replica of the list ever pre-prepares.
SingleOrderer ==
    \A r \in Replica : \A m \in Sent(r) :
        m.type = "PrePrepare" => r = Primary(0) /\ m.view = 0

\* The votes counted by try_advance_to_prepared and try_advance_to_committed
\* are for the request: 2f + 1 replicas sent a Commit for every executed
\* request, and 2f + 1 sent a Prepare for every request somebody committed to.
Certificates ==
    /\ \A r \in Replica : \A d \in Delivered(r) :
          Cardinality({q \in Replica :
              HasSent(q, "Commit", d.sequence, d.request)}) >= 2 * f + 1
    /\ \A r \in Replica : \A m \in Sent(r) : m.type = "Commit" =>
          Cardinality({q \in Replica :
              HasSent(q, "Prepare", m.sequence, m.digest)}) >= 2 * f + 1

\* What the first primary has pre-prepared, and under which numbers.
Orders == {m \in Sent(Primary(0)) : m.type = "PrePrepare"}
Numbers == {m.sequence : m \in Orders}

\* DOCUMENTATION.md: "After committed-local, the request is executed in
\* sequence number order."  try_advance_to_committed executes an instance as
\* soon as it is committed and never waits for an earlier one, and a checkpoint
\* that becomes stable at a replica before it has read the pre-prepare makes
\* it skip the number, without any fault.
ExecutesInSequence ==
    \A r \in Replica : \A i \in DOMAIN delivered[r] : \A m \in Orders :
        m.sequence < delivered[r][i].sequence =>
            \E j \in 1 .. i : delivered[r][j].request = m.digest

NothingStable == \A r \in Replica : stable_checkpoint[r] = 0

\* Where nothing is lost, the documented order does hold until the first
\* checkpoint is stable somewhere: connections keep the order of the messages,
\* and votes that come before the pre-prepare are kept.
InSequenceAtFirst == NothingStable => ExecutesInSequence

\* `executed` stops a request ordered under two sequence numbers from being
\* executed twice by a process that was never restarted.
ExecutedOnce ==
    \A r \in Replica \ Restartable : \A i, j \in DOMAIN delivered[r] :
        delivered[r][i].request = delivered[r][j].request => i = j

\* handle_checkpoint makes a checkpoint stable only if 2f + 1 other replicas
\* have executed the request at its sequence number.
StableBacked ==
    \A r \in Replica : stable_checkpoint[r] > 0 =>
        Cardinality({q \in Replica \ {r} : \E d \in Delivered(q) :
            d.sequence = stable_checkpoint[r]}) >= 2 * f + 1

\* try_checkpoint is reached only by a first execution, so a request ordered
\* twice leaves a number without a checkpoint.  It is the same number for all:
\* the replicas that have committed a number agree whether to announce it, else
\* the announcements could never add up to a first stable checkpoint.
CheckpointsAgree ==
    NothingStable =>
        \A r, q \in Replica, s \in Seqs :
            (/\ log[r][s] # None /\ log[r][s].phase = "Committed"
             /\ log[q][s] # None /\ log[q][s].phase = "Committed") =>
                (CheckpointMsg(s) \in Sent(r) <=> CheckpointMsg(s) \in Sent(q))

\* The log holds instances strictly between the low and up to the high water
\* mark, so it never has more than two checkpoint intervals of them; the
\* primary, which tests the high mark alone, never orders below its own low one.
LogWindow ==
    \A r \in Replica, s \in Seqs : log[r][s] # None => InWindow(r, s)

\* A replica leaves view 0 for view v only if 2f + 1 replicas asked for v.
NewViewBacked ==
    \A r \in Replica : view[r] > 0 =>
        Cardinality({q \in Replica : ViewMsg("ViewChange", view[r]) \in Sent(q)})
            >= 2 * f + 1

\* No replica asks for a further view before somebody has sent the NewView of
\* the view below it: start_view_change proposes one view at a time and
\* view_changing is reset by a NewView alone, so that a new primary which is
\* down too is never passed over.
NoViewSkipped ==
    \A r \in Replica, v \in Views :
        (v > 1 /\ ViewMsg("ViewChange", v) \in Sent(r)) =>
            \E q \in Replica : ViewMsg("NewView", v - 1) \in Sent(q)

\* A process that was never restarted casts no two different Prepares and no two
\* different Commits under a view and sequence number, even for a primary that
\* restarted and assigns the number again: handle_pre_prepare keeps what it has.
VotesOnce ==
    \A r \in Replica \ Restartable :
        LET sent == outgoing[r]
        IN  \A i \in 1 .. Len(sent) : sent[i].type \in {"Prepare", "Commit"} =>
                \A j \in 1 .. i - 1 :
                    (/\ sent[j].type = sent[i].type
                     /\ sent[j].view = sent[i].view
                     /\ sent[j].sequence = sent[i].sequence) => sent[j] = sent[i]

PhaseRank(inst) ==
    CASE inst.phase = "Idle" -> 0
      [] inst.phase = "PrePrepared" -> 1
      [] inst.phase = "Prepared" -> 2
      [] inst.phase = "Committed" -> 3

\* Until it is garbage collected, an instance of a running process keeps the
\* pre-prepare and every vote it has, and its phase never goes back.
InstancesAdvance ==
    [][\A r \in Replica, s \in Seqs :
          (up[r] /\ log[r][s] # None /\ log'[r][s] # None) =>
              /\ PhaseRank(log[r][s]) <= PhaseRank(log'[r][s])
              /\ log[r][s].digest \in {None, log'[r][s].digest}
              /\ \A q \in Replica :
                    /\ log[r][s].prepares[q] \in {None, log'[r][s].prepares[q]}
                    /\ log[r][s].commits[q] \in {None, log'[r][s].commits[q]}
      ]_vars

-----------------------------------------------------------------------------
(* The inductive invariants behind SingleOrderer and Agreement *)

NeverOwnPeer == \A r \in Replica : r \notin peers[r]

NewViewsFromPrimary ==
    \A r \in Replica : \A m \in Sent(r) :
        m.type = "NewView" => Primary(m.new_view) = r

\* handle_new_view is only ever called with another replica's message.
NeverNewPrimary ==
    \A r \in Replica : view[r] # 0 => Primary(view[r]) # r

ViewInv ==
    NeverOwnPeer /\ NewViewsFromPrimary /\ NeverNewPrimary /\ SingleOrderer

Ordered(s, d) == HasSent(Primary(0), "PrePrepare", s, d)

OrdersBounded ==
    \A m \in Sent(Primary(0)) :
        m.type = "PrePrepare" => m.sequence <= sequence[Primary(0)]

OrdersUnique ==
    \A m, l \in Sent(Primary(0)) :
        (/\ m.type = "PrePrepare"
         /\ l.type = "PrePrepare"
         /\ m.sequence = l.sequence) => m.digest = l.digest

InstancesOrdered ==
    \A r \in Replica, s \in Seqs :
        (log[r][s] # None /\ log[r][s].digest # None) => Ordered(s, log[r][s].digest)

DeliveredOrdered ==
    \A r \in Replica : \A d \in Delivered(r) : Ordered(d.sequence, d.request)

\* As long as the first primary keeps its memory, what any replica stores or
\* executes is what that primary pre-prepared, once per sequence number.
OrderInv ==
    OrdersBounded /\ OrdersUnique /\ InstancesOrdered /\ DeliveredOrdered

-----------------------------------------------------------------------------
(* The inductive invariant behind NewViewBacked and NoViewSkipped *)

Asked(v) == {q \in Replica : ViewMsg("ViewChange", v) \in Sent(q)}

\* handle_view_change records the sender of a message it has read.
RecordedHaveAsked ==
    \A r \in Replica, v \in Views : view_changes[r][v] \subseteq Asked(v)

NewViewsBacked ==
    \A q \in Replica, v \in Views :
        ViewMsg("NewView", v) \in Sent(q) => Cardinality(Asked(v)) >= Quorum

ViewsAnnounced ==
    \A r \in Replica : view[r] > 0 =>
        \E q \in Replica : ViewMsg("NewView", view[r]) \in Sent(q)

ViewChangeInv ==
    RecordedHaveAsked /\ NewViewsBacked /\ ViewsAnnounced /\ NoViewSkipped

-----------------------------------------------------------------------------
(* The inductive invariants behind InstancesAdvance, VotesOnce and           *)
(* Certificates                                                              *)

\* A replica's own vote is in its instance only from the moment it is cast.
OwnVotes ==
    \A r \in Replica, s \in Seqs : log[r][s] # None =>
        /\ log[r][s].prepares[r] # None => log[r][s].digest # None
        /\ log[r][s].commits[r] # None =>
              log[r][s].phase \in {"Prepared", "Committed"}

\* The number the first primary assigns next is free in its log.
PrimaryLogBounded ==
    \A s \in Seqs :
        (log[Primary(0)][s] # None /\ log[Primary(0)][s].digest # None) =>
            s <= sequence[Primary(0)]

InstanceInv == OwnVotes /\ PrimaryLogBounded

\* A vote is followed by an instance in that phase until a stable checkpoint
\* covers it.
VotesKept ==
    \A r \in Replica \ Restartable : \A m \in Sent(r) :
        (m.type \in {"Prepare", "Commit"} /\ m.sequence > stable_checkpoint[r]) =>
            LET inst == log[r][m.sequence]
            IN  /\ inst # None
                /\ inst.digest # None
                /\ m.type = "Commit" => inst.phase \in {"Prepared", "Committed"}

VotesOncePerNumber ==
    \A r \in Replica \ Restartable : \A m, l \in Sent(r) :
        (/\ m.type \in {"Prepare", "Commit"}
         /\ l.type = m.type
         /\ l.sequence = m.sequence) => l = m

VoteInv == VotesKept /\ VotesOncePerNumber

VotesOrdered ==
    \A r \in Replica : \A m \in Sent(r) :
        m.type \in {"Prepare", "Commit"} => Ordered(m.sequence, m.digest)

\* handle_prepare and handle_commit record votes that were cast.
RecordedVotes ==
    \A r, q \in Replica, s \in Seqs : log[r][s] # None =>
        /\ log[r][s].prepares[q] # None =>
              HasSent(q, "Prepare", s, log[r][s].prepares[q])
        /\ log[r][s].commits[q] # None =>
              HasSent(q, "Commit", s, log[r][s].commits[q])

CertificateInv == VotesOrdered /\ RecordedVotes /\ Certificates

\* `executed` is the set of what a process that was never restarted delivered.
ExecutedIsDelivered ==
    \A r \in Replica \ Restartable :
        executed[r] = {d.request : d \in Delivered(r)}

ExecutionInv == ExecutedIsDelivered /\ ExecutedOnce

-----------------------------------------------------------------------------
(* The inductive invariant behind StableBacked, LogWindow and                *)
(* ExhaustedForGood                                                          *)

\* handle_checkpoint records the sender of a message it has read, which is
\* never the replica itself.
RecordedHaveAnnounced ==
    \A r \in Replica, s \in Seqs : \A q \in checkpoints[r][s] :
        q # r /\ CheckpointMsg(s) \in Sent(q)

\* try_checkpoint is called for what has just been executed.
AnnouncedAreExecuted ==
    \A r \in Replica, s \in Seqs : CheckpointMsg(s) \in Sent(r) =>
        /\ s % CheckpointInterval = 0
        /\ \E d \in Delivered(r) : d.sequence = s

StableAtInterval ==
    \A r \in Replica : stable_checkpoint[r] % CheckpointInterval = 0

CheckpointInv ==
    /\ RecordedHaveAnnounced
    /\ AnnouncedAreExecuted
    /\ StableAtInterval
    /\ StableBacked

-----------------------------------------------------------------------------
(* The inductive invariant behind InSequenceAtFirst and CheckpointsAgree     *)

VoteType == {"PrePrepare", "Prepare", "Commit"}

\* What r has read of q's broadcasts.
Read(r, q) == {outgoing[q][i] : i \in 1 .. received[r][q]}

Cast(r, type, s) == \E m \in Sent(r) : m.type = type /\ m.sequence = s
Heard(r, q, type, s) ==
    \E m \in Read(r, q) : m.type = type /\ m.sequence = s

\* Is the vote in r's log?
Has(r, q, type, s) ==
    /\ log[r][s] # None
    /\ type = "PrePrepare" => log[r][s].digest # None
    /\ type = "Prepare" => log[r][s].prepares[q] # None
    /\ type = "Commit" => log[r][s].commits[q] # None

Done(r, s) == log[r][s] # None /\ log[r][s].phase = "Committed"

\* Before a replica votes on a number it has voted on all ordered below it.
VotesAscend ==
    \A q \in Replica : \A i \in DOMAIN outgoing[q] : \A s \in Numbers :
        (/\ outgoing[q][i].type \in VoteType
         /\ s < outgoing[q][i].sequence) =>
            \E j \in 1 .. i - 1 : /\ outgoing[q][j].type = outgoing[q][i].type
                                  /\ outgoing[q][j].sequence = s

\* In view 0 no vote is refused, and all votes are of view 0.
ReadIsHeld ==
    \A r, q \in Replica, s \in Seqs, type \in VoteType :
        (view[r] = 0 /\ Heard(r, q, type, s)) => Has(r, q, type, s)

HeldIsRead ==
    \A r, q \in Replica, s \in Seqs, type \in VoteType :
        (/\ q # r
         /\ type = "PrePrepare" => q = Primary(0)
         /\ Has(r, q, type, s)) => Heard(r, q, type, s)

OwnHeld ==
    \A r \in Replica, s \in Seqs :
        /\ Cast(r, "PrePrepare", s) => Has(r, r, "PrePrepare", s)
        /\ Cast(r, "Prepare", s) <=> Has(r, r, "PrePrepare", s)
        /\ Has(r, r, "Prepare", s) <=> Has(r, r, "PrePrepare", s)
        /\ Cast(r, "Commit", s) <=> Has(r, r, "Commit", s)
        /\ Has(r, r, "Commit", s) <=>
              log[r][s] # None /\ log[r][s].phase \in {"Prepared", "Committed"}

\* An instance is in the last phase its votes allow.
Prompt(inst) ==
    /\ inst.phase = "Idle" <=> inst.digest = None
    /\ inst.phase \in {"Prepared", "Committed"} <=>
          inst.digest # None /\ Votes(inst.prepares) >= Quorum
    /\ inst.phase = "Prepared" => Votes(inst.commits) < Quorum
    /\ inst.phase = "Committed" => Votes(inst.commits) >= Quorum

InstancesPrompt ==
    \A r \in Replica, s \in Seqs : log[r][s] # None => Prompt(log[r][s])

\* Whoever has a vote on a number has that replica's vote on those below it.
LogAscends ==
    \A r, q \in Replica, s, i \in Seqs, type \in VoteType :
        (i \in Numbers /\ i < s /\ Has(r, q, type, s)) => Has(r, q, type, i)

DoneIsExecuted ==
    \A r \in Replica :
        /\ \A s \in Seqs : Done(r, s) => log[r][s].digest \in executed[r]
        /\ \A e \in Delivered(r) : Done(r, e.sequence)

\* The request is not ordered under a smaller number too.
FirstNumber(s) ==
    \A m, l \in Orders : (m.sequence = s /\ l.sequence < s) => l.digest # m.digest

AnnouncedAreFirst ==
    \A r \in Replica, s \in Seqs :
        CheckpointMsg(s) \in Sent(r) <=>
            s % CheckpointInterval = 0 /\ Done(r, s) /\ FirstNumber(s)

OnlyViewZero ==
    /\ \A r \in Replica : \A m \in Sent(r) : m.type \in VoteType => m.view = 0
    /\ \A r \in Replica, s \in Seqs : log[r][s] # None => log[r][s].view = 0

InFirstWindow == \A s \in Numbers : s <= 2 * CheckpointInterval

\* Everybody does the same in the same order.
InOrder ==
    /\ VotesAscend /\ ReadIsHeld /\ HeldIsRead /\ OwnHeld
    /\ InstancesPrompt /\ LogAscends /\ DoneIsExecuted
    /\ AnnouncedAreFirst /\ OnlyViewZero /\ InFirstWindow
    /\ ExecutesInSequence

\* Where nothing is lost, that is so until a checkpoint is stable.
SequenceInv == NothingStable => InOrder

-----------------------------------------------------------------------------
(* Liveness *)

Taken(d) ==
    \E r \in Replica : \E i \in DOMAIN forwarded[r] : forwarded[r][i].request = d

IsOrdered(d) == \E m \in Orders : m.digest = d

\* handle_request has refused a number.
WindowPassed == sequence[Primary(0)] > HighWatermark(Primary(0))

ViewZeroLeft == \E r \in Replica : view[r] > 0

\* With f replicas missing and no other fault, a request that somebody has
\* forwarded is ordered unless the counter passes the high water mark first, and
\* a request that is ordered is executed by every running replica, both as long
\* as nobody leaves view 0.  With f replicas missing nothing becomes stable, so
\* this ends with the first window: past it handle_request refuses requests that
\* were taken and forwarded.
RequestsExecute ==
    \A d \in Request :
        /\ Taken(d) ~> (IsOrdered(d) \/ WindowPassed \/ ViewZeroLeft)
        /\ IsOrdered(d) ~> (ViewZeroLeft \/ \A r \in Started : d \in executed[r])

\* A NewView, once sent, moves every other running replica to its view or on.
NewViewSpreads ==
    \A v \in Views, q \in Replica :
        (ViewMsg("NewView", v) \in Sent(q)) ~>
            (\A r \in Started \ {q} : view[r] >= v)

-----------------------------------------------------------------------------
(* When nothing is ordered any more *)

\* Once the first primary has followed a NewView nobody orders again: the new
\* primary does not know that it is one and forwards requests to the old one,
\* which forwards them to the new one, without end.
NoOrderAfterViewChange ==
    [][view[Primary(0)] > 0 =>
          \A r \in Replica : \A m \in Sent(r)' :
              m.type = "PrePrepare" => m \in Sent(r)]_vars

\* The counter is two intervals past the last number that can be checkpointed,
\* which is 0 as long as none has been ordered.
Exhausted ==
    \A s \in {0} \cup {m.sequence : m \in Orders} :
        s % CheckpointInterval = 0 =>
            sequence[Primary(0)] >= s + 2 * CheckpointInterval

\* handle_request consumes a number before it tests the high water mark.  Once
\* the numbers of refused requests have taken the counter two intervals past
\* the last checkpoint that can become stable, no request is ordered again
\* until the process is restarted, whatever becomes stable in the meantime.
ExhaustedForGood ==
    [][(up[Primary(0)] /\ Exhausted) => Exhausted' /\ Orders' = Orders]_vars

-----------------------------------------------------------------------------
(* Refinement *)

\* The request the first primary has assigned to a number.
Assigned(s) ==
    LET sent == outgoing[Primary(0)]
        Assigns(i) == sent[i].type = "PrePrepare" /\ sent[i].sequence = s
    IN  IF \E i \in DOMAIN sent : Assigns(i)
        THEN sent[CHOOSE i \in DOMAIN sent : Assigns(i)].digest
        ELSE None

Replicated == INSTANCE Ledger WITH ledger <- [s \in Seqs |-> Assigned(s)]

\* Whatever is lost, restarted or voted away, the replicas implement one ledger
\* as long as the first primary keeps its memory.
ImplementsLedger == Replicated!Spec

=============================================================================
