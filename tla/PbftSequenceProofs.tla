------------------------- MODULE PbftSequenceProofs -------------------------
(***************************************************************************)
(* Proofs about module Pbft where nothing is lost: until a checkpoint is   *)
(* stable the replicas execute in the order of the numbers and agree on    *)
(* what they announce.                                                     *)
(***************************************************************************)
EXTENDS PbftVoteProofs

-----------------------------------------------------------------------------
(* Without faults the connections stay what they were *)

\* No process crashes or is started late, and no connection breaks.
Undisturbed == Restartable = {} /\ MaxFaults = 0

Meshed ==
    /\ \A r \in Replica : up[r] => r \in Started
    /\ \A r \in Started : peers[r] = Started \ {r}

Reads(r, q, m) ==
    /\ q # r
    /\ received[r][q] < Len(outgoing[q])
    /\ m = outgoing[q][received[r][q] + 1]
    /\ received' = [received EXCEPT ![r][q] = @ + 1]
    /\ ProcessMessage(r, q, m)
    /\ sequence' = sequence

LEMMA UndisturbedCases ==
    ASSUME Undisturbed, TypeInv, ViewInv, Meshed, [Next]_vars
    PROVE  /\ UNCHANGED <<up, peers>>
           /\ \/ Quiet /\ received' = received
              \/ \E r \in Replica : AsksForView(r) /\ received' = received
              \/ \E r, q \in Replica, m \in Message : Reads(r, q, m)
              \/ \E r \in Replica, d \in Request :
                    OrdersNext(r, d) /\ received' = received
<1> DEFINE Same == UNCHANGED <<up, peers>>
           Still == Same /\ received' = received
<1>1. ASSUME NEW r \in Replica, NEW d \in Request, NEW queue,
             HandleRequest(r, d, queue)
      PROVE  Quiet \/ OrdersNext(r, d)
  BY <1>1 DEF HandleRequest, Forward, engineVars, Quiet, OrdersNext
<1>2. ASSUME NEW r \in Replica, NEW d \in Request, Submit(r, d)
      PROVE  Still /\ (Quiet \/ OrdersNext(r, d))
  BY <1>1, <1>2 DEF Submit, nodeVars
<1>3. ASSUME NEW r \in Replica, DeliverForwarded(r)
      PROVE  Still /\ (Quiet \/ \E p \in Replica, d \in Request : OrdersNext(p, d))
  <2>1. forwarded \in [Replica -> Seq([to : Replica, request : Request])]
    BY DEF TypeInv, TypeOK
  <2>2. Head(forwarded[r]) \in [to : Replica, request : Request]
    BY <1>3, <2>1, QueueType DEF DeliverForwarded
  <2>3. Still
    BY <1>3 DEF DeliverForwarded, nodeVars
  <2> QED
    BY <1>1, <1>3, <2>2, <2>3 DEF DeliverForwarded
<1>4. ASSUME NEW r \in Replica, NEW q \in Replica, Deliver(r, q)
      PROVE  Same /\ \E m \in Message : Reads(r, q, m)
  <2>1. outgoing[q][received[r][q] + 1] \in Message
    BY <1>4, NextMessage DEF Deliver, TypeInv
  <2>2. q # r
    BY <1>4 DEF Deliver, ViewInv, NeverOwnPeer
  <2> QED
    BY <1>4, <2>1, <2>2 DEF Deliver, Frame, nodeVars, Reads
<1>5. ASSUME NEW r \in Replica, StartViewChange(r)
      PROVE  Still /\ (Quiet \/ AsksForView(r))
  <2>1. view[r] + 1 \in Views
    BY <1>5, NextViewType
  <2> QED
    BY <1>5, <2>1 DEF StartViewChange, NextView, Quiet, AsksForView, nodeVars
<1>6. ASSUME NEW r \in Replica, DropForwarded(r) \/ CheckTimeout(r)
      PROVE  Still /\ Quiet
  BY <1>6 DEF DropForwarded, CheckTimeout, engineVars, channelVars, nodeVars, Quiet
<1>7. ~(faults < MaxFaults)
  BY DEF Undisturbed, TypeInv, TypeOK
<1>8. ASSUME NEW r \in Replica, Crash(r) \/ Restart(r) PROVE FALSE
  BY <1>7, <1>8 DEF Crash, Restart, Undisturbed
<1>9. ASSUME NEW q \in Replica, NEW r \in Replica, Connect(q, r) \/ Disconnect(q, r)
      PROVE  FALSE
  BY <1>7, <1>9 DEF Connect, Disconnect, Meshed
<1>10. ASSUME UNCHANGED vars PROVE Still /\ Quiet
  BY <1>10 DEF vars, engineVars, channelVars, nodeVars, Quiet
<1> HIDE DEF Same, Still
<1>11. Same /\ (\/ Still /\ Quiet
                \/ \E r \in Replica : AsksForView(r) /\ Still
                \/ \E r, q \in Replica, m \in Message : Reads(r, q, m)
                \/ \E r \in Replica, d \in Request : OrdersNext(r, d) /\ Still)
  <2>1. Still => Same
    BY DEF Still
  <2> QED
    BY <1>2, <1>3, <1>4, <1>5, <1>6, <1>8, <1>9, <1>10, <2>1 DEF Next
<1> QED
  BY <1>11 DEF Same, Still

LEMMA MeshedInit == Init => Meshed
  BY BoundsAssumption DEF Init, Meshed

LEMMA MeshedStep ==
    ASSUME Undisturbed
    PROVE  TypeInv /\ ViewInv /\ Meshed /\ [Next]_vars => Meshed'
<1> SUFFICES ASSUME TypeInv, ViewInv, Meshed, [Next]_vars PROVE Meshed'
  OBVIOUS
<1> QED
  BY UndisturbedCases DEF Meshed

-----------------------------------------------------------------------------
(* Histories grow at their end *)

Grows(q) ==
    /\ Len(outgoing[q]) <= Len(outgoing'[q])
    /\ \A i \in 1 .. Len(outgoing[q]) : outgoing'[q][i] = outgoing[q][i]

LEMMA ConcatGrows ==
    ASSUME TypeInv, NEW r \in Replica, NEW out \in Seq(Message),
           outgoing' = [outgoing EXCEPT ![r] = @ \o out]
    PROVE  \A q \in Replica : Grows(q)
<1>1. outgoing \in [Replica -> Seq(Message)]
  BY DEF TypeInv, TypeOK
<1>2. /\ outgoing'[r] = outgoing[r] \o out
      /\ \A q \in Replica \ {r} : outgoing'[q] = outgoing[q]
  BY <1>1
<1>3. Grows(r)
  <2>1. PICK x \in Seq(Message) : x = outgoing[r]
    BY <1>1
  <2>2. /\ Len(x) <= Len(x \o out)
        /\ \A i \in 1 .. Len(x) : (x \o out)[i] = x[i]
    OBVIOUS
  <2> QED
    BY <1>2, <2>1, <2>2 DEF Grows
<1>4. ASSUME NEW q \in Replica \ {r} PROVE Grows(q)
  <2>1. Len(outgoing[q]) \in Nat
    BY <1>1
  <2> QED
    BY <1>2, <2>1 DEF Grows
<1> QED
  BY <1>3, <1>4

LEMMA HistoryGrows ==
    ASSUME Undisturbed, TypeInv, ViewInv, Meshed, [Next]_vars
    PROVE  \A q \in Replica : Grows(q)
<1>1. outgoing \in [Replica -> Seq(Message)]
  BY DEF TypeInv, TypeOK
<1>2. ASSUME outgoing' = outgoing PROVE \A q \in Replica : Grows(q)
  <2>1. \A q \in Replica : Len(outgoing[q]) \in Nat
    BY <1>1
  <2> QED
    BY <1>2, <2>1 DEF Grows
<1>3. ASSUME NEW r \in Replica, NEW m \in Message,
             outgoing' = [outgoing EXCEPT ![r] = Append(@, m)]
      PROVE  \A q \in Replica : Grows(q)
  <2>1. <<m>> \in Seq(Message)
    OBVIOUS
  <2>2. Append(outgoing[r], m) = outgoing[r] \o <<m>>
    BY <1>1
  <2>3. outgoing' = [outgoing EXCEPT ![r] = @ \o <<m>>]
    BY <1>3, <2>2
  <2> QED
    BY <2>1, <2>3, ConcatGrows
<1>4. ASSUME NEW r \in Replica, NEW s, NEW d, NEW sent, ChainEffect(r, s, d, sent)
      PROVE  \A q \in Replica : Grows(q)
  BY <1>4, ConcatGrows DEF ChainEffect
<1>5. CASE Quiet
  BY <1>2, <1>5 DEF Quiet
<1>6. ASSUME NEW r \in Replica, AsksForView(r) PROVE \A q \in Replica : Grows(q)
  <2>1. ViewMsg("ViewChange", view[r] + 1) \in Message
    BY <1>6 DEF AsksForView, ViewMsg, Message
  <2> QED
    BY <1>3, <1>6, <2>1 DEF AsksForView
<1>7. ASSUME NEW r \in Replica, NEW q \in Replica, NEW m \in Message, Reads(r, q, m)
      PROVE  \A p \in Replica : Grows(p)
  <2>1. ProcessMessage(r, q, m)
    BY <1>7 DEF Reads
  <2>2. CASE m.type = "PrePrepare" \/ m.type = "Prepare" \/ m.type = "Commit"
    <3>1. \/ m.type = "PrePrepare" /\ HandlePrePrepare(r, q, m)
          \/ m.type = "Prepare" /\ HandlePrepare(r, q, m)
          \/ m.type = "Commit" /\ HandleCommit(r, q, m)
      BY <2>1, <2>2 DEF ProcessMessage
    <3>2. CASE Ignore
      BY <1>2, <3>2 DEF Ignore
    <3> QED
      BY <1>4, <3>1, <3>2, VoteEffect
  <2>3. CASE m.type = "Checkpoint" \/ m.type = "NewView"
    BY <1>2, <2>1, <2>3 DEF ProcessMessage, HandleCheckpoint, HandleNewView, Ignore
  <2>4. CASE m.type = "ViewChange"
    <3>1. m.new_view \in Views
      BY <2>4 DEF Message
    <3>2. ViewMsg("NewView", m.new_view) \in Message
      BY <3>1 DEF ViewMsg, Message
    <3>3. \/ outgoing' = outgoing
          \/ outgoing' = [outgoing EXCEPT ![r] = Append(@, ViewMsg("NewView", m.new_view))]
      BY <2>1, <2>4 DEF ProcessMessage, HandleViewChange, Ignore
    <3> QED
      BY <1>2, <1>3, <3>2, <3>3
  <2> QED
    BY <2>1, <2>2, <2>3, <2>4 DEF ProcessMessage
<1>8. ASSUME NEW r \in Replica, NEW d \in Request, OrdersNext(r, d)
      PROVE  \A q \in Replica : Grows(q)
  BY <1>2, <1>4, <1>8, OrderEffect DEF OrdersNext
<1> QED
  BY <1>5, <1>6, <1>7, <1>8, UndisturbedCases

\* What has been read, before and after a step.
ReadTyped == \A r, q \in Replica : received[r][q] <= Len(outgoing[q])

LEMMA ReadKept ==
    ASSUME TypeInv, ReadTyped, \A q \in Replica : Grows(q)
    PROVE  \A r, q \in Replica : \A i \in 1 .. received[r][q] :
              outgoing'[q][i] = outgoing[q][i]
<1> SUFFICES ASSUME NEW r \in Replica, NEW q \in Replica,
                    NEW i \in 1 .. received[r][q]
             PROVE  outgoing'[q][i] = outgoing[q][i]
  OBVIOUS
<1>1. received[r][q] \in Nat /\ Len(outgoing[q]) \in Nat
  BY DEF TypeInv, TypeOK
<1>2. received[r][q] <= Len(outgoing[q])
  BY DEF ReadTyped
<1>3. i \in 1 .. Len(outgoing[q])
  BY <1>1, <1>2
<1> QED
  BY <1>3 DEF Grows

LEMMA ReadSame ==
    ASSUME TypeInv, ReadTyped, \A q \in Replica : Grows(q), received' = received
    PROVE  \A r, q \in Replica : Read(r, q)' = Read(r, q)
  BY ReadKept DEF Read

LEMMA ReadMore ==
    ASSUME TypeInv, ReadTyped, \A p \in Replica : Grows(p),
           NEW r \in Replica, NEW q \in Replica, NEW m \in Message, Reads(r, q, m)
    PROVE  /\ \A p, l \in Replica : (p # r \/ l # q) => Read(p, l)' = Read(p, l)
           /\ Read(r, q)' = Read(r, q) \cup {m}
<1>1. /\ outgoing \in [Replica -> Seq(Message)]
      /\ received \in [Replica -> [Replica -> Nat]]
  BY DEF TypeInv, TypeOK
<1>2. \A p, l \in Replica : \A i \in 1 .. received[p][l] :
          outgoing'[l][i] = outgoing[l][i]
  BY ReadKept
<1>3. /\ \A p, l \in Replica : (p # r \/ l # q) => received'[p][l] = received[p][l]
      /\ received'[r][q] = received[r][q] + 1
      /\ m = outgoing[q][received[r][q] + 1]
      /\ received[r][q] + 1 \in 1 .. Len(outgoing[q])
  <2>1. /\ received[r][q] < Len(outgoing[q])
        /\ m = outgoing[q][received[r][q] + 1]
        /\ received' = [received EXCEPT ![r][q] = @ + 1]
    BY DEF Reads
  <2>2. received[r][q] \in Nat /\ Len(outgoing[q]) \in Nat
    BY <1>1
  <2>3. received[r][q] + 1 \in 1 .. Len(outgoing[q])
    BY <2>1, <2>2
  <2>4. received'[r][q] = received[r][q] + 1
    BY <1>1, <2>1
  <2>5. \A p, l \in Replica : (p # r \/ l # q) => received'[p][l] = received[p][l]
    BY <1>1, <2>1
  <2> QED
    BY <2>1, <2>3, <2>4, <2>5
<1>4. outgoing'[q][received[r][q] + 1] = m
  BY <1>3 DEF Grows
<1>5. ASSUME NEW p \in Replica, NEW l \in Replica, p # r \/ l # q
      PROVE  Read(p, l)' = Read(p, l)
  BY <1>2, <1>3, <1>5 DEF Read
<1>6. Read(r, q)' = Read(r, q) \cup {m}
  <2>1. PICK k \in Nat : k = received[r][q]
    BY <1>1
  <2>2. 1 .. (k + 1) = (1 .. k) \cup {k + 1}
    OBVIOUS
  <2>3. Read(r, q)' = {outgoing'[q][i] : i \in 1 .. (k + 1)}
    BY <1>3, <2>1 DEF Read
  <2>4. Read(r, q) = {outgoing'[q][i] : i \in 1 .. k}
    BY <1>2, <2>1 DEF Read
  <2> QED
    BY <1>4, <2>1, <2>2, <2>3, <2>4
<1> QED
  BY <1>5, <1>6

LEMMA ReadStep ==
    ASSUME Undisturbed
    PROVE  TypeInv /\ ViewInv /\ Meshed /\ ReadTyped /\ [Next]_vars => ReadTyped'
<1> SUFFICES ASSUME TypeInv, ViewInv, Meshed, ReadTyped, [Next]_vars
             PROVE  ReadTyped'
  OBVIOUS
<1>1. /\ outgoing \in [Replica -> Seq(Message)]
      /\ outgoing' \in [Replica -> Seq(Message)]
      /\ received \in [Replica -> [Replica -> Nat]]
  BY TypeStep DEF TypeInv, TypeOK
<1>2. \A q \in Replica : /\ Len(outgoing[q]) \in Nat /\ Len(outgoing'[q]) \in Nat
                         /\ Len(outgoing[q]) <= Len(outgoing'[q])
  BY <1>1, HistoryGrows DEF Grows
<1>3. CASE received' = received
  BY <1>1, <1>2, <1>3 DEF ReadTyped
<1>4. ASSUME NEW r \in Replica, NEW q \in Replica, NEW m \in Message, Reads(r, q, m)
      PROVE  ReadTyped'
  <2>1. /\ received[r][q] < Len(outgoing[q])
        /\ received' = [received EXCEPT ![r][q] = @ + 1]
    BY <1>4 DEF Reads
  <2>2. received'[r][q] = received[r][q] + 1
    BY <1>1, <2>1
  <2>3. \A p, l \in Replica : (p # r \/ l # q) => received'[p][l] = received[p][l]
    BY <1>1, <2>1
  <2>4. \A p, l \in Replica : received[p][l] \in Nat
    BY <1>1
  <2>5. received'[r][q] <= Len(outgoing'[q])
    BY <1>2, <2>1, <2>2, <2>4
  <2>6. ASSUME NEW p \in Replica, NEW l \in Replica, p # r \/ l # q
        PROVE  received'[p][l] <= Len(outgoing'[l])
    <3>1. received'[p][l] = received[p][l]
      BY <2>3, <2>6
    <3>2. received[p][l] <= Len(outgoing[l])
      BY DEF ReadTyped
    <3> QED
      BY <1>2, <2>4, <3>1, <3>2
  <2> QED
    BY <2>5, <2>6 DEF ReadTyped
<1> QED
  BY <1>3, <1>4, UndisturbedCases

LEMMA ReadInit == Init => ReadTyped
<1> SUFFICES ASSUME Init PROVE ReadTyped
  OBVIOUS
<1>1. \A r, q \in Replica : received[r][q] = 0 /\ outgoing[q] = << >>
  BY DEF Init
<1> QED
  BY <1>1 DEF ReadTyped

-----------------------------------------------------------------------------
(* How far the chain goes *)

Outcome(inst) ==
    IF ReadyToCommit(inst) THEN [inst EXCEPT !.phase = "Committed"] ELSE inst

OutcomeOfVotes(r, inst) ==
    IF CastsCommit(inst)
    THEN Outcome([inst EXCEPT !.phase = "Prepared", !.commits[r] = inst.digest])
    ELSE inst

\* What has been committed is known, or is executed now and announced.
Announces(r, s, d) ==
    \/ d \in executed[r]
    \/ /\ Executes(r, s, d)
       /\ s % CheckpointInterval = 0 => CheckpointMsg(s) \in Sent(r)'

LEMMA CommittedExact ==
    ASSUME TypeInv, NEW r \in Replica, NEW s \in Seqs,
           NEW inst \in Instance, PhaseOK(inst), NEW sent \in Seq(Message),
           TryAdvanceToCommitted(r, s, inst, sent)
    PROVE  /\ log' = [log EXCEPT ![r][s] = Outcome(inst)]
           /\ ReadyToCommit(inst) => Announces(r, s, inst.digest)
<1>1. log' = [log EXCEPT ![r][s] = Outcome(inst)]
  BY DEF TryAdvanceToCommitted, Store, Outcome
<1>2. CASE ReadyToCommit(inst) /\ ~AlreadyExecuted(r, inst.digest)
  <2> DEFINE out == sent \o TryCheckpoint(s)
  <2>1. /\ outgoing' = [outgoing EXCEPT ![r] = @ \o out]
        /\ executed' = [executed EXCEPT ![r] = @ \cup {inst.digest}]
        /\ delivered' = [delivered EXCEPT ![r] =
               Append(@, [sequence |-> s, request |-> inst.digest])]
    BY <1>2 DEF TryAdvanceToCommitted, Store
  <2>2. inst.digest \in Request
    BY <1>2 DEF ReadyToCommit, Instance, PhaseOK
  <2>3. Executes(r, s, inst.digest)
    BY <1>2, <2>1, <2>2 DEF Executes, AlreadyExecuted
  <2>4. ASSUME s % CheckpointInterval = 0
        PROVE  CheckpointMsg(s) \in Sent(r)'
    <3>1. CheckpointMsg(s) \in Message
      BY DEF CheckpointMsg, Message
    <3>2. TryCheckpoint(s) = <<CheckpointMsg(s)>>
      BY <2>4 DEF TryCheckpoint
    <3>3. /\ TryCheckpoint(s) \in Seq(Message)
          /\ Elements(TryCheckpoint(s)) = {CheckpointMsg(s)}
      BY <3>1, <3>2, ElementsOf
    <3>4. out \in Seq(Message) /\ CheckpointMsg(s) \in Elements(out)
      BY <3>3, ElementsConcat
    <3> HIDE DEF out
    <3> QED
      BY <2>1, <3>4, SentExtend
  <2> QED
    BY <1>1, <2>3, <2>4 DEF Announces
<1>3. CASE AlreadyExecuted(r, inst.digest)
  BY <1>1, <1>3 DEF AlreadyExecuted, Announces
<1> QED
  BY <1>1, <1>2, <1>3

LEMMA PreparedExact ==
    ASSUME TypeInv, NEW r \in Replica, NEW s \in Seqs,
           NEW inst \in Instance, PhaseOK(inst), NEW sent \in Seq(Message),
           TryAdvanceToPrepared(r, s, inst, sent)
    PROVE  /\ log' = [log EXCEPT ![r][s] = OutcomeOfVotes(r, inst)]
           /\ OutcomeOfVotes(r, inst).phase = "Committed" =>
                 inst.phase = "Committed" \/ Announces(r, s, inst.digest)
<1>1. CASE CastsCommit(inst)
  <2> DEFINE next == [inst EXCEPT !.phase = "Prepared", !.commits[r] = inst.digest]
             out  == Append(sent, Ballot("Commit", inst.view, s, inst.digest))
  <2>1. /\ next \in Instance /\ PhaseOK(next)
        /\ next.digest = inst.digest /\ next.phase = "Prepared"
    BY <1>1 DEF CastsCommit, Instance, Phase, PhaseOK
  <2>2. Ballot("Commit", inst.view, s, inst.digest) \in Message
    BY <1>1 DEF CastsCommit, Instance, Ballot, Message
  <2>3. out \in Seq(Message)
    BY <2>2, ElementsOf
  <2>4. TryAdvanceToCommitted(r, s, next, out)
    BY <1>1 DEF TryAdvanceToPrepared, CastsCommit
  <2>5. OutcomeOfVotes(r, inst) = Outcome(next)
    BY <1>1 DEF OutcomeOfVotes
  <2> HIDE DEF next, out
  <2>6. /\ log' = [log EXCEPT ![r][s] = Outcome(next)]
        /\ ReadyToCommit(next) => Announces(r, s, next.digest)
    BY <2>1, <2>3, <2>4, CommittedExact
  <2>7. Outcome(next).phase = "Committed" => ReadyToCommit(next)
    BY <2>1 DEF Outcome
  <2> QED
    BY <2>1, <2>5, <2>6, <2>7
<1>2. CASE ~CastsCommit(inst)
  BY <1>2 DEF TryAdvanceToPrepared, Store, CastsCommit, OutcomeOfVotes
<1> QED
  BY <1>1, <1>2

LEMMA VotesType ==
    ASSUME NEW b \in [Replica -> Request \cup {None}]
    PROVE  /\ Votes(b) \in Nat
           /\ Votes(b) >= Quorum <=> ~(Votes(b) < Quorum)
<1>1. {q \in Replica : b[q] # None} \in SUBSET Replica
  OBVIOUS
<1>2. Votes(b) \in Nat
  BY <1>1, ReplicasAssumption, FS_Subset, FS_CardinalityType DEF Votes
<1> QED
  BY <1>2, QuorumType

LEMMA VotesGrow ==
    ASSUME NEW a, NEW b, \A q \in Replica : a[q] \in {None, b[q]},
           Votes(a) >= Quorum
    PROVE  Votes(b) >= Quorum
<1> DEFINE A == {q \in Replica : a[q] # None}
           B == {q \in Replica : b[q] # None}
<1>1. A \subseteq B /\ B \in SUBSET Replica
  OBVIOUS
<1>2. Cardinality(A) >= Quorum
  BY DEF Votes
<1> HIDE DEF A, B
<1>3. Cardinality(B) >= Quorum
  BY <1>1, <1>2, QuorumGrows
<1> QED
  BY <1>3 DEF B, Votes

LEMMA PromptOutcome ==
    ASSUME NEW inst \in Instance,
           inst.phase = "Idle" <=> inst.digest = None,
           inst.phase \in {"Prepared", "Committed"} <=>
              inst.digest # None /\ Votes(inst.prepares) >= Quorum,
           inst.phase = "Committed" => Votes(inst.commits) >= Quorum
    PROVE  Prompt(Outcome(inst))
<1>1. Votes(inst.commits) >= Quorum <=> ~(Votes(inst.commits) < Quorum)
  BY VotesType DEF Instance
<1>2. CASE ReadyToCommit(inst)
  <2> DEFINE done == [inst EXCEPT !.phase = "Committed"]
  <2>1. /\ done.digest = inst.digest /\ done.prepares = inst.prepares
        /\ done.commits = inst.commits /\ done.phase = "Committed"
    BY DEF Instance
  <2>2. Outcome(inst) = done
    BY <1>2 DEF Outcome
  <2> HIDE DEF done
  <2> QED
    BY <1>2, <2>1, <2>2 DEF Prompt, ReadyToCommit
<1>3. CASE ~ReadyToCommit(inst)
  BY <1>1, <1>3 DEF Outcome, Prompt, ReadyToCommit
<1> QED
  BY <1>2, <1>3

LEMMA PromptOutcomeOfVotes ==
    ASSUME NEW r \in Replica, NEW inst \in Instance,
           inst.phase = "Idle" <=> inst.digest = None,
           inst.phase \in {"Prepared", "Committed"} =>
              inst.digest # None /\ Votes(inst.prepares) >= Quorum,
           inst.phase = "Prepared" => Votes(inst.commits) < Quorum,
           inst.phase = "Committed" => Votes(inst.commits) >= Quorum
    PROVE  Prompt(OutcomeOfVotes(r, inst))
<1>1. inst.phase \in {"Idle", "PrePrepared", "Prepared", "Committed"}
  BY DEF Instance, Phase
<1>2. CASE CastsCommit(inst)
  <2> DEFINE next == [inst EXCEPT !.phase = "Prepared", !.commits[r] = inst.digest]
  <2>1. /\ next \in Instance
        /\ next.digest = inst.digest /\ next.prepares = inst.prepares
        /\ next.phase = "Prepared"
    BY <1>2 DEF CastsCommit, Instance, Phase
  <2>2. OutcomeOfVotes(r, inst) = Outcome(next)
    BY <1>2 DEF OutcomeOfVotes
  <2> HIDE DEF next
  <2>3. Prompt(Outcome(next))
    BY <1>2, <2>1, PromptOutcome DEF CastsCommit
  <2> QED
    BY <2>2, <2>3
<1>3. CASE ~CastsCommit(inst)
  BY <1>1, <1>3 DEF OutcomeOfVotes, Prompt, CastsCommit
<1> QED
  BY <1>2, <1>3

-----------------------------------------------------------------------------
(* What becomes of a vote *)

\* Why a vote is ignored.
Refuses(r, q, m) ==
    LET old == GetOrCreateInstance(r, m.sequence)
    IN  \/ m.view # view[r]
        \/ ~InWindow(r, m.sequence)
        \/ m.type = "PrePrepare" /\ (q # Primary(view[r]) \/ old.digest # None)
        \/ m.type = "Prepare" /\ (old.digest \notin {None, m.digest} \/ old.prepares[q] # None)
        \/ m.type = "Commit" /\ (old.digest \notin {None, m.digest} \/ old.commits[q] # None)

ResultOf(r, m, inst) ==
    IF m.type = "Commit" THEN Outcome(inst) ELSE OutcomeOfVotes(r, inst)

\* A vote is stored, and the chain goes as far as it can.
Enters(r, q, m, inst, votes, fin) ==
    /\ m.sequence \in Seqs /\ m.digest \in Request /\ m.view = view[r]
    /\ UNCHANGED <<view, stable_checkpoint>>
    /\ VoteStored(r, q, m, inst, votes)
    /\ ChainResult(r, m.sequence, inst, votes, fin)
    /\ fin = ResultOf(r, m, inst)
    /\ fin.phase = "Committed" =>
          inst.phase = "Committed" \/ Announces(r, m.sequence, inst.digest)

LEMMA StoredIs ==
    ASSUME TypeInv, NEW r \in Replica, NEW s \in Seqs, NEW a, NEW b,
           log' = [log EXCEPT ![r][s] = a], log' = [log EXCEPT ![r][s] = b]
    PROVE  a = b
<1>1. log \in [Replica -> [Seqs -> Instance \cup {None}]]
  BY DEF TypeInv, TypeOK
<1>2. log'[r][s] = a
  BY <1>1
<1>3. log'[r][s] = b
  BY <1>1
<1> QED
  BY <1>2, <1>3

LEMMA EntersIs ==
    ASSUME NEW r, NEW q, NEW m, NEW inst, NEW votes, NEW fin, NEW s,
           s = m.sequence, s \in Seqs, m.digest \in Request, m.view = view[r],
           UNCHANGED <<view, stable_checkpoint>>,
           VoteStored(r, q, m, inst, votes), ChainResult(r, s, inst, votes, fin),
           fin = ResultOf(r, m, inst),
           fin.phase = "Committed" =>
              inst.phase = "Committed" \/ Announces(r, s, inst.digest)
    PROVE  Enters(r, q, m, inst, votes, fin)
  BY DEF Enters

LEMMA VoteExact ==
    ASSUME TypeInv, NEW r \in Replica, NEW q \in Replica, NEW m \in Message,
           IsVote(m), ProcessMessage(r, q, m)
    PROVE  \/ Ignore /\ Refuses(r, q, m)
           \/ \E inst \in Instance : \E votes, fin : Enters(r, q, m, inst, votes, fin)
<1> DEFINE s   == m.sequence
           old == GetOrCreateInstance(r, s)
           none == << >>
<1>1. s \in Seqs /\ m.view \in Views /\ m.digest \in Request /\ m.digest # None
  BY BoundsAssumption DEF Message, IsVote
<1>2. old \in Instance /\ PhaseOK(old)
  BY <1>1, GetOrCreateType
<1>3. none \in Seq(Message) /\ Elements(none) = {}
  BY DEF Elements
<1>4. CASE m.type = "PrePrepare" /\ HandlePrePrepare(r, q, m)
  <2> DEFINE inst == PrePrepared(r, old, m.digest)
             vote == Ballot("Prepare", m.view, s, m.digest)
             sent == <<vote>>
  <2>1. CASE AcceptsPrePrepare(r, q, m)
    <3>1. /\ TryAdvanceToPrepared(r, s, inst, sent)
          /\ UNCHANGED <<view, stable_checkpoint>>
      BY <1>4, <2>1 DEF HandlePrePrepare
    <3>2. /\ m.view = view[r] /\ q = Primary(view[r]) /\ old.digest = None
      BY <2>1 DEF AcceptsPrePrepare
    <3>3. vote \in Message
      BY <1>1 DEF Ballot, Message
    <3> HIDE DEF old
    <3>4. inst \in Instance /\ PhaseOK(inst)
      BY <1>1, <1>2 DEF PrePrepared, Instance, Phase, PhaseOK
    <3>5. sent \in Seq(Message) /\ Elements(sent) = {vote}
      BY <1>3, <3>3, ElementsOf
    <3>6. VoteStored(r, q, m, inst, {vote})
      BY <1>4, <3>2 DEF VoteStored, old
    <3> HIDE DEF inst, sent, s
    <3>7. PICK fin \in Instance : ChainResult(r, s, inst, {vote}, fin)
      BY <1>1, <3>1, <3>4, <3>5, PreparedChain
    <3>8. log' = [log EXCEPT ![r][s] = fin]
      BY <3>7 DEF ChainResult
    <3>9. /\ log' = [log EXCEPT ![r][s] = OutcomeOfVotes(r, inst)]
          /\ OutcomeOfVotes(r, inst).phase = "Committed" =>
                inst.phase = "Committed" \/ Announces(r, s, inst.digest)
      BY <1>1, <3>1, <3>4, <3>5, PreparedExact
    <3>10. fin = OutcomeOfVotes(r, inst)
      <4>1. log' = [log EXCEPT ![r][s] = OutcomeOfVotes(r, inst)]
        BY <3>9
      <4>2. s \in Seqs
        BY <1>1
      <4> QED
        BY <3>8, <4>1, <4>2 DEF TypeInv, TypeOK
    <3>11. fin = ResultOf(r, m, inst)
      BY <1>4, <3>10 DEF ResultOf
    <3>12. fin.phase = "Committed" =>
              inst.phase = "Committed" \/ Announces(r, s, inst.digest)
      BY <3>9, <3>10, Zenon
    <3>13. Enters(r, q, m, inst, {vote}, fin)
      BY <1>1, <3>1, <3>2, <3>6, <3>7, <3>11, <3>12, EntersIs DEF s
    <3> QED
      BY <3>4, <3>13
  <2>2. CASE ~AcceptsPrePrepare(r, q, m)
    BY <1>4, <2>2 DEF HandlePrePrepare, AcceptsPrePrepare, Refuses
  <2> QED
    BY <2>1, <2>2
<1>5. CASE m.type = "Prepare" /\ HandlePrepare(r, q, m)
  <2> DEFINE inst == [old EXCEPT !.prepares[q] = m.digest]
  <2>1. CASE AcceptsVote(r, m, old, old.prepares, q)
    <3>1. /\ TryAdvanceToPrepared(r, s, inst, none)
          /\ UNCHANGED <<view, stable_checkpoint>>
      BY <1>5, <2>1 DEF HandlePrepare
    <3>2. /\ m.view = view[r]
          /\ old.digest \in {None, m.digest} /\ old.prepares[q] = None
      BY <2>1 DEF AcceptsVote
    <3> HIDE DEF old
    <3>3. inst \in Instance /\ PhaseOK(inst)
      BY <1>1, <1>2 DEF Instance, PhaseOK
    <3>4. VoteStored(r, q, m, inst, {})
      BY <1>5, <3>2 DEF VoteStored, old
    <3> HIDE DEF inst, none, s
    <3>5. PICK fin \in Instance : ChainResult(r, s, inst, {}, fin)
      BY <1>1, <1>3, <3>1, <3>3, PreparedChain
    <3>6. log' = [log EXCEPT ![r][s] = fin]
      BY <3>5 DEF ChainResult
    <3>7. /\ log' = [log EXCEPT ![r][s] = OutcomeOfVotes(r, inst)]
          /\ OutcomeOfVotes(r, inst).phase = "Committed" =>
                inst.phase = "Committed" \/ Announces(r, s, inst.digest)
      BY <1>1, <1>3, <3>1, <3>3, PreparedExact
    <3>8. fin = OutcomeOfVotes(r, inst)
      <4>1. log' = [log EXCEPT ![r][s] = OutcomeOfVotes(r, inst)]
        BY <3>7
      <4>2. s \in Seqs
        BY <1>1
      <4> QED
        BY <3>6, <4>1, <4>2 DEF TypeInv, TypeOK
    <3>9. fin = ResultOf(r, m, inst)
      BY <1>5, <3>8 DEF ResultOf
    <3>10. fin.phase = "Committed" =>
              inst.phase = "Committed" \/ Announces(r, s, inst.digest)
      BY <3>7, <3>8, Zenon
    <3>11. Enters(r, q, m, inst, {}, fin)
      BY <1>1, <3>1, <3>2, <3>4, <3>5, <3>9, <3>10, EntersIs DEF s
    <3> QED
      BY <3>3, <3>11
  <2>2. CASE ~AcceptsVote(r, m, old, old.prepares, q)
    BY <1>5, <2>2 DEF HandlePrepare, AcceptsVote, Refuses
  <2> QED
    BY <2>1, <2>2
<1>6. CASE m.type = "Commit" /\ HandleCommit(r, q, m)
  <2> DEFINE inst == [old EXCEPT !.commits[q] = m.digest]
  <2>1. CASE AcceptsVote(r, m, old, old.commits, q)
    <3>1. /\ TryAdvanceToCommitted(r, s, inst, none)
          /\ UNCHANGED <<view, stable_checkpoint>>
      BY <1>6, <2>1 DEF HandleCommit
    <3>2. /\ m.view = view[r]
          /\ old.digest \in {None, m.digest} /\ old.commits[q] = None
      BY <2>1 DEF AcceptsVote
    <3> HIDE DEF old
    <3>3. inst \in Instance /\ PhaseOK(inst)
      BY <1>1, <1>2 DEF Instance, PhaseOK
    <3>4. VoteStored(r, q, m, inst, {})
      BY <1>6, <3>2 DEF VoteStored, old
    <3> HIDE DEF inst, none, s
    <3>5. PICK fin \in Instance : ChainResult(r, s, inst, {}, fin)
      BY <1>1, <1>3, <3>1, <3>3, CommittedChain
    <3>6. log' = [log EXCEPT ![r][s] = fin]
      BY <3>5 DEF ChainResult
    <3>7. /\ log' = [log EXCEPT ![r][s] = Outcome(inst)]
          /\ ReadyToCommit(inst) => Announces(r, s, inst.digest)
      BY <1>1, <1>3, <3>1, <3>3, CommittedExact
    <3>8. fin = Outcome(inst)
      <4>1. log' = [log EXCEPT ![r][s] = Outcome(inst)]
        BY <3>7
      <4>2. s \in Seqs
        BY <1>1
      <4> QED
        BY <3>6, <4>1, <4>2 DEF TypeInv, TypeOK
    <3>9. fin = ResultOf(r, m, inst)
      BY <1>6, <3>8 DEF ResultOf
    <3>10. fin.phase = "Committed" =>
              inst.phase = "Committed" \/ Announces(r, s, inst.digest)
      BY <3>7, <3>8 DEF Outcome
    <3>11. Enters(r, q, m, inst, {}, fin)
      BY <1>1, <3>1, <3>2, <3>4, <3>5, <3>9, <3>10, EntersIs DEF s
    <3> QED
      BY <3>3, <3>11
  <2>2. CASE ~AcceptsVote(r, m, old, old.commits, q)
    BY <1>6, <2>2 DEF HandleCommit, AcceptsVote, Refuses
  <2> QED
    BY <2>1, <2>2
<1> QED
  BY <1>4, <1>5, <1>6 DEF ProcessMessage, IsVote

\* A request gets the next number, is pre-prepared, and goes through the chain.
Opens(r, s, d, inst, votes, fin) ==
    /\ s = sequence[r] + 1
    /\ UNCHANGED <<view, stable_checkpoint>>
    /\ inst = PrePrepared(r, GetOrCreateInstance(r, s), d)
    /\ votes = {Ballot("PrePrepare", view[r], s, d), Ballot("Prepare", view[r], s, d)}
    /\ ChainResult(r, s, inst, votes, fin)
    /\ fin = OutcomeOfVotes(r, inst)
    /\ fin.phase = "Committed" =>
          inst.phase = "Committed" \/ Announces(r, s, inst.digest)

LEMMA OrderExact ==
    ASSUME TypeInv, NEW r \in Replica, NEW d \in Request,
           sequence[r] < MaxSeq, OrderRequest(r, d)
    PROVE  \/ UNCHANGED <<view, stable_checkpoint, log, executed, outgoing, delivered>>
           \/ \E s \in Seqs, inst \in Instance : \E votes, fin :
                 Opens(r, s, d, inst, votes, fin)
<1> DEFINE s    == sequence[r] + 1
           old  == GetOrCreateInstance(r, s)
           inst == PrePrepared(r, old, d)
           pp   == Ballot("PrePrepare", view[r], s, d)
           vote == Ballot("Prepare", view[r], s, d)
           sent == <<pp, vote>>
<1>1. s \in Seqs /\ view[r] \in Views /\ d # None
  BY BoundsAssumption DEF TypeInv, TypeOK, Seqs
<1>2. /\ UNCHANGED <<view, stable_checkpoint>>
      /\ \/ UNCHANGED <<log, executed, outgoing, delivered>>
         \/ TryAdvanceToPrepared(r, s, inst, sent)
  BY DEF OrderRequest, NextSequence
<1>3. old \in Instance
  BY <1>1, GetOrCreateType
<1>4. pp \in Message /\ vote \in Message
  BY <1>1 DEF Ballot, Message
<1>5. PICK i \in Seqs : i = s
  BY <1>1
<1> HIDE DEF s, old, pp, vote
<1>6. inst \in Instance /\ PhaseOK(inst)
  BY <1>1, <1>3 DEF PrePrepared, Instance, Phase, PhaseOK
<1>7. sent \in Seq(Message) /\ Elements(sent) = {pp, vote}
  <2>1. << >> \in Seq(Message)
    OBVIOUS
  <2> QED
    BY <1>4, <2>1, ElementsOf
<1>8. inst = PrePrepared(r, GetOrCreateInstance(r, i), d)
  BY <1>5 DEF old
<1>9. {pp, vote} = {Ballot("PrePrepare", view[r], i, d), Ballot("Prepare", view[r], i, d)}
  BY <1>5 DEF pp, vote
<1> HIDE DEF inst, sent
<1>10. CASE TryAdvanceToPrepared(r, s, inst, sent)
  <2>1. PICK fin \in Instance : ChainResult(r, i, inst, {pp, vote}, fin)
    BY <1>1, <1>5, <1>6, <1>7, <1>10, PreparedChain
  <2>2. log' = [log EXCEPT ![r][i] = fin]
    BY <2>1 DEF ChainResult
  <2>3. /\ log' = [log EXCEPT ![r][i] = OutcomeOfVotes(r, inst)]
        /\ OutcomeOfVotes(r, inst).phase = "Committed" =>
              inst.phase = "Committed" \/ Announces(r, i, inst.digest)
    BY <1>1, <1>5, <1>6, <1>7, <1>10, PreparedExact
  <2>4. fin = OutcomeOfVotes(r, inst)
    BY <2>2, <2>3, StoredIs
  <2>5. i = sequence[r] + 1
    BY <1>5 DEF s
  <2>6. Opens(r, i, d, inst, {pp, vote}, fin)
    BY <1>2, <1>8, <1>9, <2>1, <2>3, <2>4, <2>5 DEF Opens
  <2> QED
    BY <1>6, <2>6
<1> QED
  BY <1>2, <1>10

-----------------------------------------------------------------------------
(* Taking a vote, of another replica or with a request of its own *)

\* What a vote makes of its instance.
Records(r, q, type, d, old, inst) ==
    \/ /\ type = "PrePrepare" /\ q = Primary(0)
       /\ old.digest = None
       /\ inst = PrePrepared(r, old, d)
    \/ /\ type = "Prepare" /\ q # r
       /\ old.digest \in {None, d} /\ old.prepares[q] = None
       /\ inst = [old EXCEPT !.prepares[q] = d]
    \/ /\ type = "Commit" /\ q # r
       /\ old.digest \in {None, d} /\ old.commits[q] = None
       /\ inst = [old EXCEPT !.commits[q] = d]

\* What is broadcast at once.
Replies(r, q, type, s, d) ==
    IF type # "PrePrepare" THEN {}
    ELSE IF q # r THEN {Ballot("Prepare", 0, s, d)}
    ELSE {Ballot("PrePrepare", 0, s, d), Ballot("Prepare", 0, s, d)}

\* The replica's Commit is the consequence.
Follows(type, inst) == type # "Commit" /\ CastsCommit(inst)

Takes(r, q, type, s, d, old, inst, fin) ==
    /\ type \in VoteType /\ s \in Seqs /\ d \in Request
    /\ view[r] = 0
    /\ UNCHANGED <<view, stable_checkpoint>>
    /\ old \in Instance /\ inst \in Instance
    /\ old = GetOrCreateInstance(r, s)
    /\ Prompt(old) /\ OwnVotesIn(r, old)
    /\ Records(r, q, type, d, old, inst)
    /\ ChainResult(r, s, inst, Replies(r, q, type, s, d), fin)
    /\ fin = IF type = "Commit" THEN Outcome(inst) ELSE OutcomeOfVotes(r, inst)
    /\ fin.phase = "Committed" =>
          inst.phase = "Committed" \/ Announces(r, s, inst.digest)

\* An instance nobody has voted on is in its last phase.
LEMMA GetOrCreatePrompt ==
    ASSUME TypeInv, InstancesPrompt, NEW r \in Replica, NEW s \in Seqs
    PROVE  Prompt(GetOrCreateInstance(r, s))
<1>1. CASE log[r][s] # None
  BY <1>1 DEF GetOrCreateInstance, InstancesPrompt
<1>2. CASE log[r][s] = None
  BY <1>2 DEF GetOrCreateInstance, NewInstance, Prompt
<1> QED
  BY <1>1, <1>2

LEMMA EntersTakes ==
    ASSUME TypeInv, ViewInv, InstanceInv, InstancesPrompt, OnlyViewZero,
           NEW r \in Replica, NEW q \in Replica \ {r}, NEW m \in Message,
           IsVote(m), m \in Sent(q), NEW inst \in Instance, NEW votes, NEW fin,
           Enters(r, q, m, inst, votes, fin)
    PROVE  \E old : Takes(r, q, m.type, m.sequence, m.digest, old, inst, fin)
<1>1. PICK old : old = GetOrCreateInstance(r, m.sequence)
  OBVIOUS
<1>2. m.sequence \in Seqs /\ m.digest \in Request /\ m.type \in VoteType
  BY DEF Enters, IsVote, VoteType
<1>3. old \in Instance /\ Prompt(old) /\ OwnVotesIn(r, old)
  BY <1>1, <1>2, GetOrCreateType, GetOrCreatePrompt, GetOrCreateOwnVotes DEF InstanceInv
<1>4. m.view = 0 /\ view[r] = 0
  BY DEF OnlyViewZero, Enters, IsVote, VoteType
<1>5. m.type = "PrePrepare" => q = Primary(0)
  BY DEF ViewInv, SingleOrderer
<1>6. VoteStored(r, q, m, inst, votes)
  BY DEF Enters
<1>7. Records(r, q, m.type, m.digest, old, inst)
  BY <1>1, <1>5, <1>6 DEF VoteStored, Records
<1>8. votes = Replies(r, q, m.type, m.sequence, m.digest)
  BY <1>4, <1>6 DEF VoteStored, Replies
<1>9. /\ UNCHANGED <<view, stable_checkpoint>>
      /\ ChainResult(r, m.sequence, inst, votes, fin)
      /\ fin = IF m.type = "Commit" THEN Outcome(inst) ELSE OutcomeOfVotes(r, inst)
      /\ fin.phase = "Committed" =>
            inst.phase = "Committed" \/ Announces(r, m.sequence, inst.digest)
  BY DEF Enters, ResultOf
<1>10. ChainResult(r, m.sequence, inst, Replies(r, q, m.type, m.sequence, m.digest), fin)
  BY <1>8, <1>9, Zenon
<1> QED
  BY <1>1, <1>2, <1>3, <1>4, <1>7, <1>9, <1>10 DEF Takes

LEMMA OpensTakes ==
    ASSUME TypeInv, ViewInv, InstanceInv, InstancesPrompt,
           NEW r \in Replica, NEW d \in Request, IsPrimary(r),
           NEW s \in Seqs, NEW inst \in Instance, NEW votes, NEW fin,
           Opens(r, s, d, inst, votes, fin)
    PROVE  \E old : Takes(r, r, "PrePrepare", s, d, old, inst, fin)
<1>1. PICK old : old = GetOrCreateInstance(r, s)
  OBVIOUS
<1>2. old \in Instance /\ Prompt(old) /\ OwnVotesIn(r, old)
  BY <1>1, GetOrCreateType, GetOrCreatePrompt, GetOrCreateOwnVotes DEF InstanceInv
<1>3. view[r] = 0 /\ r = Primary(0)
  BY DEF IsPrimary, ViewInv, NeverNewPrimary
<1>4. old.digest = None
  <2>1. sequence[r] \in Nat
    BY BoundsAssumption DEF TypeInv, TypeOK
  <2>2. ~(s <= sequence[r])
    BY <2>1 DEF Opens
  <2> QED
    BY <1>1, <1>3, <2>2
    DEF GetOrCreateInstance, NewInstance, InstanceInv, PrimaryLogBounded
<1>5. inst = PrePrepared(r, old, d)
  BY <1>1 DEF Opens
<1>6. Records(r, r, "PrePrepare", d, old, inst)
  BY <1>3, <1>4, <1>5 DEF Records
<1>7. votes = Replies(r, r, "PrePrepare", s, d)
  BY <1>3 DEF Opens, Replies
<1>8. /\ UNCHANGED <<view, stable_checkpoint>>
      /\ ChainResult(r, s, inst, votes, fin)
      /\ fin = OutcomeOfVotes(r, inst)
      /\ fin.phase = "Committed" =>
            inst.phase = "Committed" \/ Announces(r, s, inst.digest)
  BY DEF Opens
<1>9. ChainResult(r, s, inst, Replies(r, r, "PrePrepare", s, d), fin)
  BY <1>7, <1>8, Zenon
<1> QED
  BY <1>1, <1>2, <1>3, <1>6, <1>8, <1>9 DEF Takes, VoteType

\* Is the vote in the instance?
Holds(inst, p, type) ==
    /\ type = "PrePrepare" => inst.digest # None
    /\ type = "Prepare" => inst.prepares[p] # None
    /\ type = "Commit" => inst.commits[p] # None

\* The votes that get into r's instance.
Gains(r, q, type, own, p, t) ==
    \/ t = type /\ (type = "PrePrepare" \/ p = q)
    \/ type = "PrePrepare" /\ t = "Prepare" /\ p = r
    \/ own /\ t = "Commit" /\ p = r

LEMMA TakesRecords ==
    ASSUME NEW r \in Replica, NEW q \in Replica, NEW type, NEW s, NEW d,
           NEW old, NEW inst, NEW fin, Takes(r, q, type, s, d, old, inst, fin)
    PROVE  /\ inst.digest = IF type = "PrePrepare" THEN d ELSE old.digest
           /\ inst.phase = IF type = "PrePrepare" THEN "PrePrepared" ELSE old.phase
           /\ \A p \in Replica :
                 /\ inst.prepares[p] =
                       IF \/ type = "PrePrepare" /\ p = r
                          \/ type = "Prepare" /\ p = q
                       THEN d ELSE old.prepares[p]
                 /\ inst.commits[p] = IF type = "Commit" /\ p = q THEN d ELSE old.commits[p]
<1>1. old \in Instance /\ Records(r, q, type, d, old, inst)
  BY DEF Takes
<1>2. CASE type = "PrePrepare"
  <2>1. /\ inst.digest = d /\ inst.phase = "PrePrepared"
        /\ inst.commits = old.commits
        /\ inst.prepares = [old.prepares EXCEPT ![r] = d]
    BY <1>1, <1>2 DEF Records, PrePrepared, Instance
  <2>2. \A p \in Replica : inst.prepares[p] = IF p = r THEN d ELSE old.prepares[p]
    BY <1>1, <2>1 DEF Instance
  <2> QED
    BY <1>2, <2>1, <2>2
<1>3. CASE type = "Prepare"
  <2>1. /\ inst.digest = old.digest /\ inst.phase = old.phase
        /\ inst.commits = old.commits
        /\ inst.prepares = [old.prepares EXCEPT ![q] = d]
    BY <1>1, <1>3 DEF Records, Instance
  <2>2. \A p \in Replica : inst.prepares[p] = IF p = q THEN d ELSE old.prepares[p]
    BY <1>1, <2>1 DEF Instance
  <2> QED
    BY <1>3, <2>1, <2>2
<1>4. CASE type = "Commit"
  <2>1. /\ inst.digest = old.digest /\ inst.phase = old.phase
        /\ inst.prepares = old.prepares
        /\ inst.commits = [old.commits EXCEPT ![q] = d]
    BY <1>1, <1>4 DEF Records, Instance
  <2>2. \A p \in Replica : inst.commits[p] = IF p = q THEN d ELSE old.commits[p]
    BY <1>1, <2>1 DEF Instance
  <2> QED
    BY <1>4, <2>1, <2>2
<1> QED
  BY <1>1, <1>2, <1>3, <1>4 DEF Records

LEMMA OutcomeFields ==
    ASSUME NEW inst \in Instance
    PROVE  /\ Outcome(inst).commits = inst.commits
           /\ Outcome(inst).phase \in {"Prepared", "Committed"} <=>
                 inst.phase \in {"Prepared", "Committed"}
<1>1. CASE ReadyToCommit(inst)
  BY <1>1 DEF Outcome, ReadyToCommit, Instance
<1>2. CASE ~ReadyToCommit(inst)
  BY <1>2 DEF Outcome
<1> QED
  BY <1>1, <1>2

LEMMA TakesCommits ==
    ASSUME NEW r \in Replica, NEW q \in Replica, NEW type, NEW s, NEW d,
           NEW old, NEW inst, NEW fin, Takes(r, q, type, s, d, old, inst, fin)
    PROVE  /\ \A p \in Replica : fin.commits[p] =
                 IF Follows(type, inst) /\ p = r THEN inst.digest ELSE inst.commits[p]
           /\ fin.phase \in {"Prepared", "Committed"} <=>
                 Follows(type, inst) \/ inst.phase \in {"Prepared", "Committed"}
<1>1. /\ inst \in Instance
      /\ fin = IF type = "Commit" THEN Outcome(inst) ELSE OutcomeOfVotes(r, inst)
  BY DEF Takes
<1>2. CASE Follows(type, inst)
  <2> DEFINE next == [inst EXCEPT !.phase = "Prepared", !.commits[r] = inst.digest]
  <2>1. next \in Instance /\ next.phase = "Prepared"
    BY <1>1, <1>2 DEF Follows, CastsCommit, Instance, Phase
  <2>2. \A p \in Replica : next.commits[p] = IF p = r THEN inst.digest ELSE inst.commits[p]
    BY <1>1 DEF Instance
  <2>3. fin = Outcome(next)
    BY <1>1, <1>2 DEF Follows, OutcomeOfVotes
  <2> HIDE DEF next
  <2> QED
    BY <1>2, <2>1, <2>2, <2>3, OutcomeFields
<1>3. CASE ~Follows(type, inst)
  BY <1>1, <1>3, OutcomeFields DEF Follows, OutcomeOfVotes
<1> QED
  BY <1>2, <1>3

LEMMA TakesHolds ==
    ASSUME NEW r \in Replica, NEW q \in Replica, NEW type, NEW s, NEW d,
           NEW old, NEW inst, NEW fin, Takes(r, q, type, s, d, old, inst, fin)
    PROVE  \A p \in Replica, t \in VoteType :
              Holds(fin, p, t) <=>
                 Holds(old, p, t) \/ Gains(r, q, type, Follows(type, inst), p, t)
<1>1. d # None /\ type \in VoteType
  BY BoundsAssumption DEF Takes
<1>2. fin.digest = inst.digest /\ fin.prepares = inst.prepares
  BY DEF Takes, ChainResult
<1>3. Follows(type, inst) => inst.digest # None
  BY DEF Follows, CastsCommit
<1>4. inst.digest = IF type = "PrePrepare" THEN d ELSE old.digest
  BY TakesRecords
<1>5. ASSUME NEW p \in Replica
      PROVE  /\ fin.prepares[p] =
                   IF \/ type = "PrePrepare" /\ p = r
                      \/ type = "Prepare" /\ p = q
                   THEN d ELSE old.prepares[p]
             /\ fin.commits[p] = IF Follows(type, inst) /\ p = r THEN inst.digest
                                 ELSE IF type = "Commit" /\ p = q THEN d
                                 ELSE old.commits[p]
  BY <1>2, TakesRecords, TakesCommits
<1>6. ASSUME NEW p \in Replica
      PROVE  Holds(fin, p, "PrePrepare") <=>
                Holds(old, p, "PrePrepare")
                \/ Gains(r, q, type, Follows(type, inst), p, "PrePrepare")
  BY <1>1, <1>2, <1>4 DEF Holds, Gains
<1>7. ASSUME NEW p \in Replica
      PROVE  Holds(fin, p, "Prepare") <=>
                Holds(old, p, "Prepare")
                \/ Gains(r, q, type, Follows(type, inst), p, "Prepare")
  BY <1>1, <1>5 DEF Holds, Gains
<1>8. ASSUME NEW p \in Replica
      PROVE  Holds(fin, p, "Commit") <=>
                Holds(old, p, "Commit")
                \/ Gains(r, q, type, Follows(type, inst), p, "Commit")
  BY <1>1, <1>3, <1>5 DEF Holds, Gains
<1> QED
  BY <1>6, <1>7, <1>8 DEF VoteType

LEMMA TakesPhase ==
    ASSUME NEW r \in Replica, NEW q \in Replica, NEW type, NEW s, NEW d,
           NEW old, NEW inst, NEW fin, Takes(r, q, type, s, d, old, inst, fin),
           Holds(old, r, "Commit") <=> old.phase \in {"Prepared", "Committed"}
    PROVE  Holds(fin, r, "Commit") <=> fin.phase \in {"Prepared", "Committed"}
<1>1. type = "Commit" => q # r
  BY DEF Takes, Records
<1>2. type = "PrePrepare" => old.phase = "Idle"
  BY DEF Takes, Records, Prompt
<1>3. Follows(type, inst) => inst.digest # None
  BY DEF Follows, CastsCommit
<1>4. fin.commits[r] = IF Follows(type, inst) THEN inst.digest ELSE old.commits[r]
  BY <1>1, TakesCommits, TakesRecords
<1>5. inst.phase \in {"Prepared", "Committed"} <=> old.phase \in {"Prepared", "Committed"}
  BY <1>2, TakesRecords
<1>6. fin.phase \in {"Prepared", "Committed"} <=>
         Follows(type, inst) \/ inst.phase \in {"Prepared", "Committed"}
  BY TakesCommits
<1> QED
  BY <1>3, <1>4, <1>5, <1>6 DEF Holds

LEMMA TakesPrompt ==
    ASSUME NEW r \in Replica, NEW q \in Replica, NEW type, NEW s, NEW d,
           NEW old, NEW inst, NEW fin, Takes(r, q, type, s, d, old, inst, fin)
    PROVE  Prompt(fin)
<1>1. /\ old \in Instance /\ inst \in Instance /\ Prompt(old) /\ d # None
      /\ Records(r, q, type, d, old, inst)
      /\ fin = IF type = "Commit" THEN Outcome(inst) ELSE OutcomeOfVotes(r, inst)
  BY BoundsAssumption DEF Takes
<1>2. CASE type = "PrePrepare"
  <2>1. inst.digest = d /\ inst.phase = "PrePrepared"
    BY <1>2, TakesRecords
  <2> QED
    BY <1>1, <1>2, <2>1, PromptOutcomeOfVotes
<1>3. CASE type = "Prepare"
  <2>1. inst.digest = old.digest /\ inst.phase = old.phase /\ old.prepares[q] = None
    BY <1>1, <1>3, TakesRecords DEF Records
  <2>2. \A p \in Replica : old.prepares[p] \in {None, inst.prepares[p]}
    BY <1>3, <2>1, TakesRecords
  <2>3. inst.commits = old.commits
    BY <1>1, <1>3 DEF Records, Instance
  <2>4. Votes(old.prepares) >= Quorum => Votes(inst.prepares) >= Quorum
    BY <2>2, VotesGrow
  <2>5. /\ inst.phase = "Idle" <=> inst.digest = None
        /\ inst.phase \in {"Prepared", "Committed"} =>
              inst.digest # None /\ Votes(inst.prepares) >= Quorum
        /\ inst.phase = "Prepared" => Votes(inst.commits) < Quorum
        /\ inst.phase = "Committed" => Votes(inst.commits) >= Quorum
    BY <1>1, <2>1, <2>3, <2>4 DEF Prompt
  <2> QED
    BY <1>1, <1>3, <2>5, PromptOutcomeOfVotes
<1>4. CASE type = "Commit"
  <2>1. inst.digest = old.digest /\ inst.phase = old.phase /\ old.commits[q] = None
    BY <1>1, <1>4, TakesRecords DEF Records
  <2>2. \A p \in Replica : old.commits[p] \in {None, inst.commits[p]}
    BY <1>4, <2>1, TakesRecords
  <2>3. inst.prepares = old.prepares
    BY <1>1, <1>4 DEF Records, Instance
  <2>4. Votes(old.commits) >= Quorum => Votes(inst.commits) >= Quorum
    BY <2>2, VotesGrow
  <2>5. /\ inst.phase = "Idle" <=> inst.digest = None
        /\ inst.phase \in {"Prepared", "Committed"} <=>
              inst.digest # None /\ Votes(inst.prepares) >= Quorum
        /\ inst.phase = "Committed" => Votes(inst.commits) >= Quorum
    BY <1>1, <2>1, <2>3, <2>4 DEF Prompt
  <2> QED
    BY <1>1, <1>4, <2>5, PromptOutcome
<1> QED
  BY <1>1, <1>2, <1>3, <1>4 DEF Records

-----------------------------------------------------------------------------
(* What taking a vote does to the log and to what has been broadcast *)

LEMMA HasIs ==
    ASSUME NEW r \in Replica, NEW p \in Replica, NEW s \in Seqs, NEW t \in VoteType
    PROVE  Has(r, p, t, s) <=> Holds(GetOrCreateInstance(r, s), p, t)
  BY DEF Has, Holds, GetOrCreateInstance, NewInstance, VoteType

LEMMA TakesLog ==
    ASSUME TypeInv, NEW r \in Replica, NEW q \in Replica, NEW type, NEW s, NEW d,
           NEW old, NEW inst, NEW fin, Takes(r, q, type, s, d, old, inst, fin)
    PROVE  /\ fin \in Instance /\ fin # None
           /\ log'[r][s] = fin
           /\ \A a \in Replica, i \in Seqs : (a # r \/ i # s) => log'[a][i] = log[a][i]
<1>1. log \in [Replica -> [Seqs -> Instance \cup {None}]]
  BY DEF TypeInv, TypeOK
<1>2. fin \in Instance /\ log' = [log EXCEPT ![r][s] = fin] /\ s \in Seqs
  BY DEF Takes, ChainResult
<1>3. fin # None
  BY <1>2, NoneAssumption
<1>4. log'[r][s] = fin
  BY <1>1, <1>2
<1>5. \A a \in Replica, i \in Seqs : (a # r \/ i # s) => log'[a][i] = log[a][i]
  BY <1>1, <1>2
<1> QED
  BY <1>2, <1>3, <1>4, <1>5

LEMMA TakesHas ==
    ASSUME TypeInv, NEW r \in Replica, NEW q \in Replica, NEW type, NEW s, NEW d,
           NEW old, NEW inst, NEW fin, Takes(r, q, type, s, d, old, inst, fin)
    PROVE  \A a, p \in Replica, i \in Seqs, t \in VoteType :
              Has(a, p, t, i)' <=>
                 \/ Has(a, p, t, i)
                 \/ a = r /\ i = s /\ Gains(r, q, type, Follows(type, inst), p, t)
<1> SUFFICES ASSUME NEW a \in Replica, NEW p \in Replica, NEW i \in Seqs,
                    NEW t \in VoteType
             PROVE  Has(a, p, t, i)' <=>
                       \/ Has(a, p, t, i)
                       \/ a = r /\ i = s /\ Gains(r, q, type, Follows(type, inst), p, t)
  OBVIOUS
<1>1. /\ fin # None /\ log'[r][s] = fin
      /\ (a # r \/ i # s) => log'[a][i] = log[a][i]
  BY TakesLog
<1>2. CASE a # r \/ i # s
  BY <1>1, <1>2 DEF Has
<1>3. CASE a = r /\ i = s
  <2>1. Has(r, p, t, s)' <=> Holds(fin, p, t)
    BY <1>1 DEF Has, Holds
  <2>2. Has(r, p, t, s) <=> Holds(old, p, t)
    BY <1>3, HasIs DEF Takes
  <2>3. Holds(fin, p, t) <=>
           Holds(old, p, t) \/ Gains(r, q, type, Follows(type, inst), p, t)
    BY TakesHolds
  <2> QED
    BY <1>3, <2>1, <2>2, <2>3
<1> QED
  BY <1>2, <1>3

\* The votes that r broadcasts.
Sends(r, q, type, own, t) ==
    \/ type = "PrePrepare" /\ t = "Prepare"
    \/ type = "PrePrepare" /\ t = "PrePrepare" /\ q = r
    \/ own /\ t = "Commit"

LEMMA TakesFollows ==
    ASSUME NEW r \in Replica, NEW q \in Replica, NEW type, NEW s, NEW d,
           NEW old, NEW inst, NEW fin, Takes(r, q, type, s, d, old, inst, fin)
    PROVE  CastsCommit(inst) <=> Follows(type, inst)
<1>1. CASE type # "Commit"
  BY <1>1 DEF Follows
<1>2. CASE type = "Commit"
  <2>1. inst.digest = old.digest /\ inst.phase = old.phase
    BY <1>2, TakesRecords
  <2>2. inst.prepares = old.prepares
    BY <1>2 DEF Takes, Records, Instance
  <2>3. Prompt(old)
    BY DEF Takes
  <2> QED
    BY <1>2, <2>1, <2>2, <2>3 DEF Follows, CastsCommit, Prompt
<1> QED
  BY <1>1, <1>2

LEMMA TakesSent ==
    ASSUME TypeInv, OnlyViewZero, NEW r \in Replica, NEW q \in Replica,
           NEW type, NEW s, NEW d, NEW old, NEW inst, NEW fin,
           Takes(r, q, type, s, d, old, inst, fin)
    PROVE  /\ \A p \in Replica \ {r} : Sent(p)' = Sent(p)
           /\ Sent(r) \subseteq Sent(r)'
           /\ fin.view = 0
           /\ \A t \in VoteType : Sends(r, q, type, Follows(type, inst), t) => Cast(r, t, s)'
           /\ \A m \in Sent(r)' :
                 \/ m \in Sent(r)
                 \/ /\ m.type \in VoteType /\ Sends(r, q, type, Follows(type, inst), m.type)
                    /\ m.sequence = s /\ m.view = 0 /\ m.digest = fin.digest
                 \/ /\ m = CheckpointMsg(s)
                    /\ s % CheckpointInterval = 0
                    /\ Executes(r, s, fin.digest)
<1> DEFINE own    == Follows(type, inst)
           now    == Replies(r, q, type, s, d)
           commit == Ballot("Commit", inst.view, s, inst.digest)
<1>1. /\ ChainResult(r, s, inst, now, fin)
      /\ old = GetOrCreateInstance(r, s) /\ old \in Instance
      /\ s \in Seqs /\ view[r] = 0
      /\ Records(r, q, type, d, old, inst)
  BY DEF Takes
<1>2. inst.view = 0
  <2>1. old.view = 0
    BY <1>1 DEF GetOrCreateInstance, NewInstance, OnlyViewZero
  <2> QED
    BY <1>1, <2>1 DEF Records, PrePrepared, Instance
<1>3. CastsCommit(inst) <=> own
  BY TakesFollows
<1>4. fin.view = 0 /\ fin.digest = inst.digest
  BY <1>1, <1>2 DEF ChainResult
<1>5. type = "PrePrepare" => inst.digest = d
  BY TakesRecords
<1>6. /\ type # "PrePrepare" => now = {}
      /\ type = "PrePrepare" =>
            now = {Ballot("Prepare", 0, s, d)} \cup
                  (IF q = r THEN {Ballot("PrePrepare", 0, s, d)} ELSE {})
  BY DEF Replies
<1>7. /\ commit.type = "Commit" /\ commit.view = 0 /\ commit.sequence = s
      /\ commit.digest = inst.digest
  BY <1>2 DEF Ballot
<1>8. \A t : /\ Ballot(t, 0, s, d).type = t /\ Ballot(t, 0, s, d).view = 0
             /\ Ballot(t, 0, s, d).sequence = s /\ Ballot(t, 0, s, d).digest = d
  BY DEF Ballot
<1>9. \A m \in now : /\ m.type \in VoteType /\ Sends(r, q, type, own, m.type)
                     /\ m.sequence = s /\ m.view = 0 /\ m.digest = fin.digest
  BY <1>4, <1>5, <1>6, <1>8 DEF Sends, VoteType
<1>10. own => commit \in Sent(r)'
  <2>1. own => fin.phase \in {"Prepared", "Committed"} /\ inst.phase = "PrePrepared"
    BY TakesCommits DEF Follows, CastsCommit
  <2> QED
    BY <1>1, <2>1 DEF ChainResult
<1>11. now \subseteq Sent(r)'
  BY <1>1 DEF ChainResult
<1>12. ASSUME NEW t \in VoteType, Sends(r, q, type, own, t) PROVE Cast(r, t, s)'
  <2>1. CASE t = "Commit" /\ own
    BY <1>7, <1>10, <2>1 DEF Cast
  <2>2. CASE type = "PrePrepare" /\ (t = "Prepare" \/ (t = "PrePrepare" /\ q = r))
    <3>1. Ballot(t, 0, s, d) \in Sent(r)'
      BY <1>6, <1>11, <2>2
    <3> QED
      BY <1>8, <3>1 DEF Cast
  <2>3. \/ t = "Commit" /\ own
        \/ type = "PrePrepare" /\ (t = "Prepare" \/ (t = "PrePrepare" /\ q = r))
    BY <1>12 DEF Sends
  <2> QED
    BY <2>1, <2>2, <2>3
<1>13. ASSUME NEW m \in Sent(r)', m \notin Sent(r)
       PROVE  \/ /\ m.type \in VoteType /\ Sends(r, q, type, own, m.type)
                 /\ m.sequence = s /\ m.view = 0 /\ m.digest = fin.digest
              \/ /\ m = CheckpointMsg(s)
                 /\ s % CheckpointInterval = 0
                 /\ Executes(r, s, fin.digest)
  <2>1. \/ m \in now
        \/ m = commit /\ own
        \/ /\ m = CheckpointMsg(s)
           /\ s % CheckpointInterval = 0
           /\ Executes(r, s, inst.digest)
    BY <1>1, <1>3, <1>13 DEF ChainResult
  <2>2. CASE m = commit /\ own
    BY <1>4, <1>7, <2>2 DEF Sends, VoteType
  <2> QED
    BY <1>4, <1>9, <2>1, <2>2
<1>14. /\ \A p \in Replica \ {r} : Sent(p)' = Sent(p)
       /\ Sent(r) \subseteq Sent(r)'
  BY <1>1 DEF ChainResult
<1> QED
  BY <1>4, <1>12, <1>13, <1>14

-----------------------------------------------------------------------------
(* The numbers *)

Known ==
    /\ TypeInv /\ ViewInv /\ InstanceInv /\ Sourced /\ OrderInv
    /\ RecordedVotes /\ ExecutionInv /\ Meshed /\ ReadTyped

LEMMA NumbersKnown ==
    ASSUME Known
    PROVE  /\ \A i \in Numbers : i \in Seqs /\ i <= sequence[Primary(0)]
           /\ \A p \in Replica : \A m \in Sent(p) :
                 m.type \in VoteType => m.sequence \in Numbers
           /\ \A a, p \in Replica, t \in VoteType, i \in Seqs :
                 Has(a, p, t, i) => i \in Numbers
<1>1. Primary(0) \in Replica
  BY PrimaryType
<1>2. \A i, d : Ordered(i, d) => i \in Numbers
  BY DEF Ordered, HasSent, Orders, Numbers
<1>3. ASSUME NEW i \in Numbers PROVE i \in Seqs /\ i <= sequence[Primary(0)]
  <2>1. PICK m \in Sent(Primary(0)) : m.type = "PrePrepare" /\ m.sequence = i
    BY <1>3 DEF Numbers, Orders
  <2>2. m \in Message
    BY <1>1, SentType DEF Known
  <2>3. i \in Seqs
    BY <2>1, <2>2 DEF Message
  <2>4. i <= sequence[Primary(0)]
    BY <2>1 DEF Known, OrderInv, OrdersBounded
  <2> QED
    BY <2>3, <2>4
<1>4. ASSUME NEW p \in Replica, NEW m \in Sent(p), m.type \in VoteType
      PROVE  m.sequence \in Numbers
  <2>1. CASE m.type = "PrePrepare"
    BY <2>1 DEF Known, ViewInv, SingleOrderer, Numbers, Orders
  <2>2. CASE m.type \in {"Prepare", "Commit"}
    BY <1>2, <2>2 DEF Known, Sourced, VotesOrdered
  <2> QED
    BY <1>4, <2>1, <2>2 DEF VoteType
<1>5. ASSUME NEW p \in Replica, NEW t, NEW i, NEW d, HasSent(p, t, i, d),
             t \in VoteType
      PROVE  i \in Numbers
  BY <1>4, <1>5 DEF HasSent
<1>6. ASSUME NEW a \in Replica, NEW p \in Replica, NEW t \in VoteType, NEW i \in Seqs,
             Has(a, p, t, i)
      PROVE  i \in Numbers
  <2>1. log[a][i] # None
    BY <1>6 DEF Has
  <2>2. CASE t = "PrePrepare"
    BY <1>2, <1>6, <2>1, <2>2 DEF Has, Known, Sourced, InstancesOrdered
  <2>3. CASE t = "Prepare"
    BY <1>5, <1>6, <2>1, <2>3 DEF Has, Known, RecordedVotes
  <2>4. CASE t = "Commit"
    BY <1>5, <1>6, <2>1, <2>4 DEF Has, Known, RecordedVotes
  <2> QED
    BY <2>2, <2>3, <2>4 DEF VoteType
<1> QED
  BY <1>3, <1>4, <1>6

\* A new number is above all others, and at most the high water mark.
LEMMA NewNumbers ==
    ASSUME Known, [Next]_vars
    PROVE  /\ Numbers \subseteq Numbers'
           /\ \A m \in Orders' \ Orders : m.sequence \in Nat /\ m.sequence \notin Numbers
           /\ \A m \in Orders' \ Orders, i \in Numbers : i < m.sequence
           /\ \A m \in Orders' \ Orders :
                 m.sequence <= stable_checkpoint[Primary(0)] + 2 * CheckpointInterval
<1>1. Primary(0) \in Replica
  BY PrimaryType
<1>2. Sent(Primary(0)) \subseteq Sent(Primary(0))'
  BY <1>1, Monotone DEF Known
<1>3. Numbers \subseteq Numbers'
  BY <1>2 DEF Numbers, Orders
<1>4. sequence[Primary(0)] \in Nat
  BY <1>1, BoundsAssumption DEF Known, TypeInv, TypeOK
<1>5. ASSUME NEW m \in Orders' \ Orders
      PROVE  /\ m.sequence = sequence[Primary(0)] + 1
             /\ m.sequence <= stable_checkpoint[Primary(0)] + 2 * CheckpointInterval
  <2>1. m \in Sent(Primary(0))' /\ m.type = "PrePrepare" /\ m \notin Sent(Primary(0))
    BY <1>5 DEF Orders
  <2> QED
    BY <1>1, <2>1, NewOrder DEF Known, HighWatermark
<1>6. \A m \in Orders' \ Orders, i \in Numbers : i < m.sequence
  BY <1>4, <1>5, NumbersKnown DEF Seqs
<1>7. \A m \in Orders' \ Orders : m.sequence \in Nat /\ m.sequence \notin Numbers
  BY <1>4, <1>5, NumbersKnown DEF Seqs
<1> QED
  BY <1>3, <1>5, <1>6, <1>7

LEMMA KnownStep ==
    ASSUME Undisturbed
    PROVE  Known /\ [Next]_vars => Known'
<1> SUFFICES ASSUME Known, [Next]_vars PROVE Known'
  OBVIOUS
<1>1. Primary(0) \notin Restartable
  BY DEF Undisturbed
<1>2. TypeInv' /\ ViewInv' /\ InstanceInv' /\ Sourced' /\ RecordedVotes' /\ ExecutionInv'
  BY TypeStep, ViewStep, InstanceStep, SourcedStep, RecordedStep, ExecutionStep DEF Known
<1>3. OrderInv'
  BY <1>1, OrderStep DEF Known
<1>4. Meshed' /\ ReadTyped'
  BY MeshedStep, ReadStep DEF Known
<1> QED
  BY <1>2, <1>3, <1>4 DEF Known

LEMMA KnownInit == Init => Known
  BY TypeInit, ViewInit, InstanceInit, SourcedInit, OrderInit, CertificateInit,
     ExecutionInit, MeshedInit, ReadInit DEF Known

-----------------------------------------------------------------------------
(* Taking a vote, in terms of who has, has heard and has cast what *)

\* What r reads, if it does.
Hearing(r, q, type, s) ==
    \/ q = r /\ received' = received
    \/ \E m \in Message : Reads(r, q, m) /\ m.type = type /\ m.sequence = s

Gained(r, q, type, s, own) ==
    /\ type \in VoteType /\ s \in Seqs /\ own \in BOOLEAN
    /\ type = "PrePrepare" => q = Primary(0)
    /\ type # "PrePrepare" => q # r
    /\ view[r] = 0
    /\ view' = view
    /\ \A a, p \in Replica, i \in Seqs, t \in VoteType :
          /\ Has(a, p, t, i)' <=>
                \/ Has(a, p, t, i)
                \/ a = r /\ i = s /\ Gains(r, q, type, own, p, t)
          /\ Heard(a, p, t, i)' <=>
                \/ Heard(a, p, t, i)
                \/ a = r /\ i = s /\ p = q /\ q # r /\ t = type
          /\ Cast(p, t, i)' <=>
                \/ Cast(p, t, i)
                \/ p = r /\ i = s /\ Sends(r, q, type, own, t)

LEMMA TakesGained ==
    ASSUME Known, OnlyViewZero, \A p \in Replica : Grows(p),
           NEW r \in Replica, NEW q \in Replica, NEW type, NEW s, NEW d,
           NEW old, NEW inst, NEW fin, Takes(r, q, type, s, d, old, inst, fin),
           Hearing(r, q, type, s)
    PROVE  Gained(r, q, type, s, Follows(type, inst))
<1> DEFINE own == Follows(type, inst)
<1>1. /\ type \in VoteType /\ s \in Seqs
      /\ view[r] = 0
      /\ view' = view
      /\ type = "PrePrepare" => q = Primary(0)
      /\ type # "PrePrepare" => q # r
  BY DEF Takes, Records
<1>2. own \in BOOLEAN
  BY DEF Follows, CastsCommit
<1>3. \A a, p \in Replica, i \in Seqs, t \in VoteType :
          Has(a, p, t, i)' <=>
             \/ Has(a, p, t, i)
             \/ a = r /\ i = s /\ Gains(r, q, type, own, p, t)
  BY TakesHas DEF Known
<1>4. ASSUME NEW a \in Replica, NEW p \in Replica, NEW i \in Seqs, NEW t \in VoteType
      PROVE  Heard(a, p, t, i)' <=>
                \/ Heard(a, p, t, i)
                \/ a = r /\ i = s /\ p = q /\ q # r /\ t = type
  <2>1. CASE q = r /\ received' = received
    <3>1. Read(a, p)' = Read(a, p)
      BY <2>1, ReadSame DEF Known
    <3> QED
      BY <2>1, <3>1 DEF Heard
  <2>2. ASSUME NEW m \in Message, Reads(r, q, m), m.type = type, m.sequence = s
        PROVE  Heard(a, p, t, i)' <=>
                  \/ Heard(a, p, t, i)
                  \/ a = r /\ i = s /\ p = q /\ q # r /\ t = type
    <3>1. /\ (a # r \/ p # q) => Read(a, p)' = Read(a, p)
          /\ Read(r, q)' = Read(r, q) \cup {m}
      BY <2>2, ReadMore DEF Known
    <3>2. q # r
      BY <2>2 DEF Reads
    <3>3. CASE a # r \/ p # q
      BY <3>1, <3>3 DEF Heard
    <3>4. CASE a = r /\ p = q
      BY <2>2, <3>1, <3>2, <3>4 DEF Heard
    <3> QED
      BY <3>3, <3>4
  <2> QED
    BY <2>1, <2>2 DEF Hearing
<1>5. ASSUME NEW p \in Replica, NEW i \in Seqs, NEW t \in VoteType
      PROVE  Cast(p, t, i)' <=>
                \/ Cast(p, t, i)
                \/ p = r /\ i = s /\ Sends(r, q, type, own, t)
  <2>1. /\ p # r => Sent(p)' = Sent(p)
        /\ Sent(r) \subseteq Sent(r)'
        /\ Sends(r, q, type, own, t) => Cast(r, t, s)'
        /\ \A m \in Sent(r)' :
              \/ m \in Sent(r)
              \/ Sends(r, q, type, own, m.type) /\ m.sequence = s
              \/ m = CheckpointMsg(s)
    BY TakesSent DEF Known
  <2>2. CheckpointMsg(s).type = "Checkpoint" /\ t # "Checkpoint"
    BY DEF CheckpointMsg, VoteType
  <2>3. CASE p # r
    BY <2>1, <2>3 DEF Cast
  <2>4. CASE p = r
    <3>1. Cast(r, t, i) => Cast(r, t, i)'
      BY <2>1 DEF Cast
    <3>2. Cast(r, t, i)' => \/ Cast(r, t, i)
                            \/ i = s /\ Sends(r, q, type, own, t)
      BY <2>1, <2>2 DEF Cast
    <3> QED
      BY <2>1, <2>4, <3>1, <3>2
  <2> QED
    BY <2>3, <2>4
<1> QED
  BY <1>1, <1>2, <1>3, <1>4, <1>5 DEF Gained

LEMMA GainedRead ==
    ASSUME ReadIsHeld, HeldIsRead, NEW r \in Replica, NEW q \in Replica,
           NEW type, NEW s, NEW own, Gained(r, q, type, s, own)
    PROVE  ReadIsHeld' /\ HeldIsRead'
<1>1. ASSUME NEW a \in Replica, NEW p \in Replica, NEW i \in Seqs,
             NEW t \in VoteType, view'[a] = 0, Heard(a, p, t, i)'
      PROVE  Has(a, p, t, i)'
  <2>1. view[a] = 0
    BY <1>1 DEF Gained
  <2>2. CASE Heard(a, p, t, i)
    <3>1. Has(a, p, t, i)
      BY <2>1, <2>2 DEF ReadIsHeld
    <3> QED
      BY <3>1 DEF Gained
  <2>3. CASE a = r /\ i = s /\ p = q /\ t = type
    <3>1. Gains(r, q, type, own, p, t)
      BY <2>3 DEF Gains
    <3> QED
      BY <2>3, <3>1 DEF Gained
  <2> QED
    BY <1>1, <2>2, <2>3 DEF Gained
<1>2. ASSUME NEW a \in Replica, NEW p \in Replica, NEW i \in Seqs,
             NEW t \in VoteType, p # a, t = "PrePrepare" => p = Primary(0),
             Has(a, p, t, i)'
      PROVE  Heard(a, p, t, i)'
  <2>1. CASE Has(a, p, t, i)
    <3>1. Heard(a, p, t, i)
      BY <1>2, <2>1 DEF HeldIsRead
    <3> QED
      BY <3>1 DEF Gained
  <2>2. CASE a = r /\ i = s /\ Gains(r, q, type, own, p, t)
    <3>1. t = type /\ p = q
      BY <1>2, <2>2 DEF Gains, Gained
    <3> QED
      BY <1>2, <2>2, <3>1 DEF Gained
  <2> QED
    BY <1>2, <2>1, <2>2 DEF Gained
<1>3. ReadIsHeld'
  BY <1>1 DEF ReadIsHeld
<1>4. HeldIsRead'
  BY <1>2 DEF HeldIsRead
<1> QED
  BY <1>3, <1>4

LEMMA GainedOwn ==
    ASSUME OwnHeld, NEW r \in Replica, NEW q \in Replica,
           NEW type, NEW s, NEW own, Gained(r, q, type, s, own),
           \A a \in Replica, i \in Seqs : Has(a, a, "Commit", i)' <=>
              log'[a][i] # None /\ log'[a][i].phase \in {"Prepared", "Committed"}
    PROVE  OwnHeld'
<1> USE DEF VoteType
<1>1. ASSUME NEW a \in Replica, NEW i \in Seqs
      PROVE  /\ Cast(a, "PrePrepare", i)' => Has(a, a, "PrePrepare", i)'
             /\ Cast(a, "Prepare", i)' <=> Has(a, a, "PrePrepare", i)'
             /\ Has(a, a, "Prepare", i)' <=> Has(a, a, "PrePrepare", i)'
             /\ Cast(a, "Commit", i)' <=> Has(a, a, "Commit", i)'
  <2>1. /\ Cast(a, "PrePrepare", i) => Has(a, a, "PrePrepare", i)
        /\ Cast(a, "Prepare", i) <=> Has(a, a, "PrePrepare", i)
        /\ Has(a, a, "Prepare", i) <=> Has(a, a, "PrePrepare", i)
        /\ Cast(a, "Commit", i) <=> Has(a, a, "Commit", i)
    BY DEF OwnHeld
  <2>2. \A t \in VoteType :
            /\ Has(a, a, t, i)' <=>
                  \/ Has(a, a, t, i)
                  \/ a = r /\ i = s /\ Gains(r, q, type, own, a, t)
            /\ Cast(a, t, i)' <=>
                  \/ Cast(a, t, i)
                  \/ a = r /\ i = s /\ Sends(r, q, type, own, t)
    BY DEF Gained
  <2>3. type # "PrePrepare" => q # r
    BY DEF Gained
  <2>4. /\ Sends(r, q, type, own, "PrePrepare") => Gains(r, q, type, own, r, "PrePrepare")
        /\ Sends(r, q, type, own, "Prepare") <=> Gains(r, q, type, own, r, "PrePrepare")
        /\ Gains(r, q, type, own, r, "Prepare") <=> Gains(r, q, type, own, r, "PrePrepare")
        /\ Sends(r, q, type, own, "Commit") <=> Gains(r, q, type, own, r, "Commit")
    BY <2>3 DEF Sends, Gains
  <2>5. "PrePrepare" \in VoteType /\ "Prepare" \in VoteType /\ "Commit" \in VoteType
    OBVIOUS
  <2> HIDE DEF VoteType
  <2>6. Cast(a, "PrePrepare", i)' => Has(a, a, "PrePrepare", i)'
    BY <2>1, <2>2, <2>4, <2>5
  <2>7. Cast(a, "Prepare", i)' <=> Has(a, a, "PrePrepare", i)'
    BY <2>1, <2>2, <2>4, <2>5
  <2>8. Has(a, a, "Prepare", i)' <=> Has(a, a, "PrePrepare", i)'
    BY <2>1, <2>2, <2>4, <2>5
  <2>9. Cast(a, "Commit", i)' <=> Has(a, a, "Commit", i)'
    BY <2>1, <2>2, <2>4, <2>5
  <2> QED
    BY <2>6, <2>7, <2>8, <2>9
<1> QED
  BY <1>1 DEF OwnHeld

LEMMA TakesOwn ==
    ASSUME Known, OwnHeld, NEW r \in Replica, NEW q \in Replica,
           NEW type, NEW s, NEW d, NEW old, NEW inst, NEW fin,
           Takes(r, q, type, s, d, old, inst, fin)
    PROVE  \A a \in Replica, i \in Seqs : Has(a, a, "Commit", i)' <=>
              log'[a][i] # None /\ log'[a][i].phase \in {"Prepared", "Committed"}
<1>1. SUFFICES ASSUME NEW a \in Replica, NEW i \in Seqs
               PROVE  Has(a, a, "Commit", i)' <=>
                  log'[a][i] # None /\ log'[a][i].phase \in {"Prepared", "Committed"}
  OBVIOUS
<1>2. Has(a, a, "Commit", i) <=>
         log[a][i] # None /\ log[a][i].phase \in {"Prepared", "Committed"}
  BY DEF OwnHeld
<1>3. /\ fin # None /\ log'[r][s] = fin
      /\ (a # r \/ i # s) => log'[a][i] = log[a][i]
  BY TakesLog DEF Known
<1>4. CASE a # r \/ i # s
  BY <1>2, <1>3, <1>4 DEF Has
<1>5. CASE a = r /\ i = s
  <2>1. old = GetOrCreateInstance(r, s)
    BY DEF Takes
  <2>2. Holds(old, r, "Commit") <=> old.phase \in {"Prepared", "Committed"}
    BY <1>2, <1>5, <2>1 DEF Has, Holds, GetOrCreateInstance, NewInstance
  <2>3. Holds(fin, r, "Commit") <=> fin.phase \in {"Prepared", "Committed"}
    BY <2>2, TakesPhase
  <2> QED
    BY <1>3, <1>5, <2>3 DEF Has, Holds
<1> QED
  BY <1>4, <1>5

-----------------------------------------------------------------------------
(* Votes come in the order of the numbers *)

\* Whoever reads a vote has that replica's vote on every smaller number.
LEMMA ReadAfter ==
    ASSUME Known, VotesAscend, ReadIsHeld, NEW r \in Replica, NEW q \in Replica,
           NEW m \in Message, Reads(r, q, m), m.type \in VoteType, view[r] = 0,
           NEW i \in Numbers, i < m.sequence
    PROVE  Has(r, q, m.type, i)
<1>1. outgoing[q] \in Seq(Message) /\ received[r][q] \in Nat
  BY DEF Known, TypeInv, TypeOK
<1> DEFINE k == received[r][q] + 1
<1>2. k \in DOMAIN outgoing[q] /\ m = outgoing[q][k]
  BY <1>1 DEF Reads
<1>3. PICK j \in 1 .. k - 1 : outgoing[q][j].type = m.type /\ outgoing[q][j].sequence = i
  BY <1>2 DEF VotesAscend
<1>4. j \in 1 .. received[r][q]
  BY <1>1, <1>3
<1>5. outgoing[q][j] \in Read(r, q)
  BY <1>4 DEF Read
<1>6. Heard(r, q, m.type, i)
  BY <1>3, <1>5 DEF Heard
<1>7. i \in Seqs
  BY NumbersKnown
<1> QED
  BY <1>6, <1>7 DEF ReadIsHeld

LEMMA TakesAfter ==
    ASSUME Known, VotesAscend, ReadIsHeld, OwnHeld,
           NEW r \in Replica, NEW q \in Replica, NEW type, NEW s, NEW own,
           Gained(r, q, type, s, own), Hearing(r, q, type, s),
           NEW i \in Numbers, i < s
    PROVE  Has(r, q, type, i)
<1>1. type \in VoteType /\ view[r] = 0 /\ i \in Seqs
  BY NumbersKnown DEF Gained
<1>2. CASE q = r
  <2>1. type = "PrePrepare" /\ r = Primary(0)
    BY <1>2 DEF Gained
  <2>2. Cast(r, "PrePrepare", i)
    BY <2>1 DEF Numbers, Orders, Cast
  <2> QED
    BY <1>1, <1>2, <2>1, <2>2 DEF OwnHeld
<1>3. ASSUME NEW m \in Message, Reads(r, q, m), m.type = type, m.sequence = s
      PROVE  Has(r, q, type, i)
  BY <1>1, <1>3, ReadAfter
<1> QED
  BY <1>2, <1>3 DEF Hearing

\* The Prepares of a number are among those of each smaller number.
LEMMA CommitAfter ==
    ASSUME Known, OwnHeld, InstancesPrompt,
           NEW r \in Replica, NEW q \in Replica, NEW type, NEW s, NEW d,
           NEW old, NEW inst, NEW fin, Takes(r, q, type, s, d, old, inst, fin),
           Follows(type, inst), NEW i \in Seqs, i # s,
           Has(r, r, "PrePrepare", i),
           \A p \in Replica : Has(r, p, "Prepare", s)' => Has(r, p, "Prepare", i)
    PROVE  Has(r, r, "Commit", i)
<1>1. fin # None /\ log'[r][s] = fin
  BY TakesLog DEF Known
<1>2. fin.prepares = inst.prepares /\ Votes(inst.prepares) >= Quorum
  BY DEF Takes, ChainResult, Follows, CastsCommit
<1>3. log[r][i] # None /\ log[r][i].digest # None
  BY DEF Has
<1> DEFINE A == {p \in Replica : inst.prepares[p] # None}
           B == {p \in Replica : log[r][i].prepares[p] # None}
<1>4. A \subseteq B
  <2>1. ASSUME NEW p \in A PROVE log[r][i].prepares[p] # None
    <3>1. Has(r, p, "Prepare", s)'
      BY <1>1, <1>2 DEF Has
    <3>2. Has(r, p, "Prepare", i)
      BY <3>1
    <3> QED
      BY <3>2 DEF Has
  <2> QED
    BY <2>1
<1>5. Cardinality(A) >= Quorum /\ B \in SUBSET Replica
  BY <1>2 DEF Votes
<1> HIDE DEF A, B
<1>6. Cardinality(B) >= Quorum
  BY <1>4, <1>5, QuorumGrows
<1>7. Votes(log[r][i].prepares) >= Quorum
  BY <1>6 DEF B, Votes
<1>8. log[r][i].phase \in {"Prepared", "Committed"}
  BY <1>3, <1>7 DEF InstancesPrompt, Prompt
<1> QED
  BY <1>3, <1>8 DEF OwnHeld

LEMMA TakesLogAscends ==
    ASSUME Known, [Next]_vars, VotesAscend, ReadIsHeld, OwnHeld, InstancesPrompt, LogAscends,
           NEW r \in Replica, NEW q \in Replica, NEW type, NEW s, NEW d,
           NEW old, NEW inst, NEW fin, Takes(r, q, type, s, d, old, inst, fin),
           Hearing(r, q, type, s), Gained(r, q, type, s, Follows(type, inst)),
           \A i \in Numbers' : i < s => i \in Numbers
    PROVE  LogAscends'
<1> DEFINE own == Follows(type, inst)
<1>1. \A a, p \in Replica, i \in Seqs, t \in VoteType :
         Has(a, p, t, i)' <=>
            \/ Has(a, p, t, i)
            \/ a = r /\ i = s /\ Gains(r, q, type, own, p, t)
  BY DEF Gained
<1>2. ASSUME NEW a \in Replica, NEW p \in Replica, NEW j \in Seqs, NEW t \in VoteType,
             NEW i \in Numbers', i < j, Has(a, p, t, j)
      PROVE  Has(a, p, t, i)'
  <2>1. j \in Numbers
    BY <1>2, NumbersKnown
  <2>2. i \in Numbers
    <3>1. SUFFICES ASSUME i \notin Numbers PROVE FALSE
      OBVIOUS
    <3>2. PICK m \in Orders' : m.sequence = i
      BY DEF Numbers
    <3>3. m \notin Orders
      BY <3>1, <3>2 DEF Numbers
    <3>4. j < i
      BY <2>1, <3>2, <3>3, NewNumbers
    <3>5. i \in Nat /\ j \in Nat
      BY <1>2, <3>2, <3>3, NewNumbers DEF Seqs
    <3> QED
      BY <1>2, <3>4, <3>5
  <2>3. i \in Seqs
    BY <2>2, NumbersKnown
  <2>4. Has(a, p, t, i)
    BY <1>2, <2>2, <2>3 DEF LogAscends
  <2> QED
    BY <1>1, <2>3, <2>4
<1>3. ASSUME NEW i \in Numbers', i < s, NEW p \in Replica, type = "PrePrepare" \/ p = q
      PROVE  i \in Seqs /\ Has(r, p, type, i)
  <2>1. i \in Numbers /\ i \in Seqs
    BY <1>3, NumbersKnown
  <2>2. Has(r, q, type, i)
    BY <1>3, <2>1, TakesAfter
  <2> QED
    BY <1>3, <2>1, <2>2 DEF Has
<1>4. ASSUME NEW i \in Numbers', i < s, type = "PrePrepare"
      PROVE  Has(r, r, "Prepare", i)
  <2>1. i \in Seqs /\ Has(r, r, "PrePrepare", i)
    BY <1>3, <1>4
  <2> QED
    BY <2>1 DEF OwnHeld
<1>5. ASSUME NEW i \in Numbers', i < s, own
      PROVE  Has(r, r, "Commit", i)
  <2>1. i \in Numbers /\ i \in Seqs /\ s \in Seqs
    BY <1>5, NumbersKnown DEF Gained
  <2>2. i # s
    BY <1>5, <2>1 DEF Seqs
  <2>3. Has(r, r, "PrePrepare", i)
    <3>1. CASE type = "PrePrepare"
      BY <1>3, <1>5, <3>1
    <3>2. CASE type # "PrePrepare"
      <4>1. inst.digest # None /\ inst.digest = old.digest
        BY <3>2, <1>5, TakesRecords DEF Follows, CastsCommit
      <4>2. Has(r, r, "PrePrepare", s)
        BY <4>1 DEF Takes, GetOrCreateInstance, NewInstance, Has
      <4> QED
        BY <1>5, <2>1, <4>2 DEF LogAscends, VoteType
    <3> QED
      BY <3>1, <3>2
  <2>4. ASSUME NEW p \in Replica, Has(r, p, "Prepare", s)'
        PROVE  Has(r, p, "Prepare", i)
    <3>1. CASE Has(r, p, "Prepare", s)
      BY <1>5, <2>1, <3>1 DEF LogAscends, VoteType
    <3>2. CASE Gains(r, q, type, own, p, "Prepare")
      <4>1. \/ type = "Prepare" /\ p = q
            \/ type = "PrePrepare" /\ p = r
        BY <3>2 DEF Gains
      <4> QED
        BY <1>3, <1>4, <1>5, <4>1
    <3> QED
      BY <1>1, <2>1, <2>4, <3>1, <3>2 DEF VoteType
  <2> QED
    BY <1>5, <2>1, <2>2, <2>3, <2>4, CommitAfter
<1>6. ASSUME NEW p \in Replica, NEW t \in VoteType, NEW i \in Numbers', i < s,
             Gains(r, q, type, own, p, t)
      PROVE  i \in Seqs /\ Has(r, p, t, i)
  <2>1. i \in Seqs
    BY <1>6, NumbersKnown
  <2> QED
    BY <1>3, <1>4, <1>5, <1>6, <2>1 DEF Gains
<1>7. ASSUME NEW a \in Replica, NEW p \in Replica, NEW j \in Seqs, NEW i \in Seqs,
             NEW t \in VoteType, i \in Numbers', i < j, Has(a, p, t, j)'
      PROVE  Has(a, p, t, i)'
  <2>1. CASE Has(a, p, t, j)
    BY <1>2, <1>7, <2>1
  <2>2. CASE a = r /\ j = s /\ Gains(r, q, type, own, p, t)
    <3>1. Has(r, p, t, i)
      BY <1>6, <1>7, <2>2
    <3> QED
      BY <1>1, <2>2, <3>1
  <2> QED
    BY <1>1, <1>7, <2>1, <2>2
<1> QED
  BY <1>7 DEF LogAscends

LEMMA TakesNumbers ==
    ASSUME Known, OnlyViewZero, NEW r \in Replica, NEW q \in Replica,
           NEW type, NEW s, NEW d, NEW old, NEW inst, NEW fin,
           Takes(r, q, type, s, d, old, inst, fin)
    PROVE  /\ \A m \in Orders' \ Orders : m.sequence = s
           /\ \A i \in Numbers' : i < s => i \in Numbers
<1>1. Primary(0) \in Replica
  BY PrimaryType
<1>2. CheckpointMsg(s).type = "Checkpoint" /\ s \in Seqs
  BY DEF CheckpointMsg, Takes
<1>3. \A m \in Orders' \ Orders : m.sequence = s
  <2>1. SUFFICES ASSUME NEW m \in Sent(Primary(0))', m.type = "PrePrepare",
                        m \notin Sent(Primary(0))
                 PROVE  m.sequence = s
    BY DEF Orders
  <2>2. Primary(0) = r
    BY <1>1, <2>1, TakesSent DEF Known
  <2> QED
    BY <1>2, <2>1, <2>2, TakesSent DEF Known
<1>4. ASSUME NEW i \in Numbers', i < s PROVE i \in Numbers
  <2>1. PICK m \in Orders' : m.sequence = i
    BY DEF Numbers
  <2>2. m.sequence # s
    BY <1>2, <1>4, <2>1 DEF Seqs
  <2> QED
    BY <1>3, <2>1, <2>2 DEF Numbers
<1> QED
  BY <1>3, <1>4

\* A vote that was there has the older votes before it still.
LEMMA OldVotesAscend ==
    ASSUME Known, VotesAscend, [Next]_vars, \A p \in Replica : Grows(p),
           NEW p \in Replica, NEW k \in DOMAIN outgoing'[p],
           outgoing'[p][k] \in Sent(p), outgoing'[p][k].type \in VoteType,
           NEW i \in Numbers', i < outgoing'[p][k].sequence
    PROVE  \E j \in 1 .. k - 1 : /\ outgoing'[p][j].type = outgoing'[p][k].type
                                 /\ outgoing'[p][j].sequence = i
<1>1. /\ outgoing[p] \in Seq(Message) /\ outgoing'[p] \in Seq(Message)
  BY TypeStep DEF Known, TypeInv, TypeOK
<1>2. /\ Len(outgoing[p]) \in Nat /\ k \in Nat
      /\ \A j \in 1 .. Len(outgoing[p]) : outgoing'[p][j] = outgoing[p][j]
  BY <1>1 DEF Grows
<1>3. PICK x : x = outgoing'[p][k]
  OBVIOUS
<1>4. x \in Sent(p) /\ x.type \in VoteType /\ x.sequence \in Numbers
  BY <1>3, NumbersKnown
<1>5. i \in Numbers
  <2>1. SUFFICES ASSUME i \notin Numbers PROVE FALSE
    OBVIOUS
  <2>2. PICK m \in Orders' : m.sequence = i
    BY DEF Numbers
  <2>3. m \notin Orders
    BY <2>1, <2>2 DEF Numbers
  <2>4. x.sequence < i /\ i \in Nat
    BY <1>4, <2>2, <2>3, NewNumbers
  <2>5. x.sequence \in Nat
    BY <1>4, NumbersKnown DEF Seqs
  <2> QED
    BY <1>3, <2>4, <2>5
<1>6. PICK l \in 1 .. Len(outgoing[p]) : /\ outgoing[p][l] = x
                                         /\ l <= k
  <2>1. CASE k <= Len(outgoing[p])
    <3>1. k \in 1 .. Len(outgoing[p])
      BY <1>1, <1>2, <2>1
    <3> QED
      BY <1>2, <1>3, <3>1
  <2>2. CASE ~(k <= Len(outgoing[p]))
    <3>1. PICK l \in 1 .. Len(outgoing[p]) : outgoing[p][l] = x
      BY <1>4 DEF Sent
    <3>2. l <= k
      BY <1>2, <2>2
    <3> QED
      BY <3>1, <3>2
  <2> QED
    BY <2>1, <2>2
<1>7. l \in DOMAIN outgoing[p]
  BY <1>1
<1>8. PICK j \in 1 .. l - 1 : outgoing[p][j].type = x.type /\ outgoing[p][j].sequence = i
  BY <1>3, <1>4, <1>5, <1>6, <1>7 DEF VotesAscend
<1>9. j \in 1 .. k - 1 /\ j \in 1 .. Len(outgoing[p])
  BY <1>2, <1>6
<1>10. outgoing'[p][j] = outgoing[p][j]
  BY <1>2, <1>9
<1> QED
  BY <1>3, <1>8, <1>9, <1>10

\* What has been cast before has a place before any new message.
LEMMA CastBefore ==
    ASSUME Known, [Next]_vars, \A p \in Replica : Grows(p),
           NEW p \in Replica, NEW k \in DOMAIN outgoing'[p],
           outgoing'[p][k] \notin Sent(p), NEW t, NEW i, Cast(p, t, i)
    PROVE  \E j \in 1 .. k - 1 : /\ outgoing'[p][j].type = t
                                 /\ outgoing'[p][j].sequence = i
<1>1. /\ outgoing[p] \in Seq(Message) /\ outgoing'[p] \in Seq(Message)
  BY TypeStep DEF Known, TypeInv, TypeOK
<1>2. /\ Len(outgoing[p]) \in Nat /\ k \in Nat
      /\ \A j \in 1 .. Len(outgoing[p]) : outgoing'[p][j] = outgoing[p][j]
  BY <1>1 DEF Grows
<1>3. ~(k <= Len(outgoing[p]))
  <2>1. SUFFICES ASSUME k <= Len(outgoing[p]) PROVE FALSE
    OBVIOUS
  <2>2. k \in 1 .. Len(outgoing[p])
    BY <1>1, <1>2, <2>1
  <2>3. outgoing[p][k] \in Sent(p)
    BY <2>2 DEF Sent
  <2> QED
    BY <1>2, <2>2, <2>3
<1>4. PICK j \in 1 .. Len(outgoing[p]) : outgoing[p][j].type = t /\ outgoing[p][j].sequence = i
  BY DEF Cast, Sent
<1>5. j \in 1 .. k - 1
  BY <1>2, <1>3
<1> QED
  BY <1>2, <1>4, <1>5

LEMMA TakesVotesAscend ==
    ASSUME Known, [Next]_vars, \A p \in Replica : Grows(p), OnlyViewZero,
           VotesAscend, LogAscends', OwnHeld',
           NEW r \in Replica, NEW q \in Replica, NEW type, NEW s, NEW d,
           NEW old, NEW inst, NEW fin, Takes(r, q, type, s, d, old, inst, fin),
           Gained(r, q, type, s, Follows(type, inst))
    PROVE  VotesAscend'
<1> DEFINE own == Follows(type, inst)
<1>1. SUFFICES ASSUME NEW p \in Replica, NEW k \in DOMAIN outgoing'[p],
                      NEW i \in Numbers', outgoing'[p][k].type \in VoteType,
                      i < outgoing'[p][k].sequence, outgoing'[p][k] \notin Sent(p)
               PROVE  \E j \in 1 .. k - 1 :
                         /\ outgoing'[p][j].type = outgoing'[p][k].type
                         /\ outgoing'[p][j].sequence = i
  BY OldVotesAscend DEF VotesAscend
<1>2. PICK x : x = outgoing'[p][k]
  OBVIOUS
<1>3. x \in Sent(p)' /\ x \notin Sent(p) /\ x.type \in VoteType /\ i < x.sequence
  <2>1. outgoing'[p] \in Seq(Message)
    BY TypeStep DEF Known, TypeInv, TypeOK
  <2> QED
    BY <1>1, <1>2, <2>1 DEF Sent
<1>4. p = r /\ x.sequence = s /\ Sends(r, q, type, own, x.type)
  <2>1. CheckpointMsg(s).type \notin VoteType
    BY DEF CheckpointMsg, VoteType
  <2>2. p = r
    BY <1>3, TakesSent DEF Known
  <2> QED
    BY <1>3, <2>1, <2>2, TakesSent DEF Known
<1>5. i \in Numbers /\ i \in Seqs /\ s \in Seqs
  BY <1>3, <1>4, TakesNumbers, NumbersKnown DEF Takes
<1>6. i # s /\ i < s
  BY <1>3, <1>4, <1>5 DEF Seqs
<1>7. \A t \in VoteType : Cast(r, t, s)' /\ t # "PrePrepare" => Cast(r, t, i)
  <2>1. ASSUME NEW t \in VoteType, Cast(r, t, i)' PROVE Cast(r, t, i)
    BY <1>5, <1>6, <2>1 DEF Gained
  <2>2. Cast(r, "Prepare", s)' => Cast(r, "Prepare", i)'
    BY <1>5, <1>6 DEF OwnHeld, LogAscends, VoteType
  <2>3. Cast(r, "Commit", s)' => Cast(r, "Commit", i)'
    BY <1>5, <1>6 DEF OwnHeld, LogAscends, VoteType
  <2> QED
    BY <2>1, <2>2, <2>3 DEF VoteType
<1>8. Cast(r, x.type, i)
  <2>1. CASE x.type = "PrePrepare"
    <3>1. r = Primary(0)
      BY <1>4, <2>1 DEF Sends, Gained
    <3> QED
      BY <1>5, <2>1, <3>1 DEF Numbers, Orders, Cast
  <2>2. CASE x.type # "PrePrepare"
    <3>1. Cast(r, x.type, s)'
      BY <1>3, <1>4, <1>5 DEF Gained
    <3> QED
      BY <1>3, <1>7, <2>2, <3>1
  <2> QED
    BY <2>1, <2>2
<1> QED
  BY <1>1, <1>2, <1>4, <1>8, CastBefore

-----------------------------------------------------------------------------
(* Numbers are done in their order *)

DoneAscends ==
    \A a \in Replica, i, j \in Seqs :
        (i \in Numbers /\ i < j /\ Done(a, j)) => Done(a, i)

DoneWith(a, i) ==
    /\ Has(a, a, "PrePrepare", i)
    /\ Cardinality({p \in Replica : Has(a, p, "Prepare", i)}) >= Quorum
    /\ Cardinality({p \in Replica : Has(a, p, "Commit", i)}) >= Quorum

LEMMA DoneIs ==
    ASSUME TypeInv, InstancesPrompt, NEW a \in Replica, NEW i \in Seqs
    PROVE  Done(a, i) <=> DoneWith(a, i)
<1>1. CASE log[a][i] = None
  BY <1>1 DEF Done, DoneWith, Has
<1>2. CASE log[a][i] # None
  <2>1. PICK inst \in Instance : inst = log[a][i]
    BY <1>2 DEF TypeInv, TypeOK
  <2>2. Prompt(inst)
    BY <1>2, <2>1 DEF InstancesPrompt
  <2>3. /\ {p \in Replica : Has(a, p, "Prepare", i)} = {p \in Replica : inst.prepares[p] # None}
        /\ {p \in Replica : Has(a, p, "Commit", i)} = {p \in Replica : inst.commits[p] # None}
        /\ Has(a, a, "PrePrepare", i) <=> inst.digest # None
    BY <1>2, <2>1 DEF Has
  <2>4. DoneWith(a, i) <=> /\ inst.digest # None
                           /\ Votes(inst.prepares) >= Quorum
                           /\ Votes(inst.commits) >= Quorum
    BY <2>3 DEF DoneWith, Votes
  <2>5. Done(a, i) <=> inst.phase = "Committed"
    BY <1>2, <2>1 DEF Done
  <2>6. Votes(inst.commits) >= Quorum <=> ~(Votes(inst.commits) < Quorum)
    BY VotesType DEF Instance
  <2> QED
    BY <2>2, <2>4, <2>5, <2>6 DEF Prompt
<1> QED
  BY <1>1, <1>2

LEMMA DoneAscend == TypeInv /\ InstancesPrompt /\ LogAscends => DoneAscends
<1> SUFFICES ASSUME TypeInv, InstancesPrompt, LogAscends,
                    NEW a \in Replica, NEW i \in Seqs, NEW j \in Seqs,
                    i \in Numbers, i < j, Done(a, j)
             PROVE  Done(a, i)
  BY DEF DoneAscends
<1>1. DoneWith(a, j)
  BY DoneIs
<1>2. \A p \in Replica, t \in VoteType : Has(a, p, t, j) => Has(a, p, t, i)
  BY DEF LogAscends
<1>3. {p \in Replica : Has(a, p, "Prepare", j)} \subseteq {p \in Replica : Has(a, p, "Prepare", i)}
  BY <1>2 DEF VoteType
<1>4. {p \in Replica : Has(a, p, "Commit", j)} \subseteq {p \in Replica : Has(a, p, "Commit", i)}
  BY <1>2 DEF VoteType
<1>5. Cardinality({p \in Replica : Has(a, p, "Prepare", i)}) >= Quorum
  BY <1>1, <1>3, QuorumGrows DEF DoneWith
<1>6. Cardinality({p \in Replica : Has(a, p, "Commit", i)}) >= Quorum
  BY <1>1, <1>4, QuorumGrows DEF DoneWith
<1>7. DoneWith(a, i)
  BY <1>1, <1>2, <1>5, <1>6 DEF DoneWith, VoteType
<1> QED
  BY <1>7, DoneIs

LEMMA DoneAscendNext == TypeInv' /\ InstancesPrompt' /\ LogAscends' => DoneAscends'
  BY DoneAscend, PTL

\* A handler makes done what the chain has committed, and nothing undone.
LEMMA TakesDone ==
    ASSUME Known, NEW r \in Replica, NEW q \in Replica,
           NEW type, NEW s, NEW d, NEW old, NEW inst, NEW fin,
           Takes(r, q, type, s, d, old, inst, fin)
    PROVE  /\ \A a \in Replica, i \in Seqs :
                 /\ Done(a, i) => Done(a, i)'
                 /\ Done(a, i)' => Done(a, i) \/ (a = r /\ i = s)
                 /\ Done(a, i) => log'[a][i].digest = log[a][i].digest
           /\ Done(r, s)' <=> fin.phase = "Committed"
           /\ Done(r, s) <=> inst.phase = "Committed"
           /\ log'[r][s].digest = fin.digest
           /\ fin.digest = inst.digest
           /\ Done(r, s)' => fin.digest # None
<1>1. /\ fin \in Instance /\ fin # None
      /\ log'[r][s] = fin
      /\ \A a \in Replica, i \in Seqs : (a # r \/ i # s) => log'[a][i] = log[a][i]
  BY TakesLog DEF Known
<1>2. Done(r, s)' <=> fin.phase = "Committed"
  BY <1>1 DEF Done
<1>3. old.digest = None => old.phase = "Idle"
  BY DEF Takes, Prompt
<1>4. inst.phase = "Committed" <=> old.phase = "Committed"
  <2>1. type = "PrePrepare" => old.digest = None
    BY DEF Takes, Records
  <2> QED
    BY <1>3, <2>1, TakesRecords
<1>5. Done(r, s) <=> old.phase = "Committed"
  BY DEF Takes, GetOrCreateInstance, NewInstance, Done
<1>6. inst.phase = "Committed" => fin.phase = "Committed"
  BY DEF Takes, ChainResult, CastsCommit
<1>7. fin.digest = inst.digest
  BY DEF Takes, ChainResult
<1>8. old.phase = "Committed" => old.digest # None /\ inst.digest = old.digest
  <2>1. type = "PrePrepare" => old.digest = None
    BY DEF Takes, Records
  <2> QED
    BY <1>3, <2>1, TakesRecords
<1>9. Done(r, s) => log[r][s].digest = old.digest
  BY DEF Takes, GetOrCreateInstance, Done
<1>10. fin.phase = "Committed" => fin.digest # None
  BY TakesPrompt DEF Prompt
<1>11. ASSUME NEW a \in Replica, NEW i \in Seqs
       PROVE  /\ Done(a, i) => Done(a, i)'
              /\ Done(a, i)' => Done(a, i) \/ (a = r /\ i = s)
              /\ Done(a, i) => log'[a][i].digest = log[a][i].digest
  <2>1. CASE a # r \/ i # s
    <3>1. log'[a][i] = log[a][i]
      BY <1>1, <2>1
    <3> QED
      BY <3>1 DEF Done
  <2>2. CASE a = r /\ i = s
    BY <1>1, <1>2, <1>4, <1>5, <1>6, <1>7, <1>8, <1>9, <2>2
  <2> QED
    BY <2>1, <2>2
<1> QED
  BY <1>1, <1>2, <1>4, <1>5, <1>7, <1>10, <1>11

LEMMA TakesExecutes ==
    ASSUME Known, NEW r \in Replica, NEW q \in Replica,
           NEW type, NEW s, NEW d, NEW old, NEW inst, NEW fin,
           Takes(r, q, type, s, d, old, inst, fin)
    PROVE  /\ \A a \in Replica : executed[a] \subseteq executed'[a]
           /\ delivered' = delivered \/ Executes(r, s, fin.digest)
           /\ \A a \in Replica : \A e \in Delivered(a)' :
                 \/ e \in Delivered(a)
                 \/ a = r /\ e = [sequence |-> s, request |-> fin.digest]
           /\ Executes(r, s, fin.digest) => Done(r, s)' /\ fin.digest \in executed'[r]
           /\ delivered' # delivered => Executes(r, s, fin.digest)
           /\ (Done(r, s)' /\ ~Done(r, s)) => Announces(r, s, fin.digest)
<1>1. /\ \/ UNCHANGED <<executed, delivered>>
         \/ Executes(r, s, inst.digest) /\ fin.phase = "Committed"
      /\ fin.digest = inst.digest
      /\ s \in Seqs
  BY DEF Takes, ChainResult
<1>2. Done(r, s)' <=> fin.phase = "Committed"
  BY TakesDone
<1>3. Executes(r, s, fin.digest) =>
         /\ \A p \in Replica \ {r} : /\ Delivered(p)' = Delivered(p)
                                     /\ executed'[p] = executed[p]
         /\ Delivered(r)' = Delivered(r) \cup {[sequence |-> s, request |-> fin.digest]}
         /\ executed'[r] = executed[r] \cup {fin.digest}
         /\ fin.digest \notin executed[r]
  <2>1. SUFFICES ASSUME NEW x \in Request, Executes(r, s, x)
                 PROVE  /\ \A p \in Replica \ {r} : /\ Delivered(p)' = Delivered(p)
                                                    /\ executed'[p] = executed[p]
                        /\ Delivered(r)' = Delivered(r) \cup {[sequence |-> s, request |-> x]}
                        /\ executed'[r] = executed[r] \cup {x}
                        /\ x \notin executed[r]
    BY DEF Executes
  <2>2. x \notin executed[r]
    BY <2>1 DEF Executes
  <2> QED
    BY <1>1, <2>1, <2>2, ExecutesDelivered DEF Known
<1>4. Executes(r, s, fin.digest) => Done(r, s)' /\ fin.digest \in executed'[r]
  <2>1. Executes(r, s, fin.digest) => executed' # executed
    BY <1>3
  <2> QED
    BY <1>1, <1>2, <1>3, <2>1
<1>5. CASE UNCHANGED <<executed, delivered>>
  <2>1. \A a \in Replica : Delivered(a)' = Delivered(a) /\ executed'[a] = executed[a]
    BY <1>5 DEF Delivered
  <2>2. /\ \A a \in Replica : executed[a] \subseteq executed'[a]
        /\ \A a \in Replica : \A e \in Delivered(a)' : e \in Delivered(a)
    BY <2>1
  <2> QED
    BY <1>4, <1>5, <2>2, TakesDone DEF Takes
<1>6. CASE Executes(r, s, fin.digest)
  <2>1. \A a \in Replica : executed[a] \subseteq executed'[a]
    BY <1>3, <1>6
  <2>2. \A a \in Replica : \A e \in Delivered(a)' :
           \/ e \in Delivered(a)
           \/ a = r /\ e = [sequence |-> s, request |-> fin.digest]
    BY <1>3, <1>6
  <2> QED
    BY <1>4, <1>6, <2>1, <2>2, TakesDone DEF Takes
<1> QED
  BY <1>1, <1>5, <1>6

\* What is done is what has been ordered.
DigestsOrdered ==
    \A a \in Replica, i \in Seqs : \A m \in Orders :
        (Done(a, i) /\ m.sequence = i) => log[a][i].digest = m.digest

LEMMA DigestIs == OrderInv /\ InstancesPrompt => DigestsOrdered
<1> SUFFICES ASSUME OrderInv, InstancesPrompt, NEW a \in Replica, NEW i \in Seqs,
                    NEW m \in Orders, Done(a, i), m.sequence = i
             PROVE  log[a][i].digest = m.digest
  BY DEF DigestsOrdered
<1>1. log[a][i] # None /\ log[a][i].digest # None
  BY DEF Done, InstancesPrompt, Prompt
<1>2. Ordered(i, log[a][i].digest)
  BY <1>1 DEF OrderInv, InstancesOrdered
<1> QED
  BY <1>2 DEF Ordered, HasSent, Orders, OrderInv, OrdersUnique

LEMMA DigestIsNext == OrderInv' /\ InstancesPrompt' => DigestsOrdered'
  BY DigestIs, PTL

LEMMA DeliveredType ==
    ASSUME TypeInv, NEW a \in Replica
    PROVE  /\ delivered[a] \in Seq([sequence : Seqs, request : Request])
           /\ \A i \in DOMAIN delivered[a] :
                 delivered[a][i].sequence \in Seqs /\ delivered[a][i].request \in Request
           /\ \A e \in Delivered(a) : e.sequence \in Seqs /\ e.request \in Request
<1> DEFINE E == [sequence : Seqs, request : Request]
<1>1. delivered[a] \in Seq(E)
  BY DEF TypeInv, TypeOK
<1>2. \A e \in E : e.sequence \in Seqs /\ e.request \in Request
  OBVIOUS
<1> HIDE DEF E
<1>3. \A i \in 1 .. Len(delivered[a]) : delivered[a][i] \in E
  BY <1>1
<1>4. DOMAIN delivered[a] = 1 .. Len(delivered[a])
  BY <1>1
<1>5. \A e \in Delivered(a) : e \in E
  BY <1>3 DEF Delivered
<1> QED
  BY <1>1, <1>2, <1>3, <1>4, <1>5 DEF E

LEMMA TakesDoneIsExecuted ==
    ASSUME Known, DoneIsExecuted, NEW r \in Replica, NEW q \in Replica,
           NEW type, NEW s, NEW d, NEW old, NEW inst, NEW fin,
           Takes(r, q, type, s, d, old, inst, fin)
    PROVE  DoneIsExecuted'
<1>1. s \in Seqs
  BY DEF Takes
<1>2. ASSUME NEW a \in Replica, NEW i \in Seqs, Done(a, i)'
      PROVE  log'[a][i].digest \in executed'[a]
  <2>1. CASE Done(a, i)
    <3>1. log[a][i].digest \in executed[a] /\ log'[a][i].digest = log[a][i].digest
      BY <2>1, TakesDone DEF DoneIsExecuted
    <3> QED
      BY <3>1, TakesExecutes
  <2>2. CASE ~Done(a, i)
    <3>1. a = r /\ i = s
      BY <1>2, <2>2, TakesDone
    <3>2. Announces(r, s, fin.digest)
      BY <1>2, <2>2, <3>1, TakesExecutes
    <3>3. fin.digest \in executed'[r]
      BY <3>2, TakesExecutes DEF Announces
    <3> QED
      BY <3>1, <3>3, TakesDone
  <2> QED
    BY <2>1, <2>2
<1>3. ASSUME NEW a \in Replica, NEW e \in Delivered(a)'
      PROVE  Done(a, e.sequence)'
  <2>1. CASE e \in Delivered(a)
    <3>1. Done(a, e.sequence)
      BY <2>1 DEF DoneIsExecuted
    <3>2. e.sequence \in Seqs
      BY <2>1, DeliveredType DEF Known
    <3> QED
      BY <3>1, <3>2, TakesDone
  <2>2. CASE e \notin Delivered(a)
    <3>1. a = r /\ e = [sequence |-> s, request |-> fin.digest]
      BY <2>2, TakesExecutes
    <3>2. delivered' # delivered
      BY <2>2 DEF Delivered
    <3>3. Done(r, s)'
      BY <3>2, TakesExecutes
    <3> QED
      BY <3>1, <3>3
  <2> QED
    BY <2>1, <2>2
<1> QED
  BY <1>2, <1>3 DEF DoneIsExecuted

LEMMA OrderBeforeNew ==
    ASSUME Known, [Next]_vars, NEW a \in Replica, NEW e \in Delivered(a),
           NEW m \in Orders', m.sequence < e.sequence
    PROVE  m \in Orders
<1>1. Ordered(e.sequence, e.request)
  BY DEF Known, OrderInv, DeliveredOrdered
<1>2. e.sequence \in Numbers
  BY <1>1 DEF Ordered, HasSent, Orders, Numbers
<1>3. e.sequence \in Nat
  BY DeliveredType DEF Known, Seqs
<1>4. m \notin Orders => e.sequence < m.sequence /\ m.sequence \in Nat
  BY <1>2, NewNumbers
<1> QED
  BY <1>3, <1>4

\* What is ordered below a number has been executed when that is done.
LEMMA TakesBefore ==
    ASSUME Known, OnlyViewZero, DoneIsExecuted, DigestsOrdered, DoneAscends',
           NEW r \in Replica, NEW q \in Replica,
           NEW type, NEW s, NEW d, NEW old, NEW inst, NEW fin,
           Takes(r, q, type, s, d, old, inst, fin), Done(r, s)',
           NEW m \in Orders', m.sequence < s
    PROVE  m \in Orders /\ m.digest \in executed[r]
<1>1. s \in Seqs /\ s \in Nat
  BY DEF Takes, Seqs
<1>2. m \in Orders
  <2>1. m \notin Orders => m.sequence = s
    BY TakesNumbers
  <2> QED
    BY <1>1, <2>1
<1>3. m.sequence \in Numbers /\ m.sequence \in Seqs /\ m.sequence # s
  BY <1>1, <1>2, NumbersKnown DEF Numbers, Seqs
<1>4. m.sequence \in Numbers'
  BY DEF Numbers
<1>5. Done(r, m.sequence)'
  <2>1. \A i \in Seqs : (i \in Numbers' /\ i < s /\ Done(r, s)') => Done(r, i)'
    BY <1>1 DEF DoneAscends
  <2> QED
    BY <1>3, <1>4, <2>1
<1>6. Done(r, m.sequence)
  <2>1. \A i \in Seqs : i # s /\ Done(r, i)' => Done(r, i)
    BY TakesDone
  <2> QED
    BY <1>3, <1>5, <2>1
<1>7. log[r][m.sequence].digest = m.digest
  BY <1>2, <1>3, <1>6 DEF DigestsOrdered
<1>8. log[r][m.sequence].digest \in executed[r]
  BY <1>3, <1>6 DEF DoneIsExecuted
<1> QED
  BY <1>2, <1>7, <1>8

LEMMA TakesInSequence ==
    ASSUME Undisturbed, Known, [Next]_vars, OnlyViewZero, ExecutesInSequence,
           DoneIsExecuted, DigestsOrdered, DoneAscends',
           NEW r \in Replica, NEW q \in Replica,
           NEW type, NEW s, NEW d, NEW old, NEW inst, NEW fin,
           Takes(r, q, type, s, d, old, inst, fin)
    PROVE  ExecutesInSequence'
<1>1. s \in Seqs /\ s \in Nat
  BY DEF Takes, Seqs
<1>3. ASSUME NEW m \in Orders', m.sequence < s, Executes(r, s, fin.digest)
      PROVE  \E j \in 1 .. Len(delivered[r]) : delivered[r][j].request = m.digest
  <2>1. m.digest \in executed[r]
    BY <1>3, TakesExecutes, TakesBefore
  <2>2. PICK e \in Delivered(r) : e.request = m.digest
    BY <2>1 DEF Known, ExecutionInv, ExecutedIsDelivered, Undisturbed
  <2> QED
    BY <2>2 DEF Delivered
<1>4. SUFFICES ASSUME NEW a \in Replica, NEW k \in DOMAIN delivered'[a],
                      NEW m \in Orders', m.sequence < delivered'[a][k].sequence
               PROVE  \E j \in 1 .. k : delivered'[a][j].request = m.digest
  BY DEF ExecutesInSequence
<1>5. DOMAIN delivered[a] = 1 .. Len(delivered[a]) /\ Len(delivered[a]) \in Nat
  BY DeliveredType DEF Known
<1>6. ASSUME k \in DOMAIN delivered[a],
             \A j \in DOMAIN delivered[a] : delivered'[a][j] = delivered[a][j]
      PROVE  \E j \in 1 .. k : delivered'[a][j].request = m.digest
  <2>1. delivered[a][k] \in Delivered(a) /\ delivered'[a][k] = delivered[a][k]
    BY <1>5, <1>6 DEF Delivered
  <2>2. m \in Orders
    BY <1>4, <2>1, OrderBeforeNew
  <2>3. PICK j \in 1 .. k : delivered[a][j].request = m.digest
    BY <1>4, <1>6, <2>1, <2>2 DEF ExecutesInSequence
  <2>4. j \in DOMAIN delivered[a]
    BY <1>5, <1>6
  <2> QED
    BY <1>6, <2>3, <2>4
<1>7. CASE delivered'[a] = delivered[a]
  BY <1>6, <1>7
<1>8. CASE Executes(r, s, fin.digest) /\ a = r
  <2>1. /\ fin.digest \in Request
        /\ Len(delivered'[r]) = Len(delivered[r]) + 1
        /\ delivered'[r][Len(delivered[r]) + 1] = [sequence |-> s, request |-> fin.digest]
        /\ \A i \in 1 .. Len(delivered[r]) : delivered'[r][i] = delivered[r][i]
    <3>1. fin.digest \in Request
      BY <1>8 DEF Executes
    <3> QED
      BY <1>1, <1>8, <3>1, ExecutesAppends DEF Known
  <2>2. DOMAIN delivered'[r] = 1 .. Len(delivered[r]) + 1
    <3>1. delivered[r] \in Seq([sequence : Seqs, request : Request])
      BY DeliveredType DEF Known
    <3>2. delivered'[r] = Append(delivered[r], [sequence |-> s, request |-> fin.digest])
      BY <1>8 DEF Executes, Known, TypeInv, TypeOK
    <3> QED
      BY <3>1, <3>2
  <2>3. CASE k \in DOMAIN delivered[a]
    BY <1>5, <1>6, <1>8, <2>1, <2>3
  <2>4. CASE k = Len(delivered[r]) + 1
    <3>1. m.sequence < s
      BY <1>4, <1>8, <2>1, <2>4
    <3>2. PICK j \in 1 .. Len(delivered[r]) : delivered[r][j].request = m.digest
      BY <1>3, <1>8, <3>1
    <3>3. j \in 1 .. k /\ delivered'[a][j] = delivered[r][j]
      BY <1>5, <1>8, <2>1, <2>4
    <3> QED
      BY <3>2, <3>3
  <2> QED
    BY <1>5, <1>8, <2>2, <2>3, <2>4
<1>9. delivered'[a] = delivered[a] \/ (Executes(r, s, fin.digest) /\ a = r)
  <2>1. CASE delivered' = delivered
    BY <2>1
  <2>2. CASE Executes(r, s, fin.digest)
    <3>1. fin.digest \in Request
      BY <2>2 DEF Executes
    <3> QED
      BY <1>1, <2>2, <3>1, ExecutesAppends DEF Known
  <2> QED
    BY <2>1, <2>2, TakesExecutes
<1> QED
  BY <1>7, <1>8, <1>9

LEMMA FirstKept ==
    ASSUME Known, [Next]_vars, NEW i \in Numbers
    PROVE  FirstNumber(i)' <=> FirstNumber(i)
<1>1. i \in Nat
  BY NumbersKnown DEF Seqs
<1>2. Primary(0) \in Replica
  BY PrimaryType
<1>3. Orders \subseteq Orders'
  BY <1>2, Monotone DEF Known, Orders
<1>4. \A m \in Orders' : m.sequence <= i => m \in Orders
  <2>1. \A m \in Orders' \ Orders : m.sequence \in Nat /\ i < m.sequence
    BY NewNumbers
  <2> QED
    BY <1>1, <2>1
<1>5. \A m \in Orders' : m.sequence = i => m \in Orders
  BY <1>1, <1>4
<1>6. \A m \in Orders' : m.sequence < i => m \in Orders
  <2>1. \A m \in Orders' \ Orders : m.sequence \in Nat /\ i < m.sequence
    BY NewNumbers
  <2> QED
    BY <1>1, <2>1
<1> QED
  BY <1>3, <1>5, <1>6 DEF FirstNumber

DonesOrdered ==
    \A a \in Replica, i \in Seqs : Done(a, i) => Ordered(i, log[a][i].digest)

LEMMA DoneIsOrdered == OrderInv /\ InstancesPrompt => DonesOrdered
  BY DEF DonesOrdered, Done, InstancesPrompt, Prompt, OrderInv, InstancesOrdered

LEMMA DoneIsOrderedNext == OrderInv' /\ InstancesPrompt' => DonesOrdered'
  BY DoneIsOrdered, PTL

LEMMA TakesAnnounced ==
    ASSUME Undisturbed, Known, Known', [Next]_vars, OnlyViewZero, AnnouncedAreFirst,
           DonesOrdered, DonesOrdered', DoneIsExecuted, DigestsOrdered, DigestsOrdered', DoneAscends, DoneAscends',
           NEW r \in Replica, NEW q \in Replica,
           NEW type, NEW s, NEW d, NEW old, NEW inst, NEW fin,
           Takes(r, q, type, s, d, old, inst, fin)
    PROVE  AnnouncedAreFirst'
<1>1. s \in Seqs /\ s \in Nat
  BY DEF Takes, Seqs
<1>2. ASSUME NEW a \in Replica, NEW i \in Seqs, CheckpointMsg(i) \in Sent(a)',
             CheckpointMsg(i) \notin Sent(a)
      PROVE  a = r /\ i = s /\ s % CheckpointInterval = 0 /\ Executes(r, s, fin.digest)
  <2>1. CheckpointMsg(i).type = "Checkpoint" /\ CheckpointMsg(i).sequence = i
        /\ CheckpointMsg(s).sequence = s
    BY DEF CheckpointMsg
  <2>2. CheckpointMsg(i).type \notin VoteType
    BY <2>1 DEF VoteType
  <2>3. a = r
    BY <1>2, TakesSent DEF Known
  <2>4. CheckpointMsg(i) = CheckpointMsg(s) /\ s % CheckpointInterval = 0
        /\ Executes(r, s, fin.digest)
    BY <1>2, <2>2, <2>3, TakesSent DEF Known
  <2>5. i = s
    BY <2>1, <2>4
  <2> QED
    BY <2>3, <2>4, <2>5
<1>3. \A a \in Replica, i \in Seqs :
         CheckpointMsg(i) \in Sent(a) => CheckpointMsg(i) \in Sent(a)'
  BY TakesSent DEF Known
<1>4. ASSUME NEW a \in Replica, NEW i \in Seqs, Done(a, i)
      PROVE  i \in Numbers
  BY <1>4 DEF DonesOrdered, Ordered, HasSent, Orders, Numbers
<1>5. /\ \A a \in Replica, i \in Seqs : Done(a, i) => Done(a, i)'
      /\ \A a \in Replica, i \in Seqs : Done(a, i)' => Done(a, i) \/ (a = r /\ i = s)
      /\ Done(r, s) => log[r][s].digest = fin.digest
      /\ Done(r, s)' => log'[r][s].digest = fin.digest
      /\ Executes(r, s, fin.digest) => Done(r, s)'
  <2>1. log'[r][s] = fin
    BY TakesLog DEF Known
  <2>2. Done(r, s) => log'[r][s].digest = log[r][s].digest
    BY <1>1, TakesDone
  <2> QED
    BY <2>1, <2>2, TakesDone, TakesExecutes
<1>6. ASSUME NEW a \in Replica, NEW i \in Seqs, Done(a, i)
      PROVE  CheckpointMsg(i) \in Sent(a)' <=>
                i % CheckpointInterval = 0 /\ Done(a, i)' /\ FirstNumber(i)'
  <2>1. FirstNumber(i)' <=> FirstNumber(i)
    BY <1>4, <1>6, FirstKept
  <2>2. CheckpointMsg(i) \in Sent(a) <=> i % CheckpointInterval = 0 /\ FirstNumber(i)
    BY <1>6 DEF AnnouncedAreFirst
  <2>3. CheckpointMsg(i) \in Sent(a)' => CheckpointMsg(i) \in Sent(a)
    <3>1. SUFFICES ASSUME CheckpointMsg(i) \in Sent(a)', CheckpointMsg(i) \notin Sent(a)
                   PROVE  FALSE
      OBVIOUS
    <3>2. a = r /\ i = s /\ Executes(r, s, fin.digest)
      BY <1>2, <3>1
    <3>3. fin.digest \in executed[r]
      BY <1>1, <1>5, <1>6, <3>2 DEF DoneIsExecuted
    <3> QED
      BY <3>2, <3>3 DEF Executes
  <2> QED
    BY <1>3, <1>5, <1>6, <2>1, <2>2, <2>3
<1>7. ASSUME NEW a \in Replica, NEW i \in Seqs, ~Done(a, i), ~Done(a, i)'
      PROVE  CheckpointMsg(i) \notin Sent(a)'
  BY <1>2, <1>5, <1>7 DEF AnnouncedAreFirst
<1>8. ASSUME ~Done(r, s), Done(r, s)'
      PROVE  CheckpointMsg(s) \in Sent(r)' <=>
                s % CheckpointInterval = 0 /\ FirstNumber(s)'
  <2>1. CheckpointMsg(s) \notin Sent(r)
    BY <1>1, <1>8 DEF AnnouncedAreFirst
  <2>2. fin.digest \in executed[r]
        \/ (Executes(r, s, fin.digest)
            /\ (s % CheckpointInterval = 0 => CheckpointMsg(s) \in Sent(r)'))
    <3>1. Announces(r, s, fin.digest)
      BY <1>8, TakesExecutes
    <3> QED
      BY <3>1 DEF Announces
  <2>3. CheckpointMsg(s) \in Sent(r)' <=>
           s % CheckpointInterval = 0 /\ fin.digest \notin executed[r]
    <3>1. Executes(r, s, fin.digest) => fin.digest \notin executed[r]
      BY DEF Executes
    <3> QED
      BY <1>1, <1>2, <2>1, <2>2, <3>1
  <2>4. PICK m \in Orders' : m.sequence = s /\ m.digest = fin.digest
    <3>1. Ordered(s, fin.digest)'
      BY <1>1, <1>5, <1>8 DEF DonesOrdered
    <3> QED
      BY <3>1 DEF Ordered, HasSent, Orders
  <2>5. ASSUME NEW k \in Orders', NEW l \in Orders', k.sequence = s,
               l.sequence < s, l.digest = k.digest
        PROVE  fin.digest \in executed[r]
    <3>1. k.digest = fin.digest
      BY <1>1, <1>5, <1>8, <2>5 DEF DigestsOrdered
    <3>2. l.digest \in executed[r]
      BY <1>8, <2>5, TakesBefore
    <3> QED
      BY <2>5, <3>1, <3>2
  <2>6. ASSUME fin.digest \in executed[r]
        PROVE  ~FirstNumber(s)'
    <3>1. PICK e \in Delivered(r) : e.request = fin.digest
      BY <2>6 DEF Known, ExecutionInv, ExecutedIsDelivered, Undisturbed
    <3>2. e.sequence \in Seqs /\ e.sequence \in Nat
      BY DeliveredType DEF Known, Seqs
    <3>3. Done(r, e.sequence)
      BY DEF DoneIsExecuted
    <3>4. e.sequence # s
      BY <1>8, <3>3
    <3>5. PICK l \in Orders : l.sequence = e.sequence /\ l.digest = fin.digest
      <4>1. Ordered(e.sequence, e.request)
        BY DEF Known, OrderInv, DeliveredOrdered
      <4> QED
        BY <3>1, <4>1 DEF Ordered, HasSent, Orders
    <3>6. l \in Orders' /\ l.sequence \in Numbers
      <4>1. Primary(0) \in Replica
        BY PrimaryType
      <4>2. Orders \subseteq Orders'
        BY <4>1, Monotone DEF Known, Orders
      <4> QED
        BY <4>2 DEF Numbers
    <3>7. CASE e.sequence < s
      BY <2>4, <3>5, <3>6, <3>7 DEF FirstNumber
    <3>8. CASE s < e.sequence
      <4>1. s \in Numbers
        <5>1. m \notin Orders => e.sequence < s
          BY <2>4, <3>5, <3>6, NewNumbers
        <5>2. m \in Orders
          BY <1>1, <3>2, <3>8, <5>1
        <5> QED
          BY <2>4, <5>2 DEF Numbers
      <4>2. Done(r, s)
        BY <1>1, <3>2, <3>3, <3>8, <4>1 DEF DoneAscends
      <4> QED
        BY <1>8, <4>2
    <3> QED
      BY <1>1, <3>2, <3>4, <3>7, <3>8
  <2>7. fin.digest \notin executed[r] => FirstNumber(s)'
    BY <2>5 DEF FirstNumber
  <2> QED
    BY <2>3, <2>6, <2>7
<1>9. ASSUME NEW a \in Replica, NEW i \in Seqs
      PROVE  CheckpointMsg(i) \in Sent(a)' <=>
                i % CheckpointInterval = 0 /\ Done(a, i)' /\ FirstNumber(i)'
  <2>1. CASE Done(a, i)
    BY <1>6, <2>1, Zenon
  <2>2. CASE ~Done(a, i) /\ ~Done(a, i)'
    BY <1>7, <2>2
  <2>3. CASE ~Done(a, i) /\ Done(a, i)'
    <3>1. a = r /\ i = s
      BY <1>5, <2>3
    <3> QED
      BY <1>8, <2>3, <3>1
  <2> QED
    BY <2>1, <2>2, <2>3
<1> QED
  BY <1>9 DEF AnnouncedAreFirst

LEMMA FirstWindowKept ==
    ASSUME Known, [Next]_vars, NothingStable, InFirstWindow
    PROVE  InFirstWindow'
<1>1. stable_checkpoint[Primary(0)] = 0
  BY PrimaryType DEF NothingStable
<1>2. CheckpointInterval \in Nat
  BY IntervalAssumption
<1>3. \A m \in Orders' \ Orders : m.sequence <= 2 * CheckpointInterval
  <2>1. \A m \in Orders' \ Orders :
           m.sequence <= stable_checkpoint[Primary(0)] + 2 * CheckpointInterval
    BY NewNumbers
  <2> QED
    BY <1>1, <1>2, <2>1
<1> QED
  BY <1>3 DEF InFirstWindow, Numbers

LEMMA TakesViewZero ==
    ASSUME Known, OnlyViewZero, NEW r \in Replica, NEW q \in Replica,
           NEW type, NEW s, NEW d, NEW old, NEW inst, NEW fin,
           Takes(r, q, type, s, d, old, inst, fin)
    PROVE  OnlyViewZero'
<1>1. ASSUME NEW p \in Replica, NEW m \in Sent(p)', m.type \in VoteType
      PROVE  m.view = 0
  <2>1. CheckpointMsg(s).type \notin VoteType
    BY DEF CheckpointMsg, VoteType
  <2>2. CASE m \in Sent(p)
    BY <1>1, <2>2 DEF OnlyViewZero
  <2>3. CASE m \notin Sent(p)
    <3>1. p = r
      BY <2>3, TakesSent DEF Known
    <3> QED
      BY <1>1, <2>1, <2>3, <3>1, TakesSent DEF Known
  <2> QED
    BY <2>2, <2>3
<1>2. ASSUME NEW a \in Replica, NEW i \in Seqs, log'[a][i] # None
      PROVE  log'[a][i].view = 0
  <2>1. CASE a = r /\ i = s
    BY <2>1, TakesSent, TakesLog DEF Known
  <2>2. CASE a # r \/ i # s
    BY <1>2, <2>2, TakesLog DEF Known, OnlyViewZero
  <2> QED
    BY <2>1, <2>2
<1> QED
  BY <1>1, <1>2 DEF OnlyViewZero

LEMMA TakesAllPrompt ==
    ASSUME Known, InstancesPrompt, NEW r \in Replica, NEW q \in Replica,
           NEW type, NEW s, NEW d, NEW old, NEW inst, NEW fin,
           Takes(r, q, type, s, d, old, inst, fin)
    PROVE  InstancesPrompt'
<1>1. ASSUME NEW a \in Replica, NEW i \in Seqs, log'[a][i] # None
      PROVE  Prompt(log'[a][i])
  <2>1. CASE a = r /\ i = s
    BY <2>1, TakesPrompt, TakesLog DEF Known
  <2>2. CASE a # r \/ i # s
    BY <1>1, <2>2, TakesLog DEF Known, InstancesPrompt
  <2> QED
    BY <2>1, <2>2
<1>2. ASSUME NEW a \in Replica, NEW i \in Seqs
      PROVE  log'[a][i] # None => Prompt(log[a][i])'
  BY <1>1 DEF Prompt
<1> QED
  BY <1>2 DEF InstancesPrompt

\* Whoever takes a vote keeps the order.
LEMMA TakesInOrder ==
    ASSUME Undisturbed, Known, Known', [Next]_vars, NothingStable, InOrder,
           \A p \in Replica : Grows(p),
           NEW r \in Replica, NEW q \in Replica, NEW type, NEW s, NEW d,
           NEW old, NEW inst, NEW fin, Takes(r, q, type, s, d, old, inst, fin),
           Hearing(r, q, type, s)
    PROVE  InOrder'
<1>1. /\ VotesAscend /\ ReadIsHeld /\ HeldIsRead /\ OwnHeld
      /\ InstancesPrompt /\ LogAscends /\ DoneIsExecuted
      /\ AnnouncedAreFirst /\ OnlyViewZero /\ InFirstWindow
      /\ ExecutesInSequence
  BY DEF InOrder
<1>2. Gained(r, q, type, s, Follows(type, inst))
  BY <1>1, TakesGained
<1>3. OnlyViewZero'
  BY <1>1, TakesViewZero
<1>4. InstancesPrompt'
  BY <1>1, TakesAllPrompt
<1>5. InFirstWindow'
  BY <1>1, FirstWindowKept
<1>6. ReadIsHeld' /\ HeldIsRead'
  BY <1>1, <1>2, GainedRead
<1>7. OwnHeld'
  <2>1. \A a \in Replica, i \in Seqs : Has(a, a, "Commit", i)' <=>
              log'[a][i] # None /\ log'[a][i].phase \in {"Prepared", "Committed"}
    BY <1>1, TakesOwn
  <2> QED
    BY <1>1, <1>2, <2>1, GainedOwn
<1>8. LogAscends'
  <2>1. \A i \in Numbers' : i < s => i \in Numbers
    BY <1>1, TakesNumbers
  <2> QED
    BY <1>1, <1>2, <2>1, TakesLogAscends
<1>9. VotesAscend'
  BY <1>1, <1>2, <1>7, <1>8, TakesVotesAscend
<1>10. DoneIsExecuted'
  BY <1>1, TakesDoneIsExecuted
<1>11. DigestsOrdered /\ DoneAscends /\ DonesOrdered
  BY <1>1, DigestIs, DoneAscend, DoneIsOrdered DEF Known
<1>12. DigestsOrdered' /\ DoneAscends' /\ DonesOrdered'
  BY <1>4, <1>8, DigestIsNext, DoneAscendNext, DoneIsOrderedNext DEF Known
<1>13. ExecutesInSequence'
  BY <1>1, <1>11, <1>12, TakesInSequence
<1>14. AnnouncedAreFirst'
  BY <1>1, <1>11, <1>12, TakesAnnounced
<1> QED
  BY <1>3, <1>4, <1>5, <1>6, <1>7, <1>8, <1>9, <1>10, <1>13, <1>14 DEF InOrder

-----------------------------------------------------------------------------
(* The other steps vote for nothing, and refuse no vote of view 0 that is    *)
(* not in the log                                                            *)

Rests ==
    /\ UNCHANGED <<log, executed, delivered>>
    /\ \A p \in Replica : view'[p] = 0 => view[p] = 0
    /\ \A p \in Replica : \A m \in Sent(p)' :
          m \in Sent(p) \/ m.type \in {"ViewChange", "NewView"}
    /\ \A a, p \in Replica, i \in Seqs, t \in VoteType :
          /\ Heard(a, p, t, i) => Heard(a, p, t, i)'
          /\ Heard(a, p, t, i)' /\ view[a] = 0 => Heard(a, p, t, i) \/ Has(a, p, t, i)

LEMMA RestsInOrder ==
    ASSUME Known, [Next]_vars, InOrder, \A p \in Replica : Grows(p), Rests
    PROVE  InOrder'
<1>1. /\ VotesAscend /\ ReadIsHeld /\ HeldIsRead /\ OwnHeld
      /\ InstancesPrompt /\ LogAscends /\ DoneIsExecuted
      /\ AnnouncedAreFirst /\ OnlyViewZero /\ InFirstWindow
      /\ ExecutesInSequence
  BY DEF InOrder
<1>2. \A p \in Replica : Sent(p) \subseteq Sent(p)'
  BY Monotone DEF Known
<1>3. ASSUME NEW p \in Replica, NEW m \in Sent(p)', m \notin Sent(p)
      PROVE  m.type \notin VoteType /\ m.type # "Checkpoint"
  BY <1>3 DEF Rests, VoteType
<1>4. \A p \in Replica, t \in VoteType : \A i : Cast(p, t, i)' <=> Cast(p, t, i)
  BY <1>2, <1>3 DEF Cast
<1>5. \A p \in Replica : \A i : CheckpointMsg(i) \in Sent(p)' <=> CheckpointMsg(i) \in Sent(p)
  <2>1. \A i : CheckpointMsg(i).type = "Checkpoint"
    BY DEF CheckpointMsg
  <2> QED
    BY <1>2, <1>3, <2>1
<1>6. Orders' = Orders /\ Numbers' = Numbers
  <2>1. Primary(0) \in Replica
    BY PrimaryType
  <2>2. Orders' = Orders
    BY <1>2, <1>3, <2>1 DEF Orders, VoteType
  <2> QED
    BY <2>2 DEF Numbers
<1>7. /\ \A a, p \in Replica, t \in VoteType, i \in Seqs :
            Has(a, p, t, i)' <=> Has(a, p, t, i)
      /\ \A a \in Replica, i \in Seqs : Done(a, i)' <=> Done(a, i)
      /\ \A a \in Replica : Delivered(a)' = Delivered(a)
      /\ \A i : FirstNumber(i)' <=> FirstNumber(i)
  BY <1>6 DEF Rests, Has, Done, Delivered, FirstNumber
<1>8. ReadIsHeld'
  BY <1>1, <1>7 DEF ReadIsHeld, Rests
<1>9. HeldIsRead'
  BY <1>1, <1>7 DEF HeldIsRead, Rests
<1>10. OwnHeld'
  BY <1>1, <1>4, <1>7 DEF OwnHeld, Rests, VoteType
<1>11. LogAscends'
  BY <1>1, <1>6, <1>7 DEF LogAscends
<1>12. InstancesPrompt'
  BY <1>1 DEF InstancesPrompt, Prompt, Rests
<1>13. DoneIsExecuted'
  <2>1. \A a \in Replica, i \in Seqs : Done(a, i)' => log'[a][i].digest \in executed'[a]
    BY <1>1, <1>7 DEF DoneIsExecuted, Rests
  <2>2. \A a \in Replica : \A e \in Delivered(a)' : Done(a, e.sequence)'
    BY <1>1, <1>7, DeliveredType DEF DoneIsExecuted, Known
  <2> QED
    BY <2>1, <2>2 DEF DoneIsExecuted
<1>14. AnnouncedAreFirst'
  BY <1>1, <1>5, <1>7 DEF AnnouncedAreFirst
<1>15. OnlyViewZero'
  BY <1>1, <1>3 DEF OnlyViewZero, Rests
<1>16. InFirstWindow'
  BY <1>1, <1>6 DEF InFirstWindow
<1>17. ExecutesInSequence'
  BY <1>1, <1>6 DEF ExecutesInSequence, Rests
<1>18. VotesAscend'
  <2>1. SUFFICES ASSUME NEW p \in Replica, NEW k \in DOMAIN outgoing'[p], NEW i \in Numbers',
                        outgoing'[p][k].type \in VoteType, i < outgoing'[p][k].sequence
                 PROVE  \E j \in 1 .. k - 1 : /\ outgoing'[p][j].type = outgoing'[p][k].type
                                              /\ outgoing'[p][j].sequence = i
    BY DEF VotesAscend
  <2>2. outgoing'[p][k] \in Sent(p)'
    <3>1. outgoing' \in [Replica -> Seq(Message)]
      BY TypeStep DEF Known, TypeInv, TypeOK
    <3> QED
      BY <3>1 DEF Sent
  <2>3. outgoing'[p][k] \in Sent(p)
    BY <1>3, <2>1, <2>2
  <2> QED
    BY <1>1, <2>1, <2>3, OldVotesAscend
<1> QED
  BY <1>8, <1>9, <1>10, <1>11, <1>12, <1>13, <1>14, <1>15, <1>16, <1>17, <1>18 DEF InOrder

LEMMA RefusedIsHeld ==
    ASSUME Known, NothingStable, OnlyViewZero, InFirstWindow, NEW r \in Replica,
           NEW q \in Replica, NEW m \in Sent(q), m.type \in VoteType,
           Refuses(r, q, m), view[r] = 0
    PROVE  m.sequence \in Seqs /\ Has(r, q, m.type, m.sequence)
<1>1. m \in Message
  BY SentType DEF Known
<1>2. m.sequence \in Numbers
  BY NumbersKnown
<1>3. m.sequence \in Seqs /\ m.sequence > 0 /\ m.sequence <= 2 * CheckpointInterval
  BY <1>2, NumbersKnown DEF Seqs, InFirstWindow
<1>4. m.view = 0 /\ InWindow(r, m.sequence)
  <2>1. stable_checkpoint[r] = 0 /\ CheckpointInterval \in Nat
    BY IntervalAssumption DEF NothingStable
  <2> QED
    BY <1>3, <2>1 DEF OnlyViewZero, InWindow, LowWatermark, HighWatermark
<1>5. m.type = "PrePrepare" => q = Primary(0)
  BY DEF Known, ViewInv, SingleOrderer
<1>6. Ordered(m.sequence, m.digest)
  BY <1>5 DEF Known, Sourced, VotesOrdered, VoteType, Ordered, HasSent
<1>7. m.digest # None
  BY <1>1, BoundsAssumption DEF Message, VoteType
<1> DEFINE old == GetOrCreateInstance(r, m.sequence)
<1>8. log[r][m.sequence] = None =>
         /\ old.digest = None
         /\ old.prepares[q] = None /\ old.commits[q] = None
  BY DEF GetOrCreateInstance, NewInstance
<1>9. log[r][m.sequence] # None => old = log[r][m.sequence]
  BY DEF GetOrCreateInstance
<1>10. old.digest \in {None, m.digest}
  <2>1. SUFFICES ASSUME log[r][m.sequence] # None, log[r][m.sequence].digest # None
                 PROVE  log[r][m.sequence].digest = m.digest
    BY <1>8, <1>9
  <2>2. Ordered(m.sequence, log[r][m.sequence].digest)
    BY <1>3, <2>1 DEF Known, Sourced, InstancesOrdered
  <2> QED
    BY <1>6, <2>2 DEF Ordered, HasSent, Known, OrderInv, OrdersUnique
<1>11. \/ m.type = "PrePrepare" /\ old.digest # None
       \/ m.type = "Prepare" /\ old.prepares[q] # None
       \/ m.type = "Commit" /\ old.commits[q] # None
  <2> HIDE DEF old
  <2>1. view[r] = 0
    OBVIOUS
  <2>2. \/ m.view # view[r]
        \/ ~InWindow(r, m.sequence)
        \/ m.type = "PrePrepare" /\ (q # Primary(view[r]) \/ old.digest # None)
        \/ m.type = "Prepare" /\ (old.digest \notin {None, m.digest} \/ old.prepares[q] # None)
        \/ m.type = "Commit" /\ (old.digest \notin {None, m.digest} \/ old.commits[q] # None)
    BY DEF Refuses, old
  <2> QED
    BY <1>4, <1>5, <1>10, <2>2
<1> HIDE DEF old
<1> QED
  BY <1>3, <1>8, <1>9, <1>11 DEF Has

LEMMA StableUndisturbed ==
    ASSUME Undisturbed, Known, [Next]_vars, NothingStable'
    PROVE  stable_checkpoint' = stable_checkpoint /\ NothingStable
<1>1. stable_checkpoint' = stable_checkpoint => NothingStable
  BY DEF NothingStable
<1>2. ASSUME NEW r \in Replica, NEW q \in Replica, NEW m \in Message, Reads(r, q, m)
      PROVE  stable_checkpoint' = stable_checkpoint
  <2>1. ProcessMessage(r, q, m)
    BY <1>2 DEF Reads
  <2>2. CASE m.type = "Checkpoint"
    <3>1. \/ UNCHANGED stable_checkpoint
          \/ /\ m.sequence > stable_checkpoint[r]
             /\ stable_checkpoint' = [stable_checkpoint EXCEPT ![r] = m.sequence]
      BY <2>1, <2>2 DEF ProcessMessage, HandleCheckpoint, BecomesStable
    <3>2. stable_checkpoint \in [Replica -> 0 .. MaxSeq] /\ m.sequence \in Seqs
      BY <2>2 DEF Known, TypeInv, TypeOK, Message
    <3>3. stable_checkpoint' = [stable_checkpoint EXCEPT ![r] = m.sequence] =>
             m.sequence = 0
      BY <3>2 DEF NothingStable
    <3> QED
      BY <3>1, <3>2, <3>3 DEF Seqs
  <2>3. CASE m.type \in {"ViewChange", "NewView"}
    BY <2>1, <2>3 DEF ProcessMessage, HandleViewChange, HandleNewView, Ignore
  <2>4. CASE IsVote(m)
    BY <2>1, <2>4, VoteExact DEF Ignore, Enters, Known
  <2> QED
    BY <2>1, <2>2, <2>3, <2>4 DEF ProcessMessage, IsVote
<1>3. ASSUME NEW r \in Replica, NEW d \in Request, OrdersNext(r, d)
      PROVE  stable_checkpoint' = stable_checkpoint
  BY <1>3, OrderExact DEF OrdersNext, Opens, Known
<1>4. Quiet => stable_checkpoint' = stable_checkpoint
  BY DEF Quiet
<1>5. \A r \in Replica : AsksForView(r) => stable_checkpoint' = stable_checkpoint
  BY DEF AsksForView
<1> QED
  BY <1>1, <1>2, <1>3, <1>4, <1>5, UndisturbedCases DEF Known

LEMMA HeardUnread ==
    ASSUME Known, \A p \in Replica : Grows(p), received' = received
    PROVE  \A a, p \in Replica, i \in Seqs, t \in VoteType :
              Heard(a, p, t, i)' <=> Heard(a, p, t, i)
<1>1. \A a, p \in Replica : Read(a, p)' = Read(a, p)
  BY ReadSame DEF Known
<1> QED
  BY <1>1 DEF Heard

LEMMA HeardRead ==
    ASSUME Known, \A p \in Replica : Grows(p),
           NEW r \in Replica, NEW q \in Replica, NEW m \in Message, Reads(r, q, m),
           (m.type \in VoteType /\ view[r] = 0) => Has(r, q, m.type, m.sequence)
    PROVE  \A a, p \in Replica, i \in Seqs, t \in VoteType :
              /\ Heard(a, p, t, i) => Heard(a, p, t, i)'
              /\ Heard(a, p, t, i)' /\ view[a] = 0 => Heard(a, p, t, i) \/ Has(a, p, t, i)
<1> SUFFICES ASSUME NEW a \in Replica, NEW p \in Replica, NEW i \in Seqs, NEW t \in VoteType
             PROVE  /\ Heard(a, p, t, i) => Heard(a, p, t, i)'
                    /\ Heard(a, p, t, i)' /\ view[a] = 0 =>
                          Heard(a, p, t, i) \/ Has(a, p, t, i)
  OBVIOUS
<1>1. /\ (a # r \/ p # q) => Read(a, p)' = Read(a, p)
      /\ Read(r, q)' = Read(r, q) \cup {m}
  BY ReadMore DEF Known
<1>2. CASE a # r \/ p # q
  BY <1>1, <1>2 DEF Heard
<1>3. CASE a = r /\ p = q
  BY <1>1, <1>3 DEF Heard
<1> QED
  BY <1>2, <1>3

LEMMA AppendRests ==
    ASSUME Known, NEW r \in Replica, NEW m \in Message,
           outgoing' = outgoing \/ outgoing' = [outgoing EXCEPT ![r] = Append(@, m)],
           m.type \in {"ViewChange", "NewView"}
    PROVE  \A p \in Replica : \A l \in Sent(p)' :
              l \in Sent(p) \/ l.type \in {"ViewChange", "NewView"}
<1>1. CASE outgoing' = outgoing
  BY <1>1 DEF Sent
<1>2. CASE outgoing' = [outgoing EXCEPT ![r] = Append(@, m)]
  <2>1. outgoing \in [Replica -> Seq(Message)]
    BY DEF Known, TypeInv, TypeOK
  <2>2. <<m>> \in Seq(Message) /\ Len(<<m>>) = 1 /\ <<m>>[1] = m
    OBVIOUS
  <2>3. Append(outgoing[r], m) = outgoing[r] \o <<m>>
    BY <2>1
  <2>4. outgoing' = [outgoing EXCEPT ![r] = @ \o <<m>>]
    BY <1>2, <2>3
  <2>5. /\ \A p \in Replica \ {r} : Sent(p)' = Sent(p)
        /\ \A l \in Sent(r)' : l \in Sent(r) \/ \E i \in 1 .. Len(<<m>>) : l = <<m>>[i]
    BY <2>1, <2>2, <2>4, SentAppend
  <2>6. \A i \in 1 .. Len(<<m>>) : <<m>>[i] = m
    BY <2>2
  <2>7. \A l \in Sent(r)' : l \in Sent(r) \/ l = m
    BY <2>5, <2>6
  <2> QED
    BY <2>5, <2>7
<1> QED
  BY <1>1, <1>2

LEMMA ReadsRest ==
    ASSUME Undisturbed, Known, [Next]_vars, NothingStable', InOrder, \A p \in Replica : Grows(p),
           NEW r \in Replica, NEW q \in Replica, NEW m \in Message, Reads(r, q, m),
           m.type \in {"Checkpoint", "ViewChange", "NewView"} \/ (Ignore /\ Refuses(r, q, m))
    PROVE  Rests
<1>1. /\ ProcessMessage(r, q, m) /\ NothingStable
      /\ stable_checkpoint' = stable_checkpoint
      /\ m \in Sent(q)
  <2>1. m \in Sent(q)
    BY NextMessage DEF Reads, Known, TypeInv
  <2> QED
    BY <2>1, StableUndisturbed DEF Reads
<1>2. \A a, p \in Replica, i \in Seqs, t \in VoteType :
         /\ Heard(a, p, t, i) => Heard(a, p, t, i)'
         /\ Heard(a, p, t, i)' /\ view[a] = 0 => Heard(a, p, t, i) \/ Has(a, p, t, i)
  <2>1. (m.type \in VoteType /\ view[r] = 0) => Has(r, q, m.type, m.sequence)
    <3>1. SUFFICES ASSUME m.type \in VoteType, view[r] = 0
                   PROVE  Has(r, q, m.type, m.sequence)
      OBVIOUS
    <3>2. Refuses(r, q, m)
      BY <3>1 DEF VoteType
    <3> QED
      BY <1>1, <3>1, <3>2, RefusedIsHeld DEF InOrder
  <2> QED
    BY <2>1, HeardRead
<1>3. ASSUME outgoing' = outgoing
      PROVE  \A p \in Replica : \A l \in Sent(p)' :
                l \in Sent(p) \/ l.type \in {"ViewChange", "NewView"}
  BY <1>3 DEF Sent
<1>4. view' = view => \A p \in Replica : view'[p] = 0 => view[p] = 0
  OBVIOUS
<1>5. CASE Ignore
  BY <1>2, <1>3, <1>4, <1>5 DEF Ignore, Rests
<1>6. CASE m.type = "Checkpoint"
  <2>1. m.sequence \in Seqs
    BY <1>6 DEF Message
  <2>2. log' = log
    <3>1. stable_checkpoint \in [Replica -> 0 .. MaxSeq]
      BY DEF Known, TypeInv, TypeOK
    <3>2. stable_checkpoint' # [stable_checkpoint EXCEPT ![r] = m.sequence]
      BY <1>1, <2>1, <3>1 DEF NothingStable, Seqs
    <3> QED
      BY <1>1, <1>6, <3>2 DEF ProcessMessage, HandleCheckpoint
  <2>3. UNCHANGED <<view, executed, outgoing, delivered>>
    BY <1>1, <1>6 DEF ProcessMessage, HandleCheckpoint
  <2> QED
    BY <1>2, <1>3, <1>4, <2>2, <2>3 DEF Rests
<1>7. CASE m.type = "ViewChange"
  <2>1. m.new_view \in Views
    BY <1>7 DEF Message
  <2>2. ViewMsg("NewView", m.new_view) \in Message
    BY <2>1 DEF ViewMsg, Message
  <2>3. /\ UNCHANGED <<view, log, executed, delivered>>
        /\ \/ outgoing' = outgoing
           \/ outgoing' = [outgoing EXCEPT ![r] = Append(@, ViewMsg("NewView", m.new_view))]
    BY <1>1, <1>7 DEF ProcessMessage, HandleViewChange, Ignore
  <2>4. ViewMsg("NewView", m.new_view).type \in {"ViewChange", "NewView"}
    BY DEF ViewMsg
  <2>5. \A p \in Replica : \A l \in Sent(p)' :
           l \in Sent(p) \/ l.type \in {"ViewChange", "NewView"}
    BY <2>2, <2>3, <2>4, AppendRests
  <2> QED
    BY <1>2, <1>4, <2>3, <2>5 DEF Rests
<1>8. CASE m.type = "NewView"
  <2>1. m.new_view \in Nat /\ view[r] \in Nat /\ view \in [Replica -> Views]
    <3>1. m.new_view \in Views
      BY <1>8 DEF Message
    <3>2. view \in [Replica -> Views]
      BY DEF Known, TypeInv, TypeOK
    <3> QED
      BY <3>1, <3>2 DEF Views
  <2>2. /\ UNCHANGED <<log, executed, outgoing, delivered>>
        /\ \/ view' = view
           \/ ~(m.new_view <= view[r]) /\ view' = [view EXCEPT ![r] = m.new_view]
    BY <1>1, <1>8
    DEF ProcessMessage, HandleNewView, AcceptsNewView, IsOldView, Ignore
  <2>3. \A p \in Replica : view'[p] = 0 => view[p] = 0
    BY <2>1, <2>2
  <2> QED
    BY <1>2, <1>3, <2>2, <2>3 DEF Rests
<1> QED
  BY <1>5, <1>6, <1>7, <1>8

\* A step until a checkpoint is stable: a vote is taken, a request is ordered,
\* or the order rests.
LEMMA InOrderStep ==
    ASSUME Undisturbed, Known, Known', [Next]_vars, NothingStable', InOrder
    PROVE  InOrder'
<1>1. \A p \in Replica : Grows(p)
  BY HistoryGrows DEF Known
<1>2. NothingStable
  BY StableUndisturbed
<1>3. InstancesPrompt /\ OnlyViewZero
  BY DEF InOrder
<1>4. ASSUME view' = view, UNCHANGED <<log, executed, delivered>>, received' = received,
             \A p \in Replica : \A l \in Sent(p)' :
                l \in Sent(p) \/ l.type \in {"ViewChange", "NewView"}
      PROVE  InOrder'
  <2>1. Rests
    BY <1>1, <1>4, HeardUnread DEF Rests
  <2> QED
    BY <1>1, <2>1, RestsInOrder
<1>5. CASE Quiet /\ received' = received
  <2>1. \A p \in Replica : Sent(p)' = Sent(p)
    BY <1>5 DEF Quiet, Sent
  <2> QED
    BY <1>4, <1>5, <2>1 DEF Quiet
<1>6. ASSUME NEW r \in Replica, AsksForView(r), received' = received
      PROVE  InOrder'
  <2>1. ViewMsg("ViewChange", view[r] + 1).type = "ViewChange"
    BY DEF ViewMsg
  <2>2. \A p \in Replica : \A l \in Sent(p)' :
           l \in Sent(p) \/ l.type \in {"ViewChange", "NewView"}
    BY <1>6, <2>1, AsksSent DEF Known
  <2> QED
    BY <1>4, <1>6, <2>2 DEF AsksForView
<1>7. ASSUME NEW r \in Replica, NEW q \in Replica, NEW m \in Message, Reads(r, q, m)
      PROVE  InOrder'
  <2>1. CASE m.type \in {"Checkpoint", "ViewChange", "NewView"} \/ (Ignore /\ Refuses(r, q, m))
    BY <1>1, <1>7, <2>1, ReadsRest, RestsInOrder
  <2>2. ASSUME IsVote(m), NEW inst \in Instance, NEW votes, NEW fin,
               Enters(r, q, m, inst, votes, fin)
        PROVE  InOrder'
    <3>1. m \in Sent(q) /\ q \in Replica \ {r}
      BY <1>7, NextMessage DEF Reads, Known, TypeInv
    <3>2. PICK old : Takes(r, q, m.type, m.sequence, m.digest, old, inst, fin)
      BY <1>3, <2>2, <3>1, EntersTakes DEF Known
    <3>3. Hearing(r, q, m.type, m.sequence)
      BY <1>7 DEF Hearing
    <3> QED
      BY <1>1, <1>2, <3>2, <3>3, TakesInOrder
  <2>3. \/ IsVote(m)
        \/ m.type \in {"Checkpoint", "ViewChange", "NewView"}
    BY <1>7 DEF Reads, ProcessMessage, IsVote
  <2>4. IsVote(m) => \/ Ignore /\ Refuses(r, q, m)
                     \/ \E inst \in Instance : \E votes, fin : Enters(r, q, m, inst, votes, fin)
    BY <1>7, VoteExact DEF Reads, Known
  <2> QED
    BY <2>1, <2>2, <2>3, <2>4
<1>8. ASSUME NEW r \in Replica, NEW d \in Request, OrdersNext(r, d), received' = received
      PROVE  InOrder'
  <2>1. CASE UNCHANGED <<view, stable_checkpoint, log, executed, outgoing, delivered>>
    <3>1. \A p \in Replica : Sent(p)' = Sent(p)
      BY <2>1 DEF Sent
    <3> QED
      BY <1>4, <1>8, <2>1, <3>1
  <2>2. ASSUME NEW s \in Seqs, NEW inst \in Instance, NEW votes, NEW fin,
               Opens(r, s, d, inst, votes, fin)
        PROVE  InOrder'
    <3>1. PICK old : Takes(r, r, "PrePrepare", s, d, old, inst, fin)
      BY <1>3, <1>8, <2>2, OpensTakes DEF OrdersNext, Known
    <3>2. Hearing(r, r, "PrePrepare", s)
      BY <1>8 DEF Hearing
    <3> QED
      BY <1>1, <1>2, <3>1, <3>2, TakesInOrder
  <2>3. \/ UNCHANGED <<view, stable_checkpoint, log, executed, outgoing, delivered>>
        \/ \E s \in Seqs, inst \in Instance : \E votes, fin :
              Opens(r, s, d, inst, votes, fin)
    BY <1>8, OrderExact DEF OrdersNext, Known
  <2> QED
    BY <2>1, <2>2, <2>3
<1> QED
  BY <1>5, <1>6, <1>7, <1>8, UndisturbedCases DEF Known

LEMMA InOrderInit == Init => InOrder
<1> SUFFICES ASSUME Init PROVE InOrder
  OBVIOUS
<1>1. /\ outgoing = [r \in Replica |-> << >>] /\ delivered = [r \in Replica |-> << >>]
      /\ log = [r \in Replica |-> [s \in Seqs |-> None]]
      /\ received = [r \in Replica |-> [q \in Replica |-> 0]]
  BY DEF Init
<1>2. /\ \A p \in Replica : Sent(p) = {} /\ Delivered(p) = {} /\ DOMAIN outgoing[p] = {}
      /\ \A p \in Replica : DOMAIN delivered[p] = {}
      /\ \A a, p \in Replica : Read(a, p) = {}
  BY <1>1 DEF Sent, Delivered, Read
<1>3. Orders = {} /\ Numbers = {}
  BY <1>2, PrimaryType DEF Orders, Numbers
<1>4. \A a \in Replica, i \in Seqs : log[a][i] = None
  BY <1>1
<1>5. VotesAscend /\ ExecutesInSequence /\ LogAscends /\ InFirstWindow
  BY <1>2, <1>3 DEF VotesAscend, ExecutesInSequence, LogAscends, InFirstWindow
<1>6. ReadIsHeld /\ HeldIsRead
  BY <1>2, <1>4 DEF ReadIsHeld, HeldIsRead, Heard, Has
<1>7. OwnHeld
  BY <1>2, <1>4 DEF OwnHeld, Cast, Has
<1>8. InstancesPrompt /\ OnlyViewZero
  BY <1>2, <1>4 DEF InstancesPrompt, OnlyViewZero
<1>9. DoneIsExecuted /\ AnnouncedAreFirst
  BY <1>2, <1>4 DEF DoneIsExecuted, AnnouncedAreFirst, Done
<1> QED
  BY <1>5, <1>6, <1>7, <1>8, <1>9 DEF InOrder

LEMMA SequenceStep ==
    ASSUME Undisturbed
    PROVE  Known /\ SequenceInv /\ [Next]_vars => SequenceInv'
<1> SUFFICES ASSUME Known, SequenceInv, [Next]_vars, NothingStable'
             PROVE  InOrder'
  BY DEF SequenceInv
<1>1. NothingStable
  BY StableUndisturbed
<1> QED
  BY <1>1, KnownStep, InOrderStep DEF SequenceInv

\* CheckpointMsg(s) was sent by exactly those who are done with s.
LEMMA AnnouncedAgree == InOrder => \A r, q \in Replica, s \in Seqs :
    (/\ log[r][s] # None /\ log[r][s].phase = "Committed"
     /\ log[q][s] # None /\ log[q][s].phase = "Committed") =>
        (CheckpointMsg(s) \in Sent(r) <=> CheckpointMsg(s) \in Sent(q))
  BY DEF InOrder, AnnouncedAreFirst, Done

-----------------------------------------------------------------------------
(* The theorems                                                              *)

\* Where no process restarts and no connection breaks, try_advance_to_prepared,
\* try_advance_to_committed and the vote handlers do the same in the same order
\* at all replicas until handle_checkpoint makes a checkpoint stable.
THEOREM SequenceKept == ASSUME Undisturbed PROVE Spec => []SequenceInv
<1>1. Init => SequenceInv
  BY InOrderInit DEF SequenceInv
<1>2. Known /\ [Next]_vars => Known'
  BY KnownStep
<1>3. Known /\ SequenceInv /\ [Next]_vars => SequenceInv'
  BY SequenceStep
<1> QED
  BY <1>1, <1>2, <1>3, KnownInit, PTL DEF Spec

\* try_advance_to_committed executes a request only after all that the primary
\* ordered before it, until a checkpoint is stable somewhere.
THEOREM InSequence == ASSUME Undisturbed PROVE Spec => []InSequenceAtFirst
<1>1. SequenceInv => InSequenceAtFirst
  BY DEF SequenceInv, InOrder, InSequenceAtFirst
<1> QED
  BY <1>1, SequenceKept, PTL

\* try_checkpoint is reached by all replicas at the same numbers: those that
\* have committed a number agree whether they announce it.
THEOREM CheckpointsAgreed == ASSUME Undisturbed PROVE Spec => []CheckpointsAgree
<1>1. SequenceInv => CheckpointsAgree
  BY AnnouncedAgree DEF SequenceInv, CheckpointsAgree
<1> QED
  BY <1>1, SequenceKept, PTL

=============================================================================
