-------------------------- MODULE PbftQuorumProofs --------------------------
(***************************************************************************)
(* Proofs about view changes and checkpoints in module Pbft: who is behind *)
(* a NewView and a stable checkpoint, which views are ever proposed, where *)
(* the log lies between the water marks, and when all ordering ends.       *)
(***************************************************************************)
EXTENDS PbftStepProofs

-----------------------------------------------------------------------------
(* Nothing is ordered after a view change *)

\* Once the first primary has followed a NewView, no replica ever pre-prepares
\* another request: handle_view_change does not tell the new primary of its own
\* NewView.
THEOREM OrderingEnds == Spec => NoOrderAfterViewChange
<1>1. Spec => []TypeInv
  BY TypeInit, TypeStep, PTL DEF Spec
<1>2. Spec => []ViewInv
  BY ViewInit, ViewStep, <1>1, PTL DEF Spec
<1>3. TypeInv /\ ViewInv /\ [Next]_vars =>
          [view[Primary(0)] > 0 =>
              \A r \in Replica : \A m \in Sent(r)' :
                  m.type = "PrePrepare" => m \in Sent(r)]_vars
  BY NewOrder, PrimaryType
<1> QED
  BY <1>1, <1>2, <1>3, PTL DEF Spec, NoOrderAfterViewChange

-----------------------------------------------------------------------------
(* Who is behind a NewView *)

\* The messages of a view change, old and new.
LEMMA AskedGrows ==
    ASSUME TypeInv, [Next]_vars
    PROVE  \A v : Asked(v) \subseteq Asked(v)'
  BY Monotone DEF Asked

\* A step that sends no message of a view change, records nobody and enters no
\* new view.
LEMMA ViewChangeFrame ==
    ASSUME TypeInv, [Next]_vars, ViewChangeInv,
           \A p \in Replica, v \in Views :
              /\ ViewMsg("ViewChange", v) \in Sent(p)' =>
                    ViewMsg("ViewChange", v) \in Sent(p)
              /\ ViewMsg("NewView", v) \in Sent(p)' =>
                    ViewMsg("NewView", v) \in Sent(p),
           \A p \in Replica, v \in Views : view_changes'[p][v] \subseteq view_changes[p][v],
           \A p \in Replica : view'[p] \in {0, view[p]}
    PROVE  ViewChangeInv'
<1>1. \A v : Asked(v) \subseteq Asked(v)' /\ Asked(v)' \in SUBSET Replica
  BY AskedGrows DEF Asked
<1>2. RecordedHaveAsked'
  BY <1>1 DEF ViewChangeInv, RecordedHaveAsked
<1>3. NewViewsBacked'
  <2>1. SUFFICES ASSUME NEW q \in Replica, NEW v \in Views,
                        ViewMsg("NewView", v) \in Sent(q)'
                 PROVE  Cardinality(Asked(v)') >= Quorum
    BY DEF NewViewsBacked
  <2>2. Cardinality(Asked(v)) >= Quorum
    BY <2>1 DEF ViewChangeInv, NewViewsBacked
  <2> QED
    BY <1>1, <2>2, QuorumGrows
<1>4. ViewsAnnounced'
  BY Monotone DEF ViewChangeInv, ViewsAnnounced
<1>5. NoViewSkipped'
  BY Monotone DEF ViewChangeInv, NoViewSkipped
<1> QED
  BY <1>2, <1>3, <1>4, <1>5 DEF ViewChangeInv

\* What is broadcast on the way to an execution is no part of a view change.
LEMMA ChainSendsNoViewMsg ==
    ASSUME NEW r \in Replica, NEW s \in Seqs, NEW inst, NEW votes, NEW fin,
           ChainResult(r, s, inst, votes, fin),
           \A m \in votes : m.type \in {"PrePrepare", "Prepare"},
           NEW p \in Replica, NEW t \in {"ViewChange", "NewView"}, NEW v,
           ViewMsg(t, v) \in Sent(p)'
    PROVE  ViewMsg(t, v) \in Sent(p)
<1>1. ViewMsg(t, v).type = t
  BY DEF ViewMsg
<1>2. Ballot("Commit", inst.view, s, inst.digest).type = "Commit"
      /\ CheckpointMsg(s).type = "Checkpoint"
  BY DEF Ballot, CheckpointMsg
<1>3. CASE p # r
  BY <1>3 DEF ChainResult
<1>4. CASE p = r
  <2>1. \/ ViewMsg(t, v) \in Sent(r) \cup votes
        \/ ViewMsg(t, v) = Ballot("Commit", inst.view, s, inst.digest)
        \/ ViewMsg(t, v) = CheckpointMsg(s)
    BY <1>4 DEF ChainResult
  <2> QED
    BY <1>1, <1>2, <1>4, <2>1
<1> QED
  BY <1>3, <1>4

\* Every step preserves ViewChangeInv.
LEMMA ViewChangeStep == TypeInv /\ ViewChangeInv /\ [Next]_vars => ViewChangeInv'
<1> SUFFICES ASSUME TypeInv, ViewChangeInv, [Next]_vars PROVE ViewChangeInv'
  OBVIOUS
<1>1. /\ view \in [Replica -> Views]
      /\ view_changes \in [Replica -> [Views -> SUBSET Replica]]
  BY DEF TypeInv, TypeOK
<1>2. \A v : Asked(v) \subseteq Asked(v)' /\ Asked(v)' \in SUBSET Replica
  BY AskedGrows DEF Asked
<1>3. ASSUME outgoing' = outgoing,
             \A p \in Replica, v \in Views :
                view_changes'[p][v] \subseteq view_changes[p][v],
             \A p \in Replica : view'[p] \in {0, view[p]}
      PROVE  ViewChangeInv'
  <2>1. \A p \in Replica : Sent(p)' = Sent(p)
    BY <1>3 DEF Sent
  <2> QED
    BY <1>3, <2>1, ViewChangeFrame
<1>4. ASSUME view' = view, view_changes' = view_changes,
             NEW r \in Replica, NEW s \in Seqs, NEW inst, NEW votes, NEW fin,
             ChainResult(r, s, inst, votes, fin),
             \A m \in votes : m.type \in {"PrePrepare", "Prepare"}
      PROVE  ViewChangeInv'
  <2>1. \A p \in Replica, v \in Views, t \in {"ViewChange", "NewView"} :
            ViewMsg(t, v) \in Sent(p)' => ViewMsg(t, v) \in Sent(p)
    BY <1>4, ChainSendsNoViewMsg
  <2> QED
    BY <1>4, <2>1, ViewChangeFrame
<1>5. CASE Quiet
  BY <1>3, <1>5 DEF Quiet
<1>6. ASSUME NEW r \in Replica, NEW q \in Replica, NEW m \in Message,
             Handles(r, q, m)
      PROVE  ViewChangeInv'
  <2>1. ProcessMessage(r, q, m) /\ m \in Sent(q)
    BY <1>6 DEF Handles
  <2>2. CASE Ignore
    BY <1>3, <2>2 DEF Ignore
  <2>3. CASE IsVote(m) /\ ~Ignore
    <3>1. /\ m.sequence \in Seqs /\ view' = view /\ view_changes' = view_changes
          /\ \E inst \in Instance, votes \in SUBSET Message, fin \in Instance :
                /\ VoteStored(r, q, m, inst, votes)
                /\ ChainResult(r, m.sequence, inst, votes, fin)
      BY <2>1, <2>3, VoteResult
    <3>2. PICK inst \in Instance, votes \in SUBSET Message, fin \in Instance :
              /\ VoteStored(r, q, m, inst, votes)
              /\ ChainResult(r, m.sequence, inst, votes, fin)
      BY <3>1
    <3>3. \A l \in votes : l.type \in {"PrePrepare", "Prepare"}
      BY <3>2 DEF VoteStored, Ballot
    <3> QED
      BY <1>4, <3>1, <3>2, <3>3
  <2>4. CASE m.type = "Checkpoint"
    BY <1>3, <2>1, <2>4 DEF ProcessMessage, HandleCheckpoint
  <2>5. CASE m.type = "ViewChange" /\ ~Ignore
    <3> DEFINE v    == m.new_view
               seen == view_changes[r][v] \cup {q}
    <3>1. /\ v \in Views
          /\ view_changes' = [view_changes EXCEPT ![r][v] = seen]
          /\ view' = view
          /\ \A p \in Replica \ {r} : Sent(p)' = Sent(p)
          /\ \/ Sent(r)' = Sent(r)
             \/ /\ Cardinality(seen) >= Quorum
                /\ Primary(v) = r
                /\ Sent(r)' = Sent(r) \cup {ViewMsg("NewView", v)}
      BY <2>1, <2>5, ViewChangeResult
    <3>2. m = ViewMsg("ViewChange", v)
      BY <2>5 DEF Message, ViewMsg
    <3>3. seen \subseteq Asked(v)
      BY <2>1, <3>1, <3>2 DEF ViewChangeInv, RecordedHaveAsked, Asked
    <3> HIDE DEF seen, v
    <3>4. RecordedHaveAsked'
      <4>1. \A p \in Replica, w \in Views :
                view_changes'[p][w] \subseteq view_changes[p][w]
                \/ (w = v /\ view_changes'[p][w] = seen)
        BY <1>1, <3>1
      <4> QED
        BY <1>2, <3>3, <4>1 DEF ViewChangeInv, RecordedHaveAsked
    <3>5. NewViewsBacked'
      <4>1. SUFFICES ASSUME NEW p \in Replica, NEW w \in Views,
                            ViewMsg("NewView", w) \in Sent(p)'
                     PROVE  Cardinality(Asked(w)') >= Quorum
        BY DEF NewViewsBacked
      <4>2. CASE ViewMsg("NewView", w) \in Sent(p)
        <5>1. Cardinality(Asked(w)) >= Quorum
          BY <4>2 DEF ViewChangeInv, NewViewsBacked
        <5> QED
          BY <1>2, <5>1, QuorumGrows
      <4>3. CASE ViewMsg("NewView", w) \notin Sent(p)
        <5>1. /\ ViewMsg("NewView", w) = ViewMsg("NewView", v)
              /\ Cardinality(seen) >= Quorum
          BY <3>1, <4>1, <4>3
        <5>2. w = v
          BY <5>1 DEF ViewMsg
        <5> QED
          BY <1>2, <3>3, <5>1, <5>2, QuorumGrows
      <4> QED
        BY <4>2, <4>3
    <3>6. ViewsAnnounced'
      BY <3>1, Monotone DEF ViewChangeInv, ViewsAnnounced
    <3>7. NoViewSkipped'
      <4>1. \A p \in Replica, w \in Views :
                ViewMsg("ViewChange", w) \in Sent(p)' =>
                    ViewMsg("ViewChange", w) \in Sent(p)
        BY <3>1 DEF ViewMsg
      <4> QED
        BY <4>1, Monotone DEF ViewChangeInv, NoViewSkipped
    <3> QED
      BY <3>4, <3>5, <3>6, <3>7 DEF ViewChangeInv
  <2>6. CASE m.type = "NewView" /\ ~Ignore
    <3> DEFINE v == m.new_view
    <3>1. /\ view' = [view EXCEPT ![r] = v]
          /\ view_changes' = [view_changes EXCEPT ![r] = [i \in Views |->
                                 IF i > v THEN view_changes[r][i] ELSE {}]]
          /\ outgoing' = outgoing
      BY <2>1, <2>6 DEF ProcessMessage, HandleNewView
    <3>2. m = ViewMsg("NewView", v)
      BY <2>6 DEF Message, ViewMsg
    <3>3. \A p \in Replica : Sent(p)' = Sent(p)
      BY <3>1 DEF Sent
    <3>4. \A w : Asked(w)' = Asked(w)
      BY <3>3 DEF Asked
    <3> HIDE DEF v
    <3>5. RecordedHaveAsked'
      <4>1. \A p \in Replica, w \in Views :
                view_changes'[p][w] \subseteq view_changes[p][w]
        BY <1>1, <3>1
      <4> QED
        BY <3>4, <4>1 DEF ViewChangeInv, RecordedHaveAsked
    <3>6. NewViewsBacked' /\ NoViewSkipped'
      BY <3>3, <3>4 DEF ViewChangeInv, NewViewsBacked, NoViewSkipped
    <3>7. ViewsAnnounced'
      <4>1. \A p \in Replica : view'[p] = view[p] \/ view'[p] = v
        BY <1>1, <3>1
      <4> QED
        BY <2>1, <3>2, <3>3, <4>1 DEF ViewChangeInv, ViewsAnnounced
    <3> QED
      BY <3>5, <3>6, <3>7 DEF ViewChangeInv
  <2> QED
    BY <2>1, <2>2, <2>3, <2>4, <2>5, <2>6 DEF ProcessMessage, IsVote
<1>7. ASSUME NEW r \in Replica, NEW d \in Request, OrdersNext(r, d)
      PROVE  ViewChangeInv'
  <2> DEFINE s     == sequence[r] + 1
             inst  == PrePrepared(r, GetOrCreateInstance(r, s), d)
             votes == {Ballot("PrePrepare", view[r], s, d),
                       Ballot("Prepare", view[r], s, d)}
  <2>1. /\ s \in Seqs /\ view' = view /\ view_changes' = view_changes
        /\ \/ outgoing' = outgoing
           \/ \E fin : ChainResult(r, s, inst, votes, fin)
    BY <1>7, OrderResult DEF OrdersNext
  <2>2. \A m \in votes : m.type \in {"PrePrepare", "Prepare"}
    BY DEF Ballot
  <2> HIDE DEF s, inst, votes
  <2> QED
    BY <1>3, <1>4, <2>1, <2>2
<1>8. ASSUME NEW r \in Replica, AsksForView(r)
      PROVE  ViewChangeInv'
  <2>1. PICK v \in Views : v = view[r] + 1
    BY <1>8 DEF AsksForView
  <2>2. /\ view' = view /\ view[r] \in Nat
        /\ view_changes' = [view_changes EXCEPT ![r][v] = @ \cup {r}]
        /\ \A p \in Replica \ {r} : Sent(p)' = Sent(p)
        /\ Sent(r)' = Sent(r) \cup {ViewMsg("ViewChange", v)}
    <3>1. view' = view
          /\ view_changes' = [view_changes EXCEPT ![r][v] = @ \cup {r}]
      BY <1>8, <2>1 DEF AsksForView
    <3>2. view[r] \in Nat
      BY <1>1, BoundsAssumption DEF Views
    <3> QED
      BY <1>8, <2>1, <3>1, <3>2, AsksSent
  <2>3. r \in Asked(v)'
    BY <2>2 DEF Asked
  <2>4. RecordedHaveAsked'
    <3>1. \A p \in Replica, w \in Views :
              \/ view_changes'[p][w] = view_changes[p][w]
              \/ w = v /\ view_changes'[p][w] = view_changes[p][w] \cup {r}
      BY <1>1, <2>1, <2>2
    <3> QED
      BY <1>2, <2>3, <3>1 DEF ViewChangeInv, RecordedHaveAsked
  <2>5. \A p \in Replica, w \in Views :
            ViewMsg("NewView", w) \in Sent(p)' => ViewMsg("NewView", w) \in Sent(p)
    BY <2>2 DEF ViewMsg
  <2>6. NewViewsBacked'
    <3>1. \A w \in Views : Cardinality(Asked(w)) >= Quorum =>
              Cardinality(Asked(w)') >= Quorum
      BY <1>2, QuorumGrows
    <3> QED
      BY <2>5, <3>1 DEF ViewChangeInv, NewViewsBacked
  <2>7. ViewsAnnounced'
    BY <2>2, Monotone DEF ViewChangeInv, ViewsAnnounced
  <2>8. NoViewSkipped'
    <3>1. SUFFICES ASSUME NEW p \in Replica, NEW w \in Views, w > 1,
                          ViewMsg("ViewChange", w) \in Sent(p)'
                   PROVE  \E q \in Replica : ViewMsg("NewView", w - 1) \in Sent(q)'
      BY DEF NoViewSkipped
    <3>2. CASE ViewMsg("ViewChange", w) \in Sent(p)
      BY <3>1, <3>2, Monotone DEF ViewChangeInv, NoViewSkipped
    <3>3. CASE ViewMsg("ViewChange", w) \notin Sent(p)
      <4>1. w = v
        BY <2>2, <3>1, <3>3 DEF ViewMsg
      <4>2. view[r] > 0 /\ view[r] = w - 1
        BY <2>1, <2>2, <3>1, <4>1
      <4> QED
        BY <4>2, Monotone DEF ViewChangeInv, ViewsAnnounced
    <3> QED
      BY <3>2, <3>3
  <2> QED
    BY <2>4, <2>6, <2>7, <2>8 DEF ViewChangeInv
<1>9. ASSUME NEW r \in Replica, Restart(r)
      PROVE  ViewChangeInv'
  <2>1. /\ outgoing' = outgoing
        /\ \A p \in Replica, v \in Views :
              view_changes'[p][v] \subseteq view_changes[p][v]
        /\ \A p \in Replica : view'[p] \in {0, view[p]}
    BY <1>1, <1>9 DEF Restart
  <2> QED
    BY <1>3, <2>1
<1> QED
  BY <1>5, <1>6, <1>7, <1>8, <1>9, NextCases

\* Nobody has asked for anything at the start.
LEMMA ViewChangeInit == Init => ViewChangeInv
<1> SUFFICES ASSUME Init PROVE ViewChangeInv
  OBVIOUS
<1>1. \A r \in Replica : Sent(r) = {} /\ view[r] = 0
  BY DEF Init, Sent
<1>2. \A r \in Replica, v \in Views : view_changes[r][v] = {}
  BY DEF Init
<1> QED
  BY <1>1, <1>2
  DEF ViewChangeInv, RecordedHaveAsked, NewViewsBacked, ViewsAnnounced, NoViewSkipped

LEMMA ViewChangesKept == Spec => [](TypeInv /\ ViewChangeInv)
<1>1. Spec => []TypeInv
  BY TypeInit, TypeStep, PTL DEF Spec
<1>2. Spec => []ViewChangeInv
  BY ViewChangeInit, ViewChangeStep, <1>1, PTL DEF Spec
<1> QED
  BY <1>1, <1>2, PTL

\* A replica leaves view 0 for view v only if 2f + 1 replicas have asked for v:
\* for any number of replicas, faults and timeouts, although view_changes counts
\* the messages of processes that have long been restarted.
THEOREM ViewChangesBacked == Spec => []NewViewBacked
<1>1. TypeInv /\ ViewChangeInv => NewViewBacked
  <2> SUFFICES ASSUME TypeInv, ViewChangeInv, NEW r \in Replica, view[r] > 0
               PROVE  Cardinality(Asked(view[r])) >= 2 * f + 1
    BY DEF NewViewBacked, Asked
  <2>1. view[r] \in Views
    BY DEF TypeInv, TypeOK
  <2> QED
    BY <2>1, QuorumType DEF ViewChangeInv, ViewsAnnounced, NewViewsBacked
<1> QED
  BY <1>1, ViewChangesKept, PTL

\* Nobody asks for the view after v before the NewView of v was sent: a new
\* primary that is down too is never passed over, however often timers fire and
\* processes restart.
THEOREM ViewsInTurn == Spec => []NoViewSkipped
<1>1. ViewChangeInv => NoViewSkipped
  BY DEF ViewChangeInv
<1> QED
  BY <1>1, ViewChangesKept, PTL

-----------------------------------------------------------------------------
(* What is behind a stable checkpoint *)

\* The replicas besides r that have executed something at number s.
Executors(r, s) ==
    {q \in Replica \ {r} : \E d \in Delivered(q) : d.sequence = s}

LEMMA ExecutorsGrow ==
    ASSUME TypeInv, [Next]_vars
    PROVE  \A r, s : Executors(r, s) \subseteq Executors(r, s)'
                     /\ Executors(r, s)' \in SUBSET Replica
  BY Monotone DEF Executors

\* StableBacked in terms of Executors.
LEMMA StableBackedBy ==
    StableBacked <=>
        \A r \in Replica : stable_checkpoint[r] > 0 =>
            Cardinality(Executors(r, stable_checkpoint[r])) >= Quorum
  BY QuorumType DEF StableBacked, Executors

\* What a message log entry of another kind is not.
LEMMA CheckpointMsgs ==
    /\ \A s : CheckpointMsg(s).type = "Checkpoint" /\ CheckpointMsg(s).sequence = s
    /\ \A t, v : ViewMsg(t, v).type = t
    /\ \A t, v, s, d : Ballot(t, v, s, d).type = t
  BY DEF CheckpointMsg, ViewMsg, Ballot

\* A step that announces, records and stabilises nothing.
LEMMA CheckpointFrame ==
    ASSUME TypeInv, [Next]_vars, CheckpointInv,
           \A p \in Replica, s \in Seqs :
              CheckpointMsg(s) \in Sent(p)' => CheckpointMsg(s) \in Sent(p),
           \A p \in Replica, s \in Seqs : checkpoints'[p][s] \subseteq checkpoints[p][s],
           \A p \in Replica : stable_checkpoint'[p] \in {0, stable_checkpoint[p]}
    PROVE  CheckpointInv'
<1>1. RecordedHaveAnnounced'
  <2>1. SUFFICES ASSUME NEW p \in Replica, NEW i \in Seqs, NEW q \in checkpoints'[p][i]
                 PROVE  q # p /\ CheckpointMsg(i) \in Sent(q)'
    BY DEF RecordedHaveAnnounced
  <2>2. q \in checkpoints[p][i] /\ q \in Replica
    BY <2>1 DEF TypeInv, TypeOK
  <2>3. q # p /\ CheckpointMsg(i) \in Sent(q)
    BY <2>2 DEF CheckpointInv, RecordedHaveAnnounced
  <2> QED
    BY <2>2, <2>3, Monotone
<1>2. AnnouncedAreExecuted'
  BY Monotone DEF CheckpointInv, AnnouncedAreExecuted
<1>3. StableAtInterval'
  <2>1. 0 % CheckpointInterval = 0
    BY IntervalAssumption
  <2> QED
    BY <2>1 DEF CheckpointInv, StableAtInterval
<1>4. StableBacked'
  <2>1. SUFFICES ASSUME NEW r \in Replica, stable_checkpoint'[r] > 0
                 PROVE  Cardinality(Executors(r, stable_checkpoint[r])') >= Quorum
                        /\ stable_checkpoint'[r] = stable_checkpoint[r]
    BY QuorumType DEF StableBacked, Executors
  <2>2. stable_checkpoint'[r] = stable_checkpoint[r]
    BY <2>1
  <2>3. Cardinality(Executors(r, stable_checkpoint[r])) >= Quorum
    BY <2>1, <2>2, StableBackedBy DEF CheckpointInv
  <2> QED
    BY <2>2, <2>3, ExecutorsGrow, QuorumGrows
<1> QED
  BY <1>1, <1>2, <1>3, <1>4 DEF CheckpointInv

\* The chain announces a checkpoint only for what it executes.
LEMMA ChainCheckpoint ==
    ASSUME TypeInv, [Next]_vars, CheckpointInv,
           UNCHANGED <<stable_checkpoint, checkpoints>>,
           NEW r \in Replica, NEW s \in Seqs, NEW inst, NEW votes, NEW fin,
           ChainResult(r, s, inst, votes, fin),
           \A m \in votes : m.type \in {"PrePrepare", "Prepare"}
    PROVE  CheckpointInv'
<1>1. RecordedHaveAnnounced'
  <2>1. SUFFICES ASSUME NEW p \in Replica, NEW i \in Seqs, NEW q \in checkpoints'[p][i]
                 PROVE  q # p /\ CheckpointMsg(i) \in Sent(q)'
    BY DEF RecordedHaveAnnounced
  <2>2. q \in checkpoints[p][i] /\ q \in Replica
    BY <2>1 DEF TypeInv, TypeOK
  <2>3. q # p /\ CheckpointMsg(i) \in Sent(q)
    BY <2>2 DEF CheckpointInv, RecordedHaveAnnounced
  <2> QED
    BY <2>2, <2>3, Monotone
<1>2. AnnouncedAreExecuted'
  <2>1. SUFFICES ASSUME NEW p \in Replica, NEW i \in Seqs,
                        CheckpointMsg(i) \in Sent(p)'
                 PROVE  /\ i % CheckpointInterval = 0
                        /\ \E d \in Delivered(p)' : d.sequence = i
    BY DEF AnnouncedAreExecuted
  <2>2. CASE CheckpointMsg(i) \in Sent(p)
    BY <2>2, Monotone DEF CheckpointInv, AnnouncedAreExecuted
  <2>3. CASE CheckpointMsg(i) \notin Sent(p)
    <3>1. p = r
      BY <2>1, <2>3 DEF ChainResult
    <3>2. /\ CheckpointMsg(i) = CheckpointMsg(s)
          /\ s % CheckpointInterval = 0
          /\ Executes(r, s, inst.digest)
      BY <2>1, <2>3, <3>1, CheckpointMsgs DEF ChainResult
    <3>3. i = s
      BY <3>2, CheckpointMsgs
    <3>4. PICK d \in Request : d = inst.digest
      BY <3>2 DEF Executes
    <3>5. [sequence |-> s, request |-> d] \in Delivered(r)'
      BY <3>2, <3>4, ExecutesDelivered
    <3> QED
      BY <3>1, <3>2, <3>3, <3>5
  <2> QED
    BY <2>2, <2>3
<1>3. StableAtInterval'
  BY DEF CheckpointInv, StableAtInterval
<1>4. StableBacked'
  <2>1. SUFFICES ASSUME NEW p \in Replica, stable_checkpoint[p] > 0
                 PROVE  Cardinality(Executors(p, stable_checkpoint[p])') >= Quorum
    BY QuorumType DEF StableBacked, Executors
  <2>2. Cardinality(Executors(p, stable_checkpoint[p])) >= Quorum
    BY <2>1, StableBackedBy DEF CheckpointInv
  <2> QED
    BY <2>2, ExecutorsGrow, QuorumGrows
<1> QED
  BY <1>1, <1>2, <1>3, <1>4 DEF CheckpointInv

\* handle_checkpoint counts another replica that has announced the number.
LEMMA HandleCheckpointInv ==
    ASSUME TypeInv, [Next]_vars, CheckpointInv,
           NEW r \in Replica, NEW q \in Replica \ {r}, NEW m \in Message,
           m \in Sent(q), m.type = "Checkpoint", HandleCheckpoint(r, q, m)
    PROVE  CheckpointInv'
<1> DEFINE s    == m.sequence
           seen == checkpoints[r][s] \cup {q}
<1>1. /\ s \in Seqs /\ m = CheckpointMsg(s)
      /\ Seqs \subseteq Nat \ {0}
  BY DEF Message, CheckpointMsg, Seqs
<1>2. /\ checkpoints \in [Replica -> [Seqs -> SUBSET Replica]]
      /\ stable_checkpoint \in [Replica -> 0 .. MaxSeq]
  BY DEF TypeInv, TypeOK
<1>3. outgoing' = outgoing /\ delivered' = delivered
  BY DEF HandleCheckpoint
<1>4. \A p \in Replica : Sent(p)' = Sent(p) /\ Delivered(p)' = Delivered(p)
  BY <1>3 DEF Sent, Delivered
<1>5. \A p \in seen : p \in Replica \ {r} /\ CheckpointMsg(s) \in Sent(p)
  <2>1. \A p \in checkpoints[r][s] : p \in Replica \ {r} /\ CheckpointMsg(s) \in Sent(p)
    <3>1. PICK i \in Seqs : i = s
      BY <1>1
    <3>2. \A p \in checkpoints[r][i] : p # r /\ CheckpointMsg(i) \in Sent(p)
      BY DEF CheckpointInv, RecordedHaveAnnounced
    <3>3. checkpoints[r][i] \subseteq Replica
      BY <1>2
    <3> QED
      BY <3>1, <3>2, <3>3
  <2> QED
    BY <1>1, <2>1
<1>6. s % CheckpointInterval = 0
  BY <1>1 DEF CheckpointInv, AnnouncedAreExecuted
<1>7. AnnouncedAreExecuted'
  BY <1>4 DEF CheckpointInv, AnnouncedAreExecuted
<1>8. /\ \/ /\ BecomesStable(r, s, seen)
            /\ stable_checkpoint' = [stable_checkpoint EXCEPT ![r] = s]
            /\ checkpoints' = [checkpoints EXCEPT ![r] = [i \in Seqs |->
                                  IF i = s THEN seen
                                  ELSE IF i > s THEN checkpoints[r][i] ELSE {}]]
         \/ /\ checkpoints' = [checkpoints EXCEPT ![r][s] = seen]
            /\ stable_checkpoint' = stable_checkpoint
  BY DEF HandleCheckpoint
<1> HIDE DEF seen, s
<1>9. RecordedHaveAnnounced'
  <2>1. \A p \in Replica, i \in Seqs :
            \/ checkpoints'[p][i] \subseteq checkpoints[p][i]
            \/ p = r /\ i = s /\ checkpoints'[p][i] = seen
    BY <1>1, <1>2, <1>8
  <2>2. SUFFICES ASSUME NEW p \in Replica, NEW i \in Seqs, NEW x \in checkpoints'[p][i]
                 PROVE  x # p /\ CheckpointMsg(i) \in Sent(x)'
    BY DEF RecordedHaveAnnounced
  <2>3. CASE x \in checkpoints[p][i]
    <3>1. x \in Replica /\ x # p /\ CheckpointMsg(i) \in Sent(x)
      BY <1>2, <2>3 DEF CheckpointInv, RecordedHaveAnnounced
    <3> QED
      BY <1>4, <3>1
  <2>4. CASE p = r /\ i = s /\ x \in seen
    BY <1>4, <1>5, <2>4
  <2> QED
    BY <2>1, <2>2, <2>3, <2>4
<1>10. \A p \in Replica : \/ stable_checkpoint'[p] = stable_checkpoint[p]
                          \/ p = r /\ stable_checkpoint'[p] = s /\ BecomesStable(r, s, seen)
  BY <1>2, <1>8
<1>11. StableAtInterval'
  BY <1>6, <1>10 DEF CheckpointInv, StableAtInterval
<1>12. BecomesStable(r, s, seen) => Cardinality(Executors(r, s)) >= Quorum
  <2>1. seen \subseteq Executors(r, s)
    BY <1>1, <1>5 DEF Executors, CheckpointInv, AnnouncedAreExecuted
  <2>2. Executors(r, s) \in SUBSET Replica
    BY DEF Executors
  <2> QED
    BY <2>1, <2>2, QuorumGrows DEF BecomesStable
<1>13. StableBacked'
  <2>1. \A p, i : Executors(p, i)' = Executors(p, i)
    BY <1>4 DEF Executors
  <2>2. SUFFICES ASSUME NEW p \in Replica, stable_checkpoint'[p] > 0
                 PROVE  Cardinality(Executors(p, stable_checkpoint'[p])) >= Quorum
    BY <1>4, QuorumType DEF StableBacked, Executors
  <2>3. CASE stable_checkpoint'[p] = stable_checkpoint[p]
    BY <2>2, <2>3, StableBackedBy DEF CheckpointInv
  <2>4. CASE p = r /\ stable_checkpoint'[p] = s /\ BecomesStable(r, s, seen)
    BY <1>12, <2>4
  <2> QED
    BY <1>10, <2>3, <2>4
<1> QED
  BY <1>7, <1>9, <1>11, <1>13 DEF CheckpointInv

\* Every step preserves CheckpointInv.
LEMMA CheckpointStep ==
    TypeInv /\ ViewInv /\ CheckpointInv /\ [Next]_vars => CheckpointInv'
<1> SUFFICES ASSUME TypeInv, ViewInv, CheckpointInv, [Next]_vars
             PROVE  CheckpointInv'
  OBVIOUS
<1>1. /\ checkpoints \in [Replica -> [Seqs -> SUBSET Replica]]
      /\ stable_checkpoint \in [Replica -> 0 .. MaxSeq]
  BY DEF TypeInv, TypeOK
<1>2. ASSUME \A p \in Replica, s \in Seqs :
                CheckpointMsg(s) \in Sent(p)' => CheckpointMsg(s) \in Sent(p),
             UNCHANGED <<stable_checkpoint, checkpoints>>
      PROVE  CheckpointInv'
  BY <1>2, CheckpointFrame
<1>3. outgoing' = outgoing => \A p \in Replica : Sent(p)' = Sent(p)
  BY DEF Sent
<1>4. CASE Quiet
  BY <1>2, <1>3, <1>4 DEF Quiet
<1>5. ASSUME NEW r \in Replica, NEW q \in Replica, NEW m \in Message,
             Handles(r, q, m)
      PROVE  CheckpointInv'
  <2>1. ProcessMessage(r, q, m) /\ m \in Sent(q) /\ q \in Replica \ {r}
    BY <1>5 DEF Handles, ViewInv, NeverOwnPeer
  <2>2. CASE Ignore
    BY <1>2, <1>3, <2>2 DEF Ignore
  <2>3. CASE IsVote(m) /\ ~Ignore
    <3>1. /\ m.sequence \in Seqs /\ UNCHANGED <<stable_checkpoint, checkpoints>>
          /\ \E inst \in Instance, votes \in SUBSET Message, fin \in Instance :
                /\ VoteStored(r, q, m, inst, votes)
                /\ ChainResult(r, m.sequence, inst, votes, fin)
      BY <2>1, <2>3, VoteResult
    <3>2. PICK inst \in Instance, votes \in SUBSET Message, fin \in Instance :
              /\ VoteStored(r, q, m, inst, votes)
              /\ ChainResult(r, m.sequence, inst, votes, fin)
      BY <3>1
    <3>3. \A l \in votes : l.type \in {"PrePrepare", "Prepare"}
      BY <3>2 DEF VoteStored, Ballot
    <3> QED
      BY <3>1, <3>2, <3>3, ChainCheckpoint
  <2>4. CASE m.type = "Checkpoint"
    BY <2>1, <2>4, HandleCheckpointInv DEF ProcessMessage
  <2>5. CASE m.type = "ViewChange" /\ ~Ignore
    <3>1. /\ UNCHANGED <<stable_checkpoint, checkpoints>>
          /\ \A p \in Replica : \A l \in Sent(p)' :
                l \in Sent(p) \/ l = ViewMsg("NewView", m.new_view)
      BY <2>1, <2>5, ViewChangeSends
    <3> QED
      BY <1>2, <3>1, CheckpointMsgs
  <2>6. CASE m.type = "NewView" /\ ~Ignore
    BY <1>2, <1>3, <2>1, <2>6 DEF ProcessMessage, HandleNewView
  <2> QED
    BY <2>1, <2>2, <2>3, <2>4, <2>5, <2>6 DEF ProcessMessage, IsVote
<1>6. ASSUME NEW r \in Replica, NEW d \in Request, OrdersNext(r, d)
      PROVE  CheckpointInv'
  <2> DEFINE s     == sequence[r] + 1
             inst  == PrePrepared(r, GetOrCreateInstance(r, s), d)
             votes == {Ballot("PrePrepare", view[r], s, d),
                       Ballot("Prepare", view[r], s, d)}
  <2>1. /\ s \in Seqs /\ UNCHANGED <<stable_checkpoint, checkpoints>>
        /\ \/ outgoing' = outgoing
           \/ \E fin : ChainResult(r, s, inst, votes, fin)
    BY <1>6, OrderResult DEF OrdersNext
  <2>2. \A m \in votes : m.type \in {"PrePrepare", "Prepare"}
    BY DEF Ballot
  <2> HIDE DEF s, inst, votes
  <2>3. CASE outgoing' = outgoing
    BY <1>2, <1>3, <2>1, <2>3
  <2>4. CASE \E fin : ChainResult(r, s, inst, votes, fin)
    BY <2>1, <2>2, <2>4, ChainCheckpoint
  <2> QED
    BY <2>1, <2>3, <2>4
<1>7. ASSUME NEW r \in Replica, AsksForView(r)
      PROVE  CheckpointInv'
  <2>1. \A p \in Replica : \A l \in Sent(p)' :
            l \in Sent(p) \/ l = ViewMsg("ViewChange", view[r] + 1)
    BY <1>7, AsksSent
  <2>2. UNCHANGED <<stable_checkpoint, checkpoints>>
    BY <1>7 DEF AsksForView
  <2> QED
    BY <1>2, <2>1, <2>2, CheckpointMsgs
<1>8. ASSUME NEW r \in Replica, Restart(r)
      PROVE  CheckpointInv'
  <2>1. /\ \A p \in Replica, s \in Seqs : checkpoints'[p][s] \subseteq checkpoints[p][s]
        /\ \A p \in Replica : stable_checkpoint'[p] \in {0, stable_checkpoint[p]}
        /\ outgoing' = outgoing
    BY <1>1, <1>8 DEF Restart
  <2> QED
    BY <1>3, <2>1, CheckpointFrame
<1> QED
  BY <1>4, <1>5, <1>6, <1>7, <1>8, NextCases

LEMMA CheckpointInit == Init => CheckpointInv
<1> SUFFICES ASSUME Init PROVE CheckpointInv
  OBVIOUS
<1>1. \A r \in Replica : Sent(r) = {} /\ stable_checkpoint[r] = 0
  BY DEF Init, Sent
<1>2. \A r \in Replica, s \in Seqs : checkpoints[r][s] = {}
  BY DEF Init
<1>3. 0 % CheckpointInterval = 0
  BY IntervalAssumption
<1> QED
  BY <1>1, <1>2, <1>3
  DEF CheckpointInv, RecordedHaveAnnounced, AnnouncedAreExecuted,
      StableAtInterval, StableBacked

\* A checkpoint is stable only where 2f + 1 other replicas have executed the
\* request at its number, whatever was lost, restarted or recorded twice.
THEOREM StableCheckpointsBacked == Spec => []StableBacked
<1>1. Spec => [](TypeInv /\ ViewInv)
  BY TypeInit, TypeStep, ViewInit, ViewStep, PTL DEF Spec
<1>2. Spec => []CheckpointInv
  BY CheckpointInit, CheckpointStep, <1>1, PTL DEF Spec
<1>3. CheckpointInv => StableBacked
  BY DEF CheckpointInv
<1> QED
  BY <1>2, <1>3, PTL

-----------------------------------------------------------------------------
(* When ordering ends *)

\* A stable checkpoint is at a number the first primary has ordered.
LEMMA StableOrdered ==
    ASSUME CheckpointInv, Sourced,
           NEW r \in Replica, stable_checkpoint[r] > 0
    PROVE  \E m \in Orders : m.sequence = stable_checkpoint[r]
<1>1. Cardinality(Executors(r, stable_checkpoint[r])) >= Quorum
  BY StableBackedBy DEF CheckpointInv
<1>2. Executors(r, stable_checkpoint[r]) # {}
  BY <1>1, QuorumNonEmpty
<1>3. PICK q \in Replica : \E d \in Delivered(q) : d.sequence = stable_checkpoint[r]
  BY <1>2 DEF Executors
<1> QED
  BY <1>3 DEF Sourced, DeliveredOrdered, Ordered, HasSent, Orders

\* Once the counter is past the high water mark of every checkpoint that can
\* become stable, a running primary orders nothing more.
LEMMA ExhaustedStep ==
    ASSUME TypeInv, ViewInv, CheckpointInv, Sourced, [Next]_vars,
           up[Primary(0)], Exhausted
    PROVE  Exhausted' /\ Orders' = Orders
<1> DEFINE P == Primary(0)
<1>1. P \in Replica
  BY PrimaryType
<1>2. /\ sequence \in [Replica -> 0 .. MaxSeq]
      /\ stable_checkpoint[P] \in Nat
      /\ sequence[P] \in Nat
  BY <1>1, BoundsAssumption DEF TypeInv, TypeOK
<1>3. sequence[P] >= HighWatermark(P)
  <2>1. CASE stable_checkpoint[P] = 0
    <3>1. 0 % CheckpointInterval = 0
      BY IntervalAssumption
    <3> QED
      BY <2>1, <3>1, IntervalAssumption DEF Exhausted, HighWatermark
  <2>2. CASE stable_checkpoint[P] > 0
    <3>1. \E m \in Orders : m.sequence = stable_checkpoint[P]
      BY <1>1, <2>2, StableOrdered
    <3>2. stable_checkpoint[P] % CheckpointInterval = 0
      BY <1>1 DEF CheckpointInv, StableAtInterval
    <3> QED
      BY <3>1, <3>2 DEF Exhausted, HighWatermark
  <2> QED
    BY <1>2, <2>1, <2>2
<1>4. HighWatermark(P) \in Nat
  BY <1>2, IntervalAssumption DEF HighWatermark
<1>5. Orders' = Orders
  <2>1. Sent(P) \subseteq Sent(P)'
    BY <1>1, Monotone
  <2>2. ASSUME NEW m \in Sent(P)', m.type = "PrePrepare", m \notin Sent(P)
        PROVE  FALSE
    <3>1. m.sequence = sequence[P] + 1 /\ m.sequence <= HighWatermark(P)
      BY <1>1, <2>2, NewOrder
    <3> QED
      BY <1>2, <1>3, <1>4, <3>1
  <2> QED
    BY <2>1, <2>2 DEF Orders
<1>6. sequence'[P] \in Nat /\ sequence'[P] >= sequence[P]
  <2>1. CASE sequence' = sequence
    BY <1>2, <2>1
  <2>2. ASSUME NEW r \in Replica, NEW d \in Request, OrdersNext(r, d)
        PROVE  sequence'[P] \in Nat /\ sequence'[P] >= sequence[P]
    <3>1. sequence' = [sequence EXCEPT ![r] = sequence[r] + 1]
      BY <2>2 DEF OrdersNext, OrderRequest, NextSequence
    <3> QED
      BY <1>1, <1>2, <3>1
  <2>3. ASSUME NEW r \in Replica, Restart(r)
        PROVE  sequence'[P] \in Nat /\ sequence'[P] >= sequence[P]
    <3>1. r # P /\ sequence' = [sequence EXCEPT ![r] = 0]
      BY <2>3 DEF Restart
    <3> QED
      BY <1>1, <1>2, <3>1
  <2> QED
    BY <2>1, <2>2, <2>3, NextCases DEF Quiet, Handles, AsksForView
<1>7. Exhausted'
  <2>1. \A s \in {0} \cup {m.sequence : m \in Orders} : s \in Nat
    BY <1>1, SentType, BoundsAssumption DEF Orders, Message, Seqs
  <2>2. SUFFICES ASSUME NEW s \in {0} \cup {m.sequence : m \in Orders},
                        s % CheckpointInterval = 0
                 PROVE  sequence'[P] >= s + 2 * CheckpointInterval
    BY <1>5 DEF Exhausted
  <2>3. sequence[P] >= s + 2 * CheckpointInterval
    BY <2>2 DEF Exhausted
  <2>4. s + 2 * CheckpointInterval \in Nat
    BY <2>1, IntervalAssumption
  <2> QED
    BY <1>2, <1>6, <2>3, <2>4
<1> QED
  BY <1>5, <1>7

\* The numbers of refused requests can take the counter of the first primary
\* so far that no checkpoint brings the water mark back to it: from then on it
\* orders nothing until it is restarted, whatever the interval, the load and
\* the checkpoints still on their way.
THEOREM ExhaustionIsFinal == Spec => ExhaustedForGood
<1>1. Spec => [](TypeInv /\ ViewInv)
  BY TypeInit, TypeStep, ViewInit, ViewStep, PTL DEF Spec
<1>2. Spec => [](CheckpointInv /\ Sourced)
  BY CheckpointInit, CheckpointStep, SourcedInit, SourcedStep, <1>1, PTL DEF Spec
<1>3. TypeInv /\ ViewInv /\ CheckpointInv /\ Sourced /\ [Next]_vars =>
          [(up[Primary(0)] /\ Exhausted) => Exhausted' /\ Orders' = Orders]_vars
  BY ExhaustedStep
<1> QED
  BY <1>1, <1>2, <1>3, PTL DEF Spec, ExhaustedForGood

-----------------------------------------------------------------------------
(* Where the log lies *)

\* The number the first primary assigns next is above its low water mark.
LEMMA PrimaryNotBehind ==
    ASSUME TypeInv, OrderInv, CheckpointInv
    PROVE  stable_checkpoint[Primary(0)] <= sequence[Primary(0)]
<1> DEFINE P == Primary(0)
<1>1. P \in Replica
  BY PrimaryType
<1>2. stable_checkpoint[P] \in Nat /\ sequence[P] \in Nat
  BY <1>1, BoundsAssumption DEF TypeInv, TypeOK
<1>3. CASE stable_checkpoint[P] > 0
  <2>1. Cardinality(Executors(P, stable_checkpoint[P])) >= Quorum
    BY <1>1, <1>3, StableBackedBy DEF CheckpointInv
  <2>2. Executors(P, stable_checkpoint[P]) # {}
    BY <2>1, QuorumNonEmpty
  <2>3. PICK q \in Replica : \E d \in Delivered(q) : d.sequence = stable_checkpoint[P]
    BY <2>2 DEF Executors
  <2> QED
    BY <2>3 DEF OrderInv, DeliveredOrdered, OrdersBounded, Ordered, HasSent
<1> QED
  BY <1>2, <1>3

\* Marks that do not move, over a log that is not extended.
LEMMA WindowFrame ==
    ASSUME TypeInv, LogWindow, stable_checkpoint' = stable_checkpoint,
           \A p \in Replica, i \in Seqs : log'[p][i] \in {None, log[p][i]}
    PROVE  LogWindow'
  BY DEF LogWindow, InWindow, LowWatermark, HighWatermark

\* The chain writes one entry, inside the window.
LEMMA ChainWindow ==
    ASSUME TypeInv, LogWindow, stable_checkpoint' = stable_checkpoint,
           NEW r \in Replica, NEW s \in Seqs, NEW inst, NEW votes, NEW fin,
           ChainResult(r, s, inst, votes, fin), InWindow(r, s)
    PROVE  LogWindow'
<1>1. \A p \in Replica, i \in Seqs : log'[p][i] = log[p][i] \/ (p = r /\ i = s)
  BY DEF ChainResult, TypeInv, TypeOK
<1> QED
  BY <1>1 DEF LogWindow, InWindow, LowWatermark, HighWatermark

\* handle_checkpoint raises the low mark and drops what is not above it.
LEMMA CheckpointWindow ==
    ASSUME TypeInv, LogWindow, NEW r \in Replica, NEW q \in Replica,
           NEW m \in Message, m.type = "Checkpoint", HandleCheckpoint(r, q, m)
    PROVE  LogWindow'
<1>1. PICK s \in Seqs : s = m.sequence
  BY DEF Message
<1>2. /\ log \in [Replica -> [Seqs -> Instance \cup {None}]]
      /\ stable_checkpoint \in [Replica -> 0 .. MaxSeq]
      /\ 0 .. MaxSeq \subseteq Nat /\ Seqs \subseteq Nat
      /\ CheckpointInterval \in Nat
  <2>1. /\ log \in [Replica -> [Seqs -> Instance \cup {None}]]
        /\ stable_checkpoint \in [Replica -> 0 .. MaxSeq]
    BY DEF TypeInv, TypeOK
  <2>2. 0 .. MaxSeq \subseteq Nat /\ Seqs \subseteq Nat
    BY BoundsAssumption DEF Seqs
  <2> QED
    BY <2>1, <2>2, IntervalAssumption
<1>3. CASE UNCHANGED <<stable_checkpoint, log>>
  BY <1>3, WindowFrame
<1>4. CASE /\ s > stable_checkpoint[r]
           /\ stable_checkpoint' = [stable_checkpoint EXCEPT ![r] = s]
           /\ log' = [log EXCEPT ![r] = Retain(r, s)]
  <2>1. SUFFICES ASSUME NEW p \in Replica, NEW i \in Seqs, log'[p][i] # None
                 PROVE  /\ stable_checkpoint'[p] < i
                        /\ i <= stable_checkpoint'[p] + 2 * CheckpointInterval
    BY DEF LogWindow, InWindow, LowWatermark, HighWatermark
  <2>2. CASE p # r
    <3>1. stable_checkpoint'[p] = stable_checkpoint[p] /\ log'[p][i] = log[p][i]
      BY <1>2, <1>4, <2>2
    <3> QED
      BY <2>1, <3>1 DEF LogWindow, InWindow, LowWatermark, HighWatermark
  <2>3. CASE p = r
    <3>1. /\ stable_checkpoint'[p] = s
          /\ log'[p][i] = IF i > s THEN log[r][i] ELSE None
      BY <1>2, <1>4, <2>3 DEF Retain
    <3>2. i > s /\ log[r][i] # None
      BY <2>1, <3>1
    <3>3. i <= stable_checkpoint[r] + 2 * CheckpointInterval
      BY <3>2 DEF LogWindow, InWindow, HighWatermark
    <3>4. stable_checkpoint[r] \in Nat /\ s \in Nat /\ i \in Nat
      BY <1>2
    <3> QED
      BY <1>2, <1>4, <3>1, <3>2, <3>3, <3>4
  <2> QED
    BY <2>2, <2>3
<1> QED
  BY <1>1, <1>3, <1>4 DEF HandleCheckpoint, BecomesStable

\* Every step preserves LogWindow.
LEMMA WindowStep ==
    TypeInv /\ ViewInv /\ OrderInv /\ CheckpointInv /\ LogWindow /\ [Next]_vars
        => LogWindow'
<1> SUFFICES ASSUME TypeInv, ViewInv, OrderInv, CheckpointInv, LogWindow, [Next]_vars
             PROVE  LogWindow'
  OBVIOUS
<1>1. log' = log /\ stable_checkpoint' = stable_checkpoint => LogWindow'
  BY DEF LogWindow, InWindow, LowWatermark, HighWatermark
<1>2. CASE Quiet
  BY <1>1, <1>2 DEF Quiet
<1>3. ASSUME NEW r \in Replica, NEW q \in Replica, NEW m \in Message,
             Handles(r, q, m)
      PROVE  LogWindow'
  <2>1. ProcessMessage(r, q, m)
    BY <1>3 DEF Handles
  <2>2. CASE Ignore
    BY <1>1, <2>2 DEF Ignore
  <2>3. CASE IsVote(m) /\ ~Ignore
    <3>1. /\ m.sequence \in Seqs /\ stable_checkpoint' = stable_checkpoint
          /\ InWindow(r, m.sequence)
          /\ \E inst, votes, fin : ChainResult(r, m.sequence, inst, votes, fin)
      BY <2>1, <2>3, VoteResult
    <3> QED
      BY <3>1, ChainWindow
  <2>4. CASE m.type = "Checkpoint"
    BY <2>1, <2>4, CheckpointWindow DEF ProcessMessage
  <2>5. CASE m.type = "ViewChange" /\ ~Ignore
    BY <1>1, <2>1, <2>5, ViewChangeResult
  <2>6. CASE m.type = "NewView" /\ ~Ignore
    BY <1>1, <2>1, <2>6 DEF ProcessMessage, HandleNewView
  <2> QED
    BY <2>1, <2>2, <2>3, <2>4, <2>5, <2>6 DEF ProcessMessage, IsVote
<1>4. ASSUME NEW r \in Replica, NEW d \in Request, OrdersNext(r, d)
      PROVE  LogWindow'
  <2>1. r = Primary(0)
    BY <1>4 DEF OrdersNext, IsPrimary, ViewInv, NeverNewPrimary
  <2>2. PICK s \in Seqs : s = sequence[r] + 1
    BY <1>4, OrderResult DEF OrdersNext
  <2>3. /\ stable_checkpoint' = stable_checkpoint
        /\ \/ log' = log
           \/ /\ s <= HighWatermark(r)
              /\ \E inst, votes, fin : ChainResult(r, s, inst, votes, fin)
    BY <1>4, <2>2, OrderResult DEF OrdersNext
  <2>4. s > LowWatermark(r)
    <3>1. stable_checkpoint[r] \in Nat /\ sequence[r] \in Nat
      BY BoundsAssumption DEF TypeInv, TypeOK
    <3>2. stable_checkpoint[r] <= sequence[r]
      BY <2>1, PrimaryNotBehind
    <3> QED
      BY <2>2, <3>1, <3>2 DEF LowWatermark
  <2>5. s <= HighWatermark(r) => InWindow(r, s)
    <3>1. LowWatermark(r) \in Nat /\ s \in Nat
      BY BoundsAssumption DEF TypeInv, TypeOK, LowWatermark, Seqs
    <3> QED
      BY <2>4, <3>1 DEF InWindow
  <2> QED
    BY <1>1, <2>3, <2>5, ChainWindow
<1>5. ASSUME NEW r \in Replica, AsksForView(r)
      PROVE  LogWindow'
  BY <1>1, <1>5 DEF AsksForView
<1>6. ASSUME NEW r \in Replica, Restart(r)
      PROVE  LogWindow'
  <2>1. SUFFICES ASSUME NEW p \in Replica, NEW i \in Seqs, log'[p][i] # None
                 PROVE  /\ log'[p][i] = log[p][i]
                        /\ stable_checkpoint'[p] = stable_checkpoint[p]
    BY DEF LogWindow, InWindow, LowWatermark, HighWatermark
  <2>2. p # r
    BY <1>6, <2>1 DEF Restart, TypeInv, TypeOK
  <2> QED
    BY <1>6, <2>2 DEF Restart, TypeInv, TypeOK
<1> QED
  BY <1>2, <1>3, <1>4, <1>5, <1>6, NextCases

\* As long as the first primary keeps its memory, no log ever holds an entry at
\* or below the low water mark or above the high one.  The primary tests the
\* high mark alone: it is the quorum behind a stable checkpoint that keeps its
\* counter above the low one.
THEOREM LogStaysInWindow ==
    ASSUME Primary(0) \notin Restartable
    PROVE  Spec => []LogWindow
<1>1. Spec => [](TypeInv /\ ViewInv)
  BY TypeInit, TypeStep, ViewInit, ViewStep, PTL DEF Spec
<1>2. Spec => []CheckpointInv
  BY CheckpointInit, CheckpointStep, <1>1, PTL DEF Spec
<1>3. Spec => []OrderInv
  BY OrderKept
<1>4. Init => LogWindow
  BY DEF Init, LogWindow
<1> QED
  BY <1>1, <1>2, <1>3, <1>4, WindowStep, PTL DEF Spec

=============================================================================
