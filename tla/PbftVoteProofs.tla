--------------------------- MODULE PbftVoteProofs ---------------------------
(***************************************************************************)
(* Proofs about votes and executions in module Pbft: an instance never     *)
(* goes back, a vote is cast once, what is executed or committed to has a  *)
(* certificate, and the replicas implement the one ledger of module Ledger *)
(* while the first primary keeps its memory.                               *)
(***************************************************************************)
EXTENDS PbftStepProofs

-----------------------------------------------------------------------------
(* Instances never go back *)

\* OwnVotes and InstancesAdvance for one instance.
OwnVotesIn(r, inst) ==
    /\ inst.prepares[r] # None => inst.digest # None
    /\ inst.commits[r] # None => inst.phase \in {"Prepared", "Committed"}

Advances(old, new) ==
    /\ PhaseRank(old) <= PhaseRank(new)
    /\ old.digest \in {None, new.digest}
    /\ \A q \in Replica : /\ old.prepares[q] \in {None, new.prepares[q]}
                          /\ old.commits[q] \in {None, new.commits[q]}

LEMMA RankOf ==
    ASSUME NEW inst \in Instance
    PROVE  /\ PhaseRank(inst) \in 0 .. 3
           /\ inst.phase = "Idle" <=> PhaseRank(inst) = 0
           /\ inst.phase = "PrePrepared" <=> PhaseRank(inst) = 1
           /\ inst.phase \in {"Prepared", "Committed"} <=> PhaseRank(inst) >= 2
           /\ inst.phase = "Committed" <=> PhaseRank(inst) = 3
<1>1. inst.phase \in {"Idle", "PrePrepared", "Prepared", "Committed"}
  BY DEF Instance, Phase
<1> QED
  BY <1>1 DEF PhaseRank

LEMMA AdvancesOn ==
    ASSUME NEW a \in Instance, NEW b \in Instance, NEW c \in Instance,
           Advances(a, b), Advances(b, c)
    PROVE  Advances(a, c)
  BY RankOf DEF Advances

\* What a message makes of its instance.
LEMMA VoteAdvances ==
    ASSUME NEW r \in Replica, NEW q \in Replica \ {r}, NEW m \in Message,
           NEW inst \in Instance, NEW votes, VoteStored(r, q, m, inst, votes),
           NEW old \in Instance, old = GetOrCreateInstance(r, m.sequence),
           PhaseOK(old), OwnVotesIn(r, old), IsVote(m)
    PROVE  Advances(old, inst) /\ OwnVotesIn(r, inst)
<1>1. m.digest \in Request /\ None \notin Request
  BY BoundsAssumption DEF Message, IsVote
<1>2. CASE m.type = "PrePrepare"
  <2>1. old.digest = None /\ inst = PrePrepared(r, old, m.digest)
    BY <1>2 DEF VoteStored
  <2>2. /\ inst.digest = m.digest /\ inst.phase = "PrePrepared"
        /\ inst.commits = old.commits
        /\ inst.prepares = [old.prepares EXCEPT ![r] = m.digest]
    BY <2>1 DEF PrePrepared, Instance
  <2>3. old.phase = "Idle" /\ old.prepares[r] = None /\ old.commits[r] = None
    BY <2>1 DEF PhaseOK, OwnVotesIn
  <2>4. PhaseRank(old) <= PhaseRank(inst)
    BY <2>2, <2>3, RankOf
  <2> QED
    BY <1>1, <2>1, <2>2, <2>3, <2>4 DEF Advances, OwnVotesIn, Instance
<1>3. CASE m.type = "Prepare"
  <2>1. /\ old.digest \in {None, m.digest} /\ old.prepares[q] = None
        /\ inst = [old EXCEPT !.prepares[q] = m.digest]
    BY <1>3 DEF VoteStored
  <2>2. /\ inst.digest = old.digest /\ inst.phase = old.phase
        /\ inst.commits = old.commits
        /\ inst.prepares = [old.prepares EXCEPT ![q] = m.digest]
    BY <2>1 DEF Instance
  <2>3. PhaseRank(old) <= PhaseRank(inst)
    BY <2>2, RankOf
  <2> QED
    BY <2>1, <2>2, <2>3 DEF Advances, OwnVotesIn, Instance
<1>4. CASE m.type = "Commit"
  <2>1. /\ old.digest \in {None, m.digest} /\ old.commits[q] = None
        /\ inst = [old EXCEPT !.commits[q] = m.digest]
    BY <1>4 DEF VoteStored
  <2>2. /\ inst.digest = old.digest /\ inst.phase = old.phase
        /\ inst.prepares = old.prepares
        /\ inst.commits = [old.commits EXCEPT ![q] = m.digest]
    BY <2>1 DEF Instance
  <2>3. PhaseRank(old) <= PhaseRank(inst)
    BY <2>2, RankOf
  <2> QED
    BY <2>1, <2>2, <2>3 DEF Advances, OwnVotesIn, Instance
<1> QED
  BY <1>2, <1>3, <1>4 DEF IsVote

\* What a request makes of a free instance.
LEMMA OrderAdvances ==
    ASSUME NEW r \in Replica, NEW d \in Request, NEW old \in Instance,
           PhaseOK(old), OwnVotesIn(r, old), old.digest = None,
           NEW inst, inst = PrePrepared(r, old, d)
    PROVE  inst \in Instance /\ Advances(old, inst) /\ OwnVotesIn(r, inst)
<1>1. None \notin Request
  BY BoundsAssumption
<1>2. /\ inst \in Instance
      /\ inst.digest = d /\ inst.phase = "PrePrepared"
      /\ inst.commits = old.commits
      /\ inst.prepares = [old.prepares EXCEPT ![r] = d]
  BY DEF PrePrepared, Instance, Phase
<1>3. old.phase = "Idle" /\ old.prepares[r] = None /\ old.commits[r] = None
  BY DEF PhaseOK, OwnVotesIn
<1>4. PhaseRank(old) <= PhaseRank(inst)
  BY <1>2, <1>3, RankOf
<1> QED
  BY <1>1, <1>2, <1>3, <1>4 DEF Advances, OwnVotesIn, Instance

\* What the chain makes of it.
LEMMA ChainAdvances ==
    ASSUME NEW r \in Replica, NEW s \in Seqs, NEW inst \in Instance, NEW votes,
           NEW fin, ChainResult(r, s, inst, votes, fin), OwnVotesIn(r, inst)
    PROVE  fin \in Instance /\ Advances(inst, fin) /\ OwnVotesIn(r, fin)
<1>1. /\ fin \in Instance /\ fin.digest = inst.digest
      /\ fin.prepares = inst.prepares
  BY DEF ChainResult
<1>2. CASE fin.commits = inst.commits /\ fin.phase = inst.phase
  <2>1. PhaseRank(inst) <= PhaseRank(fin)
    BY <1>1, <1>2, RankOf
  <2> QED
    BY <1>1, <1>2, <2>1 DEF Advances, OwnVotesIn
<1>3. CASE /\ fin.commits = inst.commits
           /\ inst.phase = "Prepared" /\ fin.phase = "Committed"
  <2>1. PhaseRank(inst) <= PhaseRank(fin)
    BY <1>1, <1>3, RankOf
  <2> QED
    BY <1>1, <1>3, <2>1 DEF Advances, OwnVotesIn
<1>4. CASE /\ CastsCommit(inst)
           /\ fin.commits = [inst.commits EXCEPT ![r] = inst.digest]
           /\ fin.phase \in {"Prepared", "Committed"}
  <2>1. PhaseRank(inst) <= PhaseRank(fin)
    BY <1>1, <1>4, RankOf DEF CastsCommit
  <2>2. inst.commits[r] = None
    BY <1>4 DEF CastsCommit, OwnVotesIn
  <2> QED
    BY <1>1, <1>4, <2>1, <2>2 DEF Advances, OwnVotesIn, Instance, CastsCommit
<1> QED
  BY <1>2, <1>3, <1>4 DEF ChainResult

-----------------------------------------------------------------------------
(* Every step, as far as votes and executions go *)

\* A step in which nobody votes, pre-prepares or executes: a process starts
\* again with nothing, or keeps what its stable checkpoint does not cover.
StartsAgain(p) ==
    /\ p \in Restartable
    /\ ~up[p]
    /\ executed'[p] = {}
    /\ sequence'[p] = 0
    /\ \A s \in Seqs : log'[p][s] = None

Keeps(p) ==
    /\ executed'[p] = executed[p]
    /\ sequence'[p] >= sequence[p]
    /\ stable_checkpoint'[p] >= stable_checkpoint[p]
    /\ \A s \in Seqs : \/ log'[p][s] = log[p][s]
                       \/ log'[p][s] = None /\ s <= stable_checkpoint'[p]

CastsNothing ==
    /\ delivered' = delivered
    /\ \/ executed' = executed
       \/ \E p \in Replica : executed' = [executed EXCEPT ![p] = {}]
    /\ \A p \in Replica : StartsAgain(p) \/ Keeps(p)
    /\ \A p \in Replica : \A m \in Sent(p)' : m \in Sent(p) \/ ~IsVote(m)

\* A step in which r takes an instance through the chain: for a message of
\* another replica, or for a request it orders.
Hears(r, s, old, inst, votes) ==
    /\ InWindow(r, s)
    /\ sequence' = sequence
    /\ \E q \in Replica \ {r}, m \in Message :
          /\ m \in Sent(q) /\ m.sequence = s
          /\ IsVote(m) /\ VoteStored(r, q, m, inst, votes)
          /\ m.type = "PrePrepare" => r # Primary(0) /\ old.digest = None

Proposes(r, s, old, inst, votes) ==
    /\ r = Primary(0)
    /\ s = sequence[r] + 1
    /\ sequence' = [sequence EXCEPT ![r] = s]
    /\ old.digest = None
    /\ \E d \in Request :
          /\ inst = PrePrepared(r, old, d)
          /\ votes = {Ballot("PrePrepare", view[r], s, d),
                      Ballot("Prepare", view[r], s, d)}

LogStep(r, s, old, inst, votes, fin) ==
    /\ old = GetOrCreateInstance(r, s)
    /\ PhaseOK(old) /\ OwnVotesIn(r, old)
    /\ Hears(r, s, old, inst, votes) \/ Proposes(r, s, old, inst, votes)
    /\ stable_checkpoint' = stable_checkpoint
    /\ PhaseOK(inst)
    /\ ChainResult(r, s, inst, votes, fin)
    /\ Advances(old, inst) /\ Advances(inst, fin)
    /\ OwnVotesIn(r, fin)

\* OwnVotes for the instance a handler works on.
LEMMA GetOrCreateOwnVotes ==
    ASSUME TypeInv, OwnVotes, NEW r \in Replica, NEW s \in Seqs
    PROVE  OwnVotesIn(r, GetOrCreateInstance(r, s))
<1>1. CASE log[r][s] = None
  BY <1>1 DEF GetOrCreateInstance, NewInstance, OwnVotesIn
<1>2. CASE log[r][s] # None
  BY <1>2 DEF GetOrCreateInstance, OwnVotes, OwnVotesIn
<1> QED
  BY <1>1, <1>2

LEMMA HearsOrIgnores ==
    ASSUME TypeInv, ViewInv, InstanceInv, NEW r \in Replica, NEW q \in Replica \ {r},
           NEW m \in Message, IsVote(m), m \in Sent(q), ProcessMessage(r, q, m),
           sequence' = sequence
    PROVE  Ignore \/ \E s \in Seqs, old, inst \in Instance : \E votes, fin :
                         LogStep(r, s, old, inst, votes, fin)
<1> SUFFICES ASSUME ~Ignore
             PROVE  \E s \in Seqs, old, inst \in Instance : \E votes, fin :
                        LogStep(r, s, old, inst, votes, fin)
  OBVIOUS
<1>1. PICK s \in Seqs : s = m.sequence
  BY VoteResult
<1>2. InWindow(r, s) /\ stable_checkpoint' = stable_checkpoint
  BY <1>1, VoteResult
<1>3. PICK inst \in Instance, votes \in SUBSET Message, fin \in Instance :
          /\ PhaseOK(inst)
          /\ VoteStored(r, q, m, inst, votes)
          /\ ChainResult(r, s, inst, votes, fin)
  BY <1>1, VoteResult
<1>4. PICK old : old = GetOrCreateInstance(r, s)
  OBVIOUS
<1>5. old \in Instance /\ PhaseOK(old)
  BY <1>4, GetOrCreateType
<1>6. OwnVotesIn(r, old)
  BY <1>4, GetOrCreateOwnVotes DEF InstanceInv
<1>7. Advances(old, inst) /\ OwnVotesIn(r, inst)
  BY <1>1, <1>3, <1>4, <1>5, <1>6, VoteAdvances
<1>8. Advances(inst, fin) /\ OwnVotesIn(r, fin)
  BY <1>3, <1>7, ChainAdvances
<1>9. m.type = "PrePrepare" => r # Primary(0) /\ old.digest = None
  BY <1>1, <1>3, <1>4 DEF VoteStored, ViewInv, SingleOrderer
<1>10. Hears(r, s, old, inst, votes)
  BY <1>1, <1>2, <1>3, <1>9 DEF Hears
<1>11. LogStep(r, s, old, inst, votes, fin)
  BY <1>2, <1>3, <1>4, <1>5, <1>6, <1>7, <1>8, <1>10 DEF LogStep
<1> QED
  BY <1>5, <1>11

LEMMA ProposesOrRefuses ==
    ASSUME TypeInv, ViewInv, InstanceInv, NEW r \in Replica, NEW d \in Request,
           OrdersNext(r, d)
    PROVE  \/ /\ UNCHANGED <<log, executed, outgoing, delivered, stable_checkpoint>>
              /\ sequence' = [sequence EXCEPT ![r] = sequence[r] + 1]
           \/ \E s \in Seqs, old, inst \in Instance : \E votes, fin :
                  LogStep(r, s, old, inst, votes, fin)
<1> SUFFICES ASSUME ~UNCHANGED <<log, executed, outgoing, delivered>>
             PROVE  \E s \in Seqs, old, inst \in Instance : \E votes, fin :
                        LogStep(r, s, old, inst, votes, fin)
  BY OrderResult DEF OrdersNext
<1>1. PICK s \in Seqs : s = sequence[r] + 1
  BY OrderResult DEF OrdersNext
<1>2. PICK votes : votes = {Ballot("PrePrepare", view[r], s, d),
                            Ballot("Prepare", view[r], s, d)}
  OBVIOUS
<1>3. PICK old : old = GetOrCreateInstance(r, s)
  OBVIOUS
<1>4. PICK inst : inst = PrePrepared(r, old, d)
  OBVIOUS
<1>5. /\ sequence' = [sequence EXCEPT ![r] = s]
      /\ stable_checkpoint' = stable_checkpoint
      /\ inst \in Instance
      /\ PhaseOK(inst)
      /\ \E fin : ChainResult(r, s, inst, votes, fin)
  BY <1>1, <1>2, <1>3, <1>4, OrderResult DEF OrdersNext
<1>6. PICK fin : ChainResult(r, s, inst, votes, fin)
  BY <1>5
<1>7. old \in Instance /\ PhaseOK(old) /\ OwnVotesIn(r, old)
  BY <1>3, GetOrCreateType, GetOrCreateOwnVotes DEF InstanceInv
<1>8. r = Primary(0)
  BY DEF OrdersNext, IsPrimary, ViewInv, NeverNewPrimary
<1>9. old.digest = None
  <2>1. sequence[r] \in Nat
    BY BoundsAssumption DEF TypeInv, TypeOK
  <2>2. ~(s <= sequence[r])
    BY <1>1, <2>1
  <2> QED
    BY <1>3, <1>8, <2>2
    DEF GetOrCreateInstance, NewInstance, InstanceInv, PrimaryLogBounded
<1>10. Advances(old, inst) /\ OwnVotesIn(r, inst)
  BY <1>4, <1>7, <1>9, OrderAdvances
<1>11. Advances(inst, fin) /\ OwnVotesIn(r, fin)
  BY <1>5, <1>6, <1>10, ChainAdvances
<1>12. Proposes(r, s, old, inst, votes)
  BY <1>1, <1>2, <1>4, <1>5, <1>8, <1>9 DEF Proposes
<1>13. LogStep(r, s, old, inst, votes, fin)
  BY <1>3, <1>5, <1>6, <1>7, <1>10, <1>11, <1>12 DEF LogStep
<1> QED
  BY <1>5, <1>7, <1>13

LEMMA LogCases ==
    ASSUME TypeInv, ViewInv, InstanceInv, [Next]_vars
    PROVE  \/ CastsNothing
           \/ \E r \in Replica, s \in Seqs, old, inst \in Instance : \E votes, fin :
                  LogStep(r, s, old, inst, votes, fin)
<1>1. /\ log \in [Replica -> [Seqs -> Instance \cup {None}]]
      /\ stable_checkpoint \in [Replica -> Nat]
      /\ sequence \in [Replica -> Nat]
      /\ executed \in [Replica -> SUBSET Request]
  BY BoundsAssumption DEF TypeInv, TypeOK
<1>2. ASSUME UNCHANGED <<log, executed, stable_checkpoint>>,
             \A p \in Replica : sequence'[p] >= sequence[p]
      PROVE  \A p \in Replica : Keeps(p)
  BY <1>1, <1>2 DEF Keeps
<1>3. ASSUME outgoing' = outgoing
      PROVE  \A p \in Replica : \A m \in Sent(p)' : m \in Sent(p) \/ ~IsVote(m)
  BY <1>3 DEF Sent
<1>4. sequence' = sequence => \A p \in Replica : sequence'[p] >= sequence[p]
  BY <1>1
<1>5. CASE Quiet
  BY <1>2, <1>3, <1>4, <1>5 DEF Quiet, CastsNothing
<1>6. ASSUME NEW r \in Replica, NEW q \in Replica, NEW m \in Message,
             Handles(r, q, m)
      PROVE  \/ CastsNothing
             \/ \E s \in Seqs, old, inst \in Instance : \E votes, fin :
                    LogStep(r, s, old, inst, votes, fin)
  <2>1. /\ ProcessMessage(r, q, m) /\ m \in Sent(q) /\ q \in Replica \ {r}
        /\ sequence' = sequence
    BY <1>6 DEF Handles, ViewInv, NeverOwnPeer
  <2>2. CASE Ignore
    BY <1>2, <1>3, <1>4, <2>1, <2>2 DEF Ignore, CastsNothing
  <2>3. CASE IsVote(m) /\ ~Ignore
    BY <2>1, <2>3, HearsOrIgnores
  <2>4. CASE m.type = "Checkpoint"
    <3>1. PICK s \in Seqs : s = m.sequence
      BY <2>4 DEF Message
    <3>2. /\ UNCHANGED <<executed, outgoing, delivered>>
          /\ \/ UNCHANGED <<stable_checkpoint, log>>
             \/ /\ s > stable_checkpoint[r]
                /\ stable_checkpoint' = [stable_checkpoint EXCEPT ![r] = s]
                /\ log' = [log EXCEPT ![r] = Retain(r, s)]
      BY <2>1, <2>4, <3>1 DEF ProcessMessage, HandleCheckpoint, BecomesStable
    <3>3. CASE UNCHANGED <<stable_checkpoint, log>>
      BY <1>2, <1>3, <1>4, <2>1, <3>2, <3>3 DEF CastsNothing
    <3>4. CASE /\ s > stable_checkpoint[r]
               /\ stable_checkpoint' = [stable_checkpoint EXCEPT ![r] = s]
               /\ log' = [log EXCEPT ![r] = Retain(r, s)]
      <4>1. s \in Nat /\ Seqs \subseteq Nat
        BY DEF Seqs
      <4>2. ASSUME NEW p \in Replica PROVE Keeps(p)
        <5>1. stable_checkpoint'[p] >= stable_checkpoint[p]
          BY <1>1, <3>4, <4>1
        <5>2. \A i \in Seqs : \/ log'[p][i] = log[p][i]
                              \/ log'[p][i] = None /\ i <= stable_checkpoint'[p]
          BY <1>1, <3>4, <4>1 DEF Retain
        <5> QED
          BY <1>4, <2>1, <3>2, <5>1, <5>2 DEF Keeps
      <4> QED
        BY <1>3, <3>2, <4>2 DEF CastsNothing
    <3> QED
      BY <3>2, <3>3, <3>4
  <2>5. CASE m.type = "ViewChange" /\ ~Ignore
    <3>1. /\ UNCHANGED <<stable_checkpoint, log, executed, delivered>>
          /\ \A p \in Replica : \A l \in Sent(p)' :
                l \in Sent(p) \/ l = ViewMsg("NewView", m.new_view)
      BY <2>1, <2>5, ViewChangeSends
    <3>2. ~IsVote(ViewMsg("NewView", m.new_view))
      BY DEF IsVote, ViewMsg
    <3> QED
      BY <1>2, <1>4, <2>1, <3>1, <3>2 DEF CastsNothing
  <2>6. CASE m.type = "NewView" /\ ~Ignore
    <3>1. UNCHANGED <<stable_checkpoint, log, executed, outgoing, delivered>>
      BY <2>1, <2>6 DEF ProcessMessage, HandleNewView
    <3> QED
      BY <1>2, <1>3, <1>4, <2>1, <3>1 DEF CastsNothing
  <2> QED
    BY <2>1, <2>2, <2>3, <2>4, <2>5, <2>6 DEF ProcessMessage, IsVote
<1>7. ASSUME NEW r \in Replica, NEW d \in Request, OrdersNext(r, d)
      PROVE  \/ CastsNothing
             \/ \E s \in Seqs, old, inst \in Instance : \E votes, fin :
                    LogStep(r, s, old, inst, votes, fin)
  <2>1. CASE /\ UNCHANGED <<log, executed, outgoing, delivered, stable_checkpoint>>
             /\ sequence' = [sequence EXCEPT ![r] = sequence[r] + 1]
    <3>1. \A p \in Replica : sequence'[p] >= sequence[p]
      BY <1>1, <2>1
    <3> QED
      BY <1>2, <1>3, <2>1, <3>1 DEF CastsNothing
  <2> QED
    BY <1>7, <2>1, ProposesOrRefuses
<1>8. ASSUME NEW r \in Replica, AsksForView(r)
      PROVE  CastsNothing
  <2>1. \A p \in Replica : \A l \in Sent(p)' :
            l \in Sent(p) \/ l = ViewMsg("ViewChange", view[r] + 1)
    BY <1>8, AsksSent
  <2>2. ~IsVote(ViewMsg("ViewChange", view[r] + 1))
    BY DEF IsVote, ViewMsg
  <2> QED
    BY <1>2, <1>4, <1>8, <2>1, <2>2 DEF CastsNothing, AsksForView
<1>9. ASSUME NEW r \in Replica, Restart(r)
      PROVE  CastsNothing
  <2>1. StartsAgain(r)
    BY <1>1, <1>9 DEF Restart, StartsAgain
  <2>2. ASSUME NEW p \in Replica \ {r} PROVE Keeps(p)
    BY <1>1, <1>9 DEF Restart, Keeps
  <2>3. /\ outgoing' = outgoing /\ delivered' = delivered
        /\ executed' = [executed EXCEPT ![r] = {}]
    BY <1>9 DEF Restart
  <2> QED
    BY <1>3, <2>1, <2>2, <2>3 DEF CastsNothing
<1> QED
  BY <1>5, <1>6, <1>7, <1>8, <1>9, NextCases

-----------------------------------------------------------------------------
(* InstanceInv and InstancesAdvance *)

LEMMA LogStepWrites ==
    ASSUME TypeInv, NEW r \in Replica, NEW s \in Seqs, NEW old, NEW inst,
           NEW votes, NEW fin, LogStep(r, s, old, inst, votes, fin)
    PROVE  /\ fin \in Instance
           /\ log'[r][s] = fin
           /\ \A p \in Replica, i \in Seqs : (p # r \/ i # s) => log'[p][i] = log[p][i]
  BY DEF LogStep, ChainResult, TypeInv, TypeOK

\* Every step preserves InstanceInv.
LEMMA InstanceStep ==
    TypeInv /\ ViewInv /\ InstanceInv /\ [Next]_vars => InstanceInv'
<1> SUFFICES ASSUME TypeInv, ViewInv, InstanceInv, [Next]_vars
             PROVE  InstanceInv'
  OBVIOUS
<1>1. Primary(0) \in Replica
  BY PrimaryType
<1>2. sequence \in [Replica -> Nat]
  BY BoundsAssumption DEF TypeInv, TypeOK
<1>3. CASE CastsNothing
  <2>1. ASSUME NEW p \in Replica, NEW i \in Seqs, log'[p][i] # None
        PROVE  /\ log'[p][i] = log[p][i]
               /\ p = Primary(0) => sequence'[p] >= sequence[p]
    BY <1>3, <2>1 DEF CastsNothing, StartsAgain, Keeps
  <2>2. OwnVotes'
    BY <2>1 DEF InstanceInv, OwnVotes
  <2>3. PrimaryLogBounded'
    <3>1. SUFFICES ASSUME NEW i \in Seqs, log'[Primary(0)][i] # None,
                          log'[Primary(0)][i].digest # None
                   PROVE  i <= sequence'[Primary(0)]
      BY DEF PrimaryLogBounded
    <3>2. i <= sequence[Primary(0)] /\ sequence'[Primary(0)] >= sequence[Primary(0)]
      BY <1>1, <2>1, <3>1 DEF InstanceInv, PrimaryLogBounded
    <3>3. sequence'[Primary(0)] \in Nat
      <4>1. sequence' \in [Replica -> 0 .. MaxSeq]
        BY TypeStep DEF TypeInv, TypeOK
      <4> QED
        BY <1>1, <4>1, BoundsAssumption
    <3> QED
      BY <1>1, <1>2, <3>2, <3>3 DEF Seqs
  <2> QED
    BY <2>2, <2>3 DEF InstanceInv
<1>4. ASSUME NEW r \in Replica, NEW s \in Seqs, NEW old \in Instance,
             NEW inst \in Instance, NEW votes, NEW fin,
             LogStep(r, s, old, inst, votes, fin)
      PROVE  InstanceInv'
  <2>1. /\ fin \in Instance /\ log'[r][s] = fin
        /\ \A p \in Replica, i \in Seqs : (p # r \/ i # s) => log'[p][i] = log[p][i]
    BY <1>4, LogStepWrites
  <2>2. OwnVotesIn(r, fin) /\ fin.digest = inst.digest
    BY <1>4 DEF LogStep, ChainResult
  <2>3. OwnVotes'
    BY <2>1, <2>2 DEF InstanceInv, OwnVotes, OwnVotesIn
  <2>4. CASE Hears(r, s, old, inst, votes)
    <3>1. r = Primary(0) => inst.digest = old.digest
      <4>1. PICK q \in Replica \ {r}, m \in Message :
                /\ m.sequence = s /\ VoteStored(r, q, m, inst, votes)
                /\ m.type = "PrePrepare" => r # Primary(0)
        BY <2>4 DEF Hears
      <4>2. old = GetOrCreateInstance(r, s)
        BY <1>4 DEF LogStep
      <4> QED
        BY <4>1, <4>2 DEF VoteStored, Instance
    <3>2. old.digest # None => log[r][s] # None /\ log[r][s].digest = old.digest
      BY <1>4 DEF LogStep, GetOrCreateInstance, NewInstance
    <3> QED
      BY <1>1, <2>1, <2>2, <2>3, <2>4, <3>1, <3>2
      DEF InstanceInv, PrimaryLogBounded, Hears
  <2>5. CASE Proposes(r, s, old, inst, votes)
    <3>1. /\ r = Primary(0) /\ s = sequence[r] + 1 /\ sequence'[r] = s
      BY <1>2, <2>5 DEF Proposes
    <3>2. PrimaryLogBounded'
      <4>1. SUFFICES ASSUME NEW i \in Seqs, i # s, log[r][i] # None,
                            log[r][i].digest # None
                     PROVE  i <= s
        BY <2>1, <3>1 DEF PrimaryLogBounded, Seqs
      <4>2. i <= sequence[r]
        BY <3>1, <4>1 DEF InstanceInv, PrimaryLogBounded
      <4> QED
        BY <1>2, <3>1, <4>2 DEF Seqs
    <3> QED
      BY <2>3, <3>2 DEF InstanceInv
  <2> QED
    BY <1>4, <2>4, <2>5 DEF LogStep
<1> QED
  BY <1>3, <1>4, LogCases

LEMMA InstanceInit == Init => InstanceInv
<1> SUFFICES ASSUME Init PROVE InstanceInv
  OBVIOUS
<1>1. \A r \in Replica, s \in Seqs : log[r][s] = None
  BY DEF Init
<1> QED
  BY <1>1, PrimaryType DEF InstanceInv, OwnVotes, PrimaryLogBounded

\* One step takes an instance forward, drops it or starts the process again.
LEMMA StepAdvances ==
    ASSUME TypeInv, ViewInv, InstanceInv, [Next]_vars,
           NEW r \in Replica, NEW s \in Seqs,
           up[r], log[r][s] # None, log'[r][s] # None
    PROVE  Advances(log[r][s], log'[r][s])
<1>1. log[r][s] \in Instance
  BY DEF TypeInv, TypeOK
<1>2. log'[r][s] = log[r][s] => Advances(log[r][s], log'[r][s])
  BY <1>1, RankOf DEF Advances
<1>3. CASE CastsNothing
  BY <1>2, <1>3 DEF CastsNothing, StartsAgain, Keeps
<1>4. ASSUME NEW p \in Replica, NEW i \in Seqs, NEW old \in Instance,
             NEW inst \in Instance, NEW votes, NEW fin,
             LogStep(p, i, old, inst, votes, fin)
      PROVE  Advances(log[r][s], log'[r][s])
  <2>1. /\ fin \in Instance /\ log'[p][i] = fin
        /\ (p # r \/ i # s) => log'[r][s] = log[r][s]
    BY <1>4, LogStepWrites
  <2>2. Advances(old, fin)
    BY <1>4, <2>1, AdvancesOn DEF LogStep
  <2>3. p = r /\ i = s => old = log[r][s]
    BY <1>4 DEF LogStep, GetOrCreateInstance
  <2> QED
    BY <1>2, <2>1, <2>2, <2>3
<1> QED
  BY <1>3, <1>4, LogCases

\* An instance of a running process keeps its pre-prepare, every vote it has
\* and the phase it has reached until it is garbage collected: for any order in
\* which pre-prepares, votes, checkpoints and view changes come, also from a
\* primary that restarted and assigns its numbers again.
THEOREM InstancesNeverGoBack == Spec => InstancesAdvance
<1>1. Spec => [](TypeInv /\ ViewInv)
  BY TypeInit, TypeStep, ViewInit, ViewStep, PTL DEF Spec
<1>2. Spec => []InstanceInv
  BY InstanceInit, InstanceStep, <1>1, PTL DEF Spec
<1>3. TypeInv /\ ViewInv /\ InstanceInv /\ [Next]_vars =>
          [\A r \in Replica, s \in Seqs :
              (up[r] /\ log[r][s] # None /\ log'[r][s] # None) =>
                  /\ PhaseRank(log[r][s]) <= PhaseRank(log'[r][s])
                  /\ log[r][s].digest \in {None, log'[r][s].digest}
                  /\ \A q \in Replica :
                        /\ log[r][s].prepares[q] \in {None, log'[r][s].prepares[q]}
                        /\ log[r][s].commits[q] \in {None, log'[r][s].commits[q]}
          ]_vars
  BY StepAdvances DEF Advances
<1> QED
  BY <1>1, <1>2, <1>3, PTL DEF Spec, InstancesAdvance

-----------------------------------------------------------------------------
(* One vote per number *)

\* OrderInv, where it holds.
PrimaryRemembers == Primary(0) \notin Restartable => OrderInv

LEMMA PrimaryRemembersStep ==
    TypeInv /\ ViewInv /\ PrimaryRemembers /\ [Next]_vars => PrimaryRemembers'
  BY OrderStep DEF PrimaryRemembers

\* What a handler adds to a replica's votes.
LEMMA VotesAdded ==
    ASSUME TypeInv, NEW r \in Replica, NEW s \in Seqs, NEW old \in Instance,
           NEW inst \in Instance, NEW votes, NEW fin,
           LogStep(r, s, old, inst, votes, fin)
    PROVE  /\ \A m \in votes : /\ m.sequence = s /\ m.digest = inst.digest
                               /\ m.type \in {"PrePrepare", "Prepare"}
           /\ \A m, l \in votes : m.type = l.type => m = l
           /\ votes # {} => old.digest = None /\ inst.digest # None
<1>1. CASE Hears(r, s, old, inst, votes)
  <2>1. PICK q \in Replica \ {r}, m \in Message :
            /\ m.sequence = s /\ IsVote(m) /\ VoteStored(r, q, m, inst, votes)
            /\ m.type = "PrePrepare" => old.digest = None
    BY <1>1 DEF Hears
  <2>2. CASE m.type = "PrePrepare"
    <3>1. /\ votes = {Ballot("Prepare", m.view, s, m.digest)}
          /\ inst = PrePrepared(r, old, m.digest)
      BY <2>1, <2>2 DEF VoteStored, LogStep
    <3>2. inst.digest = m.digest /\ m.digest # None
      BY <2>2, <3>1, BoundsAssumption DEF PrePrepared, Instance, Message
    <3> QED
      BY <2>1, <2>2, <3>1, <3>2 DEF Ballot
  <2>3. CASE m.type # "PrePrepare"
    BY <2>1, <2>3 DEF VoteStored
  <2> QED
    BY <2>2, <2>3
<1>2. CASE Proposes(r, s, old, inst, votes)
  <2>1. PICK d \in Request :
            /\ inst = PrePrepared(r, old, d)
            /\ votes = {Ballot("PrePrepare", view[r], s, d),
                        Ballot("Prepare", view[r], s, d)}
    BY <1>2 DEF Proposes
  <2>2. inst.digest = d /\ d # None /\ old.digest = None
    BY <1>2, <2>1, BoundsAssumption DEF PrePrepared, Instance, Proposes
  <2> QED
    BY <2>1, <2>2 DEF Ballot
<1> QED
  BY <1>1, <1>2 DEF LogStep

\* The instance of a number a replica has voted for before is still there when
\* a handler works on it.
LEMMA VotedBefore ==
    ASSUME TypeInv, VoteInv, Sourced, PrimaryRemembers,
           NEW r \in Replica \ Restartable, NEW s \in Seqs, NEW old \in Instance,
           NEW inst \in Instance, NEW votes, NEW fin,
           LogStep(r, s, old, inst, votes, fin),
           NEW l \in Sent(r), l.type \in {"Prepare", "Commit"}, l.sequence = s
    PROVE  /\ old.digest # None
           /\ l.type = "Commit" => old.phase \in {"Prepared", "Committed"}
<1>1. CASE Hears(r, s, old, inst, votes)
  <2>1. s > stable_checkpoint[r]
    <3>1. stable_checkpoint[r] \in Nat /\ s \in Nat
      BY BoundsAssumption DEF TypeInv, TypeOK, Seqs
    <3> QED
      BY <1>1, <3>1 DEF Hears, InWindow, LowWatermark
  <2> QED
    BY <2>1 DEF VoteInv, VotesKept, LogStep, GetOrCreateInstance
<1>2. CASE Proposes(r, s, old, inst, votes)
  <2>1. r = Primary(0) /\ s = sequence[r] + 1
    BY <1>2 DEF Proposes
  <2>2. Ordered(s, l.digest)
    BY DEF Sourced, VotesOrdered
  <2>3. s <= sequence[r]
    BY <2>1, <2>2
    DEF PrimaryRemembers, OrderInv, OrdersBounded, Ordered, HasSent
  <2>4. sequence[r] \in Nat
    BY BoundsAssumption DEF TypeInv, TypeOK
  <2> QED
    BY <2>1, <2>3, <2>4
<1> QED
  BY <1>1, <1>2 DEF LogStep

\* A handler votes for a number only if it has not voted so before, and the
\* instance shows it from then on.
LEMMA HandlerVotes ==
    ASSUME TypeInv, VoteInv, Sourced, PrimaryRemembers,
           NEW r \in Replica, NEW s \in Seqs, NEW old \in Instance,
           NEW inst \in Instance, NEW votes, NEW fin,
           LogStep(r, s, old, inst, votes, fin)
    PROVE  VoteInv'
<1> DEFINE commit == Ballot("Commit", inst.view, s, inst.digest)
<1>1. /\ fin \in Instance /\ log'[r][s] = fin
      /\ \A p \in Replica, i \in Seqs : (p # r \/ i # s) => log'[p][i] = log[p][i]
  BY LogStepWrites
<1>2. /\ \A m \in votes : m.sequence = s /\ m.type \in {"PrePrepare", "Prepare"}
      /\ \A m, l \in votes : m.type = l.type => m = l
      /\ votes # {} => old.digest = None /\ inst.digest # None
  BY VotesAdded
<1>3. /\ commit.sequence = s /\ commit.type = "Commit"
      /\ CheckpointMsg(s).type = "Checkpoint"
  BY DEF Ballot, CheckpointMsg
<1>4. /\ stable_checkpoint' = stable_checkpoint
      /\ fin.digest = inst.digest
      /\ \A p \in Replica \ {r} : Sent(p)' = Sent(p)
      /\ \A m \in Sent(r)' :
            \/ m \in Sent(r) \cup votes
            \/ /\ m = commit /\ CastsCommit(inst)
               /\ fin.phase \in {"Prepared", "Committed"}
            \/ m = CheckpointMsg(s)
  BY DEF LogStep, ChainResult
<1>5. /\ PhaseRank(old) <= PhaseRank(inst) /\ PhaseRank(inst) <= PhaseRank(fin)
      /\ old.digest \in {None, inst.digest}
      /\ \A a \in {old, inst, fin} :
            /\ PhaseRank(a) \in 0 .. 3
            /\ a.phase \in {"Prepared", "Committed"} <=> PhaseRank(a) >= 2
            /\ a.phase = "PrePrepared" <=> PhaseRank(a) = 1
  BY <1>1, RankOf DEF LogStep, Advances
<1>6. \A p \in Replica : \A m \in Sent(p) :
          m.type \in {"Prepare", "Commit"} => m.sequence \in Seqs
  BY SentType DEF Message
<1> HIDE DEF commit
<1>7. ASSUME r \notin Restartable,
             NEW l \in Sent(r), l.type \in {"Prepare", "Commit"}, l.sequence = s
      PROVE  /\ votes = {} /\ inst.digest # None
             /\ l.type = "Commit" =>
                   ~CastsCommit(inst) /\ fin.phase \in {"Prepared", "Committed"}
  <2>1. /\ old.digest # None
        /\ l.type = "Commit" => old.phase \in {"Prepared", "Committed"}
    BY <1>7, VotedBefore
  <2> QED
    BY <1>2, <1>5, <2>1 DEF CastsCommit
<1>8. VotesKept'
  <2>1. SUFFICES ASSUME NEW p \in Replica \ Restartable, NEW m \in Sent(p)',
                        m.type \in {"Prepare", "Commit"},
                        m.sequence > stable_checkpoint[p]
                 PROVE  /\ log'[p][m.sequence] # None
                        /\ log'[p][m.sequence].digest # None
                        /\ m.type = "Commit" =>
                              log'[p][m.sequence].phase \in {"Prepared", "Committed"}
    BY <1>4 DEF VotesKept
  <2>2. CASE m \in Sent(p) /\ (p # r \/ m.sequence # s)
    <3>1. log'[p][m.sequence] = log[p][m.sequence]
      BY <1>1, <1>6, <2>1, <2>2
    <3> QED
      BY <2>1, <2>2, <3>1 DEF VoteInv, VotesKept
  <2>3. CASE m \in Sent(p) /\ p = r /\ m.sequence = s
    BY <1>1, <1>4, <1>7, <2>1, <2>3, NoneAssumption
  <2>4. CASE m \notin Sent(p)
    <3>1. p = r /\ m.sequence = s
      BY <1>2, <1>3, <1>4, <2>1, <2>4
    <3>2. fin.digest # None /\ (m.type = "Commit" => fin.phase \in {"Prepared", "Committed"})
      BY <1>2, <1>3, <1>4, <2>1, <2>4, <3>1 DEF CastsCommit
    <3> QED
      BY <1>1, <3>1, <3>2, NoneAssumption
  <2> QED
    BY <2>2, <2>3, <2>4
<1>9. VotesOncePerNumber'
  <2>1. SUFFICES ASSUME NEW p \in Replica \ Restartable,
                        NEW m \in Sent(p)', NEW l \in Sent(p)',
                        m.type \in {"Prepare", "Commit"},
                        l.type = m.type, l.sequence = m.sequence
                 PROVE  l = m
    BY DEF VotesOncePerNumber
  <2>2. CASE m \in Sent(p) /\ l \in Sent(p)
    BY <2>1, <2>2 DEF VoteInv, VotesOncePerNumber
  <2>3. CASE p = r /\ m \notin Sent(p) /\ l \notin Sent(p)
    BY <1>2, <1>3, <1>4, <2>1, <2>3
  <2>4. ASSUME NEW old1 \in Sent(r), NEW new \in Sent(r)', new \notin Sent(r),
               r \notin Restartable,
               old1.type \in {"Prepare", "Commit"}, new.type = old1.type,
               new.sequence = old1.sequence
        PROVE  FALSE
    <3>1. new \in votes \/ (new = commit /\ CastsCommit(inst))
      BY <1>3, <1>4, <2>4
    <3>2. old1.sequence = s
      BY <1>2, <1>3, <2>4, <3>1
    <3> QED
      BY <1>3, <1>7, <2>4, <3>1, <3>2
  <2>5. p # r => Sent(p)' = Sent(p)
    BY <1>4
  <2> QED
    BY <2>1, <2>2, <2>3, <2>4, <2>5
<1> QED
  BY <1>8, <1>9 DEF VoteInv

\* Every step preserves VoteInv.
LEMMA VoteStep ==
    TypeInv /\ ViewInv /\ InstanceInv /\ Sourced /\ PrimaryRemembers /\ VoteInv
        /\ [Next]_vars => VoteInv'
<1> SUFFICES ASSUME TypeInv, ViewInv, InstanceInv, Sourced, PrimaryRemembers,
                    VoteInv, [Next]_vars
             PROVE  VoteInv'
  OBVIOUS
<1>1. CASE CastsNothing
  <2>1. ASSUME NEW p \in Replica \ Restartable
        PROVE  /\ Keeps(p)
               /\ \A m \in Sent(p)' :
                     m.type \in {"Prepare", "Commit"} => m \in Sent(p)
    BY <1>1 DEF CastsNothing, StartsAgain, IsVote
  <2>2. VotesOncePerNumber'
    BY <2>1 DEF VoteInv, VotesOncePerNumber
  <2>3. VotesKept'
    <3>1. SUFFICES ASSUME NEW p \in Replica \ Restartable, NEW m \in Sent(p)',
                          m.type \in {"Prepare", "Commit"},
                          m.sequence > stable_checkpoint'[p]
                   PROVE  /\ log'[p][m.sequence] = log[p][m.sequence]
                          /\ m \in Sent(p) /\ m.sequence > stable_checkpoint[p]
      BY DEF VoteInv, VotesKept
    <3>2. m \in Sent(p) /\ Keeps(p)
      BY <2>1, <3>1
    <3>3. m.sequence \in Seqs
      BY <3>1, <3>2, SentType DEF Message
    <3>4. stable_checkpoint[p] \in Nat /\ stable_checkpoint'[p] \in Nat /\ m.sequence \in Nat
      <4>1. stable_checkpoint' \in [Replica -> 0 .. MaxSeq]
        BY TypeStep DEF TypeInv, TypeOK
      <4>2. stable_checkpoint[p] \in 0 .. MaxSeq /\ stable_checkpoint'[p] \in 0 .. MaxSeq
        BY <4>1 DEF TypeInv, TypeOK
      <4> QED
        BY <3>3, <4>2, BoundsAssumption DEF Seqs
    <3> QED
      BY <3>1, <3>2, <3>3, <3>4 DEF Keeps
  <2> QED
    BY <2>2, <2>3 DEF VoteInv
<1> QED
  BY <1>1, HandlerVotes, LogCases

LEMMA VoteInit == Init => VoteInv
<1> SUFFICES ASSUME Init PROVE VoteInv
  OBVIOUS
<1>1. \A r \in Replica : Sent(r) = {}
  BY DEF Init, Sent
<1> QED
  BY <1>1 DEF VoteInv, VotesKept, VotesOncePerNumber

\* A process that was never restarted casts no two different votes of a kind on
\* a sequence number, whatever a restarted primary pre-prepares under it again
\* and whatever checkpoints drop from the log meanwhile.
THEOREM OneVoteEach == Spec => []VotesOnce
<1>1. Spec => [](TypeInv /\ ViewInv)
  BY TypeInit, TypeStep, ViewInit, ViewStep, PTL DEF Spec
<1>2. Init => PrimaryRemembers
  BY OrderInit DEF PrimaryRemembers
<1>3. Spec => [](InstanceInv /\ Sourced /\ PrimaryRemembers)
  BY InstanceInit, InstanceStep, SourcedInit, SourcedStep, <1>1, <1>2,
     PrimaryRemembersStep, PTL DEF Spec
<1>4. Spec => []VoteInv
  BY VoteInit, VoteStep, <1>1, <1>3, PTL DEF Spec
<1>5. VoteInv => VotesOnce
  <2> SUFFICES ASSUME VoteInv, NEW r \in Replica \ Restartable,
                      NEW i \in 1 .. Len(outgoing[r]), NEW j \in 1 .. i - 1,
                      outgoing[r][i].type \in {"Prepare", "Commit"},
                      outgoing[r][j].type = outgoing[r][i].type,
                      outgoing[r][j].sequence = outgoing[r][i].sequence
               PROVE  outgoing[r][j] = outgoing[r][i]
    BY DEF VotesOnce
  <2>1. outgoing[r][i] \in Sent(r) /\ outgoing[r][j] \in Sent(r)
    <3>1. j \in 1 .. Len(outgoing[r])
      OBVIOUS
    <3> QED
      BY <3>1 DEF Sent
  <2> QED
    BY <2>1 DEF VoteInv, VotesOncePerNumber
<1> QED
  BY <1>4, <1>5, PTL

-----------------------------------------------------------------------------
(* One execution per request *)

\* What a handler executes.
LEMMA HandlerExecutes ==
    ASSUME TypeInv, NEW r \in Replica, NEW s \in Seqs, NEW old \in Instance,
           NEW inst \in Instance, NEW votes, NEW fin,
           LogStep(r, s, old, inst, votes, fin)
    PROVE  \/ UNCHANGED <<executed, delivered>>
           \/ \E d \in Request : /\ d = inst.digest
                                 /\ Executes(r, s, d)
                                 /\ fin.phase = "Committed"
                                 /\ Votes(fin.commits) >= Quorum
<1>1. \/ UNCHANGED <<executed, delivered>>
      \/ /\ Executes(r, s, inst.digest)
         /\ fin.phase = "Committed"
         /\ Votes(fin.commits) >= Quorum
  BY DEF LogStep, ChainResult
<1>2. Executes(r, s, inst.digest) => inst.digest \in Request
  BY DEF Executes
<1> QED
  BY <1>1, <1>2

\* Every step preserves ExecutionInv.
LEMMA ExecutionStep ==
    TypeInv /\ ViewInv /\ InstanceInv /\ ExecutionInv /\ [Next]_vars
        => ExecutionInv'
<1> SUFFICES ASSUME TypeInv, ViewInv, InstanceInv, ExecutionInv, [Next]_vars
             PROVE  ExecutionInv'
  OBVIOUS
<1>1. ASSUME delivered' = delivered,
             \A p \in Replica \ Restartable : executed'[p] = executed[p]
      PROVE  ExecutionInv'
  BY <1>1 DEF ExecutionInv, ExecutedIsDelivered, ExecutedOnce, Delivered
<1>2. CASE CastsNothing
  BY <1>1, <1>2 DEF CastsNothing, StartsAgain, Keeps
<1>3. ASSUME NEW r \in Replica, NEW s \in Seqs, NEW d \in Request,
             Executes(r, s, d)
      PROVE  ExecutionInv'
  <2>1. /\ \A p \in Replica \ {r} : /\ Delivered(p)' = Delivered(p)
                                    /\ executed'[p] = executed[p]
        /\ Delivered(r)' = Delivered(r) \cup {[sequence |-> s, request |-> d]}
        /\ executed'[r] = executed[r] \cup {d}
    BY <1>3, ExecutesDelivered
  <2>2. ExecutedIsDelivered'
    <3>1. {x.request : x \in Delivered(r) \cup {[sequence |-> s, request |-> d]}}
              = {x.request : x \in Delivered(r)} \cup {d}
      <4>1. PICK e : e = [sequence |-> s, request |-> d]
        OBVIOUS
      <4>2. e.request = d
        BY <4>1
      <4>3. \A D : {x.request : x \in D \cup {e}} = {x.request : x \in D} \cup {e.request}
        OBVIOUS
      <4> QED
        BY <4>1, <4>2, <4>3
    <3>2. \A p \in Replica \ Restartable :
              executed'[p] = {x.request : x \in Delivered(p)'}
      BY <2>1, <3>1 DEF ExecutionInv, ExecutedIsDelivered
    <3> QED
      BY <3>2 DEF ExecutedIsDelivered
  <2>3. ExecutedOnce'
    <3>1. /\ \A p \in Replica \ {r} : delivered'[p] = delivered[p]
          /\ Len(delivered[r]) \in Nat
          /\ Len(delivered'[r]) = Len(delivered[r]) + 1
          /\ delivered'[r][Len(delivered[r]) + 1] = [sequence |-> s, request |-> d]
          /\ \A i \in 1 .. Len(delivered[r]) : delivered'[r][i] = delivered[r][i]
      BY <1>3, ExecutesAppends
    <3>2. /\ \A p \in Replica : DOMAIN delivered[p] = 1 .. Len(delivered[p])
          /\ DOMAIN delivered'[r] = 1 .. Len(delivered'[r])
      <4>1. delivered' \in [Replica -> Seq([sequence : Seqs, request : Request])]
        BY TypeStep DEF TypeInv, TypeOK
      <4> QED
        BY <4>1 DEF TypeInv, TypeOK
    <3>3. r \notin Restartable => \A i \in 1 .. Len(delivered[r]) : delivered[r][i].request # d
      BY <1>3 DEF ExecutionInv, ExecutedIsDelivered, Delivered, Executes
    <3>4. SUFFICES ASSUME NEW p \in Replica \ Restartable,
                          NEW i \in DOMAIN delivered'[p], NEW j \in DOMAIN delivered'[p],
                          delivered'[p][i].request = delivered'[p][j].request
                   PROVE  i = j
      BY DEF ExecutedOnce
    <3>5. CASE p # r
      BY <3>1, <3>4, <3>5 DEF ExecutionInv, ExecutedOnce
    <3>6. CASE p = r
      <4>0. /\ Len(delivered[r]) \in Nat /\ Len(delivered'[r]) = Len(delivered[r]) + 1
            /\ i \in 1 .. Len(delivered'[r]) /\ j \in 1 .. Len(delivered'[r])
        BY <3>1, <3>2, <3>6
      <4>1. /\ i \in 1 .. Len(delivered[r]) \/ i = Len(delivered[r]) + 1
            /\ j \in 1 .. Len(delivered[r]) \/ j = Len(delivered[r]) + 1
        BY <4>0
      <4>2. \A x, y \in 1 .. Len(delivered[r]) :
                delivered[r][x].request = delivered[r][y].request => x = y
        <5>1. DOMAIN delivered[r] = 1 .. Len(delivered[r])
          BY <3>2
        <5> QED
          BY <3>6, <5>1 DEF ExecutionInv, ExecutedOnce
      <4> QED
        BY <3>1, <3>3, <3>4, <3>6, <4>1, <4>2
    <3> QED
      BY <3>5, <3>6
  <2> QED
    BY <2>2, <2>3 DEF ExecutionInv
<1>4. ASSUME NEW r \in Replica, NEW s \in Seqs, NEW old \in Instance,
             NEW inst \in Instance, NEW votes, NEW fin,
             LogStep(r, s, old, inst, votes, fin)
      PROVE  ExecutionInv'
  BY <1>1, <1>3, <1>4, HandlerExecutes
<1> QED
  BY <1>2, <1>4, LogCases

LEMMA ExecutionInit == Init => ExecutionInv
<1> SUFFICES ASSUME Init PROVE ExecutionInv
  OBVIOUS
<1>1. \A r \in Replica : delivered[r] = << >> /\ Delivered(r) = {} /\ executed[r] = {}
  BY DEF Init, Delivered
<1>2. \A r \in Replica : DOMAIN delivered[r] = {}
  BY <1>1
<1> QED
  BY <1>1, <1>2 DEF ExecutionInv, ExecutedIsDelivered, ExecutedOnce

\* A process that was never restarted executes no request twice, under however
\* many sequence numbers the primary orders it.
THEOREM ExecutionsUnique == Spec => []ExecutedOnce
<1>1. Spec => [](TypeInv /\ ViewInv)
  BY TypeInit, TypeStep, ViewInit, ViewStep, PTL DEF Spec
<1>2. Spec => []InstanceInv
  BY InstanceInit, InstanceStep, <1>1, PTL DEF Spec
<1>3. Spec => []ExecutionInv
  BY ExecutionInit, ExecutionStep, <1>1, <1>2, PTL DEF Spec
<1>4. ExecutionInv => ExecutedOnce
  BY DEF ExecutionInv
<1> QED
  BY <1>3, <1>4, PTL

-----------------------------------------------------------------------------
(* Certificates *)

\* RecordedVotes for one instance.
Backed(s, inst) ==
    \A q \in Replica :
        /\ inst.prepares[q] # None => HasSent(q, "Prepare", s, inst.prepares[q])
        /\ inst.commits[q] # None => HasSent(q, "Commit", s, inst.commits[q])

LEMMA HasSentGrows ==
    ASSUME TypeInv, [Next]_vars
    PROVE  \A q \in Replica : \A t, s, d : HasSent(q, t, s, d) => HasSent(q, t, s, d)'
  BY Monotone DEF HasSent

\* The votes in an instance that a handler stores were cast.
LEMMA HandlerBacked ==
    ASSUME TypeInv, [Next]_vars, RecordedVotes,
           NEW r \in Replica, NEW s \in Seqs, NEW old \in Instance,
           NEW inst \in Instance, NEW votes, NEW fin,
           LogStep(r, s, old, inst, votes, fin)
    PROVE  Backed(s, fin)'
<1>1. Backed(s, old)
  <2>1. CASE log[r][s] = None
    BY <2>1 DEF LogStep, GetOrCreateInstance, NewInstance, Backed
  <2>2. CASE log[r][s] # None
    BY <2>2 DEF LogStep, GetOrCreateInstance, RecordedVotes, Backed
  <2> QED
    BY <2>1, <2>2
<1>2. Backed(s, old)'
  BY <1>1, HasSentGrows DEF Backed
<1>3. votes \subseteq Sent(r)'
  BY DEF LogStep, ChainResult
<1>4. Backed(s, inst)'
  <2>1. CASE Hears(r, s, old, inst, votes)
    <3>1. PICK q \in Replica \ {r}, m \in Message :
              /\ m \in Sent(q) /\ m.sequence = s
              /\ IsVote(m) /\ VoteStored(r, q, m, inst, votes)
      BY <2>1 DEF Hears
    <3>2. old = GetOrCreateInstance(r, m.sequence)
      BY <3>1 DEF LogStep
    <3>3. m \in Sent(q)'
      BY <3>1, Monotone
    <3>4. CASE m.type = "PrePrepare"
      <4>1. /\ inst = PrePrepared(r, old, m.digest)
            /\ votes = {Ballot("Prepare", m.view, s, m.digest)}
        BY <3>1, <3>2, <3>4 DEF VoteStored
      <4>2. /\ inst.prepares = [old.prepares EXCEPT ![r] = m.digest]
            /\ inst.commits = old.commits
        BY <4>1 DEF PrePrepared, Instance
      <4>3. HasSent(r, "Prepare", s, m.digest)'
        BY <1>3, <4>1 DEF HasSent, Ballot
      <4> QED
        BY <1>2, <4>2, <4>3 DEF Backed, Instance
    <3>5. CASE m.type = "Prepare"
      <4>1. inst = [old EXCEPT !.prepares[q] = m.digest]
        BY <3>1, <3>2, <3>5 DEF VoteStored
      <4>2. /\ inst.prepares = [old.prepares EXCEPT ![q] = m.digest]
            /\ inst.commits = old.commits
        BY <4>1 DEF Instance
      <4>3. HasSent(q, "Prepare", s, m.digest)'
        BY <3>1, <3>3, <3>5 DEF HasSent
      <4> QED
        BY <1>2, <4>2, <4>3 DEF Backed, Instance
    <3>6. CASE m.type = "Commit"
      <4>1. inst = [old EXCEPT !.commits[q] = m.digest]
        BY <3>1, <3>2, <3>6 DEF VoteStored
      <4>2. /\ inst.commits = [old.commits EXCEPT ![q] = m.digest]
            /\ inst.prepares = old.prepares
        BY <4>1 DEF Instance
      <4>3. HasSent(q, "Commit", s, m.digest)'
        BY <3>1, <3>3, <3>6 DEF HasSent
      <4> QED
        BY <1>2, <4>2, <4>3 DEF Backed, Instance
    <3> QED
      BY <3>1, <3>4, <3>5, <3>6 DEF IsVote
  <2>2. CASE Proposes(r, s, old, inst, votes)
    <3>1. PICK d \in Request :
              /\ inst = PrePrepared(r, old, d)
              /\ Ballot("Prepare", view[r], s, d) \in votes
      BY <2>2 DEF Proposes
    <3>2. /\ inst.prepares = [old.prepares EXCEPT ![r] = d]
          /\ inst.commits = old.commits
      BY <3>1 DEF PrePrepared, Instance
    <3>3. PICK vote : vote = Ballot("Prepare", view[r], s, d)
      OBVIOUS
    <3>4. /\ vote \in Sent(r)'
          /\ vote.type = "Prepare" /\ vote.sequence = s /\ vote.digest = d
      BY <1>3, <3>1, <3>3 DEF Ballot
    <3>5. HasSent(r, "Prepare", s, d)'
      BY <3>4 DEF HasSent
    <3> QED
      BY <1>2, <3>2, <3>5 DEF Backed, Instance
  <2> QED
    BY <2>1, <2>2 DEF LogStep
<1>5. /\ fin.prepares = inst.prepares
      /\ \/ fin.commits = inst.commits
         \/ /\ fin.commits = [inst.commits EXCEPT ![r] = inst.digest]
            /\ Ballot("Commit", inst.view, s, inst.digest) \in Sent(r)'
  BY DEF LogStep, ChainResult
<1>6. CASE fin.commits = inst.commits
  BY <1>4, <1>5, <1>6 DEF Backed
<1>7. CASE /\ fin.commits = [inst.commits EXCEPT ![r] = inst.digest]
           /\ Ballot("Commit", inst.view, s, inst.digest) \in Sent(r)'
  <2>1. HasSent(r, "Commit", s, inst.digest)'
    BY <1>7 DEF HasSent, Ballot
  <2> QED
    BY <1>4, <1>5, <1>7, <2>1 DEF Backed, Instance
<1> QED
  BY <1>5, <1>6, <1>7

\* Every step preserves RecordedVotes.
LEMMA RecordedStep ==
    TypeInv /\ ViewInv /\ InstanceInv /\ RecordedVotes /\ [Next]_vars
        => RecordedVotes'
<1> SUFFICES ASSUME TypeInv, ViewInv, InstanceInv, RecordedVotes, [Next]_vars
             PROVE  RecordedVotes'
  OBVIOUS
<1>1. ASSUME NEW p \in Replica, NEW i \in Seqs, NEW inst,
             log[p][i] = inst, inst # None
      PROVE  Backed(i, inst)'
  <2>1. Backed(i, inst)
    BY <1>1 DEF RecordedVotes, Backed
  <2> QED
    BY <2>1, HasSentGrows DEF Backed
<1>2. SUFFICES ASSUME NEW p \in Replica, NEW i \in Seqs, NEW new,
                      new = log'[p][i], new # None
               PROVE  Backed(i, new)'
  BY DEF RecordedVotes, Backed
<1>3. log[p][i] = new => Backed(i, new)'
  BY <1>1, <1>2
<1>4. CASE CastsNothing
  BY <1>2, <1>3, <1>4 DEF CastsNothing, StartsAgain, Keeps
<1>5. ASSUME NEW r \in Replica, NEW s \in Seqs, NEW old \in Instance,
             NEW inst \in Instance, NEW votes, NEW fin,
             LogStep(r, s, old, inst, votes, fin)
      PROVE  Backed(i, new)'
  <2>1. /\ log'[r][s] = fin
        /\ (p # r \/ i # s) => log'[p][i] = log[p][i]
    BY <1>5, LogStepWrites
  <2>2. Backed(s, fin)'
    BY <1>5, HandlerBacked
  <2> QED
    BY <1>2, <1>3, <2>1, <2>2
<1> QED
  BY <1>4, <1>5, LogCases

\* Where numbers are ordered once, the votes in an instance with a digest are
\* votes for it.
LEMMA VotesAreForDigest ==
    ASSUME OrdersUnique', VotesOrdered',
           NEW s \in Seqs, NEW d \in Request, Ordered(s, d)',
           NEW inst \in Instance, Backed(s, inst)'
    PROVE  /\ Votes(inst.prepares) >= Quorum =>
                  Cardinality({q \in Replica : HasSent(q, "Prepare", s, d)'}) >= Quorum
           /\ Votes(inst.commits) >= Quorum =>
                  Cardinality({q \in Replica : HasSent(q, "Commit", s, d)'}) >= Quorum
<1>1. ASSUME NEW q \in Replica, NEW t \in {"Prepare", "Commit"}, NEW x,
             HasSent(q, t, s, x)'
      PROVE  x = d
  <2>1. Ordered(s, x)'
    BY <1>1 DEF VotesOrdered, HasSent
  <2> QED
    BY <2>1 DEF OrdersUnique, Ordered, HasSent
<1>2. {q \in Replica : inst.prepares[q] # None}
          \subseteq {q \in Replica : HasSent(q, "Prepare", s, d)'}
  BY <1>1 DEF Backed
<1>3. {q \in Replica : inst.commits[q] # None}
          \subseteq {q \in Replica : HasSent(q, "Commit", s, d)'}
  BY <1>1 DEF Backed
<1>4. /\ {q \in Replica : HasSent(q, "Prepare", s, d)'} \in SUBSET Replica
      /\ {q \in Replica : HasSent(q, "Commit", s, d)'} \in SUBSET Replica
  OBVIOUS
<1> QED
  BY <1>2, <1>3, <1>4, QuorumGrows DEF Votes

Voters(type, s, d) == {q \in Replica : HasSent(q, type, s, d)}

LEMMA CertificatesBy ==
    Certificates <=>
        /\ \A r \in Replica : \A e \in Delivered(r) :
              Cardinality(Voters("Commit", e.sequence, e.request)) >= Quorum
        /\ \A r \in Replica : \A m \in Sent(r) : m.type = "Commit" =>
              Cardinality(Voters("Prepare", m.sequence, m.digest)) >= Quorum
  BY QuorumType DEF Certificates, Voters

\* Certificates outlive the instances they were counted in.
LEMMA VotersGrow ==
    ASSUME TypeInv, [Next]_vars
    PROVE  \A t, s, d : Cardinality(Voters(t, s, d)) >= Quorum =>
               Cardinality(Voters(t, s, d)') >= Quorum
<1>1. \A t, s, d : /\ Voters(t, s, d) \subseteq Voters(t, s, d)'
                   /\ Voters(t, s, d)' \in SUBSET Replica
  BY HasSentGrows DEF Voters
<1> QED
  BY <1>1, QuorumGrows

\* A handler commits to what 2f + 1 replicas have prepared, and executes what
\* 2f + 1 have committed to.
LEMMA HandlerCertified ==
    ASSUME TypeInv, [Next]_vars, RecordedVotes, Certificates, OrderInv', Sourced',
           NEW r \in Replica, NEW s \in Seqs, NEW old \in Instance,
           NEW inst \in Instance, NEW votes, NEW fin,
           LogStep(r, s, old, inst, votes, fin)
    PROVE  Certificates'
<1> DEFINE commit == Ballot("Commit", inst.view, s, inst.digest)
<1>1. /\ OrdersUnique' /\ VotesOrdered' /\ DeliveredOrdered'
      /\ fin \in Instance /\ Backed(s, fin)'
  BY HandlerBacked, LogStepWrites DEF OrderInv, Sourced
<1>2. \A t, i, d : Cardinality(Voters(t, i, d)) >= Quorum =>
          Cardinality(Voters(t, i, d)') >= Quorum
  BY VotersGrow
<1>3. /\ \A m \in votes : m.type \in {"PrePrepare", "Prepare"}
      /\ commit.type = "Commit" /\ commit.sequence = s /\ commit.digest = inst.digest
      /\ CheckpointMsg(s).type = "Checkpoint"
  BY VotesAdded DEF Ballot, CheckpointMsg
<1>4. /\ \A p \in Replica \ {r} : Sent(p)' = Sent(p)
      /\ \A m \in Sent(r)' : \/ m \in Sent(r) \cup votes
                             \/ m = commit /\ CastsCommit(inst)
                             \/ m = CheckpointMsg(s)
      /\ fin.prepares = inst.prepares
  BY DEF LogStep, ChainResult
<1> HIDE DEF commit
<1>5. ASSUME NEW p \in Replica, NEW e \in Delivered(p)'
      PROVE  Cardinality(Voters("Commit", e.sequence, e.request)') >= Quorum
  <2>1. CASE e \in Delivered(p)
    BY <1>2, <2>1, CertificatesBy
  <2>2. CASE e \notin Delivered(p)
    <3>1. delivered' # delivered
      BY <1>5, <2>2 DEF Delivered
    <3>2. PICK d \in Request : /\ Executes(r, s, d)
                               /\ Votes(fin.commits) >= Quorum
      BY <3>1, HandlerExecutes
    <3>3. p = r /\ e = [sequence |-> s, request |-> d]
      BY <1>5, <2>2, <3>2, ExecutesDelivered
    <3>4. Ordered(s, d)'
      BY <1>1, <1>5, <3>3 DEF DeliveredOrdered
    <3>5. Cardinality(Voters("Commit", s, d)') >= Quorum
      BY <1>1, <3>2, <3>4, VotesAreForDigest DEF Voters
    <3> QED
      BY <3>3, <3>5
  <2> QED
    BY <2>1, <2>2
<1>6. ASSUME NEW p \in Replica, NEW m \in Sent(p)', m.type = "Commit"
      PROVE  Cardinality(Voters("Prepare", m.sequence, m.digest)') >= Quorum
  <2>1. CASE m \in Sent(p)
    BY <1>2, <1>6, <2>1, CertificatesBy
  <2>2. CASE m \notin Sent(p)
    <3>1. m = commit /\ CastsCommit(inst)
      BY <1>3, <1>4, <1>6, <2>2
    <3>2. PICK d \in Request : d = inst.digest
      BY <3>1 DEF CastsCommit, Instance
    <3>3. m.sequence = s /\ m.digest = d
      BY <1>3, <3>1, <3>2
    <3>4. Ordered(s, d)'
      BY <1>1, <1>6, <3>3 DEF VotesOrdered
    <3>5. Votes(fin.prepares) >= Quorum
      BY <1>4, <3>1 DEF CastsCommit
    <3>6. Cardinality(Voters("Prepare", s, d)') >= Quorum
      BY <1>1, <3>4, <3>5, VotesAreForDigest DEF Voters
    <3> QED
      BY <3>3, <3>6
  <2> QED
    BY <2>1, <2>2
<1> QED
  BY <1>5, <1>6, QuorumType DEF Certificates, Voters

\* Every step preserves Certificates where numbers are ordered once.
LEMMA CertificateStep ==
    ASSUME Primary(0) \notin Restartable
    PROVE  TypeInv /\ ViewInv /\ InstanceInv /\ Sourced /\ OrderInv
               /\ RecordedVotes /\ Certificates /\ [Next]_vars => Certificates'
<1> SUFFICES ASSUME TypeInv, ViewInv, InstanceInv, Sourced, OrderInv,
                    RecordedVotes, Certificates, [Next]_vars
             PROVE  Certificates'
  OBVIOUS
<1>1. OrderInv' /\ Sourced'
  BY OrderStep, SourcedStep
<1>2. CASE CastsNothing
  <2>1. \A t, i, d : Cardinality(Voters(t, i, d)) >= Quorum =>
            Cardinality(Voters(t, i, d)') >= Quorum
    BY VotersGrow
  <2>2. /\ \A p \in Replica : Delivered(p)' = Delivered(p)
        /\ \A p \in Replica : \A m \in Sent(p)' : m.type = "Commit" => m \in Sent(p)
    BY <1>2 DEF CastsNothing, Delivered, IsVote
  <2>3. ASSUME NEW p \in Replica, NEW e \in Delivered(p)'
        PROVE  Cardinality(Voters("Commit", e.sequence, e.request)') >= Quorum
    BY <2>1, <2>2, <2>3, CertificatesBy
  <2>4. ASSUME NEW p \in Replica, NEW m \in Sent(p)', m.type = "Commit"
        PROVE  Cardinality(Voters("Prepare", m.sequence, m.digest)') >= Quorum
    BY <2>1, <2>2, <2>4, CertificatesBy
  <2> QED
    BY <2>3, <2>4, QuorumType DEF Certificates, Voters
<1> QED
  BY <1>1, <1>2, HandlerCertified, LogCases

LEMMA CertificateInit == Init => RecordedVotes /\ Certificates
<1> SUFFICES ASSUME Init PROVE RecordedVotes /\ Certificates
  OBVIOUS
<1>1. \A r \in Replica : Sent(r) = {} /\ Delivered(r) = {}
  BY DEF Init, Sent, Delivered
<1>2. \A r \in Replica, s \in Seqs : log[r][s] = None
  BY DEF Init
<1> QED
  BY <1>1, <1>2 DEF RecordedVotes, Certificates

\* As long as the first primary keeps its memory, 2f + 1 replicas have sent a
\* Commit for every request anybody has executed, and 2f + 1 a Prepare for every
\* request anybody has committed to, though votes are recorded before the
\* pre-prepare they are for, counted without their digests, and kept across
\* views and over restarts of their senders.
THEOREM ExecutionsCertified ==
    ASSUME Primary(0) \notin Restartable
    PROVE  Spec => []Certificates
<1>1. Spec => [](TypeInv /\ ViewInv)
  BY TypeInit, TypeStep, ViewInit, ViewStep, PTL DEF Spec
<1>2. Spec => [](InstanceInv /\ Sourced /\ RecordedVotes)
  BY InstanceInit, InstanceStep, SourcedInit, SourcedStep, CertificateInit,
     RecordedStep, <1>1, PTL DEF Spec
<1>3. Spec => []OrderInv
  BY OrderKept
<1> QED
  BY CertificateInit, CertificateStep, <1>1, <1>2, <1>3, PTL DEF Spec

-----------------------------------------------------------------------------
(* The ledger is what the first primary has ordered *)

\* Assigned(s) reads the first primary's broadcasts.
FirstOrder(sent, s) ==
    LET Assigns(i) == sent[i].type = "PrePrepare" /\ sent[i].sequence = s
    IN  IF \E i \in DOMAIN sent : Assigns(i)
        THEN sent[CHOOSE i \in DOMAIN sent : Assigns(i)].digest
        ELSE None

\* Where numbers are ordered once, it does not matter which pre-prepare it finds.
LEMMA FirstIsOnly ==
    ASSUME NEW sent \in Seq(Message), NEW s \in Seqs,
           \A m, l \in Elements(sent) :
               (/\ m.type = "PrePrepare" /\ l.type = "PrePrepare"
                /\ m.sequence = l.sequence) => m.digest = l.digest,
           NEW x, x = FirstOrder(sent, s)
    PROVE  /\ x \in Request \cup {None}
           /\ \A d \in Request : x = d <=>
                 \E m \in Elements(sent) :
                     m.type = "PrePrepare" /\ m.sequence = s /\ m.digest = d
<1> DEFINE Assigns(i) == sent[i].type = "PrePrepare" /\ sent[i].sequence = s
<1>1. /\ DOMAIN sent = 1 .. Len(sent)
      /\ \A i \in DOMAIN sent : sent[i] \in Message /\ sent[i] \in Elements(sent)
      /\ \A m \in Elements(sent) : \E i \in DOMAIN sent : m = sent[i]
  BY DEF Elements
<1>2. CASE \E i \in DOMAIN sent : Assigns(i)
  <2>1. PICK c : c = CHOOSE i \in DOMAIN sent : Assigns(i)
    OBVIOUS
  <2>2. c \in DOMAIN sent /\ Assigns(c)
    BY <1>2, <2>1
  <2>3. x = sent[c].digest
    BY <1>2, <2>1 DEF FirstOrder
  <2>4. sent[c].digest \in Request
    BY <1>1, <2>2 DEF Message
  <2> QED
    BY <1>1, <2>2, <2>3, <2>4
<1>3. CASE ~\E i \in DOMAIN sent : Assigns(i)
  <2>1. x = None
    BY <1>3 DEF FirstOrder
  <2> QED
    BY <1>1, <1>3, <2>1, BoundsAssumption
<1> QED
  BY <1>2, <1>3

LEMMA AssignedIsOrdered ==
    ASSUME TypeInv, OrdersUnique, NEW s \in Seqs
    PROVE  /\ Assigned(s) \in Request \cup {None}
           /\ \A d \in Request : Assigned(s) = d <=> Ordered(s, d)
<1>1. Primary(0) \in Replica
  BY PrimaryType
<1>2. PICK sent \in Seq(Message) : sent = outgoing[Primary(0)]
  BY <1>1 DEF TypeInv, TypeOK
<1>3. Sent(Primary(0)) = Elements(sent)
  BY <1>2 DEF Sent, Elements
<1>4. PICK x : x = Assigned(s)
  OBVIOUS
<1>5. /\ x = FirstOrder(sent, s)
      /\ \A m, l \in Elements(sent) :
            (/\ m.type = "PrePrepare" /\ l.type = "PrePrepare"
             /\ m.sequence = l.sequence) => m.digest = l.digest
  BY <1>2, <1>3, <1>4 DEF Assigned, FirstOrder, OrdersUnique
<1>6. /\ x \in Request \cup {None}
      /\ \A d \in Request : x = d <=>
            \E m \in Elements(sent) :
                m.type = "PrePrepare" /\ m.sequence = s /\ m.digest = d
  BY <1>5, FirstIsOnly
<1> QED
  BY <1>3, <1>4, <1>6 DEF Ordered, HasSent

\* The same after a step.
LEMMA AssignedIsOrderedNext ==
    ASSUME TypeInv', OrdersUnique', NEW s \in Seqs
    PROVE  /\ Assigned(s)' \in Request \cup {None}
           /\ \A d \in Request : Assigned(s)' = d <=> Ordered(s, d)'
<1>1. Primary(0) \in Replica
  BY PrimaryType
<1>2. PICK sent \in Seq(Message) : sent = outgoing'[Primary(0)]
  BY <1>1 DEF TypeInv, TypeOK
<1>3. Sent(Primary(0))' = Elements(sent)
  BY <1>2 DEF Sent, Elements
<1>4. PICK x : x = Assigned(s)'
  OBVIOUS
<1>5. /\ x = FirstOrder(sent, s)
      /\ \A m, l \in Elements(sent) :
            (/\ m.type = "PrePrepare" /\ l.type = "PrePrepare"
             /\ m.sequence = l.sequence) => m.digest = l.digest
  BY <1>2, <1>3, <1>4 DEF Assigned, FirstOrder, OrdersUnique
<1>6. /\ x \in Request \cup {None}
      /\ \A d \in Request : x = d <=>
            \E m \in Elements(sent) :
                m.type = "PrePrepare" /\ m.sequence = s /\ m.digest = d
  BY <1>5, FirstIsOnly
<1> QED
  BY <1>3, <1>4, <1>6 DEF Ordered, HasSent

-----------------------------------------------------------------------------
(* Every step is a step of the ledger, or none *)

book == [s \in Seqs |-> Assigned(s)]

\* A step in which nothing is ordered leaves the ledger alone.
LEMMA LedgerKept ==
    ASSUME TypeInv, TypeInv', OrdersUnique, OrdersUnique',
           \A s, d : Ordered(s, d)' <=> Ordered(s, d)
    PROVE  book' = book
<1>1. ASSUME NEW s \in Seqs PROVE Assigned(s)' = Assigned(s)
  <2>1. PICK x, y : x = Assigned(s) /\ y = Assigned(s)'
    OBVIOUS
  <2>2. /\ x \in Request \cup {None} /\ y \in Request \cup {None}
        /\ \A d \in Request : x = d <=> Ordered(s, d)
        /\ \A d \in Request : y = d <=> Ordered(s, d)'
    BY <2>1, AssignedIsOrdered, AssignedIsOrderedNext
  <2>3. \A d \in Request : x = d <=> y = d
    BY <2>2
  <2> QED
    BY <2>1, <2>2, <2>3
<1> QED
  BY <1>1 DEF book

\* A new order is written on a free line, below which everything used lies.
LEMMA LedgerWritten ==
    ASSUME TypeInv, TypeInv', OrderInv, OrdersUnique',
           NEW s \in Seqs, s = sequence[Primary(0)] + 1, NEW d \in Request,
           \A i, x : Ordered(i, x)' <=> Ordered(i, x) \/ (i = s /\ x = d)
    PROVE  /\ book[s] = None /\ book'[s] = d
           /\ \A i \in Seqs : i > s => book[i] = None
           /\ book' = [book EXCEPT ![s] = d]
<1>1. sequence[Primary(0)] \in Nat
  BY PrimaryType, BoundsAssumption DEF TypeInv, TypeOK
<1>2. \A i, x : Ordered(i, x) => i <= sequence[Primary(0)]
  BY DEF OrderInv, OrdersBounded, Ordered, HasSent
<1>3. \A i \in Seqs : /\ book[i] \in Request \cup {None}
                      /\ \A x \in Request : book[i] = x <=> Ordered(i, x)
  BY AssignedIsOrdered DEF OrderInv, book
<1>4. \A i \in Seqs : /\ book'[i] \in Request \cup {None}
                      /\ \A x \in Request : book'[i] = x <=> Ordered(i, x)'
  BY AssignedIsOrderedNext DEF book
<1>5. \A i \in Seqs : i >= s => book[i] = None
  <2>1. SUFFICES ASSUME NEW i \in Seqs, i >= s, book[i] \in Request PROVE FALSE
    BY <1>3
  <2>2. PICK x \in Request : x = book[i]
    BY <2>1
  <2>3. i <= sequence[Primary(0)]
    BY <1>2, <1>3, <2>2
  <2> QED
    BY <1>1, <2>1, <2>3 DEF Seqs
<1>6. book'[s] = d
  BY <1>4
<1>7. \A i \in Seqs : i # s => book'[i] = book[i]
  <2>1. SUFFICES ASSUME NEW i \in Seqs, i # s PROVE book'[i] = book[i]
    OBVIOUS
  <2>2. PICK x, y : x = book[i] /\ y = book'[i]
    OBVIOUS
  <2>3. /\ x \in Request \cup {None} /\ y \in Request \cup {None}
        /\ \A e \in Request : x = e <=> Ordered(i, e)
        /\ \A e \in Request : y = e <=> Ordered(i, e)'
    BY <1>3, <1>4, <2>2
  <2>4. \A e \in Request : x = e <=> y = e
    BY <2>1, <2>3
  <2> QED
    BY <2>2, <2>3, <2>4
<1>8. DOMAIN book = Seqs /\ DOMAIN book' = Seqs
  BY DEF book
<1>9. book' = [book EXCEPT ![s] = d]
  BY <1>6, <1>7, <1>8 DEF book
<1>10. s >= s /\ \A i \in Seqs : i > s => i >= s
  BY DEF Seqs
<1> QED
  BY <1>5, <1>6, <1>9, <1>10

\* What a handler orders.
LEMMA HandlerOrders ==
    ASSUME TypeInv, [Next]_vars, NEW r \in Replica, NEW s \in Seqs,
           NEW old \in Instance, NEW inst \in Instance, NEW votes, NEW fin,
           LogStep(r, s, old, inst, votes, fin)
    PROVE  \/ \A i, x : Ordered(i, x)' <=> Ordered(i, x)
           \/ /\ s = sequence[Primary(0)] + 1
              /\ inst.digest \in Request
              /\ \A i, x : Ordered(i, x)' <=>
                     Ordered(i, x) \/ (i = s /\ x = inst.digest)
<1>1. \A i, x : Ordered(i, x) => Ordered(i, x)'
  BY OrderedGrows
<1>2. /\ \A p \in Replica \ {r} : Sent(p)' = Sent(p)
      /\ Sent(r) \cup votes \subseteq Sent(r)'
      /\ \A m \in Sent(r)' : m \in Sent(r) \cup votes \/ m.type # "PrePrepare"
  BY DEF LogStep, ChainResult, Ballot, CheckpointMsg
<1>3. /\ \A m \in votes : m.sequence = s /\ m.digest = inst.digest
      /\ Primary(0) \in Replica
  BY VotesAdded, PrimaryType
<1>4. CASE Hears(r, s, old, inst, votes)
  <2>1. \A m \in votes : m.type # "PrePrepare"
    BY <1>4 DEF Hears, VoteStored, Ballot
  <2>2. \A m \in Sent(Primary(0))' : m \in Sent(Primary(0)) \/ m.type # "PrePrepare"
    BY <1>2, <1>3, <2>1
  <2> QED
    BY <1>1, <2>2 DEF Ordered, HasSent
<1>5. CASE Proposes(r, s, old, inst, votes)
  <2>1. r = Primary(0) /\ s = sequence[r] + 1
    BY <1>5 DEF Proposes
  <2>2. PICK d \in Request : /\ inst = PrePrepared(r, old, d)
                             /\ Ballot("PrePrepare", view[r], s, d) \in votes
    BY <1>5 DEF Proposes
  <2>3. inst.digest = d
    BY <2>2 DEF PrePrepared, Instance
  <2>4. Ordered(s, inst.digest)'
    <3>1. PICK m : m = Ballot("PrePrepare", view[r], s, d)
      OBVIOUS
    <3>2. /\ m \in Sent(r)'
          /\ m.type = "PrePrepare" /\ m.sequence = s /\ m.digest = inst.digest
      BY <1>2, <2>2, <2>3, <3>1 DEF Ballot
    <3> QED
      BY <2>1, <3>2 DEF Ordered, HasSent
  <2>5. \A i, x : Ordered(i, x)' => Ordered(i, x) \/ (i = s /\ x = inst.digest)
    BY <1>2, <1>3, <2>1 DEF Ordered, HasSent
  <2> QED
    BY <1>1, <2>1, <2>2, <2>3, <2>4, <2>5
<1> QED
  BY <1>4, <1>5 DEF LogStep

\* A step of a process is a step of the ledger or leaves it and what was
\* executed alone.
LEMMA LedgerStep ==
    ASSUME Primary(0) \notin Restartable
    PROVE  TypeInv /\ ViewInv /\ InstanceInv /\ Sourced /\ OrderInv /\ [Next]_vars
               => [Replicated!Next]_(Replicated!vars)
<1> SUFFICES ASSUME TypeInv, ViewInv, InstanceInv, Sourced, OrderInv, [Next]_vars
             PROVE  Replicated!Next \/ UNCHANGED <<book, executed, delivered>>
  BY DEF Replicated!vars, book
<1>1. TypeInv' /\ OrderInv' /\ OrdersUnique /\ OrdersUnique' /\ DeliveredOrdered'
  BY TypeStep, OrderStep DEF OrderInv
<1>2. CASE CastsNothing
  <2>1. \A i, x : Ordered(i, x)' <=> Ordered(i, x)
    BY <1>2, OrderedGrows, PrimaryType DEF CastsNothing, Ordered, HasSent, IsVote
  <2>2. book' = book
    BY <1>1, <2>1, LedgerKept
  <2>3. delivered' = delivered
    BY <1>2 DEF CastsNothing
  <2>4. CASE executed' = executed
    BY <2>2, <2>3, <2>4
  <2>5. ASSUME NEW p \in Replica, executed' = [executed EXCEPT ![p] = {}]
        PROVE  Replicated!Forget(p)
    BY <2>2, <2>3, <2>5 DEF Replicated!Forget, book
  <2> QED
    BY <1>2, <2>4, <2>5 DEF CastsNothing, Replicated!Next
<1>3. ASSUME NEW r \in Replica, NEW s \in Seqs, NEW old \in Instance,
             NEW inst \in Instance, NEW votes, NEW fin,
             LogStep(r, s, old, inst, votes, fin)
      PROVE  Replicated!Next \/ UNCHANGED <<book, executed, delivered>>
  <2>1. ASSUME NEW d \in Request, Executes(r, s, d)
        PROVE  Replicated!Execute(r, s, d)
    <3>1. [sequence |-> s, request |-> d] \in Delivered(r)'
      BY <2>1, ExecutesDelivered
    <3>2. Ordered(s, d)'
      BY <1>1, <3>1 DEF DeliveredOrdered
    <3>3. book'[s] = d
      BY <1>1, <3>2, AssignedIsOrderedNext DEF book
    <3> QED
      BY <2>1, <3>3 DEF Executes, Replicated!Execute, book
  <2>2. CASE \A i, x : Ordered(i, x)' <=> Ordered(i, x)
    <3>1. book' = book
      BY <1>1, <2>2, LedgerKept
    <3>2. CASE UNCHANGED <<executed, delivered>>
      BY <3>1, <3>2
    <3>3. ASSUME NEW d \in Request, Executes(r, s, d)
          PROVE  Replicated!Next
      BY <2>1, <3>1, <3>3 DEF Replicated!Next, book
    <3> QED
      BY <1>3, <3>2, <3>3, HandlerExecutes
  <2>3. CASE /\ s = sequence[Primary(0)] + 1
             /\ inst.digest \in Request
             /\ \A i, x : Ordered(i, x)' <=>
                    Ordered(i, x) \/ (i = s /\ x = inst.digest)
    <3>1. PICK d \in Request : d = inst.digest
      BY <2>3
    <3>2. /\ book[s] = None /\ book'[s] = d
          /\ \A i \in Seqs : i > s => book[i] = None
          /\ book' = [book EXCEPT ![s] = d]
      BY <1>1, <2>3, <3>1, LedgerWritten
    <3>3. Replicated!Order(s, d)
      BY <3>2 DEF Replicated!Order, book
    <3>4. CASE UNCHANGED <<executed, delivered>>
      BY <3>3, <3>4 DEF Replicated!Next
    <3>5. CASE Executes(r, s, d)
      BY <2>1, <3>3, <3>5 DEF Replicated!Next
    <3> QED
      BY <1>3, <3>1, <3>4, <3>5, HandlerExecutes
  <2> QED
    BY <1>3, <2>2, <2>3, HandlerOrders
<1> QED
  BY <1>2, <1>3, LogCases

LEMMA LedgerInit == Init => Replicated!Init
<1> SUFFICES ASSUME Init PROVE Replicated!Init
  OBVIOUS
<1>1. outgoing[Primary(0)] = << >>
  BY PrimaryType DEF Init
<1>2. DOMAIN outgoing[Primary(0)] = {}
  BY <1>1
<1>3. \A s \in Seqs : Assigned(s) = None
  BY <1>2 DEF Assigned
<1> QED
  BY <1>3 DEF Init, Replicated!Init

\* The replicas implement one ledger, written once per number in ascending
\* order, from which each process executes each request once per lifetime: as
\* long as the first primary keeps its memory, whatever is lost, whoever else
\* restarts, and whatever views are voted for.
THEOREM LedgerImplemented ==
    ASSUME Primary(0) \notin Restartable
    PROVE  Spec => ImplementsLedger
<1>1. Spec => [](TypeInv /\ ViewInv)
  BY TypeInit, TypeStep, ViewInit, ViewStep, PTL DEF Spec
<1>2. Spec => [](InstanceInv /\ Sourced)
  BY InstanceInit, InstanceStep, SourcedInit, SourcedStep, <1>1, PTL DEF Spec
<1>3. Spec => []OrderInv
  BY OrderKept
<1> QED
  BY LedgerInit, LedgerStep, <1>1, <1>2, <1>3, PTL
  DEF Spec, ImplementsLedger, Replicated!Spec

=============================================================================
