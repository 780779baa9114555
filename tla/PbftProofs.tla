----------------------------- MODULE PbftProofs -----------------------------
(***************************************************************************)
(* Proofs about module Pbft, for every set of replicas, checkpoint         *)
(* interval, pattern of faults and bound.                                  *)
(***************************************************************************)
EXTENDS PbftProperties, FiniteSetTheorems, TLAPS

-----------------------------------------------------------------------------
(* Facts about the configuration and about sequences *)

\* The primary's index is in range in every view.
LEMMA PrimaryType == \A v \in Nat : Primary(v) \in Replica
<1>1. n \in Nat \ {0}
  BY ReplicasAssumption, FS_CardinalityType DEF n
<1>2. \A v \in Nat : v % n \in 0 .. n-1
  BY <1>1
<1> QED
  BY <1>2, ReplicasAssumption DEF Primary

\* Appending to one replica's queue keeps the type of the queues.
LEMMA AppendType ==
    ASSUME NEW S, NEW g \in [Replica -> Seq(S)], NEW r \in Replica, NEW x \in S
    PROVE  [g EXCEPT ![r] = Append(@, x)] \in [Replica -> Seq(S)]
<1>1. g[r] \in Seq(S)
  OBVIOUS
<1>2. Append(g[r], x) \in Seq(S)
  BY <1>1
<1> QED
  BY <1>2

\* Nor does taking the head of a queue, or emptying it.
LEMMA QueueType ==
    ASSUME NEW S, NEW g \in [Replica -> Seq(S)], NEW r \in Replica
    PROVE  /\ [g EXCEPT ![r] = << >>] \in [Replica -> Seq(S)]
           /\ g[r] # << >> => /\ Head(g[r]) \in S
                             /\ [g EXCEPT ![r] = Tail(@)] \in [Replica -> Seq(S)]
<1>1. g[r] \in Seq(S)
  OBVIOUS
<1>2. g[r] # << >> => Head(g[r]) \in S /\ Tail(g[r]) \in Seq(S)
  BY <1>1
<1>3. << >> \in Seq(S)
  OBVIOUS
<1> QED
  BY <1>2, <1>3

\* What a replica has broadcast after it broadcasts `out`.
LEMMA SentAppend ==
    ASSUME outgoing \in [Replica -> Seq(Message)],
           NEW r \in Replica, NEW out \in Seq(Message),
           outgoing' = [outgoing EXCEPT ![r] = @ \o out]
    PROVE  /\ outgoing' \in [Replica -> Seq(Message)]
           /\ \A q \in Replica : Sent(q) \subseteq Sent(q)'
           /\ \A q \in Replica \ {r} : Sent(q)' = Sent(q)
           /\ \A m \in Sent(r)' : m \in Sent(r) \/ \E i \in 1 .. Len(out) : m = out[i]
           /\ \A i \in 1 .. Len(out) : out[i] \in Sent(r)'
<1>1. outgoing'[r] = outgoing[r] \o out /\ outgoing[r] \in Seq(Message)
  OBVIOUS
<1>2. \A q \in Replica \ {r} : outgoing'[q] = outgoing[q]
  OBVIOUS
<1>3. /\ Len(outgoing'[r]) = Len(outgoing[r]) + Len(out)
      /\ Len(outgoing[r]) \in Nat /\ Len(out) \in Nat
      /\ \A i \in 1 .. Len(outgoing[r]) : outgoing'[r][i] = outgoing[r][i]
      /\ \A i \in 1 .. Len(outgoing'[r]) :
            i > Len(outgoing[r]) => outgoing'[r][i] = out[i - Len(outgoing[r])]
  BY <1>1
<1>4. Sent(r) \subseteq Sent(r)'
  <2>1. SUFFICES ASSUME NEW i \in 1 .. Len(outgoing[r])
                 PROVE  \E j \in 1 .. Len(outgoing'[r]) : outgoing'[r][j] = outgoing[r][i]
    BY DEF Sent
  <2>2. i \in 1 .. Len(outgoing'[r])
    BY <1>3
  <2> QED
    BY <1>3, <2>2
<1>5. \A m \in Sent(r)' : m \in Sent(r) \/ \E i \in 1 .. Len(out) : m = out[i]
  <2>1. SUFFICES ASSUME NEW j \in 1 .. Len(outgoing'[r])
                 PROVE  \/ outgoing'[r][j] \in Sent(r)
                        \/ \E i \in 1 .. Len(out) : outgoing'[r][j] = out[i]
    BY DEF Sent
  <2>2. CASE j <= Len(outgoing[r])
    <3>1. j \in 1 .. Len(outgoing[r])
      BY <1>3, <2>2
    <3> QED
      BY <1>3, <3>1 DEF Sent
  <2>3. CASE j > Len(outgoing[r])
    <3>1. j - Len(outgoing[r]) \in 1 .. Len(out)
      BY <1>3, <2>3
    <3> QED
      BY <1>3, <2>3, <3>1
  <2> QED
    BY <1>3, <2>2, <2>3
<1>6. outgoing' \in [Replica -> Seq(Message)]
  OBVIOUS
<1>7. ASSUME NEW i \in 1 .. Len(out) PROVE out[i] \in Sent(r)'
  <2>1. /\ i + Len(outgoing[r]) \in 1 .. Len(outgoing'[r])
        /\ outgoing'[r][i + Len(outgoing[r])] = out[i]
    BY <1>1, <1>3
  <2> QED
    BY <2>1 DEF Sent
<1> QED
  BY <1>2, <1>4, <1>5, <1>6, <1>7 DEF Sent

-----------------------------------------------------------------------------
(* The chain from a vote to execution *)

\* What a handler that ends in the chain does: it stores an instance with
\* digest d, broadcasts `sent`, a Commit and a Checkpoint at most, and executes
\* d at s at most.
ChainEffect(r, s, d, sent) ==
    \E fin \in Instance, out \in Seq(Message) :
        /\ log' = [log EXCEPT ![r][s] = fin]
        /\ outgoing' = [outgoing EXCEPT ![r] = @ \o out]
        /\ fin.digest = d
        /\ PhaseOK(fin)
        /\ \A i \in 1 .. Len(out) :
              \/ out[i].type \in {"Commit", "Checkpoint"}
              \/ \E j \in 1 .. Len(sent) : out[i] = sent[j]
        /\ \A j \in 1 .. Len(sent) : \E i \in 1 .. Len(out) : out[i] = sent[j]
        /\ executed' \in [Replica -> SUBSET Request]
        /\ \/ delivered' = delivered
           \/ /\ d # None
              /\ delivered' = [delivered EXCEPT ![r] =
                                  Append(@, [sequence |-> s, request |-> d])]

\* A concatenation has the elements of its two parts.
LEMMA ConcatElements ==
    ASSUME NEW x \in Seq(Message), NEW y \in Seq(Message)
    PROVE  /\ x \o y \in Seq(Message)
           /\ \A i \in 1 .. Len(x \o y) :
                 \/ \E j \in 1 .. Len(x) : (x \o y)[i] = x[j]
                 \/ \E j \in 1 .. Len(y) : (x \o y)[i] = y[j]
           /\ \A j \in 1 .. Len(x) : \E i \in 1 .. Len(x \o y) : (x \o y)[i] = x[j]
<1>1. x \o y \in Seq(Message)
  OBVIOUS
<1>2. ASSUME NEW i \in 1 .. Len(x \o y)
      PROVE  \/ \E j \in 1 .. Len(x) : (x \o y)[i] = x[j]
             \/ \E j \in 1 .. Len(y) : (x \o y)[i] = y[j]
  <2>1. CASE i <= Len(x)
    <3>1. i \in 1 .. Len(x) /\ (x \o y)[i] = x[i]
      BY <2>1
    <3> QED
      BY <3>1
  <2>2. CASE i > Len(x)
    <3>1. /\ i - Len(x) \in 1 .. Len(y)
          /\ (x \o y)[i] = y[i - Len(x)]
      BY <2>2
    <3> QED
      BY <3>1
  <2> QED
    BY <2>1, <2>2
<1>3. ASSUME NEW j \in 1 .. Len(x)
      PROVE  \E i \in 1 .. Len(x \o y) : (x \o y)[i] = x[j]
  <2>1. j \in 1 .. Len(x \o y) /\ (x \o y)[j] = x[j]
    OBVIOUS
  <2> QED
    BY <2>1
<1> QED
  BY <1>1, <1>2, <1>3

\* Only a Checkpoint comes out of try_checkpoint.
LEMMA TryCheckpointType ==
    ASSUME NEW s \in Seqs
    PROVE  /\ TryCheckpoint(s) \in Seq(Message)
           /\ \A i \in 1 .. Len(TryCheckpoint(s)) :
                 TryCheckpoint(s)[i].type = "Checkpoint"
<1>1. CheckpointMsg(s) \in Message /\ CheckpointMsg(s).type = "Checkpoint"
  BY DEF CheckpointMsg, Message
<1>2. CASE s % CheckpointInterval = 0
  <2>1. TryCheckpoint(s) = <<CheckpointMsg(s)>>
    BY <1>2 DEF TryCheckpoint
  <2> QED
    BY <1>1, <2>1
<1>3. CASE ~(s % CheckpointInterval = 0)
  <2>1. TryCheckpoint(s) = << >>
    BY <1>3 DEF TryCheckpoint
  <2> QED
    BY <2>1
<1> QED
  BY <1>2, <1>3

\* try_advance_to_committed has the effect of the chain.
LEMMA CommittedEffect ==
    ASSUME TypeOK, NEW r \in Replica, NEW s \in Seqs,
           NEW inst \in Instance, PhaseOK(inst), NEW sent \in Seq(Message),
           TryAdvanceToCommitted(r, s, inst, sent)
    PROVE  ChainEffect(r, s, inst.digest, sent)
<1>1. executed \in [Replica -> SUBSET Request]
  BY DEF TypeOK
<1>2. CASE ReadyToCommit(inst)
  <2> DEFINE done == [inst EXCEPT !.phase = "Committed"]
  <2>1. done \in Instance /\ done.digest = inst.digest /\ PhaseOK(done)
    BY <1>2 DEF ReadyToCommit, Instance, Phase, PhaseOK
  <2>2. inst.digest \in Request /\ inst.digest # None
    BY <1>2 DEF ReadyToCommit, Instance, PhaseOK
  <2>3. CASE ~AlreadyExecuted(r, inst.digest)
    <3> DEFINE out == sent \o TryCheckpoint(s)
    <3>1. /\ log' = [log EXCEPT ![r][s] = done]
          /\ outgoing' = [outgoing EXCEPT ![r] = @ \o out]
          /\ executed' = [executed EXCEPT ![r] = @ \cup {inst.digest}]
          /\ delivered' = [delivered EXCEPT ![r] =
                 Append(@, [sequence |-> s, request |-> inst.digest])]
      BY <1>2, <2>3 DEF TryAdvanceToCommitted, Store
    <3>2. /\ out \in Seq(Message)
          /\ \A i \in 1 .. Len(out) :
                \/ out[i].type \in {"Commit", "Checkpoint"}
                \/ \E j \in 1 .. Len(sent) : out[i] = sent[j]
          /\ \A j \in 1 .. Len(sent) : \E i \in 1 .. Len(out) : out[i] = sent[j]
      BY ConcatElements, TryCheckpointType
    <3>3. executed' \in [Replica -> SUBSET Request]
      BY <1>1, <2>2, <3>1
    <3> HIDE DEF done, out
    <3> QED
      BY <2>1, <2>2, <3>1, <3>2, <3>3 DEF ChainEffect
  <2>4. CASE AlreadyExecuted(r, inst.digest)
    <3>1. /\ log' = [log EXCEPT ![r][s] = done]
          /\ outgoing' = [outgoing EXCEPT ![r] = @ \o sent]
          /\ executed' = executed
          /\ delivered' = delivered
      BY <1>2, <2>4 DEF TryAdvanceToCommitted, Store
    <3> HIDE DEF done
    <3> QED
      BY <1>1, <2>1, <3>1 DEF ChainEffect
  <2> QED
    BY <2>3, <2>4
<1>3. CASE ~ReadyToCommit(inst)
  <2>1. /\ log' = [log EXCEPT ![r][s] = inst]
        /\ outgoing' = [outgoing EXCEPT ![r] = @ \o sent]
        /\ executed' = executed
        /\ delivered' = delivered
    BY <1>3 DEF TryAdvanceToCommitted, Store
  <2> QED
    BY <1>1, <2>1 DEF ChainEffect
<1> QED
  BY <1>2, <1>3

\* So has try_advance_to_prepared, which may add a Commit.
LEMMA PreparedEffect ==
    ASSUME TypeOK, NEW r \in Replica, NEW s \in Seqs,
           NEW inst \in Instance, PhaseOK(inst), NEW sent \in Seq(Message),
           TryAdvanceToPrepared(r, s, inst, sent)
    PROVE  ChainEffect(r, s, inst.digest, sent)
<1>1. executed \in [Replica -> SUBSET Request]
  BY DEF TypeOK
<1> DEFINE ready == /\ inst.digest # None
                    /\ inst.phase = "PrePrepared"
                    /\ Votes(inst.prepares) >= Quorum
<1>2. CASE ready
  <2> DEFINE next == [inst EXCEPT !.phase = "Prepared", !.commits[r] = inst.digest]
             com  == Ballot("Commit", inst.view, s, inst.digest)
             out  == Append(sent, com)
  <2>1. next \in Instance /\ next.digest = inst.digest /\ PhaseOK(next)
    BY <1>2 DEF Instance, Phase, PhaseOK
  <2>2. com \in Message /\ com.type = "Commit"
    BY <1>2 DEF Instance, Ballot, Message
  <2>3. out \in Seq(Message)
    BY <2>2
  <2>4. \A i \in 1 .. Len(out) :
            out[i].type \in {"Commit", "Checkpoint"} \/ \E j \in 1 .. Len(sent) : out[i] = sent[j]
    BY <2>2
  <2>5. \A j \in 1 .. Len(sent) : \E i \in 1 .. Len(out) : out[i] = sent[j]
    <3>1. \A j \in 1 .. Len(sent) : j \in 1 .. Len(out) /\ out[j] = sent[j]
      BY <2>2
    <3> QED
      BY <3>1
  <2>6. TryAdvanceToCommitted(r, s, next, out)
    BY <1>2 DEF TryAdvanceToPrepared
  <2> HIDE DEF next, com, out
  <2>7. ChainEffect(r, s, next.digest, out)
    BY <2>1, <2>3, <2>6, CommittedEffect
  <2>8. PICK fin \in Instance, all \in Seq(Message) :
            /\ log' = [log EXCEPT ![r][s] = fin]
            /\ outgoing' = [outgoing EXCEPT ![r] = @ \o all]
            /\ fin.digest = next.digest
            /\ PhaseOK(fin)
            /\ \A i \in 1 .. Len(all) :
                  \/ all[i].type \in {"Commit", "Checkpoint"}
                  \/ \E j \in 1 .. Len(out) : all[i] = out[j]
            /\ \A j \in 1 .. Len(out) : \E i \in 1 .. Len(all) : all[i] = out[j]
            /\ executed' \in [Replica -> SUBSET Request]
            /\ \/ delivered' = delivered
               \/ /\ next.digest # None
                  /\ delivered' = [delivered EXCEPT ![r] =
                        Append(@, [sequence |-> s, request |-> next.digest])]
    BY <2>7, Zenon DEF ChainEffect
  <2>9. \A i \in 1 .. Len(all) :
            \/ all[i].type \in {"Commit", "Checkpoint"}
            \/ \E j \in 1 .. Len(sent) : all[i] = sent[j]
    <3> SUFFICES ASSUME NEW i \in 1 .. Len(all), all[i].type \notin {"Commit", "Checkpoint"}
                 PROVE  \E j \in 1 .. Len(sent) : all[i] = sent[j]
      OBVIOUS
    <3>1. PICK k \in 1 .. Len(out) : all[i] = out[k]
      BY <2>8
    <3>2. \E j \in 1 .. Len(sent) : out[k] = sent[j]
      BY <2>4, <3>1
    <3> QED
      BY <3>1, <3>2
  <2>10. \A j \in 1 .. Len(sent) : \E i \in 1 .. Len(all) : all[i] = sent[j]
    BY <2>8, <2>5
  <2> QED
    BY <2>1, <2>8, <2>9, <2>10 DEF ChainEffect
<1>3. CASE ~ready
  <2>1. /\ log' = [log EXCEPT ![r][s] = inst]
        /\ outgoing' = [outgoing EXCEPT ![r] = @ \o sent]
        /\ executed' = executed
        /\ delivered' = delivered
    BY <1>3 DEF TryAdvanceToPrepared, Store
  <2> QED
    BY <1>1, <2>1 DEF ChainEffect
<1> QED
  BY <1>2, <1>3

-----------------------------------------------------------------------------
(* Type correctness *)

TypeInv == TypeOK /\ PhasesOK

\* The part of the type invariant that process_message can disturb.
HandlerTypeOK ==
    /\ view \in [Replica -> Views]
    /\ stable_checkpoint \in [Replica -> 0 .. MaxSeq]
    /\ log \in [Replica -> [Seqs -> Instance \cup {None}]]
    /\ executed \in [Replica -> SUBSET Request]
    /\ checkpoints \in [Replica -> [Seqs -> SUBSET Replica]]
    /\ view_changes \in [Replica -> [Views -> SUBSET Replica]]
    /\ view_changing \in [Replica -> BOOLEAN]
    /\ outgoing \in [Replica -> Seq(Message)]
    /\ delivered \in [Replica -> Seq([sequence : Seqs, request : Request])]
    /\ PhasesOK

\* The part that only the main loop, its channels and the peer table write.
SideTypeOK ==
    /\ sequence \in [Replica -> 0 .. MaxSeq]
    /\ view_change_due \in [Replica -> BOOLEAN]
    /\ forwarded \in [Replica -> Seq([to : Replica, request : Request])]
    /\ up \in [Replica -> BOOLEAN]
    /\ peers \in [Replica -> SUBSET Replica]
    /\ received \in [Replica -> [Replica -> Nat]]
    /\ submits \in 0 .. MaxSubmits
    /\ faults \in 0 .. MaxFaults

LEMMA TypeParts ==
    /\ TypeInv <=> HandlerTypeOK /\ SideTypeOK
    /\ TypeInv' <=> HandlerTypeOK' /\ SideTypeOK'
<1>1. TypeInv => HandlerTypeOK
  BY Zenon DEF TypeInv, TypeOK, HandlerTypeOK
<1>2. TypeInv => SideTypeOK
  BY Zenon DEF TypeInv, TypeOK, SideTypeOK
<1>3. HandlerTypeOK /\ SideTypeOK => TypeInv
  BY Zenon DEF TypeInv, TypeOK, HandlerTypeOK, SideTypeOK
<1>4. TypeInv' => HandlerTypeOK'
  BY Zenon DEF TypeInv, TypeOK, HandlerTypeOK
<1>5. TypeInv' => SideTypeOK'
  BY Zenon DEF TypeInv, TypeOK, SideTypeOK
<1>6. HandlerTypeOK' /\ SideTypeOK' => TypeInv'
  BY Zenon DEF TypeInv, TypeOK, HandlerTypeOK, SideTypeOK
<1> QED
  BY <1>1, <1>2, <1>3, <1>4, <1>5, <1>6

\* What process_message does not write keeps its type.
LEMMA HandlerTypeKept ==
    ASSUME HandlerTypeOK,
           UNCHANGED <<view, stable_checkpoint, log, executed, checkpoints,
                       view_changes, view_changing, outgoing, delivered>>
    PROVE  HandlerTypeOK'
<1>1. PhasesOK'
  BY DEF HandlerTypeOK, PhasesOK, PhaseOK
<1> QED
  BY <1>1 DEF HandlerTypeOK

\* get_or_create_instance returns a well-formed instance.
LEMMA GetOrCreateType ==
    ASSUME TypeInv, NEW r \in Replica, NEW s \in Seqs
    PROVE  GetOrCreateInstance(r, s) \in Instance /\ PhaseOK(GetOrCreateInstance(r, s))
<1>1. log[r][s] \in Instance \cup {None} /\ view[r] \in Views
  BY DEF TypeInv, TypeOK
<1>2. NewInstance(view[r]) \in Instance /\ PhaseOK(NewInstance(view[r]))
  BY <1>1 DEF NewInstance, Instance, Phase, PhaseOK
<1>3. log[r][s] # None => PhaseOK(log[r][s])
  BY DEF TypeInv, PhasesOK
<1> QED
  BY <1>1, <1>2, <1>3 DEF GetOrCreateInstance

\* The chain keeps the types of what it changes.
LEMMA ChainType ==
    ASSUME TypeInv, NEW r \in Replica, NEW s \in Seqs,
           NEW d \in Request \cup {None}, NEW sent \in Seq(Message),
           ChainEffect(r, s, d, sent)
    PROVE  /\ log' \in [Replica -> [Seqs -> Instance \cup {None}]]
           /\ executed' \in [Replica -> SUBSET Request]
           /\ outgoing' \in [Replica -> Seq(Message)]
           /\ delivered' \in [Replica -> Seq([sequence : Seqs, request : Request])]
           /\ PhasesOK'
<1>1. PICK fin \in Instance, out \in Seq(Message) :
          /\ log' = [log EXCEPT ![r][s] = fin]
          /\ outgoing' = [outgoing EXCEPT ![r] = @ \o out]
          /\ PhaseOK(fin)
          /\ executed' \in [Replica -> SUBSET Request]
          /\ \/ delivered' = delivered
             \/ /\ d # None
                /\ delivered' = [delivered EXCEPT ![r] =
                                    Append(@, [sequence |-> s, request |-> d])]
  BY DEF ChainEffect
<1>2. /\ log \in [Replica -> [Seqs -> Instance \cup {None}]]
      /\ outgoing \in [Replica -> Seq(Message)]
      /\ delivered \in [Replica -> Seq([sequence : Seqs, request : Request])]
  BY DEF TypeInv, TypeOK
<1>3. log' \in [Replica -> [Seqs -> Instance \cup {None}]]
  BY <1>1, <1>2
<1>4. outgoing' \in [Replica -> Seq(Message)]
  BY <1>1, <1>2
<1>5. delivered' \in [Replica -> Seq([sequence : Seqs, request : Request])]
  <2>1. CASE delivered' = delivered
    BY <1>2, <2>1
  <2>2. CASE /\ d # None
             /\ delivered' = [delivered EXCEPT ![r] =
                                 Append(@, [sequence |-> s, request |-> d])]
    <3>1. [sequence |-> s, request |-> d] \in [sequence : Seqs, request : Request]
      BY <2>2
    <3> QED
      BY <1>2, <2>2, <3>1, AppendType
  <2> QED
    BY <1>1, <2>1, <2>2
<1>6. PhasesOK'
  <2>1. SUFFICES ASSUME NEW q \in Replica, NEW i \in Seqs, log'[q][i] # None
                 PROVE  PhaseOK(log'[q][i])
    BY DEF PhasesOK, PhaseOK
  <2>2. CASE q = r /\ i = s
    BY <1>1, <1>2, <2>2
  <2>3. CASE ~(q = r /\ i = s)
    <3>1. log'[q][i] = log[q][i]
      BY <1>1, <1>2, <2>3
    <3> QED
      BY <2>1, <3>1 DEF TypeInv, PhasesOK
  <2> QED
    BY <2>2, <2>3
<1> QED
  BY <1>1, <1>3, <1>4, <1>5, <1>6

\* A vote or a pre-prepare is ignored, or goes through the chain with the
\* digest of the instance or of the pre-prepare.
LEMMA VoteEffect ==
    ASSUME TypeInv, NEW r \in Replica, NEW q \in Replica, NEW m \in Message,
           \/ m.type = "PrePrepare" /\ HandlePrePrepare(r, q, m)
           \/ m.type = "Prepare" /\ HandlePrepare(r, q, m)
           \/ m.type = "Commit" /\ HandleCommit(r, q, m)
    PROVE  \/ Ignore
           \/ /\ UNCHANGED <<view, stable_checkpoint, checkpoints, view_changes,
                             view_changing>>
              /\ \E s \in Seqs, d \in Request \cup {None}, sent \in Seq(Message) :
                    /\ ChainEffect(r, s, d, sent)
                    /\ \A j \in 1 .. Len(sent) : sent[j].type = "Prepare"
                    /\ \/ d = None
                       \/ log[r][s] # None /\ log[r][s].digest = d
                       \/ m.type = "PrePrepare" /\ m.sequence = s /\ m.digest = d
<1> DEFINE s   == m.sequence
           old == GetOrCreateInstance(r, s)
<1>1. s \in Seqs /\ m.view \in Views /\ m.digest \in Request
  BY DEF Message
<1>2. old \in Instance /\ PhaseOK(old)
  BY <1>1, GetOrCreateType
<1>3. old.digest = None \/ (log[r][s] # None /\ log[r][s].digest = old.digest)
  BY DEF GetOrCreateInstance, NewInstance
<1> DEFINE none == << >>
<1>4. none \in Seq(Message) /\ \A j \in 1 .. Len(none) : none[j].type = "Prepare"
  OBVIOUS
<1>5. CASE m.type = "PrePrepare" /\ HandlePrePrepare(r, q, m)
  <2> DEFINE inst == PrePrepared(r, old, m.digest)
             sent == <<Ballot("Prepare", m.view, s, m.digest)>>
  <2>1. CASE AcceptsPrePrepare(r, q, m)
    <3>1. /\ TryAdvanceToPrepared(r, s, inst, sent)
          /\ UNCHANGED <<view, stable_checkpoint, checkpoints, view_changes,
                         view_changing>>
      BY <1>5, <2>1 DEF HandlePrePrepare
    <3> HIDE DEF old
    <3>2. inst \in Instance /\ PhaseOK(inst) /\ inst.digest = m.digest
      BY <1>1, <1>2, BoundsAssumption DEF PrePrepared, Instance, Phase, PhaseOK
    <3>3. sent \in Seq(Message) /\ \A j \in 1 .. Len(sent) : sent[j].type = "Prepare"
      BY <1>1 DEF Ballot, Message
    <3> HIDE DEF inst, sent, s
    <3>4. ChainEffect(r, s, m.digest, sent)
      BY <1>1, <3>1, <3>2, <3>3, PreparedEffect DEF TypeInv
    <3> QED
      BY <1>1, <1>5, <3>1, <3>3, <3>4 DEF s
  <2> QED
    BY <1>5, <2>1 DEF HandlePrePrepare
<1>6. CASE m.type = "Prepare" /\ HandlePrepare(r, q, m)
  <2> DEFINE inst == [old EXCEPT !.prepares[q] = m.digest]
  <2>1. CASE AcceptsVote(r, m, old, old.prepares, q)
    <3>1. /\ TryAdvanceToPrepared(r, s, inst, none)
          /\ UNCHANGED <<view, stable_checkpoint, checkpoints, view_changes,
                         view_changing>>
      BY <1>6, <2>1 DEF HandlePrepare
    <3> HIDE DEF old
    <3>2. /\ inst \in Instance /\ PhaseOK(inst)
          /\ inst.digest = old.digest /\ old.digest \in Request \cup {None}
      BY <1>1, <1>2 DEF Instance, PhaseOK
    <3> HIDE DEF inst, s, none
    <3>3. ChainEffect(r, s, old.digest, none)
      BY <1>1, <1>4, <3>1, <3>2, PreparedEffect DEF TypeInv
    <3> QED
      BY <1>1, <1>3, <1>4, <3>1, <3>2, <3>3
  <2> QED
    BY <1>6, <2>1 DEF HandlePrepare
<1>7. CASE m.type = "Commit" /\ HandleCommit(r, q, m)
  <2> DEFINE inst == [old EXCEPT !.commits[q] = m.digest]
  <2>1. CASE AcceptsVote(r, m, old, old.commits, q)
    <3>1. /\ TryAdvanceToCommitted(r, s, inst, none)
          /\ UNCHANGED <<view, stable_checkpoint, checkpoints, view_changes,
                         view_changing>>
      BY <1>7, <2>1 DEF HandleCommit
    <3> HIDE DEF old
    <3>2. /\ inst \in Instance /\ PhaseOK(inst)
          /\ inst.digest = old.digest /\ old.digest \in Request \cup {None}
      BY <1>1, <1>2 DEF Instance, PhaseOK
    <3> HIDE DEF inst, s, none
    <3>3. ChainEffect(r, s, old.digest, none)
      BY <1>1, <1>4, <3>1, <3>2, CommittedEffect DEF TypeInv
    <3> QED
      BY <1>1, <1>3, <1>4, <3>1, <3>2, <3>3
  <2> QED
    BY <1>7, <2>1 DEF HandleCommit
<1> QED
  BY <1>5, <1>6, <1>7

\* The request the primary orders goes through the chain, if in the window.
LEMMA OrderEffect ==
    ASSUME TypeInv, NEW r \in Replica, NEW q \in Request,
           sequence[r] < MaxSeq, OrderRequest(r, q)
    PROVE  /\ sequence[r] + 1 \in Seqs
           /\ sequence' = [sequence EXCEPT ![r] = sequence[r] + 1]
           /\ UNCHANGED <<view, stable_checkpoint, checkpoints, view_changes,
                          view_changing, view_change_due>>
           /\ \/ UNCHANGED <<log, executed, outgoing, delivered>>
              \/ LET s == sequence[r] + 1
                     sent == <<Ballot("PrePrepare", view[r], s, q),
                               Ballot("Prepare", view[r], s, q)>>
                 IN  sent \in Seq(Message) /\ ChainEffect(r, s, q, sent)
<1> DEFINE s == sequence[r] + 1
           v == view[r]
           inst == PrePrepared(r, GetOrCreateInstance(r, s), q)
           sent == <<Ballot("PrePrepare", v, s, q), Ballot("Prepare", v, s, q)>>
<1>1. s \in Seqs
  <2>1. sequence[r] \in 0 .. MaxSeq
    BY DEF TypeInv, TypeOK
  <2>2. sequence[r] < MaxSeq
    BY BoundsAssumption DEF OrderRequest, NextSequence
  <2> QED
    BY <2>1, <2>2, BoundsAssumption DEF Seqs
<1>2. v \in Views
  BY DEF TypeInv, TypeOK
<1>3. /\ sequence' = [sequence EXCEPT ![r] = s]
      /\ UNCHANGED <<view, stable_checkpoint, checkpoints, view_changes,
                     view_changing, view_change_due>>
      /\ \/ UNCHANGED <<log, executed, outgoing, delivered>>
         \/ TryAdvanceToPrepared(r, s, inst, sent)
  BY DEF OrderRequest, NextSequence
<1> HIDE DEF s, v
<1>4. inst \in Instance /\ PhaseOK(inst) /\ inst.digest = q
  <2>1. GetOrCreateInstance(r, s) \in Instance
    BY <1>1, GetOrCreateType
  <2> QED
    BY <2>1, BoundsAssumption DEF PrePrepared, Instance, Phase, PhaseOK
<1>5. sent \in Seq(Message)
  BY <1>1, <1>2 DEF Ballot, Message
<1> HIDE DEF inst, sent
<1>6. TryAdvanceToPrepared(r, s, inst, sent) => ChainEffect(r, s, q, sent)
  BY <1>1, <1>4, <1>5, PreparedEffect DEF TypeInv
<1> QED
  <2>1. CASE UNCHANGED <<log, executed, outgoing, delivered>>
    BY <1>1, <1>3, <2>1 DEF s
  <2>2. CASE TryAdvanceToPrepared(r, s, inst, sent)
    <3>1. sent \in Seq(Message) /\ ChainEffect(r, s, q, sent)
      BY <1>5, <1>6, <2>2
    <3>2. /\ s \in Seqs
          /\ sequence' = [sequence EXCEPT ![r] = s]
          /\ UNCHANGED <<view, stable_checkpoint, checkpoints, view_changes,
                         view_changing, view_change_due>>
      BY <1>1, <1>3
    <3> QED
      BY <3>1, <3>2, Zenon DEF s, v, sent
  <2> QED
    BY <1>3, <2>1, <2>2

\* process_message, whatever the message.
LEMMA HandlerType ==
    ASSUME TypeInv, NEW r \in Replica, NEW q \in Replica, NEW m \in Message,
           ProcessMessage(r, q, m)
    PROVE  HandlerTypeOK'
<1>1. HandlerTypeOK
  BY DEF TypeInv, TypeOK, HandlerTypeOK
<1>2. ASSUME Ignore PROVE HandlerTypeOK'
  BY <1>1, <1>2 DEF Ignore, HandlerTypeOK, PhasesOK, PhaseOK
<1>3. CASE \/ m.type = "PrePrepare" /\ HandlePrePrepare(r, q, m)
           \/ m.type = "Prepare" /\ HandlePrepare(r, q, m)
           \/ m.type = "Commit" /\ HandleCommit(r, q, m)
  <2>1. CASE ~Ignore
    <3>1. /\ UNCHANGED <<view, stable_checkpoint, checkpoints, view_changes,
                         view_changing>>
          /\ \E s \in Seqs, d \in Request \cup {None}, sent \in Seq(Message) :
                ChainEffect(r, s, d, sent)
      BY <1>3, <2>1, VoteEffect
    <3> QED
      BY <1>1, <3>1, ChainType DEF HandlerTypeOK
  <2> QED
    BY <1>2, <2>1
<1>4. CASE m.type = "Checkpoint" /\ HandleCheckpoint(r, q, m)
  <2>1. m.sequence \in Seqs
    BY <1>4 DEF Message
  <2>2. Seqs \subseteq 0 .. MaxSeq
    BY BoundsAssumption DEF Seqs
  <2>3. UNCHANGED <<view, executed, view_changes, view_changing, outgoing, delivered>>
    BY <1>4 DEF HandleCheckpoint
  <2> DEFINE s    == m.sequence
             seen == checkpoints[r][s] \cup {q}
  <2>4. seen \subseteq Replica
    BY <1>1, <2>1 DEF HandlerTypeOK
  <2>5. CASE BecomesStable(r, s, seen)
    <3>1. /\ stable_checkpoint' = [stable_checkpoint EXCEPT ![r] = s]
          /\ log' = [log EXCEPT ![r] = Retain(r, s)]
          /\ checkpoints' = [checkpoints EXCEPT ![r] = [i \in Seqs |->
                                IF i = s THEN seen
                                ELSE IF i > s THEN checkpoints[r][i] ELSE {}]]
      BY <1>4, <2>5 DEF HandleCheckpoint
    <3>2. stable_checkpoint' \in [Replica -> 0 .. MaxSeq]
      BY <1>1, <2>1, <2>2, <3>1 DEF HandlerTypeOK
    <3>3. /\ log' \in [Replica -> [Seqs -> Instance \cup {None}]]
          /\ \A p \in Replica, i \in Seqs : log'[p][i] \in {None, log[p][i]}
      BY <1>1, <3>1 DEF HandlerTypeOK, Retain
    <3>4. checkpoints' \in [Replica -> [Seqs -> SUBSET Replica]]
      BY <1>1, <2>4, <3>1 DEF HandlerTypeOK
    <3>5. PhasesOK'
      BY <1>1, <3>3 DEF HandlerTypeOK, PhasesOK, PhaseOK
    <3> QED
      BY <1>1, <2>3, <3>2, <3>3, <3>4, <3>5 DEF HandlerTypeOK
  <2>6. CASE ~BecomesStable(r, s, seen)
    <3>1. /\ checkpoints' = [checkpoints EXCEPT ![r][s] = seen]
          /\ UNCHANGED <<stable_checkpoint, log>>
      BY <1>4, <2>6 DEF HandleCheckpoint
    <3>2. checkpoints' \in [Replica -> [Seqs -> SUBSET Replica]]
      BY <1>1, <2>4, <3>1 DEF HandlerTypeOK
    <3> QED
      BY <1>1, <2>3, <3>1, <3>2 DEF HandlerTypeOK, PhasesOK, PhaseOK
  <2> QED
    BY <2>5, <2>6
<1>5. CASE m.type = "ViewChange" /\ HandleViewChange(r, q, m)
  <2>1. m.new_view \in Views
    BY <1>5 DEF Message
  <2> DEFINE v    == m.new_view
             seen == view_changes[r][v] \cup {q}
  <2>2. CASE ~IsOldView(r, v)
    <3>1. /\ view_changes' = [view_changes EXCEPT ![r][v] = seen]
          /\ \/ outgoing' = [outgoing EXCEPT ![r] = Append(@, ViewMsg("NewView", v))]
             \/ UNCHANGED outgoing
          /\ UNCHANGED <<view, stable_checkpoint, log, executed, checkpoints,
                         view_changing, delivered>>
      BY <1>5, <2>2 DEF HandleViewChange
    <3>2. view_changes' \in [Replica -> [Views -> SUBSET Replica]]
      BY <1>1, <2>1, <3>1 DEF HandlerTypeOK
    <3>3. outgoing' \in [Replica -> Seq(Message)]
      <4>1. ViewMsg("NewView", v) \in Message
        BY <2>1 DEF ViewMsg, Message
      <4> HIDE DEF v
      <4>2. outgoing \in [Replica -> Seq(Message)]
        BY <1>1 DEF HandlerTypeOK
      <4>3. [outgoing EXCEPT ![r] = Append(@, ViewMsg("NewView", v))]
                \in [Replica -> Seq(Message)]
        BY <4>1, <4>2, AppendType
      <4> QED
        BY <3>1, <4>2, <4>3
    <3> QED
      BY <1>1, <3>1, <3>2, <3>3 DEF HandlerTypeOK, PhasesOK, PhaseOK
  <2> QED
    BY <1>2, <1>5, <2>2 DEF HandleViewChange
<1>6. CASE m.type = "NewView" /\ HandleNewView(r, m)
  <2>1. m.new_view \in Views
    BY <1>6 DEF Message
  <2>2. CASE AcceptsNewView(r, m.new_view)
    <3> DEFINE v == m.new_view
               kept == [i \in Views |-> IF i > v THEN view_changes[r][i] ELSE {}]
    <3>1. /\ view' = [view EXCEPT ![r] = v]
          /\ view_changing' = [view_changing EXCEPT ![r] = FALSE]
          /\ view_changes' = [view_changes EXCEPT ![r] = kept]
          /\ UNCHANGED <<stable_checkpoint, log, executed, checkpoints, outgoing,
                         delivered>>
      BY <1>6, <2>2 DEF HandleNewView
    <3>2. view' \in [Replica -> Views]
      BY <1>1, <2>1, <3>1 DEF HandlerTypeOK
    <3>3. view_changing' \in [Replica -> BOOLEAN]
      BY <1>1, <3>1 DEF HandlerTypeOK
    <3>4. view_changes' \in [Replica -> [Views -> SUBSET Replica]]
      <4>1. kept \in [Views -> SUBSET Replica]
        BY <1>1 DEF HandlerTypeOK
      <4> HIDE DEF kept
      <4> QED
        BY <1>1, <3>1, <4>1 DEF HandlerTypeOK
    <3> QED
      BY <1>1, <3>1, <3>2, <3>3, <3>4 DEF HandlerTypeOK, PhasesOK, PhaseOK
  <2> QED
    BY <1>2, <1>6, <2>2 DEF HandleNewView
<1> QED
  BY <1>3, <1>4, <1>5, <1>6 DEF ProcessMessage

\* handle_request, at the primary or not, with what is left of the queues.
LEMMA RequestType ==
    ASSUME TypeInv, NEW r \in Replica, NEW q \in Request,
           NEW queue \in [Replica -> Seq([to : Replica, request : Request])],
           HandleRequest(r, q, queue)
    PROVE  /\ HandlerTypeOK'
           /\ sequence' \in [Replica -> 0 .. MaxSeq]
           /\ view_change_due' \in [Replica -> BOOLEAN]
           /\ forwarded' \in [Replica -> Seq([to : Replica, request : Request])]
<1>1. /\ HandlerTypeOK
      /\ sequence \in [Replica -> 0 .. MaxSeq]
      /\ view_change_due \in [Replica -> BOOLEAN]
  BY DEF TypeInv, TypeOK, HandlerTypeOK
<1>2. ASSUME UNCHANGED <<engineVars, outgoing, delivered>>
      PROVE  /\ HandlerTypeOK'
             /\ sequence' \in [Replica -> 0 .. MaxSeq]
             /\ view_change_due' \in [Replica -> BOOLEAN]
  BY <1>1, <1>2 DEF engineVars, HandlerTypeOK, PhasesOK, PhaseOK
<1>3. CASE ~IsPrimary(r) /\ Forward(r, q, queue)
  <2>1. view[r] \in Nat
    BY <1>1, BoundsAssumption DEF HandlerTypeOK, Views
  <2>2. [to |-> Primary(view[r]), request |-> q] \in [to : Replica, request : Request]
    BY <2>1, PrimaryType
  <2>3. forwarded' \in [Replica -> Seq([to : Replica, request : Request])]
    BY <1>3, <2>2, AppendType DEF Forward
  <2> QED
    BY <1>2, <1>3, <2>3 DEF Forward
<1>4. CASE /\ forwarded' = queue
           /\ UNCHANGED <<engineVars, outgoing, delivered>>
  BY <1>2, <1>4
<1>5. CASE /\ sequence[r] < MaxSeq
           /\ OrderRequest(r, q)
           /\ forwarded' = queue
  <2>1. /\ sequence[r] + 1 \in Seqs
        /\ sequence' = [sequence EXCEPT ![r] = sequence[r] + 1]
        /\ UNCHANGED <<view, stable_checkpoint, checkpoints, view_changes,
                       view_changing, view_change_due>>
        /\ \/ UNCHANGED <<log, executed, outgoing, delivered>>
           \/ \E sent \in Seq(Message) : ChainEffect(r, sequence[r] + 1, q, sent)
    BY <1>5, OrderEffect
  <2>2. sequence' \in [Replica -> 0 .. MaxSeq]
    BY <1>1, <2>1, BoundsAssumption DEF Seqs
  <2>3. HandlerTypeOK'
    <3>1. CASE UNCHANGED <<log, executed, outgoing, delivered>>
      BY <1>1, <2>1, <3>1 DEF HandlerTypeOK, PhasesOK, PhaseOK
    <3>2. CASE \E sent \in Seq(Message) : ChainEffect(r, sequence[r] + 1, q, sent)
      BY <1>1, <2>1, <3>2, ChainType DEF HandlerTypeOK
    <3> QED
      BY <2>1, <3>1, <3>2
  <2> QED
    BY <1>1, <1>5, <2>1, <2>2, <2>3
<1> QED
  BY <1>3, <1>4, <1>5 DEF HandleRequest

\* The message a replica reads next is one its sender has broadcast.
LEMMA NextMessage ==
    ASSUME TypeOK, NEW r \in Replica, NEW q \in Replica,
           received[r][q] < Len(outgoing[q])
    PROVE  /\ outgoing[q][received[r][q] + 1] \in Sent(q)
           /\ outgoing[q][received[r][q] + 1] \in Message
<1>1. outgoing[q] \in Seq(Message) /\ received[r][q] \in Nat
  BY DEF TypeOK
<1>2. received[r][q] + 1 \in 1 .. Len(outgoing[q])
  BY <1>1
<1> QED
  BY <1>1, <1>2 DEF Sent

\* Every step keeps the types.
LEMMA TypeStep == TypeInv /\ [Next]_vars => TypeInv'
<1> SUFFICES ASSUME TypeInv, [Next]_vars PROVE TypeInv'
  OBVIOUS
<1> DEFINE Kept == HandlerTypeOK' /\ SideTypeOK'
<1>h. HandlerTypeOK
  BY TypeParts
<1>s. SideTypeOK
  BY TypeParts
<1>1. ASSUME NEW r \in Replica, NEW q \in Request, Submit(r, q) PROVE Kept
  <2>1. /\ HandleRequest(r, q, forwarded)
        /\ submits < MaxSubmits /\ submits' = submits + 1
        /\ UNCHANGED <<up, peers, received, faults>>
    BY <1>1 DEF Submit, nodeVars
  <2>2. forwarded \in [Replica -> Seq([to : Replica, request : Request])]
    BY <1>s DEF SideTypeOK
  <2>3. submits' \in 0 .. MaxSubmits
    BY <1>s, <2>1, BoundsAssumption DEF SideTypeOK
  <2>4. /\ HandlerTypeOK'
        /\ sequence' \in [Replica -> 0 .. MaxSeq]
        /\ view_change_due' \in [Replica -> BOOLEAN]
        /\ forwarded' \in [Replica -> Seq([to : Replica, request : Request])]
    BY <2>1, <2>2, RequestType
  <2> QED
    BY <1>s, <2>1, <2>3, <2>4 DEF SideTypeOK
<1>2. ASSUME NEW r \in Replica, DeliverForwarded(r) PROVE Kept
  <2> DEFINE q == Head(forwarded[r])
             queue == [forwarded EXCEPT ![r] = Tail(@)]
  <2>1. /\ HandleRequest(q.to, q.request, queue)
        /\ forwarded[r] # << >>
        /\ UNCHANGED <<up, peers, received, submits, faults>>
    BY <1>2 DEF DeliverForwarded, nodeVars
  <2>2. forwarded \in [Replica -> Seq([to : Replica, request : Request])]
    BY <1>s DEF SideTypeOK
  <2>3. q \in [to : Replica, request : Request]
    BY <2>1, <2>2, QueueType
  <2>4. queue \in [Replica -> Seq([to : Replica, request : Request])]
    BY <2>1, <2>2, QueueType
  <2> HIDE DEF q, queue
  <2>5. /\ HandlerTypeOK'
        /\ sequence' \in [Replica -> 0 .. MaxSeq]
        /\ view_change_due' \in [Replica -> BOOLEAN]
        /\ forwarded' \in [Replica -> Seq([to : Replica, request : Request])]
    BY <2>1, <2>3, <2>4, RequestType
  <2> QED
    BY <1>s, <2>1, <2>5 DEF SideTypeOK
<1>3. ASSUME NEW r \in Replica, DropForwarded(r) PROVE Kept
  <2>1. forwarded' \in [Replica -> Seq([to : Replica, request : Request])]
    <3>1. forwarded \in [Replica -> Seq([to : Replica, request : Request])]
      BY <1>s DEF SideTypeOK
    <3> QED
      BY <1>3, <3>1, QueueType DEF DropForwarded
  <2>2. UNCHANGED <<engineVars, outgoing, delivered, nodeVars, received, submits, faults>>
    BY <1>3 DEF DropForwarded
  <2>3. HandlerTypeOK'
    BY <1>h, <2>2, HandlerTypeKept DEF engineVars
  <2> QED
    BY <1>s, <2>1, <2>2, <2>3 DEF SideTypeOK, engineVars, nodeVars
<1>4. ASSUME NEW r \in Replica, NEW q \in Replica, Deliver(r, q) PROVE Kept
  <2>1. ProcessMessage(r, q, outgoing[q][received[r][q] + 1])
    BY <1>4 DEF Deliver
  <2>2. outgoing[q][received[r][q] + 1] \in Message
    BY <1>4, NextMessage DEF Deliver, TypeInv
  <2>3. HandlerTypeOK'
    BY <2>1, <2>2, HandlerType
  <2>4. received' \in [Replica -> [Replica -> Nat]]
    BY <1>4, <1>s DEF Deliver, SideTypeOK
  <2>5. UNCHANGED <<sequence, view_change_due, forwarded, up, peers, submits, faults>>
    BY <1>4 DEF Deliver, Frame, nodeVars
  <2> QED
    BY <1>s, <2>3, <2>4, <2>5 DEF SideTypeOK
<1>5. ASSUME NEW r \in Replica, CheckTimeout(r) PROVE Kept
  <2>1. view_change_due' \in [Replica -> BOOLEAN]
    BY <1>5, <1>s DEF CheckTimeout, SideTypeOK
  <2>2. UNCHANGED <<view, sequence, stable_checkpoint, log, executed, checkpoints,
                    view_changes, view_changing, outgoing, forwarded, delivered,
                    up, peers, received, submits, faults>>
    BY <1>5 DEF CheckTimeout, channelVars, nodeVars
  <2>3. HandlerTypeOK'
    BY <1>h, <2>2, HandlerTypeKept
  <2> QED
    BY <1>s, <2>1, <2>2, <2>3 DEF SideTypeOK
<1>6. ASSUME NEW r \in Replica, StartViewChange(r) PROVE Kept
  <2>1. UNCHANGED <<view, sequence, stable_checkpoint, log, executed, checkpoints,
                    forwarded, delivered, up, peers, received, submits, faults>>
    BY <1>6 DEF StartViewChange, NextView, nodeVars
  <2>2. view_change_due' \in [Replica -> BOOLEAN]
    BY <1>6, <1>s DEF StartViewChange, NextView, SideTypeOK
  <2>3. view[r] + 1 \in Views
    BY <1>6, <1>h, BoundsAssumption DEF StartViewChange, NextView, HandlerTypeOK, Views
  <2>4. ViewMsg("ViewChange", view[r] + 1) \in Message
    BY <2>3 DEF ViewMsg, Message
  <2>5. /\ view_changing' \in [Replica -> BOOLEAN]
        /\ view_changes' \in [Replica -> [Views -> SUBSET Replica]]
        /\ outgoing' \in [Replica -> Seq(Message)]
    <3>0. /\ view_changing \in [Replica -> BOOLEAN]
          /\ view_changes \in [Replica -> [Views -> SUBSET Replica]]
          /\ outgoing \in [Replica -> Seq(Message)]
      BY <1>h DEF HandlerTypeOK
    <3>1. CASE view_changing[r]
      BY <1>6, <3>0, <3>1 DEF StartViewChange, NextView
    <3>2. CASE ~view_changing[r]
      <4>1. /\ view_changing' = [view_changing EXCEPT ![r] = TRUE]
            /\ view_changes' = [view_changes EXCEPT ![r][view[r] + 1] = @ \cup {r}]
            /\ outgoing' = [outgoing EXCEPT ![r] =
                               Append(@, ViewMsg("ViewChange", view[r] + 1))]
        BY <1>6, <3>2 DEF StartViewChange, NextView
      <4>2. outgoing' \in [Replica -> Seq(Message)]
        BY <2>4, <3>0, <4>1, AppendType
      <4>3. view_changing' \in [Replica -> BOOLEAN]
        BY <3>0, <4>1
      <4>4. view_changes' \in [Replica -> [Views -> SUBSET Replica]]
        BY <2>3, <3>0, <4>1
      <4> QED
        BY <4>2, <4>3, <4>4
    <3> QED
      BY <3>1, <3>2
  <2>6. HandlerTypeOK'
    <3>1. PhasesOK'
      BY <1>h, <2>1 DEF HandlerTypeOK, PhasesOK, PhaseOK
    <3> QED
      BY <1>h, <2>1, <2>5, <3>1 DEF HandlerTypeOK
  <2> QED
    BY <1>s, <2>1, <2>2, <2>6 DEF SideTypeOK
<1>7. ASSUME NEW r \in Replica, Crash(r) PROVE Kept
  <2>1. up' \in [Replica -> BOOLEAN] /\ peers' \in [Replica -> SUBSET Replica]
    BY <1>7, <1>s DEF Crash, SideTypeOK
  <2>2. faults' \in 0 .. MaxFaults
    BY <1>7, <1>s, BoundsAssumption DEF Crash, SideTypeOK
  <2>3. UNCHANGED <<engineVars, channelVars, received, submits>>
    BY <1>7 DEF Crash
  <2>4. HandlerTypeOK'
    BY <1>h, <2>3, HandlerTypeKept DEF engineVars, channelVars
  <2> QED
    BY <1>s, <2>1, <2>2, <2>3, <2>4 DEF SideTypeOK, engineVars, channelVars
<1>8. ASSUME NEW r \in Replica, Restart(r) PROVE Kept
  <2>1. /\ view' \in [Replica -> Views]
        /\ sequence' \in [Replica -> 0 .. MaxSeq]
        /\ stable_checkpoint' \in [Replica -> 0 .. MaxSeq]
        /\ executed' \in [Replica -> SUBSET Request]
    <3>1. 0 \in Views /\ 0 \in 0 .. MaxSeq
      BY BoundsAssumption DEF Views
    <3>2. view' \in [Replica -> Views] /\ stable_checkpoint' \in [Replica -> 0 .. MaxSeq]
      BY <1>8, <1>h, <3>1 DEF Restart, HandlerTypeOK
    <3>3. sequence' \in [Replica -> 0 .. MaxSeq]
      BY <1>8, <1>s, <3>1 DEF Restart, SideTypeOK
    <3>4. executed' \in [Replica -> SUBSET Request]
      BY <1>8, <1>h DEF Restart, HandlerTypeOK
    <3> QED
      BY <3>2, <3>3, <3>4
  <2>2. /\ log' \in [Replica -> [Seqs -> Instance \cup {None}]]
        /\ \A p \in Replica, s \in Seqs : log'[p][s] \in {None, log[p][s]}
    BY <1>8, <1>h DEF Restart, HandlerTypeOK
  <2>3. /\ checkpoints' \in [Replica -> [Seqs -> SUBSET Replica]]
        /\ view_changes' \in [Replica -> [Views -> SUBSET Replica]]
    BY <1>8, <1>h DEF Restart, HandlerTypeOK
  <2>4. /\ view_changing' \in [Replica -> BOOLEAN]
        /\ view_change_due' \in [Replica -> BOOLEAN]
        /\ up' \in [Replica -> BOOLEAN]
    BY <1>8, <1>h, <1>s DEF Restart, HandlerTypeOK, SideTypeOK
  <2>5. forwarded' \in [Replica -> Seq([to : Replica, request : Request])]
    <3>1. forwarded \in [Replica -> Seq([to : Replica, request : Request])]
      BY <1>s DEF SideTypeOK
    <3> QED
      BY <1>8, <3>1, QueueType DEF Restart
  <2>6. received' \in [Replica -> [Replica -> Nat]]
    <3>1. Len(outgoing[r]) \in Nat
      BY <1>h DEF HandlerTypeOK
    <3> QED
      BY <1>8, <1>s, <3>1 DEF Restart, SideTypeOK
  <2>7. PhasesOK'
    BY <1>h, <2>2 DEF HandlerTypeOK, PhasesOK, PhaseOK
  <2>8. UNCHANGED <<outgoing, delivered, submits, faults>> /\ peers' \in [Replica -> SUBSET Replica]
    BY <1>8, <1>s DEF Restart, SideTypeOK
  <2>9. HandlerTypeOK'
    BY <1>h, <2>1, <2>2, <2>3, <2>4, <2>7, <2>8 DEF HandlerTypeOK
  <2> QED
    BY <1>s, <2>1, <2>4, <2>5, <2>6, <2>8, <2>9 DEF SideTypeOK
<1>9. ASSUME NEW q \in Replica, NEW r \in Replica, Connect(q, r) PROVE Kept
  <2>1. peers' \in [Replica -> SUBSET Replica]
    BY <1>9, <1>s DEF Connect, SideTypeOK
  <2>2. received' \in [Replica -> [Replica -> Nat]]
    <3>1. PICK k \in 0 .. Len(outgoing[q]) : received' = [received EXCEPT ![r][q] = k]
      BY <1>9 DEF Connect
    <3>2. k \in Nat
      BY <1>h, <3>1 DEF HandlerTypeOK
    <3> QED
      BY <1>s, <3>1, <3>2 DEF SideTypeOK
  <2>3. UNCHANGED <<engineVars, channelVars, up, submits, faults>>
    BY <1>9 DEF Connect
  <2>4. HandlerTypeOK'
    BY <1>h, <2>3, HandlerTypeKept DEF engineVars, channelVars
  <2> QED
    BY <1>s, <2>1, <2>2, <2>3, <2>4 DEF SideTypeOK, engineVars, channelVars
<1>10. ASSUME NEW q \in Replica, NEW r \in Replica, Disconnect(q, r) PROVE Kept
  <2>1. peers' \in [Replica -> SUBSET Replica] /\ faults' \in 0 .. MaxFaults
    BY <1>10, <1>s, BoundsAssumption DEF Disconnect, SideTypeOK
  <2>2. UNCHANGED <<engineVars, channelVars, up, received, submits>>
    BY <1>10 DEF Disconnect
  <2>3. HandlerTypeOK'
    BY <1>h, <2>2, HandlerTypeKept DEF engineVars, channelVars
  <2> QED
    BY <1>s, <2>1, <2>2, <2>3 DEF SideTypeOK, engineVars, channelVars
<1>11. ASSUME UNCHANGED vars PROVE Kept
  <2>1. HandlerTypeOK'
    BY <1>11, <1>h, HandlerTypeKept DEF vars, engineVars, channelVars
  <2> QED
    BY <1>11, <1>s, <2>1 DEF vars, engineVars, channelVars, nodeVars, SideTypeOK
<1>12. Kept
  <2> HIDE DEF Kept
  <2> QED
    BY <1>1, <1>2, <1>3, <1>4, <1>5, <1>6, <1>7, <1>8, <1>9, <1>10, <1>11 DEF Next
<1> QED
  BY <1>12, TypeParts

\* The view a view change asks for exists.
LEMMA NextViewType ==
    ASSUME TypeInv, NEW r \in Replica, StartViewChange(r)
    PROVE  view[r] + 1 \in Views
<1>1. view[r] \in Views
  BY TypeParts DEF HandlerTypeOK
<1>2. view[r] < MaxView
  BY DEF StartViewChange, NextView
<1> QED
  BY <1>1, <1>2, BoundsAssumption DEF Views

\* The initial state is well typed.
LEMMA TypeInit == Init => TypeInv
<1> SUFFICES ASSUME Init PROVE TypeInv
  OBVIOUS
<1>1. 0 \in Views /\ 0 \in 0 .. MaxSeq /\ 0 \in 0 .. MaxSubmits /\ 0 \in 0 .. MaxFaults
  BY BoundsAssumption DEF Views
<1>2. \A S : << >> \in Seq(S)
  OBVIOUS
<1> QED
  BY <1>1, <1>2, BoundsAssumption DEF Init, TypeInv, TypeOK, PhasesOK

\* Every variable of the engine and of its surroundings keeps its type in
\* every reachable state, and an instance past Idle has a pre-prepare.
THEOREM TypeCorrect == Spec => [](TypeOK /\ PhasesOK)
<1>1. Spec => []TypeInv
  BY TypeInit, TypeStep, PTL DEF Spec
<1> QED
  BY <1>1, PTL DEF TypeInv

-----------------------------------------------------------------------------
(* Only the first primary orders requests *)

\* The chain broadcasts `sent` and, beyond it, only a Commit and a Checkpoint.
LEMMA ChainSent ==
    ASSUME TypeInv, NEW r \in Replica, NEW s \in Seqs,
           NEW d \in Request \cup {None}, NEW sent \in Seq(Message),
           ChainEffect(r, s, d, sent)
    PROVE  /\ \A p \in Replica : Sent(p) \subseteq Sent(p)'
           /\ \A p \in Replica \ {r} : Sent(p)' = Sent(p)
           /\ \A m \in Sent(r)' :
                 \/ m \in Sent(r)
                 \/ m.type \in {"Commit", "Checkpoint"}
                 \/ \E j \in 1 .. Len(sent) : m = sent[j]
           /\ \A j \in 1 .. Len(sent) : sent[j] \in Sent(r)'
<1>1. PICK out \in Seq(Message) :
          /\ outgoing' = [outgoing EXCEPT ![r] = @ \o out]
          /\ \A i \in 1 .. Len(out) :
                \/ out[i].type \in {"Commit", "Checkpoint"}
                \/ \E j \in 1 .. Len(sent) : out[i] = sent[j]
          /\ \A j \in 1 .. Len(sent) : \E i \in 1 .. Len(out) : out[i] = sent[j]
  BY Zenon DEF ChainEffect
<1>2. outgoing \in [Replica -> Seq(Message)]
  BY DEF TypeInv, TypeOK
<1>3. /\ \A q \in Replica : Sent(q) \subseteq Sent(q)'
      /\ \A q \in Replica \ {r} : Sent(q)' = Sent(q)
      /\ \A m \in Sent(r)' : m \in Sent(r) \/ \E i \in 1 .. Len(out) : m = out[i]
      /\ \A i \in 1 .. Len(out) : out[i] \in Sent(r)'
  BY <1>1, <1>2, SentAppend
<1>4. \A m \in Sent(r)' : \/ m \in Sent(r)
                         \/ m.type \in {"Commit", "Checkpoint"}
                         \/ \E j \in 1 .. Len(sent) : m = sent[j]
  <2> SUFFICES ASSUME NEW m \in Sent(r)', m \notin Sent(r), m.type \notin {"Commit", "Checkpoint"}
               PROVE  \E j \in 1 .. Len(sent) : m = sent[j]
    OBVIOUS
  <2>1. PICK i \in 1 .. Len(out) : m = out[i]
    BY <1>3
  <2> QED
    BY <1>1, <2>1
<1>5. \A j \in 1 .. Len(sent) : sent[j] \in Sent(r)'
  BY <1>1, <1>3
<1> QED
  BY <1>3, <1>4, <1>5

\* One message more.
LEMMA SendOne ==
    ASSUME TypeInv, NEW r \in Replica, NEW m \in Message,
           outgoing' = [outgoing EXCEPT ![r] = Append(@, m)]
    PROVE  /\ \A p \in Replica : Sent(p) \subseteq Sent(p)'
           /\ \A p \in Replica \ {r} : Sent(p)' = Sent(p)
           /\ \A l \in Sent(r)' : l \in Sent(r) \/ l = m
<1>1. outgoing \in [Replica -> Seq(Message)]
  BY DEF TypeInv, TypeOK
<1> DEFINE out == <<m>>
<1>2. out \in Seq(Message) /\ Len(out) = 1 /\ out[1] = m
  OBVIOUS
<1>3. outgoing' = [outgoing EXCEPT ![r] = @ \o out]
  <2>1. outgoing[r] \in Seq(Message)
    BY <1>1
  <2>2. Append(outgoing[r], m) = outgoing[r] \o <<m>>
    BY <2>1
  <2> QED
    BY <2>2
<1> HIDE DEF out
<1>4. /\ \A q \in Replica : Sent(q) \subseteq Sent(q)'
      /\ \A q \in Replica \ {r} : Sent(q)' = Sent(q)
      /\ \A l \in Sent(r)' : l \in Sent(r) \/ \E i \in 1 .. Len(out) : l = out[i]
  BY <1>1, <1>2, <1>3, SentAppend
<1> QED
  BY <1>2, <1>4

\* What process_message may broadcast and how it may change the view.
LEMMA HandlerSent ==
    ASSUME TypeInv, NEW r \in Replica, NEW q \in Replica, NEW m \in Message,
           ProcessMessage(r, q, m)
    PROVE  /\ \A p \in Replica : Sent(p) \subseteq Sent(p)'
           /\ \A p \in Replica \ {r} : Sent(p)' = Sent(p)
           /\ \A l \in Sent(r)' :
                 \/ l \in Sent(r)
                 \/ l.type \in {"Prepare", "Commit", "Checkpoint"}
                 \/ l.type = "NewView" /\ Primary(l.new_view) = r
           /\ \/ view' = view
              \/ m.type = "NewView" /\ view' = [view EXCEPT ![r] = m.new_view]
<1>1. CASE outgoing' = outgoing /\ view' = view
  BY <1>1 DEF Sent
<1>2. CASE \/ m.type = "PrePrepare" /\ HandlePrePrepare(r, q, m)
           \/ m.type = "Prepare" /\ HandlePrepare(r, q, m)
           \/ m.type = "Commit" /\ HandleCommit(r, q, m)
  <2>1. CASE Ignore
    BY <1>1, <2>1 DEF Ignore
  <2>2. CASE ~Ignore
    <3>1. view' = view
      BY <1>2, <2>2, VoteEffect
    <3>2. PICK s \in Seqs, d \in Request \cup {None}, sent \in Seq(Message) :
              /\ ChainEffect(r, s, d, sent)
              /\ \A j \in 1 .. Len(sent) : sent[j].type = "Prepare"
              /\ \/ d = None
                 \/ log[r][s] # None /\ log[r][s].digest = d
                 \/ m.type = "PrePrepare" /\ m.sequence = s /\ m.digest = d
      BY <1>2, <2>2, VoteEffect
    <3> QED
      BY <3>1, <3>2, ChainSent
  <2> QED
    BY <2>1, <2>2
<1>3. CASE m.type = "Checkpoint" /\ HandleCheckpoint(r, q, m)
  BY <1>1, <1>3 DEF HandleCheckpoint
<1>4. CASE m.type = "ViewChange" /\ HandleViewChange(r, q, m)
  <2>1. m.new_view \in Views
    BY <1>4 DEF Message
  <2>2. CASE outgoing' = outgoing
    BY <1>1, <1>4, <2>2 DEF HandleViewChange, Ignore
  <2>3. CASE outgoing' # outgoing
    <3>1. /\ outgoing' = [outgoing EXCEPT ![r] =
                             Append(@, ViewMsg("NewView", m.new_view))]
          /\ Primary(m.new_view) = r
          /\ view' = view
      BY <1>4, <2>3 DEF HandleViewChange, Ignore
    <3>2. /\ ViewMsg("NewView", m.new_view) \in Message
          /\ ViewMsg("NewView", m.new_view).type = "NewView"
          /\ ViewMsg("NewView", m.new_view).new_view = m.new_view
      BY <2>1 DEF ViewMsg, Message
    <3> QED
      BY <3>1, <3>2, SendOne
  <2> QED
    BY <2>2, <2>3
<1>5. CASE m.type = "NewView" /\ HandleNewView(r, m)
  <2>1. /\ outgoing' = outgoing
        /\ view' = view \/ view' = [view EXCEPT ![r] = m.new_view]
    BY <1>5 DEF HandleNewView, Ignore
  <2> QED
    BY <1>5, <2>1 DEF Sent
<1> QED
  BY <1>2, <1>3, <1>4, <1>5 DEF ProcessMessage

\* What handle_request may broadcast: a pre-prepare only as the primary, with
\* the sequence number it has just consumed.
LEMMA RequestSent ==
    ASSUME TypeInv, NEW r \in Replica, NEW q \in Request, NEW queue,
           HandleRequest(r, q, queue)
    PROVE  /\ view' = view
           /\ \A p \in Replica : Sent(p) \subseteq Sent(p)'
           /\ \A p \in Replica \ {r} : Sent(p)' = Sent(p) /\ sequence'[p] = sequence[p]
           /\ sequence'[r] >= sequence[r]
           /\ \A l \in Sent(r)' :
                 \/ l \in Sent(r)
                 \/ l.type \in {"Prepare", "Commit", "Checkpoint"}
                 \/ /\ IsPrimary(r)
                    /\ sequence'[r] = sequence[r] + 1
                    /\ l = Ballot("PrePrepare", view[r], sequence'[r], q)
<1>1. sequence \in [Replica -> 0 .. MaxSeq]
  BY DEF TypeInv, TypeOK
<1>2. CASE UNCHANGED <<engineVars, outgoing, delivered>>
  BY <1>1, <1>2 DEF engineVars, Sent
<1>3. CASE IsPrimary(r) /\ sequence[r] < MaxSeq /\ OrderRequest(r, q)
  <2> DEFINE s == sequence[r] + 1
             sent == <<Ballot("PrePrepare", view[r], s, q),
                       Ballot("Prepare", view[r], s, q)>>
  <2>1. /\ s \in Seqs
        /\ sequence' = [sequence EXCEPT ![r] = s]
        /\ view' = view
        /\ \/ outgoing' = outgoing
           \/ sent \in Seq(Message) /\ ChainEffect(r, s, q, sent)
    BY <1>3, OrderEffect
  <2>2. /\ \A p \in Replica \ {r} : sequence'[p] = sequence[p]
        /\ sequence'[r] = s /\ s >= sequence[r]
    BY <1>1, <2>1
  <2>3. \A j \in 1 .. Len(sent) :
            \/ sent[j] = Ballot("PrePrepare", view[r], s, q)
            \/ sent[j].type = "Prepare"
    BY DEF Ballot
  <2> HIDE DEF sent
  <2>4. CASE outgoing' = outgoing
    BY <2>1, <2>2, <2>4 DEF Sent
  <2>5. CASE sent \in Seq(Message) /\ ChainEffect(r, s, q, sent)
    <3>1. /\ \A p \in Replica : Sent(p) \subseteq Sent(p)'
          /\ \A p \in Replica \ {r} : Sent(p)' = Sent(p)
          /\ \A m \in Sent(r)' :
                \/ m \in Sent(r)
                \/ m.type \in {"Commit", "Checkpoint"}
                \/ \E j \in 1 .. Len(sent) : m = sent[j]
      BY <2>1, <2>5, ChainSent
    <3> HIDE DEF s
    <3> QED
      BY <1>3, <2>1, <2>2, <2>3, <3>1 DEF s
  <2> QED
    BY <2>1, <2>4, <2>5
<1> QED
  BY <1>2, <1>3 DEF HandleRequest, Forward

\* A step that neither sends, nor changes views, nor adds a self connection.
LEMMA ViewFrame ==
    ASSUME ViewInv, outgoing' = outgoing,
           \A r \in Replica : view'[r] = view[r] \/ view'[r] = 0,
           NeverOwnPeer'
    PROVE  ViewInv'
<1>1. \A r \in Replica : Sent(r)' = Sent(r)
  BY DEF Sent
<1> QED
  BY <1>1 DEF ViewInv, NewViewsFromPrimary, NeverNewPrimary, SingleOrderer

\* Every step preserves ViewInv.
LEMMA ViewStep == TypeInv /\ ViewInv /\ [Next]_vars => ViewInv'
<1> SUFFICES ASSUME TypeInv, ViewInv, [Next]_vars PROVE ViewInv'
  OBVIOUS
<1>1. ASSUME NEW r \in Replica, NEW q \in Request, NEW queue,
             HandleRequest(r, q, queue), peers' = peers
      PROVE  ViewInv'
  <2>1. /\ view' = view
        /\ \A p \in Replica \ {r} : Sent(p)' = Sent(p)
        /\ \A l \in Sent(r)' :
              \/ l \in Sent(r)
              \/ l.type \in {"Prepare", "Commit", "Checkpoint"}
              \/ IsPrimary(r) /\ l.type = "PrePrepare" /\ l.view = view[r]
    BY <1>1, RequestSent DEF Ballot
  <2>2. IsPrimary(r) => view[r] = 0 /\ r = Primary(0)
    BY DEF IsPrimary, ViewInv, NeverNewPrimary
  <2>3. NeverOwnPeer' /\ NeverNewPrimary'
    BY <1>1, <2>1 DEF ViewInv, NeverOwnPeer, NeverNewPrimary
  <2>4. NewViewsFromPrimary'
    BY <2>1 DEF ViewInv, NewViewsFromPrimary
  <2>5. SingleOrderer'
    BY <2>1, <2>2 DEF ViewInv, SingleOrderer
  <2> QED
    BY <2>3, <2>4, <2>5 DEF ViewInv
<1>2. ASSUME NEW r \in Replica, NEW q \in Request, Submit(r, q) PROVE ViewInv'
  BY <1>1, <1>2 DEF Submit, nodeVars
<1>3. ASSUME NEW r \in Replica, DeliverForwarded(r) PROVE ViewInv'
  <2>1. forwarded \in [Replica -> Seq([to : Replica, request : Request])]
    BY DEF TypeInv, TypeOK
  <2>2. Head(forwarded[r]) \in [to : Replica, request : Request]
    BY <1>3, <2>1, QueueType DEF DeliverForwarded
  <2> QED
    BY <1>1, <1>3, <2>2 DEF DeliverForwarded, nodeVars
<1>4. ASSUME NEW r \in Replica, DropForwarded(r) PROVE ViewInv'
  BY <1>4, ViewFrame DEF DropForwarded, engineVars, nodeVars, ViewInv, NeverOwnPeer
<1>5. ASSUME NEW r \in Replica, NEW q \in Replica, Deliver(r, q) PROVE ViewInv'
  <2> DEFINE m == outgoing[q][received[r][q] + 1]
  <2>1. ProcessMessage(r, q, m) /\ r \in peers[q] /\ peers' = peers
    BY <1>5 DEF Deliver, nodeVars
  <2>2. m \in Sent(q) /\ m \in Message
    BY <1>5, NextMessage DEF Deliver, TypeInv
  <2> HIDE DEF m
  <2>3. /\ \A p \in Replica \ {r} : Sent(p)' = Sent(p)
        /\ \A l \in Sent(r)' :
              \/ l \in Sent(r)
              \/ l.type \in {"Prepare", "Commit", "Checkpoint"}
              \/ l.type = "NewView" /\ Primary(l.new_view) = r
        /\ \/ view' = view
           \/ m.type = "NewView" /\ view' = [view EXCEPT ![r] = m.new_view]
    BY <2>1, <2>2, HandlerSent
  <2>4. NeverOwnPeer'
    BY <2>1 DEF ViewInv, NeverOwnPeer
  <2>5. NewViewsFromPrimary' /\ SingleOrderer'
    BY <2>3 DEF ViewInv, NewViewsFromPrimary, SingleOrderer
  <2>6. NeverNewPrimary'
    <3>1. CASE view' = view
      BY <3>1 DEF ViewInv, NeverNewPrimary
    <3>2. CASE m.type = "NewView" /\ view' = [view EXCEPT ![r] = m.new_view]
      <4>1. q # r
        BY <2>1 DEF ViewInv, NeverOwnPeer
      <4>2. Primary(m.new_view) = q
        BY <2>2, <3>2 DEF ViewInv, NewViewsFromPrimary
      <4>3. view \in [Replica -> Views]
        BY DEF TypeInv, TypeOK
      <4> QED
        BY <3>2, <4>1, <4>2, <4>3 DEF ViewInv, NeverNewPrimary
    <3> QED
      BY <2>3, <3>1, <3>2
  <2> QED
    BY <2>4, <2>5, <2>6 DEF ViewInv
<1>6. ASSUME NEW r \in Replica, CheckTimeout(r) PROVE ViewInv'
  BY <1>6, ViewFrame DEF CheckTimeout, channelVars, nodeVars, ViewInv, NeverOwnPeer
<1>7. ASSUME NEW r \in Replica, StartViewChange(r) PROVE ViewInv'
  <2>1. view' = view /\ peers' = peers
    BY <1>7 DEF StartViewChange, NextView, nodeVars
  <2>2. CASE outgoing' = outgoing
    BY <2>1, <2>2, ViewFrame DEF ViewInv, NeverOwnPeer
  <2>3. CASE outgoing' # outgoing
    <3> DEFINE m == ViewMsg("ViewChange", view[r] + 1)
    <3>1. outgoing' = [outgoing EXCEPT ![r] = Append(@, m)]
      BY <1>7, <2>3 DEF StartViewChange, NextView
    <3>2. m \in Message /\ m.type = "ViewChange"
      <4>1. view[r] + 1 \in Views
        BY <1>7, NextViewType
      <4> QED
        BY <4>1 DEF ViewMsg, Message
    <3> HIDE DEF m
    <3>3. /\ \A p \in Replica \ {r} : Sent(p)' = Sent(p)
          /\ \A l \in Sent(r)' : l \in Sent(r) \/ l = m
      BY <3>1, <3>2, SendOne
    <3>4. NewViewsFromPrimary' /\ SingleOrderer'
      BY <3>2, <3>3 DEF ViewInv, NewViewsFromPrimary, SingleOrderer
    <3> QED
      BY <2>1, <3>4 DEF ViewInv, NeverOwnPeer, NeverNewPrimary
  <2> QED
    BY <2>2, <2>3
<1>8. ASSUME NEW r \in Replica, Crash(r) PROVE ViewInv'
  <2>1. NeverOwnPeer'
    BY <1>8 DEF Crash, ViewInv, NeverOwnPeer
  <2> QED
    BY <1>8, <2>1, ViewFrame DEF Crash, engineVars, channelVars
<1>9. ASSUME NEW r \in Replica, Restart(r) PROVE ViewInv'
  <2>1. NeverOwnPeer'
    BY <1>9 DEF Restart, ViewInv, NeverOwnPeer
  <2>2. \A p \in Replica : view'[p] = view[p] \/ view'[p] = 0
    BY <1>9 DEF Restart, TypeInv, TypeOK
  <2> QED
    BY <1>9, <2>1, <2>2, ViewFrame DEF Restart
<1>10. ASSUME NEW q \in Replica, NEW r \in Replica, Connect(q, r) PROVE ViewInv'
  <2>1. NeverOwnPeer'
    BY <1>10 DEF Connect, ViewInv, NeverOwnPeer, TypeInv, TypeOK
  <2> QED
    BY <1>10, <2>1, ViewFrame DEF Connect, engineVars, channelVars
<1>11. ASSUME NEW q \in Replica, NEW r \in Replica, Disconnect(q, r) PROVE ViewInv'
  <2>1. NeverOwnPeer'
    BY <1>11 DEF Disconnect, ViewInv, NeverOwnPeer, TypeInv, TypeOK
  <2> QED
    BY <1>11, <2>1, ViewFrame DEF Disconnect, engineVars, channelVars
<1>12. ASSUME UNCHANGED vars PROVE ViewInv'
  BY <1>12, ViewFrame
  DEF vars, engineVars, channelVars, nodeVars, ViewInv, NeverOwnPeer
<1> QED
  BY <1>2, <1>3, <1>4, <1>5, <1>6, <1>7, <1>8, <1>9, <1>10, <1>11, <1>12 DEF Next

\* Nothing has been sent and nobody is its own peer at the start.
LEMMA ViewInit == Init => ViewInv
  BY DEF Init, ViewInv, NeverOwnPeer, NewViewsFromPrimary, NeverNewPrimary,
         SingleOrderer, Sent

\* Whatever the faults and the view changes, only the first replica of the
\* list ever pre-prepares a request, and only in view 0; no replica is ever in
\* a later view whose primary it is.
THEOREM OneOrderer == Spec => [](SingleOrderer /\ NeverNewPrimary)
<1>1. Spec => []TypeInv
  BY TypeInit, TypeStep, PTL DEF Spec
<1>2. Spec => []ViewInv
  BY ViewInit, ViewStep, <1>1, PTL DEF Spec
<1> QED
  BY <1>2, PTL DEF ViewInv

-----------------------------------------------------------------------------
(* Agreement *)

\* Broadcasts have the type of messages.
LEMMA SentType == ASSUME TypeInv PROVE \A p \in Replica : Sent(p) \subseteq Message
  BY DEF TypeInv, TypeOK, Sent

\* Execution adds one entry.
LEMMA DeliveredAppend ==
    ASSUME TypeInv, NEW r \in Replica,
           NEW e \in [sequence : Seqs, request : Request],
           delivered' = [delivered EXCEPT ![r] = Append(@, e)]
    PROVE  /\ \A p \in Replica \ {r} : Delivered(p)' = Delivered(p)
           /\ \A d \in Delivered(r)' : d \in Delivered(r) \/ d = e
<1> DEFINE E == [sequence : Seqs, request : Request]
<1>1. delivered \in [Replica -> Seq(E)]
  BY DEF TypeInv, TypeOK
<1> HIDE DEF E
<1>2. delivered[r] \in Seq(E) /\ delivered'[r] = Append(delivered[r], e)
  BY <1>1
<1>3. \A p \in Replica \ {r} : delivered'[p] = delivered[p]
  BY <1>1
<1>4. /\ Len(delivered'[r]) = Len(delivered[r]) + 1
      /\ Len(delivered[r]) \in Nat
      /\ \A j \in 1 .. Len(delivered[r]) : delivered'[r][j] = delivered[r][j]
      /\ delivered'[r][Len(delivered[r]) + 1] = e
  BY <1>2
<1>5. ASSUME NEW j \in 1 .. Len(delivered'[r])
      PROVE  delivered'[r][j] \in Delivered(r) \/ delivered'[r][j] = e
  <2>1. j \in 1 .. Len(delivered[r]) \/ j = Len(delivered[r]) + 1
    BY <1>4
  <2> QED
    BY <1>4, <2>1 DEF Delivered
<1> QED
  BY <1>3, <1>5 DEF Delivered

\* If what the chain stores and executes is ordered, the invariants on logs and
\* executions are kept.
LEMMA ChainOrdered ==
    ASSUME TypeInv, InstancesOrdered, DeliveredOrdered,
           NEW r \in Replica, NEW s \in Seqs,
           NEW d \in Request \cup {None}, NEW sent \in Seq(Message),
           ChainEffect(r, s, d, sent),
           d # None => Ordered(s, d)'
    PROVE  InstancesOrdered' /\ DeliveredOrdered'
<1>1. PICK fin \in Instance :
          /\ log' = [log EXCEPT ![r][s] = fin]
          /\ fin.digest = d
          /\ \/ delivered' = delivered
             \/ /\ d # None
                /\ delivered' = [delivered EXCEPT ![r] =
                                    Append(@, [sequence |-> s, request |-> d])]
  BY DEF ChainEffect
<1>2. Primary(0) \in Replica
  BY PrimaryType
<1>3. Sent(Primary(0)) \subseteq Sent(Primary(0))'
  BY <1>2, ChainSent
<1>4. \A i, e : Ordered(i, e) => Ordered(i, e)'
  BY <1>3 DEF Ordered, HasSent
<1>5. log \in [Replica -> [Seqs -> Instance \cup {None}]]
  BY DEF TypeInv, TypeOK
<1>6. InstancesOrdered'
  <2>1. SUFFICES ASSUME NEW q \in Replica, NEW i \in Seqs,
                        log'[q][i] # None, log'[q][i].digest # None
                 PROVE  \E m \in Sent(Primary(0))' :
                           /\ m.type = "PrePrepare"
                           /\ m.sequence = i
                           /\ m.digest = log'[q][i].digest
    BY DEF InstancesOrdered, Ordered, HasSent
  <2>2. CASE q = r /\ i = s
    <3>1. log'[q][i] = fin
      BY <1>1, <1>5, <2>2
    <3> QED
      BY <1>1, <2>1, <2>2, <3>1 DEF Ordered, HasSent
  <2>3. CASE ~(q = r /\ i = s)
    <3>1. log'[q][i] = log[q][i]
      BY <1>1, <1>5, <2>3
    <3>2. Ordered(i, log[q][i].digest)
      BY <2>1, <3>1 DEF InstancesOrdered
    <3> QED
      BY <1>3, <3>1, <3>2 DEF Ordered, HasSent
  <2> QED
    BY <2>2, <2>3
<1>7. DeliveredOrdered'
  <2>1. CASE delivered' = delivered
    <3>1. \A q \in Replica : Delivered(q)' = Delivered(q)
      BY <2>1 DEF Delivered
    <3> QED
      BY <1>4, <3>1 DEF DeliveredOrdered
  <2>2. CASE /\ d # None
             /\ delivered' = [delivered EXCEPT ![r] =
                                 Append(@, [sequence |-> s, request |-> d])]
    <3> DEFINE e == [sequence |-> s, request |-> d]
    <3>1. e \in [sequence : Seqs, request : Request] /\ e.sequence = s /\ e.request = d
      BY <2>2
    <3>2. /\ \A p \in Replica \ {r} : Delivered(p)' = Delivered(p)
          /\ \A x \in Delivered(r)' : x \in Delivered(r) \/ x = e
      BY <2>2, <3>1, DeliveredAppend
    <3> HIDE DEF e
    <3>3. ASSUME NEW p \in Replica, NEW x \in Delivered(p)'
          PROVE  Ordered(x.sequence, x.request)'
      <4>1. x \in Delivered(p) \/ x = e
        BY <3>2
      <4>2. ASSUME x \in Delivered(p) PROVE Ordered(x.sequence, x.request)
        BY <4>2 DEF DeliveredOrdered
      <4>3. ASSUME x = e PROVE Ordered(x.sequence, x.request)'
        BY <2>2, <3>1, <4>3
      <4> QED
        BY <1>4, <4>1, <4>2, <4>3
    <3> QED
      BY <3>3 DEF DeliveredOrdered
  <2> QED
    BY <1>1, <2>1, <2>2
<1> QED
  BY <1>6, <1>7

\* A step that sends no pre-prepare, forgets no sequence number of the first
\* primary, drops log entries at most and executes nothing.
LEMMA OrderFrame ==
    ASSUME TypeInv, OrderInv,
           Sent(Primary(0)) \subseteq Sent(Primary(0))',
           \A m \in Sent(Primary(0))' :
               m \in Sent(Primary(0)) \/ m.type # "PrePrepare",
           sequence'[Primary(0)] = sequence[Primary(0)],
           \A r \in Replica, s \in Seqs : log'[r][s] \in {None, log[r][s]},
           delivered' = delivered
    PROVE  OrderInv'
<1>1. OrdersBounded' /\ OrdersUnique'
  BY DEF OrderInv, OrdersBounded, OrdersUnique
<1>2. InstancesOrdered'
  BY DEF OrderInv, InstancesOrdered, Ordered, HasSent
<1>3. \A r \in Replica : Delivered(r)' = Delivered(r)
  BY DEF Delivered
<1>4. DeliveredOrdered'
  BY <1>3 DEF OrderInv, DeliveredOrdered, Ordered, HasSent
<1> QED
  BY <1>1, <1>2, <1>4 DEF OrderInv

\* Every step preserves OrderInv if the first primary is never restarted.
LEMMA OrderStep ==
    ASSUME Primary(0) \notin Restartable
    PROVE  TypeInv /\ ViewInv /\ OrderInv /\ [Next]_vars => OrderInv'
<1> SUFFICES ASSUME TypeInv, ViewInv, OrderInv, [Next]_vars PROVE OrderInv'
  OBVIOUS
<1> DEFINE P == Primary(0)
<1>1. P \in Replica
  BY PrimaryType
<1>2. Sent(P) \subseteq Message
  BY <1>1, SentType
<1>3. sequence \in [Replica -> 0 .. MaxSeq]
  BY DEF TypeInv, TypeOK
<1>4. ASSUME outgoing' = outgoing, sequence' = sequence,
             \A r \in Replica, s \in Seqs : log'[r][s] \in {None, log[r][s]},
             delivered' = delivered
      PROVE  OrderInv'
  <2>1. Sent(Primary(0))' = Sent(Primary(0))
    BY <1>4 DEF Sent
  <2> QED
    BY <1>4, <2>1, OrderFrame
<1>5. ASSUME NEW r \in Replica, NEW q \in Request, NEW queue,
             HandleRequest(r, q, queue)
      PROVE  OrderInv'
  <2>1. CASE UNCHANGED <<engineVars, outgoing, delivered>>
    BY <1>4, <2>1 DEF engineVars
  <2>2. CASE IsPrimary(r) /\ sequence[r] < MaxSeq /\ OrderRequest(r, q)
    <3>1. r = P /\ view[r] = 0
      BY <2>2 DEF IsPrimary, ViewInv, NeverNewPrimary
    <3> DEFINE s    == sequence[P] + 1
               pp   == Ballot("PrePrepare", view[P], s, q)
               sent == <<pp, Ballot("Prepare", view[P], s, q)>>
    <3>2. /\ s \in Seqs
          /\ sequence' = [sequence EXCEPT ![P] = s]
          /\ \/ UNCHANGED <<log, outgoing, delivered>>
             \/ sent \in Seq(Message) /\ ChainEffect(P, s, q, sent)
      BY <1>5, <2>2, <3>1, OrderEffect
    <3>3. sequence'[P] = s /\ s = sequence[P] + 1 /\ sequence[P] \in Nat
      BY <1>1, <1>3, <3>2
    <3>4. /\ pp.type = "PrePrepare" /\ pp.sequence = s /\ pp.digest = q
          /\ sent[1] = pp /\ 1 \in 1 .. Len(sent)
          /\ \A j \in 1 .. Len(sent) : sent[j] = pp \/ sent[j].type = "Prepare"
      BY DEF Ballot
    <3>5. ASSUME NEW m \in Sent(P), m.type = "PrePrepare"
          PROVE  m.sequence \in Nat /\ m.sequence <= sequence[P]
      <4>1. m.sequence \in Nat
        BY <1>2, <3>5 DEF Message, Seqs
      <4> QED
        BY <3>5, <4>1 DEF OrderInv, OrdersBounded
    <3> HIDE DEF pp, sent, s
    <3>6. CASE UNCHANGED <<log, outgoing, delivered>>
      <4>1. Sent(P)' = Sent(P) /\ \A p \in Replica : Delivered(p)' = Delivered(p)
        BY <3>6 DEF Sent, Delivered
      <4>2. OrdersBounded'
        BY <3>3, <3>5, <4>1 DEF OrdersBounded
      <4>3. OrdersUnique'
        BY <4>1 DEF OrderInv, OrdersUnique
      <4>4. InstancesOrdered' /\ DeliveredOrdered'
        BY <3>6, <4>1
        DEF OrderInv, InstancesOrdered, DeliveredOrdered, Ordered, HasSent
      <4> QED
        BY <4>2, <4>3, <4>4 DEF OrderInv
    <3>7. CASE sent \in Seq(Message) /\ ChainEffect(P, s, q, sent)
      <4>1. /\ Sent(P) \subseteq Sent(P)'
            /\ \A m \in Sent(P)' :
                  \/ m \in Sent(P)
                  \/ m.type \in {"Commit", "Checkpoint"}
                  \/ \E j \in 1 .. Len(sent) : m = sent[j]
            /\ \A j \in 1 .. Len(sent) : sent[j] \in Sent(P)'
        BY <1>1, <3>2, <3>7, ChainSent
      <4>2. \A m \in Sent(P)' :
                m.type = "PrePrepare" => m \in Sent(P) \/ m = pp
        BY <3>4, <4>1
      <4>3. pp \in Sent(P)'
        BY <3>4, <4>1
      <4>4. OrdersBounded'
        BY <3>3, <3>4, <3>5, <4>2 DEF OrdersBounded
      <4>5. OrdersUnique'
        <5>1. SUFFICES ASSUME NEW m \in Sent(P)', NEW l \in Sent(P)',
                              m.type = "PrePrepare", l.type = "PrePrepare",
                              m.sequence = l.sequence
                       PROVE  m.digest = l.digest
          BY DEF OrdersUnique
        <5>2. CASE m \in Sent(P) /\ l \in Sent(P)
          BY <5>1, <5>2 DEF OrderInv, OrdersUnique
        <5>3. CASE m = pp /\ l = pp
          BY <5>3
        <5>4. ~(m \in Sent(P) /\ l = pp) /\ ~(l \in Sent(P) /\ m = pp)
          BY <3>3, <3>4, <3>5, <5>1
        <5> QED
          BY <4>2, <5>1, <5>2, <5>3, <5>4
      <4>6. PICK t \in Seqs : t = s
        BY <3>2
      <4>7. Ordered(t, q)'
        BY <3>4, <4>3, <4>6 DEF Ordered, HasSent
      <4>8. PICK ballots \in Seq(Message) : ballots = sent
        BY <3>7
      <4>9. ChainEffect(P, t, q, ballots)
        BY <3>7, <4>6, <4>8
      <4>10. InstancesOrdered' /\ DeliveredOrdered'
        BY <1>1, <4>7, <4>9, ChainOrdered DEF OrderInv
      <4> QED
        BY <4>4, <4>5, <4>10 DEF OrderInv
    <3> QED
      BY <3>2, <3>6, <3>7
  <2> QED
    BY <1>5, <2>1, <2>2 DEF HandleRequest, Forward
<1>6. ASSUME NEW r \in Replica, NEW q \in Request, Submit(r, q) PROVE OrderInv'
  BY <1>5, <1>6 DEF Submit
<1>7. ASSUME NEW r \in Replica, DeliverForwarded(r) PROVE OrderInv'
  <2>1. forwarded \in [Replica -> Seq([to : Replica, request : Request])]
    BY DEF TypeInv, TypeOK
  <2>2. Head(forwarded[r]) \in [to : Replica, request : Request]
    BY <1>7, <2>1, QueueType DEF DeliverForwarded
  <2> QED
    BY <1>5, <1>7, <2>2 DEF DeliverForwarded
<1>8. ASSUME NEW r \in Replica, NEW q \in Replica, Deliver(r, q) PROVE OrderInv'
  <2> DEFINE m == outgoing[q][received[r][q] + 1]
  <2>1. ProcessMessage(r, q, m) /\ sequence' = sequence
    BY <1>8 DEF Deliver, Frame
  <2>2. m \in Sent(q) /\ m \in Message
    BY <1>8, NextMessage DEF Deliver, TypeInv
  <2> HIDE DEF m
  <2>3. /\ Sent(P) \subseteq Sent(P)'
        /\ \A l \in Sent(P)' : l \in Sent(P) \/ l.type # "PrePrepare"
    BY <1>1, <2>1, <2>2, HandlerSent
  <2>4. CASE \/ m.type = "PrePrepare" /\ HandlePrePrepare(r, q, m)
             \/ m.type = "Prepare" /\ HandlePrepare(r, q, m)
             \/ m.type = "Commit" /\ HandleCommit(r, q, m)
    <3>1. CASE Ignore
      BY <1>4, <2>1, <3>1 DEF Ignore
    <3>2. CASE ~Ignore
      <4>1. PICK s \in Seqs, d \in Request \cup {None}, sent \in Seq(Message) :
                /\ ChainEffect(r, s, d, sent)
                /\ \A j \in 1 .. Len(sent) : sent[j].type = "Prepare"
                /\ \/ d = None
                   \/ log[r][s] # None /\ log[r][s].digest = d
                   \/ m.type = "PrePrepare" /\ m.sequence = s /\ m.digest = d
        BY <2>2, <2>4, <3>2, VoteEffect
      <4>2. d # None => Ordered(s, d)
        <5>1. ASSUME m.type = "PrePrepare", m.sequence = s, m.digest = d
              PROVE  Ordered(s, d)
          BY <2>2, <5>1 DEF ViewInv, SingleOrderer, Ordered, HasSent
        <5>2. ASSUME d # None, log[r][s] # None, log[r][s].digest = d
              PROVE  Ordered(s, d)
          BY <5>2 DEF OrderInv, InstancesOrdered
        <5> QED
          BY <4>1, <5>1, <5>2
      <4>3. d # None => Ordered(s, d)'
        BY <2>3, <4>2 DEF Ordered, HasSent
      <4>4. InstancesOrdered' /\ DeliveredOrdered'
        BY <4>1, <4>3, ChainOrdered DEF OrderInv
      <4>5. OrdersBounded' /\ OrdersUnique'
        BY <2>1, <2>3 DEF OrderInv, OrdersBounded, OrdersUnique
      <4> QED
        BY <4>4, <4>5 DEF OrderInv
    <3> QED
      BY <3>1, <3>2
  <2>5. ASSUME \A p \in Replica, s \in Seqs : log'[p][s] \in {None, log[p][s]},
               delivered' = delivered
        PROVE  OrderInv'
    BY <2>1, <2>3, <2>5, OrderFrame
  <2>6. CASE m.type = "Checkpoint" /\ HandleCheckpoint(r, q, m)
    <3>1. log \in [Replica -> [Seqs -> Instance \cup {None}]]
      BY DEF TypeInv, TypeOK
    <3>2. \A p \in Replica, s \in Seqs : log'[p][s] \in {None, log[p][s]}
      <4>1. CASE log' = log
        BY <4>1
      <4>2. CASE log' # log
        <5>1. log' = [log EXCEPT ![r] = Retain(r, m.sequence)]
          BY <2>6, <4>2 DEF HandleCheckpoint
        <5> QED
          BY <3>1, <5>1 DEF Retain
      <4> QED
        BY <4>1, <4>2
    <3> QED
      BY <2>5, <2>6, <3>2 DEF HandleCheckpoint
  <2>7. CASE m.type = "ViewChange" /\ HandleViewChange(r, q, m)
    BY <2>5, <2>7 DEF HandleViewChange, Ignore
  <2>8. CASE m.type = "NewView" /\ HandleNewView(r, m)
    BY <2>5, <2>8 DEF HandleNewView, Ignore
  <2> QED
    BY <2>1, <2>4, <2>6, <2>7, <2>8 DEF ProcessMessage
<1>9. ASSUME NEW r \in Replica, StartViewChange(r) PROVE OrderInv'
  <2>1. UNCHANGED <<sequence, log, delivered>>
    BY <1>9 DEF StartViewChange, NextView
  <2>2. CASE outgoing' = outgoing
    BY <1>4, <2>1, <2>2
  <2>3. CASE outgoing' # outgoing
    <3> DEFINE m == ViewMsg("ViewChange", view[r] + 1)
    <3>1. outgoing' = [outgoing EXCEPT ![r] = Append(@, m)]
      BY <1>9, <2>3 DEF StartViewChange, NextView
    <3>2. m \in Message /\ m.type = "ViewChange"
      <4>1. view[r] + 1 \in Views
        BY <1>9, NextViewType
      <4> QED
        BY <4>1 DEF ViewMsg, Message
    <3> HIDE DEF m
    <3>3. /\ Sent(P) \subseteq Sent(P)'
          /\ \A l \in Sent(P)' : l \in Sent(P) \/ l.type # "PrePrepare"
      BY <1>1, <3>1, <3>2, SendOne
    <3> QED
      BY <2>1, <3>3, OrderFrame
  <2> QED
    BY <2>2, <2>3
<1>10. ASSUME NEW r \in Replica, Restart(r) PROVE OrderInv'
  <2>1. r # P
    BY <1>10 DEF Restart
  <2>2. sequence'[P] = sequence[P]
    BY <1>1, <1>3, <1>10, <2>1 DEF Restart
  <2>3. \A p \in Replica, s \in Seqs : log'[p][s] \in {None, log[p][s]}
    BY <1>10 DEF Restart, TypeInv, TypeOK
  <2>4. outgoing' = outgoing /\ delivered' = delivered
    BY <1>10 DEF Restart
  <2>5. Sent(P)' = Sent(P)
    BY <2>4 DEF Sent
  <2> QED
    BY <2>2, <2>3, <2>4, <2>5, OrderFrame
<1>11. ASSUME NEW r \in Replica,
              DropForwarded(r) \/ CheckTimeout(r) \/ Crash(r)
       PROVE  OrderInv'
  BY <1>4, <1>11 DEF DropForwarded, CheckTimeout, Crash, engineVars, channelVars
<1>12. ASSUME NEW q \in Replica, NEW r \in Replica,
              Connect(q, r) \/ Disconnect(q, r)
       PROVE  OrderInv'
  BY <1>4, <1>12 DEF Connect, Disconnect, engineVars, channelVars
<1>13. ASSUME UNCHANGED vars PROVE OrderInv'
  BY <1>4, <1>13 DEF vars, engineVars, channelVars
<1> QED
  BY <1>6, <1>7, <1>8, <1>9, <1>10, <1>11, <1>12, <1>13 DEF Next

\* Nothing is ordered, stored or executed at the start.
LEMMA OrderInit == Init => OrderInv
<1> SUFFICES ASSUME Init PROVE OrderInv
  OBVIOUS
<1>1. \A r \in Replica : Sent(r) = {} /\ Delivered(r) = {}
  BY DEF Init, Sent, Delivered
<1>2. Primary(0) \in Replica
  BY PrimaryType
<1>3. InstancesOrdered
  BY DEF Init, InstancesOrdered
<1> QED
  BY <1>1, <1>2, <1>3 DEF OrderInv, OrdersBounded, OrdersUnique, DeliveredOrdered

\* While the first primary keeps its memory, whatever any replica stores or
\* executes is the one request that primary has pre-prepared under the number:
\* for any loss of messages, any crashes and restarts of backups without
\* memory, and any view changes.
THEOREM OrderKept ==
    ASSUME Primary(0) \notin Restartable
    PROVE  Spec => []OrderInv
<1>1. Spec => []TypeInv
  BY TypeInit, TypeStep, PTL DEF Spec
<1>2. Spec => []ViewInv
  BY ViewInit, ViewStep, <1>1, PTL DEF Spec
<1> QED
  BY OrderInit, OrderStep, <1>1, <1>2, PTL DEF Spec

\* If the first primary keeps its memory, no two replicas ever execute
\* different requests under one sequence number, for any number of replicas
\* and any interval.
THEOREM AgreementTheorem ==
    ASSUME Primary(0) \notin Restartable
    PROVE  Spec => []Agreement
<1>1. Spec => []OrderInv
  BY OrderKept
<1>2. OrderInv => Agreement
  BY DEF OrderInv, OrdersUnique, DeliveredOrdered, Ordered, HasSent, Agreement
<1> QED
  BY <1>1, <1>2, PTL

=============================================================================
