--------------------------- MODULE PbftStepProofs ---------------------------
(***************************************************************************)
(* What a step of module Pbft does, case by case: the lemmas every         *)
(* invariant about votes, checkpoints and executions is proved from.       *)
(***************************************************************************)
EXTENDS PbftProofs

Elements(seq) == {seq[i] : i \in 1 .. Len(seq)}

\* What a replica has broadcast after it broadcasts `out`, as a set.
LEMMA SentExtend ==
    ASSUME TypeInv, NEW r \in Replica, NEW out \in Seq(Message),
           outgoing' = [outgoing EXCEPT ![r] = @ \o out]
    PROVE  /\ \A p \in Replica \ {r} : Sent(p)' = Sent(p)
           /\ Sent(r)' = Sent(r) \cup Elements(out)
<1>1. outgoing \in [Replica -> Seq(Message)]
  BY DEF TypeInv, TypeOK
<1>2. /\ \A q \in Replica : Sent(q) \subseteq Sent(q)'
      /\ \A q \in Replica \ {r} : Sent(q)' = Sent(q)
      /\ \A m \in Sent(r)' : m \in Sent(r) \/ \E i \in 1 .. Len(out) : m = out[i]
      /\ \A i \in 1 .. Len(out) : out[i] \in Sent(r)'
  BY <1>1, SentAppend
<1>3. Sent(r)' \subseteq Sent(r) \cup Elements(out)
  BY <1>2 DEF Elements
<1>4. Elements(out) \subseteq Sent(r)'
  BY <1>2 DEF Elements
<1> QED
  BY <1>2, <1>3, <1>4

\* The elements of a message list, of one longer by one, and of a
\* concatenation.
LEMMA ElementsOf ==
    ASSUME NEW x \in Seq(Message)
    PROVE  /\ Elements(<< >>) = {}
           /\ \A m \in Message : /\ <<m>> \in Seq(Message)
                                 /\ Append(x, m) \in Seq(Message)
                                 /\ Elements(<<m>>) = {m}
                                 /\ Elements(Append(x, m)) = Elements(x) \cup {m}
           /\ \A m, l \in Message : /\ <<m, l>> \in Seq(Message)
                                    /\ Elements(<<m, l>>) = {m, l}
<1>1. Elements(<< >>) = {}
  BY DEF Elements
<1>2. ASSUME NEW m \in Message
      PROVE  /\ <<m>> \in Seq(Message)
             /\ Elements(<<m>>) = {m}
  <2>1. Len(<<m>>) = 1 /\ <<m>>[1] = m
    OBVIOUS
  <2> QED
    BY <2>1 DEF Elements
<1>3. ASSUME NEW m \in Message, NEW l \in Message
      PROVE  /\ <<m, l>> \in Seq(Message)
             /\ Elements(<<m, l>>) = {m, l}
  <2>1. 1 .. 2 = {1, 2}
    OBVIOUS
  <2>2. Len(<<m, l>>) = 2 /\ <<m, l>>[1] = m /\ <<m, l>>[2] = l
    OBVIOUS
  <2> QED
    BY <2>1, <2>2 DEF Elements
<1>4. ASSUME NEW m \in Message
      PROVE  /\ Append(x, m) \in Seq(Message)
             /\ Elements(Append(x, m)) = Elements(x) \cup {m}
  <2> DEFINE y == Append(x, m)
  <2>1. /\ y \in Seq(Message) /\ Len(y) = Len(x) + 1 /\ Len(x) \in Nat
        /\ y[Len(x) + 1] = m
        /\ \A i \in 1 .. Len(x) : y[i] = x[i]
    OBVIOUS
  <2> HIDE DEF y
  <2>2. 1 .. Len(y) = (1 .. Len(x)) \cup {Len(x) + 1}
    BY <2>1
  <2>3. Elements(y) = Elements(x) \cup {m}
    BY <2>1, <2>2 DEF Elements
  <2> QED
    BY <2>1, <2>3 DEF y
<1> QED
  BY <1>1, <1>2, <1>3, <1>4

LEMMA ElementsConcat ==
    ASSUME NEW x \in Seq(Message), NEW y \in Seq(Message)
    PROVE  x \o y \in Seq(Message) /\ Elements(x \o y) = Elements(x) \cup Elements(y)
<1> DEFINE z == x \o y
<1>1. /\ z \in Seq(Message) /\ Len(x) \in Nat /\ Len(y) \in Nat
      /\ Len(z) = Len(x) + Len(y)
      /\ \A i \in 1 .. Len(x) : z[i] = x[i]
      /\ \A i \in 1 .. Len(z) : i > Len(x) => z[i] = y[i - Len(x)]
  OBVIOUS
<1> HIDE DEF z
<1>2. Elements(z) \subseteq Elements(x) \cup Elements(y)
  <2>1. SUFFICES ASSUME NEW i \in 1 .. Len(z)
                 PROVE  z[i] \in Elements(x) \cup Elements(y)
    BY DEF Elements
  <2>2. CASE i <= Len(x)
    BY <1>1, <2>2 DEF Elements
  <2>3. CASE i > Len(x)
    <3>1. i - Len(x) \in 1 .. Len(y) /\ z[i] = y[i - Len(x)]
      BY <1>1, <2>3
    <3> QED
      BY <3>1 DEF Elements
  <2> QED
    BY <1>1, <2>2, <2>3
<1>3. Elements(x) \subseteq Elements(z)
  <2>1. SUFFICES ASSUME NEW i \in 1 .. Len(x) PROVE x[i] \in Elements(z)
    BY DEF Elements
  <2>2. i \in 1 .. Len(z) /\ z[i] = x[i]
    BY <1>1
  <2> QED
    BY <2>2 DEF Elements
<1>4. Elements(y) \subseteq Elements(z)
  <2>1. SUFFICES ASSUME NEW i \in 1 .. Len(y) PROVE y[i] \in Elements(z)
    BY DEF Elements
  <2>2. /\ i + Len(x) \in 1 .. Len(z) /\ i + Len(x) > Len(x)
        /\ (i + Len(x)) - Len(x) = i
    BY <1>1
  <2>3. z[i + Len(x)] = y[i]
    BY <1>1, <2>2
  <2> QED
    BY <2>2, <2>3 DEF Elements
<1> QED
  BY <1>1, <1>2, <1>3, <1>4 DEF z

-----------------------------------------------------------------------------
(* The exact result of the chain *)

\* The part of try_advance_to_committed guarded by `executed`.
Executes(r, s, d) ==
    /\ d \in Request
    /\ d \notin executed[r]
    /\ executed' = [executed EXCEPT ![r] = @ \cup {d}]
    /\ delivered' = [delivered EXCEPT ![r] =
                        Append(@, [sequence |-> s, request |-> d])]

\* The condition of try_advance_to_prepared.
CastsCommit(inst) ==
    /\ inst.digest # None
    /\ inst.phase = "PrePrepared"
    /\ Votes(inst.prepares) >= Quorum

\* The chain, entered with `inst` after broadcasting `votes`, stores `fin`: it
\* may add the replica's Commit, reach Committed, execute, and then announce a
\* checkpoint.
ChainResult(r, s, inst, votes, fin) ==
    LET commit == Ballot("Commit", inst.view, s, inst.digest)
    IN  /\ fin \in Instance
        /\ PhaseOK(fin)
        /\ log' = [log EXCEPT ![r][s] = fin]
        /\ fin.view = inst.view
        /\ fin.digest = inst.digest
        /\ fin.prepares = inst.prepares
        /\ \/ fin.commits = inst.commits /\ fin.phase = inst.phase
           \/ /\ fin.commits = inst.commits
              /\ inst.phase = "Prepared" /\ fin.phase = "Committed"
           \/ /\ CastsCommit(inst)
              /\ commit \in Sent(r)'
              /\ fin.commits = [inst.commits EXCEPT ![r] = inst.digest]
              /\ fin.phase \in {"Prepared", "Committed"}
        /\ \A p \in Replica \ {r} : Sent(p)' = Sent(p)
        /\ Sent(r) \cup votes \subseteq Sent(r)'
        /\ \A m \in Sent(r)' :
              \/ m \in Sent(r) \cup votes
              \/ /\ m = commit
                 /\ CastsCommit(inst)
                 /\ fin.phase \in {"Prepared", "Committed"}
              \/ /\ m = CheckpointMsg(s)
                 /\ s % CheckpointInterval = 0
                 /\ Executes(r, s, inst.digest)
        /\ \/ UNCHANGED <<executed, delivered>>
           \/ /\ Executes(r, s, inst.digest)
              /\ fin.phase = "Committed"
              /\ Votes(fin.commits) >= Quorum

\* try_advance_to_committed: no vote is cast.
LEMMA CommittedResult ==
    ASSUME TypeInv, NEW r \in Replica, NEW s \in Seqs,
           NEW inst \in Instance, PhaseOK(inst), NEW sent \in Seq(Message),
           TryAdvanceToCommitted(r, s, inst, sent)
    PROVE  \E fin \in Instance :
              /\ PhaseOK(fin)
              /\ log' = [log EXCEPT ![r][s] = fin]
              /\ fin.view = inst.view
              /\ fin.digest = inst.digest
              /\ fin.prepares = inst.prepares
              /\ fin.commits = inst.commits
              /\ \/ fin.phase = inst.phase
                 \/ inst.phase = "Prepared" /\ fin.phase = "Committed"
              /\ \A p \in Replica \ {r} : Sent(p)' = Sent(p)
              /\ Sent(r) \cup Elements(sent) \subseteq Sent(r)'
              /\ \A m \in Sent(r)' :
                    \/ m \in Sent(r) \cup Elements(sent)
                    \/ /\ m = CheckpointMsg(s)
                       /\ s % CheckpointInterval = 0
                       /\ Executes(r, s, inst.digest)
              /\ \/ UNCHANGED <<executed, delivered>>
                 \/ /\ Executes(r, s, inst.digest)
                    /\ fin.phase = "Committed"
                    /\ Votes(fin.commits) >= Quorum
<1>1. CASE ReadyToCommit(inst)
  <2> DEFINE done == [inst EXCEPT !.phase = "Committed"]
  <2>1. /\ done \in Instance /\ PhaseOK(done)
        /\ done.view = inst.view /\ done.digest = inst.digest
        /\ done.prepares = inst.prepares /\ done.commits = inst.commits
        /\ done.phase = "Committed" /\ inst.phase = "Prepared"
        /\ Votes(done.commits) >= Quorum
    BY <1>1 DEF ReadyToCommit, Instance, Phase, PhaseOK
  <2>2. inst.digest \in Request
    BY <1>1 DEF ReadyToCommit, Instance, PhaseOK
  <2>3. CASE ~AlreadyExecuted(r, inst.digest)
    <3> DEFINE out == sent \o TryCheckpoint(s)
    <3>1. /\ log' = [log EXCEPT ![r][s] = done]
          /\ outgoing' = [outgoing EXCEPT ![r] = @ \o out]
          /\ executed' = [executed EXCEPT ![r] = @ \cup {inst.digest}]
          /\ delivered' = [delivered EXCEPT ![r] =
                 Append(@, [sequence |-> s, request |-> inst.digest])]
      BY <1>1, <2>3 DEF TryAdvanceToCommitted, Store
    <3>2. Executes(r, s, inst.digest)
      BY <2>2, <2>3, <3>1 DEF Executes, AlreadyExecuted
    <3>3. /\ TryCheckpoint(s) \in Seq(Message)
          /\ \A m \in Elements(TryCheckpoint(s)) :
                m = CheckpointMsg(s) /\ s % CheckpointInterval = 0
      <4>1. CheckpointMsg(s) \in Message
        BY DEF CheckpointMsg, Message
      <4> QED
        BY <4>1, ElementsOf DEF TryCheckpoint
    <3>4. out \in Seq(Message) /\ Elements(out) = Elements(sent) \cup Elements(TryCheckpoint(s))
      BY <3>3, ElementsConcat
    <3> HIDE DEF done, out
    <3>5. /\ \A p \in Replica \ {r} : Sent(p)' = Sent(p)
          /\ Sent(r)' = Sent(r) \cup Elements(out)
      BY <3>1, <3>4, SentExtend
    <3> QED
      BY <2>1, <3>1, <3>2, <3>3, <3>4, <3>5
  <2>4. CASE AlreadyExecuted(r, inst.digest)
    <3>1. /\ log' = [log EXCEPT ![r][s] = done]
          /\ outgoing' = [outgoing EXCEPT ![r] = @ \o sent]
          /\ UNCHANGED <<executed, delivered>>
      BY <1>1, <2>4 DEF TryAdvanceToCommitted, Store
    <3>2. /\ \A p \in Replica \ {r} : Sent(p)' = Sent(p)
          /\ Sent(r)' = Sent(r) \cup Elements(sent)
      BY <3>1, SentExtend
    <3> HIDE DEF done
    <3> QED
      BY <2>1, <3>1, <3>2
  <2> QED
    BY <2>3, <2>4
<1>2. CASE ~ReadyToCommit(inst)
  <2>1. /\ log' = [log EXCEPT ![r][s] = inst]
        /\ outgoing' = [outgoing EXCEPT ![r] = @ \o sent]
        /\ UNCHANGED <<executed, delivered>>
    BY <1>2 DEF TryAdvanceToCommitted, Store
  <2>2. /\ \A p \in Replica \ {r} : Sent(p)' = Sent(p)
        /\ Sent(r)' = Sent(r) \cup Elements(sent)
    BY <2>1, SentExtend
  <2> QED
    BY <2>1, <2>2
<1> QED
  BY <1>1, <1>2

\* handle_commit enters the chain there.
LEMMA CommittedChain ==
    ASSUME TypeInv, NEW r \in Replica, NEW s \in Seqs,
           NEW inst \in Instance, PhaseOK(inst), NEW sent \in Seq(Message),
           TryAdvanceToCommitted(r, s, inst, sent)
    PROVE  \E fin \in Instance : ChainResult(r, s, inst, Elements(sent), fin)
  BY CommittedResult DEF ChainResult

\* try_advance_to_prepared: the replica's Commit comes first.
LEMMA PreparedChain ==
    ASSUME TypeInv, NEW r \in Replica, NEW s \in Seqs,
           NEW inst \in Instance, PhaseOK(inst), NEW sent \in Seq(Message),
           TryAdvanceToPrepared(r, s, inst, sent)
    PROVE  \E fin \in Instance : ChainResult(r, s, inst, Elements(sent), fin)
<1>1. CASE CastsCommit(inst)
  <2> DEFINE next   == [inst EXCEPT !.phase = "Prepared", !.commits[r] = inst.digest]
             commit == Ballot("Commit", inst.view, s, inst.digest)
             out    == Append(sent, commit)
  <2>1. /\ next \in Instance /\ PhaseOK(next)
        /\ next.view = inst.view /\ next.digest = inst.digest
        /\ next.prepares = inst.prepares
        /\ next.commits = [inst.commits EXCEPT ![r] = inst.digest]
        /\ next.phase = "Prepared"
    BY <1>1 DEF CastsCommit, Instance, Phase, PhaseOK
  <2>2. commit \in Message
    BY <1>1 DEF CastsCommit, Instance, Ballot, Message
  <2>3. out \in Seq(Message) /\ Elements(out) = Elements(sent) \cup {commit}
    BY <2>2, ElementsOf
  <2>4. TryAdvanceToCommitted(r, s, next, out)
    BY <1>1 DEF TryAdvanceToPrepared, CastsCommit
  <2> HIDE DEF next, out
  <2>5. PICK fin \in Instance :
            /\ PhaseOK(fin)
            /\ log' = [log EXCEPT ![r][s] = fin]
            /\ fin.view = next.view
            /\ fin.digest = next.digest
            /\ fin.prepares = next.prepares
            /\ fin.commits = next.commits
            /\ \/ fin.phase = next.phase
               \/ next.phase = "Prepared" /\ fin.phase = "Committed"
            /\ \A p \in Replica \ {r} : Sent(p)' = Sent(p)
            /\ Sent(r) \cup Elements(out) \subseteq Sent(r)'
            /\ \A m \in Sent(r)' :
                  \/ m \in Sent(r) \cup Elements(out)
                  \/ /\ m = CheckpointMsg(s)
                     /\ s % CheckpointInterval = 0
                     /\ Executes(r, s, next.digest)
            /\ \/ UNCHANGED <<executed, delivered>>
               \/ /\ Executes(r, s, next.digest)
                  /\ fin.phase = "Committed"
                  /\ Votes(fin.commits) >= Quorum
    BY <2>1, <2>3, <2>4, CommittedResult
  <2>6. ChainResult(r, s, inst, Elements(sent), fin)
    BY <1>1, <2>1, <2>3, <2>5 DEF ChainResult
  <2> QED
    BY <2>6
<1>2. CASE ~CastsCommit(inst)
  <2>1. /\ log' = [log EXCEPT ![r][s] = inst]
        /\ outgoing' = [outgoing EXCEPT ![r] = @ \o sent]
        /\ UNCHANGED <<executed, delivered>>
    BY <1>2 DEF TryAdvanceToPrepared, Store, CastsCommit
  <2>2. /\ \A p \in Replica \ {r} : Sent(p)' = Sent(p)
        /\ Sent(r)' = Sent(r) \cup Elements(sent)
    BY <2>1, SentExtend
  <2>3. ChainResult(r, s, inst, Elements(sent), inst)
    BY <2>1, <2>2 DEF ChainResult
  <2> QED
    BY <2>3
<1> QED
  BY <1>1, <1>2

-----------------------------------------------------------------------------
(* The handlers that enter the chain *)

\* What a message makes of its instance, and what is broadcast at once.
VoteStored(r, q, m, inst, votes) ==
    LET old == GetOrCreateInstance(r, m.sequence)
    IN  \/ /\ m.type = "PrePrepare"
           /\ q = Primary(view[r])
           /\ old.digest = None
           /\ inst = PrePrepared(r, old, m.digest)
           /\ votes = {Ballot("Prepare", m.view, m.sequence, m.digest)}
        \/ /\ m.type = "Prepare"
           /\ old.digest \in {None, m.digest}
           /\ old.prepares[q] = None
           /\ inst = [old EXCEPT !.prepares[q] = m.digest]
           /\ votes = {}
        \/ /\ m.type = "Commit"
           /\ old.digest \in {None, m.digest}
           /\ old.commits[q] = None
           /\ inst = [old EXCEPT !.commits[q] = m.digest]
           /\ votes = {}

IsVote(m) == m.type \in {"PrePrepare", "Prepare", "Commit"}

\* handle_pre_prepare, handle_prepare and handle_commit ignore a message or
\* store it and go through the chain.
LEMMA VoteResult ==
    ASSUME TypeInv, NEW r \in Replica, NEW q \in Replica, NEW m \in Message,
           IsVote(m), ProcessMessage(r, q, m)
    PROVE  \/ Ignore
           \/ /\ UNCHANGED <<view, stable_checkpoint, checkpoints, view_changes,
                             view_changing>>
              /\ m.sequence \in Seqs /\ m.digest \in Request
              /\ m.view = view[r] /\ InWindow(r, m.sequence)
              /\ \E inst \in Instance, votes \in SUBSET Message, fin \in Instance :
                    /\ PhaseOK(inst)
                    /\ VoteStored(r, q, m, inst, votes)
                    /\ ChainResult(r, m.sequence, inst, votes, fin)
<1> DEFINE s   == m.sequence
           old == GetOrCreateInstance(r, s)
           none == << >>
<1>1. s \in Seqs /\ m.view \in Views /\ m.digest \in Request /\ m.digest # None
  BY BoundsAssumption DEF Message, IsVote
<1>2. old \in Instance /\ PhaseOK(old)
  BY <1>1, GetOrCreateType
<1>3. none \in Seq(Message) /\ Elements(none) = {}
  BY DEF Elements
<1>4. CASE m.type = "PrePrepare" /\ HandlePrePrepare(r, q, m)
  <2> DEFINE inst == PrePrepared(r, old, m.digest)
             vote == Ballot("Prepare", m.view, s, m.digest)
             sent == <<vote>>
  <2>1. CASE AcceptsPrePrepare(r, q, m)
    <3>1. /\ TryAdvanceToPrepared(r, s, inst, sent)
          /\ UNCHANGED <<view, stable_checkpoint, checkpoints, view_changes,
                         view_changing>>
      BY <1>4, <2>1 DEF HandlePrePrepare
    <3>2. /\ m.view = view[r] /\ InWindow(r, s)
          /\ q = Primary(view[r]) /\ old.digest = None
      BY <2>1 DEF AcceptsPrePrepare
    <3>3. vote \in Message
      BY <1>1 DEF Ballot, Message
    <3> HIDE DEF old
    <3>4. inst \in Instance /\ PhaseOK(inst)
      BY <1>1, <1>2 DEF PrePrepared, Instance, Phase, PhaseOK
    <3>5. sent \in Seq(Message) /\ Elements(sent) = {vote}
      BY <1>3, <3>3, ElementsOf
    <3> HIDE DEF inst, sent, s
    <3>6. PICK fin \in Instance : ChainResult(r, s, inst, {vote}, fin)
      BY <1>1, <3>1, <3>4, <3>5, PreparedChain
    <3>7. VoteStored(r, q, m, inst, {vote})
      BY <1>4, <3>2 DEF VoteStored, inst, old, s
    <3> QED
      BY <1>1, <3>1, <3>2, <3>3, <3>4, <3>6, <3>7 DEF s
  <2> QED
    BY <1>4, <2>1 DEF HandlePrePrepare
<1>5. CASE m.type = "Prepare" /\ HandlePrepare(r, q, m)
  <2> DEFINE inst == [old EXCEPT !.prepares[q] = m.digest]
  <2>1. CASE AcceptsVote(r, m, old, old.prepares, q)
    <3>1. /\ TryAdvanceToPrepared(r, s, inst, none)
          /\ UNCHANGED <<view, stable_checkpoint, checkpoints, view_changes,
                         view_changing>>
      BY <1>5, <2>1 DEF HandlePrepare
    <3>2. /\ m.view = view[r] /\ InWindow(r, s)
          /\ old.digest \in {None, m.digest} /\ old.prepares[q] = None
      BY <2>1 DEF AcceptsVote
    <3> HIDE DEF old
    <3>3. inst \in Instance /\ PhaseOK(inst)
      BY <1>1, <1>2 DEF Instance, PhaseOK
    <3> HIDE DEF inst, none, s
    <3>4. PICK fin \in Instance : ChainResult(r, s, inst, {}, fin)
      BY <1>1, <1>3, <3>1, <3>3, PreparedChain
    <3>5. VoteStored(r, q, m, inst, {})
      BY <1>5, <3>2 DEF VoteStored, inst, old, s
    <3> QED
      BY <1>1, <3>1, <3>2, <3>3, <3>4, <3>5 DEF s
  <2> QED
    BY <1>5, <2>1 DEF HandlePrepare
<1>6. CASE m.type = "Commit" /\ HandleCommit(r, q, m)
  <2> DEFINE inst == [old EXCEPT !.commits[q] = m.digest]
  <2>1. CASE AcceptsVote(r, m, old, old.commits, q)
    <3>1. /\ TryAdvanceToCommitted(r, s, inst, none)
          /\ UNCHANGED <<view, stable_checkpoint, checkpoints, view_changes,
                         view_changing>>
      BY <1>6, <2>1 DEF HandleCommit
    <3>2. /\ m.view = view[r] /\ InWindow(r, s)
          /\ old.digest \in {None, m.digest} /\ old.commits[q] = None
      BY <2>1 DEF AcceptsVote
    <3> HIDE DEF old
    <3>3. inst \in Instance /\ PhaseOK(inst)
      BY <1>1, <1>2 DEF Instance, PhaseOK
    <3> HIDE DEF inst, none, s
    <3>4. PICK fin \in Instance : ChainResult(r, s, inst, {}, fin)
      BY <1>1, <1>3, <3>1, <3>3, CommittedChain
    <3>5. VoteStored(r, q, m, inst, {})
      BY <1>6, <3>2 DEF VoteStored, inst, old, s
    <3> QED
      BY <1>1, <3>1, <3>2, <3>3, <3>4, <3>5 DEF s
  <2> QED
    BY <1>6, <2>1 DEF HandleCommit
<1> QED
  BY <1>4, <1>5, <1>6 DEF ProcessMessage, IsVote

\* handle_request at a primary consumes a number and, if that is not above the
\* high water mark, pre-prepares the request and goes through the chain.
LEMMA OrderResult ==
    ASSUME TypeInv, NEW r \in Replica, NEW d \in Request,
           sequence[r] < MaxSeq, OrderRequest(r, d)
    PROVE  LET s    == sequence[r] + 1
               inst == PrePrepared(r, GetOrCreateInstance(r, s), d)
           IN  /\ s \in Seqs
               /\ sequence' = [sequence EXCEPT ![r] = s]
               /\ UNCHANGED <<view, stable_checkpoint, checkpoints, view_changes,
                              view_changing, view_change_due>>
               /\ \/ UNCHANGED <<log, executed, outgoing, delivered>>
                  \/ /\ s <= HighWatermark(r)
                     /\ inst \in Instance
                     /\ PhaseOK(inst)
                     /\ \E fin : ChainResult(r, s, inst,
                                    {Ballot("PrePrepare", view[r], s, d),
                                     Ballot("Prepare", view[r], s, d)}, fin)
<1> DEFINE s    == sequence[r] + 1
           old  == GetOrCreateInstance(r, s)
           inst == PrePrepared(r, old, d)
           pp   == Ballot("PrePrepare", view[r], s, d)
           vote == Ballot("Prepare", view[r], s, d)
           sent == <<pp, vote>>
<1>1. s \in Seqs /\ view[r] \in Views /\ d # None
  BY BoundsAssumption DEF TypeInv, TypeOK, Seqs
<1>2. /\ sequence' = [sequence EXCEPT ![r] = s]
      /\ UNCHANGED <<view, stable_checkpoint, checkpoints, view_changes,
                     view_changing, view_change_due>>
      /\ \/ UNCHANGED <<log, executed, outgoing, delivered>>
         \/ ~(s > HighWatermark(r)) /\ TryAdvanceToPrepared(r, s, inst, sent)
  BY DEF OrderRequest, NextSequence
<1>3. HighWatermark(r) \in Nat /\ s \in Nat
  <2>1. stable_checkpoint[r] \in Nat
    BY BoundsAssumption DEF TypeInv, TypeOK
  <2> QED
    BY <2>1, <1>1, IntervalAssumption DEF HighWatermark, Seqs
<1>4. old \in Instance
  BY <1>1, GetOrCreateType
<1>5. pp \in Message /\ vote \in Message
  BY <1>1 DEF Ballot, Message
<1> HIDE DEF s, old, pp, vote
<1>6. inst \in Instance /\ PhaseOK(inst)
  BY <1>1, <1>4 DEF PrePrepared, Instance, Phase, PhaseOK
<1>7. sent \in Seq(Message) /\ Elements(sent) = {pp, vote}
  <2>1. << >> \in Seq(Message)
    OBVIOUS
  <2> QED
    BY <1>5, <2>1, ElementsOf
<1> HIDE DEF inst, sent
<1>8. TryAdvanceToPrepared(r, s, inst, sent)
        => \E fin : ChainResult(r, s, inst, {pp, vote}, fin)
  BY <1>1, <1>6, <1>7, PreparedChain
<1>9. ~(s > HighWatermark(r)) => s <= HighWatermark(r)
  BY <1>3
<1> QED
  BY <1>1, <1>2, <1>6, <1>8, <1>9 DEF s, old, inst, pp, vote

-----------------------------------------------------------------------------
(* The steps *)

\* Steps of the surroundings, of the timer, and requests that are forwarded,
\* dropped or known already.
Quiet == UNCHANGED <<view, sequence, stable_checkpoint, log, executed,
                     checkpoints, view_changes, outgoing, delivered>>

Handles(r, q, m) ==
    /\ m \in Sent(q)
    /\ r \in peers[q]
    /\ ProcessMessage(r, q, m)
    /\ sequence' = sequence

OrdersNext(r, d) ==
    /\ IsPrimary(r)
    /\ ~AlreadyExecuted(r, d)
    /\ sequence[r] < MaxSeq
    /\ OrderRequest(r, d)

AsksForView(r) ==
    /\ view[r] + 1 \in Views
    /\ outgoing' = [outgoing EXCEPT ![r] =
                       Append(@, ViewMsg("ViewChange", view[r] + 1))]
    /\ view_changes' = [view_changes EXCEPT ![r][view[r] + 1] = @ \cup {r}]
    /\ UNCHANGED <<view, sequence, stable_checkpoint, log, executed,
                   checkpoints, delivered>>

\* Every step is one of these.
LEMMA NextCases ==
    TypeInv /\ [Next]_vars =>
        \/ Quiet
        \/ \E r, q \in Replica, m \in Message : Handles(r, q, m)
        \/ \E r \in Replica, d \in Request : OrdersNext(r, d)
        \/ \E r \in Replica : AsksForView(r)
        \/ \E r \in Replica : Restart(r)
<1> SUFFICES ASSUME TypeInv, [Next]_vars
             PROVE  \/ Quiet
                    \/ \E r, q \in Replica, m \in Message : Handles(r, q, m)
                    \/ \E r \in Replica, d \in Request : OrdersNext(r, d)
                    \/ \E r \in Replica : AsksForView(r)
                    \/ \E r \in Replica : Restart(r)
  OBVIOUS
<1>1. ASSUME NEW r \in Replica, NEW d \in Request, NEW queue,
             HandleRequest(r, d, queue)
      PROVE  Quiet \/ OrdersNext(r, d)
  BY <1>1 DEF HandleRequest, Forward, engineVars, Quiet, OrdersNext
<1>2. ASSUME NEW r \in Replica, NEW d \in Request, Submit(r, d)
      PROVE  Quiet \/ OrdersNext(r, d)
  BY <1>1, <1>2 DEF Submit
<1>3. ASSUME NEW r \in Replica, DeliverForwarded(r)
      PROVE  Quiet \/ \E p \in Replica, d \in Request : OrdersNext(p, d)
  <2>1. forwarded \in [Replica -> Seq([to : Replica, request : Request])]
    BY DEF TypeInv, TypeOK
  <2>2. Head(forwarded[r]) \in [to : Replica, request : Request]
    BY <1>3, <2>1, QueueType DEF DeliverForwarded
  <2> QED
    BY <1>1, <1>3, <2>2 DEF DeliverForwarded
<1>4. ASSUME NEW r \in Replica, NEW q \in Replica, Deliver(r, q)
      PROVE  \E m \in Message : Handles(r, q, m)
  BY <1>4, NextMessage DEF Deliver, Frame, Handles, TypeInv
<1>5. ASSUME NEW r \in Replica, StartViewChange(r)
      PROVE  Quiet \/ AsksForView(r)
  <2>1. view[r] + 1 \in Views
    BY <1>5, BoundsAssumption DEF StartViewChange, TypeInv, TypeOK, Views
  <2> QED
    BY <1>5, <2>1 DEF StartViewChange, NextView, Quiet, AsksForView
<1>6. ASSUME NEW r \in Replica, DropForwarded(r) \/ CheckTimeout(r) \/ Crash(r)
      PROVE  Quiet
  BY <1>6 DEF DropForwarded, CheckTimeout, Crash, engineVars, channelVars, Quiet
<1>7. ASSUME NEW q \in Replica, NEW r \in Replica,
             Connect(q, r) \/ Disconnect(q, r)
      PROVE  Quiet
  BY <1>7 DEF Connect, Disconnect, engineVars, channelVars, Quiet
<1>8. ASSUME UNCHANGED vars PROVE Quiet
  BY <1>8 DEF vars, engineVars, channelVars, Quiet
<1> QED
  BY <1>2, <1>3, <1>4, <1>5, <1>6, <1>7, <1>8 DEF Next

\* Executing appends one entry to what a replica has delivered.
LEMMA ExecutesAppends ==
    ASSUME TypeInv, NEW r \in Replica, NEW s \in Seqs, NEW d \in Request,
           Executes(r, s, d)
    PROVE  /\ \A p \in Replica \ {r} : delivered'[p] = delivered[p]
           /\ Len(delivered[r]) \in Nat
           /\ Len(delivered'[r]) = Len(delivered[r]) + 1
           /\ delivered'[r][Len(delivered[r]) + 1] = [sequence |-> s, request |-> d]
           /\ \A i \in 1 .. Len(delivered[r]) : delivered'[r][i] = delivered[r][i]
<1> DEFINE E == [sequence : Seqs, request : Request]
           e == [sequence |-> s, request |-> d]
<1>1. delivered \in [Replica -> Seq(E)]
  BY DEF TypeInv, TypeOK
<1>2. e \in E
  OBVIOUS
<1>3. delivered' = [delivered EXCEPT ![r] = Append(@, e)]
  BY DEF Executes
<1> HIDE DEF E, e
<1>4. /\ \A p \in Replica \ {r} : delivered'[p] = delivered[p]
      /\ delivered'[r] = Append(delivered[r], e)
      /\ delivered[r] \in Seq(E)
  BY <1>1, <1>3
<1> QED
  BY <1>2, <1>4 DEF e

LEMMA ExecutesDelivered ==
    ASSUME TypeInv, NEW r \in Replica, NEW s \in Seqs, NEW d \in Request,
           Executes(r, s, d)
    PROVE  /\ \A p \in Replica \ {r} : /\ Delivered(p)' = Delivered(p)
                                       /\ executed'[p] = executed[p]
           /\ Delivered(r)' = Delivered(r) \cup {[sequence |-> s, request |-> d]}
           /\ executed'[r] = executed[r] \cup {d}
<1> DEFINE e == [sequence |-> s, request |-> d]
<1> HIDE DEF e
<1>1. /\ \A p \in Replica \ {r} : delivered'[p] = delivered[p]
      /\ Len(delivered[r]) \in Nat
      /\ Len(delivered'[r]) = Len(delivered[r]) + 1
      /\ delivered'[r][Len(delivered[r]) + 1] = e
      /\ \A i \in 1 .. Len(delivered[r]) : delivered'[r][i] = delivered[r][i]
  BY ExecutesAppends DEF e
<1>2. 1 .. Len(delivered'[r]) = (1 .. Len(delivered[r])) \cup {Len(delivered[r]) + 1}
  BY <1>1
<1>3. Delivered(r)' = Delivered(r) \cup {e}
  BY <1>1, <1>2 DEF Delivered
<1>4. \A p \in Replica \ {r} : Delivered(p)' = Delivered(p)
  BY <1>1 DEF Delivered
<1>5. executed'[r] = executed[r] \cup {d} /\ \A p \in Replica \ {r} : executed'[p] = executed[p]
  BY DEF Executes, TypeInv, TypeOK
<1> QED
  BY <1>3, <1>4, <1>5 DEF e

\* One more message.
LEMMA SendResult ==
    ASSUME TypeInv, NEW r \in Replica, NEW m \in Message,
           outgoing' = [outgoing EXCEPT ![r] = Append(@, m)]
    PROVE  /\ \A p \in Replica \ {r} : Sent(p)' = Sent(p)
           /\ Sent(r)' = Sent(r) \cup {m}
<1>1. outgoing[r] \in Seq(Message) /\ << >> \in Seq(Message)
  BY DEF TypeInv, TypeOK
<1>2. <<m>> \in Seq(Message) /\ Elements(<<m>>) = {m}
  BY <1>1, ElementsOf
<1>3. Append(outgoing[r], m) = outgoing[r] \o <<m>>
  BY <1>1
<1>4. outgoing' = [outgoing EXCEPT ![r] = @ \o <<m>>]
  BY <1>3
<1> QED
  BY <1>2, <1>4, SentExtend

\* A replica that asks for a view broadcasts nothing else.
LEMMA AsksSent ==
    ASSUME TypeInv, NEW r \in Replica, AsksForView(r)
    PROVE  /\ \A p \in Replica \ {r} : Sent(p)' = Sent(p)
           /\ Sent(r)' = Sent(r) \cup {ViewMsg("ViewChange", view[r] + 1)}
<1>1. ViewMsg("ViewChange", view[r] + 1) \in Message
  BY DEF AsksForView, ViewMsg, Message
<1> QED
  BY <1>1, SendResult DEF AsksForView

\* handle_view_change ignores a message or records its sender, and the primary
\* of the view then may announce it.
LEMMA ViewChangeResult ==
    ASSUME TypeInv, NEW r \in Replica, NEW q \in Replica, NEW m \in Message,
           m.type = "ViewChange", ProcessMessage(r, q, m)
    PROVE  LET v    == m.new_view
               seen == view_changes[r][v] \cup {q}
           IN  \/ Ignore
               \/ /\ v \in Views
                  /\ view_changes' = [view_changes EXCEPT ![r][v] = seen]
                  /\ UNCHANGED <<view, stable_checkpoint, log, executed,
                                 checkpoints, view_changing, delivered>>
                  /\ \A p \in Replica \ {r} : Sent(p)' = Sent(p)
                  /\ \/ Sent(r)' = Sent(r)
                     \/ /\ Cardinality(seen) >= Quorum
                        /\ Primary(v) = r
                        /\ Sent(r)' = Sent(r) \cup {ViewMsg("NewView", v)}
<1> DEFINE v    == m.new_view
           seen == view_changes[r][v] \cup {q}
<1>1. v \in Views /\ ViewMsg("NewView", v) \in Message
  BY DEF Message, ViewMsg
<1>2. HandleViewChange(r, q, m)
  BY DEF ProcessMessage
<1>3. CASE ~IsOldView(r, v)
  <2>1. /\ view_changes' = [view_changes EXCEPT ![r][v] = seen]
        /\ UNCHANGED <<view, stable_checkpoint, log, executed,
                       checkpoints, view_changing, delivered>>
        /\ \/ outgoing' = outgoing
           \/ /\ Cardinality(seen) >= Quorum
              /\ Primary(v) = r
              /\ outgoing' = [outgoing EXCEPT ![r] = Append(@, ViewMsg("NewView", v))]
    BY <1>2, <1>3 DEF HandleViewChange
  <2>2. CASE outgoing' = outgoing
    <3>1. \A p \in Replica : Sent(p)' = Sent(p)
      BY <2>2 DEF Sent
    <3> QED
      BY <1>1, <2>1, <3>1
  <2>3. CASE outgoing' # outgoing
    BY <1>1, <2>1, <2>3, SendResult
  <2> QED
    BY <2>2, <2>3
<1> QED
  BY <1>2, <1>3 DEF HandleViewChange

\* Nobody's messages but a NewView of the handler are new.
LEMMA ViewChangeSends ==
    ASSUME TypeInv, NEW r \in Replica, NEW q \in Replica, NEW m \in Message,
           m.type = "ViewChange", ProcessMessage(r, q, m), ~Ignore
    PROVE  /\ UNCHANGED <<view, stable_checkpoint, log, executed, checkpoints,
                          view_changing, delivered>>
           /\ \A p \in Replica : \A l \in Sent(p)' :
                 l \in Sent(p) \/ l = ViewMsg("NewView", m.new_view)
<1>1. /\ UNCHANGED <<view, stable_checkpoint, log, executed, checkpoints,
                     view_changing, delivered>>
      /\ \A p \in Replica \ {r} : Sent(p)' = Sent(p)
      /\ \/ Sent(r)' = Sent(r)
         \/ Sent(r)' = Sent(r) \cup {ViewMsg("NewView", m.new_view)}
  BY ViewChangeResult
<1>2. \A l \in Sent(r)' : l \in Sent(r) \/ l = ViewMsg("NewView", m.new_view)
  BY <1>1
<1> QED
  BY <1>1, <1>2

\* Nothing is ever unsaid or undone.
LEMMA Monotone ==
    ASSUME TypeInv, [Next]_vars
    PROVE  \A p \in Replica : /\ Sent(p) \subseteq Sent(p)'
                              /\ Delivered(p) \subseteq Delivered(p)'
<1>1. CASE outgoing' = outgoing /\ delivered' = delivered
  BY <1>1 DEF Sent, Delivered
<1>2. ASSUME NEW r \in Replica, NEW s \in Seqs, NEW inst, NEW votes, NEW fin,
             ChainResult(r, s, inst, votes, fin)
      PROVE  \A p \in Replica : /\ Sent(p) \subseteq Sent(p)'
                                /\ Delivered(p) \subseteq Delivered(p)'
  <2>1. \A p \in Replica : Sent(p) \subseteq Sent(p)'
    BY <1>2 DEF ChainResult
  <2>2. CASE delivered' = delivered
    BY <2>1, <2>2 DEF Delivered
  <2>3. CASE Executes(r, s, inst.digest)
    <3>1. PICK d : d = inst.digest
      OBVIOUS
    <3>2. d \in Request /\ Executes(r, s, d)
      BY <2>3, <3>1 DEF Executes
    <3>3. /\ \A p \in Replica \ {r} : Delivered(p)' = Delivered(p)
          /\ Delivered(r)' = Delivered(r) \cup {[sequence |-> s, request |-> d]}
      BY <3>2, ExecutesDelivered
    <3> QED
      BY <2>1, <3>3
  <2> QED
    BY <1>2, <2>2, <2>3 DEF ChainResult
<1>3. CASE Quiet
  BY <1>1, <1>3 DEF Quiet
<1>4. ASSUME NEW r \in Replica, NEW q \in Replica, NEW m \in Message,
             Handles(r, q, m)
      PROVE  \A p \in Replica : /\ Sent(p) \subseteq Sent(p)'
                                /\ Delivered(p) \subseteq Delivered(p)'
  <2>1. ProcessMessage(r, q, m)
    BY <1>4 DEF Handles
  <2>2. CASE Ignore
    BY <1>1, <2>2 DEF Ignore
  <2>3. CASE IsVote(m) /\ ~Ignore
    BY <1>2, <2>1, <2>3, VoteResult
  <2>4. CASE m.type = "ViewChange" /\ ~Ignore
    <3>1. delivered' = delivered /\ \A p \in Replica : Sent(p) \subseteq Sent(p)'
      BY <2>1, <2>4, ViewChangeResult
    <3> QED
      BY <3>1 DEF Delivered
  <2>5. CASE m.type \in {"Checkpoint", "NewView"}
    BY <1>1, <2>1, <2>5 DEF ProcessMessage, HandleCheckpoint, HandleNewView, Ignore
  <2> QED
    BY <2>1, <2>2, <2>3, <2>4, <2>5 DEF ProcessMessage, IsVote
<1>5. ASSUME NEW r \in Replica, NEW d \in Request, OrdersNext(r, d)
      PROVE  \A p \in Replica : /\ Sent(p) \subseteq Sent(p)'
                                /\ Delivered(p) \subseteq Delivered(p)'
  <2> DEFINE s    == sequence[r] + 1
             inst == PrePrepared(r, GetOrCreateInstance(r, s), d)
  <2>1. /\ s \in Seqs
        /\ \/ UNCHANGED <<log, executed, outgoing, delivered>>
           \/ \E votes, fin : ChainResult(r, s, inst, votes, fin)
    BY <1>5, OrderResult DEF OrdersNext
  <2> HIDE DEF s, inst
  <2> QED
    BY <1>1, <1>2, <2>1
<1>6. ASSUME NEW r \in Replica, AsksForView(r)
      PROVE  \A p \in Replica : /\ Sent(p) \subseteq Sent(p)'
                                /\ Delivered(p) \subseteq Delivered(p)'
  <2>1. \A p \in Replica : Sent(p) \subseteq Sent(p)'
    BY <1>6, AsksSent
  <2> QED
    BY <1>6, <2>1 DEF AsksForView, Delivered
<1>7. ASSUME NEW r \in Replica, Restart(r)
      PROVE  outgoing' = outgoing /\ delivered' = delivered
  BY <1>7 DEF Restart
<1> QED
  BY <1>1, <1>3, <1>4, <1>5, <1>6, <1>7, NextCases

-----------------------------------------------------------------------------
(* Quorums *)

LEMMA QuorumType == Quorum \in Nat \ {0} /\ f \in Nat /\ Quorum = 2 * f + 1
<1>1. n \in Nat \ {0}
  BY ReplicasAssumption, FS_CardinalityType DEF n
<1>2. (n - 1) \div 3 \in Nat
  BY <1>1
<1> QED
  BY <1>2 DEF Quorum, f

\* A set of replicas that contains a quorum is one.
LEMMA QuorumGrows ==
    ASSUME NEW A, NEW B \in SUBSET Replica, A \subseteq B,
           Cardinality(A) >= Quorum
    PROVE  Cardinality(B) >= Quorum
<1>1. IsFiniteSet(B)
  BY ReplicasAssumption, FS_Subset
<1>2. IsFiniteSet(A) /\ Cardinality(A) <= Cardinality(B)
  BY <1>1, FS_Subset
<1>3. Cardinality(A) \in Nat /\ Cardinality(B) \in Nat
  BY <1>1, <1>2, FS_CardinalityType
<1> QED
  BY <1>2, <1>3, QuorumType

\* A quorum has a member.
LEMMA QuorumNonEmpty ==
    ASSUME NEW A, Cardinality(A) >= Quorum
    PROVE  A # {}
  BY FS_EmptySet, QuorumType

-----------------------------------------------------------------------------
(* Everything comes from the first primary's pre-prepares *)

\* What is stored, executed or voted for was pre-prepared by the first primary,
\* in this life or an earlier one.
Sourced == InstancesOrdered /\ DeliveredOrdered /\ VotesOrdered

LEMMA OrderedGrows ==
    ASSUME TypeInv, [Next]_vars
    PROVE  \A s, d : Ordered(s, d) => Ordered(s, d)'
  BY Monotone, PrimaryType DEF Ordered, HasSent

\* A step that stores, executes and votes for nothing.
LEMMA SourcedFrame ==
    ASSUME TypeInv, [Next]_vars, Sourced,
           \A p \in Replica : \A m \in Sent(p)' :
              m \in Sent(p) \/ m.type \notin {"Prepare", "Commit"},
           \A p \in Replica, s \in Seqs : log'[p][s] \in {None, log[p][s]},
           delivered' = delivered
    PROVE  Sourced'
<1>1. \A s, d : Ordered(s, d) => Ordered(s, d)'
  BY OrderedGrows
<1>2. InstancesOrdered'
  BY <1>1 DEF Sourced, InstancesOrdered
<1>3. DeliveredOrdered'
  BY <1>1 DEF Sourced, DeliveredOrdered, Delivered
<1>4. VotesOrdered'
  BY <1>1 DEF Sourced, VotesOrdered
<1> QED
  BY <1>2, <1>3, <1>4 DEF Sourced

\* The chain stores, executes and votes for the instance's digest.
LEMMA ChainSourced ==
    ASSUME TypeInv, [Next]_vars, Sourced,
           NEW r \in Replica, NEW s \in Seqs, NEW inst, NEW votes, NEW fin,
           ChainResult(r, s, inst, votes, fin),
           inst.digest # None => Ordered(s, inst.digest)',
           \A m \in votes : m.type = "PrePrepare" \/ Ordered(m.sequence, m.digest)'
    PROVE  Sourced'
<1>1. \A i, d : Ordered(i, d) => Ordered(i, d)'
  BY OrderedGrows
<1>2. log \in [Replica -> [Seqs -> Instance \cup {None}]]
  BY DEF TypeInv, TypeOK
<1>3. InstancesOrdered'
  <2>1. \A p \in Replica, i \in Seqs :
            \/ log'[p][i] = log[p][i]
            \/ i = s /\ log'[p][i] = fin
    BY <1>2 DEF ChainResult
  <2>2. fin.digest = inst.digest
    BY DEF ChainResult
  <2>3. SUFFICES ASSUME NEW p \in Replica, NEW i \in Seqs, NEW d,
                        log'[p][i] # None, log'[p][i].digest # None,
                        d = log'[p][i].digest
                 PROVE  Ordered(i, d)'
    BY DEF InstancesOrdered, Ordered, HasSent
  <2>4. CASE log'[p][i] = log[p][i]
    BY <1>1, <2>3, <2>4 DEF Sourced, InstancesOrdered
  <2>5. CASE i = s /\ log'[p][i] = fin
    BY <2>2, <2>3, <2>5
  <2> QED
    BY <2>1, <2>4, <2>5
<1>4. DeliveredOrdered'
  <2>1. CASE delivered' = delivered
    BY <1>1, <2>1 DEF Sourced, DeliveredOrdered, Delivered
  <2>2. CASE Executes(r, s, inst.digest)
    <3>1. PICK d \in Request : d = inst.digest
      BY <2>2 DEF Executes
    <3>2. /\ \A p \in Replica \ {r} : Delivered(p)' = Delivered(p)
          /\ Delivered(r)' = Delivered(r) \cup {[sequence |-> s, request |-> d]}
      BY <2>2, <3>1, ExecutesDelivered
    <3>3. Ordered(s, d)'
      BY <3>1, BoundsAssumption
    <3>4. SUFFICES ASSUME NEW p \in Replica, NEW e \in Delivered(p)'
                   PROVE  Ordered(e.sequence, e.request)'
      BY DEF DeliveredOrdered
    <3>5. e \in Delivered(p) \/ e = [sequence |-> s, request |-> d]
      BY <3>2
    <3> QED
      BY <1>1, <3>3, <3>5 DEF Sourced, DeliveredOrdered
  <2> QED
    BY <2>1, <2>2 DEF ChainResult
<1>5. VotesOrdered'
  <2> DEFINE commit == Ballot("Commit", inst.view, s, inst.digest)
  <2>1. SUFFICES ASSUME NEW p \in Replica, NEW m \in Sent(p)',
                        m.type \in {"Prepare", "Commit"}
                 PROVE  Ordered(m.sequence, m.digest)'
    BY DEF VotesOrdered
  <2>2. \/ m \in Sent(p) \cup votes
        \/ m = commit /\ inst.digest # None
        \/ m = CheckpointMsg(s)
    BY DEF ChainResult, CastsCommit
  <2>3. /\ commit.sequence = s /\ commit.digest = inst.digest
        /\ CheckpointMsg(s).type = "Checkpoint"
    BY DEF Ballot, CheckpointMsg
  <2> HIDE DEF commit
  <2> QED
    BY <1>1, <2>1, <2>2, <2>3 DEF Sourced, VotesOrdered
<1> QED
  BY <1>3, <1>4, <1>5 DEF Sourced

\* Every step preserves Sourced.
LEMMA SourcedStep == TypeInv /\ ViewInv /\ Sourced /\ [Next]_vars => Sourced'
<1> SUFFICES ASSUME TypeInv, ViewInv, Sourced, [Next]_vars PROVE Sourced'
  OBVIOUS
<1>1. \A i, d : Ordered(i, d) => Ordered(i, d)'
  BY OrderedGrows
<1>2. log \in [Replica -> [Seqs -> Instance \cup {None}]]
  BY DEF TypeInv, TypeOK
<1>3. ASSUME outgoing' = outgoing, delivered' = delivered,
             \A p \in Replica, s \in Seqs : log'[p][s] \in {None, log[p][s]}
      PROVE  Sourced'
  <2>1. \A p \in Replica : Sent(p)' = Sent(p)
    BY <1>3 DEF Sent
  <2> QED
    BY <1>3, <2>1, SourcedFrame
<1>4. CASE Quiet
  BY <1>3, <1>4 DEF Quiet
<1>5. ASSUME NEW r \in Replica, NEW q \in Replica, NEW m \in Message,
             Handles(r, q, m)
      PROVE  Sourced'
  <2>1. ProcessMessage(r, q, m) /\ m \in Sent(q)
    BY <1>5 DEF Handles
  <2>2. CASE Ignore
    BY <1>3, <2>2 DEF Ignore
  <2>3. CASE IsVote(m) /\ ~Ignore
    <3> DEFINE s   == m.sequence
               old == GetOrCreateInstance(r, s)
    <3>1. /\ s \in Seqs
          /\ \E inst \in Instance, votes \in SUBSET Message, fin \in Instance :
                /\ VoteStored(r, q, m, inst, votes)
                /\ ChainResult(r, s, inst, votes, fin)
      BY <2>1, <2>3, VoteResult
    <3>2. PICK inst \in Instance, votes \in SUBSET Message, fin \in Instance :
              /\ VoteStored(r, q, m, inst, votes)
              /\ ChainResult(r, s, inst, votes, fin)
      BY <3>1
    <3>3. old \in Instance
      BY <3>1, GetOrCreateType
    <3>4. old.digest # None => Ordered(s, old.digest)
      BY <3>1 DEF GetOrCreateInstance, NewInstance, Sourced, InstancesOrdered
    <3>5. m.type = "PrePrepare" => Ordered(s, m.digest)
      BY <2>1 DEF ViewInv, SingleOrderer, Ordered, HasSent
    <3>6. \/ inst.digest = old.digest
          \/ m.type = "PrePrepare" /\ inst.digest = m.digest
      BY <3>2, <3>3 DEF VoteStored, PrePrepared, Instance
    <3>7. \A l \in votes : /\ m.type = "PrePrepare"
                           /\ l.sequence = s /\ l.digest = m.digest
      BY <3>2 DEF VoteStored, Ballot
    <3> HIDE DEF s, old
    <3> QED
      BY <1>1, <3>1, <3>2, <3>4, <3>5, <3>6, <3>7, ChainSourced
  <2>4. CASE m.type = "ViewChange" /\ ~Ignore
    <3>1. /\ log' = log /\ delivered' = delivered
          /\ \A p \in Replica : \A l \in Sent(p)' :
                l \in Sent(p) \/ l = ViewMsg("NewView", m.new_view)
      BY <2>1, <2>4, ViewChangeResult
    <3> QED
      BY <3>1, SourcedFrame DEF ViewMsg
  <2>5. CASE m.type = "Checkpoint"
    <3>1. /\ outgoing' = outgoing /\ delivered' = delivered
          /\ log' = log \/ log' = [log EXCEPT ![r] = Retain(r, m.sequence)]
      BY <2>1, <2>5 DEF ProcessMessage, HandleCheckpoint
    <3>2. \A p \in Replica, s \in Seqs : log'[p][s] \in {None, log[p][s]}
      BY <1>2, <3>1 DEF Retain
    <3> QED
      BY <1>3, <3>1, <3>2
  <2>6. CASE m.type = "NewView"
    BY <1>3, <2>1, <2>6 DEF ProcessMessage, HandleNewView, Ignore
  <2> QED
    BY <2>1, <2>2, <2>3, <2>4, <2>5, <2>6 DEF ProcessMessage, IsVote
<1>6. ASSUME NEW r \in Replica, NEW d \in Request, OrdersNext(r, d)
      PROVE  Sourced'
  <2>1. r = Primary(0)
    BY <1>6 DEF OrdersNext, IsPrimary, ViewInv, NeverNewPrimary
  <2> DEFINE s    == sequence[r] + 1
             inst == PrePrepared(r, GetOrCreateInstance(r, s), d)
             pp   == Ballot("PrePrepare", view[r], s, d)
             vote == Ballot("Prepare", view[r], s, d)
  <2>2. /\ s \in Seqs
        /\ \/ UNCHANGED <<log, executed, outgoing, delivered>>
           \/ /\ inst \in Instance
              /\ \E fin : ChainResult(r, s, inst, {pp, vote}, fin)
    BY <1>6, OrderResult DEF OrdersNext
  <2>3. CASE UNCHANGED <<log, executed, outgoing, delivered>>
    BY <1>3, <2>3
  <2>4. CASE /\ inst \in Instance
             /\ \E fin : ChainResult(r, s, inst, {pp, vote}, fin)
    <3>1. GetOrCreateInstance(r, s) \in Instance
      BY <2>2, GetOrCreateType
    <3>2. inst.digest = d
      BY <3>1 DEF PrePrepared, Instance
    <3>3. PICK i \in Seqs : i = s
      BY <2>2
    <3>4. /\ pp.type = "PrePrepare" /\ pp.sequence = i /\ pp.digest = d
          /\ vote.sequence = i /\ vote.digest = d
      BY <3>3 DEF Ballot
    <3>5. PICK first : first = pp
      OBVIOUS
    <3>6. PICK second : second = vote
      OBVIOUS
    <3> HIDE DEF s, inst, pp, vote
    <3>7. PICK fin, full : full = inst /\ ChainResult(r, i, full, {first, second}, fin)
      BY <2>4, <3>3, <3>5, <3>6
    <3>8. first \in Sent(r)'
      BY <3>7 DEF ChainResult
    <3>9. Ordered(i, d)'
      BY <2>1, <3>4, <3>5, <3>8 DEF Ordered, HasSent
    <3>10. full.digest # None => Ordered(i, full.digest)'
      BY <3>2, <3>7, <3>9
    <3>11. \A m \in {first, second} : m.type = "PrePrepare" \/ Ordered(m.sequence, m.digest)'
      BY <3>4, <3>5, <3>6, <3>9
    <3> QED
      BY <3>7, <3>10, <3>11, ChainSourced
  <2> QED
    BY <2>2, <2>3, <2>4
<1>7. ASSUME NEW r \in Replica, AsksForView(r)
      PROVE  Sourced'
  <2>1. \A p \in Replica : \A l \in Sent(p)' :
            l \in Sent(p) \/ l = ViewMsg("ViewChange", view[r] + 1)
    BY <1>7, AsksSent
  <2>2. log' = log /\ delivered' = delivered
    BY <1>7 DEF AsksForView
  <2> QED
    BY <2>1, <2>2, SourcedFrame DEF ViewMsg
<1>8. ASSUME NEW r \in Replica, Restart(r)
      PROVE  Sourced'
  <2>1. /\ outgoing' = outgoing /\ delivered' = delivered
        /\ \A p \in Replica, s \in Seqs : log'[p][s] \in {None, log[p][s]}
    BY <1>2, <1>8 DEF Restart
  <2> QED
    BY <1>3, <2>1
<1> QED
  BY <1>4, <1>5, <1>6, <1>7, <1>8, NextCases

LEMMA SourcedInit == Init => Sourced
<1> SUFFICES ASSUME Init PROVE Sourced
  OBVIOUS
<1>1. \A r \in Replica : Sent(r) = {} /\ Delivered(r) = {}
  BY DEF Init, Sent, Delivered
<1>2. \A r \in Replica, s \in Seqs : log[r][s] = None
  BY DEF Init
<1> QED
  BY <1>1, <1>2 DEF Sourced, InstancesOrdered, DeliveredOrdered, VotesOrdered

-----------------------------------------------------------------------------
(* What a new pre-prepare comes from *)

\* Only the first primary, in view 0, pre-prepares: the next number, if that is
\* not above its high water mark.
LEMMA NewOrder ==
    ASSUME TypeInv, ViewInv, [Next]_vars,
           NEW r \in Replica, NEW m \in Sent(r)', m.type = "PrePrepare",
           m \notin Sent(r)
    PROVE  /\ r = Primary(0)
           /\ view[r] = 0
           /\ m.sequence = sequence[r] + 1
           /\ m.sequence <= HighWatermark(r)
           /\ sequence'[r] = sequence[r] + 1
<1>1. CASE outgoing' = outgoing
  BY <1>1 DEF Sent
<1>2. CASE Quiet
  BY <1>1, <1>2 DEF Quiet
<1>3. ASSUME NEW p \in Replica, NEW q \in Replica, NEW l \in Message,
             Handles(p, q, l)
      PROVE  m \in Sent(r)
  BY <1>3, HandlerSent DEF Handles
<1>4. ASSUME NEW p \in Replica, NEW d \in Request, OrdersNext(p, d)
      PROVE  /\ r = Primary(0)
             /\ view[r] = 0
             /\ m.sequence = sequence[r] + 1
             /\ m.sequence <= HighWatermark(r)
             /\ sequence'[r] = sequence[r] + 1
  <2>1. view[p] = 0 /\ p = Primary(0)
    BY <1>4 DEF OrdersNext, IsPrimary, ViewInv, NeverNewPrimary
  <2> DEFINE s    == sequence[p] + 1
             inst == PrePrepared(p, GetOrCreateInstance(p, s), d)
             pp   == Ballot("PrePrepare", view[p], s, d)
             vote == Ballot("Prepare", view[p], s, d)
             commit == Ballot("Commit", inst.view, s, inst.digest)
  <2>2. /\ s \in Seqs
        /\ sequence' = [sequence EXCEPT ![p] = s]
        /\ \/ outgoing' = outgoing
           \/ /\ s <= HighWatermark(p)
              /\ \E fin : ChainResult(p, s, inst, {pp, vote}, fin)
    BY <1>4, OrderResult DEF OrdersNext
  <2>3. /\ pp.sequence = s /\ vote.type = "Prepare" /\ commit.type = "Commit"
        /\ CheckpointMsg(s).type = "Checkpoint"
    BY DEF Ballot, CheckpointMsg
  <2>4. CASE /\ s <= HighWatermark(p)
             /\ \E fin : ChainResult(p, s, inst, {pp, vote}, fin)
    <3>1. r = p
      BY <2>4 DEF ChainResult
    <3>2. m \in {pp, vote, commit, CheckpointMsg(s)}
      BY <2>4, <3>1 DEF ChainResult
    <3>3. m = pp
      BY <2>3, <3>2
    <3>4. sequence'[p] = s
      BY <2>2 DEF TypeInv, TypeOK
    <3> QED
      BY <2>1, <2>3, <2>4, <3>1, <3>3, <3>4
  <2> QED
    BY <1>1, <2>2, <2>4
<1>5. ASSUME NEW p \in Replica, AsksForView(p)
      PROVE  m \in Sent(r)
  <2>1. m \in Sent(r) \/ m = ViewMsg("ViewChange", view[p] + 1)
    BY <1>5, AsksSent
  <2> QED
    BY <2>1 DEF ViewMsg
<1>6. ASSUME NEW p \in Replica, Restart(p)
      PROVE  m \in Sent(r)
  <2>1. outgoing' = outgoing
    BY <1>6 DEF Restart
  <2> QED
    BY <2>1 DEF Sent
<1> QED
  BY <1>2, <1>3, <1>4, <1>5, <1>6, NextCases

=============================================================================
