# A TLA+ model of P2P-PBFT

This directory specifies P2P-PBFT: the consensus engine (`src/src/pbft.rs`), the
peer table and its connections (`network.rs`), the framing of messages, and the
tasks and queues of a node (`main.rs`, `node.rs`). TLC checks the modules on
small instances, and TLAPS proves most of the safety results about the engine, the
peer tables and the queues for networks of every size.

## 1. The system

| Part | State | Operations | Talks to |
|---|---|---|---|
| PBFT engine, `pbft.rs` | `PbftState` under one lock: view, sequence counter, water marks, log of instances, executed digests, checkpoints, view changes | `handle_request`, `handle_pre_prepare`, `handle_prepare`, `handle_commit`, `handle_checkpoint`, `handle_view_change`, `handle_new_view`, `start_view_change`, `check_timeout` | sends on `outgoing_tx` (broadcast or to one peer) and `committed_tx` |
| Configuration, `pbft.rs`, `main.rs` | n, f, quorum 2f+1, sorted list of replica ids | primary of a view is `replicas[view % n]` | read by the engine |
| Messages, `message.rs` | none | request digest, serialisation | all |
| Node executable, `main.rs` | channels of 1000, 1000 and 100 | main loop (client requests, network messages), outgoing task, committed task, status task, command line | engine, peer table |
| Network, `network.rs` | peer table id -> handle, one reader and one writer per connection, queues of 100 | listen, connect, handshake, discovery of peers, send, broadcast, remove on end of a reader | node |
| Framing, `network.rs` | none | u32 length prefix, 16 MB limit | reader, writer |
| Library wrapper, `node.rs` | optional engine, channels | initialise, start, connect, submit | engine, network |
| Cryptography, `crypto.rs` | key pair | sign, verify | engine |

A client request enters at any node. A backup forwards it to the primary it
believes in. The primary assigns the next sequence number and broadcasts a
pre-prepare and its own Prepare. A replica that stores the pre-prepare
broadcasts a Prepare, with 2f+1 Prepares a Commit, and with 2f+1 Commits it
executes the request. At multiples of the checkpoint interval it broadcasts a
Checkpoint. 2f+1 of those, received from others, move the water marks and drop
the log below. A backup whose timer expires broadcasts a ViewChange. The primary
of that view answers 2f+1 of them with a NewView.

What is hard here:

* *Order.* A connection keeps the order of its messages, two connections do not:
  votes overtake the pre-prepare they belong to, Commits overtake Prepares, a
  NewView overtakes or is overtaken by the traffic of either view.
* *Loss.* A broadcast goes to whoever is in the peer table at that moment. There
  is no retransmission and no state transfer.
* *Crashes.* Nothing is persisted. A node restarted with the same key is the
  same replica without memory.
* *Time.* `check_timeout` releases the lock before `start_view_change` takes it.
* *Limits.* Water marks, bounded channels, a 16 MB frame.

What makes the parts correct: the engine never executes two requests under one
number, executes each request once, in the same order everywhere, only with
2f+1 votes for that request behind it, never discards work it has not done,
keeps its log inside the window, enters a view only if 2f+1 replicas asked for
it, and gets submitted requests executed. The two ends of a pair should agree
on the connection they use and the nodes should form a mesh, the queues should
never make everyone wait on everyone, and framing should deliver exactly what
was sent. `PROJECT.json` lists the hazards line by line and the properties that
cover them.

## 2. The modules

| Module | What it is |
|---|---|
| `PbftConfig` | replica ids, the list `replicas`, `n`, `f`, `Quorum`, `Primary` |
| `Pbft` | the engines of all replicas, their main loops, timers, processes and connections |
| `PbftProperties` | what is claimed of `Pbft`, the inductive invariants, the refinement of `Ledger` |
| `Ledger` | abstract: one write-once ledger, and processes that execute from it |
| `PbftProofs` | typing, the single orderer, agreement |
| `PbftStepProofs` | what a step of `Pbft` does, case by case: the lemmas the next three rest on |
| `PbftQuorumProofs` | theorems about view changes, checkpoints and water marks |
| `PbftVoteProofs` | theorems about votes and executions; `Pbft` implements `Ledger` |
| `PbftSequenceProofs` | theorems about runs in which nothing is lost: the order of execution, the agreement on checkpoints |
| `Network`, `NetworkProperties` | listener, handshake, discovery, peer table, life of a connection |
| `NetworkProofs` | the theorems about the peer tables and the mesh |
| `Framing` | one direction of a connection, byte by byte |
| `FramingProofs` | `Framing` implements `Channel` |
| `Pipeline` | from engine to engine: main loop, outgoing task, queues, writer, socket, reader |
| `PipelineProofs` | the theorems about the queues; `Pipeline` implements `Channel` |
| `Channel` | abstract: ordered links that lose and invent nothing |
| `MCPbft`, `MCNetwork`, `MCFraming`, `MCPipeline` | values of the constants, symmetry and one state constraint for TLC |

How they fit together. `Pbft` reads the histories `outgoing` in order and takes
entries of the peer table to come and go. The first is what `Channel` says;
`Pipeline` (tasks and queues, with whole messages) and `Framing` (a socket, with
bytes) are each shown to implement `Channel`. The second is the business of
`Network`, whose connections open, replace each other and end. `Pbft` in turn
implements `Ledger`.

### State and steps of `Pbft`

The variables of `engineVars` are the fields of `PbftState`, indexed by replica.
`low_watermark` and `high_watermark` are functions of `stable_checkpoint` in the
code's constructor and in its only assignment to them, and are operators here.
`log[r][s]` is `None` or a record: the fields `request`, `digest` and
`pre_prepare` are set together and are one field, and `prepares[q]` is the digest
q voted for. `checkpoints` and `view_changes` keep the set of senders.

The main loop awaits a handler before it takes the next message, so a handler is
one step, with the chain `try_advance_to_prepared`,
`try_advance_to_committed`, `try_checkpoint` inside it: each of these operators
takes the updated instance and the messages broadcast so far and either passes
them on or stores them. `handle_request` and `process_message` are called by the
same loop. The timer is not part of the loop, and `CheckTimeout` and
`StartViewChange` are therefore two steps. `view_change_due` is the program
counter between them.

`outgoing[r]` is everything r has ever broadcast, in order, and
`received[r][q]` says how far r has read q's broadcasts. `peers[q]` is q's table.
`Connect(q, r)` adds an entry and chooses how much of q's history was still
queued in q when it did: all that lies before is lost to r. A message that some
replica has read has left that queue. `Disconnect` removes an entry, `Crash`
removes a process and every entry for it, and `Restart` gives the process a new
`PbftState`. Tables are directed because each end inserts and removes its own
entry in its own time. `forwarded` holds requests sent with `SendTo`, which
either reach the target's main loop or are dropped if it is not in the table.
`delivered` is what was sent on `committed_tx`, and it survives restarts: it is
what the outside world has seen.

Abstractions: a digest is its request; a signature is replaced by the fact that
a message is read from its sender's history, so forged messages are outside the
model; `Reply` is never sent; `last_sequence` and the vector in NewView are never
read. Channel capacities are the subject of `Pipeline`. Messages still in a socket when
their sender dies are read before the crash or lost, and `Crash` removes the entries
of the dead process everywhere in one step. The code allows one order more: a
message of the old process, read late from a socket or an inbox, after the restarted
process has already been heard. That order is not modelled, and results about
restarts are to be read with it in mind. A request may be submitted twice: two submissions of the same data at one node in
the same millisecond have the same digest, and a user of the library may call
`handle_request` again with the same value.

Guards that only bound the model: `MaxSeq` (sequence numbers), `MaxView`,
`MaxSubmits`, `MaxFaults`. `Started`, `Restartable` and `Unstable` choose who
runs at the start, may be started again, and may fail.

### State and steps of `Network`

A connection is a record in `conns`, named by who dialled whom for the how
manyeth time. For each of its two ends it holds what the reader task is doing
and whether the write half is open. `peers[n][m]` is the connection behind n's
handle for m. Inserting a handle drops the one that was there; a dropped handle
lets its writer end (`WriterEnds`), the remote reader then sees the end of the
stream and removes the entry of the peer, by node id and so whichever handle it
finds (`ReaderReturns`, `Remove`). A reader returns at the end of its stream
(`ReaderEnds`), or because it gives up on a frame over the limit (`ReaderFails`). That chain across two nodes is why a connection
that is replaced can take its successor with it.

The handshake is three steps besides the dialling: the acceptor reads its table
and answers (`SendAck`), stores the peer (`AcceptorConnected`), and the dialler
stores the peer and spawns its discovery tasks (`DialerConnected`). Either end may
find the stream closed instead (`HandshakeFails`). The startup
of `main.rs` listens and then tries its bootstrap peers one after the other, each
once. The library's `build_and_connect` dials first and listens only when
`start` is called (`Library`, `Listen`). A node's address stands for the node.
`disturbed` and `deployment` belong to the model: the first records whether a node
was started before its bootstrap peer or before the others had settled, or a reader
failed; the second is a choice of -b options and of the nodes that may fail.

### State and steps of `Framing` and `Pipeline`

A byte of `Framing` is either a digit of a length or a numbered byte of a
message, so that a piece of one frame is never by accident a piece of another;
`Base`, `Width` and `MaxSize` stand for 256, 4 and 16 MB, and the length is taken
modulo `Base ^ Width` as the cast to `u32` does. `Write` moves any number of
bytes, and `Take` waits for all the bytes it needs as `read_exact` does. What is
decoded is a message at the front of the data, as bincode does it: bytes after it
would be ignored.

`Pipeline` has a variable for every place a message can be: what the running
handler has yet to send (`todo`), the queue of `outgoing_tx`, the message in the
hands of the outgoing task with the peers it still goes to (`carried`), a queue
and a socket per peer, and the inbox. Every step that puts something into one of
them waits for room. The handlers are those of a network with f = 0, where one
vote is a quorum: whoever votes for a number sends its Prepare and Commit, and at the
multiples of the interval a Checkpoint, in one go (`Votes`); the Checkpoint of one
other node moves the water marks (`HandleCheckpoint`), and the primary goes on
ordering as long as they do. `Hang` stops a node without closing its connections.

## 3. The runs

| Run | Instance | Checks |
|---|---|---|
| `normal` | 3 of 4 replicas, 2 requests anywhere, interval 2, fair | `InSequenceAtFirst`, `SequenceInv`, `CheckpointsAgree`, `ExecutedOnce`, `RequestsExecute` |
| `checkpoint` | 4 replicas, interval 1, 1 request | `StableBacked` |
| `lossy` | 3 of 4, 2 faults, r1 restarts | `Certificates` |
| `overlap` | 3 replicas, f = 0, 2 requests, and either r2's timer or a fault of the primary, which may restart | `TypeOK`, `SingleOrderer`, `NoOrderAfterViewChange`, `VotesOnce` |
| `restarts` | 2 replicas, interval 1, 5 numbers, 3 requests, 1 fault, r1 restarts | `Agreement`, `OrderInv`, `LogWindow`, `InstancesAdvance`, `ImplementsLedger`, `ExhaustedForGood` |
| `newview` | 4 replicas, views up to 2, fair | `NewViewBacked`, `NoViewSkipped`, `NewViewSpreads` |
| `network` | 3 nodes, 3 deployments, 1 crash or failed reader, fair | `TypeOK`, `TablesAgree`, `PatientStartsMesh`, `DoubledCutsOff` |
| `framing` | 5 sizes, 4 messages, lengths of 2 binary digits, fair | `TypeOK`, `FramesAreMessages`, `FramesArrive`, `OversizeEnds` |
| `pipeline` | 2 nodes, interval 1, `outgoing_tx` of 11, other queues of 1, 3 requests, r may hang, fair | `TypeOK`, `PrimaryNeverWaits`, `InOrder`, `AllHandled` |
| `disagreement` | 4 replicas, the primary restarts | `Agreement` is violated |
| `skipped` | 3 replicas, interval 1, 2 requests, no fault | `ExecutesInSequence` is violated |
| `gridlock` | 3 nodes that all run, the same queues, fair | `AllHandled` is violated |

Three of the properties are refinements: `ImplementsLedger` (`Pbft` implements
`Ledger`, the ledger being the first primary's pre-prepares), `FramesAreMessages`
(`Framing` implements `Channel`) and `InOrder` (`Pipeline` implements `Channel`).

Why the bounds are enough. With four replicas f = 1 and a quorum is 3, the
smallest case in which a quorum is not everybody and votes can be missing. Three
running replicas are the case in which every vote is needed, hence the hardest
for liveness. Two sequence numbers show reordering and duplicates. A checkpoint
interval of 1 makes every number a checkpoint, and an interval beyond `MaxSeq`
keeps checkpoints out of runs that are not about them. The runs with n = 2 and
n = 3 use the value f = 0 that `PbftConfig::new` computes: a quorum is then a
single vote, so that view changes, checkpoints and early votes take effect in
very few steps and their interleavings fit in a run. `restarts` needs five
numbers: two that are ordered, two that are refused, and the one the primary
would order next if the window could still catch up. One or two faults suffice
for every story of losing, reconnecting and restarting with one sequence number.

Three nodes are the smallest network with discovery: one learns of a second from
a third. The deployments of `network` are the star of `run.sh` with nodes that stop
and come back, a node with two -b options, and two nodes that name each other.
`framing` has a message below the limit, at it and just above it, and the first
two sizes whose length wraps, to zero and to an allowed value. The queues of
`pipeline` are as small as they can be without breaking the proportion the code
has: `outgoing_tx` (1000) holds what the handlers of a window send, counted as four
messages for each of its 200 numbers, and what may be left of the number below
(803 in all). This is `CapacityAssumption`. With an interval of 1 the bound is 11 and
it is tight: with a queue of 10 TLC finds a handler of the primary waiting. Three
requests fill the first window, move it and order beyond it.

`checkpoint` uses the symmetry of the backups, which are interchangeable while
nobody leaves view 0. `overlap` and `restarts` use that of the requests, which are
only compared for equality; neither has a liveness property. `disagreement` and
`gridlock` explore only the states around one story (`RestartAfterExecution`,
`ClientsWhileJammed`): a constraint can hide violations but not invent them.
In `gridlock` every state of the counterexample is one of the program and the last
of them has no step but more client requests, so that fairness is met.
`overlap` would be too large with every combination, and `TimerOrFault` leaves out
two: a timer after a fault, and the timer of r1, which would propose the view that
r1 itself leads. `newview` lets every timer fire, without requests and faults;
a timer after a fault is covered only by the theorems about these properties, which
have neither bound nor constraint.

Deadlock is not checked, because a network without requests or with all bounds
used up has nothing left to do; blocking is what `AllHandled` is about.

Fairness. Tokio polls every ready task. In `Pbft` (`DeliveryFairness`) a message
whose receiver stays connected is eventually read and a queued `SendTo` is
eventually sent or dropped. In `Network`, `Framing` and `Pipeline` every task
takes finitely many steps (the bounds on dials, messages and requests see to
that), so that fairness to the tasks together, or to those of a node together, is
as good as fairness to each. A hung node of `Pipeline` is under no obligation. No
fairness is assumed of clients, timers, crashes, restarts or connections.

### Where documentation and code differ

* `disagreement`: votes that arrive before the pre-prepare are never compared
  with it. The primary loses its connection to r3; r1 executes `a` at number 1;
  r3 keeps the votes of r1 and r2 for `a`; the primary restarts without memory
  and assigns number 1 to `b`; r3 counts the votes for `a` and executes `b`.
  The replica at fault is one, the primary, which f = 1 should tolerate.
* `skipped`: execution does not wait for earlier numbers, and a stable checkpoint
  moves the window of a replica whether or not it has executed the number. Without
  any fault, r2 reads r1's Checkpoint for number 1 before the primary's pre-prepare
  of number 1, which it then refuses; it executes number 2 and never number 1. The
  run has f = 0, where one Checkpoint is a quorum. With f = 1 the same needs three
  Checkpoints to overtake the pre-prepare, from replicas other than the one left
  behind and other than the primary: it takes five replicas. With four, the
  pre-prepares for numbers above the first window can be refused by a replica that
  has not seen the checkpoint yet.
* `gridlock`: a backup forwards one Request for each of its clients' requests, and no
  water mark bounds these. Among three running nodes, the two backups' queues, sockets
  and inboxes towards each other fill up, both `outgoing_tx` fill with forwarded
  requests, and both main loops wait for room that only the other could make. The
  copied peer list (`DOCUMENTATION.md:888`) keeps a lock out of this and not the
  deadlock. With two nodes it does not happen (`pipeline`), because one of the two is
  the primary, whose handlers never wait. For the same reason, that the outgoing task
  sends to the peers one after the other, a peer that stops reading silences the node
  towards everybody.
* `network` (`DoubledCutsOff`): a pair of nodes that has connected twice ends up
  without a connection, and two -b options into one mesh make such a pair.
* `checkpoint` (`StableBacked`): a replica does not count its own Checkpoint, so
  2f+1 others are needed and with f replicas missing nothing becomes stable.
* `overlap` (`NoOrderAfterViewChange`): the new primary never applies its own
  NewView; after a view change nothing is ordered again. The theorem
  `OrderingEnds` is the general form. In addition, a new primary that is the last
  to time out sends no NewView, and by `NoViewSkipped` nobody asks for the view
  after it.

Properties that hold only under a condition the code does not guarantee:

* `InSequenceAtFirst`, `CheckpointsAgree`: the documented order of execution holds
  thanks to ordered connections and to early votes being kept, as long as nothing is
  lost and no checkpoint is stable. After a loss a replica executes number 2
  without number 1, after a stable checkpoint too (`skipped`), and there is no
  state transfer to make up for it.
* `LogWindow`: `handle_request` tests the high mark alone. A primary that restarts
  and is told an old checkpoint orders below its own low mark. While it keeps its
  memory, `LogStaysInWindow` proves the property.
* `RequestsExecute`: a request that was taken is ordered and executed in the first
  window and in view 0. With f replicas missing nothing becomes stable, so the window
  does not move, and `handle_request` refuses requests above it although a backup has
  taken and forwarded them.
* `AllHandled`: true of two nodes, false of three (`gridlock`).
* `ExecutedOnce`, `VotesOnce`: a replica restarted without memory executes and
  votes again, and so both speak of the replicas outside `Restartable`.
* `PatientStartsMesh`: two nodes that join at the same time are not told of each
  other, because the ack is written before the peer is stored, and a connection lost
  over a frame that is too large is not opened again. For nodes started one after the
  other, and readers that do not fail, `PatientMesh` proves it.

## 4. The proofs

Every theorem holds for every value of the constants that satisfies the named
assumptions: any set of replicas and any order of the list, any interval, all
bounds, all choices of who starts, fails and restarts; any number of nodes, -b
options and crashes; any capacities of the queues. "P0 remembers" marks what is
proved under `Primary(0) \notin Restartable`: the first primary may crash but not
come back without its memory. The run `disagreement` shows that agreement is lost
without it, and so are `OrderInv`, `Certificates`, `ImplementsLedger` and `LogWindow`:
TLC finds a counterexample to each once that primary may restart. "Nothing lost" marks
the hypothesis `Undisturbed`, that is `Restartable = {}` and `MaxFaults = 0`: nobody is
started late or restarted and no connection breaks; view changes, forwarding,
duplicate requests and every order of reading are still in.

| Theorem | States | Under | Inductive invariant |
|---|---|---|---|
| `TypeCorrect` | `TypeOK` of `Pbft` | | `TypeInv` |
| `OneOrderer` | `SingleOrderer` | | `ViewInv` |
| `OrderKept`, `AgreementTheorem` | `OrderInv`, `Agreement` | P0 remembers | `OrderInv` |
| `OrderingEnds` | `NoOrderAfterViewChange` | | `ViewInv` |
| `ViewChangesBacked`, `ViewsInTurn` | `NewViewBacked`, `NoViewSkipped` | | `ViewChangeInv` |
| `StableCheckpointsBacked` | `StableBacked` | | `CheckpointInv` |
| `ExhaustionIsFinal` | `ExhaustedForGood` | | `CheckpointInv`, `Sourced` |
| `LogStaysInWindow` | `LogWindow` | P0 remembers | `CheckpointInv`, `OrderInv` |
| `InstancesNeverGoBack` | `InstancesAdvance` | | `InstanceInv` |
| `OneVoteEach` | `VotesOnce` | | `VoteInv` |
| `ExecutionsUnique` | `ExecutedOnce` | | `ExecutionInv` |
| `ExecutionsCertified` | `Certificates` | P0 remembers | `CertificateInv` |
| `LedgerImplemented` | `ImplementsLedger` | P0 remembers | `OrderInv` |
| `SequenceKept` | `SequenceInv` | nothing lost | `SequenceInv` |
| `InSequence`, `CheckpointsAgreed` | `InSequenceAtFirst`, `CheckpointsAgree` | nothing lost | `SequenceInv` |
| `NetworkTyped`, `TablesSymmetric` | `TypeOK` of `Network`, `TablesAgree` | | `NetworkInv` |
| `PatientMesh` | `PatientStartsMesh` | | `MeshInv` |
| `FramingTyped`, `FramedChannel` | `TypeOK` of `Framing`, `FramesAreMessages` | | `StreamInv` |
| `QueuesTyped` | `TypeOK` of `Pipeline` | | `PipeInv`, `CountInv`, `StableInv`, `PastInv` |
| `PrimaryGoesOn` | `PrimaryNeverWaits` | f = 0 | `LineInv`, `StableInv`, `PastInv` |
| `OneChannel` | `InOrder` | | `FlowInv` |

### The engine

`TypeOK` is not inductive: to know that what is executed is a request and not
`None` one needs that an instance past `Idle` has a pre-prepare (`PhasesOK`).
`PbftProofs` reduces the handlers to what the vote chain can do to the state
(`CommittedEffect`, `PreparedEffect`, `VoteEffect`), and `PbftStepProofs` turns
that into one case distinction (`NextCases`, `LogCases`) in which a step either leaves the
log and the broadcasts alone or is described by what it stores, casts and
executes. The invariants below are each proved against those cases.

`ViewInv`: no replica is its own peer, a NewView is sent only by the primary of
its view, hence nobody enters a view in which it is primary except view 0, hence
only the first replica of the list ever pre-prepares. Two results follow from it.
One is that ordering ends with the first NewView. The other is `OrderInv`, while
this primary remembers: its pre-prepares are bounded by its counter and unique per
number, and everything stored or executed by anybody was pre-prepared by it.
Quorums play no part in the argument: agreement in this code comes from the
single orderer, and that is why it is lost when the orderer forgets.
`LedgerImplemented` reads the ledger off the pre-prepares: a step of the primary
that orders is `Order`, one that executes is `Execute`, with f = 0 one step is both,
and a restart is `Forget`.

What is counted was sent. Sets of senders survive the restart of those in them,
and the history of what a replica ever broadcast is what connects them:
`RecordedHaveAsked` (ViewChanges), `RecordedHaveAnnounced` (Checkpoints, with
`AnnouncedAreExecuted` behind them) and `RecordedVotes`. From the first two
follow `NewViewBacked` and `StableBacked` with no assumption on restarts.
`Certificates` needs the primary's memory, since votes are counted without
comparing digests: it is `VotesOrdered` (every vote is for what the primary ordered,
which is one request per number) that makes votes under one number votes for one
request.

`VotesOnce` rests on `VotesKept`: a vote that was cast leaves an instance in that
phase until a stable checkpoint covers its number, and below that nothing is
accepted. Together with `OwnVotes` (a replica's own vote is never recorded before it is
cast) and `PrimaryLogBounded` (the primary assigns a free number) it also gives
`InstancesAdvance`.

`LogWindow` and `ExhaustedForGood` need that a stable checkpoint lies at or below a
number the primary has ordered: it has executions behind it, and executions come
from pre-prepares (`Sourced`). So the counter of a primary that remembers is never
under its own low mark, which it does not test. And a counter two intervals
above the last number that can be checkpointed stays above every high mark to come.

`InSequenceAtFirst` and `CheckpointsAgree` compare replicas that have read different
parts of the same histories. `SequenceInv` says what makes up for the difference, until
a checkpoint is stable. What a replica has read is what is in its log (`ReadIsHeld`,
`HeldIsRead`, and `OwnHeld` for its own votes): in view 0 and in the first window
(`OnlyViewZero`, `InFirstWindow`) no vote is refused that is not there already.
Everybody votes on the numbers in ascending order (`VotesAscend`), so in every log
whoever is behind a number is behind all ordered below it (`LogAscends`). An
instance is in the last phase its votes allow (`InstancesPrompt`), so that what is
`Done` is a question of votes alone, and with a number all ordered below it are
done, hence executed (`DoneIsExecuted`). That is the order of execution. And since
a request ordered twice is executed under its smaller number everywhere, the
numbers announced are the same everywhere (`AnnouncedAreFirst`).
The invariant is inductive only as a whole: that a new Prepare or Commit comes after those
for smaller numbers (`VotesAscend`) follows from the log of its sender
(`LogAscends`), which follows from what that has read (`ReadIsHeld`) of the votes
of others (`VotesAscend`). A step is either one in which a replica takes one vote or
orders one request (`Takes`), or one in which the order `Rests`.

### The peer tables

`NetworkInv` is typing with three facts: nobody dials itself, connections are
numbered without a gap, and a handle in a table belongs to a running reader
(`HeldIsRead`). At rest the running reader sees the remote writer open, and a
writer at rest is held by its table: so entries come in pairs.

`PatientStartsMesh` needs to know that connections are never doubled. `MeshInv` names the
node started last, the joiner, and says: two nodes have at most one connection
that is not dead (`OneAlive`); between running nodes a connection is sound, with
both tables on it, or dead (`SoundOrDead`), so that what a crash leaves behind can no
longer remove an entry; all others are connected (`OthersMeshed`); and
to everybody the joiner is connected, or has a dial to make, or waits for an ack
that will name them (`JoinerReaches`), once (`ReachesOnce`). At rest only the first is
left. The hypothesis `~disturbed` is used in one place (`StartJoins`), where the joiner
is replaced by the next; of a failed reader `MeshInv` says nothing.

### The frames

`StreamInv` says what the bytes still to be read are, in the socket or before it: what
is left of the frames of the messages still to be received, one after the other.
A function `ends` gives the position where each frame ends (`LaidOut`), and each step
moves it: `Send` adds a value at its end, `read_exact` subtracts what it took from
all of them, `Write` leaves it alone, and `Close` cuts the bytes short without
moving any. The first frame starts at 0, or `Width` bytes before that once its length
is read (`FrontStart`). What `ReadData` decodes begins with the first byte of a
message that was sent, and that byte belongs to this message only. So a length that
wrapped, or one that fits another message, leads to an error and never to a wrong
message.

`FromBytes` is the number whose digits the bytes are; that this gives back the number
the bytes were made of is `RoundTripAssumption`. So the length that was read is never
more than what follows of the frame (`LengthFits`, `LengthRead`), and a message
found at the front of the data takes all of it.

### The queues

`PipeInv` says that messages are on a link they belong to and queues within their
capacity. `FlowInv` is the refinement: what n's engine has sent to m is what
m has received followed by what is in m's inbox, the socket, the queue, the hands of
the outgoing task and the queue of `outgoing_tx`, each with the messages of others
left out. "Left out" is stated by a strictly increasing choice of positions (`At`, `Part`)
and not by a recursive filter. `CountInv` counts requests: each is waiting to be
forwarded, on its way or numbered, and so the counter is bounded by the requests of
clients.

`PrimaryNeverWaits` is not a count of all the primary ever sends, since the window
moves. `LineInv` says that what the primary has still to enqueue or has in
`outgoing_tx` stands in a strictly ascending line of numbers and kinds, at most four
messages for a number. `PastInv` says that a pre-prepare
another node has answered lies behind that line (`Passed`): whatever is derived from it, a
Checkpoint of that node included, exists only once it has left `outgoing_tx`. So when
the primary's mark moves to a number (`StableInv`), its pre-prepare has gone, and all
that is left of numbers up to the mark is the three messages after it; the
rest of the line lies in the window above. That makes `4 * Window + 3`, the bound of
`CapacityAssumption`, for any number of requests and however long the nodes run.

### Assumptions

`ReplicasAssumption`, `IntervalAssumption`, `BoundsAssumption`, `NetworkAssumption`,
`FramingAssumption`, `RoundTripAssumption`, `PipelineAssumption`, `CapacityAssumption`, and a `NoneAssumption` in `Pbft` and in
`Pipeline` (`None` is not a log entry, not a message in hand). TLC evaluates all
of them in the runs. `NetworkAssumption` excludes a -b option that names the node
itself, and `PipelineAssumption` a node without peers. `FramingAssumption` says that no
message serialises to nothing (bincode writes a tag at least), that the limit is below
`Base ^ Width` (16 MB in a `u32`), and that this power is a natural number.
`RoundTripAssumption` is the fact about digits that `from_le_bytes` undoes
`to_le_bytes`. Both hold of all numbers and are assumed because tlapm cannot derive
them without induction.

### Left to TLC

* Liveness (`RequestsExecute`, `NewViewSpreads`, `DoubledCutsOff`, `FramesArrive`,
  `OversizeEnds`, `AllHandled`): fairness and `ENABLED` are outside the prover's reach.

## 5. Not modelled, and what is left to prove

Not modelled:

* Cryptography is ideal and Byzantine senders are left out.
* The command line and `run.sh` are input and output only, and bincode is
  represented by the size of a message.
* Ping and Pong: nothing in the repository sends a Ping, and so
  `Network::send_to_peer`, which holds the lock of the peer table across an await,
  is never called.
* The library's placeholder engine and `submit_request`: `start` keeps
  `&mut self` until the node ends, so that no call can meet a running node.
* Neither `main.rs` nor `node.rs` calls `check_timeout`: in the executables as they are
  no view change ever starts. In `Pbft` the timer may fire at any moment, so that the
  view change can be judged; whatever is said about views after 0 holds of the
  engine in a program that calls it.
* In `Pipeline`: networks with f > 0, where the votes for a number are sent as others'
  votes arrive and a Checkpoint needs a quorum of others; view changes; a request
  submitted twice, which is ordered twice and announced once; connections that open or
  break. `PrimaryNeverWaits` is therefore a statement about networks of two and three
  nodes.
* In `Pbft`: messages of a crashed process that are read after its successor was heard
  (section 2).
* In `Network`: a read that fails during the handshake other than at the end of the
  stream. Frames over the limit make a reader fail there only for a peer list of
  16 MB.

Worth proving next: what becomes of `SequenceInv` after a stable checkpoint, where it
should still hold for the numbers above the highest of them.
