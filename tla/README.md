# A verification project for the community network of ipfs-reliability

The program keeps files on IPFS available. A client *uploads* a file: its Merkle tree is
flattened, entangled into `alpha` strands of parity blocks (each parity is the XOR of a
data block and the previous parity of its chain), and the parities and a metadata file are
put on the network. *Community nodes* watch the strands they hold, and *repair* files when
blocks go missing: a coordinator walks the tree, splits the missing leaves among its peers,
each peer recovers its part through the lattice, and the coordinator collects the results.
A *discovery* service tells the nodes of each other.

This directory holds TLA+ modules that follow that code, TLC runs on small instances, and
proofs checked with TLAPS for all values of the constants. `PROJECT.json` lists the
components, runs, mutants, theorems and findings, the source lines each definition stands
for, and the hazards of the code that the properties are for.

    tlc -workers 2 -config collab_one.cfg MCCollabRepair.tla
    tlc -workers 2 -config lattice.cfg MCLattice.tla
    tlc -workers 2 -config walk.cfg MCTreeWalk.tla
    tlc -workers 2 -config monitor.cfg MCMonitor.tla
    tlapm CollabRepair_proofs.tla
    tlapm Lattice_proofs.tla
    tlapm MerkleTree_proofs.tla

Every module named `*_proofs` is checked by `tlapm` the same way; the proofs of one module do
not depend on those of another having been run before. A configuration belongs to the MC module it is named after: `collab_*` to `MCCollabRepair`,
`entangle` to `MCEntangler`, `lattice` to `MCLattice`, `upload*` to `MCUpload`, `walk*` to
`MCTreeWalk`, `monitor` to `MCMonitor`, `discovery` to `MCDiscovery`.

## 1. Inventory

| Component | State | Operations | Interacts with |
|---|---|---|---|
| Daemon and HTTP handlers (`Server/daemon.go`, `server.go`) | six unbuffered channels; two timers | one `select` loop takes one operation at a time and runs it to the end; a handler sends on a channel and answers when the daemon has received | everything below; posts of other nodes |
| Collaborative repair (`Server/repair.go`) | `collabData`: per file the status, the Origin, the peers with their status and leaves | `StartCollabRepair`, `StartUnitRepair`, `ReportUnitRepair` | posts to peers, coordinator and Origin (`PostJSON`, no timeout); the client's walks; discovery's list |
| Strand repair (`Server/repair.go`) | `strandData`: per file the status and the strand | `StartStrandRepair`, `ContinueStrandRepair` | asks for a collaborative repair first; resets the statistics of all monitors |
| Monitoring (`daemon.go`, `inspector.go`) | `state.files` behind `stateMux`: missing blocks, estimated probability, health | START, STOP, RESET; `InspectFile` every 30 s | starts repairs from inside the timer's branch |
| View sharing (`viewshare.go`) | the same table | `ShareView` every 4 min, `UpdateView` in a handler | posts to other nodes; sends to its own daemon |
| Discovery (`discovery/index.mjs`) | `services`, `clusterToCommunity`, `suspected` | `/announce`, `/peers`, `/cluster-to-community`, a health-check round every 3 s | all community nodes |
| Entangler (`entangler.go`) | the last parity of every chain | `Entangle`: consumes blocks, emits parities, closes the chains | the upload's goroutines |
| Lattice and blocks (`lattice.go`, `block.go`) | per block: status, data, the request that repairs it | `GetChunk`, `GetChunkDepth`, `GetParity`; `StartRepair`/`FinishRepair` | the getter |
| Merkle tree, getter (`ipfs-connector`) | node order, CIDs known so far | flattening with swapped nodes, reconstruction from the metadata, look-up of a block by its position | IPFS |
| Client (`client/*.go`) | none between calls | `Upload`, `Download`, `RetrieveFailedLeaves`, `RepairFailedLeaves`, `RepairStrand` | entangler, lattice, getter, cluster |
| Cluster connector, utilities, command line, experiments | none | REST calls, parsing, printing | |

What is hard, component by component, and what makes each correct:

* **Daemon, collaborative repair.** Two daemons meet in every post, so any cycle of posts is
  a deadlock; posts fail, or fail after they were taken; peers and coordinators die;
  requests for a file overlap with its repair; reports come late, twice, or for an earlier
  repair. Correct means: a repair in progress is not replaced, it is pending exactly while a
  peer is, it gets its verdict, SUCCESS means that all leaves found missing are back, the
  Origin learns that verdict, and every daemon gets back to its select.
* **Strand repair.** Depends on a collaborative repair run by the same daemon. Correct means
  that it ends, and that a strand is only rebuilt from data that is there.
* **Monitoring, view sharing.** One lock and one channel used in opposite orders by the
  daemon and by handlers; operations on files that are no longer monitored. Correct means:
  the lock is always released, no operation panics, both sides progress.
* **Discovery.** Answers applied after an `await` to tables that have changed since. Correct
  means: a node is removed only after its own failures in a row, the two tables agree, a
  live node is found again.
* **Entangler, lattice.** Positions at the edges of the lattice, closed chains, bounded
  recursion with a cache. Correct means: what is recovered is what was entangled, and a
  block is recovered whenever the depth allows.
* **Blocks.** A condition variable with Signal on one path and Broadcast on the other.
* **Merkle tree.** Two routines must agree on an order, for every shape of tree.
* **Upload.** Three goroutines and two channels; one of them stops early on an error.

## 2. Modules

| # | Module | Models | State |
|---|---|---|---|
| 1 | `CollabRepair` (+ `MCCollabRepair`, `CollabRepair_proofs`) | daemon, posts, collaborative, unit and strand repair, crashes and lost messages | done |
| 2 | `Positions` | the geometry of the lattice: neighbours, chains, their starts, and the code they define | done |
| 3 | `Entangler` (+ `MCEntangler`, `Entangler_proofs`) | entangling a stream of blocks, holding back and closing the chains | done |
| 4 | `Lattice` (+ `MCLattice`, `Lattice_proofs`) | links, recover pairs, recovery with bounded depth and cache, against the closure of the recover rule | done |
| 5 | `MerkleTree` (+ `MerkleTree_proofs`) | the trees of files and strands, the two orders of their nodes, how parities lie across the leaves of a strand | done |
| 6 | `Upload` (+ `MCUpload`, `Upload_proofs`) | goroutines and channels of an upload, merging and pinning of the strands, metadata | done |
| 7 | `Getter` | the CIDs and data a repair learns from the root down, strands given up | done |
| 8 | `TreeWalk` (+ `MCTreeWalk`, `TreeWalk_proofs`) | `Download`, `DownloadCount`, `RetrieveFailedLeaves`, `RepairFailedLeaves`, `RepairStrand` | done |
| 9 | `Monitor` (+ `MCMonitor`, `Monitor_proofs`) | `stateMux`, the channel to the daemon, START/STOP/RESET, the two timers, views, handlers, and what each kind of repair does to its daemon | done |
| 10 | `Discovery` (+ `MCDiscovery`, `Discovery_proofs`) | announcements, overlapping rounds of health checks, removal, look-ups, `forwardMonitoring` | done |
| 11 | `Block` | `StartRepair`, `FinishRepair` and their condition variable, under concurrent requests | open |
| 12 | `RepairJob` | what a repair promises whoever asked for it, while nothing fails: it begins, finds leaves missing, brings them back, ends once; `CollabRepair` implements it (checked in `collab_one`, proved in `CollabRepair_proofs`) | done |

How they are put together: `Upload` is over `MerkleTree` and instantiates `Entangler`, whose
steps are taken between its channels. `TreeWalk` extends `Getter`, which is over
`MerkleTree`, and instantiates `Lattice`, whose network (`net`) is refined to what the getter
could fetch from IPFS by then (`Gettable`). `Entangler`, `Lattice` and the trees share
`Positions`. `CollabRepair` leaves the result of a client's walk open, and `TreeWalk` is the
walk; `CollabRepair` leaves the table of monitored files open, and `Monitor` is the table.
`CollabRepair` has what passes between nodes in a repair, `Monitor` what a repair does to the
one daemon that is in it: both have its panics and its posts that are never answered.
The proofs are put together the same way: `Upload_proofs` and `TreeWalk_proofs` instantiate
`Entangler_proofs` and `Lattice_proofs` and take over their invariants, and extend
`MerkleTree_proofs`, which has the theorems about the trees.

## 3. CollabRepair

### State and actions

| Module | Code |
|---|---|
| `collabData`, `strandData` | the maps of `Server` (`types.go:278-280`); "NONE" is an absent entry |
| `daemon[n]` | where the Daemon goroutine of `n` is: in its select, inside `StartCollabRepair` ("retrieve", then the send loop as "send", "sending", "accepted", "refused"), repairing leaves ("unit"), waiting for the answer to a report ("reporting"), resetting monitors ("reset", "resetting"), sending to its own channel ("blocked"), panicking, down |
| `calls` | posts that have reached a handler and wait for the daemon; `from` is the daemon that waits for the answer |
| `missing[f]` | the leaves of `f` nobody can fetch from the network |
| `found` in a repair | what `RetrieveFailedLeaves` returned; auxiliary, no action reads it |

The select takes an operation from a handler and answers its caller in one step (`Take`); a
daemon that posts waits until then (`Post`). One handler of the code is one action, or as
many as it has posts in it: a daemon in the middle of a post is a state others see.
`StartCollabRepair` is `StartCollabRepair` (the entry), `RetrieveFails`, `NothingToRepair` or
`PlanRequests` (the walk, the peers, the slices), and for each turn of the send loop
`SendRequest` and `RequestAccepted` or `RequestRefused`. `RepairFile` and `RepairStrand` are
the calls the inspection makes inside the timer's branch, without a channel.

Abstracted: depths, CIDs, times, metrics (the posts to discovery are always answered and
change nothing that is read), the numbers of fetched blocks; the operations START and STOP;
`stateMux` (both are in `Monitor`). The walk returns *any* set of leaves, because its result
depends on 100 ms fetches and on what the repair of the intermediate nodes has left in the
lattice's cache; a unit repair brings back any part of its leaves. An inspection visits one
file; with several files the code would go on to the next before it comes back to the
select, the model may take an operation in between. Discovery's list holds every node that is
up and any of those that are down. A node that restarts has empty tables.

### Properties

Every variable of the code a property speaks of is one the program keeps, except `found` and
`missing`.

* `TypeOK`: types. It does not say that the index of the send loop stays inside its slices:
  after a refused post it does not (repair.go:189, finding 1), and the daemon panics.
* `PendingIffAwaited`: a repair its coordinator is not starting is pending if and only if one
  of its peers is.
* `PendingRepairIsKept`: no step replaces a repair in progress or takes leaves away from a
  peer of it.
* `PeersOweOneReport`: every pending peer has exactly one request, repair or report on its
  way, every other node none. It is what makes it safe that reports name no repair.
* `SuccessMeansRepaired`, `LeavesSplit`: what SUCCESS promises, and how the work is divided.
* `RepairsAsPromised`: while nothing fails, collaborative repair implements `RepairJob`, with
  the status, `found` and `missing` of the code's state. A verdict is given once and not
  early, leaves come back only through a repair that is in progress, and SUCCESS means that
  nothing is missing of what was found. A crash of the coordinator or a refused request
  breaks that promise, so it is one for a system without faults.
* `OriginLearnsVerdict`: the Origin is told the verdict of the repair. It does not hold.
* `RepairsSettle`, `DaemonsReturn`: a repair gets its verdict, a daemon comes back to its
  select.

### Runs

All runs have three nodes and one file: a coordinator and two peers is the smallest system in
which a post to one peer meets a report of the other, and in which a loop over peers can come
round. Requests are asked for at most `MaxTriggers` times, and `MaxFaults` bounds crashes and
lost messages together. Deadlock is not checked: when the requests are used up the system has
nothing left to do, and that a daemon does not stop on the way is `DaemonsReturn`.

| Run | Instance | Shows |
|---|---|---|
| `collab_one` | one coordinator, 3 leaves, limits 1 and 2, two requests that may overlap, no fault, no Origin | all properties of a system in which every post succeeds, the refinement of `RepairJob` and liveness included. Three leaves and two peers give an uneven division; two requests give reports of one repair a chance to meet the next |
| `collab_faults` | 2 leaves, limits 0 and 2, clients and an inspecting node, strand repairs, resets, one fault | a repair is pending exactly while it waits for a peer and a repair in progress is kept, whatever fails; every action of the module occurs |
| `collab_lost` | two faults | violation, finding 1 |
| `collab_verdict` | an Origin that is no coordinator | violation, finding 2 |

Fairness is weak fairness of each daemon's next step: its goroutine is scheduled, a handler's
send is received when the select is reached, and a walk returns because fetches have
timeouts. The send of a particular handler may wait for ever while others are received (the
select picks at random), so there is one fairness condition per daemon and none per
operation; clients, inspections, faults and restarts are under none.

### Findings

1. `collab_lost`: after a refused post the loop moves on to the next request *and* the next
   peer and comes back to the first, which it counts twice; the refused leaves go to nobody
   and the repair ends in SUCCESS.
2. `collab_verdict`: the Origin is sent `success` of the last report instead of the verdict.

Two more disagreements the model has are not in a run of their own. With a node in
`Inspectors` and no fault, `DaemonsReturn` fails: the result of a repair that a node's own
inspection started is posted to that node's daemon by that daemon. And a strand repair
(`Requests = {"strand"}`) never ends: `StartStrandRepair` sends to a channel its own goroutine
would have to receive from; in `Monitor` this is the state "stuck".

The same property `DaemonsReturn` fails when two nodes coordinate repairs at once and use
each other as peers; `collab_one` therefore has one coordinator.

## 4. Entangler and Lattice

### Positions

Data blocks are 1 to N. A parity is named by its strand and the data block on its left. The
three strands are 1 to 3 here and 0 to 2 in Go. A chunk is the set of the data blocks it is
the XOR of, and XOR is symmetric difference, so a wrong parity is always told from a right
one. Left out: lengths, the zeros a shorter chunk is padded with, empty chunks (which
`Recover` refuses), and that equal contents share a CID.

`ForwardNeighbor`, `ChainIndex`, `ChainStart` and `PositionCategory` are the four position
functions of `entangler.go`, with Go's truncating division. `Before`, `Prefix` and `Codeword`
are not code: they say, from the forward neighbours alone, what the parities of a file
should be. Both modules are checked against them.

### Entangler

| Module | Code |
|---|---|
| `cached`, `toWrap` | `cachedParities`, `parityBlocksToWrap` |
| `EntangleSingleBlock`, `DataEnds` | the loop over `dataChan` and its end |
| `WrapChain`, `CloseParities` | one turn of the inner loop of `wrapLattice`; the close of `parityChan` |
| `phase = "panic"` | index out of range or nil dereference in the goroutine |

`OneParityPerPlace`: the collector of an upload stores parities from many goroutines under
their strand and block, so two different ones for one place would race. `EmitsCode`: when the
channel is closed, exactly the parities of `Codeword` have come. This relates the caches,
indexed by `ChainIndex` and closed by `ChainStart`, with the forward neighbours, which the
generation never looks at. `Finishes`: the channel is closed.

Run `entangle` has the parameters of the program (alpha 3, s = p = 5) and 14 file lengths:
one block per chain (5), each of the following lengths up to 11 (chains of one and of two blocks
side by side), one block before, at and after a window (24 to 26), and more than two windows
(57). An upload generates all strands, the repair of a strand one. The entangler runs alone,
so its state space is a path for each length: the question is what the formulas do, not how
steps interleave. Fairness is that of the goroutine; its channels have room for everything.
Files of fewer than p blocks are not in the run: for them the entangler always panics.

### Lattice

| Module | Code |
|---|---|
| `status`, `chunk`, `repaired` | `Status`, `Data`, `Repaired` of a block |
| `request` | the call of `GetChunk`, `GetChunkDepth` or `GetParity` in progress (and its `rid`) |
| `stack` | the active calls of `sequentialRepair`, innermost first: block, depth for its neighbours, pairs left, whether the left one of the pair is there |
| `net` | the blocks the getter can fetch; it changes while a request is served |
| `sure`, `ever` | auxiliary: what there was all the time, and at some time, of the request |

`sequentialRecoverHelper` is `Download`, `StartRepair`, or `Fail`; `sequentialRepair` is
`HaveLeft`, `Recover`, `Fail` (the next pair) and `GiveUp` (no pair left). A download and the
status change before it are one step: nobody else looks at the lattice. Every lattice in
`src/` is created and used by one goroutine, hence one request at a time and no waiting in
`StartRepair`; concurrent requests would be module 11.

`Step` is the goroutine; `Observe` keeps the auxiliary variables, and only the specification
of this module has them. `TreeWalk` takes `Ask` and `Step` for its own lattice.

* `HoldsItsValue`: what a block holds is its own value, whatever it was recovered from.
* `PendingOnStack`: the blocks in repair are those on the stack. One left over would make the
  next request for it wait for ever.
* `AnswersByDepth`: a request succeeds when its block can be had at its depth from what was
  there all the time, and only with a block that can be had at all. `Reach` is the reference:
  in each round a block is had if the other two of one of its equations were had the round
  before. The first half holds although the recursion is cut at blocks that are in repair for
  the same request, and although earlier requests leave blocks behind (they count as there).
  The second half is not "only at its depth": a block recovered at one depth is there for any
  later turn of the same request at a smaller one, so a request of depth 3 may succeed with a
  block that takes four rounds. What holds is a round for each block recovered.
* `RequestsEnd`: every request is answered, under weak fairness of the goroutine.

Run `lattice`: s = p = 3 and seven blocks, the smallest lattice with chains of two and of three
blocks on every strand. The blocks that may be missing are block 1 and what most of its
recover pairs need, so that all 64 subsets range from no loss to a loss that depth 3 cannot
repair; one more loss is that of a block which is had at a lesser depth than its rounds
(`Deep`). Block 1 starts chains on all strands, which is where wrapped parities are. Two
requests show what the first leaves to the second; one change of the network meets every
point of a request. Deadlock is not checked: after its requests the lattice rests.

### Known disagreements without a run

* Below 2p blocks some chain is a single block, whose parity is the block itself. Its recover
  pair is that parity twice, and `sequentialRepair` stores the XOR, zeros, as the block and
  reports success. `parallelRepair`, which nothing calls, has the case. `lattice.cfg` with
  five blocks for seven violates `HoldsItsValue`.
* `NewEntangler` accepts p > s (`entangler.go:72-74`), but `getChainIndexes` is right only for
  s = p: the entangler panics, or (for other lengths and strands) emits parities of the wrong
  chains. `entangle.cfg` with S = 4 and P = 5 violates `Finishes`, and with S = 2 and P = 3
  `OneParityPerPlace`. Every caller and the docs have alpha = 3 and s = p = 5, so the theorems
  about the lattice suppose S = P.

## 5. MerkleTree and Upload

### MerkleTree

Pure definitions: a node is its place in preorder, a tree its size and the children of each
node. The loop of `ConstructTree` groups each level under parents until one node is left:
`Made` are the nodes it makes, each the i-th of its level, over a `Span` of leaves;
`MadeParent` is the parent it gets. `ComesBefore` is the order in which `assignPreOrderIndex`
comes to them, so that a node's number is how many come before it, and `Tree` puts the two
together. `FlattenedTree` is `GetFlattenedTree` with `swap`, `LatticeIdx` is what `ConstructTree`
computes from the metadata, both as functions of how many inner nodes have been taken, in the
order and with the look-ups of the code (postorder and the array as it is by then; preorder
and the array as it was). Both move the node *before* the inner one. `ParityLeaves`, `PiecesOf` and `ParityPieces` say how the parities of a strand,
each 262158 bytes, are cut across leaves of 262144 bytes.

Every parity is taken to have that length. In the code it is as long as the longest block of
its chain so far, and the first one, which waits for the end of the chain, as the longest of
all; a file of less than a full leaf to each chain would have shorter ones.

### Upload

| Module | Code |
|---|---|
| `pc` | where `Upload` is: "add", "tree" (`GetMerkleTree`), "load" (the flattening and each node's data), "entangle", "merge", "strandTree", "pin", "metadata", "notify"; "exited" is `os.Exit` or a panic |
| `sent`, `dataClosed` | the goroutine that feeds `dataChan` |
| `chunkNum` ... `phase` | the entangler, by `INSTANCE Entangler` |
| `parityChan`, `storing`, `parityBlocks` | the loop that receives the parities, its goroutines and their wait group, the table |
| `merged`, `stack`, `asked`, `widest` | `pinAlphaEntanglements`: each strand's file, the walk over its tree, the pins, `currentMaxChildren` |
| `metadata`, `metaPin` | what is uploaded last; the goroutine of `pinMetadata` |

Five kinds of goroutines interleave over two channels; `Call` is a call to IPFS or the
cluster that may fail, with what `Upload` does then. Left out: the contents, `Trace`, direct
uploads and the round-robin allocation of pins.

* `MergedIsCode`: what a strand is merged from is the codeword, whole. The channels, the wait
  group and the closing of chains all have to be right for it.
* `PinnedFromRoot`: what is pinned of a strand hangs together from its root, though pins fail.
* `MetadataFits`: a repair rebuilds the trees of file and strands from five numbers. It holds
  if one strand was pinned whole: else `currentMaxChildren` may come out too small.
* `OrdersAgree`: both sides have the same order of blocks.
* `OnlySmallFilesPanic`, `UploadEnds`.

Run `upload`: S = P = 2, and files of 1, 3, 4 and 6 leaves: one block; no inner node but the
root; inner nodes that stay; inner nodes that are moved (with p = 5 this takes files of
hundreds of blocks, which changes sizes and not cases). Two goroutines store at a time, so
that they can overtake each other, and two calls fail, which leaves one strand of three whole;
that the metadata need one is in the statement of `MetadataFits`, and what it is worth without is
not claimed. Fairness is weak fairness of each
goroutine: every one is scheduled, and every call is answered or fails.

Finding `upload_order`: with three inner nodes besides the root that are moved the orders differ. With
174 links to a node that is a file of more than 87 MB; `OrdersAgree` on five leaves with
fan-out 2 is the smallest instance. Up to twice as many leaves as links to a node (348 blocks,
87 MB) they agree, for every fan-out and lattice: `SmallFilesKeepOrder` (section 9).

## 6. Getter and TreeWalk

| Module | Code |
|---|---|
| `trees`, `idx`, `pieces` | the empty trees and the map of positions of `CreateIPFSGetter` |
| `known`, `got`, `available` | the CIDs and `Data` in these trees, `ParityAvailable` |
| `status` ... `asked` | the lattice of the walk, by `INSTANCE Lattice` |
| `job`, `pc`, `todo` | the walk, what it is at, the nodes the recursion has left |
| `list`, `result`, `delivered`, `count` | `leafIndices`, the map `RepairFailedLeaves` returns, the data of `Download`, the counter of `DownloadCount` |
| `stored` | what IPFS can give, of the file and of each strand |
| `seen`, `missed` | auxiliary: what was stored, and missing, at some time |

`GetData` and `GetParity` fetch the nodes from the lowest one above whose CID is known, down
to the one asked for, and learn their links (`Way`, `Fetched`, `Learnt`), whether or not
they come to the end. A walk asks the lattice for one node (`Visit`), the lattice works
(`Serve`), and the answer is dealt with as the walk does: `ListLeaf`, `LeafThere`, `NodeLost`,
`NodeThere` with its re-upload, `RepairLeaf`. A walk learns the CID of a node when it comes to it
and of its later siblings when it comes to them, not all with the parent; a repair learns none.
What is uploaded is whatever node the answered chunk is (`PutBack`): the re-upload of a walk
looks at the CID and fails on another (`ReuploadFails`), the upload of a repaired leaf does not.
A retrieval that lists leaves is followed by a
repair of them, with a getter and a lattice of its own.

Left out: the trimming of the zeros at the end of a block, so that a recovered block always
has its CID; the direct downloads with depth 1; timeouts of fetches, which are nodes
that cannot be fetched then; counters; files written. A download is taken to be one that may
upload what it has recovered.

* `RetrievalAccounts`: after a retrieval each node was there, is back, is listed, or is a leaf
  the lattice has recovered by the way. It relates list, lattice and network.
* `RepairedIsStored`: no success is reported of a leaf that is not on IPFS. Nothing in
  `RepairLeaf` sees to it: a wrong chunk would be stored under a CID of its own, and reported. It
  rests on the lattice never answering with one.
* `WrittenOffForCause`: a strand is given up only over a node above its leaves that was
  missing, though one getter serves many blocks and learns in between.
* `DownloadDelivers`: a download that ends well has each leaf, once, in order.
* `WalksEnd`: every walk ends, under weak fairness of its one goroutine.
* `TypeOK` has what `GetData` needs to end: with a node come the CIDs of its children.

Run `walk`: four leaves under two inner nodes and a root, eight leaves in each strand, S = P = 2,
so that all chains have three or four blocks. Missing are any of an inner node and two leaves on
either side, and of two strands the root, an inner node or a leaf, of the third the root; a
leaf of the file or of a strand comes or goes once, and once IPFS takes no block or gives no
metadata. Recoveries that succeed and that fail, strands given up and strands
kept all occur. The strand `RepairStrand` generates is strand 1.

Finding `walk_listed`: a leaf that the repair of an inner node recovers by the way is neither
listed nor uploaded.

## 7. Monitor

| Module | Code |
|---|---|
| `mux` | `stateMux`: free, the daemon's, a handler's |
| `daemon` | in its select; waiting for the lock with an operation or timer's branch; holding it, with the files left to go over; in a repair, which an inspection may have begun with the lock; "stuck" in a post or send that is never answered |
| `handler[h]` | sending on the channel; waiting for the lock; holding it; sending with it ("sendheld", `UpdateView`); reading without it |
| `monitored`, `view` | `state.files` and the blocks that are missing by its statistics |
| `collabData` | for each file, whether a repair that this node coordinates has reports to come, and if its verdict is for this node ("own") or not ("other"), or has ended |
| `size` | the number of blocks of each file and strand, chosen at first |
| `died` | why the process ended; its requests end with it |
| `settled` | auxiliary: the files whose START was answered, with no STOP asked for since |

A step is what lies between two acquisitions, releases or rendezvous. A Go map that is
written while a handler reads it without a lock may end the process, and need not
(`MayRace`). The daemon releases the lock by leaving its branch; `StartFails` is the branch that
does not. `HandlerLocks`, `Receive` and `DaemonLocks` are the only steps that wait.

A repair is a state of the daemon. One comes from a channel, without the lock; or an
inspection begins it in the timer's branch (`RepairsFile`), after a health check or over an
inner node that cannot be had (`InspectUnreachable`), and then the lock is held until it comes
back to the files that are left. A repair comes back (`CollabEndsEarly`, `CollabSent`,
`UnitRepaired`, `UnitReported`, `ResultTaken`), ends the process (`CollabPanics`: no peer to divide
by, or no request at the loop's index; `ResultPanics`: the file is not in the table; `NoClient`:
`RefreshClient` has left nil), or never comes back (`NeverComesBack`): its post is to a node that does
not answer, or to the node itself, as the verdict of its own repair is, which only this daemon
could take. The last report of an "own" repair can only do that. `RepairStrandBlocks` is
the repair of a strand from an inspection, which sends to its own daemon with the lock held.

Abstracted: the estimates of probability and health, which only decide whether a repair or a
health check follows (either may); the regions of the peers, which only make some blocks
likelier to be inspected; the order of files in a pass (Go's is any); how many reports a repair
still waits for. Other nodes may answer or not. That IPFS and the cluster answer or fail, and that discovery
answers, is assumed.

* `TableGuarded`: the table is changed by one goroutine at a time. The lock is passed along in
  unusual ways (kept over a send, kept in a repair, leaked, kept by a stuck daemon).
* `AnsweredStartHolds`: a handler answers START when the daemon has taken it, which is before it
  takes effect and before it may fail. Still, whatever comes next finds the file monitored until a
  STOP is asked for, or the node wedged by the failed START: no RESET and no result of a repair
  panics over such a file. It depends on the daemon holding on to the operation until it has
  the lock, and on nothing else writing the table.
* `WedgedForGood`: no step, of a handler, a timer or a repair, brings a node back that is `Wedged`:
  one that leaked its lock, whose view's handler and daemon wait for each other, whose daemon
  never comes back from a repair, or that is dead.
* `RequestsServed`: a request is answered unless the node gets `Wedged`. Each of the four ways
  occurs, and `WedgedForGood` says that they are not passing states the property hides behind.
* `TypeOK` has the bound of the block numbers, which views of others and the safeguard
  against the one-based neighbours must keep.

Run `monitor`: one file of one or two blocks, one below and one at the sample of two;
two handlers, which is one to embrace the daemon and one that waits for it; addresses that
are numbers, so that a shared view may panic. Deadlock is not checked, as a dead process has no step.

Fairness: strong, for the daemon's way through what it has begun and for each handler's next
step, its receipt included, because the select chooses at random among ready channels and Go's
mutex hands over to a waiter that starves; a repair ends in one of the ways above. The timers
and the requests are under none.

## 8. Discovery

| Module | Code |
|---|---|
| `services`, `clusterToCommunity`, `suspected` | the tables of `index.mjs` |
| `round[r]` | a run of the health check: before its next `await`, with an answer not yet applied, idle |
| `node[a]` | down, announced and not yet listening, up, or hung (takes connections and answers none) |
| `forward` | `forwardMonitoring`: the peers left, the address it posts to, and (auxiliary) who should be told |

JavaScript runs to the next `await`: `Fetched` is the answer, `Apply` what is done with it when
the tables may have changed. The interval starts a new round whether or not the last one ended,
so `MaxRounds` of them overlap. The example entry the service starts with is one nobody
answers for. A clusterIP is one node's.

* `TypeOK` has that suspicions are of listed nodes and below the number that removes: an
  answer applied late leaves nothing behind.
* `TablesAgree`: the two tables list the same nodes.
* `MonitorsTold`: a forwarded request reaches each node that stores a strand, if it was
  listed, up and unsuspected and stays up, whatever checks and removals come between.
* `DeadRemoved`: a dead node is removed, unless a listed one hangs: there is no timeout, and
  every round would wait for it.

Run `discovery`: two nodes and the example, one of them storing a strand, two rounds, two tries, one
fault (crash, hang, restart of the service). Two rounds suffice for an answer that is applied
after another round has removed its node; with two tries a node has a failure that does not
remove it. Fairness is weak, of each round: the timer and the event loop.

Known disagreements without a run: a comment promises each node its number of tries, but failures
counted before an announcement stay with it; a live node that was removed, or that was
listed before the service restarted, announces itself no second time.

## 9. Proofs

Eight modules hold proofs. Which hypotheses each theorem has:

| Module | Theorems | Hypothesis beyond the constants' types |
|---|---|---|
| `CollabRepair_proofs` | `TypeCorrect`, `PendingAwaited`, `RepairKept`, `RequestsSplitLeaves` | none |
| | `OneReportOwed`, `SuccessRepairs`, `LeavesAreSplit`, `PromiseKept` | `FaultFree` |
| `Entangler_proofs` | `TypeCorrect` | none |
| | `PlacesGetOne`, `CodeIsEmitted`, `OnlyShortFilesPanic` | `Square`: S = P > 1 |
| `Lattice_proofs` | `LinksAgree`, `ValueHeld`, `PendingIsOnStack`, `TypeCorrect`, `AnswersInDepth` | `Regular`: S = P > 1, at least 2P blocks |
| `MerkleTree_proofs` | `BuiltIsTree`, `BuiltInPreorder`, `BuiltAgain` | `Buildable`: a fan-out other than 0 and 1, or one leaf |
| | `StrandBuiltAgain` | a fan-out other than 1 |
| | `SmallFilesKeepOrder` | `Buildable`, at most twice as many leaves as the fan-out |
| `Upload_proofs` | `PinsHangTogether`, `TypeCorrect`, `MetadataRebuilds` | none |
| | `StrandsAreCode`, `OnlySmallPanics` | `Square` |
| | `OrdersOfFew` | `FewLeaves`: at most twice as many leaves as the fan-out |
| `TreeWalk_proofs` | `TypeCorrect`, `RetrievalsAccount`, `ReportsAreStored`, `StrandsLostForCause`, `DownloadsDeliver` | `Regular` |
| `Monitor_proofs` | `TypeCorrect`, `MutualExclusion`, `StartsHold`, `NoWayOut` | none |
| `Discovery_proofs` | `TypeCorrect`, `TablesAlwaysAgree`, `ForwardingTellsAll` | none |

### Collaborative repair

`CollabRepair_proofs` proves, from `ConstantsAssumption` alone (finitely many nodes, the
bounds are naturals, `Nobody` is no node):

* `TypeCorrect`: `Spec => []TypeOK`. The type alone is not inductive: the
  peer a request goes to is `peers[i]`, and the request is `reqs[i]`, so `TypeInv` asks of each
  daemon that its activity is `Sound`, of its type and, once it has got past the reading of
  `reqs[i]`, with the index in range (`InRange`); at the reading itself it may not be. The lemmas
  before it say what each helper (`Answered`, `Post`, `Take`, `SetJob`, `FailedIndices`)
  returns; `TypeStep` has a step per action.
* `PendingAwaited`: `Spec => []PendingIffAwaited`. The property says nothing of a repair that
  is being started, so it is not inductive. `AwaitInv` adds that such a repair is pending,
  that its peers are untouched until the requests are planned, and that none of them has
  reported before the loop ends. Every action is a quiet one (`QuietStep`, `QuietTake`) or
  changes one job of one node (`JobStep`).
* `RepairKept`: `Spec => PendingRepairIsKept`, from `TypeInv` by the same split into actions.
* `RequestsSplitLeaves`: for every number of leaves and peers, the requests cover the leaves,
  are disjoint and not empty. It is the arithmetic behind `LeavesSplit` and
  `SuccessMeansRepaired`.

The other theorems are about systems in which nothing is lost and nobody crashes: `FaultFree`
says that `MaxFaults` is 0, that no client asks for a repair by no peers, that every node has
another one to ask, and that a client names as Origin only a node that monitors the file.
Without the first a post may be refused, and then the loop gives leaves to the wrong peer or to
none (finding 1). The other three keep daemons alive: over no peers the division of the leaves
panics, and so does an Origin that is told of a file it has no statistics of; a dead daemon
refuses posts, too. `collab_one` is a system of this kind.
With any number of nodes, files, leaves, coordinators and overlapping requests:

* `OneReportOwed`, `SuccessRepairs`, `LeavesAreSplit`: the three properties of `collab_one`.
* `PromiseKept`: `Spec => RepairsAsPromised`, the refinement. `PromiseInit` and a step per
  action show that what `CollabRepair` does is a step of `RepairJob` or none.

None of the four is inductive. `PeersOweOneReport` counts the posts on their way, which means
nothing unless it is known who waits for them: `CallsInv` is that a post in `calls` is what its
sender waits for (`Waits`), that a daemon waits for one post at most, and that a daemon in the
send loop has lost none so far (`d.i = d.sent + 1`). `WorkInv` then says, of every coordinator,
file and peer, what the peer owes (`TaskInv`: it is to be asked, asked, repairing, or has
reported, and which leaves it then brings back) and, of the job, that the leaves given out and
those of the requests to come are those found, each once (`Split`, `LoopInv`), and that the
leaves of a peer that has reported success are there (`BroughtBack`). Together with `TypeInv` and
`AwaitInv` that is `FaultFreeInv`. Most of the proof is the frame: `JobKeeps` and `TaskKeeps`
say what may change without an effect on a job or a peer.

### Entangler

`Entangler_proofs` starts from the geometry. Row, column and `Diagonal` of a block are those of
`getChainIndexes` and `getForwardNeighborIndexes`; the lemmas before the specification's
invariant show, with S = P, that the P blocks of a column are on P different chains, and that a
block's forward neighbour is the block of the next column on the same chain. Go's truncating
division and modulus are unfolded once there. For S = 1 the second strand skips columns, and for
P > S the neighbours leave the chains (section 4), hence `Square`.

The inductive invariant of a run is `EntInv`. The properties speak of the parities that were
emitted, and they do not say why the next one is right: `CacheInv` is that each chain's cache
holds the parity of the last block of that chain that was read, `WrapInv` that what is
held back is the first parity of its chain, `AllMade` that each parity emitted is its block over
the one before it in the chain, or closes the chain over its last, `OneMade` and `NoneMissing`
that there is one for each block read, `PhaseInv` how far the closing is, and
`OnlySmallPanic` that no chain is empty when it is closed.

* `PlacesGetOne`, `OnlyShortFilesPanic` are conjuncts.
* `CodeIsEmitted`: `Spec => []EmitsCode`. `EntInv` says that the parities solve the equations of
  the chains (`Chained`); `Codeword` is defined by recursion along `Before`. `ChainedIsCode`
  shows that the solution is unique. That is an induction over a recursive *function*: were
  two solutions different there would be a least block at which they are, and its predecessor
  in the chain is smaller.

The section "The chains of the code are rings" is for the lattice: every chain has a
last block, its closed first parity follows that one, and so each parity is its data block over
the parity before it, all around (`Ring`).

### Lattice

`Lattice_proofs` first proves `LinksAgree`: in a `Regular` lattice every recover pair XORs to its
block (`PairsHold`), and the pairs are all that the equations of the code give (`PairsCover`).
`NewLattice` makes its links by position, with an exception at the ends of chains
(`WrapModified`, `RightData`, `LeftParity`); the proof shows that these links are the rings of
`Entangler_proofs`. Two columns of blocks are needed: in a chain of one block alone its two
parities are one, and `PairsHold` is false (section 4). `MCEntangler` also has TLC evaluate
`PairsHold` and `PairsCover` for the parameters of the program.

* `ValueHeld`: `Spec => []HoldsItsValue`, for every loss, every change of the network and every
  sequence of requests.
* `PendingIsOnStack`: `Spec => []PendingOnStack`.
* `TypeCorrect`: `Spec => []TypeOK`.

All three come from one inductive invariant, `IInv`: `BlocksInv`, which is about the lattice, and
`NetInv`, about the network. `HoldsItsValue` alone is not inductive:
what `Recover` stores depends on the pair of the top frame. So `GivingFrames` says that every
pair a frame has left gives its block; `LeftIn` that a left neighbour found earlier is still
there when the right one comes, which needs that a block that is there is never set back, that
is, `PendingIn`: the blocks on the stack are pending, and each is there once, or a repair that
gives up would reset a block another frame relies on. `TryingIn` says that below the top every
block is trying a pair. Lemmas on sequences (`Push`, `Pop`, `Replace`) and on stacks
(`PairFailedStack`, `TailStack`) come first, then a lemma per action. `BlocksInv` asks nothing of
the network, so that `TreeWalk_proofs` can have it for a lattice over a getter.

* `AnswersInDepth`: `Spec => []AnswersByDepth`. The lemmas on `Reach` say that its rounds grow, in
  number and in the blocks they start from, and that a block had in a round and not before is
  had through an equation. That a request which fails could not have succeeded is a statement
  about all the pairs that were tried. `SearchIn` keeps it for every frame of the stack and every
  number of rounds its depth allows (`Tries`): if its block is had in one round more, and neither
  it nor a block further down is had by then, one of the pairs it has left is had. So a pair
  may fail only for the sake of a block that is in repair further down, which is the cut of the
  recursion, and then that block is had as soon (`OutOfPairs`); at the bottom there is none. `FoundInv` is the
  other half: what is there was had in a round for each block recovered.

### Merkle trees

`MerkleTree_proofs` is about pure definitions, for every number of leaves, every fan-out and
every lattice. Nothing is said of data built by recursion that the provers would have to
induct over: the definitions are recursive *functions* of a number, and of those there is a least
argument at which a claim fails (`LeastNumber`, `AllNumbers`).

* `BuiltIsTree`: a node's number is how many nodes come before it, and `ComesBefore` is a total
  order, so the numbers are 0 to the size less one, each once (the section on numberings:
  `InOrder` lists a finite set in any total order). What is below a node is the part of the
  leaves that starts at its `FirstLeaf`, `Span` long, so two nodes have a child in common
  only if they are one.
* `BuiltInPreorder`: the parts of two nodes are apart or one in the other, and `Above` is the
  walk up from a node, whose parents have smaller numbers and larger parts.
* `LeavesInOrder`, `LeafCount`: the leaves are the chunks of the file, in their order.
  `PiecesFit`, `PiecesAreNodes`: a parity is cut across leaves there are.
* `IndexShuffles`: `LatticeIdx` is a permutation. Each step exchanges two (`Shuffles`), and
  `Iterated` carries that through the steps.
* `BuiltAgain`: the widest node has min(leaves, fan-out) children (`KidsFew`, `KidsMany`,
  `WidestIs`), and building with that number of them gives the same levels (`SameTree`).
  `StrandBuiltAgain` is the same for the tree of a strand, whose leaves follow from the blocks.
* `SmallFilesKeepOrder`: with at most twice as many leaves as the fan-out there are no inner
  nodes but the root, or two, each followed by its leaves (`TwoBuilt`, `TwoAre`), and neither is
  above the other, so that postorder is preorder (`FlatOrder`). The first can only go where
  a leaf of the second is, and the second where a leaf of the first is (`OrderOfTwo`); so what the
  first has moved changes nothing for the second, both sides make the same two exchanges,
  and, of four different places, they undo themselves.

### Upload

`Upload_proofs` instantiates `Entangler_proofs` for the entangler inside the upload; a step of
the upload is one of the entangler or leaves it alone, and so `EntInv` holds there too.

What the upload relies on of its trees is so for all files, by the theorems about the trees:
`FilesAreTrees` (`FilesHaveTrees`) and `TreesRebuild` (`FilesRebuild`).

* `PinsHangTogether`: `PinInv` adds that a node whose child is on the walk's stack was asked
  for (`Hanging`).
* `TypeCorrect`: with `FlowInv`, the window of the two channels and the entangler's own position.
* `StrandsAreCode`: `Spec => []MergedIsCode`. `StoredInv` and `MergeInv` say that a parity is in the
  channel, with a goroutine, or stored in its place, and that when merging begins there is none
  of the first two; with `CodeIsEmitted` what is merged is the codeword.
* `MetadataRebuilds`: `MetaInv` is that the widest node counted is at least as wide as every
  node asked for, which a strand that was pinned whole makes the widest of its tree.
* `OnlySmallPanics`.
* `OrdersOfFew`: `Spec => []OrdersAgree` if no file has more than twice as many leaves as a node may
  have children (`FewLeaves`), by `SmallFilesKeepOrder`.

### Walks

`TreeWalk_proofs` instantiates `Lattice_proofs` for the lattice of the walk. `WalkTrees` is what
it relies on of the trees: nodes numbered in preorder, a lattice order that is a permutation of
the nodes, leaves in their order, a parity's pieces in its strand's tree. `TreesAreFit` proves it
for every file, and `MCTreeWalk` has TLC evaluate it for the run's file and for files of 2 to 9
leaves and fan-outs 2 to 4. From `Regular` alone, for any losses, changes, refusals and jobs:

* `TypeCorrect`. `FileInv` has what stays as `CreateIPFSGetter` made it, `GetterInv` that a node's
  children are known with it (without it the look-up of a node could loop), `ControlInv`,
  `AskedInv` and `SeenInv` where the walk is, what the lattice works for, and that what was
  answered was stored at some time.
* `StrandsLostForCause`: from `StoredInv`, that what is missing was noticed.
* `ReportsAreStored` is inductive with the former, and `BackIs`: what a repair uploads is the leaf
  itself, by the lattice's `HoldsItsValue`, as the upload does not check it.
* `RetrievalsAccount`: `AccountInv` is that a node not accounted for is below a node still to visit.
* `DownloadsDeliver`: `OrderInv` has the nodes to visit in preorder, each with all below it, and
  `DeliverInv` that what was delivered is an initial part of the leaves, the rest to come. That
  each leaf has its own data is the lattice's `HoldsItsValue`.

`CountInv` bounds the counter of a count, for `TypeOK`.

### Monitor and discovery

`Monitor_proofs` proves, from `MonitorAssumption`, with any files, sizes and number of
handlers:

* `TypeCorrect`, `MutualExclusion` (`[]TableGuarded`), `StartsHold` (`[]AnsweredStartHolds`) and
  `NoWayOut` (`WedgedForGood`).

The inductive invariant is `IInv == TypeOK /\ Guard /\ TodoMonitored /\ NoStop /\
AnsweredStartHolds`. `TableGuarded`
speaks of who is in the table, and a step that takes the lock can be seen to keep it only if
`mux` says who is there: `Guard` is that a daemon with the table, and every handler with it,
is `mux`; a daemon back in its select may be `mux`, too, which is the leak. `TodoMonitored` is that
the files a timer's branch has left are monitored, so that no statistics come into being of
one that is not. `AnsweredStartHolds` needs `NoStop`: of a settled file no STOP waits with a
handler or is with the daemon, or the next step of either could take the file away.
`NoWayOut` has a case for each way to be wedged (`WedgedStays`). A leak stays (`LeakStays`)
because who gives the mutex back is its holder, by `Guard`, and the daemon, which it is, does
so only from a branch it cannot enter again. In an embrace both wait, one for the daemon's
receipt and one for `mux`.

`Discovery_proofs` proves, from `DiscoveryAssumption`:

* `TypeCorrect`, `TablesAlwaysAgree` (`[]TablesAgree`), `ForwardingTellsAll`
  (`[]MonitorsTold`).

The inductive invariant is `TypeOK /\ TablesAgree /\ OwedInv`. `OwedInv` keeps of every node that
is still to be told that it is listed, up and unsuspected, that no answer waiting to be
applied is a failure of its, and that its peer is among those left or it is the one posted to.
That clusterIPs are one node's each is what `TablesAgree` rests on.

### What is only model-checked

* Liveness under fairness (`RepairsSettle`, `DaemonsReturn`, `Finishes`, `RequestsEnd`, `UploadEnds`,
  `WalksEnd`, `RequestsServed`, `DeadRemoved`), which is out of the prover's reach.
* `OrdersAgree` of the larger files of run `upload` and beyond. It is a matter of the file's shape
  and of no behaviour: proved for files of at most twice as many leaves as a node has children,
  and false of larger ones (finding `upload_order`), so that there is no more general theorem.

## 10. Not modelled

* The waiting of concurrent requests in `Block` (module 11): no caller in `src/` issues any.
  With them the parallel recovery, `getDataFromBlockParallel` and below, which no code calls,
  and `UpdateParity` and `GetAllData`, which only tests could call.
* The cluster connector beyond `AddPin` and `AddPinDirect`: its look-ups are REST calls whose
  results are free choices in `Monitor` and `Discovery`; the round-robin index of the peer a
  pin is allocated to is a performance matter.
* The IPFS shell, whose calls are a set of nodes that can be fetched; direct uploads and
  direct downloads, one call each; the command line, printing, writing files and parsing; the
  metrics kept by discovery for experiments; and the experiments in `performance/` and
  `dynamic_testing/`, which run the parts above and have no protocol of their own.
