# TLA+ models of node-network-operator

node-network-operator is a Kubernetes operator that configures Linux network
links (bridges, VXLANs) on nodes. Users write cluster-scoped `Link` objects
with a node selector. A leader-elected controller keeps, for every node, a
`NodeLinks` object that lists the Links matching it. An agent on each node
makes the node's netlink links what those Links say.

This directory holds TLA+ models of the two controllers, TLC configurations
that check them on small instances, and TLAPS proofs that the safety properties
of both controllers, the watcher of netlink events, the search and the upserts hold
on every instance.
Names in the models are those of the Go code where TLA+ allows it. `PROJECT.json`
maps every definition to the lines it stands for.

## 1. Inventory

| Component | Source | State it keeps | Operations |
|---|---|---|---|
| Link controller | `internal/controller/link_controller.go` | Link finalizer, `status.matchedNodes`, conditions; NodeLinks `spec.matchingLinks`, owner reference | Reconcile (upsert, deletion), registration, removal, finalizer of lost agents, watches of Links, NodeLinks, Nodes |
| Node agent | `internal/controller/nodelinks_controller.go`, `conditions.go` | NodeLinks finalizer, `status.deployedLinks` (`LastAttemptedNetlinkLinks`), link conditions; the node's netlink links | Reconcile (upsert, deletion): read Links, validate, order, bring down, delete, record, upsert |
| Link managers | `internal/links/*.go` | none; read and write netlink | `GetDependencies`, `IsUpsertNeeded`, `Upsert`, `IsManaged` for bridge, VXLAN, unmanaged |
| Breadth-first search | `internal/graphsearch/bfs.go` | local | visit each reachable vertex once, with the edge that reached it |
| Netlink event watcher | `internal/controller/nodelinks_linkevents.go` | watched names, subscription, channel of one request | subscribe, filter, request, resubscribe with backoff |
| API types | `api/v1alpha1/*.go` | - | the fields of Link and NodeLinks |
| Link webhook | `internal/webhook/v1alpha1/link_webhook.go` | none | validates one Link |
| Wiring | `cmd/main.go` | flags | manager, leader election, which controllers run |

**How they interact.** The two controllers share nothing but API objects. The
Link controller writes the NodeLinks' spec and owner and the agent its status;
both write finalizers of NodeLinks: the agent its own, the Link controller takes
that one off when the node is gone. Both read through informer caches. The
kernel is shared between the agent and everything else on the node. The agent
learns of changes through a watch of its NodeLinks, a watch of Links, netlink
events and an optional periodic resync. The garbage collector deletes NodeLinks
whose Node is gone.

**What is hard.** Each reconciliation is a long chain of API and netlink calls,
and anything may move between two of them: users, nodes, the other controller,
the garbage collector, other programs. Patches are merge patches without a
resource version, so they overwrite what was written in between. Any call may
fail, and some loops go on after a failure. The process may die between any two
calls, so what has to be cleaned up must be recorded before it is made. Reads
come from caches that lag.

**What makes each correct.**

- Link controller: it never loses track of a node on which it registered a
  Link; in the end every node lists exactly the Links that match it; deletions
  finish even when nodes are lost; the finalizer of an agent that is alive is
  left to the agent.
- Node agent: every link it made is recorded until it is gone; it does not
  touch links that are not its own; links go down before any is deleted and
  come up after what they need; when it reports ready, the node is as the Links
  ask; in the end the node is in sync, and deletions finish.
- Link managers: an upsert makes `IsUpsertNeeded` false; an error half way
  leaves a state from which the next upsert gets there.
- Search: it visits exactly what is reachable, each vertex once, nearer ones first.
- Watcher: a change of a watched link always leads to a later reconciliation.
- Both controllers: the writes of each to the NodeLinks they share are ones the
  other is prepared for.

`PROJECT.json` lists the hazards, each at its line, with the properties about
it, or with the reason why there is none yet.

## 2. Modules

| Module | What it is |
|---|---|
| `LinkReconciler` | the Link controller, its informers and queue, the API server, nodes, agents (only their finalizers), garbage collector, users |
| `MCLinkReconciler` | instances for TLC |
| `LinkReconciler_proofs` | theorems about `LinkReconciler`: types, finalizers, `Tracked`, the protocol |
| `LinkLeftovers_proofs` | theorem about a Link controller with nothing left to do |
| `NodeLinksReconciler` | the agent of one node, its informer, watched names and queue, the API server, the kernel's links, the Link controller (as environment), other programs |
| `MCNodeLinksReconciler` | instances for TLC: sets of specs |
| `NodeLinksReconciler_proofs` | theorems about `NodeLinksReconciler`: types, orphans, the protocol |
| `NodeLinksOrder_proofs` | theorems about the order in which the agent works through its links |
| `NodeLinksLifecycle` | abstract: what the two controllers promise each other about the NodeLinks object; `LinkReconciler` and `NodeLinksReconciler` both implement it |
| `Netlink` | the kernel's links of a node: indices, masters, devices, what is refused and what goes along with what |
| `LinkManagers` | `IsUpsertNeeded` and `Upsert` of bridge, VXLAN and unmanaged, one netlink call at a time |
| `GraphSearch` | `BFSWithEdge` and what `bringDownDependents` makes of it, with reference definitions |
| `GraphSearch_proofs` | what the search does on every finite graph |
| `LinkEventWatcher` | the watcher's goroutine, the channel of one request, the queue, and of the reconciler what the watcher relies on |
| `LinkEventWatcher_proofs` | `Covered` for every capacity and all names |
| `NodeRepair` | composes `LinkManagers`, `GraphSearch` and `LinkEventWatcher`: the agent's upsert loop over the link managers and the search, driven by the watcher, on a node others change |
| `NodeRepair_proofs` | `NodeRepair` implements `LinkEventWatcher` |
| `NodeUpsert_proofs` | theorems about the upserts of `NodeRepair` and the dependents set down for them |
| `MCNodeRepair` | instances for TLC |

The agent has two models. `NodeLinksReconciler` has its whole reconciliation
against the API: what is recorded when, deletion, conditions, failures of API
calls; an upsert is one step on a link with one parameter. `NodeRepair` has the
part after the object is read: which netlink calls are made on which copy of a
link, what others do to the links between two of them, and how the agent learns
of it. There the NodeLinks exists and is not being deleted.

### Shared conventions

**One action is one API call (or one netlink operation on one link) and the
local code up to the next one.** `pc` names the next call. Locals of the Go
functions (`clusterState`, `mem`, `nodes`, `res`, `todo`...) are variables; a
restart loses them. Each controller runs with controller-runtime's default of
one worker, so one reconciliation is in progress at a time.

`clusterState` and `mem` are the two copies the code carries
(`clusterStateLink`/`link`, `clusterStateNodeLinks`/`nodeLinks`). `PatchMain` and
`PatchStatus` are `patchResource`: the main resource is patched if it differs,
then the status, and a merge patch holds only the fields in which the two copies
differ. `then` is where `patchResource` returns to.

`StaleReads` says what `Get` answers. FALSE: the stored object, which is what the
repository's tests have (`suite_test.go` turns the cache off). TRUE: what the
informer last saw, which is what `cmd/main.go` builds. Deliveries jump to the
latest version; `gen` is the generation that `GenerationChangedPredicate`
compares.

`Wrong...` operators are plausible bugs. Each stands before the definition it
would replace and breaks one property; no specification uses them.

### LinkReconciler and link_controller.go

| Action | Code |
|---|---|
| `ReconcileNothing`, `ReconcileUpsert`, `ReconcileDeletion` | `Reconcile`, starts of `handleUpsert`, `handleDeletion` |
| `ListNodes` | `updateNodeLinks`, `getMatchingNodes` |
| `RemoveSkip`, `RemoveRead`, `CheckNode`, `RemoveWrite`, `RemovalsDone` | `removeFromUnmatchedNodeLinks`: per node Get NodeLinks, Get Node, Delete or Patch; any order |
| `RegisterSkip`, `RegisterRead`, `RegisterCreate`, `RegisterPatch`, `RegistrationsDone` | `registerWithMatchedNodeLinks`, `registerWithNodeLinks` (CreateOrPatch: Get, then Create or Patch) |
| `PatchMain`, `PatchStatus` | `patchResource` |
| `HandleError` | `handleError` |
| `DeliverLink`, `DeliverNodeLinks`, `EnqueueAll`, `NodeLinksEvent` | `SetupWithManager` |
| `APICallFails`, `Restart` | an error from any call; loss of the process |

Environment: users create, change and delete Links; nodes join, leave and are
relabelled; the agent of a living node adds its finalizer and, when the
NodeLinks is being deleted, takes it off; the garbage collector deletes a
NodeLinks whose owner's uid is not that of an existing node.

### NodeLinksReconciler and nodelinks_controller.go

| Action | Code |
|---|---|
| `ReconcileNothing`, `ReconcileUpsert`, `ReconcileDeletion` | `Reconcile`, starts of `handleUpsert`, `handleDeletion` |
| `GetLink` | `getLinkResources`, one Get per Link |
| `ValidateLinks` | `watchedLinkNames.set`, `validateLinks`, `buildDesiredLinkGraph`, topological sort |
| `CheckDependencies`, `ChecksDone` | `updateDependentsMissingDependencies`, `deleteUndesiredLinks` |
| `SetDown`, `SetDownsDone`, `Delete`, `DeletesDone` | `deleteLinks`: first every link down, then every link deleted; `updateLastAttemptedLinks` |
| `UpsertSkip`, `UpsertStart`, `VisitDependent`, `Upsert`, `UpsertImpossible`, `UpsertsDone` | `upsertLinks`, `upsertLink`, `bringDownDependents`, the link managers' `Upsert` |
| `PatchMain`, `PatchStatus`, `HandleError`, `HandleErrorOf` | `patchResource`, `handleError` |
| `Deliver`, `Resync`, `WatchedChange` | `SetupWithManager`, `RequeueAfter`, the netlink event watcher |
| `CallFails`, `Restart` | an error from any call, an upsert that fails half way; loss of the process |

Environment: `SetSpec`, `RemoveLink` (users), `Register`, `Unregister` (the Link
controller; a Link object only disappears once it is unregistered, which is what
its finalizer is for; both patches may land on an object that is being deleted,
since they carry no version), `CollectGarbage` (the object is deleted with Links
in it, as the garbage collector does when the Node was created anew), `Others` (any other program changes, deletes or creates a
link).

A netlink link is its state, an MTU standing for all its parameters, and the
links it is attached to. `made` and `mine` are history: the links the agent
created and answers for, and those whose state it was the last to set and that
nobody else has changed since.

### NodeLinksLifecycle

The object is there or not, is being deleted or not, has the agent's finalizer or
not, lists Links, and names links in its status; `made` is what the agent answers
for on the node. `Create`, `List`, `Delete`, `Abandon` are what the Link
controller (and the garbage collector) may do; `Hold`, `Record`, `Make`, `Release`
what the agent may: it takes hold before it makes anything, names a link before
it makes it and until it is gone, and lets go when nothing is left.
`LinkReconciler` refines it for each node with its own steps in detail (`made`
empty, the agent of the node as environment); `NodeLinksReconciler` with the
agent's steps in detail (`lost` false: while the agent runs its node is there).

### LinkManagers, Netlink and internal/links

| Action | Code |
|---|---|
| `Retrieve`, `DeleteExisting`, `Add`, `RetrieveAgain` | `basicUpsertWithCheck`: `LinkByName`, `forceReplace`, `LinkDel`, `LinkAdd` (EEXIST is not an error), `LinkByName` |
| `SetMTU`, `SetDevice`, `SetGroup`, `SetLearning`, `SetMaster`, `SetUp` | the rest of the two `Upsert`s, in this order, each compared with the copy read above |
| `CallError` | an error from any call |

Links have indices; a copy holds the index, and a later call fails when no link
has it any more, although another one has the name. The kernel deletes a VXLAN
with its device, clears the master of a deleted bridge's members, and refuses a
multicast group without a device. A call is one step with the reads just before
it (`LinkByIndex`, `LinkByName` of a referenced link).

### LinkEventWatcher and nodelinks_linkevents.go

| Action | Code |
|---|---|
| `Subscribe`, `SubscribeFails`, `Receive`, `ChannelClosed` | `watch` |
| `Backoff` | `Start` |
| `CheckEmpty`, `SendRequest` | `requestReconcile`: the check for names and the send are two steps, the set of names may be replaced between them |
| `Forward` | `WatchesRawSource(source.Channel(...))` |
| `TakeRequest`, `SetWatched`, `ReadLink`, `PassEnds`, `PassFails` | the reconciler: it sets the names before it reads any link |
| `Notify` | the kernel: events in order while the subscription holds; an overflow loses what the channel has not taken and ends the subscription |

### NodeRepair and the upsert loop

| Action | Code |
|---|---|
| `Begin`, `GetLinks` | `Reconcile`, `getLinkResources`, `watchedLinkNames.set`, topological order |
| `SetDownLacking` | `updateDependentsMissingDependencies` |
| `RefuseLink`, `LeaveLink`, `BeginLink` | `upsertLink`: dependencies missing; nothing to do; `IsUpsertNeeded` and the search for dependents |
| `SetDownDependent`, `CallUpsert` | `bringDownDependents`, the manager's `Upsert` |
| `EndPass` | the end of `upsertLinks` and `handleUpsert`, with or without an error |
| `CallFails`, `SubscriptionFails`, `Restart` | errors; loss of the process |
| `Others`, `Register` | other programs on the node; the Link controller lists another Link |

Each step that changes links also sends the events about them, those of the
agent's own changes included. `disturbed` is history: whether others changed
links since the current upsert began.

### GraphSearch and bfs.go

The adjacency map is ranged over in random order, so `BFSWithEdge` is the set of
all sequences of visits the search may make, computed turn by turn.

### Abstractions

- Node events are delivered as the node changes, and the Node cache does not lag.
  In the agent's model, Links are what the manager's cache shows.
- A failed API call has no effect. A call that took effect and whose answer was
  lost is the effect followed by `Restart`.
- The name of a deleted object is used again only after its deletion was delivered.
- Deliveries are coalesced: an informer that falls behind sees
  the latest version only. An update of a NodeLinks wakes the Links that its old
  version and its new version list; those of versions in between are not seen.
- The order in which the code stores attempted names is random (a map's) and
  nothing reads it, so the names are a set.
- Conditions: `Ready` of both kinds of object and, per link, `Ready` and
  `DependencyLinksAvailable`. `handleError` always leaves `Ready` false, since each
  error path sets it. `Cleanup` of a Link and `ValidConfiguration` and
  `OperationallyUp` of a link, which no step reads, are left out; so are reasons,
  messages and events.
- Links made by others carry no finalizer and no dependency of their own.
- In `NodeLinksReconciler` a link that goes away is detached from the others. That
  the kernel deletes a VXLAN with its device is in `Netlink`, and so in `NodeRepair`.
  An upsert that fails leaves any of the states it can fail in (`HalfUpserted`):
  nothing done, the link deleted to be created anew, created with or without its
  MTU, or attached to some of its references; `NodeRepair` goes through the calls.
- Setting a link down, and deleting one, is one step with the `LinkByName` before it;
  that either of them fails is `CallFails`. A failure to set a link without its
  dependencies down does not keep the others from being set down, and ends the pass
  after them.
- In `NodeRepair`: VNID and ports, which cannot be changed in place, are one
  parameter; a group is none, unicast, multicast or of the wrong family; two
  Links have different names of links (`MCAgentShared` is about equal ones);
  renames are left out, and an index is never used again.
- The check whether an upsert is needed is one step. It reads the link and then
  the names behind its indices; without renames and reuse of indices the later
  reads can only find such a link gone, which is an upsert that is needed.

## 3. Runs

| Run | Instance | Checks |
|---|---|---|
| `MCLinkReconciler` | 2 Links, 1 node, 3 edits, 1 fault | `TypeOK`, `Tracked`, `SettledWithoutLeftovers`, `FollowsLifecycle` |
| `MCLinkNodes` | 2 Links, 2 nodes, 2 edits, 2 faults | `Tracked`, `SettledWithoutLeftovers` |
| `MCLinkDeletion` | 1 Link, 1 node, 3 edits, 1 fault, stale reads, fair | `DeletionCompletes`, `FinalizerOfLostNodeOnly` |
| `MCAgent` | bridge with two MTUs and a VXLAN on it, 2 edits, 1 fault, resyncs | `TypeOK`, `NoOrphan`, `WriteAhead`, `MissingDependencyDown`, `DownBeforeDelete`, `ReadyWhenUp`, `FollowsLifecycle` |
| `MCAgentShared` | three Links for two names, 2 edits | `OnlyManagedTouched`, `MissingDependencyDown` |
| `MCAgentLive` | bridge and a VXLAN that needs it, may do without, or names it twice (no graph), 1 edit, 1 fault, no resyncs, fair | `Converges`, `DeletionCompletes` |
| `MCNodeRepair` | uplink, bridge, VXLAN on both; a leftover VXLAN to replace, or a device listed later; capacity 1, 2 troubles, fair | `TypeOK`, `Covered`, `SearchIsBreadthFirst`, `SetDownAsAsked`, `WatcherSpec`, `UpsertSuffices`, `DependentsDown`, `Repaired` |
| `MCLinkMissed` | 2 Links, 1 node, 3 edits | violates `SettledWithAllLinks` |
| `MCLinkStuck` | 1 Link, 1 node, 2 edits | violates `SettledWithoutStuckNodeLinks` |
| `MCLinkLeak` | 1 Link, 1 node, 3 edits, stale reads | violates `SettledWithoutLeftovers` |
| `MCAgentStale` | bridge and VXLAN, 1 edit, stale reads | violates `SettledWithoutOrphan` |
| `MCNodeOptional` | a multicast VXLAN whose optional device is not on the node, 1 trouble, fair | violates `ConfiguredWithoutIt` |

**What they show.**

- `Tracked`: a NodeLinks that lists a Link always has its node in the Link's
  stored `matchedNodes`, whatever fails and wherever the controller dies. The
  order "store the nodes, then register; remove, then drop the node" is what it
  takes (`WrongRemovalsDone`, `WrongReadFails`).
- `SettledWithoutLeftovers`: when the controller has nothing left to do or to be
  told, no node lists a Link that does not match it.
- `FinalizerOfLostNodeOnly`: the check of the Node and the patch are two calls,
  and a node may rejoin between them; the finalizer that is taken off is still
  one of an agent that is gone, since the object's owner is the old node.
- `NoOrphan`: every link the agent created is in the stored status until it is
  gone. `WriteAhead` is its inductive strengthening.
- `MissingDependencyDown`: by the time links are upserted, a link without a
  required dependency is down, and it does not come up in the same pass.
  `MCAgentShared` checks it where a managed and an unmanaged Link share a name,
  which is also the name under which the condition is kept.
- `DownBeforeDelete`: no link is deleted while another one to be deleted is up.
- `ReadyWhenUp`: Ready is stored only if each managed link is as its Link asks,
  unless somebody else changed it since the agent did: bringing dependents down
  during a pass never undoes an upsert of that pass.
- `OnlyManagedTouched`: a link only ever named by unmanaged Links is left alone.
- `Converges`, `DeletionCompletes`: after the last change the node gets in sync,
  and deletions finish, without periodic resyncs, even from Links for which no
  graph could be built, once they are corrected.
- `FollowsLifecycle`, of both controllers: each implements `NodeLinksLifecycle`.
  What one assumes of the other is what the other is shown to do.
- `Covered`: a change of a watched link that the agent has not read yet always has
  something on its way that makes the agent read it: an event, a subscription
  that is about to fail or to be made up for, a request, the queue, or the pass.
- `WatcherSpec`: the upsert loop is a reconciler as the watcher takes it to be; it
  never ends a pass in success with a watched link unread.
- `UpsertSuffices`: after an upsert without error, and without interference, the
  check finds nothing left to do. What is replaced, set in place and compared
  must agree among `forceReplace`, `Upsert` and `IsUpsertNeeded`.
- `DependentsDown`: while the agent changes a link, each link whose reference to it
  asks for that is down.
- `Repaired`: after the last trouble, every listed Link that has its dependencies
  is as it asks and the agent rests: an overflow, a stolen name, a device deleted
  with its VXLAN or a half-done upsert is repaired without periodic checks, and
  the events of the agent's own changes die out.
- `SearchIsBreadthFirst`, `SetDownAsAsked`: over every acyclic graph of four
  vertices with edges of either kind, and over the graphs of the run, the search
  visits what is reachable, each vertex once and nearer ones first; a dependent is
  set down if all references within reach of the change ask for it, and is not if
  none does.

**Bounds.** `MaxEdits` counts changes by users, nodes and other programs;
`MaxFaults` counts failed calls and restarts. Three edits are what it takes to
create a Link, lose or delete something, and bring it back, each at any point of
a reconciliation; the counterexamples found need three or fewer. One fault
covers a crash or a failure at each call; two, in `MCLinkNodes`, a retry that
fails again. Two Links are enough for one to empty a NodeLinks that the other is
being added to, and two nodes for a loop that fails for one node and handles the
other. In `MCNodeRepair`, `MaxTrouble` bounds what others do, failures, restarts
and registrations together: two let one interfere with the repair of another.
`Capacity` is 1, so that two changes overflow; the theorem `CoveredByWatcher` has
any capacity. Three links are a device, a master, and a VXLAN that has both.
Graphs of four vertices have a diamond, where a vertex is reached over two edges.
For the agent, two links are enough for each order of a dependency, a
third Link for a name with more than one Link. Initially the node already has
links and registered Links of every combination the instance allows. Nodes and
Links are symmetric in the safety runs, where their names are interchangeable.

**Deadlock.** All runs allow the system to stop: once the edits are used up and
the queue is empty there is nothing to do.

**Fairness** (`FairSpec`). `WF(Reconcile)`: the worker goroutine keeps running and
every API call returns. `SF` of starting each Link's reconciliation: the work
queue is first in, first out, so a queued Link has its turn although others are
queued over and over. `WF` of deliveries: a watch delivers in the end. `WF` of the
agents' finalizer steps and of the garbage collector: other processes of the
cluster that run. In `NodeRepair`, `WF(Agent)` and `WF(Watcher)`: the goroutines run,
and the calls return; a failed subscription counts as trouble. Users, nodes, failures, restarts, resyncs and other programs
are not fair: nothing relies on them.

## 4. Disagreements between code and documentation

Five runs end in a violation of what the repository says; `PROJECT.json` quotes
the lines.

1. `MCLinkMissed`. A Link reconciled while the node's NodeLinks is being deleted
   is not registered, success is reported, and the end of the deletion (a Delete
   event, which the watch ignores) wakes nobody. The Link stays unregistered
   until an unrelated event. It takes, for example, a node that leaves and
   rejoins before its NodeLinks is gone.
2. `MCLinkStuck`. The check for a lost node is made only for a NodeLinks that is
   already being deleted. When a node is lost and the reconciliation of the last
   Link comes before the garbage collector, it skips the check, deletes the object
   itself and drops the node from `matchedNodes`. The object stays with the
   finalizer of the lost agent. It still lists the Link, and its update event wakes
   it, but that reconciliation has no matched node left to look at.
3. `MCLinkLeak`. With the cached client of `cmd/main.go`, a Link deleted during its
   first reconciliation may next be read without the `matchedNodes` just stored.
   It gives its finalizer up while still listed.
4. `MCAgentStale`. With the cached client, a NodeLinks deleted during its first
   reconciliation, once the finalizer is there and before the attempted names are
   stored, may next be read as it was then: being deleted, with the finalizer and
   no name. The agent deletes nothing and takes its finalizer off; the links it
   made in between stay, and nothing records them any more.
5. `MCNodeOptional`. A VXLAN for a multicast group with an optional device that is
   not on the node passes the webhook, which only asks for a reference. The
   device resolves to none, the kernel refuses the group without one, and each
   upsert fails, whereas the comment on `resolveLinkRef` says the link is
   configured without it.

More, which no run states:

- The comment on `validateLinks` (`nodelinks_controller.go:271-272`) says invalid
  Links should not cause a requeue; `handleError` returns the error
  (`nodelinks_controller.go:165`), so they are retried with backoff.
- The documentation of references (`link_types.go:45-47`) says dependents are
  brought up once all dependencies are; `upsertLinks`
  (`nodelinks_controller.go:539-546`) goes on after a failed upsert and brings
  dependents of the failed link up as long as it exists.
- The same documentation (`link_types.go:44-45`) has a dependent brought down when
  its dependency "or any of its dependencies" is updated. A dependent reached
  over two edges, one of which asks for that, is judged by the edge the search
  takes first. `SetDownAsAsked` therefore promises nothing where the edges within
  reach differ, and no property is about which of the two is right.
- A VXLAN with a multicast group and a device, whose Link now asks for a unicast
  peer and no device, has its device cleared before its group. On a kernel that
  refuses this, as `Netlink` does, the upsert can never succeed.
- A watched link that is renamed is not noticed: the event has the new name, which
  is not watched (`nodelinks_linkevents.go:154`), whereas the comment at lines
  63-65 says that changes are repaired as they happen. The next pass repairs it.

## 5. Proofs

All theorems hold for every set of Links, nodes and names, all specs, and any
bound on edits, faults and troubles. Each safety property of a passing run is
stated by one of them. The inductive invariants were checked by TLC on the
instances of section 3 before they were proved.

**`LinkReconciler_proofs`**

- `TypeCorrect`: `Spec => []TypeOK`. `TypeOK` is not inductive: the bodies of the
  loops index records by `cur` and `at`. `TypeInv` adds that the loops stay within
  the listed nodes (`LoopOK`).
- `FinalizerOfLostNode`: `Spec => FinalizerOfLostNodeOnly`, however stale the reads
  are. Between the check of the Node and the write the node may come back.
  `OwnerOK`: no NodeLinks has an owner ahead of its node, and once the controller
  has decided to take the finalizer off (`dropFin`), the node is gone or already
  has a later uid than the owner.
- `TrackedWithFreshReads`: `ASSUME ~StaleReads PROVE Spec => []Tracked`. `FreshInv`
  says of each point of a reconciliation what its copies know: `CopyOK`, that the
  copy names each node that lists the Link and keeps the finalizer while there is
  one; `GotOK`, `RemovalOK`, `UpsertOK`, that a NodeLinks which was read is what is
  stored where it matters, and that nodes leave the copy only after the Link has
  left them; `HeldOK`, that `matchedNodes` is stored before any registration.
- `ControllerFollowsLifecycle`: with fresh reads, each step is one of
  `NodeLinksLifecycle` for every node, from the same invariant.

**`LinkLeftovers_proofs`**

- `SettledWithoutLeftoversWithFreshReads`: the invariant follows a wrongly listed
  Link to whoever will see to it (`LeftoversOK`): the queue, a change that the
  watch has yet to tell of, or the reconciliation of that Link. The last of these
  needs that a reconciliation works with the current selector and nodes unless its
  Link is pending again (`ProgressOK`), that one which ends well has done its work
  (`DoneOK`), and that a generation the informer has seen is never ahead (`GenOK`),
  without which `GenerationChangedPredicate` could drop the event that matters.

**`NodeLinksReconciler_proofs`**

- `TypeCorrect`: `TypeInv` (`OutsideType`, `HostType`, `CtlType`) carries that `res`
  is only indexed by the Links that were read.
- `WriteAheadWithFreshReads`, `NoOrphanWithFreshReads`: `ASSUME ~StaleReads`.
  `NoOrphan` alone is not inductive: between reading the NodeLinks and patching
  it, the agent decides from its copy. `WriteAhead` adds that the attempted names
  it read are those stored until it patches them (it alone writes them), that the
  copy drops a name only once the link of that name was deleted or is still named
  by a Link, and that names are stored before any upsert starts.
- `LifecycleWithFreshReads`: the agent implements `NodeLinksLifecycle`.
  `WritersOfNodeLinks` reduces the steps to those that change the object or `made`;
  those of the environment need no invariant; the patches need `WriteAhead` and
  `Held`, that the copies agree with the stored object on what the patch depends on.

**`NodeLinksOrder_proofs`**

- `MissingDependencyStaysDown`, `AllDownBeforeDelete`, `ReadyIsUp`: however stale
  the reads are. All three from `OrderInv`: what has been accepted stays valid
  (`PlanOK`), what was brought down is down (`DownOK`, `MissingOK`), what comes
  before a Link in the order does not depend on it, so that the search for its
  dependents reaches nothing that is done (`OrderOK`), and what was upserted is
  as asked (`UpsertedOK`).
- `UnmanagedLeftAlone`, and with fresh reads `OnlyManagedTouchedWithFreshReads`:
  the stored names and every copy of them are names that managed Links have or
  had (`AttemptedOK`).

**`GraphSearch_proofs`**: for every finite graph, with or without cycles.

- `SearchVisitsNearestFirst`: `BreadthFirst(g, start)`. `SearchInv` is kept by each
  turn: the vertices that were visited or wait are the marked ones, once each
  (`Listed`); what the visited ones lead to is marked (`Explored`); each but the
  first is marked by an edge from a visited one before it (`Led`); and they stand in
  the order of the nested sets `Within` of vertices so many edges away (`Nearer`).
- `SetDownIsAsked`: `AsAsked(g, start)`, if nothing that can be reached leads back
  to `start`. On a cycle it fails: the visit of `start` has no edge.

The search is a recursive function of the number of turns. The library's theorems
on induction cannot be used, since they take an operator as a parameter; the proofs
go by the least counterexample instead (`Least`, from the library's theorem that
inclusion of finite sets is well founded), and `Recursion` shows in this way that the
recursive definitions have the value they are given.

**`LinkEventWatcher_proofs`**, **`NodeRepair_proofs`**

- `CoveredByWatcher`: `WatcherSpec => []Covered`, for any finite set of names and any
  capacity. Given the types (`WatcherTypeOK`) `Covered` is inductive: each step that
  consumes one reason for a later read leaves another.
- `ImplementsWatcher`: `Spec => WatcherSpec /\ []Covered`. Each step of the loop
  is one of the abstract reconciler, of the kernel, or neither.

**`NodeUpsert_proofs`**

- `NodeTypes`: `Spec => []TypeOK`. The invariant is `KernelOK` (no two links have the
  same index, and what is absent has no attribute), `DesiredOK` (each link of the
  node has one Link), `LoopOK` (the Links of the pass are as read, and could be
  sorted) and `CallOK` (an upsert that runs is that of a managed Link with its
  dependencies, after the links to be set down first). `UpsertTypes` goes through
  the ten calls, `NewIndexFresh` shows that there is always an unused index.
- `DependentsSearched`, `DependentsSetDownAsAsked`: from `CallOK` and the theorems on
  the search. `NoCycle`: Links that can be sorted have no cycle, since all that can
  be reached from a Link comes after it.
- `DependentsAreDown`: `DependentsOK`, that each dependent which asks for it is
  down or still waits to be set down, which begins with `DirectSetDown` (the search
  sets every direct dependent that asks for it down) and is kept because no call but
  the last sets another link up.
- `UpsertIsEnough`: `UpsertOK` says for each call what the upsert has reached: the
  link with the name is the one with the index in the copy (`Whole`), what was set
  is as the Link asks, and of the rest the copy is still right (`MTUDone`,
  `DeviceDone`, `GroupDone`, `LearningDone`, `MasterDone`). A reference that was set
  stays right because no later call changes an index (`SameReference`).

**Hypotheses.** `~StaleReads` is what the repository's tests run with;
`MCLinkLeak` shows that it cannot be dropped for `SettledWithoutLeftovers`, and
`MCAgentStale` that it cannot be dropped for `NoOrphan`: what `SettledWithoutOrphan`
finds is a link that no status records, for good. (A stale copy may also overwrite
stored names for a while, since the patch that adds the finalizer writes the status
that was read, `nodelinks_controller.go:113-115`, `965-982`; the same reconciliation
stores them again if it gets that far.) The theorems whose names do not end in
`WithFreshReads` do without it, but for `ControllerFollowsLifecycle`. The named
assumptions on constants (`LinkReconcilerAssumption`,
`NodeLinksReconcilerAssumption`, `LinkEventWatcherAssumption`,
`NodeRepairAssumption`) say that sets are finite where they are, and that specs
have the right shape, are accepted by the webhook, and (in `NodeRepair`) do not
share names of links; and, of the node at the start there, that two links have two
indices and that what is absent has no attribute. No theorem assumes that the
Links have no cycle: a pass that cannot sort them does not get to the upserts.

**What the proofs changed.** The attempt to prove `ReadyWhenUp` as it was first
stated failed for a good reason: it was false where an unmanaged Link has the name
of a link that a managed one has, and TLC found the counterexample on such an
instance. `mine` now also forgets a link when anybody else changes it, and
`ReadyWhenUp` is about the links in it, like the properties beside it. `SetDownAsAsked`
turned out to need a graph without cycles, which `NoCycle` provides.

**What stays with TLC.** Liveness and everything under fairness (`Converges`,
`DeletionCompletes`, `Repaired`), which this prover does not reach, and the runs that
end in a violation.

**Two remarks on the prover** (tlapm 1.4.5), for whoever changes these proofs. Its
encoding for Zenon accepts false goals of the form `S \subseteq A \cap B`, so that no
statement here has that form: such a goal is stated as two inclusions. And it expands
nested `@` of an `EXCEPT` wrongly, which is why `DeleteLink` of `LinkReconciler` names
the changed record instead.

## 6. Not modelled

Flags and start-up (`StaleReads` and `Resyncs` stand for the two that matter),
generated code, charts, tests. Of the webhook, the syntax of node selectors. Of
the modelled components: the conditions no step reads; the durations of
backoffs; renames of links; other attributes of links, which the operator neither
reads nor sets; the limit of one VXLAN per VNID, of which `link_types.go:82-85`
says that it is the user's responsibility.

## 7. Plan

Done: the two controllers, the protocol between them, the link managers, the
search, the watcher, the upsert loop composed of these three, and a proof of each
safety property that a passing run checks. What is left:

1. Which of the theorems that assume fresh reads hold in part without them, as
   `FinalizerOfLostNode`, `UnmanagedLeftAlone` and the theorems about order do.
2. That the upserts of `NodeRepair` implement the one step that an upsert is in
   `NodeLinksReconciler`.
3. That a later pass gets over a failed upsert, as a step of a ranking, which
   would leave TLC only the fairness of `Repaired`.
