--------------------------- MODULE LinkReconciler ---------------------------
(***************************************************************************)
(* The cluster-wide controller of Link objects                             *)
(* (internal/controller/link_controller.go).  It decides which nodes a     *)
(* Link applies to and keeps, for every such node, the Link's name in the  *)
(* list of that node's NodeLinks object.  The controller is leader elected *)
(* and runs one worker, so one reconciliation is in progress at a time;    *)
(* everything else (users, nodes coming and going, the node agents, the    *)
(* garbage collector) moves between any two of its API calls.              *)
(*                                                                         *)
(* One action is one API call together with the local code up to the next  *)
(* call.  The reconciler's locals are variables and are lost in a crash.   *)
(***************************************************************************)
EXTENDS Naturals, FiniteSets

CONSTANTS
  Link,         \* names of Link objects
  Node,         \* names of nodes; a NodeLinks object has its node's name
  Label,        \* what a node can be labelled with
  Selector,     \* node selectors: sets of labels
  None,         \* "no name"
  StaleReads,   \* TRUE: Get answers from the informer cache, which lags
  MaxEdits,     \* bound on changes made by users and by nodes
  MaxFaults     \* bound on failed API calls and on controller restarts

ASSUME LinkReconcilerAssumption ==
  /\ Selector \subseteq SUBSET Label
  /\ None \notin Link \cup Node
  /\ StaleReads \in BOOLEAN
  /\ MaxEdits \in Nat /\ MaxFaults \in Nat

VARIABLES
  \* the API server
  link,            \* Link objects
  node,            \* Node objects, as the manager's cache shows them
  nodeLinks,       \* NodeLinks objects
  \* the manager's informers and work queue
  seenLink,        \* Link objects as last delivered to the informer
  seenNodeLinks,   \* NodeLinks objects as last delivered to the informer
  queue,           \* names of Links waiting to be reconciled
  \* the reconciliation in progress
  pc,              \* the next API call
  cur,             \* the Link it was started for
  action,          \* "upsert" or "delete"
  clusterState,    \* clusterStateLink: the base of the next patch of the Link
  mem,             \* link: the copy of the Link that is being changed
  nodes,           \* the matching nodes listed, with their uids
  todo,            \* nodes the current loop has not handled yet
  at,              \* the node the loop is handling
  got,             \* its NodeLinks object as read
  dropFin,         \* whether the write takes the agent's finalizer off it
  failed,          \* whether an iteration of the loop returned an error
  then,            \* where patchResource returns to
  \* bounds of the model
  edits, faults

api      == <<link, node, nodeLinks>>
informer == <<seenLink, seenNodeLinks>>
loop     == <<todo, at, got, dropFin, failed>>
ctl      == <<pc, cur, action, clusterState, mem, nodes, loop, then>>
bounds   == <<edits, faults>>
vars     == <<api, informer, queue, ctl, bounds>>

-----------------------------------------------------------------------------
(* Objects.  An object that does not exist is the record with there = FALSE. *)

NoLink == [there |-> FALSE, deleting |-> FALSE, fin |-> FALSE, gen |-> 0,
           sel |-> {}, matched |-> {}, ready |-> "Unset"]

NoNodeLinks == [there |-> FALSE, deleting |-> FALSE, fin |-> FALSE,
                matching |-> {}, owner |-> 0]

NoNodes == [n \in {} |-> 0]

LinkObject ==
  [there : BOOLEAN, deleting : BOOLEAN, fin : BOOLEAN, gen : Nat,
   sel : SUBSET Label, matched : SUBSET Node, ready : {"Unset", "Unknown", "True", "False"}]

NodeLinksObject ==
  [there : BOOLEAN, deleting : BOOLEAN, fin : BOOLEAN,
   matching : SUBSET Link, owner : Nat]

NodeObject == [up : BOOLEAN, uid : Nat, label : Label]

(* The API server removes an object that is being deleted once it has no     *)
(* finalizer left, and only marks one that still has a finalizer.            *)
Stored(object, absent) ==
  IF object.deleting /\ ~object.fin THEN absent ELSE object

Deleted(object, absent) == Stored([object EXCEPT !.deleting = TRUE], absent)

(* The nodes a selector matches, each with the uid it is listed with.        *)
Matching(sel) ==
  [n \in {m \in Node : node[m].up /\ node[m].label \in sel} |-> node[n].uid]

ReadLink(l)      == IF StaleReads THEN seenLink[l] ELSE link[l]
ReadNodeLinks(n) == IF StaleReads THEN seenNodeLinks[n] ELSE nodeLinks[n]

-----------------------------------------------------------------------------
IdleInit ==
  /\ pc = "idle" /\ cur = None /\ action = "none" /\ then = "none"
  /\ clusterState = NoLink /\ mem = NoLink /\ nodes = NoNodes
  /\ todo = {} /\ at = None /\ got = NoNodeLinks
  /\ dropFin = FALSE /\ failed = FALSE

Init ==
  /\ link = [l \in Link |-> NoLink]
  /\ node \in [Node -> [up : BOOLEAN, uid : {1}, label : Label]]
  /\ nodeLinks = [n \in Node |-> NoNodeLinks]
  /\ seenLink = link /\ seenNodeLinks = nodeLinks
  /\ queue = {}
  /\ IdleInit
  /\ edits = 0 /\ faults = 0

(* The end of a reconciliation: its locals are gone.                         *)
Finish ==
  /\ pc' = "idle" /\ cur' = None /\ action' = "none" /\ then' = "none"
  /\ clusterState' = NoLink /\ mem' = NoLink /\ nodes' = NoNodes
  /\ todo' = {} /\ at' = None /\ got' = NoNodeLinks
  /\ dropFin' = FALSE /\ failed' = FALSE

(* Deliberately wrong variants of a definition, named Wrong..., stand before *)
(* it; each breaks the property it is listed with in PROJECT.json.           *)

WrongRequeue == Finish /\ queue' = queue \cup {cur'}

(* An error returned from Reconcile puts the Link back in the queue.         *)
Requeue == Finish /\ queue' = queue \cup {cur}

(* A call of patchResource, which returns to `next'.                         *)
CallPatch(object, next) ==
  /\ pc' = "patch" /\ then' = next /\ mem' = object
  /\ todo' = {} /\ at' = None /\ got' = NoNodeLinks
  /\ dropFin' = FALSE /\ failed' = FALSE

(* handleError: record the error in the status, then return it.              *)
HandleError ==
  /\ CallPatch(IF action = "upsert" THEN [mem EXCEPT !.ready = "False"] ELSE mem,
               "error")
  /\ UNCHANGED <<cur, action, clusterState, nodes, queue>>

-----------------------------------------------------------------------------
(* Reconcile: get the Link and dispatch on its deletion timestamp.           *)

ReconcileNothing(l) ==
  /\ pc = "idle" /\ l \in queue
  /\ ~ReadLink(l).there \/ (ReadLink(l).deleting /\ ~ReadLink(l).fin)
  /\ queue' = queue \ {l}
  /\ UNCHANGED <<api, informer, ctl, bounds>>

(* handleUpsert: add the finalizer, at once when it is already there.        *)
ReconcileUpsert(l) ==
  /\ pc = "idle" /\ l \in queue
  /\ ReadLink(l).there /\ ~ReadLink(l).deleting
  /\ queue' = queue \ {l}
  /\ cur' = l /\ action' = "upsert" /\ clusterState' = ReadLink(l)
  /\ mem' = [ReadLink(l) EXCEPT !.fin = TRUE]
  /\ \/ ReadLink(l).fin /\ pc' = "list" /\ then' = "none"
     \/ ~ReadLink(l).fin /\ pc' = "patch" /\ then' = "list"
  /\ UNCHANGED <<api, informer, nodes, loop, bounds>>

(* handleDeletion: the loop over every node the Link was matched with.       *)
ReconcileDeletion(l) ==
  /\ pc = "idle" /\ l \in queue
  /\ ReadLink(l).there /\ ReadLink(l).deleting /\ ReadLink(l).fin
  /\ queue' = queue \ {l}
  /\ cur' = l /\ action' = "delete"
  /\ clusterState' = ReadLink(l) /\ mem' = ReadLink(l)
  /\ pc' = "remove" /\ todo' = ReadLink(l).matched
  /\ UNCHANGED <<api, informer, nodes, at, got, dropFin, failed, then, bounds>>

(* updateNodeLinks: getMatchingNodes, then the loop over the nodes that no   *)
(* longer match.                                                             *)
ListNodes ==
  /\ pc = "list"
  /\ nodes' = Matching(mem.sel)
  /\ mem' = [mem EXCEPT !.ready = "Unknown"]
  /\ todo' = mem.matched \ (DOMAIN Matching(mem.sel))
  /\ pc' = "remove" /\ then' = "none"
  /\ UNCHANGED <<api, informer, queue, cur, action, clusterState,
                 at, got, dropFin, failed, bounds>>

-----------------------------------------------------------------------------
(* removeFromUnmatchedNodeLinks: an iteration for every node in todo, in any *)
(* order, that gets the NodeLinks, if need be the Node, and writes.          *)

(* The iteration for the current node is over.                               *)
NextRemoval ==
  /\ pc' = "remove" /\ todo' = todo \ {at} /\ at' = None
  /\ got' = NoNodeLinks /\ dropFin' = FALSE

(* Nothing to do: no NodeLinks, or one that does not list the Link.          *)
RemoveSkip(n) ==
  /\ pc = "remove" /\ n \in todo
  /\ \/ ~ReadNodeLinks(n).there
     \/ /\ ~(ReadNodeLinks(n).deleting /\ ReadNodeLinks(n).fin)
        /\ cur \notin ReadNodeLinks(n).matching
  /\ todo' = todo \ {n}
  /\ UNCHANGED <<api, informer, queue, pc, cur, action, clusterState, mem, nodes,
                 at, got, dropFin, failed, then, bounds>>

RemoveRead(n) ==
  /\ pc = "remove" /\ n \in todo
  /\ ReadNodeLinks(n).there
  /\ \/ /\ ReadNodeLinks(n).deleting /\ ReadNodeLinks(n).fin
        /\ pc' = "checkNode"
     \/ /\ ~(ReadNodeLinks(n).deleting /\ ReadNodeLinks(n).fin)
        /\ cur \in ReadNodeLinks(n).matching
        /\ pc' = "removeWrite"
  /\ at' = n /\ got' = ReadNodeLinks(n)
  /\ UNCHANGED <<api, informer, queue, cur, action, clusterState, mem, nodes,
                 todo, dropFin, failed, then, bounds>>

WrongCheckNode ==      \* does not look whether the node still exists
  /\ pc = "checkNode" /\ pc' = "removeWrite" /\ dropFin' = TRUE
  /\ UNCHANGED <<api, informer, queue, cur, action, clusterState, mem, nodes,
                 todo, at, got, failed, then, bounds>>

(* The agent's finalizer is only taken off when its node does not exist.     *)
CheckNode ==
  /\ pc = "checkNode"
  /\ \/ /\ node[at].up /\ cur \in got.matching
        /\ pc' = "removeWrite" /\ UNCHANGED loop
     \/ /\ node[at].up /\ cur \notin got.matching
        /\ NextRemoval /\ UNCHANGED failed
     \/ /\ ~node[at].up
        /\ pc' = "removeWrite" /\ dropFin' = TRUE
        /\ UNCHANGED <<todo, at, got, failed>>
  /\ UNCHANGED <<api, informer, queue, cur, action, clusterState, mem, nodes,
                 then, bounds>>

(* The last Link of a NodeLinks takes the object with it; the list itself is *)
(* not written.                                                              *)
LastLink == got.matching \ {cur} = {} /\ ~got.deleting

Removed(object) ==
  Stored([object EXCEPT
            !.matching = IF cur \in got.matching THEN got.matching \ {cur} ELSE @,
            !.fin = @ /\ ~dropFin],
         NoNodeLinks)

RemoveWrite ==
  /\ pc = "removeWrite"
  /\ \/ /\ nodeLinks[at].there
        /\ nodeLinks' = [nodeLinks EXCEPT
                           ![at] = IF LastLink THEN Deleted(@, NoNodeLinks)
                                               ELSE Removed(@)]
        /\ mem' = [mem EXCEPT !.matched = @ \ {at}]
     \/ /\ ~nodeLinks[at].there      \* IgnoreNotFound
        /\ UNCHANGED <<nodeLinks, mem>>
  /\ NextRemoval
  /\ UNCHANGED <<link, node, informer, queue, cur, action, clusterState, nodes,
                 failed, then, bounds>>

WrongRemovalsDone ==   \* registers before the matched nodes are stored
  /\ pc = "remove" /\ todo = {}
  /\ \/ failed /\ HandleError
     \/ /\ ~failed
        /\ CallPatch(IF action = "upsert" THEN mem ELSE [mem EXCEPT !.fin = FALSE],
                     IF action = "upsert" THEN "register" ELSE "done")
        /\ UNCHANGED <<cur, action, clusterState, nodes, queue>>
  /\ UNCHANGED <<api, informer, bounds>>

WrongErrorsIgnored ==  \* goes on although a removal failed
  /\ pc = "remove" /\ todo = {}
  /\ CallPatch(IF action = "upsert" THEN [mem EXCEPT !.matched = DOMAIN nodes]
                                    ELSE [mem EXCEPT !.fin = FALSE],
               IF action = "upsert" THEN "register" ELSE "done")
  /\ UNCHANGED <<cur, action, clusterState, nodes, queue, api, informer, bounds>>

(* After the loop: registerWithMatchedNodeLinks persists the matched nodes   *)
(* before any registration; handleDeletion gives the finalizer up.           *)
RemovalsDone ==
  /\ pc = "remove" /\ todo = {}
  /\ \/ failed /\ HandleError
     \/ /\ ~failed /\ action = "upsert"
        /\ CallPatch([mem EXCEPT !.matched = DOMAIN nodes], "register")
        /\ UNCHANGED <<cur, action, clusterState, nodes, queue>>
     \/ /\ ~failed /\ action = "delete"
        /\ CallPatch([mem EXCEPT !.fin = FALSE, !.ready = "False"], "done")
        /\ UNCHANGED <<cur, action, clusterState, nodes, queue>>
  /\ UNCHANGED <<api, informer, bounds>>

-----------------------------------------------------------------------------
(* registerWithNodeLinks, for every listed node in any order: CreateOrPatch  *)
(* gets the NodeLinks, changes the copy, and creates or patches it.          *)

NextRegistration ==
  /\ pc' = "register" /\ todo' = todo \ {at} /\ at' = None /\ got' = NoNodeLinks

(* What the mutate function makes of a NodeLinks that is read.               *)
Registered(object) ==
  [object EXCEPT !.there = TRUE, !.owner = nodes[at], !.matching = @ \cup {cur}]

(* No write: the object is being deleted, or nothing would change.           *)
RegisterSkip(n) ==
  /\ pc = "register" /\ n \in todo
  /\ ReadNodeLinks(n).there
  /\ \/ ReadNodeLinks(n).deleting
     \/ ReadNodeLinks(n).owner = nodes[n] /\ cur \in ReadNodeLinks(n).matching
  /\ todo' = todo \ {n}
  /\ UNCHANGED <<api, informer, queue, pc, cur, action, clusterState, mem, nodes,
                 at, got, dropFin, failed, then, bounds>>

RegisterRead(n) ==
  /\ pc = "register" /\ n \in todo
  /\ ~ReadNodeLinks(n).deleting
  /\ ~(ReadNodeLinks(n).owner = nodes[n] /\ cur \in ReadNodeLinks(n).matching)
  /\ pc' = "registerWrite" /\ at' = n /\ got' = ReadNodeLinks(n)
  /\ UNCHANGED <<api, informer, queue, cur, action, clusterState, mem, nodes,
                 todo, dropFin, failed, then, bounds>>

RegisterCreate ==
  /\ pc = "registerWrite" /\ ~got.there
  /\ \/ /\ ~nodeLinks[at].there
        /\ nodeLinks' = [nodeLinks EXCEPT ![at] = Registered(NoNodeLinks)]
        /\ UNCHANGED failed
     \/ /\ nodeLinks[at].there       \* AlreadyExists
        /\ failed' = TRUE
        /\ UNCHANGED nodeLinks
  /\ NextRegistration
  /\ UNCHANGED <<link, node, informer, queue, cur, action, clusterState, mem,
                 nodes, dropFin, then, bounds>>

(* A merge patch replaces a list that changed, and carries no version.       *)
RegisterPatch ==
  /\ pc = "registerWrite" /\ got.there
  /\ \/ /\ nodeLinks[at].there
        /\ nodeLinks' = [nodeLinks EXCEPT
             ![at].matching = IF cur \in got.matching THEN @
                                                      ELSE got.matching \cup {cur},
             ![at].owner = IF got.owner = nodes[at] THEN @ ELSE nodes[at]]
        /\ UNCHANGED failed
     \/ /\ ~nodeLinks[at].there      \* NotFound
        /\ failed' = TRUE
        /\ UNCHANGED nodeLinks
  /\ NextRegistration
  /\ UNCHANGED <<link, node, informer, queue, cur, action, clusterState, mem,
                 nodes, dropFin, then, bounds>>

RegistrationsDone ==
  /\ pc = "register" /\ todo = {}
  /\ \/ failed /\ HandleError
     \/ /\ ~failed
        /\ CallPatch([mem EXCEPT !.ready = "True"], "done")
        /\ UNCHANGED <<cur, action, clusterState, nodes, queue>>
  /\ UNCHANGED <<api, informer, bounds>>

-----------------------------------------------------------------------------
(* patchResource: the main resource when it changed, then the status when it *)
(* changed.  Each response replaces the copy and the base of the next patch. *)

PatchReturns ==
  \/ /\ then = "list" /\ pc' = "list" /\ then' = "none"
     /\ UNCHANGED <<cur, action, nodes, loop, queue>>
  \/ /\ then = "register" /\ pc' = "register" /\ then' = "none"
     /\ todo' = DOMAIN nodes
     /\ UNCHANGED <<cur, action, nodes, at, got, dropFin, failed, queue>>

(* The last patch of a reconciliation ends it, with an error or without.     *)
PatchEnds ==
  \/ then = "done" /\ Finish /\ UNCHANGED queue
  \/ then = "error" /\ Requeue

(* patchFailed: the error is handled like any other, but an error of the     *)
(* last patch is only returned.                                              *)
PatchFails ==
  \/ then \in {"list", "register"} /\ HandleError
  \/ then \in {"done", "error"} /\ Requeue

PatchMain ==
  /\ pc = "patch" /\ mem.fin # clusterState.fin
  /\ \/ /\ link[cur].there
        /\ LET response == [link[cur] EXCEPT !.fin = mem.fin]
           IN /\ link' = [link EXCEPT ![cur] = Stored(response, NoLink)]
              /\ clusterState' = response
              /\ mem' = [response EXCEPT !.matched = mem.matched,
                                         !.ready = mem.ready]
        /\ UNCHANGED <<queue, pc, cur, action, nodes, loop, then>>
     \/ /\ ~link[cur].there
        /\ PatchFails
        /\ UNCHANGED link
  /\ UNCHANGED <<node, nodeLinks, informer, bounds>>

(* The merge patch holds the status fields that differ from the base.        *)
PatchedStatus(object) ==
  [object EXCEPT
     !.matched = IF mem.matched = clusterState.matched THEN @ ELSE mem.matched,
     !.ready   = IF mem.ready = clusterState.ready THEN @ ELSE mem.ready]

SameStatus ==
  mem.matched = clusterState.matched /\ mem.ready = clusterState.ready

PatchStatus ==
  /\ pc = "patch" /\ mem.fin = clusterState.fin
  /\ \/ /\ ~SameStatus /\ link[cur].there
        /\ link' = [link EXCEPT ![cur] = PatchedStatus(@)]
        /\ \/ /\ PatchReturns
              /\ mem' = PatchedStatus(link[cur])
              /\ clusterState' = PatchedStatus(link[cur])
           \/ PatchEnds
     \/ /\ SameStatus \/ (~link[cur].there /\ mem.deleting)
        /\ \/ PatchReturns /\ UNCHANGED <<mem, clusterState>>
           \/ PatchEnds
        /\ UNCHANGED link
     \/ /\ ~SameStatus /\ ~link[cur].there /\ ~mem.deleting
        /\ PatchFails
        /\ UNCHANGED link
  /\ UNCHANGED <<node, nodeLinks, informer, bounds>>

-----------------------------------------------------------------------------
(* Failures: an API call that returns an error, and the loss of the process. *)

(* An error in one iteration does not stop the loop.                         *)
IterationFails(loopStart) ==
  /\ pc' = loopStart /\ failed' = TRUE /\ todo' = todo \ {at}
  /\ at' = None /\ got' = NoNodeLinks /\ dropFin' = FALSE
  /\ UNCHANGED <<queue, cur, action, clusterState, mem, nodes, then>>

WrongReadFails(n) ==   \* forgets a node that could not be handled
  /\ pc \in {"remove", "register"} /\ n \in todo
  /\ todo' = todo \ {n} /\ failed' = TRUE /\ mem' = [mem EXCEPT !.matched = @ \ {n}]
  /\ UNCHANGED <<queue, pc, cur, action, clusterState, nodes, at, got, dropFin, then>>

ReadFails(n) ==
  /\ pc \in {"remove", "register"} /\ n \in todo
  /\ todo' = todo \ {n} /\ failed' = TRUE
  /\ UNCHANGED <<queue, pc, cur, action, clusterState, mem, nodes, at, got,
                 dropFin, then>>

APICallFails ==
  /\ faults < MaxFaults /\ faults' = faults + 1
  /\ \/ pc = "list" /\ HandleError
     \/ pc = "patch" /\ ~(SameStatus /\ mem.fin = clusterState.fin) /\ PatchFails
     \/ pc \in {"checkNode", "removeWrite"} /\ IterationFails("remove")
     \/ pc = "registerWrite" /\ IterationFails("register")
     \/ \E n \in Node : ReadFails(n)
  /\ UNCHANGED <<api, informer, edits>>

(* A new leader lists every object, which enqueues every Link.               *)
Restart ==
  /\ faults < MaxFaults /\ faults' = faults + 1
  /\ Finish
  /\ queue' = {l \in Link : link[l].there}
  /\ seenLink' = link /\ seenNodeLinks' = nodeLinks
  /\ UNCHANGED <<api, edits>>

-----------------------------------------------------------------------------
(* SetupWithManager: what the watches deliver and which Links they enqueue.  *)

WrongDeliverLink(l) == \* a deletion timestamp is not a change of the spec
  /\ seenLink[l] # link[l]
  /\ seenLink' = [seenLink EXCEPT ![l] = link[l]]
  /\ queue' = IF seenLink[l].there # link[l].there \/ seenLink[l].sel # link[l].sel
              THEN queue \cup {l} ELSE queue
  /\ UNCHANGED <<api, seenNodeLinks, ctl, bounds>>

(* For(Link, GenerationChangedPredicate): a creation, a deletion, a change of*)
(* the spec or a deletion timestamp, but no change of status or finalizers.  *)
DeliverLink(l) ==
  /\ seenLink[l] # link[l]
  /\ seenLink' = [seenLink EXCEPT ![l] = link[l]]
  /\ queue' = IF \/ seenLink[l].there # link[l].there
                 \/ seenLink[l].gen # link[l].gen
              THEN queue \cup {l} ELSE queue
  /\ UNCHANGED <<api, seenNodeLinks, ctl, bounds>>

(* Watches(NodeLinks): only an update of an object being deleted counts; it  *)
(* enqueues the Links listed before and after.                               *)
DeliverNodeLinks(n) ==
  /\ seenNodeLinks[n] # nodeLinks[n]
  /\ seenNodeLinks' = [seenNodeLinks EXCEPT ![n] = nodeLinks[n]]
  /\ queue' = IF nodeLinks[n].deleting
              THEN queue \cup seenNodeLinks[n].matching \cup nodeLinks[n].matching
              ELSE queue
  /\ UNCHANGED <<api, seenLink, ctl, bounds>>

WrongEnqueueAll == UNCHANGED queue

(* Watches(Node): a node that comes, goes or changes its labels enqueues     *)
(* every Link; the change and its delivery are one step.                     *)
EnqueueAll == queue' = queue \cup {l \in Link : seenLink[l].there}

-----------------------------------------------------------------------------
(* The environment: users, nodes, the agents on them, the garbage collector. *)

Edit == edits < MaxEdits /\ edits' = edits + 1 /\ UNCHANGED faults

(* A name is used again only once its deletion has been delivered.           *)
CreateLink(l) ==
  /\ Edit
  /\ ~link[l].there /\ ~seenLink[l].there
  /\ \E sel \in Selector :
       link' = [link EXCEPT ![l] = [NoLink EXCEPT !.there = TRUE, !.gen = 1, !.sel = sel]]
  /\ UNCHANGED <<node, nodeLinks, informer, queue, ctl>>

UpdateLink(l) ==
  /\ Edit
  /\ link[l].there
  /\ \E sel \in Selector \ {link[l].sel} : 
       link' = [link EXCEPT ![l].sel = sel, ![l].gen = @ + 1]
  /\ UNCHANGED <<node, nodeLinks, informer, queue, ctl>>

DeleteLink(l) ==
  /\ Edit
  /\ link[l].there /\ ~link[l].deleting
  /\ LET changed == [link[l] EXCEPT !.gen = @ + 1]
     IN link' = [link EXCEPT ![l] = Deleted(changed, NoLink)]
  /\ UNCHANGED <<node, nodeLinks, informer, queue, ctl>>

NodeJoins(n) ==
  /\ Edit
  /\ ~node[n].up
  /\ \E label \in Label :
       node' = [node EXCEPT ![n] = [up |-> TRUE, uid |-> @.uid + 1, label |-> label]]
  /\ EnqueueAll
  /\ UNCHANGED <<link, nodeLinks, informer, ctl>>

NodeLeaves(n) ==
  /\ Edit
  /\ node[n].up
  /\ node' = [node EXCEPT ![n].up = FALSE]
  /\ EnqueueAll
  /\ UNCHANGED <<link, nodeLinks, informer, ctl>>

NodeRelabelled(n) ==
  /\ Edit
  /\ node[n].up
  /\ \E label \in Label \ {node[n].label} :
       node' = [node EXCEPT ![n].label = label]
  /\ EnqueueAll
  /\ UNCHANGED <<link, nodeLinks, informer, ctl>>

(* The garbage collector deletes a NodeLinks whose owner, the Node with the  *)
(* uid of its owner reference, does not exist.                               *)
Orphaned(n) == ~node[n].up \/ nodeLinks[n].owner # node[n].uid

CollectGarbage(n) ==
  /\ nodeLinks[n].there /\ ~nodeLinks[n].deleting /\ Orphaned(n)
  /\ nodeLinks' = [nodeLinks EXCEPT ![n] = Deleted(@, NoNodeLinks)]
  /\ UNCHANGED <<link, node, informer, queue, ctl, bounds>>

(* The agent runs while its node exists: it puts its finalizer on the object *)
(* and takes it off when its links are gone.                                 *)
AgentAddsFinalizer(n) ==
  /\ node[n].up
  /\ nodeLinks[n].there /\ ~nodeLinks[n].deleting /\ ~nodeLinks[n].fin
  /\ nodeLinks' = [nodeLinks EXCEPT ![n].fin = TRUE]
  /\ UNCHANGED <<link, node, informer, queue, ctl, bounds>>

AgentRemovesFinalizer(n) ==
  /\ node[n].up
  /\ nodeLinks[n].deleting /\ nodeLinks[n].fin
  /\ nodeLinks' = [nodeLinks EXCEPT ![n] = NoNodeLinks]
  /\ UNCHANGED <<link, node, informer, queue, ctl, bounds>>

(* Any other update of a NodeLinks being deleted, such as a status patch of  *)
(* its agent or a periodic resync, is delivered as an event.                 *)
NodeLinksEvent(n) ==
  /\ seenNodeLinks[n].deleting
  /\ queue' = queue \cup seenNodeLinks[n].matching
  /\ UNCHANGED <<api, informer, ctl, bounds>>

-----------------------------------------------------------------------------
Reconcile ==
  \/ \E l \in Link : ReconcileNothing(l) \/ ReconcileUpsert(l) \/ ReconcileDeletion(l)
  \/ ListNodes
  \/ \E n \in Node : RemoveSkip(n) \/ RemoveRead(n)
  \/ CheckNode \/ RemoveWrite \/ RemovalsDone
  \/ \E n \in Node : RegisterSkip(n) \/ RegisterRead(n)
  \/ RegisterCreate \/ RegisterPatch \/ RegistrationsDone
  \/ PatchMain \/ PatchStatus

Deliver ==
  \/ \E l \in Link : DeliverLink(l)
  \/ \E n \in Node : DeliverNodeLinks(n)

Agent ==
  \E n \in Node : AgentAddsFinalizer(n) \/ AgentRemovesFinalizer(n)

Environment ==
  \/ \E l \in Link : CreateLink(l) \/ UpdateLink(l) \/ DeleteLink(l)
  \/ \E n \in Node : NodeJoins(n) \/ NodeLeaves(n) \/ NodeRelabelled(n)
  \/ \E n \in Node : NodeLinksEvent(n)

Next ==
  \/ Reconcile \/ APICallFails \/ Restart
  \/ Deliver \/ Agent
  \/ \E n \in Node : CollectGarbage(n)
  \/ Environment

Spec == Init /\ [][Next]_vars

(* The worker keeps working, watches deliver, agents and the collector run.  *)
(* The work queue is first in, first out, so a Link that is queued is        *)
(* reconciled although others are queued again and again.                    *)
Fairness ==
  /\ WF_vars(Reconcile)
  /\ \A l \in Link :
       SF_vars(ReconcileNothing(l) \/ ReconcileUpsert(l) \/ ReconcileDeletion(l))
  /\ \A l \in Link : WF_vars(DeliverLink(l))
  /\ \A n \in Node : WF_vars(DeliverNodeLinks(n))
  /\ \A n \in Node : WF_vars(AgentAddsFinalizer(n) \/ AgentRemovesFinalizer(n))
  /\ \A n \in Node : WF_vars(CollectGarbage(n))

FairSpec == Spec /\ Fairness

-----------------------------------------------------------------------------
(* Properties *)

TypeOK ==
  /\ link \in [Link -> LinkObject] /\ seenLink \in [Link -> LinkObject]
  /\ node \in [Node -> NodeObject]
  /\ nodeLinks \in [Node -> NodeLinksObject]
  /\ seenNodeLinks \in [Node -> NodeLinksObject]
  /\ queue \subseteq Link
  /\ pc \in {"idle", "list", "remove", "checkNode", "removeWrite",
             "register", "registerWrite", "patch"}
  /\ cur \in Link \cup {None}
  /\ action \in {"none", "upsert", "delete"}
  /\ then \in {"none", "list", "register", "done", "error"}
  /\ clusterState \in LinkObject /\ mem \in LinkObject
  /\ DOMAIN nodes \subseteq Node /\ nodes \in [DOMAIN nodes -> Nat]
  /\ todo \subseteq Node /\ at \in Node \cup {None}
  /\ got \in NodeLinksObject
  /\ dropFin \in BOOLEAN /\ failed \in BOOLEAN
  /\ edits \in 0..MaxEdits /\ faults \in 0..MaxFaults

(* The status of a Link always names the nodes whose NodeLinks list it, so   *)
(* that the deletion of the Link finds every one of them: the matched nodes  *)
(* are stored before any registration and dropped after the removal.         *)
Tracked ==
  \A l \in Link, n \in Node :
    nodeLinks[n].there /\ ~nodeLinks[n].deleting /\ l \in nodeLinks[n].matching
      => link[l].there /\ link[l].fin /\ n \in link[l].matched

(* The controller takes the finalizer of an agent off a NodeLinks only when  *)
(* the node that the agent ran on, the owner of the NodeLinks, is gone.      *)
FinalizerOfLostNodeOnly ==
  [][\A n \in Node :
       RemoveWrite /\ nodeLinks[n].fin /\ ~nodeLinks'[n].fin => Orphaned(n)]_vars

(* A NodeLinks as NodeLinksLifecycle has it; the agent's links are not of    *)
(* this model.                                                               *)
Lifecycle(n) ==
  INSTANCE NodeLinksLifecycle
    WITH there <- nodeLinks[n].there, deleting <- nodeLinks[n].deleting,
         fin <- nodeLinks[n].fin, matching <- nodeLinks[n].matching,
         attempted <- {}, made <- {}, lost <- Orphaned(n)

(* Every write of the controller to a NodeLinks is one the agent is prepared *)
(* for: it leaves no live object without Links, it never writes to one that  *)
(* is gone, and it gives up the finalizer for no agent that still runs.      *)
FollowsLifecycle ==
  /\ \A n \in Node : Lifecycle(n)!Init
  /\ [][\A n \in Node :
          [IF AgentAddsFinalizer(n) \/ AgentRemovesFinalizer(n)
           THEN Lifecycle(n)!AgentStep ELSE Lifecycle(n)!ControllerStep]_(Lifecycle(n)!vars)]_vars

(* Nothing is left to do or to deliver.                                      *)
Settled ==
  /\ pc = "idle" /\ queue = {}
  /\ seenLink = link /\ seenNodeLinks = nodeLinks
  /\ ~ \E n \in Node :
         \/ ENABLED AgentAddsFinalizer(n) \/ ENABLED AgentRemovesFinalizer(n)
         \/ ENABLED CollectGarbage(n)

Wanted(l, n) ==
  link[l].there /\ ~link[l].deleting /\ n \in DOMAIN Matching(link[l].sel)

(* Once the controller has settled, no node is told to apply a Link that     *)
(* does not exist or does not match it.                                      *)
SettledWithoutLeftovers ==
  Settled =>
    \A l \in Link, n \in Node :
      nodeLinks[n].there /\ ~nodeLinks[n].deleting /\ l \in nodeLinks[n].matching
        => Wanted(l, n)

(* Once the controller has settled, a node is told of every Link that        *)
(* matches it.                                                               *)
SettledWithAllLinks ==
  Settled => \A l \in Link, n \in Node : Wanted(l, n) => l \in nodeLinks[n].matching

(* Once the controller has settled, no NodeLinks of a lost node waits for    *)
(* its agent: the controller has taken the finalizer off instead             *)
(* (link_controller.go:211-213).                                             *)
SettledWithoutStuckNodeLinks ==
  Settled => \A n \in Node : ~node[n].up => ~nodeLinks[n].there

(* A deleted Link goes away, whatever fails and whichever nodes are lost.    *)
DeletionCompletes == \A l \in Link : link[l].deleting ~> ~link[l].there
=============================================================================
