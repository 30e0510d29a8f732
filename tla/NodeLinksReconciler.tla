------------------------- MODULE NodeLinksReconciler -------------------------
(***************************************************************************)
(* The agent of one node (internal/controller/nodelinks_controller.go).    *)
(* It reads the node's NodeLinks object and the Link objects it lists, and *)
(* makes the node's netlink links what they say: links no longer listed    *)
(* are brought down and deleted, the names it is about to touch are stored *)
(* in the status, and the listed links are brought up, dependencies first. *)
(*                                                                         *)
(* One action is one API call, or one netlink operation on one link, with  *)
(* the local code up to the next one.  Users, the Link controller and      *)
(* other programs on the node move between any two of them.                *)
(***************************************************************************)
EXTENDS Naturals, SequencesExt

CONSTANTS
  Link,         \* names of Link objects
  Name,         \* names of netlink links
  Specs,        \* for every Link, the specs users may give it
  None,         \* "no such Link"
  Resyncs,      \* whether ResyncInterval is set
  StaleReads,   \* TRUE: Get answers from the informer cache, which lags
  MaxEdits,     \* bound on changes made by anybody else
  MaxFaults     \* bound on failed calls and on restarts of the agent

(* A reference of a Link to another one; a spec with its name on the node,   *)
(* whether the operator manages it, an MTU for its parameters, and the       *)
(* references to its master and to its device.                               *)
Reference == [to : Link, optional : BOOLEAN, setDown : BOOLEAN,
              role : {"master", "device"}]

LinkSpec == [name : Name, managed : BOOLEAN, mtu : Nat, refs : SUBSET Reference]

ASSUME NodeLinksReconcilerAssumption ==
  /\ IsFiniteSet(Link)
  /\ Specs \in [Link -> SUBSET LinkSpec]
  /\ None \notin LinkSpec
  /\ \A l \in Link : \A s \in Specs[l] : ~s.managed => s.refs = {}
  /\ Resyncs \in BOOLEAN /\ StaleReads \in BOOLEAN
  /\ MaxEdits \in Nat /\ MaxFaults \in Nat

VARIABLES
  \* the API server
  spec,            \* the Link objects, as the manager's cache shows them
  nodeLinks,       \* the NodeLinks object of the node
  \* the node
  kernel,          \* its netlink links
  made,            \* history: the links the agent created and answers for
  mine,            \* history: the links the agent brought up or down last,
                   \* and that nobody else has changed since
  \* the manager's informer, the link event watcher and the work queue
  seen,            \* the NodeLinks object as last delivered
  watched,         \* names whose netlink events request a reconciliation
  queue,           \* whether a reconciliation is requested
  \* the reconciliation in progress
  pc,              \* the next call
  action,          \* "upsert" or "delete"
  clusterState,    \* clusterStateNodeLinks: the base of the next patch
  mem,             \* nodeLinks: the copy that is being changed
  res,             \* linkResources: the specs of the listed Links
  todo,            \* what the current loop has not handled yet
  victims,         \* linkNamesToRemove
  available,       \* names with condition DependencyLinksAvailable
  at,              \* the Link being upserted
  search,          \* queue of the search for its dependents
  visited,         \* Links the search has reached
  failed,          \* whether an iteration of the loop returned an error
  then,            \* where patchResource returns to
  \* bounds of the model
  edits, faults

api     == <<spec, nodeLinks>>
host    == <<kernel, made, mine>>
manager == <<seen, watched>>
upsert  == <<at, search, visited>>
plan    == <<action, clusterState, res, victims>>
ctl     == <<pc, plan, mem, todo, available, upsert, failed, then>>
bounds  == <<edits, faults>>
vars    == <<api, host, manager, queue, ctl, bounds>>

-----------------------------------------------------------------------------
(* Objects.                                                                  *)

NoNodeLinks ==
  [there |-> FALSE, deleting |-> FALSE, fin |-> FALSE, gen |-> 0,
   matching |-> {}, attempted |-> {}, readyLinks |-> {}, ready |-> "Unset"]

NodeLinksObject ==
  [there : BOOLEAN, deleting : BOOLEAN, fin : BOOLEAN, gen : Nat,
   matching : SUBSET Link, attempted : SUBSET Name, readyLinks : SUBSET Name,
   ready : {"Unset", "Unknown", "True", "False"}]

Live == nodeLinks.there /\ ~nodeLinks.deleting

ReadNodeLinks == IF StaleReads THEN seen ELSE nodeLinks

(* A netlink link: whether it is up, its MTU, the links it is attached to.   *)
NetlinkLink == [state : {"absent", "down", "up"}, mtu : Nat, att : SUBSET Name]

Absent == [state |-> "absent", mtu |-> 0, att |-> {}]

Present(x) == kernel[x].state # "absent"

(* Deleting a link detaches the links attached to it.                        *)
Without(x) ==
  [y \in Name |-> IF y = x THEN Absent ELSE [kernel[y] EXCEPT !.att = @ \ {x}]]

-----------------------------------------------------------------------------
(* The listed Links and what they ask for.                                   *)

Listed == DOMAIN res

Names == {res[l].name : l \in Listed}

ManagedNames == {res[l].name : l \in {k \in Listed : res[k].managed}}

(* GetDependencies, restricted to the Links that are listed.                 *)
Dependencies(l) == {r \in res[l].refs : r.to \in Listed}

(* validateLinks: no name managed twice, no Link that refers to itself.      *)
Valid ==
  /\ \A l, k \in Listed :
       l # k /\ res[l].managed /\ res[k].managed => res[l].name # res[k].name
  /\ \A l \in Listed : \A r \in res[l].refs : r.to # l

(* buildDesiredLinkGraph: no edge twice, no cycle (a set of Links each of    *)
(* which depends on one in the set).                                         *)
GraphBuilds ==
  /\ \A l \in Listed : \A r, q \in Dependencies(l) : r.to = q.to => r = q
  /\ ~ \E S \in (SUBSET Listed) \ {{}} :
         \A l \in S : \E r \in Dependencies(l) : r.to \in S

(* Deliberately wrong variants of a definition, named Wrong..., stand before *)
(* it; each breaks the property it is listed with in PROJECT.json.           *)

WrongIsNext(l) == l \in todo           \* any order

(* getTopolgicallySortedLinkNames: l is next when all it depends on is done. *)
IsNext(l) == l \in todo /\ \A r \in Dependencies(l) : r.to \notin todo

Missing(l) == \E r \in res[l].refs : ~r.optional /\ r.to \notin Listed

(* The names the link is to be attached to; an optional reference to a Link  *)
(* that is not listed is left out.                                           *)
Attachments(l) == {res[r.to].name : r \in Dependencies(l)}

(* What a successful Upsert makes of the link, and IsUpsertNeeded: a         *)
(* reference to a Link that is not listed and is not optional always needs   *)
(* an update.                                                                *)
Desired(l) == [state |-> "up", mtu |-> res[l].mtu, att |-> Attachments(l)]

WrongUpsertNeeded(l) ==                \* only creates
  res[l].managed /\ ~Present(res[l].name)

UpsertNeeded(l) ==
  res[l].managed /\ (Missing(l) \/ kernel[res[l].name] # Desired(l))

(* The edges of the graph, by the Link each leads to, and those from l to    *)
(* its dependents.                                                           *)
Edge == [link : Listed, setDown : BOOLEAN]

Dependents(l) ==
  {e \in Edge : \E r \in res[e.link].refs : r.to = l /\ r.setDown = e.setDown}

-----------------------------------------------------------------------------
(* The agent starts on a node that the Link controller may have registered   *)
(* Links with, and that has links of its own.                                *)
Init ==
  /\ spec \in [Link -> (UNION {Specs[l] : l \in Link}) \cup {None}]
  /\ \A l \in Link : spec[l] \in Specs[l] \cup {None}
  /\ \/ nodeLinks = NoNodeLinks
     \/ \E S \in (SUBSET {l \in Link : spec[l] # None}) \ {{}} :
          nodeLinks = [NoNodeLinks EXCEPT !.there = TRUE, !.gen = 1, !.matching = S]
  /\ seen = nodeLinks
  /\ kernel \in [Name -> {Absent, [Absent EXCEPT !.state = "up"]}]
  /\ made = {} /\ mine = {}
  /\ watched = {} /\ queue = nodeLinks.there
  /\ pc = "idle" /\ action = "none" /\ then = "none"
  /\ clusterState = NoNodeLinks /\ mem = NoNodeLinks
  /\ res = [l \in {} |-> None]
  /\ todo = {} /\ victims = {} /\ available = {}
  /\ at = None /\ search = <<>> /\ visited = {}
  /\ failed = FALSE
  /\ edits = 0 /\ faults = 0

(* The end of a reconciliation: its locals are gone.                         *)
Finish ==
  /\ pc' = "idle" /\ action' = "none" /\ then' = "none"
  /\ clusterState' = NoNodeLinks /\ mem' = NoNodeLinks
  /\ res' = [l \in {} |-> None]
  /\ todo' = {} /\ victims' = {} /\ available' = {}
  /\ at' = None /\ search' = <<>> /\ visited' = {}
  /\ failed' = FALSE

(* A call of patchResource, which returns to `next'.                         *)
CallPatch(object, next) ==
  /\ pc' = "patch" /\ then' = next /\ mem' = object
  /\ todo' = {} /\ failed' = FALSE

(* handleError: the error is recorded in the status and returned.            *)
HandleErrorOf(object) ==
  /\ CallPatch([object EXCEPT !.ready = "False"], "error")
  /\ UNCHANGED <<plan, available>>
  /\ at' = None /\ search' = <<>> /\ visited' = {}

HandleError == HandleErrorOf(mem)

(* A watched link differs, so that its netlink event requests another        *)
(* reconciliation.                                                           *)
WatchedChange(newKernel) == \E x \in watched : newKernel[x] # kernel[x]

(* A netlink operation of the agent on link x.                               *)
Touch(x, newKernel) ==
  /\ kernel' = newKernel
  /\ mine' = IF newKernel[x].state = kernel[x].state THEN mine ELSE mine \cup {x}
  /\ queue' = (queue \/ WatchedChange(newKernel))

(* bringDownLink: nothing to do for a link that is not there.                *)
BringDown(x) ==
  /\ Touch(x, IF Present(x) THEN [kernel EXCEPT ![x].state = "down"] ELSE kernel)
  /\ UNCHANGED made

-----------------------------------------------------------------------------
(* Reconcile: get the NodeLinks and dispatch on its deletion timestamp.      *)

ReconcileNothing ==
  /\ pc = "idle" /\ queue
  /\ ~ReadNodeLinks.there \/ (ReadNodeLinks.deleting /\ ~ReadNodeLinks.fin)
  /\ queue' = FALSE
  /\ UNCHANGED <<api, host, manager, ctl, bounds>>

(* handleUpsert: add the finalizer, at once when it is already there.        *)
ReconcileUpsert ==
  /\ pc = "idle" /\ queue
  /\ ReadNodeLinks.there /\ ~ReadNodeLinks.deleting
  /\ queue' = FALSE
  /\ action' = "upsert" /\ clusterState' = ReadNodeLinks
  /\ mem' = [ReadNodeLinks EXCEPT !.fin = TRUE]
  /\ \/ /\ ReadNodeLinks.fin
        /\ pc' = "links" /\ todo' = ReadNodeLinks.matching /\ UNCHANGED then
     \/ /\ ~ReadNodeLinks.fin
        /\ pc' = "patch" /\ then' = "links" /\ UNCHANGED todo
  /\ UNCHANGED <<api, host, manager, res, victims, available, upsert, failed, bounds>>

(* handleDeletion: deleteLinks of every link ever attempted.                 *)
ReconcileDeletion ==
  /\ pc = "idle" /\ queue
  /\ ReadNodeLinks.there /\ ReadNodeLinks.deleting /\ ReadNodeLinks.fin
  /\ queue' = FALSE
  /\ action' = "delete"
  /\ clusterState' = ReadNodeLinks /\ mem' = ReadNodeLinks
  /\ pc' = "down"
  /\ todo' = ReadNodeLinks.attempted /\ victims' = ReadNodeLinks.attempted
  /\ UNCHANGED <<api, host, manager, res, available, upsert, failed, then, bounds>>

(* getLinkResources: one Link after the other; one that is missing ends it.  *)
GetLink(l) ==
  /\ pc = "links" /\ l \in todo
  /\ \/ /\ spec[l] # None
        /\ res' = [k \in Listed \cup {l} |-> IF k = l THEN spec[l] ELSE res[k]]
        /\ todo' = todo \ {l}
        /\ UNCHANGED <<pc, action, clusterState, victims, mem, available, upsert,
                       failed, then>>
     \/ /\ spec[l] = None
        /\ HandleError
  /\ UNCHANGED <<api, host, manager, queue, bounds>>

(* The watched names are set before anything is validated or compared; no    *)
(* validated link is ready, whether the Links can be applied or not.         *)
ValidateLinks ==
  /\ pc = "links" /\ todo = {}
  /\ watched' = Names
  /\ LET validated == [mem EXCEPT !.readyLinks = @ \ Names]
     IN \/ /\ Valid /\ GraphBuilds
           /\ pc' = "check" /\ todo' = Listed /\ mem' = validated
           /\ UNCHANGED <<plan, available, upsert, failed, then>>
        \/ /\ ~(Valid /\ GraphBuilds)
           /\ HandleErrorOf(validated)
  /\ UNCHANGED <<api, host, seen, queue, bounds>>

WrongKey(l) ==             \* keeps the condition under the name of the Link
  /\ pc = "check" /\ IsNext(l)
  /\ todo' = todo \ {l} /\ available' = available \cup {l}
  /\ UNCHANGED <<api, host, queue, manager, pc, plan, mem, upsert, failed, then, bounds>>

WrongCheck(l) ==           \* leaves a link that lacks a dependency as it is
  /\ pc = "check" /\ IsNext(l)
  /\ todo' = todo \ {l}
  /\ available' = IF Missing(l) THEN available ELSE available \cup {res[l].name}
  /\ UNCHANGED <<api, host, queue, manager, pc, plan, mem, upsert, failed, then, bounds>>

(* updateDependentsMissingDependencies: one Link, in topological order.      *)
CheckDependencies(l) ==
  /\ pc = "check" /\ IsNext(l)
  /\ todo' = todo \ {l}
  /\ \/ /\ ~Missing(l)
        /\ available' = available \cup {res[l].name}
        /\ UNCHANGED <<host, queue>>
     \/ /\ Missing(l)
        /\ BringDown(res[l].name)
        /\ available' = available \ {res[l].name}
  /\ UNCHANGED <<api, manager, pc, plan, mem, upsert, failed, then, bounds>>

(* deleteUndesiredLinks: the victims are the links attempted before that no  *)
(* listed Link names, managed or not.                                        *)
ChecksDone ==
  /\ pc = "check" /\ todo = {}
  /\ \/ failed /\ HandleError
     \/ /\ ~failed
        /\ pc' = "down"
        /\ victims' = mem.attempted \ Names /\ todo' = mem.attempted \ Names
        /\ UNCHANGED <<action, clusterState, res, mem, available, upsert, failed, then>>
  /\ UNCHANGED <<api, host, manager, queue, bounds>>

(* deleteLinks: first every victim is brought down, then each is deleted.    *)
SetDown(x) ==
  /\ pc = "down" /\ x \in todo
  /\ BringDown(x)
  /\ todo' = todo \ {x}
  /\ mem' = [mem EXCEPT !.readyLinks = @ \ {x}]
  /\ UNCHANGED <<api, manager, pc, plan, available, upsert, failed, then, bounds>>

WrongSetDownsDone ==       \* goes on although a link could not be brought down
  /\ pc = "down" /\ todo = {}
  /\ pc' = "delete" /\ todo' = victims
  /\ UNCHANGED <<plan, mem, available, upsert, failed, then>>
  /\ UNCHANGED <<api, host, manager, queue, bounds>>

SetDownsDone ==
  /\ pc = "down" /\ todo = {}
  /\ \/ failed /\ HandleError
     \/ /\ ~failed
        /\ pc' = "delete" /\ todo' = victims
        /\ UNCHANGED <<plan, mem, available, upsert, failed, then>>
  /\ UNCHANGED <<api, host, manager, queue, bounds>>

Delete(x) ==
  /\ pc = "delete" /\ x \in todo
  /\ Touch(x, Without(x)) /\ made' = made \ {x}
  /\ todo' = todo \ {x}
  /\ mem' = [mem EXCEPT !.readyLinks = @ \ {x}]
  /\ UNCHANGED <<api, manager, pc, plan, available, upsert, failed, then, bounds>>

WrongDeletesDone ==        \* upserts before the attempted names are stored
  /\ pc = "delete" /\ todo = {}
  /\ \/ failed /\ HandleError
     \/ /\ ~failed /\ action = "upsert"
        /\ pc' = "upsert" /\ todo' = Listed
        /\ mem' = [mem EXCEPT !.attempted = ManagedNames]
        /\ UNCHANGED <<plan, available, upsert, failed, then>>
     \/ /\ ~failed /\ action = "delete"
        /\ CallPatch([mem EXCEPT !.fin = FALSE], "finalized")
        /\ UNCHANGED <<plan, available, upsert>>
  /\ UNCHANGED <<api, host, manager, queue, bounds>>

WrongTracking ==           \* tracks unmanaged links too
  /\ pc = "delete" /\ todo = {}
  /\ \/ failed /\ HandleError
     \/ ~failed /\ CallPatch([mem EXCEPT !.attempted = Names, !.fin = action = "upsert"],
                             IF action = "upsert" THEN "upsert" ELSE "finalized")
        /\ UNCHANGED <<plan, available, upsert>>
  /\ UNCHANGED <<api, host, manager, queue, bounds>>

(* updateLastAttemptedLinks stores the managed names before any upsert;      *)
(* handleDeletion gives the finalizer up.                                    *)
DeletesDone ==
  /\ pc = "delete" /\ todo = {}
  /\ \/ failed /\ HandleError /\ UNCHANGED watched
     \/ /\ ~failed /\ action = "upsert"
        /\ CallPatch([mem EXCEPT !.attempted = ManagedNames, !.ready = "Unknown"],
                     "upsert")
        /\ UNCHANGED <<watched, plan, available, upsert>>
     \/ /\ ~failed /\ action = "delete"
        /\ CallPatch([mem EXCEPT !.fin = FALSE], "finalized")
        /\ watched' = {}
        /\ UNCHANGED <<plan, available, upsert>>
  /\ UNCHANGED <<api, host, seen, queue, bounds>>

-----------------------------------------------------------------------------
(* upsertLinks: one Link, in topological order; an error does not stop it.   *)

Upserted(l) ==
  /\ pc' = "upsert" /\ todo' = todo \ {l}
  /\ at' = None /\ search' = <<>> /\ visited' = {}

UpsertFails(l) ==
  /\ Upserted(l) /\ failed' = TRUE
  /\ mem' = [mem EXCEPT !.readyLinks = @ \ {res[l].name}]

(* The dependencies of the link are missing, or nothing is to be done.  That *)
(* a dependency is missing is told by a condition kept under the name of the *)
(* link, or by an error of IsUpsertNeeded.                                   *)
UpsertSkip(l) ==
  /\ pc = "upsert" /\ IsNext(l)
  /\ \/ /\ res[l].name \notin available \/ Missing(l)
        /\ UpsertFails(l)
     \/ /\ res[l].name \in available /\ ~UpsertNeeded(l)
        /\ Upserted(l) /\ UNCHANGED failed
        /\ mem' = [mem EXCEPT !.readyLinks = @ \cup {res[l].name}]
  /\ UNCHANGED <<api, host, manager, queue, plan, available, then, bounds>>

(* bringDownDependents: the breadth-first search reaches a Link once, by the *)
(* first edge that leads to it.                                              *)
Reach(l, queued) ==
  \E order \in SetToSeqs({e \in Dependents(l) : e.link \notin visited \cup {l}}) :
    /\ search' = queued \o order
    /\ visited' = visited \cup {l} \cup {order[i].link : i \in DOMAIN order}

UpsertStart(l) ==
  /\ pc = "upsert" /\ IsNext(l)
  /\ res[l].name \in available /\ UpsertNeeded(l)
  /\ pc' = "dependents" /\ at' = l
  /\ Reach(l, <<>>)
  /\ UNCHANGED <<api, host, manager, queue, plan, mem, todo, available, failed,
                 then, bounds>>

VisitDependent ==
  /\ pc = "dependents" /\ search # <<>>
  /\ \/ /\ Head(search).setDown
        /\ BringDown(res[Head(search).link].name)
     \/ /\ ~Head(search).setDown
        /\ UNCHANGED <<host, queue>>
  /\ Reach(Head(search).link, Tail(search))
  /\ UNCHANGED <<api, manager, pc, plan, mem, todo, available, at, failed, then, bounds>>

WrongCanUpsert(l) ==       \* a dependency that is not listed is ignored
  \A x \in Attachments(l) : x # res[l].name /\ Present(x)

(* Upsert succeeds when every link to attach to is another one that exists;  *)
(* it creates the link when it does not exist.                               *)
CanUpsert(l) ==
  /\ ~Missing(l)
  /\ \A x \in Attachments(l) : x # res[l].name /\ Present(x)

Upsert ==
  /\ pc = "dependents" /\ search = <<>> /\ CanUpsert(at)
  /\ Touch(res[at].name, [kernel EXCEPT ![res[at].name] = Desired(at)])
  /\ made' = IF Present(res[at].name) THEN made ELSE made \cup {res[at].name}
  /\ Upserted(at)
  /\ mem' = [mem EXCEPT !.readyLinks = @ \cup {res[at].name}]
  /\ UNCHANGED <<api, manager, plan, available, failed, then, bounds>>

(* An upsert that fails half way: the link may have been deleted to be       *)
(* created anew, may have been created, down, may have its MTU, and then may  *)
(* have been attached to some of the links that are there.                   *)
Attachable == {y \in Attachments(at) \ {res[at].name} : Present(y)}

HalfKept ==
  LET x == res[at].name
  IN {[kernel EXCEPT ![x].mtu = res[at].mtu, ![x].att = A] :
        A \in IF Present(x) THEN SUBSET (kernel[x].att \cup Attachable) ELSE {}}

HalfCreated ==
  LET x == res[at].name
      New(mtu, A) == [Without(x) EXCEPT ![x] = [state |-> "down", mtu |-> mtu, att |-> A]]
  IN {New(Absent.mtu, {})} \cup {New(res[at].mtu, A) : A \in SUBSET Attachable}

HalfUpserted == {Without(res[at].name)} \cup HalfKept \cup HalfCreated

UpsertError ==
  /\ \E half \in HalfUpserted \cup {kernel} :
       /\ Touch(res[at].name, half)
       /\ made' = IF half[res[at].name].state = "absent" THEN made \ {res[at].name}
                  ELSE IF Present(res[at].name) THEN made
                  ELSE made \cup {res[at].name}
  /\ UpsertFails(at)
  /\ UNCHANGED <<plan, available, then>>

UpsertImpossible ==
  /\ pc = "dependents" /\ search = <<>> /\ ~CanUpsert(at)
  /\ UpsertError
  /\ UNCHANGED <<api, manager, bounds>>

UpsertsDone ==
  /\ pc = "upsert" /\ todo = {}
  /\ \/ failed /\ HandleError
     \/ /\ ~failed
        /\ CallPatch([mem EXCEPT !.ready = "True"], "done")
        /\ UNCHANGED <<plan, available, upsert>>
  /\ UNCHANGED <<api, host, manager, queue, bounds>>

-----------------------------------------------------------------------------
(* patchResource: the main resource when it changed, then the status when it *)
(* changed.  Each response replaces the copy and the base of the next patch. *)

PatchReturns ==
  \/ /\ then = "links" /\ pc' = "links" /\ then' = "none"
     /\ todo' = mem'.matching
     /\ UNCHANGED <<action, res, victims, available, upsert, failed, queue>>
  \/ /\ then = "upsert" /\ pc' = "upsert" /\ then' = "none"
     /\ todo' = Listed
     /\ UNCHANGED <<action, res, victims, available, upsert, failed, queue>>

WrongRequeue == Finish /\ UNCHANGED queue

Requeue == Finish /\ queue' = TRUE

PatchEnds ==
  \/ then \in {"done", "finalized"} /\ Finish /\ UNCHANGED queue
  \/ then = "error" /\ Requeue

(* An error of the last patch of an upsert or of handleError is only         *)
(* returned; any other goes to handleError, which patches again.             *)
PatchFails ==
  \/ then \in {"links", "upsert", "finalized"} /\ HandleError /\ UNCHANGED queue
  \/ then \in {"done", "error"} /\ Requeue

PatchMain ==
  /\ pc = "patch" /\ mem.fin # clusterState.fin
  /\ \/ /\ nodeLinks.there
        /\ LET response == [nodeLinks EXCEPT !.fin = mem.fin]
           IN /\ nodeLinks' = IF response.deleting /\ ~response.fin
                              THEN NoNodeLinks ELSE response
              /\ clusterState' = response
              /\ mem' = [response EXCEPT !.attempted = mem.attempted,
                                         !.readyLinks = mem.readyLinks,
                                         !.ready = mem.ready]
        /\ UNCHANGED <<queue, pc, action, res, victims, todo, available, upsert,
                       failed, then>>
     \/ /\ ~nodeLinks.there
        /\ PatchFails
        /\ UNCHANGED nodeLinks
  /\ UNCHANGED <<spec, host, manager, bounds>>

(* The merge patch holds the status fields that differ from the base.        *)
PatchedStatus ==
  [nodeLinks EXCEPT
     !.attempted  = IF mem.attempted = clusterState.attempted THEN @ ELSE mem.attempted,
     !.readyLinks = IF mem.readyLinks = clusterState.readyLinks THEN @ ELSE mem.readyLinks,
     !.ready      = IF mem.ready = clusterState.ready THEN @ ELSE mem.ready]

SameStatus ==
  /\ mem.attempted = clusterState.attempted
  /\ mem.readyLinks = clusterState.readyLinks
  /\ mem.ready = clusterState.ready

(* A link that is no longer tracked but still named by a Link is one that    *)
(* became unmanaged: the agent no longer answers for it.                     *)
PatchStatus ==
  /\ pc = "patch" /\ mem.fin = clusterState.fin
  /\ \/ /\ ~SameStatus /\ nodeLinks.there
        /\ nodeLinks' = PatchedStatus
        /\ made' = made \ (Names \ PatchedStatus.attempted)
        /\ \/ mem' = PatchedStatus /\ clusterState' = PatchedStatus /\ PatchReturns
           \/ PatchEnds
     \/ /\ SameStatus \/ (~nodeLinks.there /\ mem.deleting)
        /\ \/ UNCHANGED <<mem, clusterState>> /\ PatchReturns
           \/ PatchEnds
        /\ UNCHANGED <<nodeLinks, made>>
     \/ /\ ~SameStatus /\ ~nodeLinks.there /\ ~mem.deleting
        /\ PatchFails
        /\ UNCHANGED <<nodeLinks, made>>
  /\ UNCHANGED <<spec, kernel, mine, manager, bounds>>

-----------------------------------------------------------------------------
(* Failures: a call that returns an error, and the loss of the process.      *)

Fault == faults < MaxFaults /\ faults' = faults + 1 /\ UNCHANGED edits

(* An error in one iteration of a loop does not stop the loop: a link cannot *)
(* be brought down or deleted, or what it is like cannot be found out.       *)
IterationFails ==
  /\ \/ /\ pc = "check"
        /\ \E l \in Listed : IsNext(l) /\ Missing(l) /\ todo' = todo \ {l}
        /\ failed' = TRUE
        /\ UNCHANGED <<pc, mem, upsert>>
     \/ /\ pc \in {"down", "delete"}
        /\ \E x \in todo : /\ todo' = todo \ {x}
                           /\ mem' = [mem EXCEPT !.readyLinks = @ \ {x}]
        /\ failed' = TRUE
        /\ UNCHANGED <<pc, upsert>>
     \/ /\ pc = "upsert"
        /\ \E l \in Listed : IsNext(l) /\ res[l].managed /\ UpsertFails(l)
  /\ UNCHANGED <<queue, plan, available, then>>

(* A call fails without an effect, or an upsert fails half way.              *)
CallFails ==
  /\ Fault
  /\ \/ /\ \/ pc = "links" /\ HandleError /\ UNCHANGED queue
           \/ pc = "patch" /\ ~(SameStatus /\ mem.fin = clusterState.fin) /\ PatchFails
           \/ IterationFails
           \/ /\ pc = "dependents" /\ search # <<>>
              /\ UpsertFails(at) /\ UNCHANGED <<queue, plan, available, then>>
        /\ UNCHANGED host
     \/ pc = "dependents" /\ search = <<>> /\ UpsertError
  /\ UNCHANGED <<api, manager>>

(* The agent starts again: its informer lists the object, its watcher knows  *)
(* no names.                                                                 *)
Restart ==
  /\ Fault
  /\ Finish
  /\ queue' = nodeLinks.there
  /\ seen' = nodeLinks /\ watched' = {}
  /\ UNCHANGED <<api, host>>

-----------------------------------------------------------------------------
(* SetupWithManager: what requests a reconciliation.                         *)

(* For(NodeLinks, GenerationChangedPredicate).                               *)
Deliver ==
  /\ seen # nodeLinks
  /\ seen' = nodeLinks
  /\ queue' = (queue \/ seen.there # nodeLinks.there \/ seen.gen # nodeLinks.gen)
  /\ UNCHANGED <<api, host, watched, ctl, bounds>>

(* RequeueAfter ResyncInterval.                                              *)
Resync ==
  /\ Resyncs /\ pc = "idle" /\ nodeLinks.ready = "True" /\ ~queue
  /\ queue' = TRUE
  /\ UNCHANGED <<api, host, manager, ctl, bounds>>

-----------------------------------------------------------------------------
(* The environment: users, the Link controller, and the rest of the node.    *)

Edit == edits < MaxEdits /\ edits' = edits + 1 /\ UNCHANGED faults

(* A user creates or changes a Link; its watch enqueues the node once the    *)
(* Link is registered there.                                                 *)
SetSpec(l) ==
  /\ Edit
  /\ \E s \in Specs[l] \ {spec[l]} : spec' = [spec EXCEPT ![l] = s]
  /\ queue' = (queue \/ (spec[l] # None /\ nodeLinks.there /\ l \in nodeLinks.matching))
  /\ UNCHANGED <<nodeLinks, host, manager, ctl>>

(* A Link is gone only after the Link controller has unregistered it.        *)
RemoveLink(l) ==
  /\ Edit
  /\ spec[l] # None /\ ~(Live /\ l \in nodeLinks.matching)
  /\ spec' = [spec EXCEPT ![l] = None]
  /\ UNCHANGED <<nodeLinks, host, manager, queue, ctl>>

(* The Link controller registers a Link, creating the object if need be; it  *)
(* may have read the object before it was deleted.                           *)
Register(l) ==
  /\ Edit
  /\ spec[l] # None /\ l \notin nodeLinks.matching
  /\ nodeLinks.there \/ ~seen.there
  /\ nodeLinks' = [nodeLinks EXCEPT !.there = TRUE, !.matching = @ \cup {l},
                                    !.gen = @ + 1]
  /\ UNCHANGED <<spec, host, manager, queue, ctl>>

Deleted ==
  IF nodeLinks.fin THEN [nodeLinks EXCEPT !.deleting = TRUE, !.gen = @ + 1]
                   ELSE NoNodeLinks

(* It unregisters a Link; the last one takes the object with it, once the    *)
(* agent's finalizer is gone.                                                *)
Unregister(l) ==
  /\ Edit
  /\ nodeLinks.there /\ l \in nodeLinks.matching
  /\ nodeLinks' = IF Live /\ nodeLinks.matching = {l} THEN Deleted
                  ELSE [nodeLinks EXCEPT !.matching = @ \ {l}, !.gen = @ + 1]
  /\ UNCHANGED <<spec, host, manager, queue, ctl>>

(* The Node object was created anew, and the garbage collector deletes the   *)
(* NodeLinks of the old one.                                                 *)
CollectGarbage ==
  /\ Edit
  /\ Live /\ nodeLinks' = Deleted
  /\ UNCHANGED <<spec, host, manager, queue, ctl>>

(* Somebody else changes a link of the node: takes it down, sets its MTU,    *)
(* detaches it, deletes it or creates it.                                    *)
Others(x) ==
  /\ Edit
  /\ \/ /\ Present(x)
        /\ \/ kernel' = [kernel EXCEPT ![x].state = "down"]
           \/ kernel' = [kernel EXCEPT ![x].mtu = 0]
           \/ kernel' = [kernel EXCEPT ![x].att = {}]
           \/ kernel' = Without(x)
     \/ /\ ~Present(x)
        /\ kernel' = [kernel EXCEPT ![x] = [Absent EXCEPT !.state = "up"]]
  /\ kernel' # kernel
  /\ made' = {y \in made : kernel'[y].state # "absent"}
  /\ mine' = {y \in mine : kernel'[y] = kernel[y]}
  /\ queue' = (queue \/ WatchedChange(kernel'))
  /\ UNCHANGED <<api, manager, ctl>>

-----------------------------------------------------------------------------
Reconcile ==
  \/ ReconcileNothing \/ ReconcileUpsert \/ ReconcileDeletion
  \/ \E l \in Link : GetLink(l) \/ CheckDependencies(l)
  \/ ValidateLinks \/ ChecksDone
  \/ \E x \in Name : SetDown(x) \/ Delete(x)
  \/ SetDownsDone \/ DeletesDone
  \/ \E l \in Link : UpsertSkip(l) \/ UpsertStart(l)
  \/ VisitDependent \/ Upsert \/ UpsertImpossible \/ UpsertsDone
  \/ PatchMain \/ PatchStatus

Environment ==
  \/ \E l \in Link : SetSpec(l) \/ RemoveLink(l) \/ Register(l) \/ Unregister(l)
  \/ CollectGarbage
  \/ \E x \in Name : Others(x)

Next == Reconcile \/ CallFails \/ Restart \/ Deliver \/ Resync \/ Environment

Spec == Init /\ [][Next]_vars

(* The worker keeps working and the watch delivers.                          *)
FairSpec == Spec /\ WF_vars(Reconcile) /\ WF_vars(Deliver)

-----------------------------------------------------------------------------
(* Properties *)

TypeOK ==
  /\ spec \in [Link -> LinkSpec \cup {None}]
  /\ nodeLinks \in NodeLinksObject /\ seen \in NodeLinksObject
  /\ kernel \in [Name -> NetlinkLink]
  /\ made \subseteq Name /\ mine \subseteq Name /\ watched \subseteq Name
  /\ queue \in BOOLEAN
  /\ pc \in {"idle", "patch", "links", "check", "down", "delete", "upsert",
             "dependents"}
  /\ action \in {"none", "upsert", "delete"}
  /\ then \in {"none", "links", "upsert", "done", "finalized", "error"}
  /\ clusterState \in NodeLinksObject /\ mem \in NodeLinksObject
  /\ Listed \subseteq Link /\ res \in [Listed -> LinkSpec]
  /\ todo \subseteq Link \cup Name /\ victims \subseteq Name
  /\ available \subseteq Name
  /\ at \in Link \cup {None} /\ visited \subseteq Link
  /\ search \in Seq(Edge)
  /\ failed \in BOOLEAN
  /\ edits \in 0..MaxEdits /\ faults \in 0..MaxFaults

(* A link the agent has created is named in the stored status for as long as *)
(* it exists, across every failure and restart: its clean-up relies on it.   *)
NoOrphan ==
  \A x \in made : nodeLinks.there /\ nodeLinks.fin /\ x \in nodeLinks.attempted

(* Once the agent has nothing left to do or to be told, no link it created is *)
(* left without a record: its clean-up goes by the recorded names alone, so  *)
(* that a link whose name is lost by then is never deleted.                  *)
SettledWithoutOrphan ==
  pc = "idle" /\ ~queue /\ seen = nodeLinks => NoOrphan

(* Why NoOrphan holds when reads are fresh, as an inductive invariant.  The   *)
(* attempted names are written by the agent alone, so those it has read stay *)
(* those that are stored until it patches them; it does that only after it   *)
(* has deleted every link of its own that no Link names, and it creates a    *)
(* link only once its name is stored.                                        *)
WriteAhead ==
  /\ NoOrphan
  /\ ~nodeLinks.fin => nodeLinks.attempted = {}
  /\ pc # "idle" =>
       /\ action \in {"upsert", "delete"}
       /\ action = "upsert" => mem.fin
       /\ pc # "patch" => mem.fin /\ clusterState.fin
       /\ clusterState.fin =>
            /\ nodeLinks.there /\ nodeLinks.fin
            /\ nodeLinks.attempted = clusterState.attempted
            /\ action = "delete" => nodeLinks.deleting
       /\ ~clusterState.fin /\ mem.fin =>
            /\ action = "upsert" /\ then \in {"links", "error"}
            /\ ~nodeLinks.fin /\ clusterState.attempted = {}
       /\ ~mem.fin => made = {}
       /\ mem.attempted # clusterState.attempted =>
            /\ pc = "patch" /\ then \in {"upsert", "error"}
            /\ action = "upsert" /\ clusterState.fin
            /\ made \subseteq Names
  /\ pc = "patch" => then # "none"
  /\ pc = "patch" /\ then = "links" => action = "upsert"
  /\ pc = "patch" /\ then = "upsert" => action = "upsert" /\ mem.attempted = ManagedNames
  /\ pc \in {"links", "check"} => action = "upsert"
  /\ pc \in {"down", "delete"} =>
       victims = IF action = "upsert" THEN mem.attempted \ Names ELSE mem.attempted
  /\ pc = "delete" /\ ~failed => victims \cap made \subseteq todo
  /\ pc \in {"upsert", "dependents"} =>
       action = "upsert" /\ todo \subseteq Listed /\ ManagedNames \subseteq nodeLinks.attempted
  /\ pc = "dependents" => at \in Listed /\ res[at].managed

(* What the agent does to its NodeLinks and to the links it answers for is   *)
(* what the Link controller and the clean-up rely on.                        *)
Lifecycle ==
  INSTANCE NodeLinksLifecycle
    WITH there <- nodeLinks.there, deleting <- nodeLinks.deleting,
         fin <- nodeLinks.fin, matching <- nodeLinks.matching,
         attempted <- nodeLinks.attempted, made <- made, lost <- FALSE

(* Whatever fails and restarts, between the steps of the Link controller the *)
(* agent holds the object from before its first link to after its last one,  *)
(* and every link it makes is named in the status, from before to after.     *)
FollowsLifecycle == Lifecycle!Spec

(* The agent sets the state of a link only when a managed Link names it or   *)
(* named it before; one that only unmanaged Links name is left alone.        *)
OnlyManagedTouched ==
  [][edits' = edits =>
       \A x \in Name : kernel'[x].state # kernel[x].state =>
         /\ x \in nodeLinks.attempted \cup ManagedNames
         /\ \E l \in Link : \E s \in Specs[l] : s.managed /\ s.name = x]_vars

(* No link is deleted while another one of those to be deleted is up, unless *)
(* somebody else brought it up again.                                        *)
DownBeforeDelete ==
  [][\A x \in Name : Delete(x) =>
       \A y \in todo \cap mine : kernel[y].state # "up"]_vars

(* A link that lacks a required dependency is down when the agent upserts    *)
(* the links, unless somebody else brought it up again.                      *)
MissingDependencyDown ==
  pc \in {"upsert", "dependents"} =>
    \A l \in Listed :
      Missing(l) /\ res[l].name \in mine => kernel[res[l].name].state # "up"

(* The NodeLinks is stored as ready only when every managed link is as its   *)
(* Link asks, unless somebody else changed it: no later step of the          *)
(* reconciliation undoes an earlier one.                                     *)
ReadyWhenUp ==
  [][pc = "patch" /\ then = "done" /\ nodeLinks'.ready = "True" =>
       \A l \in Listed :
         res[l].managed /\ res[l].name \in mine
           => kernel[res[l].name] = Desired(l)]_vars

(* Whatever is listed can be applied: the Links exist and fit together.      *)
Applicable ==
  LET specs == [l \in nodeLinks.matching |-> spec[l]]
      name(l) == specs[l].name
  IN /\ \A l \in nodeLinks.matching : spec[l] # None
     /\ \A l, k \in nodeLinks.matching : l # k => name(l) # name(k)
     /\ \A l \in nodeLinks.matching : \A r \in specs[l].refs :
          /\ r.to \in nodeLinks.matching \/ r.optional
          /\ \A q \in specs[l].refs : r.to = q.to => r = q

(* In the end the node has every managed link it is told to have, up, and no *)
(* link the agent made for a Link it is no longer told about.                *)
InSync ==
  /\ \A l \in nodeLinks.matching :
       spec[l].managed => kernel[spec[l].name].state = "up" /\ kernel[spec[l].name].mtu = spec[l].mtu
  /\ made \subseteq {spec[l].name : l \in nodeLinks.matching}

Converges == <>[](Live /\ Applicable => InSync)

(* A deleted NodeLinks goes away, and takes the links the agent made along.  *)
DeletionCompletes == nodeLinks.deleting ~> ~nodeLinks.there
=============================================================================
