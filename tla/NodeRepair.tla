------------------------------ MODULE NodeRepair ------------------------------
(***************************************************************************)
(* How the agent keeps the links of its node as their Links ask while      *)
(* others change them: the upsert loop of                                  *)
(* internal/controller/nodelinks_controller.go over the link managers, the *)
(* search for dependents, and the watcher whose events start the passes.   *)
(*                                                                         *)
(* A step that changes links is one of the manager, of bringDownLink or of *)
(* somebody else, together with the events the kernel sends about it.      *)
(***************************************************************************)
EXTENDS LinkEventWatcher, LinkManagers, GraphSearch

CONSTANTS
  None,        \* "no Link"
  Nodes,       \* the specs, the Links listed and the links of the node at first
  Foreign,     \* for every name, the links others may create
  Settings,    \* the attributes others may set, and to what
  MaxTrouble   \* bound on what others do, calls that fail, and restarts

ASSUME NodeRepairAssumption ==
  /\ LinkName = Name
  /\ IsFiniteSet(Name) /\ IsFiniteSet(Link) /\ None \notin Link
  /\ Nodes \subseteq [spec : [Link -> LinkSpec], listed : SUBSET Link,
                     kernel : [Name -> NetlinkLink]]
  /\ \A node \in Nodes : \A l, k \in Link :
       l # k => node.spec[l].name # node.spec[k].name
  /\ \A node \in Nodes : \A l \in Link : Accepted(node.spec[l])
  /\ \A node \in Nodes : \A n, m \in Name :
       IF node.kernel[n].index = 0 THEN node.kernel[n] = NoLink
       ELSE node.kernel[n].index = node.kernel[m].index => n = m
  /\ Foreign \in [Name -> SUBSET NetlinkLink]
  /\ Settings \subseteq ({"up", "learning"} \X BOOLEAN) \cup ({"mtu", "master", "device"} \X Nat)
                        \cup ({"group"} \X {"none", "unicast", "multicast", "inet6"})
  /\ MaxTrouble \in Nat

VARIABLES
  spec,        \* the specs of the Links
  listed,      \* the Links that the NodeLinks lists
  links,       \* linkResources: the specs read in this pass
  lacking,     \* Links without a required dependency, to be set down first
  todo,        \* sorted Links that upsertLinks has not handled yet
  at,          \* the Link being upserted
  setDowns,    \* its dependents that are still to be set down
  failed,      \* whether a Link could not be handled
  disturbed,   \* history: whether others changed links since `at' was begun
  trouble      \* bounded by MaxTrouble

desired  == <<spec, listed>>
loop     == <<links, lacking, todo, at, setDowns, failed, disturbed>>
vars     == <<watcherVars, upsertVars, desired, loop, trouble>>

-----------------------------------------------------------------------------
(* The Links of this pass.                                                   *)

Missing(l) == \E r \in GetDependencies(links[l]) : ~r.optional /\ r.to \notin DOMAIN links

WrongDesiredLinkGraph(all) ==          \* the edges lead to the dependency
  [vertices |-> DOMAIN all,
   edge |-> [e \in (DOMAIN all) \X (DOMAIN all) |->
     LET refs == {r \in GetDependencies(all[e[1]]) : r.to = e[2]}
     IN IF refs = {} THEN "none"
        ELSE IF \E r \in refs : r.setDown THEN "setDown" ELSE "leave"]]

(* buildDesiredLinkGraph: an edge from a dependency to its dependent.  The   *)
(* instances have at most one reference from a Link to another, and no       *)
(* cycle: otherwise no graph is built (see NodeLinksReconciler).             *)
DesiredLinkGraph(all) ==
  [vertices |-> DOMAIN all,
   edge |-> [e \in (DOMAIN all) \X (DOMAIN all) |->
     LET refs == {r \in GetDependencies(all[e[2]]) : r.to = e[1]}
     IN IF refs = {} THEN "none"
        ELSE IF \E r \in refs : r.setDown THEN "setDown" ELSE "leave"]]

(* TopologicalSort: no Link before one that it depends on.                   *)
TopologicallySorted(all) ==
  {order \in SetToSeqs(DOMAIN all) :
     \A i, j \in DOMAIN order :
       (\E r \in GetDependencies(all[order[i]]) : r.to = order[j]) => j < i}

-----------------------------------------------------------------------------
NoLinks == [l \in {} |-> 0]

LoopEnds ==
  /\ links' = NoLinks /\ lacking' = {} /\ todo' = <<>> /\ at' = None
  /\ setDowns' = <<>> /\ failed' = FALSE /\ disturbed' = FALSE
  /\ call' = "ok" /\ copy' = NoLink

Init ==
  /\ WatcherInit /\ UpsertInit
  /\ \E node \in Nodes :
       kernel = node.kernel /\ spec = node.spec /\ listed = node.listed
  /\ links = NoLinks /\ lacking = {} /\ todo = <<>> /\ at = None
  /\ setDowns = <<>> /\ failed = FALSE /\ disturbed = FALSE
  /\ trouble = 0

(* The kernel sends an event for every link that a step has changed.         *)
Events ==
  \/ kernel' = kernel /\ UNCHANGED <<subscription, unread>>
  \/ kernel' # kernel
     /\ \E order \in SetToSeqs(Changed(kernel, kernel')) : Notify(order)

(* bringDownLink                                                             *)
BringDown(n) ==
  /\ kernel' = IF Present(n) THEN [kernel EXCEPT ![n].up = FALSE] ELSE kernel
  /\ Events
  /\ UNCHANGED <<watched, request, queue, reconciler>>

-----------------------------------------------------------------------------
Begin == TakeRequest /\ UNCHANGED <<upsertVars, desired, loop, trouble>>

(* getLinkResources, watchedLinkNames.set, and the order of the Links.       *)
GetLinks ==
  /\ SetWatched({spec[l].name : l \in listed})
  /\ links' = [l \in listed |-> spec[l]]
  /\ todo' \in TopologicallySorted(links')
  /\ lacking' = {l \in listed : \E r \in GetDependencies(spec[l]) :
                                   ~r.optional /\ r.to \notin listed}
  /\ UNCHANGED <<upsertVars, desired, at, setDowns, failed, disturbed, trouble>>

(* updateDependentsMissingDependencies                                       *)
SetDownLacking(l) ==
  /\ pass = "read" /\ l \in lacking
  /\ lacking' = lacking \ {l}
  /\ BringDown(links[l].name)
  /\ UNCHANGED <<call, copy, desired, links, todo, at, setDowns, failed, disturbed, trouble>>

Handles(l) ==
  /\ pass = "read" /\ lacking = {} /\ at = None
  /\ todo # <<>> /\ l = Head(todo)
  /\ todo' = Tail(todo)

(* upsertLink of a Link whose dependencies are not available.                *)
RefuseLink(l) ==
  /\ Handles(l) /\ Missing(l)
  /\ failed' = TRUE
  /\ UNCHANGED <<watcherVars, upsertVars, desired, links, lacking, at, setDowns,
                 disturbed, trouble>>

LeaveLink(l) ==
  /\ Handles(l) /\ ~Missing(l)
  /\ ~IsUpsertNeeded(links[l], kernel[links[l].name], links)
  /\ ReadLink(links[l].name)
  /\ UNCHANGED <<upsertVars, desired, links, lacking, at, setDowns, failed, disturbed,
                 trouble>>

(* bringDownDependents, in the order of the search.                          *)
BeginLink(l) ==
  /\ Handles(l) /\ ~Missing(l)
  /\ IsUpsertNeeded(links[l], kernel[links[l].name], links)
  /\ ReadLink(links[l].name)
  /\ at' = l /\ call' = "retrieve" /\ disturbed' = FALSE
  /\ \E visits \in BFSWithEdge(DesiredLinkGraph(links), l) :
       \E order \in SetToSeqs(SetDownBy(visits)) : setDowns' = order
  /\ UNCHANGED <<kernel, copy, desired, links, lacking, failed, trouble>>

SetDownDependent ==
  /\ setDowns # <<>>
  /\ BringDown(links[Head(setDowns)].name)
  /\ setDowns' = Tail(setDowns)
  /\ UNCHANGED <<call, copy, desired, links, lacking, todo, at, failed, disturbed, trouble>>

(* One call of the upsert; its error does not keep the other Links waiting.  *)
UpsertReturns ==
  \/ call' \notin {"ok", "error"} /\ UNCHANGED <<at, failed>>
  \/ call' = "ok" /\ at' = None /\ UNCHANGED failed
  \/ call' = "error" /\ at' = None /\ failed' = TRUE

CallUpsert ==
  /\ at # None /\ setDowns = <<>>
  /\ Upsert(links[at], links)
  /\ Events
  /\ UpsertReturns
  /\ UNCHANGED <<watched, request, queue, reconciler, desired, links, lacking, todo,
                 setDowns, disturbed, trouble>>

LoopDone == pass = "read" /\ lacking = {} /\ todo = <<>> /\ at = None

WrongEndPass ==                        \* an error is only logged
  /\ LoopDone
  /\ PassEnds \/ (toRead # {} /\ pass' = "idle" /\ toRead' = {}
                  /\ UNCHANGED <<subscription, watched, request, queue, unread>>)
  /\ LoopEnds
  /\ UNCHANGED <<kernel, desired, trouble>>

EndPass ==
  /\ LoopDone
  /\ IF failed THEN PassFails ELSE PassEnds
  /\ LoopEnds
  /\ UNCHANGED <<kernel, desired, trouble>>

Agent ==
  \/ Begin \/ GetLinks \/ SetDownDependent \/ CallUpsert \/ EndPass
  \/ \E l \in Link : SetDownLacking(l) \/ RefuseLink(l) \/ LeaveLink(l) \/ BeginLink(l)

Watcher ==
  /\ WatcherStep \/ Forward
  /\ UNCHANGED <<upsertVars, desired, loop, trouble>>

-----------------------------------------------------------------------------
(* Failures, others on the node, and the Link controller.                    *)

Trouble == trouble < MaxTrouble /\ trouble' = trouble + 1

(* A call of the upsert fails, one that reads a link, one that sets a link   *)
(* without its dependencies down, after the others of which nothing is       *)
(* upserted, or one to the API.                                              *)
CallFails ==
  /\ Trouble
  /\ \/ /\ at # None
        /\ CallError /\ UpsertReturns /\ setDowns' = <<>>
        /\ UNCHANGED <<watcherVars, links, lacking, todo, disturbed>>
     \/ /\ \E l \in Link : Handles(l)
        /\ failed' = TRUE
        /\ UNCHANGED <<watcherVars, upsertVars, links, lacking, at, setDowns, disturbed>>
     \/ /\ pass = "read" /\ \E l \in lacking : lacking' = lacking \ {l}
        /\ failed' = TRUE /\ todo' = <<>>
        /\ UNCHANGED <<watcherVars, upsertVars, links, at, setDowns, disturbed>>
     \/ /\ pass # "idle" /\ lacking = {} /\ at = None
        /\ PassFails /\ LoopEnds /\ UNCHANGED kernel
  /\ UNCHANGED desired

SubscriptionFails ==
  /\ Trouble /\ SubscribeFails /\ UNCHANGED <<upsertVars, desired, loop>>

Restart ==
  /\ Trouble /\ WatcherRestart /\ LoopEnds /\ UNCHANGED <<kernel, desired>>

(* Others delete a link, create one, or change an attribute of one.          *)
Others(n) ==
  /\ Trouble
  /\ \/ Present(n) /\ kernel' = Without(n)
     \/ /\ ~Present(n)
        /\ \E link \in Foreign[n] :
             kernel' = Added(n, link, {copy.index, copy.master, copy.device})
     \/ /\ Present(n)
        /\ \E setting \in Settings :
             LET link == [kernel[n] EXCEPT ![setting[1]] = setting[2]]
             IN /\ setting[1] \in {"group", "device", "learning"} => link.type = "vxlan"
                /\ Applicable(link)
                /\ kernel' = [kernel EXCEPT ![n] = link]
  /\ kernel' # kernel
  /\ Events
  /\ disturbed' = (at # None)
  /\ UNCHANGED <<watched, request, queue, reconciler, call, copy, desired, links,
                 lacking, todo, at, setDowns, failed>>

(* The Link controller lists another Link.                                   *)
Register(l) ==
  /\ Trouble
  /\ l \notin listed /\ listed' = listed \cup {l}
  /\ Enqueue
  /\ UNCHANGED <<upsertVars, spec, loop>>

Next ==
  \/ Agent \/ Watcher
  \/ CallFails \/ SubscriptionFails \/ Restart
  \/ \E n \in Name : Others(n)
  \/ \E l \in Link : Register(l)

Spec == Init /\ [][Next]_vars

(* The goroutines of the agent keep running, and its calls return.           *)
FairSpec == Spec /\ WF_vars(Agent) /\ WF_vars(Watcher)

-----------------------------------------------------------------------------
(* Properties *)

TypeOK ==
  /\ WatcherTypeOK
  /\ kernel \in [Name -> NetlinkLink]
  /\ call \in {"retrieve", "delete", "add", "again", "mtu", "device", "group",
               "learning", "master", "up", "ok", "error"}
  /\ copy \in NetlinkLink
  /\ spec \in [Link -> LinkSpec] /\ listed \subseteq Link
  /\ DOMAIN links \subseteq Link /\ \A l \in DOMAIN links : links[l] \in LinkSpec
  /\ lacking \subseteq Link /\ todo \in Seq(Link) /\ at \in Link \cup {None}
  /\ setDowns \in Seq(Link)
  /\ failed \in BOOLEAN /\ disturbed \in BOOLEAN
  /\ trouble \in 0..MaxTrouble

UpsertNeeded(l) == IsUpsertNeeded(links[l], kernel[links[l].name], links)

SmallGraphsBreadthFirst == \A g \in SmallGraphs(4) : BreadthFirst(g, 1)
SmallGraphsAsAsked == \A g \in SmallGraphs(4) : AsAsked(g, 1)

(* The search for dependents visits what can be reached, each vertex once    *)
(* and the nearer ones first, in whatever order the map is ranged over: in   *)
(* every small graph, and in that of the Links being upserted.               *)
SearchIsBreadthFirst ==
  /\ SmallGraphsBreadthFirst
  /\ call = "retrieve" => BreadthFirst(DesiredLinkGraph(links), at)

(* A dependent is set down before a Link is changed when every reference     *)
(* within reach of the change asks for it, and never when none does.  When   *)
(* they differ it depends on the order of the search.                        *)
SetDownAsAsked ==
  /\ SmallGraphsAsAsked
  /\ call = "retrieve" => AsAsked(DesiredLinkGraph(links), at)

(* An upsert that returns no error leaves the link as its Link asks, whatever *)
(* it found on the node and although it works on a copy read at its start,   *)
(* unless others changed links meanwhile: upsert and check agree on what is  *)
(* to be the same.                                                           *)
UpsertSuffices ==
  [][\A l \in Link :
       at = l /\ at' = None /\ pass' = "read" /\ call' = "ok" /\ ~disturbed
         => ~UpsertNeeded(l)']_vars

(* While the agent changes a link, every link with a reference to it that    *)
(* asks for it (setDownOnDependencyChainUpdate) is down, unless others       *)
(* changed links meanwhile.                                                  *)
DependentsDown ==
  [][CallUpsert /\ kernel' # kernel /\ ~disturbed =>
       \A l \in DOMAIN links :
         (\E r \in GetDependencies(links[l]) : r.to = at /\ r.setDown)
           => ~kernel[links[l].name].up]_vars

(* In the end every listed Link that has its dependencies is as it asks, and *)
(* the agent rests when all have them: every change is noticed without a     *)
(* periodic check, the events of the agent's own changes come to an end, and *)
(* a failed upsert leaves nothing that the next one cannot get over.         *)
Repaired ==
  <>[](LET all == [l \in listed |-> spec[l]]
           complete == {l \in listed : \A r \in GetDependencies(spec[l]) :
             IF r.to \in listed THEN IsManaged(spec[r.to]) \/ Present(spec[r.to].name)
                                ELSE r.optional}
       IN /\ \A l \in complete : ~IsUpsertNeeded(spec[l], kernel[spec[l].name], all)
          /\ complete = listed => pass = "idle" /\ ~queue)

(* An accepted Link whose optional references lead to Links that are not on  *)
(* the node is configured without them (linkmanager.go:26-27).               *)
ConfiguredWithoutIt ==
  <>[](\A l \in listed :
         (\A r \in GetDependencies(spec[l]) : r.optional /\ r.to \notin listed)
           => ~IsUpsertNeeded(spec[l], kernel[spec[l].name], [k \in listed |-> spec[k]]))
=============================================================================
