------------------------ MODULE LinkReconciler_proofs ------------------------
(* Proofs about LinkReconciler, for every set of Links, nodes, labels and    *)
(* selectors and every bound.                                                *)
EXTENDS LinkReconciler, TLAPS

-----------------------------------------------------------------------------
(* Type correctness.                                                         *)

(* The types of what the API server holds, of what the informers and the     *)
(* queue hold, and of the locals of the reconciliation.                      *)
ApiType ==
  /\ link \in [Link -> LinkObject] /\ node \in [Node -> NodeObject]
  /\ nodeLinks \in [Node -> NodeLinksObject]

InformerType ==
  /\ seenLink \in [Link -> LinkObject]
  /\ seenNodeLinks \in [Node -> NodeLinksObject]
  /\ queue \subseteq Link

CtlType ==
  /\ pc \in {"idle", "list", "remove", "checkNode", "removeWrite",
             "register", "registerWrite", "patch"}
  /\ cur \in Link \cup {None}
  /\ action \in {"none", "upsert", "delete"}
  /\ then \in {"none", "list", "register", "done", "error"}
  /\ clusterState \in LinkObject /\ mem \in LinkObject
  /\ DOMAIN nodes \subseteq Node /\ nodes \in [DOMAIN nodes -> Nat]
  /\ todo \subseteq Node /\ at \in Node \cup {None}
  /\ got \in NodeLinksObject
  /\ dropFin \in BOOLEAN /\ failed \in BOOLEAN

BoundsType == edits \in 0..MaxEdits /\ faults \in 0..MaxFaults

(* A reconciliation has a Link, and the body of a loop a node of the loop.   *)
LoopOK ==
  /\ pc # "idle" => cur \in Link /\ action \in {"upsert", "delete"}
  /\ pc \in {"checkNode", "removeWrite", "registerWrite"} => at \in todo
  /\ pc \in {"register", "registerWrite"} => todo \subseteq DOMAIN nodes

(* The inductive invariant behind TypeOK.                                    *)
TypeInv == ApiType /\ InformerType /\ CtlType /\ BoundsType /\ LoopOK

(* The parts of the type invariant make up the whole.                        *)
LEMMA TypeParts == TypeInv <=> TypeOK /\ LoopOK
  BY DEF TypeInv, TypeOK, ApiType, InformerType, CtlType, BoundsType

(* The objects that do not exist are objects of their types.                 *)
LEMMA AbsentType == NoLink \in LinkObject /\ NoNodeLinks \in NodeLinksObject
  BY DEF NoLink, NoNodeLinks, LinkObject, NodeLinksObject

(* What the API server makes of a deletion is an object again.               *)
LEMMA DeletedType ==
  /\ \A o \in LinkObject : Deleted(o, NoLink) \in LinkObject
  /\ \A o \in NodeLinksObject : Deleted(o, NoNodeLinks) \in NodeLinksObject
  BY AbsentType DEF Deleted, Stored, LinkObject, NodeLinksObject

(* The nodes a selector matches are nodes, with numbers as their uids.       *)
LEMMA MatchingType ==
  ASSUME ApiType, NEW sel
  PROVE  /\ DOMAIN Matching(sel) \subseteq Node
         /\ Matching(sel) \in [DOMAIN Matching(sel) -> Nat]
  BY DEF Matching, ApiType, NodeObject

(* Reads return objects.                                                     *)
LEMMA ReadType ==
  ASSUME ApiType, InformerType
  PROVE  /\ \A l \in Link : ReadLink(l) \in LinkObject
         /\ \A n \in Node : ReadNodeLinks(n) \in NodeLinksObject
  BY DEF ReadLink, ReadNodeLinks, ApiType, InformerType

(* The end of a reconciliation leaves locals of the right types.             *)
LEMMA FinishType ==
  ASSUME Finish
  PROVE  CtlType' /\ LoopOK'
  BY AbsentType, LinkReconcilerAssumption DEF Finish, CtlType, LoopOK, NoNodes

(* So does a call of patchResource.                                          *)
LEMMA CallPatchType ==
  ASSUME CtlType, LoopOK, pc # "idle", NEW object \in LinkObject,
         NEW next \in {"list", "register", "done", "error"},
         CallPatch(object, next), UNCHANGED <<cur, action, clusterState, nodes>>
  PROVE  CtlType' /\ LoopOK'
  BY AbsentType DEF CallPatch, CtlType, LoopOK

(* And so does handleError.                                                  *)
LEMMA HandleErrorType ==
  ASSUME CtlType, LoopOK, InformerType, pc # "idle", HandleError
  PROVE  CtlType' /\ LoopOK' /\ queue' = queue
<1>. DEFINE o == IF action = "upsert" THEN [mem EXCEPT !.ready = "False"] ELSE mem
<1>1. o \in LinkObject
  BY DEF CtlType, LinkObject
<1>2. CallPatch(o, "error") /\ UNCHANGED <<cur, action, clusterState, nodes, queue>>
  BY DEF HandleError
<1>. HIDE DEF o
<1>. QED
  BY <1>1, <1>2, CallPatchType

(* Every outcome of a failed patch keeps the types.                          *)
LEMMA PatchFailsType ==
  ASSUME CtlType, LoopOK, InformerType, pc = "patch", PatchFails
  PROVE  CtlType' /\ LoopOK' /\ queue' \subseteq Link
  BY HandleErrorType, FinishType DEF PatchFails, Requeue, InformerType, LoopOK

(* So does the return of patchResource when it gives back what is an object. *)
LEMMA PatchReturnsType ==
  ASSUME CtlType, LoopOK, InformerType, pc = "patch", PatchReturns,
         mem' \in LinkObject, clusterState' \in LinkObject
  PROVE  CtlType' /\ LoopOK' /\ queue' \subseteq Link
  BY DEF PatchReturns, InformerType, LoopOK, CtlType, loop

(* And so does the end of a reconciliation by its last patch.               *)
LEMMA PatchEndsType ==
  ASSUME LoopOK, InformerType, pc = "patch", PatchEnds
  PROVE  CtlType' /\ LoopOK' /\ queue' \subseteq Link
  BY FinishType DEF PatchEnds, Requeue, InformerType, LoopOK

(* The status that a patch leaves is one of an object.                       *)
LEMMA PatchedStatusType ==
  ASSUME CtlType, NEW o \in LinkObject
  PROVE  PatchedStatus(o) \in LinkObject
  BY DEF PatchedStatus, CtlType, LinkObject

(* A step of the reconciliation keeps the types, whatever it reads.          *)
LEMMA StartType ==
  ASSUME TypeInv, NEW l \in Link,
         ReconcileNothing(l) \/ ReconcileUpsert(l) \/ ReconcileDeletion(l)
  PROVE  TypeInv'
<1>. USE DEF TypeInv, ApiType, InformerType, BoundsType, api, informer, bounds, loop, ctl
<1>0. ReadLink(l) \in LinkObject
  BY ReadType
<1>1. CASE ReconcileNothing(l)
  BY <1>1 DEF ReconcileNothing, CtlType, LoopOK
<1>2. CASE ReconcileUpsert(l)
  <2>1. [ReadLink(l) EXCEPT !.fin = TRUE] \in LinkObject
    BY <1>0 DEF LinkObject
  <2>. QED
    BY <1>0, <1>2, <2>1 DEF ReconcileUpsert, CtlType, LoopOK
<1>3. CASE ReconcileDeletion(l)
  <2>1. ReadLink(l).matched \subseteq Node
    BY <1>0 DEF LinkObject
  <2>. QED
    BY <1>0, <1>3, <2>1 DEF ReconcileDeletion, CtlType, LoopOK
<1>. QED
  BY <1>1, <1>2, <1>3

(* The loop that takes the Link out of NodeLinks keeps the types.            *)
LEMMA RemovalType ==
  ASSUME TypeInv,
         \/ ListNodes
         \/ \E n \in Node : RemoveSkip(n) \/ RemoveRead(n)
         \/ CheckNode \/ RemoveWrite \/ RemovalsDone
  PROVE  TypeInv'
<1>. USE DEF TypeInv, ApiType, InformerType, BoundsType, api, informer, bounds, loop
<1>1. CASE ListNodes
  <2>1. [mem EXCEPT !.ready = "Unknown"] \in LinkObject
    BY DEF CtlType, LinkObject
  <2>2. mem.matched \subseteq Node
    BY DEF CtlType, LinkObject
  <2>3. /\ DOMAIN Matching(mem.sel) \subseteq Node
        /\ Matching(mem.sel) \in [DOMAIN Matching(mem.sel) -> Nat]
    BY MatchingType
  <2>. QED
    BY <1>1, <2>1, <2>2, <2>3 DEF ListNodes, CtlType, LoopOK
<1>2. ASSUME NEW n \in Node, RemoveSkip(n)
      PROVE  TypeInv'
  BY <1>2 DEF RemoveSkip, CtlType, LoopOK
<1>3. ASSUME NEW n \in Node, RemoveRead(n)
      PROVE  TypeInv'
  <2>1. ReadNodeLinks(n) \in NodeLinksObject
    BY ReadType
  <2>. QED
    BY <1>3, <2>1 DEF RemoveRead, CtlType, LoopOK
<1>4. CASE CheckNode
  BY <1>4, AbsentType DEF CheckNode, NextRemoval, CtlType, LoopOK
<1>5. CASE RemoveWrite
  <2>1. at \in Node /\ cur \in Link
    BY <1>5 DEF RemoveWrite, CtlType, LoopOK
  <2>2. nodeLinks[at] \in NodeLinksObject
    BY <2>1
  <2>3. /\ Deleted(nodeLinks[at], NoNodeLinks) \in NodeLinksObject
        /\ Removed(nodeLinks[at]) \in NodeLinksObject
    BY <2>1, <2>2, AbsentType, DeletedType
    DEF Removed, Stored, NodeLinksObject, CtlType
  <2>4. [mem EXCEPT !.matched = @ \ {at}] \in LinkObject
    BY DEF CtlType, LinkObject
  <2>5. nodeLinks' \in [Node -> NodeLinksObject] /\ mem' \in LinkObject
    BY <1>5, <2>3, <2>4 DEF RemoveWrite, CtlType
  <2>. QED
    BY <1>5, <2>5, AbsentType DEF RemoveWrite, NextRemoval, CtlType, LoopOK
<1>6. CASE RemovalsDone
  <2>1. CASE HandleError
    BY <1>6, <2>1, HandleErrorType DEF RemovalsDone
  <2>2. /\ [mem EXCEPT !.matched = DOMAIN nodes] \in LinkObject
        /\ [mem EXCEPT !.fin = FALSE, !.ready = "False"] \in LinkObject
    BY DEF CtlType, LinkObject
  <2>3. CASE /\ \/ CallPatch([mem EXCEPT !.matched = DOMAIN nodes], "register")
                \/ CallPatch([mem EXCEPT !.fin = FALSE, !.ready = "False"], "done")
             /\ UNCHANGED <<cur, action, clusterState, nodes, queue>>
    <3>1. CtlType' /\ LoopOK'
      BY <1>6, <2>2, <2>3, CallPatchType DEF RemovalsDone
    <3>. QED
      BY <1>6, <2>3, <3>1 DEF RemovalsDone
  <2>. QED
    BY <1>6, <2>1, <2>3 DEF RemovalsDone
<1>. QED
  BY <1>1, <1>2, <1>3, <1>4, <1>5, <1>6

(* The loop that puts the Link into NodeLinks keeps the types.               *)
LEMMA RegistrationType ==
  ASSUME TypeInv,
         \/ \E n \in Node : RegisterSkip(n) \/ RegisterRead(n)
         \/ RegisterCreate \/ RegisterPatch \/ RegistrationsDone
  PROVE  TypeInv'
<1>. USE DEF TypeInv, ApiType, InformerType, BoundsType, api, informer, bounds, loop
<1>1. ASSUME NEW n \in Node, RegisterSkip(n)
      PROVE  TypeInv'
  BY <1>1 DEF RegisterSkip, CtlType, LoopOK
<1>2. ASSUME NEW n \in Node, RegisterRead(n)
      PROVE  TypeInv'
  <2>1. ReadNodeLinks(n) \in NodeLinksObject
    BY ReadType
  <2>. QED
    BY <1>2, <2>1 DEF RegisterRead, CtlType, LoopOK
<1>3. CASE RegisterCreate \/ RegisterPatch
  <2>1. pc = "registerWrite"
    BY <1>3 DEF RegisterCreate, RegisterPatch
  <2>2. at \in Node /\ cur \in Link /\ nodes[at] \in Nat
    BY <2>1 DEF CtlType, LoopOK
  <2>3. Registered(NoNodeLinks) \in NodeLinksObject
    BY <2>2, AbsentType DEF Registered, NodeLinksObject
  <2>4. [nodeLinks EXCEPT ![at] = Registered(NoNodeLinks)] \in [Node -> NodeLinksObject]
    BY <2>2, <2>3
  <2>5. RegisterPatch => nodeLinks' \in [Node -> NodeLinksObject]
    BY <2>2 DEF RegisterPatch, NodeLinksObject, CtlType
  <2>6. nodeLinks' \in [Node -> NodeLinksObject]
    BY <1>3, <2>4, <2>5 DEF RegisterCreate
  <2>. QED
    BY <1>3, <2>6, AbsentType
    DEF RegisterCreate, RegisterPatch, NextRegistration, CtlType, LoopOK
<1>4. CASE RegistrationsDone
  <2>1. CASE HandleError
    BY <1>4, <2>1, HandleErrorType DEF RegistrationsDone
  <2>2. [mem EXCEPT !.ready = "True"] \in LinkObject
    BY DEF CtlType, LinkObject
  <2>3. CASE /\ CallPatch([mem EXCEPT !.ready = "True"], "done")
             /\ UNCHANGED <<cur, action, clusterState, nodes, queue>>
    <3>1. CtlType' /\ LoopOK'
      BY <1>4, <2>2, <2>3, CallPatchType DEF RegistrationsDone
    <3>. QED
      BY <1>4, <2>3, <3>1 DEF RegistrationsDone
  <2>. QED
    BY <1>4, <2>1, <2>3 DEF RegistrationsDone
<1>. QED
  BY <1>1, <1>2, <1>3, <1>4

(* The calls of patchResource keep the types.                                *)
LEMMA PatchType ==
  ASSUME TypeInv, PatchMain \/ PatchStatus
  PROVE  TypeInv'
<1>. USE DEF TypeInv, ApiType, InformerType, BoundsType, api, informer, bounds
<1>1. pc = "patch" /\ cur \in Link /\ link[cur] \in LinkObject
  BY DEF PatchMain, PatchStatus, LoopOK
<1>2. CASE PatchMain
  <2>. DEFINE response == [link[cur] EXCEPT !.fin = mem.fin]
  <2>1. response \in LinkObject
    BY <1>1 DEF LinkObject, CtlType
  <2>2. /\ Stored(response, NoLink) \in LinkObject
        /\ [response EXCEPT !.matched = mem.matched, !.ready = mem.ready] \in LinkObject
    BY <2>1, AbsentType DEF Stored, LinkObject, CtlType
  <2>3. CASE /\ link' = [link EXCEPT ![cur] = Stored(response, NoLink)]
             /\ clusterState' = response
             /\ mem' = [response EXCEPT !.matched = mem.matched, !.ready = mem.ready]
             /\ UNCHANGED <<queue, pc, cur, action, nodes, loop, then>>
    <3>. HIDE DEF response
    <3>. QED
      BY <1>1, <1>2, <2>1, <2>2, <2>3 DEF PatchMain, CtlType, LoopOK, loop
  <2>4. CASE PatchFails /\ UNCHANGED link
    BY <1>1, <1>2, <2>4, PatchFailsType DEF PatchMain
  <2>. QED
    BY <1>2, <2>3, <2>4 DEF PatchMain
<1>3. CASE PatchStatus
  <2>1. PatchedStatus(link[cur]) \in LinkObject
    BY <1>1, PatchedStatusType
  <2>2. link' \in [Link -> LinkObject] /\ UNCHANGED <<node, nodeLinks, informer, bounds>>
    BY <1>1, <1>3, <2>1 DEF PatchStatus
  <2>3. CASE PatchReturns /\ \/ UNCHANGED <<mem, clusterState>>
                             \/ /\ mem' = PatchedStatus(link[cur])
                                /\ clusterState' = PatchedStatus(link[cur])
    <3>1. mem' \in LinkObject /\ clusterState' \in LinkObject
      BY <2>1, <2>3 DEF CtlType
    <3>. QED
      BY <1>1, <2>2, <2>3, <3>1, PatchReturnsType
  <2>4. CASE PatchEnds
    BY <1>1, <2>2, <2>4, PatchEndsType
  <2>5. CASE PatchFails
    BY <1>1, <2>2, <2>5, PatchFailsType
  <2>. QED
    BY <1>3, <2>3, <2>4, <2>5 DEF PatchStatus
<1>. QED
  BY <1>2, <1>3

(* Failed API calls and restarts keep the types.                             *)
LEMMA FailureType ==
  ASSUME TypeInv, APICallFails \/ Restart
  PROVE  TypeInv'
<1>. USE LinkReconcilerAssumption
     DEF TypeInv, ApiType, InformerType, BoundsType, api, informer, bounds
<1>1. CASE Restart
  BY <1>1, FinishType DEF Restart
<1>2. CASE APICallFails
  <2>1. BoundsType' /\ UNCHANGED <<api, informer>>
    BY <1>2 DEF APICallFails
  <2>2. CASE pc = "list" /\ HandleError
    BY <2>1, <2>2, HandleErrorType
  <2>3. CASE pc = "patch" /\ PatchFails
    BY <2>1, <2>3, PatchFailsType
  <2>4. CASE \/ pc \in {"checkNode", "removeWrite"} /\ IterationFails("remove")
             \/ pc = "registerWrite" /\ IterationFails("register")
    BY <2>1, <2>4, AbsentType DEF IterationFails, CtlType, LoopOK
  <2>5. ASSUME NEW n \in Node, ReadFails(n)
        PROVE  TypeInv'
    BY <2>1, <2>5 DEF ReadFails, CtlType, LoopOK
  <2>. QED
    BY <1>2, <2>2, <2>3, <2>4, <2>5 DEF APICallFails
<1>. QED
  BY <1>1, <1>2

(* Deliveries and everything that goes on around the controller keep them.   *)
LEMMA OutsideType ==
  ASSUME TypeInv, Deliver \/ Agent \/ (\E n \in Node : CollectGarbage(n)) \/ Environment
  PROVE  TypeInv'
<1>. USE LinkReconcilerAssumption
     DEF TypeInv, ApiType, InformerType, BoundsType, api, informer, bounds
<1>1. /\ \A n \in Node : nodeLinks[n].matching \subseteq Link
      /\ \A n \in Node : seenNodeLinks[n].matching \subseteq Link
  BY DEF NodeLinksObject
<1>2. CASE Deliver
  <2>1. InformerType' /\ UNCHANGED <<api, ctl, bounds>>
    BY <1>1, <1>2 DEF Deliver, DeliverLink, DeliverNodeLinks
  <2>. QED
    BY <2>1 DEF ctl, loop, CtlType, LoopOK
<1>3. CASE Agent \/ (\E n \in Node : CollectGarbage(n))
  <2>1. PICK n \in Node :
          AgentAddsFinalizer(n) \/ AgentRemovesFinalizer(n) \/ CollectGarbage(n)
    BY <1>3 DEF Agent
  <2>2. Deleted(nodeLinks[n], NoNodeLinks) \in NodeLinksObject
    BY DeletedType
  <2>3. [nodeLinks[n] EXCEPT !.fin = TRUE] \in NodeLinksObject
    BY DEF NodeLinksObject
  <2>4. /\ nodeLinks' \in [Node -> NodeLinksObject]
        /\ UNCHANGED <<link, node, informer, queue, ctl, bounds>>
    BY <2>1, <2>2, <2>3, AbsentType
    DEF AgentAddsFinalizer, AgentRemovesFinalizer, CollectGarbage
  <2>. QED
    BY <2>4 DEF ctl, loop, CtlType, LoopOK
<1>4. CASE Environment
  <2>1. ASSUME NEW l \in Link, CreateLink(l) \/ UpdateLink(l) \/ DeleteLink(l)
        PROVE  link' \in [Link -> LinkObject] /\ UNCHANGED <<node, nodeLinks, queue>>
    <3>1. \A sel \in Selector :
            [NoLink EXCEPT !.there = TRUE, !.gen = 1, !.sel = sel] \in LinkObject
      BY DEF NoLink, LinkObject
    <3>2. [link[l] EXCEPT !.gen = @ + 1] \in LinkObject
      <4>1. link[l] \in LinkObject /\ link[l].gen + 1 \in Nat
        BY DEF LinkObject
      <4>. QED
        BY <4>1 DEF LinkObject
    <3>3. Deleted([link[l] EXCEPT !.gen = @ + 1], NoLink) \in LinkObject
      BY <3>2, DeletedType
    <3>4. CASE CreateLink(l)
      BY <3>1, <3>4 DEF CreateLink
    <3>5. CASE UpdateLink(l)
      <4>1. PICK sel \in Selector :
              link' = [link EXCEPT ![l].sel = sel, ![l].gen = @ + 1]
        BY <3>5 DEF UpdateLink
      <4>2. link[l] \in LinkObject /\ link[l].gen + 1 \in Nat /\ sel \subseteq Label
        BY DEF LinkObject
      <4>. QED
        BY <4>1, <4>2 DEF LinkObject
    <3>6. CASE DeleteLink(l)
      BY <3>3, <3>6 DEF DeleteLink
    <3>. QED
      BY <2>1, <3>4, <3>5, <3>6 DEF CreateLink, UpdateLink, DeleteLink
  <2>2. ASSUME NEW n \in Node, NodeJoins(n) \/ NodeLeaves(n) \/ NodeRelabelled(n)
        PROVE  /\ node' \in [Node -> NodeObject] /\ queue' \subseteq Link
               /\ UNCHANGED <<link, nodeLinks>>
    <3>1. node[n] \in NodeObject /\ node[n].uid + 1 \in Nat
      BY DEF NodeObject
    <3>2. /\ \A label \in Label : 
               [up |-> TRUE, uid |-> node[n].uid + 1, label |-> label] \in NodeObject
          /\ [node[n] EXCEPT !.up = FALSE] \in NodeObject
          /\ \A label \in Label : [node[n] EXCEPT !.label = label] \in NodeObject
      BY <3>1 DEF NodeObject
    <3>3. \E o \in NodeObject : node' = [node EXCEPT ![n] = o]
      BY <2>2, <3>2 DEF NodeJoins, NodeLeaves, NodeRelabelled
    <3>. QED
      BY <2>2, <3>3 DEF NodeJoins, NodeLeaves, NodeRelabelled, EnqueueAll
  <2>3. ASSUME NEW n \in Node, NodeLinksEvent(n)
        PROVE  queue' \subseteq Link /\ UNCHANGED <<api, informer, ctl, bounds>>
    BY <1>1, <2>3 DEF NodeLinksEvent
  <2>4. UNCHANGED <<informer, ctl>> /\ (Edit \/ UNCHANGED bounds)
    BY <1>4
    DEF Environment, CreateLink, UpdateLink, DeleteLink, NodeJoins, NodeLeaves,
        NodeRelabelled, NodeLinksEvent
  <2>5. ApiType' /\ InformerType'
    BY <1>4, <2>1, <2>2, <2>3, <2>4 DEF Environment
  <2>6. BoundsType'
    BY <2>4 DEF Edit
  <2>. QED
    BY <2>4, <2>5, <2>6 DEF ctl, loop, CtlType, LoopOK
<1>. QED
  BY <1>2, <1>3, <1>4

(* The controller starts with an empty queue and no reconciliation.          *)
LEMMA InitType == Init => TypeInv
<1>. SUFFICES ASSUME Init
              PROVE  TypeInv
  OBVIOUS
<1>. USE AbsentType, LinkReconcilerAssumption DEF Init, IdleInit
<1>1. ApiType
  BY DEF ApiType, NodeObject
<1>2. InformerType
  BY DEF InformerType
<1>3. CtlType /\ LoopOK
  BY DEF CtlType, LoopOK, NoNodes
<1>4. BoundsType
  BY DEF BoundsType
<1>. QED
  BY <1>1, <1>2, <1>3, <1>4 DEF TypeInv

(* Every step, of the controller or of anybody else, keeps the types.        *)
LEMMA NextType == TypeInv /\ [Next]_vars => TypeInv'
<1>. SUFFICES ASSUME TypeInv, [Next]_vars
              PROVE  TypeInv'
  OBVIOUS
<1>1. CASE Next
  BY <1>1, StartType, RemovalType, RegistrationType, PatchType, FailureType, OutsideType
  DEF Next, Reconcile
<1>2. CASE UNCHANGED vars
  BY <1>2 DEF vars, api, informer, ctl, loop, bounds, TypeInv, ApiType, InformerType,
              CtlType, BoundsType, LoopOK
<1>. QED
  BY <1>1, <1>2

(* Nothing that is stored or kept in a local ever has the wrong type,        *)
(* whatever the cache shows and whatever fails: in particular the body of a  *)
(* loop always has a node of the cluster, and a patch always has a Link.     *)
THEOREM TypeCorrect == Spec => []TypeOK
<1>1. TypeInv => TypeOK
  BY TypeParts
<1>. QED
  BY <1>1, InitType, NextType, PTL DEF Spec

-----------------------------------------------------------------------------
(* The finalizer of an agent.  Between the check that the node is gone and   *)
(* the write that takes the finalizer off, the node may come back: with a    *)
(* new uid, which the owner of the NodeLinks is then behind of.              *)

OwnerOK ==
  /\ \A n \in Node : nodeLinks[n].owner <= node[n].uid
  /\ \A n \in DOMAIN nodes : nodes[n] <= node[n].uid
  /\ dropFin => /\ pc = "removeWrite"
                /\ ~node[at].up \/ nodeLinks[at].owner < node[at].uid

(* The steps that change neither a NodeLinks, nor a node, nor the list of    *)
(* nodes of the reconciliation, and do not set dropFin.                      *)
LEMMA OwnerFrame ==
  ASSUME TypeInv, OwnerOK, UNCHANGED <<nodeLinks, node>>, 
         nodes' = nodes \/ nodes' = NoNodes \/ (\E sel \in SUBSET Label : nodes' = Matching(sel)),
         dropFin' = FALSE \/ UNCHANGED <<dropFin, at, pc>>
  PROVE  OwnerOK'
<1>. USE DEF TypeInv, ApiType, NodeObject, NodeLinksObject
<1>1. \A n \in DOMAIN nodes' : nodes'[n] <= node'[n].uid
  <2>1. \A sel : \A n \in DOMAIN Matching(sel) : n \in Node /\ Matching(sel)[n] = node[n].uid
    BY DEF Matching
  <2>. QED
    BY <2>1 DEF OwnerOK, NoNodes
<1>. QED
  BY <1>1 DEF OwnerOK

(* The controller never puts an owner into a NodeLinks, or lists a node,     *)
(* ahead of the node, and decides to take the finalizer off only when the    *)
(* node is gone.                                                             *)
LEMMA ReconcileOwner ==
  ASSUME TypeInv, OwnerOK, Reconcile
  PROVE  OwnerOK'
<1>. USE DEF api, informer, bounds, loop, ctl
<1>1. CASE \E l \in Link : ReconcileNothing(l) \/ ReconcileUpsert(l) \/ ReconcileDeletion(l)
  BY <1>1, OwnerFrame DEF ReconcileNothing, ReconcileUpsert, ReconcileDeletion, OwnerOK
<1>2. CASE ListNodes
  <2>1. mem.sel \in SUBSET Label
    BY DEF TypeInv, CtlType, LinkObject
  <2>2. dropFin = FALSE
    BY <1>2 DEF ListNodes, OwnerOK, TypeInv, CtlType
  <2>. QED
    BY <1>2, <2>1, <2>2, OwnerFrame DEF ListNodes
<1>3. CASE \E n \in Node : RemoveSkip(n) \/ RemoveRead(n) \/ RegisterSkip(n) \/ RegisterRead(n)
  <2>1. dropFin = FALSE
    BY <1>3
    DEF RemoveSkip, RemoveRead, RegisterSkip, RegisterRead, OwnerOK, TypeInv, CtlType
  <2>. QED
    BY <1>3, <2>1, OwnerFrame DEF RemoveSkip, RemoveRead, RegisterSkip, RegisterRead
<1>4. CASE CheckNode
  <2>1. dropFin = FALSE
    BY <1>4 DEF CheckNode, OwnerOK, TypeInv, CtlType
  <2>2. CASE node[at].up
    BY <1>4, <2>1, <2>2, OwnerFrame DEF CheckNode, NextRemoval
  <2>3. CASE ~node[at].up
    BY <1>4, <2>3 DEF CheckNode, OwnerOK
  <2>. QED
    BY <2>2, <2>3
<1>5. CASE RemoveWrite
  <2>1. dropFin' = FALSE /\ at \in Node
    BY <1>5 DEF RemoveWrite, NextRemoval, TypeInv, CtlType, LoopOK
  <2>2. \A n \in Node : nodeLinks'[n].owner \in {nodeLinks[n].owner, 0}
    <3>. DEFINE o == IF LastLink THEN Deleted(nodeLinks[at], NoNodeLinks)
                                 ELSE Removed(nodeLinks[at])
    <3>1. nodeLinks' = nodeLinks \/ nodeLinks' = [nodeLinks EXCEPT ![at] = o]
      BY <1>5 DEF RemoveWrite
    <3>2. o.owner \in {nodeLinks[at].owner, 0}
      <4>1. nodeLinks[at] \in NodeLinksObject
        BY <2>1 DEF TypeInv, ApiType
      <4>2. Deleted(nodeLinks[at], NoNodeLinks).owner \in {nodeLinks[at].owner, 0}
        BY <4>1 DEF Deleted, Stored, NoNodeLinks, NodeLinksObject
      <4>3. Removed(nodeLinks[at]).owner \in {nodeLinks[at].owner, 0}
        BY <4>1 DEF Removed, Stored, NoNodeLinks, NodeLinksObject
      <4>. QED
        BY <4>2, <4>3
    <3>. HIDE DEF o
    <3>. QED
      BY <2>1, <3>1, <3>2 DEF TypeInv, ApiType
  <2>3. \A n \in Node : node[n].uid \in Nat
    BY DEF TypeInv, ApiType, NodeObject
  <2>. QED
    BY <1>5, <2>1, <2>2, <2>3 DEF RemoveWrite, OwnerOK
<1>6. CASE RegisterCreate \/ RegisterPatch
  <2>1. dropFin = FALSE /\ at \in Node /\ at \in DOMAIN nodes
    BY <1>6 DEF RegisterCreate, RegisterPatch, OwnerOK, TypeInv, CtlType, LoopOK
  <2>2. nodes[at] <= node[at].uid
    BY <2>1 DEF OwnerOK
  <2>3. \A n \in Node : nodeLinks'[n].owner <= node[n].uid
    <3>1. nodeLinks' = nodeLinks
          \/ \E o : /\ nodeLinks' = [nodeLinks EXCEPT ![at] = o]
                   /\ o.owner \in {nodeLinks[at].owner, nodes[at]}
      <4>1. CASE RegisterCreate
        BY <2>1, <4>1 DEF RegisterCreate, Registered, NoNodeLinks
      <4>2. CASE RegisterPatch
        <5>1. nodeLinks[at] \in NodeLinksObject
          BY <2>1 DEF TypeInv, ApiType
        <5>. DEFINE o == [nodeLinks[at] EXCEPT
                            !.matching = IF cur \in got.matching THEN @
                                                      ELSE got.matching \cup {cur},
                            !.owner = IF got.owner = nodes[at] THEN @ ELSE nodes[at]]
        <5>2. nodeLinks' = nodeLinks \/ nodeLinks' = [nodeLinks EXCEPT ![at] = o]
          BY <2>1, <4>2 DEF RegisterPatch, TypeInv, ApiType
        <5>3. o.owner \in {nodeLinks[at].owner, nodes[at]}
          BY <5>1 DEF NodeLinksObject
        <5>. QED
          BY <5>2, <5>3
      <4>. QED
        BY <1>6, <4>1, <4>2
    <3>. QED
      BY <2>1, <2>2, <3>1 DEF OwnerOK, TypeInv, ApiType
  <2>. QED
    BY <1>6, <2>1, <2>3
    DEF RegisterCreate, RegisterPatch, NextRegistration, OwnerOK
<1>7. CASE RemovalsDone \/ RegistrationsDone
  BY <1>7, OwnerFrame DEF RemovalsDone, RegistrationsDone, HandleError, CallPatch
<1>8. CASE PatchMain \/ PatchStatus
  <2>1. dropFin = FALSE /\ UNCHANGED <<nodeLinks, node>>
    BY <1>8 DEF PatchMain, PatchStatus, OwnerOK, TypeInv, CtlType
  <2>2. (nodes' = nodes \/ nodes' = NoNodes) /\ dropFin' = FALSE
    BY <1>8, <2>1
    DEF PatchMain, PatchStatus, PatchReturns, PatchEnds, PatchFails, HandleError,
        CallPatch, Requeue, Finish
  <2>. QED
    BY <2>1, <2>2, OwnerFrame
<1>. QED
  BY <1>1, <1>2, <1>3, <1>4, <1>5, <1>6, <1>7, <1>8 DEF Reconcile

(* Failures keep this.                                                       *)
LEMMA FailureOwner ==
  ASSUME TypeInv, OwnerOK, APICallFails \/ Restart
  PROVE  OwnerOK'
<1>1. CASE Restart
  BY <1>1, OwnerFrame DEF Restart, Finish, api
<1>2. CASE APICallFails
  <2>1. UNCHANGED <<nodeLinks, node>> /\ (nodes' = nodes \/ nodes' = NoNodes)
    BY <1>2
    DEF APICallFails, api, HandleError, PatchFails, CallPatch, Requeue, Finish,
        IterationFails, ReadFails
  <2>2. CASE \E n \in Node : ReadFails(n)
    BY <1>2, <2>1, <2>2, OwnerFrame DEF ReadFails
  <2>3. CASE ~\E n \in Node : ReadFails(n)
    <3>1. dropFin' = FALSE
      BY <1>2, <2>3
      DEF APICallFails, HandleError, PatchFails, CallPatch, Requeue, Finish,
          IterationFails
    <3>. QED
      BY <2>1, <3>1, OwnerFrame
  <2>. QED
    BY <2>2, <2>3
<1>. QED
  BY <1>1, <1>2

(* So does everything around the controller: a node that comes back has a    *)
(* new uid, and nobody else writes the owner of a NodeLinks.                 *)
LEMMA OutsideOwner ==
  ASSUME TypeInv, OwnerOK,
         Deliver \/ Agent \/ (\E n \in Node : CollectGarbage(n)) \/ Environment
  PROVE  OwnerOK'
<1>1. \A n \in Node : /\ node[n].uid \in Nat /\ nodeLinks[n].owner \in Nat
                      /\ node[n] \in NodeObject /\ nodeLinks[n] \in NodeLinksObject
  BY DEF TypeInv, ApiType, NodeObject, NodeLinksObject
<1>2. pc = "removeWrite" => at \in Node
  BY DEF TypeInv, CtlType, LoopOK
<1>3. UNCHANGED <<pc, at, nodes, dropFin>>
  BY DEF ctl, loop, Deliver, DeliverLink, DeliverNodeLinks, Agent,
         AgentAddsFinalizer, AgentRemovesFinalizer, CollectGarbage, Environment,
         CreateLink, UpdateLink, DeleteLink, NodeJoins, NodeLeaves, NodeRelabelled,
         NodeLinksEvent
<1>4. CASE Agent \/ \E n \in Node : CollectGarbage(n)
  <2>1. PICK n \in Node :
          AgentAddsFinalizer(n) \/ AgentRemovesFinalizer(n) \/ CollectGarbage(n)
    BY <1>4 DEF Agent
  <2>2. node' = node /\ nodeLinks'[n].owner \in {nodeLinks[n].owner, 0}
        /\ \A m \in Node : m # n => nodeLinks'[m] = nodeLinks[m]
    BY <1>1, <2>1
    DEF AgentAddsFinalizer, AgentRemovesFinalizer, CollectGarbage, Deleted, Stored,
        NoNodeLinks, NodeLinksObject, TypeInv, ApiType
  <2>3. \A m \in Node : nodeLinks'[m].owner \in {nodeLinks[m].owner, 0}
    BY <2>2
  <2>. QED
    BY <1>1, <1>2, <1>3, <2>2, <2>3 DEF OwnerOK
<1>5. CASE \E n \in Node : NodeJoins(n) \/ NodeLeaves(n) \/ NodeRelabelled(n)
  <2>1. PICK n \in Node : NodeJoins(n) \/ NodeLeaves(n) \/ NodeRelabelled(n)
    BY <1>5
  <2>2. /\ nodeLinks' = nodeLinks
        /\ \A m \in Node : m # n => node'[m] = node[m]
        /\ \/ node'[n].uid = node[n].uid /\ (~node[n].up => ~node'[n].up)
           \/ node'[n].uid = node[n].uid + 1
    BY <1>1, <2>1 DEF NodeJoins, NodeLeaves, NodeRelabelled, NodeObject, TypeInv, ApiType
  <2>3. \A m \in Node : 
          \/ node'[m].uid = node[m].uid /\ (~node[m].up => ~node'[m].up)
          \/ node'[m].uid = node[m].uid + 1
    BY <2>2
  <2>4. \A m \in DOMAIN nodes : m \in Node /\ nodes[m] \in Nat
    BY DEF TypeInv, CtlType
  <2>. QED
    BY <1>1, <1>2, <1>3, <2>2, <2>3, <2>4 DEF OwnerOK
<1>6. CASE \/ Deliver
           \/ \E l \in Link : CreateLink(l) \/ UpdateLink(l) \/ DeleteLink(l)
           \/ \E n \in Node : NodeLinksEvent(n)
  <2>1. UNCHANGED <<nodeLinks, node>>
    BY <1>6
    DEF Deliver, DeliverLink, DeliverNodeLinks, CreateLink, UpdateLink, DeleteLink,
        NodeLinksEvent, api
  <2>. QED
    BY <1>3, <2>1, OwnerFrame
<1>. QED
  BY <1>4, <1>5, <1>6 DEF Environment

(* At first there is no NodeLinks, hence no owner that is behind.            *)
LEMMA InitOwner == Init => OwnerOK
  BY DEF Init, IdleInit, OwnerOK, NoNodeLinks, NoNodes

(* A node that rejoins gets a new uid, and owners are only ever set to the   *)
(* uid of a node that was listed.                                            *)
LEMMA NextOwner == TypeInv /\ OwnerOK /\ [Next]_vars => OwnerOK'
<1>. SUFFICES ASSUME TypeInv, OwnerOK, [Next]_vars
              PROVE  OwnerOK'
  OBVIOUS
<1>1. CASE Next
  BY <1>1, ReconcileOwner, FailureOwner, OutsideOwner DEF Next
<1>2. CASE UNCHANGED vars
  BY <1>2, OwnerFrame DEF vars, api, ctl, loop
<1>. QED
  BY <1>1, <1>2

(* The write that takes the finalizer off has dropFin set.                   *)
LEMMA FinalizerStep ==
  ASSUME TypeInv, OwnerOK, RemoveWrite, NEW n \in Node,
         nodeLinks[n].fin, ~nodeLinks'[n].fin
  PROVE  Orphaned(n)
<1>1. at \in Node
  BY DEF RemoveWrite, TypeInv, CtlType, LoopOK
<1>. DEFINE o == IF LastLink THEN Deleted(nodeLinks[at], NoNodeLinks)
                             ELSE Removed(nodeLinks[at])
<1>2. nodeLinks' = nodeLinks \/ nodeLinks' = [nodeLinks EXCEPT ![at] = o]
  BY DEF RemoveWrite
<1>3. n = at /\ ~o.fin
  BY <1>1, <1>2 DEF TypeInv, ApiType
<1>4. dropFin
  BY <1>3 DEF Deleted, Removed, Stored, TypeInv, ApiType, NodeLinksObject
<1>5. node[n].uid \in Nat /\ nodeLinks[n].owner \in Nat
  BY DEF TypeInv, ApiType, NodeObject, NodeLinksObject
<1>. QED
  BY <1>3, <1>4, <1>5 DEF OwnerOK, Orphaned

(* The controller takes the finalizer of an agent off a NodeLinks only when  *)
(* the node that the agent ran on is gone, however stale its reads are and   *)
(* even when the node comes back between the check and the write.            *)
THEOREM FinalizerOfLostNode == Spec => FinalizerOfLostNodeOnly
<1>1. TypeInv /\ OwnerOK /\ [Next]_vars
        => [\A n \in Node :
              RemoveWrite /\ nodeLinks[n].fin /\ ~nodeLinks'[n].fin => Orphaned(n)]_vars
  BY FinalizerStep
<1>. QED
  BY <1>1, InitType, NextType, InitOwner, NextOwner, PTL DEF Spec, FinalizerOfLostNodeOnly

-----------------------------------------------------------------------------
(* What is known of the reconciliation in progress when reads are fresh.     *)

(* The node is told to apply the Link.                                       *)
Lists(n, l) ==
  nodeLinks[n].there /\ ~nodeLinks[n].deleting /\ l \in nodeLinks[n].matching

Listers == {n \in Node : Lists(n, cur)}

(* An object that does not exist is empty; one that is being deleted still   *)
(* has its agent's finalizer.                                                *)
NodeLinksOK ==
  \A n \in Node : /\ ~nodeLinks[n].there => nodeLinks[n] = NoNodeLinks
                  /\ nodeLinks[n].deleting => nodeLinks[n].fin

(* The copy of the Link names every node that lists the Link, and the copy   *)
(* keeps the finalizer while there is one.                                   *)
CopyOK == pc # "idle" => Listers \subseteq mem.matched /\ (~mem.fin => Listers = {})

(* What was read of a NodeLinks is still so when it is written, unless the   *)
(* object is gone or is being deleted meanwhile: nobody else writes its list.*)
GotOK ==
  /\ pc \in {"checkNode", "removeWrite", "registerWrite"} /\ nodeLinks[at].there
       => /\ got.there /\ nodeLinks[at].matching = got.matching
          /\ got.deleting => nodeLinks[at].deleting
  /\ pc = "checkNode" => got.deleting
  /\ pc = "removeWrite" => got.deleting \/ cur \in got.matching
  /\ dropFin => pc = "removeWrite" /\ got.deleting

(* Unless an iteration failed, the nodes that list the Link still have their *)
(* turn in the loop or are to be matched.                                    *)
RemovalOK ==
  pc \in {"remove", "checkNode", "removeWrite"} /\ ~failed
    => Listers \subseteq todo \cup DOMAIN nodes

(* Only an upsert lists nodes and registers.                                 *)
UpsertOK ==
  /\ action # "upsert" \/ pc = "idle" => DOMAIN nodes = {}
  /\ pc \in {"list", "register", "registerWrite"} => action = "upsert"
  /\ pc = "patch" /\ then \in {"list", "register"} => action = "upsert"

(* The Link is held by its finalizer and its stored status is the base of    *)
(* the next patch.                                                           *)
Held == link[cur].there /\ link[cur].fin /\ link[cur].matched = clusterState.matched

(* An upsert holds the Link before it looks at nodes, and has stored the     *)
(* matched nodes before it registers with any of them.                       *)
HeldOK ==
  /\ action = "upsert" /\ \/ pc \in {"list", "remove", "checkNode", "removeWrite"}
                          \/ pc = "patch" /\ then = "register"
       => Held /\ mem.fin /\ clusterState.fin
  /\ pc = "patch" /\ then = "list" => mem.fin /\ (clusterState.fin => Held)
  /\ pc = "patch" /\ then = "register" => mem.matched = DOMAIN nodes
  /\ pc \in {"register", "registerWrite"}
       => /\ Held /\ mem.fin
          /\ mem.matched = DOMAIN nodes /\ DOMAIN nodes \subseteq link[cur].matched

(* All of this is one inductive invariant: Tracked alone is not, for what is *)
(* written next depends on what the reconciliation has read.                 *)
FreshInv ==
  /\ NodeLinksOK /\ Tracked /\ CopyOK /\ GotOK /\ RemovalOK /\ UpsertOK /\ HeldOK

(* With fresh reads, what is read is what is stored.                         *)
LEMMA FreshReads ==
  ASSUME ~StaleReads
  PROVE  /\ \A l : ReadLink(l) = link[l]
         /\ \A n : ReadNodeLinks(n) = nodeLinks[n]
  BY DEF ReadLink, ReadNodeLinks

(* The start of a reconciliation: the copy of the Link is what is stored, so *)
(* it names every node that lists the Link.                                  *)
LEMMA StartFresh ==
  ASSUME ~StaleReads, TypeInv, FreshInv, NEW l \in Link,
         ReconcileNothing(l) \/ ReconcileUpsert(l) \/ ReconcileDeletion(l)
  PROVE  FreshInv'
<1>. USE DEF FreshInv, api, informer, bounds, loop, ctl
<1>1. CASE ReconcileNothing(l)
  BY <1>1
  DEF ReconcileNothing, NodeLinksOK, Tracked, CopyOK, GotOK, RemovalOK, UpsertOK, HeldOK,
      Held, Listers, Lists
<1>2. CASE ReconcileUpsert(l) \/ ReconcileDeletion(l)
  <2>1. /\ UNCHANGED <<link, nodeLinks, nodes>> /\ cur' = l /\ clusterState' = link[l]
        /\ pc' \in {"list", "patch", "remove"} /\ mem'.matched = link[l].matched /\ mem'.fin
        /\ pc = "idle" /\ ~dropFin'
    BY <1>2, FreshReads
    DEF ReconcileUpsert, ReconcileDeletion, GotOK, TypeInv, CtlType, ApiType, LinkObject
  <2>2. NodeLinksOK' /\ Tracked'
    BY <2>1 DEF NodeLinksOK, Tracked
  <2>3. Listers' \subseteq link[l].matched
    BY <2>1 DEF Tracked, Listers, Lists
  <2>4. CopyOK' /\ GotOK'
    BY <2>1, <2>3 DEF CopyOK, GotOK
  <2>5. RemovalOK'
    BY <1>2, <2>1, <2>3, FreshReads DEF ReconcileUpsert, ReconcileDeletion, RemovalOK
  <2>6. UpsertOK' /\ HeldOK'
    BY <1>2, <2>1, FreshReads
    DEF ReconcileUpsert, ReconcileDeletion, UpsertOK, HeldOK, Held
  <2>. QED
    BY <2>2, <2>4, <2>5, <2>6
<1>. QED
  BY <1>1, <1>2

(* The loop that takes the Link out of NodeLinks.                            *)
LEMMA RemovalReadsFresh ==
  ASSUME ~StaleReads, TypeInv, FreshInv,
         ListNodes \/ (\E n \in Node : RemoveSkip(n) \/ RemoveRead(n)) \/ CheckNode
  PROVE  FreshInv'
<1>. USE DEF FreshInv, api, informer, bounds, loop, ctl
<1>0. /\ UNCHANGED <<link, nodeLinks, cur, action, clusterState>>
      /\ mem'.matched = mem.matched /\ mem'.fin = mem.fin
      /\ pc # "idle"
  BY DEF ListNodes, RemoveSkip, RemoveRead, CheckNode, TypeInv, CtlType, LinkObject
<1>1. NodeLinksOK' /\ Tracked' /\ Listers' = Listers /\ CopyOK'
  BY <1>0 DEF NodeLinksOK, Tracked, Listers, Lists, CopyOK
<1>2. CASE ListNodes
  BY <1>0, <1>1, <1>2 DEF ListNodes, GotOK, CopyOK, RemovalOK, UpsertOK, HeldOK, Held
<1>3. ASSUME NEW n \in Node, RemoveSkip(n)
      PROVE  FreshInv'
  <2>1. n \notin Listers
    BY <1>3, FreshReads DEF RemoveSkip, Listers, Lists, NodeLinksOK
  <2>. QED
    BY <1>0, <1>1, <1>3, <2>1 DEF RemoveSkip, GotOK, RemovalOK, UpsertOK, HeldOK, Held
<1>4. ASSUME NEW n \in Node, RemoveRead(n)
      PROVE  FreshInv'
  <2>1. GotOK'
    BY <1>0, <1>4, FreshReads DEF RemoveRead, GotOK, TypeInv, CtlType
  <2>. QED
    BY <1>0, <1>1, <1>4, <2>1 DEF RemoveRead, RemovalOK, UpsertOK, HeldOK, Held
<1>5. CASE CheckNode
  <2>1. at \notin Listers
    BY <1>5 DEF CheckNode, GotOK, Listers, Lists
  <2>2. GotOK'
    BY <1>0, <1>5 DEF CheckNode, NextRemoval, GotOK
  <2>. QED
    BY <1>0, <1>1, <1>5, <2>1, <2>2
    DEF CheckNode, NextRemoval, RemovalOK, UpsertOK, HeldOK, Held
<1>. QED
  BY <1>2, <1>3, <1>4, <1>5

(* The write takes the Link, and no other Link, out of the NodeLinks: it is  *)
(* made from a list that nobody else has changed since it was read.          *)
LEMMA RemovedObject ==
  ASSUME TypeInv, NodeLinksOK, GotOK, RemoveWrite, nodeLinks[at].there,
         NEW o, o = IF LastLink THEN Deleted(nodeLinks[at], NoNodeLinks)
                                ELSE Removed(nodeLinks[at])
  PROVE  /\ ~o.there => o = NoNodeLinks
         /\ o.deleting => o.fin
         /\ o.there /\ ~o.deleting
              => /\ ~nodeLinks[at].deleting
                 /\ o.matching = nodeLinks[at].matching \ {cur}
<1>1. at \in Node /\ nodeLinks[at] \in NodeLinksObject
  BY DEF RemoveWrite, TypeInv, CtlType, ApiType, LoopOK
<1>2. /\ nodeLinks[at].matching = got.matching
      /\ dropFin => nodeLinks[at].deleting
      /\ nodeLinks[at].deleting => nodeLinks[at].fin
  BY <1>1 DEF RemoveWrite, GotOK, NodeLinksOK
<1>. QED
  BY <1>1, <1>2 DEF Deleted, Removed, Stored, NoNodeLinks, NodeLinksObject

(* So the removal keeps the invariant: the node that is taken off the copy   *)
(* no longer lists the Link.                                                 *)
LEMMA RemoveWriteFresh ==
  ASSUME TypeInv, FreshInv, RemoveWrite
  PROVE  FreshInv'
<1>. USE DEF FreshInv, informer, bounds
<1>0. /\ UNCHANGED <<link, cur, action, clusterState, nodes, failed, then>>
      /\ pc = "removeWrite" /\ pc' = "remove" /\ todo' = todo \ {at} /\ ~dropFin'
      /\ at \in Node /\ mem'.fin = mem.fin
  BY DEF RemoveWrite, NextRemoval, TypeInv, CtlType, LoopOK, LinkObject
<1>1. CASE nodeLinks[at].there
  <2>. DEFINE o == IF LastLink THEN Deleted(nodeLinks[at], NoNodeLinks)
                               ELSE Removed(nodeLinks[at])
  <2>1. nodeLinks' = [nodeLinks EXCEPT ![at] = o] /\ mem'.matched = mem.matched \ {at}
    BY <1>1 DEF RemoveWrite, TypeInv, CtlType, LinkObject
  <2>2. /\ ~o.there => o = NoNodeLinks
        /\ o.deleting => o.fin
        /\ o.there /\ ~o.deleting
             => /\ ~nodeLinks[at].deleting
                /\ o.matching = nodeLinks[at].matching \ {cur}
    BY <1>1, RemovedObject
  <2>. HIDE DEF o
  <2>3. NodeLinksOK'
    BY <1>0, <2>1, <2>2 DEF NodeLinksOK, TypeInv, ApiType
  <2>4. \A n \in Node, l \in Link : Lists(n, l)' => Lists(n, l) /\ ~(n = at /\ l = cur)
    BY <1>0, <1>1, <2>1, <2>2 DEF Lists, TypeInv, ApiType
  <2>5. cur \in Link
    BY <1>0 DEF TypeInv, LoopOK
  <2>6. Listers' \subseteq Listers \ {at}
    BY <1>0, <2>4, <2>5 DEF Listers, Lists
  <2>7. Tracked'
    BY <1>0, <2>4 DEF Tracked, Lists
  <2>. QED
    BY <1>0, <2>1, <2>3, <2>6, <2>7
    DEF CopyOK, GotOK, RemovalOK, UpsertOK, HeldOK, Held
<1>2. CASE ~nodeLinks[at].there
  <2>1. UNCHANGED <<nodeLinks, mem>>
    BY <1>2 DEF RemoveWrite
  <2>2. at \notin Listers /\ Listers' = Listers
    BY <1>0, <1>2, <2>1 DEF Listers, Lists
  <2>3. NodeLinksOK' /\ Tracked'
    BY <1>0, <2>1 DEF NodeLinksOK, Tracked
  <2>. QED
    BY <1>0, <2>1, <2>2, <2>3 DEF CopyOK, GotOK, RemovalOK, UpsertOK, HeldOK, Held
<1>. QED
  BY <1>1, <1>2

(* handleError changes no object and remembers which nodes were matched.     *)
LEMMA HandleErrorFresh ==
  ASSUME TypeInv, FreshInv, pc # "idle", HandleError, UNCHANGED <<link, nodeLinks>>
  PROVE  FreshInv'
<1>1. /\ UNCHANGED <<link, nodeLinks, cur, action, clusterState, nodes>>
      /\ pc' = "patch" /\ then' = "error" /\ ~dropFin'
      /\ mem'.matched = mem.matched /\ mem'.fin = mem.fin
  BY DEF HandleError, CallPatch, TypeInv, CtlType, LinkObject
<1>. QED
  BY <1>1
  DEF FreshInv, NodeLinksOK, Tracked, Listers, Lists, CopyOK, GotOK, RemovalOK,
      UpsertOK, HeldOK, Held

(* The end of a reconciliation leaves nothing to keep.                       *)
LEMMA FinishFresh ==
  ASSUME FreshInv, Finish, NodeLinksOK', Tracked'
  PROVE  FreshInv'
  BY DEF FreshInv, Finish, NoNodes, CopyOK, GotOK, RemovalOK, UpsertOK, HeldOK

(* When the loop is through and nothing failed, the nodes to be matched are  *)
(* the only ones that still list the Link; a Link being deleted has none.    *)
LEMMA RemovalsDoneFresh ==
  ASSUME TypeInv, FreshInv, RemovalsDone
  PROVE  FreshInv'
<1>. USE DEF FreshInv, informer, bounds, api
<1>1. pc = "remove" /\ todo = {} /\ UNCHANGED <<link, nodeLinks>>
  BY DEF RemovalsDone
<1>2. CASE HandleError
  BY <1>1, <1>2, HandleErrorFresh
<1>3. CASE ~HandleError
  <2>1. /\ UNCHANGED <<cur, action, clusterState, nodes>> /\ ~failed
        /\ pc' = "patch" /\ ~dropFin'
        /\ \/ /\ action = "upsert" /\ then' = "register"
              /\ mem'.matched = DOMAIN nodes /\ mem'.fin = mem.fin
           \/ /\ action = "delete" /\ then' = "done"
              /\ mem'.matched = mem.matched
    BY <1>3 DEF RemovalsDone, CallPatch, TypeInv, CtlType, LinkObject
  <2>2. Listers' = Listers /\ Listers \subseteq DOMAIN nodes
    BY <1>1, <2>1 DEF Listers, Lists, RemovalOK
  <2>3. NodeLinksOK' /\ Tracked'
    BY <1>1 DEF NodeLinksOK, Tracked
  <2>4. CopyOK'
    BY <1>1, <2>1, <2>2 DEF CopyOK, UpsertOK
  <2>. QED
    BY <1>1, <2>1, <2>3, <2>4 DEF GotOK, RemovalOK, UpsertOK, HeldOK, Held
<1>. QED
  BY <1>2, <1>3

(* The loop that puts the Link into NodeLinks: reading them.                 *)
LEMMA RegistrationReadsFresh ==
  ASSUME ~StaleReads, TypeInv, FreshInv, NEW n \in Node, RegisterSkip(n) \/ RegisterRead(n)
  PROVE  FreshInv'
<1>. USE DEF FreshInv, api, informer, bounds
<1>1. /\ UNCHANGED <<link, nodeLinks, cur, action, clusterState, mem, nodes, dropFin>>
      /\ pc = "register" /\ pc' \in {"register", "registerWrite"}
  BY DEF RegisterSkip, RegisterRead
<1>2. Listers' = Listers
  BY <1>1 DEF Listers, Lists
<1>3. NodeLinksOK' /\ Tracked'
  BY <1>1 DEF NodeLinksOK, Tracked
<1>4. pc' = "registerWrite" => at' = n /\ got' = nodeLinks[n] 
  BY <1>1, FreshReads DEF RegisterSkip, RegisterRead
<1>5. GotOK'
  BY <1>1, <1>4 DEF GotOK
<1>. QED
  BY <1>1, <1>2, <1>3, <1>5 DEF CopyOK, RemovalOK, UpsertOK, HeldOK, Held

(* The write adds the Link, and no other Link, to the NodeLinks.             *)
LEMMA RegisteredObject ==
  ASSUME TypeInv, NodeLinksOK, GotOK, RegisterCreate \/ RegisterPatch,
         nodeLinks' # nodeLinks
  PROVE  /\ nodeLinks'[at].there /\ nodeLinks'[at].deleting = nodeLinks[at].deleting
         /\ nodeLinks'[at].fin = nodeLinks[at].fin
         /\ nodeLinks'[at].matching = nodeLinks[at].matching \cup {cur}
         /\ nodeLinks[at].there <=> got.there
         /\ \A n \in Node : n # at => nodeLinks'[n] = nodeLinks[n]
<1>1. at \in Node /\ nodeLinks[at] \in NodeLinksObject
  BY DEF RegisterCreate, RegisterPatch, TypeInv, CtlType, ApiType, LoopOK
<1>2. CASE RegisterCreate
  <2>1. nodeLinks[at] = NoNodeLinks /\ ~got.there
    BY <1>1, <1>2 DEF RegisterCreate, NodeLinksOK
  <2>2. nodeLinks' = [nodeLinks EXCEPT ![at] = Registered(NoNodeLinks)]
    BY <1>2 DEF RegisterCreate
  <2>. QED
    BY <1>1, <2>1, <2>2 DEF Registered, NoNodeLinks, TypeInv, ApiType
<1>3. CASE RegisterPatch
  <2>. DEFINE o == [nodeLinks[at] EXCEPT
                     !.matching = IF cur \in got.matching THEN @
                                                          ELSE got.matching \cup {cur},
                     !.owner = IF got.owner = nodes[at] THEN @ ELSE nodes[at]]
  <2>1. nodeLinks' = [nodeLinks EXCEPT ![at] = o] /\ nodeLinks[at].there /\ got.there
    BY <1>1, <1>3 DEF RegisterPatch, TypeInv, ApiType
  <2>2. nodeLinks[at].matching = got.matching
    BY <1>3, <2>1 DEF RegisterPatch, GotOK
  <2>3. /\ o.there /\ o.deleting = nodeLinks[at].deleting /\ o.fin = nodeLinks[at].fin
        /\ o.matching = nodeLinks[at].matching \cup {cur}
    BY <1>1, <2>1, <2>2 DEF NodeLinksObject
  <2>. HIDE DEF o
  <2>. QED
    BY <1>1, <2>1, <2>3 DEF TypeInv, ApiType
<1>. QED
  BY <1>2, <1>3

(* So a registration keeps the invariant: the Link is held and its stored    *)
(* status already names the node.                                            *)
LEMMA RegistrationFresh ==
  ASSUME TypeInv, FreshInv, RegisterCreate \/ RegisterPatch
  PROVE  FreshInv'
<1>. USE DEF FreshInv, informer, bounds
<1>0. /\ UNCHANGED <<link, cur, action, clusterState, mem, nodes, dropFin>>
      /\ pc = "registerWrite" /\ pc' = "register"
      /\ at \in DOMAIN nodes /\ at \in Node /\ cur \in Link
  BY DEF RegisterCreate, RegisterPatch, NextRegistration, TypeInv, CtlType, LoopOK
<1>1. NodeLinksOK' /\ \A n \in Node, l \in Link :
                        Lists(n, l)' => Lists(n, l) \/ (n = at /\ l = cur)
  <2>1. CASE nodeLinks' = nodeLinks
    BY <2>1 DEF NodeLinksOK, Lists
  <2>2. CASE nodeLinks' # nodeLinks
    <3>1. /\ nodeLinks'[at].there /\ nodeLinks'[at].deleting = nodeLinks[at].deleting
          /\ nodeLinks'[at].fin = nodeLinks[at].fin
          /\ nodeLinks'[at].matching = nodeLinks[at].matching \cup {cur}
          /\ \A n \in Node : n # at => nodeLinks'[n] = nodeLinks[n]
      BY <2>2, RegisteredObject
    <3>2. nodeLinks[at].there \/ nodeLinks[at].matching = {}
      BY <1>0 DEF NodeLinksOK, NoNodeLinks
    <3>. QED
      BY <1>0, <3>1, <3>2 DEF NodeLinksOK, Lists, TypeInv, ApiType
  <2>. QED
    BY <2>1, <2>2
<1>2. Tracked'
  BY <1>0, <1>1 DEF Tracked, Lists, HeldOK, Held
<1>3. Listers' \subseteq Listers \cup {at}
  BY <1>0, <1>1 DEF Listers, Lists
<1>4. CopyOK'
  BY <1>0, <1>3 DEF CopyOK, HeldOK
<1>. QED
  BY <1>0, <1>1, <1>2, <1>4 DEF GotOK, RemovalOK, UpsertOK, HeldOK, Held

(* After the registrations only the Ready condition is left to store.        *)
LEMMA RegistrationsDoneFresh ==
  ASSUME TypeInv, FreshInv, RegistrationsDone
  PROVE  FreshInv'
<1>. USE DEF FreshInv, informer, bounds, api
<1>1. pc = "register" /\ UNCHANGED <<link, nodeLinks>>
  BY DEF RegistrationsDone
<1>2. CASE HandleError
  BY <1>1, <1>2, HandleErrorFresh
<1>3. CASE ~HandleError
  <2>1. /\ UNCHANGED <<cur, action, clusterState, nodes>>
        /\ pc' = "patch" /\ then' = "done" /\ ~dropFin'
        /\ mem'.matched = mem.matched /\ mem'.fin = mem.fin
    BY <1>3 DEF RegistrationsDone, CallPatch, TypeInv, CtlType, LinkObject
  <2>. QED
    BY <1>1, <2>1
    DEF NodeLinksOK, Tracked, Listers, Lists, CopyOK, GotOK, RemovalOK, UpsertOK,
        HeldOK, Held
<1>. QED
  BY <1>2, <1>3

(* A failed patch ends the reconciliation or is handled like any error.      *)
LEMMA PatchFailsFresh ==
  ASSUME TypeInv, FreshInv, pc = "patch", PatchFails, UNCHANGED <<link, nodeLinks>>
  PROVE  FreshInv'
<1>1. NodeLinksOK' /\ Tracked'
  BY DEF FreshInv, NodeLinksOK, Tracked
<1>. QED
  BY <1>1, HandleErrorFresh, FinishFresh DEF PatchFails, Requeue

(* The patch of the Link itself puts the finalizer on, which holds the Link, *)
(* or takes it off when no node lists the Link any more.                     *)
LEMMA PatchMainFresh ==
  ASSUME TypeInv, FreshInv, PatchMain
  PROVE  FreshInv'
<1>. USE DEF FreshInv, informer, bounds
<1>0. pc = "patch" /\ cur \in Link /\ nodeLinks' = nodeLinks /\ mem.fin # clusterState.fin
  BY DEF PatchMain, TypeInv, LoopOK
<1>1. CASE ~link[cur].there
  BY <1>0, <1>1, PatchFailsFresh DEF PatchMain
<1>2. CASE link[cur].there
  <2>. DEFINE response == [link[cur] EXCEPT !.fin = mem.fin]
              stored   == Stored(response, NoLink)
  <2>1. /\ link' = [link EXCEPT ![cur] = stored] /\ clusterState' = response
        /\ mem' = [response EXCEPT !.matched = mem.matched, !.ready = mem.ready]
        /\ UNCHANGED <<pc, cur, action, nodes, loop, then>>
    BY <1>0, <1>2, PatchFailsFresh DEF PatchMain
  <2>2. link[cur] \in LinkObject /\ mem \in LinkObject
    BY <1>0 DEF TypeInv, ApiType, CtlType
  <2>3. /\ response.fin = mem.fin /\ response.matched = link[cur].matched
        /\ mem'.fin = mem.fin /\ mem'.matched = mem.matched
        /\ mem.fin => /\ stored.there /\ stored.fin
                      /\ stored.matched = link[cur].matched
    BY <1>2, <2>1, <2>2 DEF Stored, LinkObject
  <2>. HIDE DEF response, stored
  <2>4. Listers' = Listers
    BY <1>0, <2>1 DEF Listers, Lists
  <2>5. Listers # {} => mem.fin
    BY <1>0 DEF CopyOK
  <2>6. Tracked'
    <3>. SUFFICES ASSUME NEW l \in Link, NEW n \in Node, Lists(n, l)
                  PROVE  link'[l].there /\ link'[l].fin /\ n \in link'[l].matched
      BY <1>0 DEF Tracked, Lists
    <3>1. link[l].there /\ link[l].fin /\ n \in link[l].matched
      BY DEF Tracked, Lists
    <3>2. CASE l = cur
      BY <2>1, <2>3, <2>5, <3>1, <3>2 DEF Listers, TypeInv, ApiType
    <3>3. CASE l # cur
      BY <2>1, <3>1, <3>3 DEF TypeInv, ApiType
    <3>. QED
      BY <3>2, <3>3
  <2>7. CopyOK' /\ NodeLinksOK' /\ GotOK' /\ RemovalOK' /\ UpsertOK'
    BY <1>0, <2>1, <2>3, <2>4
    DEF CopyOK, NodeLinksOK, GotOK, RemovalOK, UpsertOK, loop
  <2>8. then # "register"
    BY <1>0, <2>2 DEF HeldOK, UpsertOK, TypeInv, CtlType, LinkObject
  <2>9. mem.fin => Held'
    BY <1>0, <2>1, <2>3 DEF Held, TypeInv, ApiType
  <2>. QED
    BY <1>0, <2>1, <2>3, <2>6, <2>7, <2>8, <2>9 DEF HeldOK
<1>. QED
  BY <1>1, <1>2

(* The patch of the status stores the matched nodes before the loop that     *)
(* registers with them starts.                                               *)
LEMMA PatchStatusFresh ==
  ASSUME TypeInv, FreshInv, PatchStatus
  PROVE  FreshInv'
<1>. USE DEF FreshInv, informer, bounds
<1>0. pc = "patch" /\ cur \in Link /\ nodeLinks' = nodeLinks /\ mem.fin = clusterState.fin
  BY DEF PatchStatus, TypeInv, LoopOK
<1>1. NodeLinksOK'
  BY <1>0 DEF NodeLinksOK
<1>2. Listers \subseteq mem.matched /\ (Listers # {} => mem.fin)
  BY <1>0 DEF CopyOK
<1>. DEFINE o == PatchedStatus(link[cur])
<1>3. /\ o.there = link[cur].there /\ o.fin = link[cur].fin
      /\ o.matched = IF mem.matched = clusterState.matched THEN link[cur].matched
                                                           ELSE mem.matched
  <2>1. link[cur] \in LinkObject
    BY <1>0 DEF TypeInv, ApiType
  <2>. QED
    BY <2>1 DEF PatchedStatus, LinkObject
<1>4. link' = link \/ (link' = [link EXCEPT ![cur] = o] /\ link[cur].there)
  BY DEF PatchStatus
<1>5. CASE PatchFails /\ link' = link
  BY <1>0, <1>5, PatchFailsFresh
<1>. HIDE DEF o
<1>6. Tracked'
  <2>. SUFFICES ASSUME NEW l \in Link, NEW n \in Node, Lists(n, l)
                PROVE  link'[l].there /\ link'[l].fin /\ n \in link'[l].matched
    BY <1>0 DEF Tracked, Lists
  <2>1. link[l].there /\ link[l].fin /\ n \in link[l].matched
    BY DEF Tracked, Lists
  <2>2. l = cur => n \in mem.matched
    BY <1>2 DEF Listers
  <2>. QED
    BY <1>3, <1>4, <2>1, <2>2 DEF TypeInv, ApiType
<1>7. CASE PatchEnds
  BY <1>1, <1>6, <1>7, FinishFresh DEF PatchEnds, Requeue
<1>8. CASE PatchReturns
  <2>1. /\ UNCHANGED <<cur, action, nodes, dropFin>> /\ pc' = then
        /\ then \in {"list", "register"}
    BY <1>8 DEF PatchReturns, loop
  <2>2. Listers' = Listers
    BY <1>0, <2>1 DEF Listers, Lists
  <2>3. mem.fin /\ clusterState.fin /\ Held /\ action = "upsert"
    BY <1>0, <2>1 DEF HeldOK, UpsertOK
  <2>4. /\ link'[cur].there /\ link'[cur].fin /\ mem'.fin /\ clusterState'.fin
        /\ link'[cur].matched = clusterState'.matched
        /\ clusterState'.matched = mem'.matched /\ mem'.matched = mem.matched
    <3>1. CASE link' = [link EXCEPT ![cur] = o] /\ mem' = o /\ clusterState' = o
      <4>1. link'[cur] = o
        BY <1>0, <3>1 DEF TypeInv, ApiType
      <4>2. o.there /\ o.fin /\ o.matched = mem.matched
        BY <1>3, <2>3 DEF Held
      <4>. QED
        BY <3>1, <4>1, <4>2
    <3>2. CASE SameStatus /\ UNCHANGED <<link, mem, clusterState>>
      BY <2>3, <3>2 DEF Held, SameStatus
    <3>. QED
      BY <1>0, <2>1, <2>3, <3>1, <3>2
      DEF PatchStatus, o, PatchEnds, PatchFails, HandleError, CallPatch, Held
  <2>. QED
    BY <1>0, <1>1, <1>2, <1>6, <2>1, <2>2, <2>3, <2>4
    DEF CopyOK, GotOK, RemovalOK, UpsertOK, HeldOK, Held
<1>. QED
  BY <1>4, <1>5, <1>7, <1>8 DEF PatchStatus

(* A failed call only fails its iteration or the reconciliation.             *)
LEMMA FailureFresh ==
  ASSUME TypeInv, FreshInv, APICallFails \/ Restart
  PROVE  FreshInv'
<1>. USE DEF FreshInv
<1>0. UNCHANGED <<link, nodeLinks>>
  BY DEF APICallFails, Restart, api
<1>1. NodeLinksOK' /\ Tracked'
  BY <1>0 DEF NodeLinksOK, Tracked
<1>2. CASE Restart
  BY <1>1, <1>2, FinishFresh DEF Restart
<1>3. CASE pc = "list" /\ HandleError
  BY <1>0, <1>3, HandleErrorFresh
<1>4. CASE pc = "patch" /\ PatchFails
  BY <1>0, <1>4, PatchFailsFresh
<1>5. CASE \/ pc \in {"checkNode", "removeWrite"} /\ IterationFails("remove")
           \/ pc = "registerWrite" /\ IterationFails("register")
  BY <1>0, <1>1, <1>5
  DEF IterationFails, Listers, Lists, CopyOK, GotOK, RemovalOK, UpsertOK, HeldOK, Held
<1>6. CASE \E n \in Node : ReadFails(n)
  BY <1>0, <1>1, <1>6
  DEF ReadFails, Listers, Lists, CopyOK, GotOK, RemovalOK, UpsertOK, HeldOK, Held
<1>. QED
  BY <1>2, <1>3, <1>5, <1>6, <1>4 DEF APICallFails

(* What goes on around the controller puts no Link into a NodeLinks, writes  *)
(* no status of a Link and does not remove a Link that has the finalizer.    *)
LEMMA Outside ==
  ASSUME TypeInv, NodeLinksOK,
         Deliver \/ Agent \/ (\E n \in Node : CollectGarbage(n)) \/ Environment
  PROVE  /\ UNCHANGED ctl /\ NodeLinksOK'
         /\ \A n \in Node :
              /\ nodeLinks'[n].there
                   => nodeLinks[n].there /\ nodeLinks'[n].matching = nodeLinks[n].matching
              /\ nodeLinks[n].there /\ nodeLinks'[n].there /\ nodeLinks[n].deleting
                   => nodeLinks'[n].deleting
         /\ \A l \in Link :
              link[l].there /\ link[l].fin
                => link'[l].there /\ link'[l].fin /\ link'[l].matched = link[l].matched
<1>0. /\ \A n \in Node : nodeLinks[n] \in NodeLinksObject
      /\ \A l \in Link : link[l] \in LinkObject
  BY DEF TypeInv, ApiType
<1>1. UNCHANGED ctl
  BY DEF Deliver, DeliverLink, DeliverNodeLinks, Agent,
         AgentAddsFinalizer, AgentRemovesFinalizer, CollectGarbage, Environment,
         CreateLink, UpdateLink, DeleteLink, NodeJoins, NodeLeaves, NodeRelabelled,
         NodeLinksEvent
<1>2. CASE Agent \/ \E n \in Node : CollectGarbage(n)
  <2>1. PICK n \in Node :
          AgentAddsFinalizer(n) \/ AgentRemovesFinalizer(n) \/ CollectGarbage(n)
    BY <1>2 DEF Agent
  <2>2. link' = link /\ \A m \in Node : m # n => nodeLinks'[m] = nodeLinks[m]
    BY <2>1
    DEF AgentAddsFinalizer, AgentRemovesFinalizer, CollectGarbage, TypeInv, ApiType
  <2>3. nodeLinks[n].there
    BY <2>1 DEF AgentAddsFinalizer, AgentRemovesFinalizer, CollectGarbage, NodeLinksOK,
                NoNodeLinks
  <2>4. nodeLinks'[n] \in {NoNodeLinks, [nodeLinks[n] EXCEPT !.fin = TRUE],
                            Deleted(nodeLinks[n], NoNodeLinks)}
    BY <2>1
    DEF AgentAddsFinalizer, AgentRemovesFinalizer, CollectGarbage, TypeInv, ApiType
  <2>5. /\ nodeLinks'[n].there
             => /\ nodeLinks'[n].matching = nodeLinks[n].matching
                /\ nodeLinks[n].deleting => nodeLinks'[n].deleting
        /\ ~nodeLinks'[n].there => nodeLinks'[n] = NoNodeLinks
        /\ nodeLinks'[n].deleting => nodeLinks'[n].fin
    <3>1. CASE nodeLinks'[n] = NoNodeLinks
      BY <3>1 DEF NoNodeLinks
    <3>2. CASE nodeLinks'[n] = [nodeLinks[n] EXCEPT !.fin = TRUE]
      BY <1>0, <2>3, <3>2 DEF NodeLinksObject
    <3>3. CASE nodeLinks'[n] = Deleted(nodeLinks[n], NoNodeLinks)
      BY <1>0, <2>3, <3>3 DEF NoNodeLinks, Deleted, Stored, NodeLinksObject
    <3>. QED
      BY <2>4, <3>1, <3>2, <3>3
  <2>6. ASSUME NEW m \in Node
        PROVE  /\ nodeLinks'[m].there => /\ nodeLinks[m].there
                                        /\ nodeLinks'[m].matching = nodeLinks[m].matching
               /\ nodeLinks[m].there /\ nodeLinks'[m].there /\ nodeLinks[m].deleting
                    => nodeLinks'[m].deleting
               /\ ~nodeLinks'[m].there => nodeLinks'[m] = NoNodeLinks
               /\ nodeLinks'[m].deleting => nodeLinks'[m].fin
    <3>1. CASE m = n
      BY <2>3, <2>5, <3>1
    <3>2. CASE m # n
      BY <2>2, <3>2 DEF NodeLinksOK
    <3>. QED
      BY <3>1, <3>2
  <2>. QED
    BY <1>1, <2>2, <2>6 DEF NodeLinksOK
<1>3. CASE \E l \in Link : CreateLink(l) \/ UpdateLink(l) \/ DeleteLink(l)
  <2>1. PICK l \in Link : CreateLink(l) \/ UpdateLink(l) \/ DeleteLink(l)
    BY <1>3
  <2>2. nodeLinks' = nodeLinks /\ \A m \in Link : m # l => link'[m] = link[m]
    BY <2>1 DEF CreateLink, UpdateLink, DeleteLink, TypeInv, ApiType
  <2>3. link[l].there /\ link[l].fin
          => link'[l].there /\ link'[l].fin /\ link'[l].matched = link[l].matched
    BY <1>0, <2>1
    DEF CreateLink, UpdateLink, DeleteLink, Deleted, Stored, LinkObject, TypeInv, ApiType
  <2>. QED
    BY <1>1, <2>2, <2>3 DEF NodeLinksOK
<1>4. CASE \/ Deliver
           \/ \E n \in Node : \/ NodeJoins(n) \/ NodeLeaves(n) \/ NodeRelabelled(n)
                             \/ NodeLinksEvent(n)
  <2>1. UNCHANGED <<link, nodeLinks>>
    BY <1>4
    DEF Deliver, DeliverLink, DeliverNodeLinks, NodeJoins, NodeLeaves, NodeRelabelled,
        NodeLinksEvent, api
  <2>. QED
    BY <1>1, <2>1 DEF NodeLinksOK
<1>. QED
  BY <1>2, <1>3, <1>4 DEF Environment

(* What goes on around the controller invalidates nothing that it relies on. *)
LEMMA OutsideFresh ==
  ASSUME TypeInv, FreshInv,
         Deliver \/ Agent \/ (\E n \in Node : CollectGarbage(n)) \/ Environment
  PROVE  FreshInv'
<1>. USE DEF FreshInv
<1>1. /\ UNCHANGED <<pc, cur, action, clusterState, mem, nodes, todo, at, got, dropFin,
                     failed, then>>
      /\ NodeLinksOK'
      /\ \A n \in Node :
           /\ nodeLinks'[n].there
                => nodeLinks[n].there /\ nodeLinks'[n].matching = nodeLinks[n].matching
           /\ nodeLinks[n].there /\ nodeLinks'[n].there /\ nodeLinks[n].deleting
                => nodeLinks'[n].deleting
      /\ \A l \in Link :
           link[l].there /\ link[l].fin
             => link'[l].there /\ link'[l].fin /\ link'[l].matched = link[l].matched
  BY Outside DEF ctl, loop
<1>2. \A n \in Node : \A l : Lists(n, l)' => Lists(n, l)
  BY <1>1 DEF Lists
<1>3. Listers' \subseteq Listers
  BY <1>1, <1>2 DEF Listers, Lists
<1>4. Tracked'
  BY <1>1, <1>2 DEF Tracked, Lists
<1>5. pc \in {"checkNode", "removeWrite", "registerWrite"} => at \in Node
  BY DEF TypeInv, CtlType, LoopOK
<1>6. GotOK'
  BY <1>1, <1>5 DEF GotOK
<1>7. pc # "idle" => cur \in Link
  BY DEF TypeInv, LoopOK
<1>8. pc # "idle" => (Held => Held')
  BY <1>1, <1>7 DEF Held
<1>9. HeldOK'
  <2>1. UpsertOK /\ (pc = "idle" => ~(pc \in {"list", "remove", "checkNode", "removeWrite",
                                             "patch", "register", "registerWrite"}))
    OBVIOUS
  <2>. QED
    BY <1>1, <1>7, <1>8, <2>1 DEF HeldOK, Held
<1>. QED
  BY <1>1, <1>3, <1>4, <1>6, <1>9 DEF CopyOK, RemovalOK, UpsertOK

(* At first no node lists any Link.                                          *)
LEMMA InitFresh == Init => FreshInv
  BY DEF Init, IdleInit, FreshInv, NodeLinksOK, Tracked, CopyOK, GotOK, RemovalOK,
         UpsertOK, HeldOK, NoNodeLinks, NoNodes

(* With fresh reads every step keeps what is known of the reconciliation.    *)
LEMMA NextFresh ==
  ASSUME ~StaleReads
  PROVE  TypeInv /\ FreshInv /\ [Next]_vars => FreshInv'
<1>. SUFFICES ASSUME TypeInv, FreshInv, [Next]_vars
              PROVE  FreshInv'
  OBVIOUS
<1>1. CASE Reconcile
  BY <1>1, StartFresh, RemovalReadsFresh, RemoveWriteFresh, RemovalsDoneFresh,
     RegistrationReadsFresh, RegistrationFresh, RegistrationsDoneFresh, PatchMainFresh,
     PatchStatusFresh
  DEF Reconcile
<1>2. CASE UNCHANGED vars
  BY <1>2
  DEF vars, api, informer, ctl, loop, FreshInv, NodeLinksOK, Tracked, Listers, Lists,
      CopyOK, GotOK, RemovalOK, UpsertOK, HeldOK, Held
<1>. QED
  BY <1>1, <1>2, FailureFresh, OutsideFresh DEF Next

(* With reads that are fresh, the status of a Link always names the nodes    *)
(* whose NodeLinks list it, through failures, restarts and everything users, *)
(* nodes and agents do in between: the deletion of a Link finds every node.  *)
(* (When the cache lags it need not: MCLinkLeak shows what comes of it.)     *)
THEOREM TrackedWithFreshReads ==
  ASSUME ~StaleReads
  PROVE  Spec => []Tracked
<1>1. TypeInv /\ FreshInv /\ [Next]_vars => FreshInv'
  BY NextFresh
<1>2. FreshInv => Tracked
  BY DEF FreshInv
<1>. QED
  BY <1>1, <1>2, InitType, NextType, InitFresh, PTL DEF Spec

-----------------------------------------------------------------------------
(* The steps of the agent are its steps of the protocol.                     *)
LEMMA AgentLifecycle ==
  ASSUME TypeInv, NodeLinksOK, NEW n \in Node,
         AgentAddsFinalizer(n) \/ AgentRemovesFinalizer(n)
  PROVE  Lifecycle(n)!AgentStep
<1>1. nodeLinks[n] \in NodeLinksObject
  BY DEF TypeInv, ApiType
<1>2. CASE AgentAddsFinalizer(n)
  <2>1. Lifecycle(n)!Hold
    BY <1>1, <1>2
    DEF AgentAddsFinalizer, Lifecycle!Hold, Lifecycle!record, TypeInv, ApiType,
        NodeLinksObject
  <2>. QED
    BY <2>1 DEF Lifecycle!AgentStep
<1>3. CASE AgentRemovesFinalizer(n)
  <2>1. Lifecycle(n)!Release
    BY <1>1, <1>3
    DEF AgentRemovesFinalizer, Lifecycle!Release, Lifecycle!Vanish, NoNodeLinks, TypeInv, ApiType
  <2>. QED
    BY <2>1 DEF Lifecycle!AgentStep
<1>. QED
  BY <1>2, <1>3

(* The deletion of an object that is not yet being deleted.                  *)
LEMMA DeletedLifecycle ==
  ASSUME NEW n \in Node, nodeLinks[n] \in NodeLinksObject,
         nodeLinks[n].there, ~nodeLinks[n].deleting,
         nodeLinks'[n] = Deleted(nodeLinks[n], NoNodeLinks)
  PROVE  Lifecycle(n)!Delete
<1>1. CASE nodeLinks[n].fin
  <2>1. nodeLinks'[n] = [nodeLinks[n] EXCEPT !.deleting = TRUE]
    BY <1>1 DEF Deleted, Stored, NodeLinksObject
  <2>2. /\ nodeLinks'[n].deleting /\ nodeLinks'[n].there = nodeLinks[n].there
        /\ nodeLinks'[n].fin = nodeLinks[n].fin
        /\ nodeLinks'[n].matching = nodeLinks[n].matching
    BY <2>1 DEF NodeLinksObject
  <2>. QED
    BY <1>1, <2>2 DEF Lifecycle!Delete, Lifecycle!record
<1>2. CASE ~nodeLinks[n].fin
  <2>1. nodeLinks'[n] = NoNodeLinks
    BY <1>2 DEF Deleted, Stored, NodeLinksObject
  <2>2. /\ ~nodeLinks'[n].there /\ ~nodeLinks'[n].deleting /\ ~nodeLinks'[n].fin
        /\ nodeLinks'[n].matching = {}
    BY <2>1 DEF NoNodeLinks
  <2>. QED
    BY <1>2, <2>2 DEF Lifecycle!Delete, Lifecycle!Vanish
<1>. QED
  BY <1>1, <1>2

(* The garbage collector deletes what is not being deleted.                  *)
LEMMA GarbageLifecycle ==
  ASSUME TypeInv, NodeLinksOK, NEW n \in Node, CollectGarbage(n)
  PROVE  Lifecycle(n)!Delete
<1>1. nodeLinks[n] \in NodeLinksObject /\ nodeLinks'[n] = Deleted(nodeLinks[n], NoNodeLinks)
  BY DEF TypeInv, ApiType, CollectGarbage
<1>. QED
  BY <1>1, DeletedLifecycle DEF CollectGarbage

(* A registration creates the object with a Link in it, or adds the Link to  *)
(* an object that is there.                                                  *)
LEMMA RegistrationLifecycle ==
  ASSUME TypeInv, NodeLinksOK, GotOK, RegisterCreate \/ RegisterPatch,
         NEW n \in Node, n = at, nodeLinks'[n] # nodeLinks[n]
  PROVE  Lifecycle(n)!Create \/ Lifecycle(n)!List
<1>1. nodeLinks[n] \in NodeLinksObject
  BY DEF TypeInv, ApiType
<1>2. /\ nodeLinks'[n].there /\ nodeLinks'[n].deleting = nodeLinks[n].deleting
      /\ nodeLinks'[n].fin = nodeLinks[n].fin
      /\ nodeLinks'[n].matching = nodeLinks[n].matching \cup {cur}
  BY RegisteredObject
<1>3. CASE ~nodeLinks[n].there
  BY <1>1, <1>2, <1>3 DEF Lifecycle!Create, Lifecycle!record
<1>4. CASE nodeLinks[n].there
  <2>1. nodeLinks'[n].there = nodeLinks[n].there
    BY <1>1, <1>2, <1>4 DEF NodeLinksObject
  <2>. QED
    BY <1>2, <1>4, <2>1 DEF Lifecycle!List, Lifecycle!record
<1>. QED
  BY <1>3, <1>4

(* A removal leaves a live object only with Links in it, deletes the one     *)
(* whose last Link it takes out, and gives an agent's finalizer up only when *)
(* the agent's node is gone.                                                 *)
LEMMA RemovalLifecycle ==
  ASSUME TypeInv, OwnerOK, NodeLinksOK, GotOK, RemoveWrite,
         NEW n \in Node, n = at, nodeLinks'[n] # nodeLinks[n]
  PROVE  Lifecycle(n)!Delete \/ Lifecycle(n)!Abandon \/ Lifecycle(n)!List
<1>. DEFINE old == nodeLinks[n]
            new == nodeLinks'[n]
<1>1. /\ old \in NodeLinksObject /\ old.there
      /\ new = IF LastLink THEN Deleted(old, NoNodeLinks) ELSE Removed(old)
  BY DEF RemoveWrite, TypeInv, CtlType, ApiType, LoopOK
<1>2. /\ old.matching = got.matching
      /\ got.deleting => old.deleting
      /\ got.deleting \/ cur \in got.matching
      /\ dropFin => old.deleting
      /\ old.deleting => old.fin
  BY <1>1 DEF RemoveWrite, GotOK, NodeLinksOK
<1>3. CASE LastLink
  <2>1. ~old.deleting
    BY <1>1, <1>2, <1>3 DEF Deleted, Stored, NodeLinksObject
  <2>2. Lifecycle(n)!Delete
    BY <1>1, <1>3, <2>1, DeletedLifecycle
  <2>. QED
    BY <2>2
<1>4. CASE ~LastLink /\ dropFin
  <2>1. Orphaned(n)
    <3>1. node[at].uid \in Nat /\ old.owner \in Nat
      BY <1>1 DEF TypeInv, ApiType, NodeObject, NodeLinksObject
    <3>. QED
      BY <1>4, <3>1 DEF OwnerOK, Orphaned
  <2>2. new = NoNodeLinks
    BY <1>1, <1>2, <1>4 DEF Removed, Stored, NodeLinksObject
  <2>3. /\ ~nodeLinks'[n].there /\ ~nodeLinks'[n].deleting /\ ~nodeLinks'[n].fin
        /\ nodeLinks'[n].matching = {}
    BY <2>2 DEF NoNodeLinks
  <2>4. Lifecycle(n)!Abandon
    BY <1>2, <1>4, <2>1, <2>3 DEF Lifecycle!Abandon, Lifecycle!Vanish
  <2>. QED
    BY <2>4
<1>5. CASE ~LastLink /\ ~dropFin
  <2>1. /\ new.there /\ new.deleting = old.deleting /\ new.fin = old.fin
        /\ new.matching = old.matching \ {cur}
    BY <1>1, <1>2, <1>5 DEF Removed, Stored, NodeLinksObject
  <2>2. old.deleting \/ new.matching # {}
    BY <1>2, <1>5, <2>1 DEF LastLink
  <2>3. Lifecycle(n)!List
    BY <1>1, <2>1, <2>2 DEF Lifecycle!List, Lifecycle!record, NodeLinksObject
  <2>. QED
    BY <2>3
<1>. QED
  BY <1>3, <1>4, <1>5

(* Nobody else writes a NodeLinks.                                           *)
LEMMA WritersOfNodeLinks ==
  ASSUME TypeInv, Next, NEW n \in Node, nodeLinks'[n] # nodeLinks[n]
  PROVE  \/ (RemoveWrite \/ RegisterCreate \/ RegisterPatch) /\ n = at
         \/ AgentAddsFinalizer(n) \/ AgentRemovesFinalizer(n) \/ CollectGarbage(n)
<1>1. CASE Reconcile
  <2>1. RemoveWrite \/ RegisterCreate \/ RegisterPatch
    BY <1>1
    DEF Reconcile, ReconcileNothing, ReconcileUpsert, ReconcileDeletion, ListNodes,
        RemoveSkip, RemoveRead, CheckNode, RemovalsDone, RegisterSkip, RegisterRead,
        RegistrationsDone, PatchMain, PatchStatus, api
  <2>2. n = at
    BY <2>1 DEF RemoveWrite, RegisterCreate, RegisterPatch, TypeInv, ApiType
  <2>. QED
    BY <2>1, <2>2
<1>2. CASE Agent \/ \E m \in Node : CollectGarbage(m)
  BY <1>2
  DEF Agent, AgentAddsFinalizer, AgentRemovesFinalizer, CollectGarbage, TypeInv, ApiType
<1>3. CASE APICallFails \/ Restart \/ Deliver \/ Environment
  BY <1>3
  DEF APICallFails, Restart, Deliver, DeliverLink, DeliverNodeLinks, Environment,
      CreateLink, UpdateLink, DeleteLink, NodeJoins, NodeLeaves, NodeRelabelled,
      NodeLinksEvent, api
<1>. QED
  BY <1>1, <1>2, <1>3 DEF Next

(* Every step is one of the protocol, for every NodeLinks.                   *)
LEMMA StepFollowsLifecycle ==
  ASSUME TypeInv, OwnerOK, FreshInv, [Next]_vars, NEW n \in Node
  PROVE  [IF AgentAddsFinalizer(n) \/ AgentRemovesFinalizer(n)
          THEN Lifecycle(n)!AgentStep ELSE Lifecycle(n)!ControllerStep]_(Lifecycle(n)!vars)
<1>1. CASE nodeLinks'[n] = nodeLinks[n]
  BY <1>1 DEF Lifecycle!vars, Lifecycle!object, Lifecycle!record
<1>2. CASE AgentAddsFinalizer(n) \/ AgentRemovesFinalizer(n)
  BY <1>2, AgentLifecycle DEF FreshInv
<1>3. CASE nodeLinks'[n] # nodeLinks[n]
           /\ ~(AgentAddsFinalizer(n) \/ AgentRemovesFinalizer(n))
  <2>1. Next
    BY <1>3 DEF vars, api
  <2>2. \/ (RemoveWrite \/ RegisterCreate \/ RegisterPatch) /\ n = at
        \/ CollectGarbage(n)
    BY <1>3, <2>1, WritersOfNodeLinks
  <2>3. Lifecycle(n)!ControllerStep
    BY <1>3, <2>2, GarbageLifecycle, RegistrationLifecycle, RemovalLifecycle
    DEF FreshInv, Lifecycle!ControllerStep
  <2>. QED
    BY <1>3, <2>3
<1>. QED
  BY <1>1, <1>2, <1>3

(* With fresh reads, every write of the controller to a NodeLinks is one the *)
(* agent is prepared for (updateNodeLinks, removeFromNodeLinks,              *)
(* registerWithNodeLinks), whatever users, nodes, agents and the garbage     *)
(* collector do between its reads and its writes.                            *)
THEOREM ControllerFollowsLifecycle ==
  ASSUME ~StaleReads
  PROVE  Spec => FollowsLifecycle
<1>1. Init => \A n \in Node : Lifecycle(n)!Init
  <2>. SUFFICES ASSUME Init, NEW n \in Node
                PROVE  Lifecycle(n)!Init
    OBVIOUS
  <2>1. /\ nodeLinks[n].there = FALSE /\ nodeLinks[n].deleting = FALSE
        /\ nodeLinks[n].fin = FALSE /\ nodeLinks[n].matching = {}
    BY DEF Init, NoNodeLinks
  <2>. QED
    BY <2>1 DEF Lifecycle!Init
<1>2. TypeInv /\ FreshInv /\ [Next]_vars => FreshInv'
  BY NextFresh
<1>3. TypeInv /\ OwnerOK /\ FreshInv /\ [Next]_vars
        => [\A n \in Node :
              [IF AgentAddsFinalizer(n) \/ AgentRemovesFinalizer(n)
               THEN Lifecycle(n)!AgentStep
               ELSE Lifecycle(n)!ControllerStep]_(Lifecycle(n)!vars)]_vars
  BY StepFollowsLifecycle
<1>. QED
  BY <1>1, <1>2, <1>3, InitType, NextType, InitOwner, NextOwner, InitFresh, PTL
  DEF Spec, FollowsLifecycle

=============================================================================
