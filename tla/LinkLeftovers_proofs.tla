------------------------ MODULE LinkLeftovers_proofs ------------------------
(* What the Link controller has done when it has settled: no node is left    *)
(* with a Link that does not match it.  The argument follows a Link that a   *)
(* node wrongly lists to whoever will see to it: the queue, an event that is *)
(* still to be delivered, or the reconciliation in progress.                 *)
EXTENDS LinkReconciler_proofs

-----------------------------------------------------------------------------
(* The watch has yet to tell of a change that enqueues the Link.             *)
Changed(l) ==
  seenLink[l].there # link[l].there \/ seenLink[l].gen # link[l].gen

(* The Link will be reconciled, or reconciled again.                         *)
Pending(l) == l \in queue \/ Changed(l)

(* While a name is not used again, the generation seen is never ahead.       *)
GenOK ==
  \A l \in Link : seenLink[l].there /\ link[l].there => seenLink[l].gen <= link[l].gen

(* A reconciliation that is about to end without an error has registered     *)
(* with the matched nodes, or given a deleted Link up.                       *)
DoneOK ==
  pc = "patch" /\ then = "done"
    => /\ action = "upsert" => mem.matched = DOMAIN nodes
       /\ action = "delete" => ~mem.fin

(* The nodes that match have not been listed yet.                            *)
BeforeList == pc = "list" \/ (pc = "patch" /\ then = "list")

(* An error is being recorded, after which the Link is queued again.         *)
InError == pc = "patch" /\ then = "error"

(* An upsert works with the current selector and nodes, or its Link will be  *)
(* reconciled again.                                                         *)
ProgressOK ==
  pc # "idle" /\ ~InError /\ action = "upsert" /\ link[cur].there /\ ~Pending(cur)
    => /\ ~link[cur].deleting /\ mem.sel = link[cur].sel
       /\ BeforeList \/ DOMAIN nodes = {n \in Node : Wanted(cur, n)}

(* A Link that a node wrongly lists is going to be reconciled or is being    *)
(* reconciled.                                                               *)
LeftoversOK ==
  \A l \in Link, n \in Node :
    Lists(n, l) /\ ~Wanted(l, n) => Pending(l) \/ (pc # "idle" /\ cur = l)

(* The inductive invariant, given that of Tracked.                           *)
WorkInv == GenOK /\ DoneOK /\ ProgressOK /\ LeftoversOK

-----------------------------------------------------------------------------
(* The writes of the controller to its Link leave what users write alone.    *)
LEMMA PatchedLink ==
  ASSUME TypeInv, PatchMain \/ PatchStatus, NEW l \in Link, link'[l].there
  PROVE  /\ link[l].there /\ link'[l].sel = link[l].sel
         /\ link'[l].deleting = link[l].deleting /\ link'[l].gen = link[l].gen
<1>1. cur \in Link /\ link[cur] \in LinkObject
  BY DEF PatchMain, PatchStatus, TypeInv, ApiType, LoopOK
<1>. DEFINE response == [link[cur] EXCEPT !.fin = mem.fin]
<1>2. \/ link' = link
      \/ /\ link[cur].there
         /\ \/ link' = [link EXCEPT ![cur] = Stored(response, NoLink)]
            \/ link' = [link EXCEPT ![cur] = PatchedStatus(link[cur])]
  BY DEF PatchMain, PatchStatus
<1>3. CASE l # cur \/ link' = link
  BY <1>1, <1>2, <1>3 DEF TypeInv, ApiType
<1>4. CASE l = cur /\ link[cur].there /\ link'[cur] = PatchedStatus(link[cur])
  BY <1>1, <1>4 DEF PatchedStatus, LinkObject
<1>5. CASE l = cur /\ link[cur].there /\ link'[cur] = Stored(response, NoLink)
  <2>1. link'[cur] = response
    BY <1>5 DEF Stored, NoLink
  <2>. QED
    BY <1>1, <1>5, <2>1 DEF LinkObject
<1>. HIDE DEF response
<1>. QED
  BY <1>1, <1>2, <1>3, <1>4, <1>5 DEF TypeInv, ApiType

(* Steps that change neither the Links, nor the nodes, nor what was          *)
(* delivered, but for status and finalizers of the Link.                     *)
LEMMA ControllerFrame ==
  ASSUME TypeInv, Reconcile \/ APICallFails
  PROVE  /\ UNCHANGED <<node, seenLink>>
         /\ \A l \in Link : link'[l].there
              => /\ link[l].there /\ link'[l].sel = link[l].sel
                 /\ link'[l].deleting = link[l].deleting /\ link'[l].gen = link[l].gen
<1>1. CASE PatchMain \/ PatchStatus
  BY <1>1, PatchedLink DEF PatchMain, PatchStatus, informer
<1>2. CASE ~(PatchMain \/ PatchStatus)
  BY <1>2
  DEF Reconcile, APICallFails, ReconcileNothing, ReconcileUpsert, ReconcileDeletion,
      ListNodes, RemoveSkip, RemoveRead, CheckNode, RemoveWrite, RemovalsDone,
      RegisterSkip, RegisterRead, RegisterCreate, RegisterPatch, RegistrationsDone,
      api, informer
<1>. QED
  BY <1>1, <1>2

(* A worker takes the Link off the queue.                                    *)
Start(l) == ReconcileNothing(l) \/ ReconcileUpsert(l) \/ ReconcileDeletion(l)

(* Nothing but the start of its reconciliation takes a Link off the queue.   *)
LEMMA QueueGrows ==
  ASSUME TypeInv, Next, ~Restart, NEW l \in Link, l \in queue, l \notin queue'
  PROVE  Start(l)
<1>1. CASE Reconcile
  BY <1>1
  DEF Reconcile, Start, ReconcileNothing, ReconcileUpsert, ReconcileDeletion, ListNodes,
      RemoveSkip, RemoveRead, CheckNode, RemoveWrite, RemovalsDone, RegisterSkip,
      RegisterRead, RegisterCreate, RegisterPatch, RegistrationsDone, PatchMain,
      PatchStatus, PatchReturns, PatchEnds, PatchFails, HandleError, Requeue
<1>2. CASE APICallFails
  BY <1>2
  DEF APICallFails, PatchFails, HandleError, Requeue, IterationFails, ReadFails
<1>3. CASE Deliver \/ Agent \/ (\E n \in Node : CollectGarbage(n)) \/ Environment
  BY <1>3
  DEF Deliver, DeliverLink, DeliverNodeLinks, Agent, AgentAddsFinalizer,
      AgentRemovesFinalizer, CollectGarbage, Environment, CreateLink, UpdateLink,
      DeleteLink, NodeJoins, NodeLeaves, NodeRelabelled, NodeLinksEvent, EnqueueAll
<1>. QED
  BY <1>1, <1>2, <1>3 DEF Next

(* What is wanted depends on the Link and on the nodes.                      *)
LEMMA WantedFrame ==
  ASSUME UNCHANGED node, NEW l \in Link, link[l].there, link'[l].there,
         link'[l].sel = link[l].sel, link'[l].deleting = link[l].deleting
  PROVE  \A n \in Node : Wanted(l, n)' <=> Wanted(l, n)
  BY DEF Wanted, Matching

(* A change of a Link by a user is seen by its watch.                        *)
LEMMA EditChanges ==
  ASSUME TypeInv, GenOK, NEW m \in Link, CreateLink(m) \/ UpdateLink(m) \/ DeleteLink(m),
         link'[m].there
  PROVE  Changed(m)'
<1>1. link[m] \in LinkObject /\ seenLink[m] \in LinkObject
  BY DEF TypeInv, ApiType, InformerType
<1>2. UNCHANGED seenLink
  BY DEF CreateLink, UpdateLink, DeleteLink, informer
<1>3. seenLink[m].there /\ link[m].there /\ link'[m].gen = link[m].gen + 1
        => seenLink[m].gen # link'[m].gen
  <2>1. link[m].gen \in Nat /\ seenLink[m].gen \in Nat
    BY <1>1 DEF LinkObject
  <2>. QED
    BY <2>1 DEF GenOK
<1>4. ~seenLink[m].there => seenLink[m].there # link'[m].there
  BY <1>1 DEF LinkObject
<1>5. CASE CreateLink(m)
  BY <1>2, <1>5 DEF CreateLink, Changed
<1>6. CASE UpdateLink(m) \/ DeleteLink(m)
  <2>1. link[m].there
    BY <1>6 DEF UpdateLink, DeleteLink
  <2>2. CASE UpdateLink(m)
    <3>1. link'[m].gen = link[m].gen + 1
      BY <1>1, <2>2 DEF UpdateLink, TypeInv, ApiType, LinkObject
    <3>. QED
      BY <1>2, <1>3, <1>4, <2>1, <3>1 DEF Changed
  <2>3. CASE DeleteLink(m)
    <3>. DEFINE changed == [link[m] EXCEPT !.gen = @ + 1]
    <3>1. link'[m] = Deleted(changed, NoLink)
      BY <2>3 DEF DeleteLink, TypeInv, ApiType
    <3>2. link'[m].gen = link[m].gen + 1
      BY <1>1, <3>1 DEF Deleted, Stored, NoLink, LinkObject
    <3>. QED
      BY <1>2, <1>3, <1>4, <2>1, <3>2 DEF Changed
  <2>. QED
    BY <1>6, <2>2, <2>3
<1>. QED
  BY <1>5, <1>6

(* A Link of which nothing is pending after a step is as it was before it,   *)
(* and so are the nodes that match it.                                       *)
LEMMA Quiet ==
  ASSUME TypeInv, GenOK, Next, NEW l \in Link, link'[l].there, ~Pending(l)'
  PROVE  /\ link[l].there /\ link'[l].sel = link[l].sel
         /\ link'[l].deleting = link[l].deleting
         /\ ~Pending(l) \/ Start(l)
         /\ \A n \in Node : Wanted(l, n)' <=> Wanted(l, n)
<1>1. ~Restart
  BY DEF Restart, Pending, api
<1>2. l \in queue => Start(l)
  BY <1>1, QueueGrows DEF Pending
<1>3. CASE Reconcile \/ APICallFails
  <2>1. /\ UNCHANGED <<node, seenLink>>
        /\ link[l].there /\ link'[l].sel = link[l].sel
        /\ link'[l].deleting = link[l].deleting /\ link'[l].gen = link[l].gen
    BY <1>3, ControllerFrame
  <2>2. ~Changed(l)
    BY <2>1 DEF Pending, Changed
  <2>. QED
    BY <1>2, <2>1, <2>2, WantedFrame DEF Pending
<1>4. CASE \/ Deliver \/ Agent \/ (\E n \in Node : CollectGarbage(n))
           \/ \E n \in Node : NodeLinksEvent(n)
  <2>1. UNCHANGED <<link, node>>
    BY <1>4
    DEF Deliver, DeliverLink, DeliverNodeLinks, Agent, AgentAddsFinalizer,
        AgentRemovesFinalizer, CollectGarbage, NodeLinksEvent, api
  <2>2. ~Changed(l)
    BY <1>4, <2>1
    DEF Deliver, DeliverLink, DeliverNodeLinks, Agent, AgentAddsFinalizer,
        AgentRemovesFinalizer, CollectGarbage, NodeLinksEvent, informer, Pending, Changed,
        TypeInv, InformerType
  <2>. QED
    BY <1>2, <2>1, <2>2, WantedFrame DEF Pending
<1>5. CASE \E m \in Link : CreateLink(m) \/ UpdateLink(m) \/ DeleteLink(m)
  <2>1. PICK m \in Link : CreateLink(m) \/ UpdateLink(m) \/ DeleteLink(m)
    BY <1>5
  <2>2. l # m
    BY <2>1, EditChanges DEF Pending
  <2>3. UNCHANGED <<node, seenLink>> /\ link'[l] = link[l]
    BY <2>1, <2>2 DEF CreateLink, UpdateLink, DeleteLink, informer, TypeInv, ApiType
  <2>4. ~Changed(l)
    BY <2>3 DEF Pending, Changed
  <2>. QED
    BY <1>2, <2>3, <2>4, WantedFrame DEF Pending
<1>6. CASE \E n \in Node : NodeJoins(n) \/ NodeLeaves(n) \/ NodeRelabelled(n)
  <2>1. UNCHANGED <<link, seenLink>> /\ EnqueueAll
    BY <1>6 DEF NodeJoins, NodeLeaves, NodeRelabelled, informer
  <2>2. seenLink[l].there /\ link[l].there
    BY <2>1 DEF Pending, Changed, TypeInv, ApiType, InformerType, LinkObject
  <2>3. l \in queue'
    BY <2>1, <2>2 DEF EnqueueAll
  <2>. QED
    BY <2>3 DEF Pending
<1>. QED
  BY <1>1, <1>3, <1>4, <1>5, <1>6 DEF Next, Environment

(* The generation that was seen is never ahead of the one that is stored.    *)
LEMMA NextGen ==
  ASSUME TypeInv, GenOK, Next
  PROVE  GenOK'
<1>. SUFFICES ASSUME NEW l \in Link, seenLink'[l].there, link'[l].there
              PROVE  seenLink'[l].gen <= link'[l].gen
  BY DEF GenOK
<1>0. link[l] \in LinkObject /\ seenLink[l] \in LinkObject
  BY DEF TypeInv, ApiType, InformerType
<1>1. link[l].gen \in Nat /\ seenLink[l].gen \in Nat
  BY <1>0 DEF LinkObject
<1>2. CASE Reconcile \/ APICallFails
  BY <1>1, <1>2, ControllerFrame DEF GenOK
<1>3. CASE Restart
  BY <1>1, <1>3 DEF Restart, api
<1>4. CASE Deliver
  BY <1>1, <1>4
  DEF Deliver, DeliverLink, DeliverNodeLinks, GenOK, api, TypeInv, InformerType
<1>5. CASE \E m \in Link : CreateLink(m) \/ UpdateLink(m) \/ DeleteLink(m)
  <2>1. PICK m \in Link : CreateLink(m) \/ UpdateLink(m) \/ DeleteLink(m)
    BY <1>5
  <2>2. UNCHANGED seenLink
    BY <2>1 DEF CreateLink, UpdateLink, DeleteLink, informer
  <2>3. CASE l # m
    <3>1. link'[l] = link[l]
      BY <2>1, <2>3 DEF CreateLink, UpdateLink, DeleteLink, TypeInv, ApiType
    <3>. QED
      BY <2>2, <3>1 DEF GenOK
  <2>4. CASE l = m /\ CreateLink(m)
    BY <2>2, <2>4 DEF CreateLink
  <2>5. CASE l = m /\ (UpdateLink(m) \/ DeleteLink(m))
    <3>1. link[l].there /\ link'[l].gen = link[l].gen + 1
      <4>. DEFINE changed == [link[m] EXCEPT !.gen = @ + 1]
      <4>1. CASE UpdateLink(m)
        BY <1>0, <2>5, <4>1 DEF UpdateLink, TypeInv, ApiType, LinkObject
      <4>2. CASE DeleteLink(m)
        <5>1. link'[m] = Deleted(changed, NoLink) /\ link[m].there
          BY <4>2 DEF DeleteLink, TypeInv, ApiType
        <5>. QED
          BY <1>0, <2>5, <5>1 DEF Deleted, Stored, NoLink, LinkObject
      <4>. QED
        BY <2>5, <4>1, <4>2
    <3>. QED
      BY <1>1, <2>2, <3>1 DEF GenOK
  <2>. QED
    BY <2>1, <2>3, <2>4, <2>5
<1>6. CASE \/ Agent \/ (\E n \in Node : CollectGarbage(n))
           \/ \E n \in Node : \/ NodeJoins(n) \/ NodeLeaves(n) \/ NodeRelabelled(n)
                             \/ NodeLinksEvent(n)
  BY <1>6
  DEF Agent, AgentAddsFinalizer, AgentRemovesFinalizer, CollectGarbage, NodeJoins,
      NodeLeaves, NodeRelabelled, NodeLinksEvent, api, informer, GenOK
<1>. QED
  BY <1>2, <1>3, <1>4, <1>5, <1>6 DEF Next, Environment

-----------------------------------------------------------------------------
(* The last patch of a reconciliation without error follows the registration *)
(* with the matched nodes or, for a deleted Link, gives its finalizer up.    *)
LEMMA NextDone ==
  ASSUME TypeInv, FreshInv, DoneOK, Next
  PROVE  DoneOK'
<1>1. CASE \/ ListNodes \/ CheckNode \/ RemoveWrite \/ RegisterCreate \/ RegisterPatch
           \/ \E n \in Node : RemoveSkip(n) \/ RemoveRead(n) \/ RegisterSkip(n) \/ RegisterRead(n)
  BY <1>1
  DEF Start, ReconcileNothing, ReconcileUpsert, ReconcileDeletion, ListNodes, RemoveSkip,
      RemoveRead, CheckNode, NextRemoval, RemoveWrite, RegisterSkip, RegisterRead,
      RegisterCreate, RegisterPatch, NextRegistration, ctl, loop, DoneOK
<1>2. CASE \E l \in Link : Start(l)
  BY <1>2 DEF Start, ReconcileNothing, ReconcileUpsert, ReconcileDeletion, ctl, DoneOK
<1>3. CASE RemovalsDone
  BY <1>3
  DEF RemovalsDone, HandleError, CallPatch, DoneOK, TypeInv, CtlType, LinkObject
<1>4. CASE RegistrationsDone
  <2>1. mem.matched = DOMAIN nodes /\ action = "upsert"
    BY <1>4 DEF RegistrationsDone, FreshInv, HeldOK, UpsertOK
  <2>. QED
    BY <1>4, <2>1
    DEF RegistrationsDone, HandleError, CallPatch, DoneOK, TypeInv, CtlType, LinkObject
<1>5. CASE PatchMain
  <2>1. CASE link[cur].there
    <3>1. link[cur] \in LinkObject
      BY <1>5 DEF PatchMain, TypeInv, ApiType, LoopOK
    <3>2. /\ mem' = [[link[cur] EXCEPT !.fin = mem.fin] EXCEPT !.matched = mem.matched,
                                                             !.ready = mem.ready]
          /\ UNCHANGED <<pc, action, nodes, then>>
      BY <1>5, <2>1 DEF PatchMain
    <3>3. mem'.matched = mem.matched /\ mem'.fin = mem.fin
      BY <3>1, <3>2 DEF LinkObject
    <3>. QED
      BY <3>2, <3>3 DEF DoneOK
  <2>2. CASE ~link[cur].there
    BY <1>5, <2>2
    DEF PatchMain, PatchFails, HandleError, CallPatch, Requeue, Finish, DoneOK
  <2>. QED
    BY <2>1, <2>2
<1>6. CASE PatchStatus
  BY <1>6
  DEF PatchStatus, PatchReturns, PatchEnds, PatchFails, HandleError, CallPatch, Requeue,
      Finish, DoneOK
<1>7. CASE APICallFails \/ Restart
  BY <1>7
  DEF APICallFails, Restart, PatchFails, HandleError, CallPatch, Requeue, Finish,
      IterationFails, ReadFails, DoneOK
<1>8. CASE Deliver \/ Agent \/ (\E n \in Node : CollectGarbage(n)) \/ Environment
  <2>1. UNCHANGED ctl
    BY <1>8, Outside DEF FreshInv
  <2>. QED
    BY <2>1 DEF ctl, DoneOK
<1>. QED
  BY <1>1, <1>2, <1>3, <1>4, <1>5, <1>6, <1>7, <1>8 DEF Next, Reconcile, Start

(* From one call of a reconciliation to the next: the nodes are listed once, *)
(* by the selector in the copy of the Link, which users' changes reach only  *)
(* with the response to a patch.                                             *)
LEMMA ProgressStep ==
  ASSUME TypeInv, NodeLinksOK, Next, pc # "idle", pc' # "idle", ~InError'
  PROVE  /\ UNCHANGED <<cur, action>> /\ ~InError
         /\ mem'.sel = mem.sel \/ (mem'.sel = link[cur].sel /\ link[cur].there)
         /\ \/ BeforeList'
            \/ BeforeList /\ nodes' = Matching(mem.sel)
            \/ ~BeforeList /\ nodes' = nodes
<1>. USE DEF InError, BeforeList, ctl, loop
<1>1. CASE Reconcile /\ ~(PatchMain \/ PatchStatus)
  <2>1. ~\E l \in Link : ReconcileNothing(l) \/ ReconcileUpsert(l) \/ ReconcileDeletion(l)
    BY DEF ReconcileNothing, ReconcileUpsert, ReconcileDeletion
  <2>2. CASE ListNodes
    BY <2>2 DEF ListNodes, TypeInv, CtlType, LinkObject
  <2>3. CASE RemoveWrite \/ RemovalsDone \/ RegistrationsDone
    BY <2>3
    DEF RemoveWrite, NextRemoval, RemovalsDone, RegistrationsDone, HandleError, CallPatch,
        TypeInv, CtlType, LinkObject
  <2>4. CASE \/ \E n \in Node : RemoveSkip(n) \/ RemoveRead(n) \/ RegisterSkip(n) \/ RegisterRead(n)
             \/ CheckNode \/ RegisterCreate \/ RegisterPatch
    BY <2>4
    DEF RemoveSkip, RemoveRead, RegisterSkip, RegisterRead, CheckNode, NextRemoval,
        RegisterCreate, RegisterPatch, NextRegistration
  <2>. QED
    BY <1>1, <2>1, <2>2, <2>3, <2>4 DEF Reconcile
<1>2. CASE PatchMain
  <2>1. link[cur] \in LinkObject
    BY <1>2 DEF PatchMain, TypeInv, ApiType, LoopOK
  <2>2. link[cur].there
    BY <1>2
    DEF PatchMain, PatchFails, HandleError, CallPatch, Requeue, Finish
  <2>3. /\ mem' = [[link[cur] EXCEPT !.fin = mem.fin] EXCEPT !.matched = mem.matched,
                                                           !.ready = mem.ready]
        /\ UNCHANGED <<pc, cur, action, nodes, then>>
    BY <1>2, <2>2 DEF PatchMain
  <2>4. mem'.sel = link[cur].sel
    BY <2>1, <2>3 DEF LinkObject
  <2>. QED
    BY <2>2, <2>3, <2>4
<1>3. CASE PatchStatus
  <2>1. link[cur] \in LinkObject
    BY <1>3 DEF PatchStatus, TypeInv, ApiType, LoopOK
  <2>2. PatchedStatus(link[cur]).sel = link[cur].sel
    BY <2>1 DEF PatchedStatus, LinkObject
  <2>3. /\ PatchReturns
        /\ mem' = mem \/ (mem' = PatchedStatus(link[cur]) /\ link[cur].there)
    BY <1>3
    DEF PatchStatus, PatchEnds, PatchFails, HandleError, CallPatch, Requeue, Finish
  <2>4. pc = "patch"
    BY <1>3 DEF PatchStatus
  <2>. QED
    BY <2>2, <2>3, <2>4 DEF PatchReturns
<1>4. CASE APICallFails \/ Restart
  BY <1>4
  DEF APICallFails, Restart, PatchFails, HandleError, CallPatch, Requeue, Finish,
      IterationFails, ReadFails
<1>5. CASE Deliver \/ Agent \/ (\E n \in Node : CollectGarbage(n)) \/ Environment
  <2>1. UNCHANGED ctl
    BY <1>5, Outside
  <2>. QED
    BY <2>1
<1>. QED
  BY <1>1, <1>2, <1>3, <1>4, <1>5 DEF Next

(* An upsert goes on with the selector and the nodes of its Link.            *)
LEMMA NextProgress ==
  ASSUME ~StaleReads, TypeInv, FreshInv, GenOK, ProgressOK, Next
  PROVE  ProgressOK'
<1>. SUFFICES ASSUME pc' # "idle", ~InError', action' = "upsert", link'[cur'].there,
                     ~Pending(cur)'
              PROVE  /\ ~link'[cur'].deleting /\ mem'.sel = link'[cur'].sel
                     /\ \/ BeforeList'
                        \/ DOMAIN nodes' = {n \in Node : Wanted(cur, n)'}
  BY DEF ProgressOK
<1>1. CASE pc = "idle"
  <2>1. PICK l \in Link : ReconcileUpsert(l)
    <3>1. Reconcile
      <4>1. ~APICallFails /\ ~Restart
        BY <1>1 DEF APICallFails, Restart, Finish, ReadFails
      <4>2. ~(Deliver \/ Agent \/ (\E n \in Node : CollectGarbage(n)) \/ Environment)
        BY <1>1, Outside DEF FreshInv, ctl
      <4>. QED
        BY <4>1, <4>2 DEF Next
    <3>. QED
      BY <1>1, <3>1
      DEF Reconcile, ReconcileNothing, ReconcileDeletion, ListNodes, RemoveSkip, RemoveRead,
          CheckNode, RemoveWrite, RemovalsDone, RegisterSkip, RegisterRead, RegisterCreate,
          RegisterPatch, RegistrationsDone, PatchMain, PatchStatus, ctl
  <2>2. link[l] \in LinkObject
    BY DEF TypeInv, ApiType
  <2>. QED
    BY <2>1, <2>2, FreshReads DEF ReconcileUpsert, BeforeList, LinkObject, api
<1>2. CASE pc # "idle"
  <2>1. cur \in Link
    BY <1>2 DEF TypeInv, LoopOK
  <2>2. /\ UNCHANGED <<cur, action>> /\ ~InError
        /\ mem'.sel = mem.sel \/ (mem'.sel = link[cur].sel /\ link[cur].there)
        /\ \/ BeforeList'
           \/ BeforeList /\ nodes' = Matching(mem.sel)
           \/ ~BeforeList /\ nodes' = nodes
    BY <1>2, ProgressStep DEF FreshInv
  <2>3. ~Start(cur)
    BY <1>2 DEF Start, ReconcileNothing, ReconcileUpsert, ReconcileDeletion
  <2>5. /\ link[cur].there /\ link'[cur].sel = link[cur].sel
        /\ link'[cur].deleting = link[cur].deleting /\ ~Pending(cur)
        /\ \A n \in Node : Wanted(cur, n)' <=> Wanted(cur, n)
    BY <2>1, <2>2, <2>3, Quiet
  <2>6. /\ ~link[cur].deleting /\ mem.sel = link[cur].sel
        /\ BeforeList \/ DOMAIN nodes = {n \in Node : Wanted(cur, n)}
    BY <1>2, <2>2, <2>5 DEF ProgressOK
  <2>7. DOMAIN Matching(link[cur].sel) = {n \in Node : Wanted(cur, n)}
    BY <2>5, <2>6 DEF Wanted, Matching
  <2>. QED
    BY <2>2, <2>5, <2>6, <2>7
<1>. QED
  BY <1>1, <1>2

(* Only its reconciliation puts a Link into a NodeLinks.                     *)
LEMMA NewLister ==
  ASSUME TypeInv, FreshInv, Next, NEW l \in Link, NEW n \in Node, Lists(n, l)'
  PROVE  Lists(n, l) \/ (pc' # "idle" /\ cur' = l)
<1>1. CASE nodeLinks'[n] = nodeLinks[n]
  BY <1>1 DEF Lists
<1>2. CASE nodeLinks'[n] # nodeLinks[n] /\ n = at /\ RemoveWrite
  <2>. DEFINE o == IF LastLink THEN Deleted(nodeLinks[at], NoNodeLinks)
                               ELSE Removed(nodeLinks[at])
  <2>1. nodeLinks[at].there /\ nodeLinks'[n] = o
    BY <1>2 DEF RemoveWrite, TypeInv, ApiType
  <2>2. o.there /\ ~o.deleting
          => ~nodeLinks[at].deleting /\ o.matching = nodeLinks[at].matching \ {cur}
    <3>. HIDE DEF o
    <3>1. o = IF LastLink THEN Deleted(nodeLinks[at], NoNodeLinks)
                          ELSE Removed(nodeLinks[at])
      BY DEF o
    <3>. QED
      BY <1>2, <2>1, <3>1, RemovedObject DEF FreshInv
  <2>. HIDE DEF o
  <2>. QED
    BY <1>2, <2>1, <2>2 DEF Lists
<1>3. CASE nodeLinks'[n] # nodeLinks[n] /\ n = at /\ (RegisterCreate \/ RegisterPatch)
  <2>1. /\ nodeLinks'[n].deleting = nodeLinks[n].deleting
        /\ nodeLinks'[n].matching = nodeLinks[n].matching \cup {cur}
    BY <1>3, RegisteredObject DEF FreshInv
  <2>2. pc' = "register" /\ cur' = cur
    BY <1>3 DEF RegisterCreate, RegisterPatch, NextRegistration
  <2>3. l \in nodeLinks[n].matching => nodeLinks[n].there
    BY DEF FreshInv, NodeLinksOK, NoNodeLinks, TypeInv, ApiType, NodeLinksObject
  <2>. QED
    BY <2>1, <2>2, <2>3 DEF Lists
<1>4. CASE AgentAddsFinalizer(n) \/ AgentRemovesFinalizer(n) \/ CollectGarbage(n)
  BY <1>4, Outside DEF FreshInv, Agent, Lists
<1>. QED
  BY <1>1, <1>2, <1>3, <1>4, WritersOfNodeLinks

(* A reconciliation goes on, puts its Link back into the queue, is lost in a *)
(* restart or ends with its last patch.                                      *)
LEMMA Ends ==
  ASSUME TypeInv, FreshInv, Next, pc # "idle"
  PROVE  \/ pc' # "idle" /\ cur' = cur
         \/ cur \in queue'
         \/ Restart
         \/ pc = "patch" /\ then = "done" /\ UNCHANGED <<node, nodeLinks>>
<1>. USE DEF ctl, loop
<1>1. CASE Reconcile /\ ~(PatchMain \/ PatchStatus)
  BY <1>1
  DEF Reconcile, ReconcileNothing, ReconcileUpsert, ReconcileDeletion, ListNodes, RemoveSkip,
      RemoveRead, CheckNode, NextRemoval, RemoveWrite, RemovalsDone, RegisterSkip,
      RegisterRead, RegisterCreate, RegisterPatch, NextRegistration, RegistrationsDone,
      HandleError, CallPatch
<1>2. CASE PatchMain \/ PatchStatus \/ APICallFails
  BY <1>2
  DEF PatchMain, PatchStatus, PatchReturns, PatchEnds, PatchFails, HandleError, CallPatch,
      Requeue, APICallFails, IterationFails, ReadFails
<1>3. CASE Deliver \/ Agent \/ (\E n \in Node : CollectGarbage(n)) \/ Environment
  BY <1>3, Outside DEF FreshInv
<1>. QED
  BY <1>1, <1>2, <1>3 DEF Next

(* Whatever is found listed but not wanted is seen to: what made it so has   *)
(* an event of its own, and a reconciliation that ends without an error has  *)
(* removed the Link from every node that the status names and that is not    *)
(* matched.                                                                  *)
LEMMA NextLeftovers ==
  ASSUME ~StaleReads, TypeInv, FreshInv, FreshInv', GenOK, DoneOK, ProgressOK, LeftoversOK,
         Next
  PROVE  LeftoversOK'
<1>. SUFFICES ASSUME NEW l \in Link, NEW n \in Node, Lists(n, l)', ~Wanted(l, n)',
                     ~Pending(l)'
              PROVE  pc' # "idle" /\ cur' = l
  BY DEF LeftoversOK
<1>1. link'[l].there
  BY DEF FreshInv, Tracked, Lists
<1>2. /\ link[l].there /\ link'[l].sel = link[l].sel
      /\ link'[l].deleting = link[l].deleting
      /\ ~Pending(l) \/ Start(l)
      /\ ~Wanted(l, n)
  BY <1>1, Quiet
<1>3. CASE Start(l)
  <2>1. nodeLinks' = nodeLinks /\ link' = link
    BY <1>3 DEF Start, ReconcileNothing, ReconcileUpsert, ReconcileDeletion, api
  <2>2. link[l].there /\ link[l].fin
    BY <2>1 DEF FreshInv, Tracked, Lists
  <2>3. ~ReconcileNothing(l)
    BY <2>2, FreshReads DEF ReconcileNothing
  <2>. QED
    BY <1>3, <2>3 DEF Start, ReconcileUpsert, ReconcileDeletion
<1>4. CASE ~Pending(l)
  <2>1. CASE ~Lists(n, l)
    BY <2>1, NewLister
  <2>2. CASE Lists(n, l)
    <3>1. pc # "idle" /\ cur = l
      BY <1>2, <1>4, <2>2 DEF LeftoversOK
    <3>2. l \notin queue' /\ ~Restart
      BY <1>1 DEF Pending, Restart, api
    <3>3. ~(pc = "patch" /\ then = "done")
      <4>. SUFFICES ASSUME pc = "patch", then = "done"
                    PROVE  FALSE
        OBVIOUS
      <4>1. n \in mem.matched /\ mem.fin
        BY <2>2, <3>1 DEF FreshInv, CopyOK, Listers
      <4>2. action = "upsert" /\ mem.matched = DOMAIN nodes
        BY <3>1, <4>1 DEF DoneOK, TypeInv, LoopOK
      <4>3. DOMAIN nodes = {m \in Node : Wanted(l, m)}
        BY <1>2, <1>4, <3>1, <4>2 DEF ProgressOK, InError, BeforeList
      <4>. QED
        BY <1>2, <4>1, <4>2, <4>3
    <3>. QED
      BY <3>1, <3>2, <3>3, Ends
  <2>. QED
    BY <2>1, <2>2
<1>. QED
  BY <1>2, <1>3, <1>4

(* At first there is nothing.                                                *)
LEMMA InitWork == Init => WorkInv
  BY DEF Init, IdleInit, WorkInv, GenOK, DoneOK, ProgressOK, LeftoversOK, Lists, NoNodeLinks,
         NoLink

(* Together: every step keeps track of the work that is left.                *)
LEMMA NextWork ==
  ASSUME ~StaleReads
  PROVE  TypeInv /\ FreshInv /\ FreshInv' /\ WorkInv /\ [Next]_vars => WorkInv'
<1>. SUFFICES ASSUME TypeInv, FreshInv, FreshInv', WorkInv, [Next]_vars
              PROVE  WorkInv'
  OBVIOUS
<1>. USE DEF WorkInv
<1>1. CASE Next
  BY <1>1, NextGen, NextDone, NextProgress, NextLeftovers
<1>2. CASE UNCHANGED vars
  <2>1. GenOK' /\ DoneOK'
    BY <1>2 DEF vars, api, informer, ctl, GenOK, DoneOK
  <2>2. /\ \A l \in Link : Pending(l)' <=> Pending(l)
        /\ \A l, n : Wanted(l, n)' <=> Wanted(l, n)
        /\ \A l, n : Lists(n, l)' <=> Lists(n, l)
        /\ InError' <=> InError
        /\ BeforeList' <=> BeforeList
    BY <1>2
    DEF vars, api, informer, ctl, Pending, Changed, Wanted, Matching, Lists, InError,
        BeforeList
  <2>3. UNCHANGED <<pc, cur, action, mem, nodes, link>>
    BY <1>2 DEF vars, api, ctl
  <2>4. pc # "idle" => cur \in Link
    BY DEF TypeInv, LoopOK
  <2>5. ProgressOK'
    BY <2>2, <2>3, <2>4 DEF ProgressOK
  <2>6. LeftoversOK'
    BY <2>2, <2>3 DEF LeftoversOK
  <2>. QED
    BY <2>1, <2>5, <2>6
<1>. QED
  BY <1>1, <1>2

(* With reads that are fresh, the controller never settles with a node that  *)
(* is told to apply a Link that does not exist or does not match it: the     *)
(* predicates of the watches (SetupWithManager) drop no event that it needs, *)
(* and no failure, restart or change between two calls of a reconciliation   *)
(* makes it forget a node.                                                   *)
THEOREM SettledWithoutLeftoversWithFreshReads ==
  ASSUME ~StaleReads
  PROVE  Spec => []SettledWithoutLeftovers
<1>1. TypeInv /\ FreshInv /\ [Next]_vars => FreshInv'
  BY NextFresh
<1>2. TypeInv /\ FreshInv /\ FreshInv' /\ WorkInv /\ [Next]_vars => WorkInv'
  BY NextWork
<1>3. WorkInv => SettledWithoutLeftovers
  <2>. SUFFICES ASSUME WorkInv, Settled, NEW l \in Link, NEW n \in Node,
                       nodeLinks[n].there, ~nodeLinks[n].deleting,
                       l \in nodeLinks[n].matching
                PROVE  Wanted(l, n)
    BY DEF SettledWithoutLeftovers
  <2>1. pc = "idle" /\ queue = {} /\ seenLink = link
    BY DEF Settled
  <2>2. ~Pending(l)
    BY <2>1 DEF Pending, Changed
  <2>. QED
    BY <2>1, <2>2 DEF WorkInv, LeftoversOK, Lists
<1>. QED
  BY <1>1, <1>2, <1>3, InitType, NextType, InitFresh, InitWork, PTL DEF Spec

=============================================================================
