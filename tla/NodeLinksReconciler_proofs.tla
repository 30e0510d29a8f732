--------------------- MODULE NodeLinksReconciler_proofs ---------------------
(* Proofs about NodeLinksReconciler, for every set of Links, names, specs    *)
(* and every bound.                                                          *)
EXTENDS NodeLinksReconciler, FiniteSetTheorems, SequenceTheorems, TLAPS

-----------------------------------------------------------------------------
(* What the operators return.                                                *)

HostType ==
  /\ kernel \in [Name -> NetlinkLink]
  /\ made \subseteq Name /\ mine \subseteq Name

PlanType == Listed \subseteq Link /\ res \in [Listed -> LinkSpec] /\ victims \subseteq Name

(* The specs of the listed Links are specs.                                  *)
LEMMA ListedSpec ==
  ASSUME PlanType, NEW l \in Listed
  PROVE  /\ res[l].name \in Name /\ res[l].mtu \in Nat
         /\ res[l].refs \subseteq Reference
  BY DEF PlanType, LinkSpec

(* Names of links are made of them.                                          *)
LEMMA NamesType ==
  ASSUME PlanType
  PROVE  Names \subseteq Name /\ ManagedNames \subseteq Name
  BY ListedSpec DEF Names, ManagedNames

(* What a link is to look like is a link.                                    *)
LEMMA DesiredType ==
  ASSUME PlanType, NEW l \in Listed
  PROVE  Desired(l) \in NetlinkLink
<1>1. Attachments(l) \subseteq Name
  BY ListedSpec DEF Attachments, Dependencies
<1>. QED
  BY <1>1, ListedSpec DEF Desired, NetlinkLink

(* The node's links without one of them are links.                          *)
LEMMA WithoutType ==
  ASSUME HostType, NEW x \in Name
  PROVE  Without(x) \in [Name -> NetlinkLink]
<1>1. Absent \in NetlinkLink
  BY DEF Absent, NetlinkLink
<1>2. ASSUME NEW y \in Name
      PROVE  [kernel[y] EXCEPT !.att = @ \ {x}] \in NetlinkLink
  BY DEF HostType, NetlinkLink
<1>. QED
  BY <1>1, <1>2 DEF Without

(* A netlink operation keeps the types of what it changes.                   *)
LEMMA TouchType ==
  ASSUME HostType, NEW x \in Name, NEW k \in [Name -> NetlinkLink], Touch(x, k)
  PROVE  /\ kernel' \in [Name -> NetlinkLink] /\ mine' \subseteq Name
         /\ queue \in BOOLEAN => queue' \in BOOLEAN
  BY DEF Touch, HostType

(* So does bringing a link down.                                             *)
LEMMA BringDownType ==
  ASSUME HostType, NEW x \in Name, BringDown(x)
  PROVE  HostType' /\ (queue \in BOOLEAN => queue' \in BOOLEAN)
<1>. DEFINE down == IF Present(x) THEN [kernel EXCEPT ![x].state = "down"] ELSE kernel
<1>1. down \in [Name -> NetlinkLink]
  BY DEF HostType, NetlinkLink
<1>2. Touch(x, down) /\ made' = made
  BY DEF BringDown
<1>. HIDE DEF down
<1>. QED
  BY <1>1, <1>2, TouchType DEF HostType

(* The edges to follow are finitely many, so every order of them is a        *)
(* sequence.                                                                 *)
LEMMA OrderType ==
  ASSUME PlanType, NEW S \in SUBSET Edge, NEW order \in SetToSeqs(S)
  PROVE  order \in Seq(Edge)
<1>. DEFINE f == [p \in Listed \X (1..2) |-> [link |-> p[1], setDown |-> p[2] = 1]]
<1>1. IsFiniteSet(Listed) /\ IsFiniteSet(1..2)
  BY NodeLinksReconcilerAssumption, FS_Subset, FS_Interval DEF PlanType
<1>2. f \in Surjection(Listed \X (1..2), Edge)
  <2>1. f \in [Listed \X (1..2) -> Edge]
    BY DEF Edge
  <2>2. ASSUME NEW e \in Edge
        PROVE  \E p \in Listed \X (1..2) : f[p] = e
    <3>. DEFINE p == <<e.link, IF e.setDown THEN 1 ELSE 2>>
    <3>1. p \in Listed \X (1..2)
      BY DEF Edge
    <3>2. f[p] = e
      BY <3>1 DEF Edge
    <3>. QED
      BY <3>1, <3>2
  <2>. QED
    BY <2>1, <2>2 DEF Surjection
<1>3. IsFiniteSet(Edge)
  BY <1>1, <1>2, FS_Product, FS_Surjection
<1>4. Cardinality(S) \in Nat
  BY <1>3, FS_Subset, FS_CardinalityType
<1>5. order \in [1..Cardinality(S) -> S]
  BY DEF SetToSeqs
<1>. QED
  BY <1>4, <1>5

-----------------------------------------------------------------------------
(* Type correctness.  The inductive invariant adds to TypeOK that the loops  *)
(* over Links run over listed ones, whose specs have been read.              *)

OutsideType ==
  /\ spec \in [Link -> LinkSpec \cup {None}]
  /\ nodeLinks \in NodeLinksObject /\ seen \in NodeLinksObject
  /\ watched \subseteq Name /\ queue \in BOOLEAN
  /\ edits \in 0..MaxEdits /\ faults \in 0..MaxFaults

CtlType ==
  /\ pc \in {"idle", "patch", "links", "check", "down", "delete", "upsert",
             "dependents"}
  /\ action \in {"none", "upsert", "delete"}
  /\ then \in {"none", "links", "upsert", "done", "finalized", "error"}
  /\ clusterState \in NodeLinksObject /\ mem \in NodeLinksObject
  /\ PlanType
  /\ todo \subseteq Link \cup Name /\ available \subseteq Name
  /\ at \in Link \cup {None} /\ visited \subseteq Link
  /\ search \in Seq(Edge)
  /\ failed \in BOOLEAN
  /\ pc \in {"check", "upsert", "dependents"} => todo \subseteq Listed
  /\ pc = "dependents" => at \in Listed

TypeInv == OutsideType /\ HostType /\ CtlType

(* A NodeLinks whose spec, or deletion timestamp, is changed.                *)
LEMMA ChangedType ==
  ASSUME NEW o \in NodeLinksObject, NEW S \in SUBSET Link
  PROVE  /\ [o EXCEPT !.there = TRUE, !.matching = S, !.gen = @ + 1] \in NodeLinksObject
         /\ [o EXCEPT !.matching = S, !.gen = @ + 1] \in NodeLinksObject
         /\ [o EXCEPT !.deleting = TRUE, !.gen = @ + 1] \in NodeLinksObject
<1>1. o.gen + 1 \in Nat
  BY DEF NodeLinksObject
<1>2. ASSUME NEW g \in Nat
      PROVE  /\ [o EXCEPT !.there = TRUE, !.matching = S, !.gen = g] \in NodeLinksObject
             /\ [o EXCEPT !.matching = S, !.gen = g] \in NodeLinksObject
             /\ [o EXCEPT !.deleting = TRUE, !.gen = g] \in NodeLinksObject
  BY DEF NodeLinksObject
<1>. QED
  BY <1>1, <1>2

(* The absent NodeLinks is one.                                             *)
LEMMA NoNodeLinksType == NoNodeLinks \in NodeLinksObject
  BY DEF NoNodeLinks, NodeLinksObject

(* The end of a reconciliation leaves locals of the right types.            *)
LEMMA FinishType ==
  ASSUME Finish
  PROVE  CtlType'
<1>1. Listed' = {}
  BY DEF Finish, Listed
<1>2. res' \in [Listed' -> LinkSpec]
  BY <1>1 DEF Finish
<1>3. search' \in Seq(Edge)'
  BY DEF Finish
<1>. QED
  BY <1>1, <1>2, <1>3, NoNodeLinksType DEF Finish, CtlType, PlanType

(* handleError leaves locals of the right types, whatever copy it patches.  *)
LEMMA HandleErrorOfType ==
  ASSUME CtlType, NEW object \in NodeLinksObject, HandleErrorOf(object)
  PROVE  CtlType'
<1>1. mem' \in NodeLinksObject
  BY DEF HandleErrorOf, CallPatch, NodeLinksObject
<1>2. Listed' = Listed /\ Edge' = Edge
  BY DEF HandleErrorOf, plan, Listed, Edge
<1>3. search' \in Seq(Edge)'
  BY <1>2 DEF HandleErrorOf
<1>. QED
  BY <1>1, <1>2, <1>3 DEF CtlType, HandleErrorOf, CallPatch, plan, PlanType

LEMMA HandleErrorType ==
  ASSUME CtlType, HandleError
  PROVE  CtlType'
  BY HandleErrorOfType DEF HandleError, CtlType

(* The search queues edges of the graph and visits Links of it.             *)
LEMMA ReachType ==
  ASSUME PlanType, visited \subseteq Link, NEW l \in Listed, NEW queued \in Seq(Edge),
         Reach(l, queued)
  PROVE  search' \in Seq(Edge) /\ visited' \subseteq Link
<1>. DEFINE S == {e \in Dependents(l) : e.link \notin visited \cup {l}}
<1>1. S \in SUBSET Edge
  BY DEF Dependents
<1>. HIDE DEF S
<1>2. PICK order \in SetToSeqs(S) :
        /\ search' = queued \o order
        /\ visited' = visited \cup {l} \cup {order[i].link : i \in DOMAIN order}
  BY DEF Reach, S
<1>3. order \in Seq(Edge)
  BY <1>1, OrderType
<1>4. \A i \in DOMAIN order : order[i].link \in Link
  <2>1. \A i \in DOMAIN order : order[i] \in Edge
    BY <1>3, LenProperties, ElementOfSeq
  <2>. QED
    BY <2>1 DEF Edge, PlanType
<1>. QED
  BY <1>2, <1>3, <1>4, ConcatProperties DEF PlanType

(* A call of patchResource with a well-typed copy of the object.             *)
LEMMA CallPatchType ==
  ASSUME CtlType, NEW object \in NodeLinksObject,
         NEW next \in {"links", "upsert", "done", "finalized", "error"},
         CallPatch(object, next), UNCHANGED <<plan, available, upsert>>
  PROVE  CtlType'
  BY DEF CallPatch, CtlType, PlanType, Listed, Edge, plan, upsert

(* A failed patch leaves locals of the right types wherever it was made.    *)
LEMMA PatchFailsType ==
  ASSUME CtlType, queue \in BOOLEAN, PatchFails
  PROVE  CtlType' /\ queue' \in BOOLEAN
<1>1. CASE HandleError /\ UNCHANGED queue
  BY <1>1, HandleErrorType
<1>2. CASE Requeue
  BY <1>2, FinishType DEF Requeue
<1>. QED
  BY <1>1, <1>2 DEF PatchFails

(* What a half-done upsert leaves: links, of which only the one it was for    *)
(* may have changed its state, and not to up.                                *)
LEMMA HalfUpsertedType ==
  ASSUME HostType, PlanType, at \in Listed, NEW half \in HalfUpserted
  PROVE  /\ half \in [Name -> NetlinkLink]
         /\ \A y \in Name : /\ half[y].state = "up" => kernel[y].state = "up"
                            /\ y # res[at].name => half[y].state = kernel[y].state
<1>. DEFINE x == res[at].name
<1>1. x \in Name /\ res[at].mtu \in Nat /\ Attachable \in SUBSET Name
  BY ListedSpec DEF Attachable, Attachments, Dependencies
<1>2. /\ kernel[x].state \in {"absent", "down", "up"} /\ kernel[x].mtu \in Nat
      /\ kernel[x].att \in SUBSET Name
  BY <1>1 DEF HostType, NetlinkLink
<1>3. \A y \in Name : Without(x)[y].state = IF y = x THEN "absent" ELSE kernel[y].state
  BY <1>1 DEF Without, Absent, HostType, NetlinkLink
<1>4. CASE half = Without(x)
  BY <1>1, <1>3, <1>4, WithoutType
<1>5. CASE half \in HalfKept
  <2>1. PICK A \in SUBSET (kernel[x].att \cup Attachable) :
          half = [kernel EXCEPT ![x].mtu = res[at].mtu, ![x].att = A]
    BY <1>5 DEF HalfKept
  <2>2. PICK k : k = [kernel[x] EXCEPT !.mtu = res[at].mtu, !.att = A]
    OBVIOUS
  <2>3. k \in NetlinkLink /\ k.state = kernel[x].state
    <3>1. kernel[x] \in NetlinkLink /\ A \in SUBSET Name
      BY <1>1, <1>2 DEF HostType
    <3>. QED
      BY <1>1, <2>2, <3>1 DEF NetlinkLink
  <2>4. half = [kernel EXCEPT ![x] = k]
    BY <1>1, <2>1, <2>2 DEF HostType, NetlinkLink
  <2>. QED
    BY <1>1, <2>3, <2>4 DEF HostType
<1>6. CASE half \in HalfCreated
  <2>1. PICK mtu \in {0, res[at].mtu}, A \in SUBSET Attachable :
          half = [Without(x) EXCEPT ![x] = [state |-> "down", mtu |-> mtu, att |-> A]]
    BY <1>6 DEF HalfCreated, Absent
  <2>2. PICK k : k = [state |-> "down", mtu |-> mtu, att |-> A]
    OBVIOUS
  <2>3. k \in NetlinkLink /\ k.state = "down"
    BY <1>1, <2>2 DEF NetlinkLink
  <2>4. half = [Without(x) EXCEPT ![x] = k]
    BY <2>1, <2>2
  <2>. QED
    BY <1>1, <1>3, <2>3, <2>4, WithoutType
<1>. QED
  BY <1>4, <1>5, <1>6 DEF HalfUpserted

(* An upsert that fails, however far it got.                                 *)
LEMMA UpsertErrorType ==
  ASSUME HostType, CtlType, queue \in BOOLEAN, pc = "dependents", UpsertError
  PROVE  HostType' /\ CtlType' /\ queue' \in BOOLEAN
<1>1. at \in Listed /\ PlanType
  BY DEF CtlType
<1>2. res[at].name \in Name /\ res[at].mtu \in Nat
  BY <1>1, ListedSpec
<1>3. HalfUpserted \cup {kernel} \subseteq [Name -> NetlinkLink]
  BY <1>1, HalfUpsertedType DEF HostType
<1>4. PICK half \in HalfUpserted \cup {kernel} :
        /\ Touch(res[at].name, half)
        /\ made' = IF half[res[at].name].state = "absent" THEN made \ {res[at].name}
                   ELSE IF Present(res[at].name) THEN made
                   ELSE made \cup {res[at].name}
  BY Zenon DEF UpsertError
<1>5. HostType' /\ queue' \in BOOLEAN
  <2>1. kernel' \in [Name -> NetlinkLink] /\ mine' \subseteq Name /\ queue' \in BOOLEAN
    BY <1>2, <1>3, <1>4, TouchType
  <2>2. made' \subseteq Name
    BY <1>2, <1>4 DEF HostType
  <2>. QED
    BY <2>1, <2>2 DEF HostType
<1>6. CtlType'
  BY EmptySeq DEF UpsertError, UpsertFails, Upserted, CtlType, PlanType, Listed, Edge, plan,
         NodeLinksObject
<1>. QED
  BY <1>5, <1>6

(* The agent starts with variables of their types.                           *)
LEMMA InitTypes == Init => TypeInv
<1>. SUFFICES ASSUME Init PROVE TypeInv
  OBVIOUS
<1>1. OutsideType
  <2>1. spec \in [Link -> LinkSpec \cup {None}]
    BY NodeLinksReconcilerAssumption DEF Init
  <2>2. nodeLinks \in NodeLinksObject
    <3>1. CASE nodeLinks = NoNodeLinks
      BY <3>1, NoNodeLinksType
    <3>2. ASSUME NEW S \in SUBSET {l \in Link : spec[l] # None},
                 nodeLinks = [NoNodeLinks EXCEPT !.there = TRUE, !.gen = 1, !.matching = S]
          PROVE  nodeLinks \in NodeLinksObject
      BY <3>2 DEF NoNodeLinks, NodeLinksObject
    <3>. QED
      BY <3>1, <3>2 DEF Init
  <2>3. queue \in BOOLEAN
    BY <2>2 DEF Init, NodeLinksObject
  <2>4. seen = nodeLinks /\ watched = {} /\ edits = 0 /\ faults = 0
    BY DEF Init
  <2>. QED
    BY <2>1, <2>2, <2>3, <2>4, NodeLinksReconcilerAssumption DEF OutsideType
<1>2. HostType
  <2>1. Absent \in NetlinkLink /\ [Absent EXCEPT !.state = "up"] \in NetlinkLink
    BY DEF Absent, NetlinkLink
  <2>2. kernel \in [Name -> {Absent, [Absent EXCEPT !.state = "up"]}]
        /\ made = {} /\ mine = {}
    BY DEF Init
  <2>3. kernel \in [Name -> NetlinkLink]
    BY <2>1, <2>2, Zenon
  <2>. QED
    BY <2>2, <2>3 DEF HostType
<1>3. CtlType
  <2>1. Listed = {} /\ res \in [Listed -> LinkSpec]
    BY DEF Init, Listed
  <2>2. search \in Seq(Edge)
    BY EmptySeq DEF Init
  <2>. QED
    BY <2>1, <2>2, NoNodeLinksType DEF Init, CtlType, PlanType
<1>. QED
  BY <1>1, <1>2, <1>3 DEF TypeInv

(* Every step keeps them.                                                    *)
LEMMA NextTypes == TypeInv /\ [Next]_vars => TypeInv'
<1>. SUFFICES ASSUME TypeInv, [Next]_vars PROVE TypeInv'
  OBVIOUS
<1>. USE DEF TypeInv
<1>. DEFINE Same == UNCHANGED ctl => CtlType'
<1>0. Same
  BY DEF ctl, plan, upsert, CtlType, PlanType, Listed, Edge
<1>1. CASE ReconcileNothing
  BY <1>1, <1>0 DEF ReconcileNothing, api, host, manager, bounds, OutsideType, HostType
<1>2. CASE ReconcileUpsert
  <2>1. ReadNodeLinks \in NodeLinksObject /\ mem' \in NodeLinksObject
    BY <1>2 DEF ReconcileUpsert, ReadNodeLinks, OutsideType, NodeLinksObject
  <2>2. ReadNodeLinks.matching \subseteq Link
    BY <2>1 DEF NodeLinksObject
  <2>3. CtlType'
    BY <1>2, <2>1, <2>2 DEF ReconcileUpsert, CtlType, PlanType, Listed, Edge, upsert
  <2>. QED
    BY <1>2, <2>3 DEF ReconcileUpsert, api, host, manager, bounds, OutsideType, HostType
<1>3. CASE ReconcileDeletion
  <2>1. ReadNodeLinks \in NodeLinksObject /\ ReadNodeLinks.attempted \subseteq Name
    BY <1>3 DEF ReadNodeLinks, OutsideType, NodeLinksObject
  <2>2. CtlType'
    BY <1>3, <2>1 DEF ReconcileDeletion, CtlType, PlanType, Listed, Edge, upsert
  <2>. QED
    BY <1>3, <2>2 DEF ReconcileDeletion, api, host, manager, bounds, OutsideType, HostType
<1>4. ASSUME NEW l \in Link, GetLink(l) PROVE TypeInv'
  <2>1. CtlType'
    <3>1. CASE HandleError
      BY <3>1, HandleErrorType
    <3>2. CASE spec[l] # None /\ res' = [k \in Listed \cup {l} |-> IF k = l THEN spec[l] ELSE res[k]]
               /\ todo' = todo \ {l}
               /\ UNCHANGED <<pc, action, clusterState, victims, mem, available, upsert,
                              failed, then>>
      <4>1. Listed' = Listed \cup {l} /\ res' \in [Listed' -> LinkSpec]
        BY <3>2 DEF Listed, CtlType, PlanType, OutsideType
      <4>2. search' \in Seq(Edge')
        <5>1. Edge \subseteq Edge'
          BY <4>1 DEF Edge
        <5>2. search' = search /\ search \in Seq(Edge)
          BY <3>2 DEF upsert, CtlType
        <5>. QED
          BY <5>1, <5>2, SeqMonotonic
      <4>. QED
        BY <3>2, <4>1, <4>2, <1>4 DEF CtlType, PlanType, upsert, GetLink
    <3>. QED
      BY <3>1, <3>2, <1>4 DEF GetLink
  <2>. QED
    BY <1>4, <2>1 DEF GetLink, api, host, manager, bounds, OutsideType, HostType
<1>5. CASE ValidateLinks
  <2>1. CtlType'
    <3>. DEFINE validated == [mem EXCEPT !.readyLinks = @ \ Names]
    <3>1. validated \in NodeLinksObject
      BY DEF CtlType, NodeLinksObject
    <3>2. CASE HandleErrorOf(validated)
      <4>. HIDE DEF validated
      <4>. QED
        BY <3>1, <3>2, HandleErrorOfType
    <3>3. CASE ~HandleErrorOf(validated)
      BY <3>1, <3>3, <1>5 DEF ValidateLinks, CtlType, PlanType, Listed, Edge, plan, upsert
    <3>. QED
      BY <3>2, <3>3
  <2>2. Names \subseteq Name
    BY NamesType DEF CtlType
  <2>. QED
    BY <1>5, <2>1, <2>2 DEF ValidateLinks, api, host, bounds, OutsideType, HostType
<1>6. ASSUME NEW l \in Link, CheckDependencies(l) PROVE TypeInv'
  <2>1. l \in Listed /\ res[l].name \in Name
    BY <1>6, ListedSpec DEF CheckDependencies, IsNext, CtlType
  <2>2. HostType' /\ queue' \in BOOLEAN
    BY <1>6, <2>1, BringDownType DEF CheckDependencies, host, HostType, OutsideType
  <2>3. CtlType'
    BY <1>6, <2>1 DEF CheckDependencies, CtlType, PlanType, Listed, Edge, plan, upsert
  <2>. QED
    BY <1>6, <2>2, <2>3 DEF CheckDependencies, api, manager, bounds, OutsideType
<1>7. CASE ChecksDone
  <2>1. CtlType'
    <3>1. CASE HandleError
      BY <3>1, HandleErrorType
    <3>2. CASE ~HandleError
      BY <3>2, <1>7 DEF ChecksDone, CtlType, PlanType, Listed, Edge, upsert,
                        NodeLinksObject
    <3>. QED
      BY <3>1, <3>2
  <2>. QED
    BY <1>7, <2>1 DEF ChecksDone, api, host, manager, bounds, OutsideType, HostType
<1>8. ASSUME NEW x \in Name, SetDown(x) PROVE TypeInv'
  <2>1. HostType' /\ queue' \in BOOLEAN
    BY <1>8, BringDownType DEF SetDown, OutsideType
  <2>2. CtlType'
    BY <1>8 DEF SetDown, CtlType, PlanType, Listed, Edge, plan, upsert, NodeLinksObject
  <2>. QED
    BY <1>8, <2>1, <2>2 DEF SetDown, api, manager, bounds, OutsideType
<1>9. CASE SetDownsDone
  <2>1. CtlType'
    <3>1. CASE HandleError
      BY <3>1, HandleErrorType
    <3>2. CASE ~HandleError
      BY <3>2, <1>9 DEF SetDownsDone, CtlType, PlanType, Listed, Edge, plan, upsert
    <3>. QED
      BY <3>1, <3>2
  <2>. QED
    BY <1>9, <2>1 DEF SetDownsDone, api, host, manager, bounds, OutsideType, HostType
<1>10. ASSUME NEW x \in Name, Delete(x) PROVE TypeInv'
  <2>1. HostType' /\ queue' \in BOOLEAN
    BY <1>10, WithoutType, TouchType DEF Delete, OutsideType, HostType
  <2>2. CtlType'
    BY <1>10 DEF Delete, CtlType, PlanType, Listed, Edge, plan, upsert, NodeLinksObject
  <2>. QED
    BY <1>10, <2>1, <2>2 DEF Delete, api, manager, bounds, OutsideType
<1>11. CASE DeletesDone
  <2>1. CtlType'
    <3>1. CASE HandleError
      BY <3>1, HandleErrorType
    <3>2. CASE CallPatch([mem EXCEPT !.attempted = ManagedNames, !.ready = "Unknown"],
                         "upsert")
               /\ UNCHANGED <<plan, available, upsert>>
      <4>1. [mem EXCEPT !.attempted = ManagedNames, !.ready = "Unknown"]
              \in NodeLinksObject
        BY NamesType DEF CtlType, NodeLinksObject
      <4>. QED
        BY <3>2, <4>1, CallPatchType
    <3>3. CASE CallPatch([mem EXCEPT !.fin = FALSE], "finalized")
               /\ UNCHANGED <<plan, available, upsert>>
      <4>1. [mem EXCEPT !.fin = FALSE] \in NodeLinksObject
        BY DEF CtlType, NodeLinksObject
      <4>. QED
        BY <3>3, <4>1, CallPatchType
    <3>. QED
      BY <3>1, <3>2, <3>3, <1>11 DEF DeletesDone
  <2>2. watched' \subseteq Name
    BY <1>11 DEF DeletesDone, OutsideType
  <2>. QED
    BY <1>11, <2>1, <2>2 DEF DeletesDone, api, host, bounds, OutsideType, HostType
<1>12. ASSUME NEW l \in Link, UpsertSkip(l) PROVE TypeInv'
  <2>1. l \in Listed /\ res[l].name \in Name
    BY <1>12, ListedSpec DEF UpsertSkip, IsNext, CtlType
  <2>2. pc = "upsert" /\ Upserted(l) /\ UNCHANGED <<plan, available, then>> /\ failed' \in BOOLEAN
    BY <1>12 DEF UpsertSkip, UpsertFails, CtlType
  <2>3. mem' \in NodeLinksObject
    BY <1>12, <2>1 DEF UpsertSkip, UpsertFails, CtlType, NodeLinksObject
  <2>4. CtlType'
    BY <2>2, <2>3, EmptySeq DEF Upserted, CtlType, PlanType, Listed, Edge, plan
  <2>. QED
    BY <1>12, <2>4 DEF UpsertSkip, api, host, manager, bounds, OutsideType, HostType
<1>13. ASSUME NEW l \in Link, UpsertStart(l) PROVE TypeInv'
  <2>1. l \in Listed /\ PlanType /\ visited \subseteq Link /\ <<>> \in Seq(Edge)
    BY <1>13, EmptySeq DEF UpsertStart, IsNext, CtlType
  <2>2. search' \in Seq(Edge) /\ visited' \subseteq Link
    BY <1>13, <2>1, ReachType DEF UpsertStart
  <2>3. CtlType'
    BY <1>13, <2>1, <2>2 DEF UpsertStart, CtlType, PlanType, Listed, Edge, plan
  <2>. QED
    BY <1>13, <2>3 DEF UpsertStart, api, host, manager, bounds, OutsideType, HostType
<1>14. CASE VisitDependent
  <2>1. Head(search) \in Edge /\ Tail(search) \in Seq(Edge)
    BY <1>14, HeadTailProperties DEF VisitDependent, CtlType
  <2>2. /\ Head(search).link \in Listed /\ PlanType /\ visited \subseteq Link
        /\ res[Head(search).link].name \in Name
    BY <2>1, ListedSpec DEF Edge, CtlType
  <2>3. search' \in Seq(Edge) /\ visited' \subseteq Link
    BY <1>14, <2>1, <2>2, ReachType DEF VisitDependent
  <2>4. HostType' /\ queue' \in BOOLEAN
    BY <1>14, <2>2, BringDownType DEF VisitDependent, host, HostType, OutsideType
  <2>5. CtlType'
    BY <1>14, <2>3 DEF VisitDependent, CtlType, PlanType, Listed, Edge, plan
  <2>. QED
    BY <1>14, <2>4, <2>5 DEF VisitDependent, api, manager, bounds, OutsideType
<1>15. CASE Upsert
  <2>1. at \in Listed /\ res[at].name \in Name /\ PlanType /\ pc = "dependents"
    BY <1>15, ListedSpec DEF Upsert, CtlType
  <2>2. [kernel EXCEPT ![res[at].name] = Desired(at)] \in [Name -> NetlinkLink]
    BY <2>1, DesiredType DEF HostType
  <2>3. kernel' \in [Name -> NetlinkLink] /\ mine' \subseteq Name /\ queue' \in BOOLEAN
    BY <1>15, <2>1, <2>2, TouchType DEF Upsert, OutsideType
  <2>4. HostType'
    BY <1>15, <2>1, <2>3 DEF Upsert, HostType
  <2>5. mem' \in NodeLinksObject
    BY <1>15, <2>1 DEF Upsert, CtlType, NodeLinksObject
  <2>6. CtlType'
    BY <1>15, <2>1, <2>5, EmptySeq DEF Upsert, Upserted, CtlType, PlanType, Listed, Edge, plan
  <2>. QED
    BY <1>15, <2>3, <2>4, <2>6 DEF Upsert, api, manager, bounds, OutsideType
<1>16. CASE UpsertImpossible
  BY <1>16, UpsertErrorType DEF UpsertImpossible, api, manager, bounds, OutsideType
<1>17. CASE UpsertsDone
  <2>1. CtlType'
    <3>1. CASE HandleError
      BY <3>1, HandleErrorType
    <3>2. CASE CallPatch([mem EXCEPT !.ready = "True"], "done")
               /\ UNCHANGED <<plan, available, upsert>>
      <4>1. [mem EXCEPT !.ready = "True"] \in NodeLinksObject
        BY DEF CtlType, NodeLinksObject
      <4>. QED
        BY <3>2, <4>1, CallPatchType
    <3>. QED
      BY <3>1, <3>2, <1>17 DEF UpsertsDone
  <2>. QED
    BY <1>17, <2>1 DEF UpsertsDone, api, host, manager, bounds, OutsideType, HostType
<1>18. CASE PatchMain
  <2>1. CASE nodeLinks.there
    <3>. DEFINE response == [nodeLinks EXCEPT !.fin = mem.fin]
    <3>1. response \in NodeLinksObject
      BY DEF OutsideType, CtlType, NodeLinksObject
    <3>2. /\ nodeLinks' = IF response.deleting /\ ~response.fin THEN NoNodeLinks ELSE response
          /\ clusterState' = response
          /\ mem' = [response EXCEPT !.attempted = mem.attempted,
                                     !.readyLinks = mem.readyLinks, !.ready = mem.ready]
          /\ UNCHANGED <<queue, pc, action, res, victims, todo, available, upsert,
                         failed, then>>
          /\ UNCHANGED <<spec, host, manager, bounds>>
      BY <1>18, <2>1 DEF PatchMain
    <3>. HIDE DEF response
    <3>3. nodeLinks' \in NodeLinksObject /\ clusterState' \in NodeLinksObject
          /\ mem' \in NodeLinksObject
      BY <3>1, <3>2, NoNodeLinksType DEF CtlType, NodeLinksObject
    <3>4. CtlType'
      BY <3>2, <3>3 DEF CtlType, PlanType, Listed, Edge, upsert
    <3>. QED
      BY <3>2, <3>3, <3>4 DEF OutsideType, HostType, host, manager, bounds
  <2>2. CASE ~nodeLinks.there
    BY <1>18, <2>2, PatchFailsType DEF PatchMain, OutsideType, HostType, host, manager, bounds
  <2>. QED
    BY <2>1, <2>2
<1>19. CASE PatchStatus
  <2>1. PatchedStatus \in NodeLinksObject
    BY DEF PatchedStatus, OutsideType, CtlType, NodeLinksObject
  <2>2. nodeLinks' \in NodeLinksObject /\ HostType'
    BY <1>19, <2>1 DEF PatchStatus, OutsideType, HostType
  <2>3. CtlType' /\ queue' \in BOOLEAN
    <3>1. CASE PatchEnds
      BY <3>1, FinishType DEF PatchEnds, Requeue, OutsideType
    <3>2. CASE PatchFails
      BY <3>2, PatchFailsType DEF OutsideType
    <3>3. CASE PatchReturns /\ mem' \in NodeLinksObject /\ clusterState' \in NodeLinksObject
      <4>1. mem'.matching \subseteq Link
        BY <3>3 DEF NodeLinksObject
      <4>. QED
        BY <3>3, <4>1 DEF PatchReturns, CtlType, PlanType, Listed, Edge, upsert, OutsideType
    <3>. QED
      BY <1>19, <2>1, <3>1, <3>2, <3>3 DEF PatchStatus, CtlType
  <2>. QED
    BY <1>19, <2>2, <2>3 DEF PatchStatus, OutsideType, manager, bounds
<1>20. CASE CallFails
  <2>1. UNCHANGED <<spec, nodeLinks, seen, watched>> /\ edits' = edits /\ faults' \in 0..MaxFaults
    BY <1>20, NodeLinksReconcilerAssumption DEF CallFails, Fault, api, manager, OutsideType
  <2>2. HostType' /\ CtlType' /\ queue' \in BOOLEAN
    <3>1. CASE HandleError /\ UNCHANGED <<queue, host>>
      BY <3>1, HandleErrorType DEF host, HostType, OutsideType
    <3>2. CASE PatchFails /\ UNCHANGED host
      BY <3>2, PatchFailsType DEF host, HostType, OutsideType
    <3>3. CASE IterationFails /\ UNCHANGED host
      <4>1. CASE pc # "upsert"
        <5>1. /\ todo' \subseteq todo /\ mem' \in NodeLinksObject /\ failed' = TRUE
              /\ UNCHANGED <<pc, plan, available, upsert, then>>
          BY <3>3, <4>1 DEF IterationFails, CtlType, NodeLinksObject
        <5>. QED
          BY <3>3, <5>1 DEF IterationFails, CtlType, PlanType, Listed, Edge, plan, upsert,
                            host, HostType, OutsideType
      <4>2. ASSUME pc = "upsert", NEW l \in Listed, UpsertFails(l) PROVE CtlType'
        <5>1. mem' \in NodeLinksObject
          BY <4>2, ListedSpec DEF UpsertFails, CtlType, NodeLinksObject
        <5>2. UNCHANGED <<plan, available, then>>
          BY <3>3 DEF IterationFails
        <5>. QED
          BY <4>2, <5>1, <5>2, EmptySeq
             DEF UpsertFails, Upserted, CtlType, PlanType, Listed, Edge, plan
      <4>. QED
        BY <3>3, <4>1, <4>2 DEF IterationFails, host, HostType, OutsideType
    <3>4. CASE pc = "dependents" /\ UpsertFails(at)
               /\ UNCHANGED <<queue, plan, available, then, host>>
      <4>1. mem' \in NodeLinksObject
        BY <3>4, ListedSpec DEF UpsertFails, CtlType, NodeLinksObject
      <4>. QED
        BY <3>4, <4>1, EmptySeq DEF UpsertFails, Upserted, CtlType, PlanType, Listed, Edge,
                                    plan, host, HostType, OutsideType
    <3>5. CASE pc = "dependents" /\ UpsertError
      BY <3>5, UpsertErrorType DEF OutsideType
    <3>. QED
      BY <1>20, <3>1, <3>2, <3>3, <3>4, <3>5 DEF CallFails
  <2>. QED
    BY <2>1, <2>2 DEF OutsideType
<1>21. CASE Restart
  <2>1. CtlType'
    BY <1>21, FinishType DEF Restart
  <2>2. queue' \in BOOLEAN /\ faults' \in 0..MaxFaults
    BY <1>21, NodeLinksReconcilerAssumption
       DEF Restart, Fault, OutsideType, NodeLinksObject
  <2>. QED
    BY <1>21, <2>1, <2>2 DEF Restart, Fault, api, host, OutsideType, HostType
<1>22. CASE Deliver \/ Resync
  BY <1>22, <1>0 DEF Deliver, Resync, api, host, manager, bounds, OutsideType, HostType
<1>23. ASSUME \/ \E l \in Link : SetSpec(l) \/ RemoveLink(l) \/ Register(l) \/ Unregister(l)
              \/ CollectGarbage
       PROVE  TypeInv'
  <2>0. UNCHANGED <<host, manager, ctl>> /\ Edit
    BY <1>23 DEF SetSpec, RemoveLink, Register, Unregister, CollectGarbage
  <2>1. UNCHANGED <<host, manager, ctl>> /\ faults' = faults /\ edits' \in 0..MaxEdits
    BY <2>0, NodeLinksReconcilerAssumption DEF Edit, OutsideType
  <2>2. spec' \in [Link -> LinkSpec \cup {None}]
    <3>1. ASSUME NEW l \in Link, NEW s \in Specs[l] PROVE s \in LinkSpec
      BY NodeLinksReconcilerAssumption
    <3>. QED
      BY <1>23, <3>1 DEF SetSpec, RemoveLink, Register, Unregister, CollectGarbage, OutsideType
  <2>3. nodeLinks' \in NodeLinksObject
    <3>1. ASSUME NEW l \in Link, Register(l) PROVE nodeLinks' \in NodeLinksObject
      <4>1. nodeLinks.matching \cup {l} \in SUBSET Link
        BY DEF OutsideType, NodeLinksObject
      <4>2. [nodeLinks EXCEPT !.there = TRUE, !.matching = nodeLinks.matching \cup {l},
                              !.gen = @ + 1] \in NodeLinksObject
        BY <4>1, ChangedType DEF OutsideType
      <4>. QED
        BY <3>1, <4>2 DEF Register
    <3>2. ASSUME NEW l \in Link, Unregister(l) PROVE nodeLinks' \in NodeLinksObject
      <4>1. nodeLinks.matching \ {l} \in SUBSET Link
        BY DEF OutsideType, NodeLinksObject
      <4>2. /\ [nodeLinks EXCEPT !.matching = nodeLinks.matching \ {l}, !.gen = @ + 1]
                 \in NodeLinksObject
            /\ [nodeLinks EXCEPT !.deleting = TRUE, !.gen = @ + 1] \in NodeLinksObject
        BY <4>1, ChangedType DEF OutsideType
      <4>. QED
        BY <3>2, <4>2, NoNodeLinksType DEF Unregister, Deleted
    <3>3. CASE CollectGarbage
      <4>1. [nodeLinks EXCEPT !.deleting = TRUE, !.gen = @ + 1] \in NodeLinksObject
        BY ChangedType DEF OutsideType
      <4>. QED
        BY <3>3, <4>1, NoNodeLinksType DEF CollectGarbage, Deleted
    <3>. QED
      BY <1>23, <3>1, <3>2, <3>3 DEF SetSpec, RemoveLink, api, OutsideType
  <2>4. queue' \in BOOLEAN
    BY <1>23 DEF SetSpec, RemoveLink, Register, Unregister, CollectGarbage, OutsideType
  <2>. QED
    BY <2>1, <2>2, <2>3, <2>4, <1>0 DEF host, manager, OutsideType, HostType
<1>24. ASSUME NEW x \in Name, Others(x) PROVE TypeInv'
  <2>1. kernel' \in [Name -> NetlinkLink]
    <3>1. Without(x) \in [Name -> NetlinkLink] /\ [Absent EXCEPT !.state = "up"] \in NetlinkLink
      BY WithoutType DEF Absent, NetlinkLink
    <3>2. ASSUME NEW k \in [Name -> NetlinkLink]
          PROVE  /\ [k EXCEPT ![x].state = "down"] \in [Name -> NetlinkLink]
                 /\ [k EXCEPT ![x].mtu = 0] \in [Name -> NetlinkLink]
                 /\ [k EXCEPT ![x].att = {}] \in [Name -> NetlinkLink]
      BY DEF NetlinkLink
    <3>. QED
      BY <1>24, <3>1, <3>2 DEF Others, HostType
  <2>2. HostType'
    BY <1>24, <2>1 DEF Others, HostType
  <2>3. UNCHANGED <<spec, nodeLinks, seen, watched, ctl>> /\ faults' = faults
        /\ edits' \in 0..MaxEdits /\ queue' \in BOOLEAN
    BY <1>24, NodeLinksReconcilerAssumption DEF Others, Edit, api, manager, OutsideType
  <2>. QED
    BY <2>2, <2>3, <1>0 DEF OutsideType
<1>25. CASE UNCHANGED vars
  BY <1>25, <1>0 DEF vars, api, host, manager, bounds, OutsideType, HostType
<1>. QED
  BY <1>1, <1>2, <1>3, <1>4, <1>5, <1>6, <1>7, <1>8, <1>9, <1>10, <1>11, <1>12, <1>13,
     <1>14, <1>15, <1>16, <1>17, <1>18, <1>19, <1>20, <1>21, <1>22, <1>23, <1>24, <1>25
     DEF Next, Reconcile, Environment

(* Every API call, netlink operation and edit leaves every variable well     *)
(* typed: the conditions are kept under link names, the searches stay inside *)
(* the listed Links, and no step reads a Link that has not been read.        *)
THEOREM TypeCorrect == Spec => []TypeOK
<1>1. TypeInv => TypeOK
  BY DEF TypeInv, OutsideType, HostType, CtlType, PlanType, TypeOK
<1>. QED
  BY <1>1, InitTypes, NextTypes, PTL DEF Spec

-----------------------------------------------------------------------------
(* No orphans.  The invariant WriteAhead is inductive when reads are fresh.  *)

Types ==
  /\ nodeLinks \in NodeLinksObject /\ clusterState \in NodeLinksObject
  /\ mem \in NodeLinksObject

(* An error does not disturb it: the patch that follows may still store the  *)
(* attempted names, or take the finalizer off when every link is gone.       *)
LEMMA HandleErrorOfWriteAhead ==
  ASSUME Types, WriteAhead, pc # "idle", UNCHANGED <<nodeLinks, made>>,
         NEW object \in NodeLinksObject, HandleErrorOf(object),
         object.fin = mem.fin, object.attempted = mem.attempted
  PROVE  WriteAhead'
<1>1. /\ mem'.fin = mem.fin /\ mem'.attempted = mem.attempted
      /\ pc' = "patch" /\ then' = "error" /\ failed' = FALSE
      /\ UNCHANGED <<action, clusterState, res, victims>>
  BY DEF HandleErrorOf, CallPatch, plan, Types, NodeLinksObject
<1>2. Names' = Names /\ ManagedNames' = ManagedNames /\ Listed' = Listed
  BY <1>1 DEF Names, ManagedNames, Listed
<1>. QED
  BY <1>1, <1>2 DEF WriteAhead, NoOrphan

LEMMA HandleErrorWriteAhead ==
  ASSUME Types, WriteAhead, pc # "idle", HandleError, UNCHANGED <<nodeLinks, made>>
  PROVE  WriteAhead'
  BY HandleErrorOfWriteAhead DEF HandleError, Types

(* Nor does the end of a reconciliation, which only forgets its locals.      *)
LEMMA FinishWriteAhead ==
  ASSUME WriteAhead, Finish, UNCHANGED nodeLinks, made' \subseteq made
  PROVE  WriteAhead'
  BY DEF Finish, WriteAhead, NoOrphan

(* A step of a loop that leaves the object, its copies and the plan alone.   *)
LEMMA LocalWriteAhead ==
  ASSUME Types, WriteAhead, pc # "idle", pc # "patch",
         UNCHANGED <<nodeLinks, pc, then, plan>>, made' \subseteq made,
         mem'.fin = mem.fin, mem'.attempted = mem.attempted,
         pc = "delete" /\ ~failed' => ~failed /\ todo \cap made' \subseteq todo',
         todo' \subseteq todo,
         pc = "dependents" => at' = at
  PROVE  WriteAhead'
<1>1. Names' = Names /\ ManagedNames' = ManagedNames /\ Listed' = Listed
  BY DEF Names, ManagedNames, Listed, plan
<1>. QED
  BY <1>1 DEF WriteAhead, NoOrphan, plan

(* What the agent has read of the stored names, and what it is about to make *)
(* of them, agrees with the links it answers for at every call, when it reads *)
(* the object as it is stored.                                               *)
THEOREM WriteAheadWithFreshReads ==
  ASSUME ~StaleReads
  PROVE  Spec => []WriteAhead
<1>1. Init => WriteAhead
  <2>. SUFFICES ASSUME Init PROVE WriteAhead
    OBVIOUS
  <2>1. made = {} /\ pc = "idle"
    BY DEF Init
  <2>2. nodeLinks.attempted = {}
    <3>1. CASE nodeLinks = NoNodeLinks
      BY <3>1 DEF NoNodeLinks
    <3>2. ASSUME NEW S, nodeLinks = [NoNodeLinks EXCEPT !.there = TRUE, !.gen = 1, !.matching = S]
          PROVE  nodeLinks.attempted = {}
      BY <3>2 DEF NoNodeLinks
    <3>. QED
      BY <3>1, <3>2 DEF Init
  <2>. QED
    BY <2>1, <2>2 DEF WriteAhead, NoOrphan
<1>2. TypeOK /\ WriteAhead /\ [Next]_vars => WriteAhead'
  <2>. SUFFICES ASSUME TypeOK, WriteAhead, [Next]_vars PROVE WriteAhead'
    OBVIOUS
  <2>0. Types
    BY DEF TypeOK, Types
  <2>. DEFINE Quiet == UNCHANGED <<nodeLinks, ctl>> /\ made' \subseteq made => WriteAhead'
  <2>1. Quiet
    BY DEF ctl, plan, WriteAhead, NoOrphan, Names, ManagedNames, Listed, upsert
  <2>2. CASE \/ ReconcileNothing \/ Deliver \/ Resync
             \/ \E l \in Link : SetSpec(l) \/ RemoveLink(l)
             \/ \E x \in Name : Others(x)
             \/ UNCHANGED vars
    BY <2>2, <2>1 DEF ReconcileNothing, Deliver, Resync, SetSpec, RemoveLink, Others, api, host,
                      vars
  <2>3. CASE ReconcileUpsert \/ ReconcileDeletion
    <3>1. ReadNodeLinks = nodeLinks
      BY DEF ReadNodeLinks
    <3>2. CASE ReconcileUpsert
      <4>1. mem'.fin = TRUE /\ mem'.attempted = nodeLinks.attempted
        BY <2>0, <3>1, <3>2 DEF ReconcileUpsert, Types, NodeLinksObject
      <4>. QED
        BY <3>1, <3>2, <4>1 DEF ReconcileUpsert, WriteAhead, NoOrphan, api, host, Types,
                                NodeLinksObject
    <3>3. CASE ReconcileDeletion
      BY <3>1, <3>3 DEF ReconcileDeletion, WriteAhead, NoOrphan, api, host
    <3>. QED
      BY <2>3, <3>2, <3>3
  <2>4. ASSUME NEW l \in Link, GetLink(l) PROVE WriteAhead'
    <3>1. CASE HandleError
      BY <2>0, <2>4, <3>1, HandleErrorWriteAhead DEF GetLink, api, host
    <3>2. CASE ~HandleError
      BY <2>4, <3>2 DEF GetLink, WriteAhead, NoOrphan, api, host
    <3>. QED
      BY <3>1, <3>2
  <2>5. CASE ValidateLinks
    <3>. DEFINE validated == [mem EXCEPT !.readyLinks = @ \ Names]
    <3>1. /\ validated \in NodeLinksObject
          /\ validated.fin = mem.fin /\ validated.attempted = mem.attempted
      BY <2>0 DEF Types, NodeLinksObject
    <3>2. CASE HandleErrorOf(validated)
      <4>1. UNCHANGED <<nodeLinks, made>> /\ pc # "idle"
        BY <2>5 DEF ValidateLinks, api, host
      <4>. HIDE DEF validated
      <4>. QED
        BY <2>0, <3>1, <3>2, <4>1, HandleErrorOfWriteAhead
    <3>3. CASE ~HandleErrorOf(validated)
      <4>1. mem'.fin = mem.fin /\ mem'.attempted = mem.attempted
        BY <2>5, <3>1, <3>3 DEF ValidateLinks
      <4>. QED
        BY <2>5, <3>3, <4>1 DEF ValidateLinks, WriteAhead, NoOrphan, api, host, plan
    <3>. QED
      BY <3>2, <3>3
  <2>6. ASSUME NEW l \in Link, CheckDependencies(l) PROVE WriteAhead'
    <3>1. made' = made
      BY <2>6 DEF CheckDependencies, BringDown, host
    <3>. QED
      BY <2>0, <2>6, <3>1, LocalWriteAhead DEF CheckDependencies, api
  <2>7. CASE ChecksDone
    <3>1. CASE HandleError
      BY <2>0, <2>7, <3>1, HandleErrorWriteAhead DEF ChecksDone, api, host
    <3>2. CASE ~HandleError
      <4>1. Names' = Names
        BY <2>7, <3>2 DEF ChecksDone, Names, Listed
      <4>. QED
        BY <2>7, <3>2, <4>1 DEF ChecksDone, WriteAhead, NoOrphan, api, host
    <3>. QED
      BY <3>1, <3>2
  <2>8. ASSUME NEW x \in Name, SetDown(x) PROVE WriteAhead'
    <3>1. mem'.fin = mem.fin /\ mem'.attempted = mem.attempted
      BY <2>0, <2>8 DEF SetDown, Types, NodeLinksObject
    <3>. QED
      BY <2>0, <2>8, <3>1, LocalWriteAhead DEF SetDown, BringDown, api
  <2>9. CASE SetDownsDone
    <3>1. CASE HandleError
      BY <2>0, <2>9, <3>1, HandleErrorWriteAhead DEF SetDownsDone, api, host
    <3>2. CASE ~HandleError
      <4>1. Names' = Names
        BY <2>9, <3>2 DEF SetDownsDone, Names, Listed, plan
      <4>. QED
        BY <2>9, <3>2, <4>1 DEF SetDownsDone, WriteAhead, NoOrphan, api, host, plan
    <3>. QED
      BY <3>1, <3>2
  <2>10. ASSUME NEW x \in Name, Delete(x) PROVE WriteAhead'
    <3>1. mem'.fin = mem.fin /\ mem'.attempted = mem.attempted
      BY <2>0, <2>10 DEF Delete, Types, NodeLinksObject
    <3>2. todo' = todo \ {x} /\ made' = made \ {x} /\ UNCHANGED <<nodeLinks, pc, then, plan, failed>>
          /\ pc = "delete"
      BY <2>10 DEF Delete, api
    <3>3. ~failed => todo \cap made' \subseteq todo'
      BY <3>2
    <3>. QED
      BY <2>0, <3>1, <3>2, <3>3, LocalWriteAhead
  <2>11. CASE DeletesDone
    <3>1. CASE HandleError
      BY <2>0, <2>11, <3>1, HandleErrorWriteAhead DEF DeletesDone, api, host
    <3>2. CASE ~HandleError /\ action = "upsert"
      <4>1. /\ mem'.fin = mem.fin /\ mem'.attempted = ManagedNames
            /\ UNCHANGED <<nodeLinks, made, clusterState, action, res>>
            /\ pc' = "patch" /\ then' = "upsert" /\ pc = "delete" /\ ~failed /\ todo = {}
        BY <2>0, <2>11, <3>2 DEF DeletesDone, CallPatch, Types, NodeLinksObject, api, host, plan
      <4>2. made \subseteq Names
        BY <3>2, <4>1 DEF WriteAhead, NoOrphan
      <4>3. Names' = Names /\ ManagedNames' = ManagedNames
        BY <4>1 DEF Names, ManagedNames, Listed
      <4>. QED
        BY <3>2, <4>1, <4>2, <4>3 DEF WriteAhead, NoOrphan
    <3>3. CASE ~HandleError /\ action # "upsert"
      <4>1. /\ mem'.fin = FALSE /\ mem'.attempted = mem.attempted /\ action = "delete"
            /\ UNCHANGED <<nodeLinks, made, clusterState, action>>
            /\ pc' = "patch" /\ then' = "finalized" /\ pc = "delete" /\ ~failed /\ todo = {}
        BY <2>0, <2>11, <3>3 DEF DeletesDone, CallPatch, Types, NodeLinksObject, api, host, plan
      <4>2. made = {}
        BY <4>1 DEF WriteAhead, NoOrphan
      <4>. QED
        BY <4>1, <4>2 DEF WriteAhead, NoOrphan
    <3>. QED
      BY <3>1, <3>2, <3>3
  <2>12. ASSUME NEW l \in Link, UpsertSkip(l) PROVE WriteAhead'
    <3>1. mem'.fin = mem.fin /\ mem'.attempted = mem.attempted
      BY <2>0, <2>12 DEF UpsertSkip, UpsertFails, Types, NodeLinksObject
    <3>. QED
      BY <2>0, <2>12, <3>1, LocalWriteAhead
         DEF UpsertSkip, UpsertFails, Upserted, api, host
  <2>13. ASSUME NEW l \in Link, UpsertStart(l) PROVE WriteAhead'
    <3>1. l \in Listed /\ res[l].managed
      BY <2>13 DEF UpsertStart, IsNext, UpsertNeeded, WriteAhead
    <3>2. ManagedNames' = ManagedNames /\ Listed' = Listed /\ Names' = Names
      BY <2>13 DEF UpsertStart, ManagedNames, Names, Listed, plan
    <3>. QED
      BY <2>13, <3>1, <3>2 DEF UpsertStart, WriteAhead, NoOrphan, api, host, plan
  <2>14. CASE VisitDependent
    <3>1. made' = made
      BY <2>14 DEF VisitDependent, BringDown, host
    <3>. QED
      BY <2>0, <2>14, <3>1, LocalWriteAhead DEF VisitDependent, api
  <2>15. ASSUME pc = "dependents", UNCHANGED nodeLinks, Upserted(at),
                UNCHANGED <<plan, available, then>>,
                made' \subseteq made \cup {res[at].name},
                mem'.fin = mem.fin, mem'.attempted = mem.attempted
         PROVE  WriteAhead'
    <3>1. res[at].name \in ManagedNames
      BY <2>15 DEF WriteAhead, ManagedNames
    <3>2. ManagedNames' = ManagedNames /\ Listed' = Listed
      BY <2>15 DEF ManagedNames, Listed, plan
    <3>. QED
      BY <2>15, <3>1, <3>2 DEF Upserted, WriteAhead, NoOrphan, plan
  <2>16. CASE Upsert
    <3>1. mem'.fin = mem.fin /\ mem'.attempted = mem.attempted
      BY <2>0, <2>16 DEF Upsert, Types, NodeLinksObject
    <3>. QED
      BY <2>15, <2>16, <3>1 DEF Upsert, api
  <2>17. ASSUME pc = "dependents", UpsertError, UNCHANGED nodeLinks PROVE WriteAhead'
    <3>1. made' \subseteq made \cup {res[at].name}
      BY <2>17 DEF UpsertError
    <3>2. mem'.fin = mem.fin /\ mem'.attempted = mem.attempted
      BY <2>0, <2>17 DEF UpsertError, UpsertFails, Types, NodeLinksObject
    <3>. QED
      BY <2>15, <2>17, <3>1, <3>2 DEF UpsertError, UpsertFails
  <2>18. CASE UpsertsDone
    <3>1. CASE HandleError
      BY <2>0, <2>18, <3>1, HandleErrorWriteAhead DEF UpsertsDone, api, host
    <3>2. CASE ~HandleError
      <4>1. mem'.fin = mem.fin /\ mem'.attempted = mem.attempted
            /\ pc' = "patch" /\ then' = "done" /\ pc = "upsert"
            /\ UNCHANGED <<nodeLinks, made, action, clusterState, res>>
        BY <2>0, <2>18, <3>2 DEF UpsertsDone, CallPatch, Types, NodeLinksObject, api, host, plan
      <4>. QED
        BY <4>1 DEF WriteAhead, NoOrphan
    <3>. QED
      BY <3>1, <3>2
  <2>19. ASSUME PatchFails, pc = "patch", UNCHANGED <<nodeLinks, made>> PROVE WriteAhead'
    BY <2>0, <2>19, HandleErrorWriteAhead, FinishWriteAhead DEF PatchFails, Requeue
  <2>20. CASE PatchMain
    <3>1. CASE ~nodeLinks.there
      BY <2>19, <2>20, <3>1 DEF PatchMain, host
    <3>2. CASE nodeLinks.there
      <4>. DEFINE response == [nodeLinks EXCEPT !.fin = mem.fin]
      <4>1. /\ response.fin = mem.fin /\ response.attempted = nodeLinks.attempted
            /\ response.deleting = nodeLinks.deleting /\ response.there = nodeLinks.there
            /\ response \in NodeLinksObject
        BY <2>0 DEF Types, NodeLinksObject
      <4>2. /\ nodeLinks' = IF response.deleting /\ ~response.fin THEN NoNodeLinks ELSE response
            /\ clusterState' = response
            /\ mem' = [response EXCEPT !.attempted = mem.attempted,
                                       !.readyLinks = mem.readyLinks, !.ready = mem.ready]
            /\ UNCHANGED <<pc, action, res, victims, then, made>>
            /\ pc = "patch" /\ mem.fin # clusterState.fin
        BY <2>20, <3>2 DEF PatchMain, host
      <4>. HIDE DEF response
      <4>3. mem'.fin = mem.fin /\ mem'.attempted = mem.attempted
        BY <4>1, <4>2 DEF NodeLinksObject
      <4>4. Names' = Names /\ ManagedNames' = ManagedNames
        BY <4>2 DEF Names, ManagedNames, Listed
      <4>5. CASE mem.fin
        BY <3>2, <4>1, <4>2, <4>3, <4>4, <4>5 DEF WriteAhead, NoOrphan
      <4>6. CASE ~mem.fin
        <5>1. action = "delete" /\ nodeLinks.deleting /\ made = {}
          BY <2>0, <4>2, <4>6 DEF WriteAhead, Types, NodeLinksObject
        <5>2. nodeLinks' = NoNodeLinks
          BY <4>1, <4>2, <4>6, <5>1
        <5>3. clusterState.fin /\ mem.attempted = nodeLinks.attempted
          BY <2>0, <4>2, <4>6, <5>1 DEF WriteAhead, Types, NodeLinksObject
        <5>4. made' = {} /\ nodeLinks'.attempted = {} /\ ~clusterState'.fin /\ ~mem'.fin
              /\ mem'.attempted = clusterState'.attempted /\ pc' = "patch" /\ action' = "delete"
              /\ then' = then
          BY <4>1, <4>2, <4>3, <4>6, <5>1, <5>2, <5>3 DEF NoNodeLinks
        <5>. QED
          BY <4>2, <5>1, <5>4 DEF WriteAhead, NoOrphan
      <4>. QED
        BY <4>5, <4>6
    <3>. QED
      BY <3>1, <3>2
  <2>21. CASE PatchStatus
    <3>1. /\ PatchedStatus.there = nodeLinks.there /\ PatchedStatus.fin = nodeLinks.fin
          /\ PatchedStatus.deleting = nodeLinks.deleting
          /\ PatchedStatus.attempted = IF mem.attempted = clusterState.attempted
                                       THEN nodeLinks.attempted ELSE mem.attempted
      BY <2>0 DEF PatchedStatus, Types, NodeLinksObject
    <3>. HIDE DEF PatchedStatus
    <3>2. pc = "patch" /\ mem.fin = clusterState.fin
      BY <2>21 DEF PatchStatus
    <3>3. CASE ~SameStatus /\ nodeLinks.there /\ nodeLinks' = PatchedStatus
               /\ made' = made \ (Names \ PatchedStatus.attempted)
               /\ \/ mem' = PatchedStatus /\ clusterState' = PatchedStatus /\ PatchReturns
                  \/ PatchEnds
      <4>1. NoOrphan' /\ (~nodeLinks'.fin => nodeLinks'.attempted = {})
        BY <3>1, <3>2, <3>3 DEF WriteAhead, NoOrphan
      <4>2. CASE PatchEnds
        BY <4>1, <4>2 DEF PatchEnds, Requeue, Finish, WriteAhead
      <4>3. CASE mem' = PatchedStatus /\ clusterState' = PatchedStatus /\ PatchReturns
        <5>1. Names' = Names /\ ManagedNames' = ManagedNames /\ Listed' = Listed
          BY <4>3 DEF PatchReturns, Names, ManagedNames, Listed
        <5>. QED
          BY <3>1, <3>2, <3>3, <4>1, <4>3, <5>1 DEF PatchReturns, WriteAhead
      <4>. QED
        BY <3>3, <4>2, <4>3
    <3>4. CASE UNCHANGED <<nodeLinks, made>> /\ UNCHANGED <<mem, clusterState>> /\ PatchReturns
               /\ SameStatus
      <4>1. Names' = Names /\ ManagedNames' = ManagedNames /\ Listed' = Listed
        BY <3>4 DEF PatchReturns, Names, ManagedNames, Listed
      <4>. QED
        BY <3>2, <3>4, <4>1 DEF PatchReturns, SameStatus, WriteAhead, NoOrphan
    <3>5. CASE UNCHANGED <<nodeLinks, made>> /\ UNCHANGED <<mem, clusterState>> /\ PatchReturns
               /\ ~nodeLinks.there
      <4>1. action = "upsert" /\ mem.fin
        BY <3>2, <3>5 DEF PatchReturns, WriteAhead
      <4>. QED
        BY <3>2, <3>5, <4>1 DEF WriteAhead
    <3>6. CASE UNCHANGED <<nodeLinks, made>> /\ PatchEnds
      BY <3>6, FinishWriteAhead DEF PatchEnds, Requeue
    <3>7. CASE UNCHANGED <<nodeLinks, made>> /\ PatchFails
      BY <2>19, <3>2, <3>7
    <3>. QED
      BY <2>21, <3>3, <3>4, <3>5, <3>6, <3>7 DEF PatchStatus
  <2>22. CASE UpsertImpossible
    BY <2>17, <2>22 DEF UpsertImpossible, api
  <2>23. CASE CallFails
    <3>1. UNCHANGED nodeLinks
      BY <2>23 DEF CallFails, api
    <3>2. CASE HandleError /\ UNCHANGED host /\ pc = "links"
      BY <2>0, <3>1, <3>2, HandleErrorWriteAhead DEF host
    <3>3. CASE PatchFails /\ UNCHANGED host /\ pc = "patch"
      BY <2>19, <3>1, <3>3 DEF host
    <3>4. CASE IterationFails /\ UNCHANGED host
      <4>1. /\ mem'.fin = mem.fin /\ mem'.attempted = mem.attempted /\ failed' = TRUE
            /\ pc \notin {"idle", "patch", "dependents"} /\ todo' \subseteq todo
            /\ UNCHANGED <<pc, plan, then>>
        BY <2>0, <3>4 DEF IterationFails, UpsertFails, Upserted, Types, NodeLinksObject
      <4>. QED
        BY <2>0, <3>1, <3>4, <4>1, LocalWriteAhead DEF host
    <3>5. CASE pc = "dependents" /\ UpsertFails(at) /\ UNCHANGED <<plan, available, then, host>>
      <4>1. mem'.fin = mem.fin /\ mem'.attempted = mem.attempted
        BY <2>0, <3>5 DEF UpsertFails, Types, NodeLinksObject
      <4>. QED
        BY <2>15, <3>1, <3>5, <4>1 DEF UpsertFails, host
    <3>6. CASE pc = "dependents" /\ UpsertError
      BY <2>17, <3>1, <3>6
    <3>. QED
      BY <2>23, <3>2, <3>3, <3>4, <3>5, <3>6 DEF CallFails
  <2>24. CASE Restart
    BY <2>24, FinishWriteAhead DEF Restart, api, host
  <2>25. ASSUME NEW l \in Link, Register(l) PROVE WriteAhead'
    <3>1. /\ nodeLinks'.there = TRUE /\ nodeLinks'.fin = nodeLinks.fin
          /\ nodeLinks'.attempted = nodeLinks.attempted
          /\ nodeLinks'.deleting = nodeLinks.deleting
      BY <2>0, <2>25 DEF Register, Types, NodeLinksObject
    <3>2. UNCHANGED <<made, ctl>>
      BY <2>25 DEF Register, host
    <3>3. Names' = Names /\ ManagedNames' = ManagedNames /\ Listed' = Listed
      BY <3>2 DEF ctl, plan, Names, ManagedNames, Listed
    <3>. QED
      BY <3>1, <3>2, <3>3 DEF ctl, plan, upsert, WriteAhead, NoOrphan
  <2>26. ASSUME (\E l \in Link : Unregister(l)) \/ CollectGarbage PROVE WriteAhead'
    <3>2. UNCHANGED <<made, ctl>> /\ nodeLinks.there
      BY <2>26 DEF Unregister, CollectGarbage, Live, host
    <3>3. Names' = Names /\ ManagedNames' = ManagedNames /\ Listed' = Listed
      BY <3>2 DEF ctl, plan, Names, ManagedNames, Listed
    <3>4. CASE ~nodeLinks.fin /\ nodeLinks' = NoNodeLinks
      BY <3>2, <3>3, <3>4 DEF ctl, plan, upsert, WriteAhead, NoOrphan, NoNodeLinks
    <3>5. CASE \/ \E l \in Link :
                    nodeLinks' = [nodeLinks EXCEPT !.matching = @ \ {l}, !.gen = @ + 1]
               \/ nodeLinks' = [nodeLinks EXCEPT !.deleting = TRUE, !.gen = @ + 1]
      <4>1. /\ nodeLinks'.there /\ nodeLinks'.fin = nodeLinks.fin
            /\ nodeLinks'.attempted = nodeLinks.attempted
            /\ nodeLinks.deleting => nodeLinks'.deleting
        BY <2>0, <3>2, <3>5 DEF Types, NodeLinksObject
      <4>. QED
        BY <3>2, <3>3, <4>1 DEF ctl, plan, upsert, WriteAhead, NoOrphan
    <3>. QED
      BY <2>26, <3>4, <3>5 DEF Unregister, CollectGarbage, Deleted
  <2>. QED
    BY <2>2, <2>3, <2>4, <2>5, <2>6, <2>7, <2>8, <2>9, <2>10, <2>11, <2>12, <2>13, <2>14,
       <2>16, <2>18, <2>20, <2>21, <2>22, <2>23, <2>24, <2>25, <2>26
       DEF Next, Reconcile, Environment
<1>. QED
  BY <1>1, <1>2, TypeCorrect, PTL DEF Spec

(* Storing the attempted names before the first upsert, and deleting before  *)
(* forgetting, is enough that no crash, restart, failed call or edit by      *)
(* somebody else leaves a link of the agent that the stored status does not  *)
(* name.                                                                     *)
THEOREM NoOrphanWithFreshReads ==
  ASSUME ~StaleReads
  PROVE  Spec => []NoOrphan
<1>1. WriteAhead => NoOrphan
  BY DEF WriteAhead
<1>. QED
  BY <1>1, WriteAheadWithFreshReads, PTL

-----------------------------------------------------------------------------
(* The agent implements its part of the NodeLinks' lifecycle.                *)

(* An object is only kept after its deletion by the finalizer.               *)
Held == nodeLinks.deleting => nodeLinks.there /\ nodeLinks.fin

(* The variables of NodeLinksLifecycle.                                      *)
LifecycleView == <<nodeLinks, made>>

(* Only these steps write the object.                                        *)
LEMMA WritersOfNodeLinks ==
  ASSUME [Next]_vars
  PROVE  \/ UNCHANGED nodeLinks
         \/ PatchMain \/ PatchStatus \/ CollectGarbage
         \/ \E l \in Link : Register(l) \/ Unregister(l)
<1>1. CASE Environment \/ Deliver \/ Resync \/ Restart \/ UNCHANGED vars
  BY <1>1 DEF Environment, SetSpec, RemoveLink, Others, Deliver, Resync, Restart, vars, api
<1>2. CASE CallFails
  BY <1>2 DEF CallFails, api
<1>3. CASE Reconcile
  BY <1>3 DEF Reconcile, ReconcileNothing, ReconcileUpsert, ReconcileDeletion, GetLink,
              CheckDependencies, ValidateLinks, ChecksDone, SetDown, Delete, SetDownsDone,
              DeletesDone, UpsertSkip, UpsertStart, VisitDependent, Upsert,
              UpsertImpossible, UpsertsDone, api
<1>. QED
  BY <1>1, <1>2, <1>3 DEF Next

(* What the Link controller and the garbage collector do in the agent's      *)
(* model is their part.                                                      *)
LEMMA EnvironmentFollows ==
  ASSUME Types, Held, ~nodeLinks.fin => nodeLinks.attempted = {},
         CollectGarbage \/ \E l \in Link : Register(l) \/ Unregister(l)
  PROVE  Lifecycle!ControllerStep /\ Held'
<1>0. made' = made
  BY DEF CollectGarbage, Register, Unregister, host
<1>1. CASE nodeLinks' = Deleted /\ Live
  <2>1. CASE nodeLinks.fin
    <3>1. nodeLinks' = [nodeLinks EXCEPT !.deleting = TRUE, !.gen = @ + 1]
      BY <1>1, <2>1 DEF Deleted
    <3>. QED
      BY <1>0, <1>1, <2>1, <3>1
         DEF Types, NodeLinksObject, Live, Held, Lifecycle!ControllerStep, Lifecycle!Delete,
             Lifecycle!record
  <2>2. CASE ~nodeLinks.fin
    <3>1. nodeLinks' = NoNodeLinks
      BY <1>1, <2>2 DEF Deleted
    <3>. QED
      BY <1>0, <1>1, <2>2, <3>1
         DEF NoNodeLinks, Live, Held, Lifecycle!ControllerStep, Lifecycle!Delete,
             Lifecycle!Vanish
  <2>. QED
    BY <2>1, <2>2 DEF Types, NodeLinksObject
<1>2. ASSUME NEW l \in Link, Register(l)
      PROVE  Lifecycle!ControllerStep /\ Held'
  <2>1. /\ nodeLinks'.there /\ nodeLinks'.matching # {}
        /\ nodeLinks'.deleting = nodeLinks.deleting /\ nodeLinks'.fin = nodeLinks.fin
        /\ nodeLinks'.attempted = nodeLinks.attempted
    BY <1>2 DEF Register, Types, NodeLinksObject
  <2>. QED
    BY <1>0, <2>1
       DEF Types, NodeLinksObject, Held, Lifecycle!ControllerStep, Lifecycle!Create,
           Lifecycle!List, Lifecycle!record
<1>3. ASSUME NEW l \in Link, Unregister(l), ~(Live /\ nodeLinks.matching = {l})
      PROVE  Lifecycle!ControllerStep /\ Held'
  <2>1. /\ nodeLinks'.matching = nodeLinks.matching \ {l}
        /\ nodeLinks'.there = nodeLinks.there /\ nodeLinks.there
        /\ nodeLinks'.deleting = nodeLinks.deleting /\ nodeLinks'.fin = nodeLinks.fin
        /\ nodeLinks'.attempted = nodeLinks.attempted
    BY <1>3 DEF Unregister, Types, NodeLinksObject
  <2>2. nodeLinks.deleting \/ nodeLinks'.matching # {}
    BY <1>3, <2>1 DEF Live, Unregister
  <2>. QED
    BY <1>0, <2>1, <2>2
       DEF Types, NodeLinksObject, Held, Lifecycle!ControllerStep, Lifecycle!List,
           Lifecycle!record
<1>. QED
  BY <1>1, <1>2, <1>3 DEF CollectGarbage, Unregister

(* The patch of the main resource holds the object before any name is        *)
(* stored, or lets it go when every link is gone.                            *)
LEMMA PatchMainFollows ==
  ASSUME Types, WriteAhead, Held, PatchMain
  PROVE  (Lifecycle!AgentStep \/ UNCHANGED nodeLinks) /\ made' = made /\ Held'
<1>0. made' = made
  BY DEF PatchMain, host
<1>1. CASE UNCHANGED nodeLinks
  BY <1>0, <1>1 DEF Held
<1>2. CASE ~UNCHANGED nodeLinks
  <2>. DEFINE response == [nodeLinks EXCEPT !.fin = mem.fin]
  <2>1. /\ nodeLinks.there
        /\ nodeLinks' = IF response.deleting /\ ~response.fin THEN NoNodeLinks ELSE response
    BY <1>2 DEF PatchMain
  <2>2. /\ response.fin = mem.fin /\ response.deleting = nodeLinks.deleting
        /\ response.there = nodeLinks.there /\ response.matching = nodeLinks.matching
        /\ response.attempted = nodeLinks.attempted
    BY DEF Types, NodeLinksObject
  <2>3. pc # "idle" /\ mem.fin # clusterState.fin
    BY DEF PatchMain
  <2>4. CASE mem.fin
    <3>1. ~clusterState.fin /\ ~nodeLinks.fin
      BY <2>3, <2>4 DEF Types, NodeLinksObject, WriteAhead
    <3>2. nodeLinks' = response /\ ~nodeLinks.deleting
      BY <2>1, <2>2, <2>4, <3>1 DEF Held
    <3>. QED
      BY <1>0, <2>1, <2>2, <2>4, <3>2
         DEF Held, Lifecycle!AgentStep, Lifecycle!Hold, Lifecycle!record
  <2>5. CASE ~mem.fin
    <3>1. clusterState.fin
      BY <2>3, <2>5 DEF Types, NodeLinksObject
    <3>2. nodeLinks.fin /\ nodeLinks.deleting /\ made = {}
      BY <2>3, <2>5, <3>1 DEF WriteAhead
    <3>3. nodeLinks' = NoNodeLinks
      BY <2>1, <2>2, <2>5, <3>2
    <3>. QED
      BY <1>0, <3>2, <3>3
         DEF NoNodeLinks, Held, Lifecycle!AgentStep, Lifecycle!Release, Lifecycle!Vanish
  <2>. QED
    BY <2>4, <2>5 DEF Types, NodeLinksObject
<1>. QED
  BY <1>1, <1>2

(* The patch of the status stores names, and never drops one whose link is   *)
(* still there.                                                              *)
LEMMA PatchStatusFollows ==
  ASSUME Types, WriteAhead, Held, PatchStatus, NoOrphan'
  PROVE  (Lifecycle!AgentStep \/ UNCHANGED LifecycleView \/ UNCHANGED Lifecycle!vars) /\ Held'
<1>1. CASE UNCHANGED <<nodeLinks, made>>
  BY <1>1 DEF LifecycleView, Held
<1>2. CASE /\ nodeLinks.there /\ nodeLinks' = PatchedStatus
           /\ made' = made \ (Names \ PatchedStatus.attempted)
  <2>1. /\ nodeLinks'.there = nodeLinks.there /\ nodeLinks'.deleting = nodeLinks.deleting
        /\ nodeLinks'.fin = nodeLinks.fin /\ nodeLinks'.matching = nodeLinks.matching
        /\ mem.attempted = clusterState.attempted => nodeLinks'.attempted = nodeLinks.attempted
    BY <1>2 DEF PatchedStatus, Types, NodeLinksObject
  <2>2. Held'
    BY <2>1 DEF Held
  <2>3. CASE nodeLinks.fin
    <3>1. made' \subseteq made /\ made' \subseteq nodeLinks'.attempted
      BY <1>2 DEF NoOrphan
    <3>2. Lifecycle!Record
      BY <1>2, <2>1, <2>3, <3>1 DEF Lifecycle!Record, Lifecycle!object
    <3>. QED
      BY <2>2, <3>2 DEF Lifecycle!AgentStep
  <2>4. CASE ~nodeLinks.fin
    <3>1. made = {} /\ made' = {}
      BY <1>2, <2>4 DEF WriteAhead, NoOrphan
    <3>2. mem.attempted = clusterState.attempted
      BY <2>4 DEF PatchStatus, WriteAhead
    <3>. QED
      BY <2>1, <2>2, <3>1, <3>2 DEF Lifecycle!vars, Lifecycle!object, Lifecycle!record
  <2>. QED
    BY <2>3, <2>4 DEF Types, NodeLinksObject
<1>. QED
  BY <1>1, <1>2 DEF PatchStatus

(* A step that does not write the object may make and remove links only when *)
(* they are named in it.                                                     *)
LEMMA OtherStepsFollow ==
  ASSUME NoOrphan, NoOrphan', UNCHANGED nodeLinks
  PROVE  Lifecycle!AgentStep \/ UNCHANGED Lifecycle!vars
<1>1. CASE made' = made
  BY <1>1 DEF Lifecycle!vars, Lifecycle!object, Lifecycle!record
<1>2. CASE made' # made
  <2>1. nodeLinks.there /\ nodeLinks.fin /\ made' \subseteq nodeLinks.attempted
    BY <1>2 DEF NoOrphan
  <2>. QED
    BY <2>1 DEF Lifecycle!AgentStep, Lifecycle!Make, Lifecycle!object
<1>. QED
  BY <1>1, <1>2

(* With fresh reads the agent keeps every promise of NodeLinksLifecycle: it   *)
(* holds the object before it stores a name, stores the name before it makes *)
(* the link, and lets go only when all its links are gone, for any Links,    *)
(* specs, failures, crashes and edits.                                       *)
THEOREM LifecycleWithFreshReads ==
  ASSUME ~StaleReads
  PROVE  Spec => FollowsLifecycle
<1>1. Init => Lifecycle!Init /\ Held
  <2>. SUFFICES ASSUME Init PROVE Lifecycle!Init /\ Held
    OBVIOUS
  <2>1. CASE nodeLinks = NoNodeLinks
    BY <2>1 DEF Init, NoNodeLinks, Held, Lifecycle!Init
  <2>2. ASSUME NEW S, S # {},
               nodeLinks = [NoNodeLinks EXCEPT !.there = TRUE, !.gen = 1, !.matching = S]
        PROVE  Lifecycle!Init /\ Held
    <3>1. /\ nodeLinks.there /\ ~nodeLinks.deleting /\ ~nodeLinks.fin
          /\ nodeLinks.there = TRUE /\ nodeLinks.matching = S /\ nodeLinks.attempted = {}
      BY <2>2 DEF NoNodeLinks
    <3>. QED
      BY <2>2, <3>1 DEF Init, Held, Lifecycle!Init
  <2>. QED
    BY <2>1, <2>2 DEF Init
<1>2. TypeOK /\ WriteAhead /\ WriteAhead' /\ Held /\ [Next]_vars
        => [Lifecycle!Next]_(Lifecycle!vars) /\ Held'
  <2>. SUFFICES ASSUME TypeOK, WriteAhead, WriteAhead', Held, [Next]_vars
                PROVE  [Lifecycle!Next]_(Lifecycle!vars) /\ Held'
    OBVIOUS
  <2>0. Types /\ NoOrphan /\ NoOrphan' /\ (~nodeLinks.fin => nodeLinks.attempted = {})
    BY DEF TypeOK, Types, WriteAhead
  <2>1. CASE UNCHANGED nodeLinks
    BY <2>0, <2>1, OtherStepsFollow DEF Held, Lifecycle!Next
  <2>2. CASE PatchMain
    <3>1. CASE Lifecycle!AgentStep
      BY <2>0, <2>2, <3>1, PatchMainFollows DEF Lifecycle!Next
    <3>2. CASE UNCHANGED nodeLinks
      BY <2>1, <3>2
    <3>. QED
      BY <2>0, <2>2, <3>1, <3>2, PatchMainFollows
  <2>3. CASE PatchStatus
    <3>1. CASE UNCHANGED LifecycleView
      BY <2>1, <3>1 DEF LifecycleView
    <3>. QED
      BY <2>0, <2>3, <3>1, PatchStatusFollows DEF Lifecycle!Next
  <2>4. CASE CollectGarbage \/ \E l \in Link : Register(l) \/ Unregister(l)
    BY <2>0, <2>4, EnvironmentFollows DEF Lifecycle!Next
  <2>. QED
    BY <2>1, <2>2, <2>3, <2>4, WritersOfNodeLinks
<1>. QED
  BY <1>1, <1>2, TypeCorrect, WriteAheadWithFreshReads, PTL
     DEF Spec, FollowsLifecycle, Lifecycle!Spec
=============================================================================
