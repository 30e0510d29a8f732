------------------------ MODULE NodeLinksOrder_proofs ------------------------
(* The order in which the agent works through the links of its node: which   *)
(* are brought down before which are deleted, and what the upserts leave of  *)
(* the links upserted before.  None of this depends on how fresh the reads   *)
(* of the NodeLinks are, but for what is said of the stored status.          *)
EXTENDS NodeLinksReconciler_proofs

-----------------------------------------------------------------------------
(* Every Link, read or not, is one a user may have made.                     *)
SpecsOK ==
  /\ \A l \in Link : spec[l] \in Specs[l] \cup {None}
  /\ \A l \in Listed : res[l] \in Specs[l]

(* The reconciliation has accepted the specs of the listed Links.            *)
Accepted ==
  \/ pc \in {"check", "upsert", "dependents"}
  \/ pc \in {"down", "delete"} /\ action = "upsert"
  \/ pc = "patch" /\ then = "upsert"

(* What was accepted stays so, and the deletions are of the links to remove. *)
PlanOK ==
  /\ Accepted => Valid
  /\ pc \in {"down", "delete"} => todo \subseteq victims

(* What has been brought down stays down until all of it is deleted.         *)
DownOK ==
  /\ pc = "down" /\ ~failed
       => \A x \in (victims \ todo) \cap mine : kernel[x].state # "up"
  /\ pc = "delete" => \A x \in todo \cap mine : kernel[x].state # "up"

(* A link that lacks a dependency has been brought down by the check.        *)
DownIfMissing(l) ==
  Missing(l) /\ res[l].name \in mine => kernel[res[l].name].state # "up"

(* So all of them are down, from the end of the check to the last upsert.    *)
MissingOK ==
  /\ pc = "check" /\ ~failed => \A l \in Listed \ todo : DownIfMissing(l)
  /\ Accepted /\ pc # "check" => \A l \in Listed : DownIfMissing(l)

(* The Link refers to others.                                                *)
Depends(l) == res[l].refs # {}

(* The upserts go from dependencies to dependents, and the search for the    *)
(* dependents of a link reaches none that is done.                           *)
OrderOK ==
  /\ pc \in {"upsert", "dependents"}
       => \A l \in Listed \ todo : \A r \in Dependencies(l) : r.to \notin todo
  /\ pc = "dependents"
       => /\ IsNext(at) /\ res[at].managed
          /\ \A i \in DOMAIN search : search[i].link \in todo /\ Depends(search[i].link)

(* The link of a managed Link is as the Link asks.                           *)
AsAsked(l) ==
  res[l].managed /\ res[l].name \in mine => kernel[res[l].name] = Desired(l)

(* What has been upserted stays so until the reconciliation has ended.       *)
UpsertedOK ==
  /\ pc \in {"upsert", "dependents"} /\ ~failed => \A l \in Listed \ todo : AsAsked(l)
  /\ pc = "patch" /\ then = "done" => \A l \in Listed : AsAsked(l)

(* The inductive invariant behind the three properties of the order.         *)
OrderInv == SpecsOK /\ PlanOK /\ DownOK /\ MissingOK /\ OrderOK /\ UpsertedOK

(* The names the agent keeps are names of links that the operator manages.   *)
ManagedName(x) == \E l \in Link : \E s \in Specs[l] : s.managed /\ s.name = x

(* The stored names and every copy of them.                                  *)
Attempted ==
  nodeLinks.attempted \cup seen.attempted \cup clusterState.attempted
    \cup mem.attempted \cup victims

AttemptedOK == \A x \in Attempted : ManagedName(x)

-----------------------------------------------------------------------------
(* What the operators say depends on the specs that were read alone.         *)
LEMMA PlanFrame ==
  ASSUME UNCHANGED res
  PROVE  /\ Listed' = Listed /\ (Valid' <=> Valid) /\ ManagedNames' = ManagedNames
         /\ \A l : Missing(l)' <=> Missing(l)
         /\ \A l : Dependencies(l)' = Dependencies(l)
         /\ \A l : Depends(l)' <=> Depends(l)
         /\ \A l : Desired(l)' = Desired(l)
  BY DEF Listed, Valid, ManagedNames, Missing, Dependencies, Depends, Desired, Attachments

(* A Link with references is one that the operator manages.                  *)
LEMMA DependsManaged ==
  ASSUME SpecsOK, NEW l \in Listed, l \in Link, Depends(l) \/ Missing(l)
  PROVE  res[l].managed
  BY NodeLinksReconcilerAssumption DEF SpecsOK, Depends, Missing

(* Bringing a link down leaves the others alone.                             *)
LEMMA BroughtDown ==
  ASSUME HostType, NEW x \in Name, BringDown(x)
  PROVE  /\ kernel'[x].state # "up"
         /\ \A y \in Name : y # x => kernel'[y] = kernel[y] /\ (y \in mine' => y \in mine)
  BY DEF BringDown, Touch, Present, HostType, NetlinkLink

(* Deleting a link changes the state of no other.                            *)
LEMMA DeletedState ==
  ASSUME HostType, NEW x \in Name
  PROVE  \A y \in Name : Without(x)[y].state = IF y = x THEN "absent" ELSE kernel[y].state
  BY DEF Without, Absent, HostType, NetlinkLink

(* An error is recorded and returned, so that nothing is left to come.       *)
LEMMA HandleErrorOfOrder ==
  ASSUME OrderInv, NEW object, HandleErrorOf(object), UNCHANGED spec
  PROVE  OrderInv'
<1>1. UNCHANGED <<spec, res>> /\ pc' = "patch" /\ then' = "error"
  BY DEF HandleErrorOf, CallPatch, plan
<1>. QED
  BY <1>1, PlanFrame
  DEF OrderInv, SpecsOK, PlanOK, DownOK, MissingOK, OrderOK, UpsertedOK, Accepted

LEMMA HandleErrorOrder ==
  ASSUME OrderInv, HandleError, UNCHANGED spec
  PROVE  OrderInv'
  BY HandleErrorOfOrder DEF HandleError

(* So does the end of a reconciliation.                                      *)
LEMMA FinishOrder ==
  ASSUME OrderInv, Finish, UNCHANGED spec
  PROVE  OrderInv'
<1>1. Listed' = {}
  BY DEF Finish, Listed
<1>. QED
  BY <1>1
  DEF Finish, OrderInv, SpecsOK, PlanOK, DownOK, MissingOK, OrderOK, UpsertedOK, Accepted

(* What goes on around the reconciliation: users change specs, and a link    *)
(* that somebody else changes is no longer the agent's.                      *)
LEMMA OutsideOrder ==
  ASSUME TypeInv, OrderInv, UNCHANGED ctl,
         \A l \in Link : spec'[l] \in Specs[l] \cup {None},
         \A x \in mine' : x \in mine /\ kernel'[x] = kernel[x]
  PROVE  OrderInv'
<1>. USE DEF OrderInv
<1>1. /\ UNCHANGED <<pc, action, then, res, victims, todo, search, at, failed>>
  BY DEF ctl, plan, upsert
<1>2. /\ Listed' = Listed /\ (Valid' <=> Valid)
      /\ \A l : Missing(l)' <=> Missing(l)
      /\ \A l : Dependencies(l)' = Dependencies(l)
      /\ \A l : Depends(l)' <=> Depends(l)
      /\ \A l : Desired(l)' = Desired(l)
  BY <1>1, PlanFrame
<1>3. /\ \A l : DownIfMissing(l) => DownIfMissing(l)'
      /\ \A l : AsAsked(l) => AsAsked(l)'
  BY <1>1, <1>2 DEF DownIfMissing, AsAsked
<1>4. Accepted' <=> Accepted
  BY <1>1 DEF Accepted
<1>5. SpecsOK' /\ PlanOK'
  BY <1>1, <1>2, <1>4 DEF SpecsOK, PlanOK
<1>6. DownOK'
  BY <1>1 DEF DownOK
<1>7. MissingOK' /\ UpsertedOK'
  BY <1>1, <1>2, <1>3, <1>4 DEF MissingOK, UpsertedOK
<1>8. OrderOK'
  BY <1>1, <1>2 DEF OrderOK, IsNext
<1>. QED
  BY <1>5, <1>6, <1>7, <1>8

(* The start of a reconciliation, and the reads before anything is accepted. *)
LEMMA ReadsOrder ==
  ASSUME TypeInv, OrderInv,
         \/ ReconcileNothing \/ ReconcileUpsert \/ ReconcileDeletion
         \/ \E l \in Link : GetLink(l)
         \/ ValidateLinks
  PROVE  OrderInv'
<1>. USE DEF api, host
<1>0. UNCHANGED <<spec, kernel, mine>>
  BY DEF ReconcileNothing, ReconcileUpsert, ReconcileDeletion, GetLink, ValidateLinks
<1>1. CASE ReconcileNothing
  BY <1>0, <1>1, OutsideOrder DEF ReconcileNothing, OrderInv, SpecsOK
<1>2. CASE ReconcileUpsert \/ ReconcileDeletion
  <2>1. UNCHANGED res
    BY <1>2 DEF ReconcileUpsert, ReconcileDeletion
  <2>2. SpecsOK'
    BY <1>0, <2>1, PlanFrame DEF OrderInv, SpecsOK
  <2>3. ~Accepted' /\ pc' \notin {"check", "upsert", "dependents", "delete"}
    BY <1>2, NodeLinksReconcilerAssumption
    DEF ReconcileUpsert, ReconcileDeletion, Accepted
  <2>4. /\ pc' = "down" => todo' = victims'
        /\ pc' = "patch" => then' = "links"
    BY <1>2 DEF ReconcileUpsert, ReconcileDeletion
  <2>. QED
    BY <2>2, <2>3, <2>4 DEF OrderInv, PlanOK, DownOK, MissingOK, OrderOK, UpsertedOK
<1>3. ASSUME NEW l \in Link, GetLink(l)
      PROVE  OrderInv'
  <2>1. CASE HandleError
    BY <1>0, <2>1, HandleErrorOrder
  <2>2. CASE ~HandleError
    <3>1. /\ spec[l] # None /\ pc' = "links" /\ pc = "links"
          /\ res' = [k \in Listed \cup {l} |-> IF k = l THEN spec[l] ELSE res[k]]
      BY <1>3, <2>2 DEF GetLink
    <3>2. Listed' = Listed \cup {l}
      BY <3>1 DEF Listed
    <3>3. SpecsOK'
      BY <1>0, <3>1, <3>2 DEF OrderInv, SpecsOK
    <3>. QED
      BY <3>1, <3>3 DEF OrderInv, PlanOK, DownOK, MissingOK, OrderOK, UpsertedOK, Accepted
  <2>. QED
    BY <2>1, <2>2
<1>4. CASE ValidateLinks
  <2>. DEFINE validated == [mem EXCEPT !.readyLinks = @ \ Names]
  <2>1. CASE HandleErrorOf(validated)
    <3>. HIDE DEF validated
    <3>. QED
      BY <1>0, <2>1, HandleErrorOfOrder
  <2>2. CASE ~HandleErrorOf(validated)
    <3>1. Valid /\ UNCHANGED res /\ pc' = "check" /\ todo' = Listed
      BY <1>4, <2>2 DEF ValidateLinks, plan
    <3>. QED
      BY <1>0, <3>1, PlanFrame
      DEF OrderInv, SpecsOK, PlanOK, DownOK, MissingOK, OrderOK, UpsertedOK, Accepted
  <2>. QED
    BY <2>1, <2>2
<1>. QED
  BY <1>1, <1>2, <1>3, <1>4

(* A Link that is no longer to be checked is not missing a dependency, or    *)
(* its link has been brought down; no other managed Link has its name.       *)
LEMMA CheckOrder ==
  ASSUME TypeInv, OrderInv, (\E l \in Link : CheckDependencies(l)) \/ ChecksDone
  PROVE  OrderInv'
<1>. USE DEF OrderInv
<1>1. ASSUME NEW l \in Link, CheckDependencies(l)
      PROVE  OrderInv'
  <2>1. /\ UNCHANGED <<spec, pc, action, then, res, failed>> /\ todo' = todo \ {l}
        /\ pc = "check" /\ l \in Listed
    BY <1>1 DEF CheckDependencies, IsNext, api, plan, TypeInv, CtlType
  <2>2. /\ SpecsOK' /\ (Valid' <=> Valid) /\ Listed' = Listed
        /\ \A k : Missing(k)' <=> Missing(k)
    BY <2>1, PlanFrame DEF SpecsOK
  <2>3. \A k \in Listed : res[k].name \in Name
    BY ListedSpec DEF TypeInv, CtlType
  <2>4. Missing(l) => kernel'[res[l].name].state # "up"
    BY <1>1, <2>1, <2>3, BroughtDown DEF CheckDependencies, TypeInv
  <2>5. ASSUME NEW k \in Listed, k # l, DownIfMissing(k)
        PROVE  DownIfMissing(k)'
    <3>1. CASE UNCHANGED host
      BY <2>1, <2>2, <2>5, <3>1 DEF DownIfMissing, host
    <3>2. CASE BringDown(res[l].name)
      BY <2>1, <2>2, <2>3, <2>5, <3>2, BroughtDown DEF DownIfMissing, TypeInv
    <3>. QED
      BY <1>1, <3>1, <3>2 DEF CheckDependencies
  <2>6. ~failed => \A k \in Listed \ todo' : DownIfMissing(k)'
    BY <2>1, <2>2, <2>4, <2>5 DEF MissingOK, DownIfMissing
  <2>. QED
    BY <2>1, <2>2, <2>6 DEF PlanOK, DownOK, MissingOK, OrderOK, UpsertedOK, Accepted
<1>2. CASE ChecksDone
  <2>0. UNCHANGED <<spec, kernel, mine>>
    BY <1>2 DEF ChecksDone, api, host
  <2>1. CASE HandleError
    BY <2>0, <2>1, HandleErrorOrder
  <2>2. CASE ~HandleError
    <3>1. /\ UNCHANGED res /\ pc = "check" /\ pc' = "down" /\ todo = {} /\ ~failed
          /\ todo' = victims'
      BY <1>2, <2>2 DEF ChecksDone
    <3>2. Valid /\ \A l \in Listed : DownIfMissing(l)
      BY <3>1 DEF PlanOK, MissingOK, Accepted
    <3>3. /\ SpecsOK' /\ Valid' /\ Listed' = Listed
          /\ \A l \in Listed : DownIfMissing(l)'
      BY <2>0, <3>1, <3>2, PlanFrame DEF SpecsOK, DownIfMissing
    <3>. QED
      BY <3>1, <3>3 DEF PlanOK, DownOK, MissingOK, OrderOK, UpsertedOK, Accepted
  <2>. QED
    BY <2>1, <2>2
<1>. QED
  BY <1>1, <1>2

(* Every link to be deleted is brought down before the first is deleted.     *)
LEMMA DeletionOrder ==
  ASSUME TypeInv, OrderInv,
         (\E x \in Name : SetDown(x) \/ Delete(x)) \/ SetDownsDone \/ DeletesDone
  PROVE  OrderInv'
<1>. USE DEF OrderInv
<1>0. UNCHANGED spec
  BY DEF SetDown, Delete, SetDownsDone, DeletesDone, api
<1>1. ASSUME NEW x \in Name, SetDown(x) \/ Delete(x)
      PROVE  OrderInv'
  <2>1. /\ UNCHANGED <<pc, action, then, res, victims, failed>> /\ todo' = todo \ {x}
        /\ pc \in {"down", "delete"} /\ x \in todo
    BY <1>1 DEF SetDown, Delete, plan
  <2>2. /\ SpecsOK' /\ (Valid' <=> Valid) /\ Listed' = Listed
        /\ \A k : Missing(k)' <=> Missing(k)
    BY <1>0, <2>1, PlanFrame DEF SpecsOK
  <2>3. \A y \in Name :
          /\ kernel'[y].state = "up" => y # x /\ kernel[y].state = "up"
          /\ y \in mine' => y = x \/ y \in mine
    <3>1. CASE SetDown(x)
      <4>1. BringDown(x)
        BY <3>1 DEF SetDown
      <4>. QED
        BY <4>1, BroughtDown DEF TypeInv
    <3>2. CASE Delete(x)
      <4>1. Touch(x, Without(x))
        BY <3>2 DEF Delete
      <4>. QED
        BY <4>1, DeletedState DEF Touch, TypeInv
    <3>. QED
      BY <1>1, <3>1, <3>2
  <2>4. victims \subseteq Name /\ \A k \in Listed : res[k].name \in Name
    BY ListedSpec DEF TypeInv, CtlType, PlanType
  <2>5. PlanOK'
    BY <2>1, <2>2 DEF PlanOK, Accepted
  <2>6. DownOK'
    BY <2>1, <2>3, <2>4 DEF DownOK, PlanOK
  <2>7. \A k \in Listed : DownIfMissing(k) => DownIfMissing(k)'
    BY <2>1, <2>2, <2>3, <2>4 DEF DownIfMissing
  <2>8. MissingOK'
    BY <2>1, <2>2, <2>7 DEF MissingOK, Accepted
  <2>. QED
    BY <2>1, <2>2, <2>5, <2>6, <2>8 DEF OrderOK, UpsertedOK
<1>2. CASE SetDownsDone \/ DeletesDone
  <2>0. UNCHANGED <<kernel, mine>>
    BY <1>2 DEF SetDownsDone, DeletesDone, host
  <2>1. CASE HandleError
    BY <1>0, <2>1, HandleErrorOrder
  <2>2. CASE ~HandleError
    <3>1. UNCHANGED <<action, res, victims>> /\ todo = {} /\ ~failed
      BY <1>2, <2>2 DEF SetDownsDone, DeletesDone, plan
    <3>2. /\ SpecsOK' /\ (Valid' <=> Valid) /\ Listed' = Listed
          /\ \A k : DownIfMissing(k)' <=> DownIfMissing(k)
      BY <1>0, <2>0, <3>1, PlanFrame DEF SpecsOK, DownIfMissing
    <3>3. \/ pc = "down" /\ pc' = "delete" /\ todo' = victims
          \/ pc = "delete" /\ action = "upsert" /\ pc' = "patch" /\ then' = "upsert"
          \/ pc' = "patch" /\ then' = "finalized"
      BY <1>2, <2>2 DEF SetDownsDone, DeletesDone, CallPatch
    <3>4. PlanOK'
      BY <3>1, <3>2, <3>3 DEF PlanOK, Accepted
    <3>5. DownOK'
      BY <2>0, <3>1, <3>3 DEF DownOK
    <3>6. MissingOK'
      BY <3>1, <3>2, <3>3 DEF MissingOK, Accepted
    <3>. QED
      BY <3>2, <3>3, <3>4, <3>5, <3>6 DEF OrderOK, UpsertedOK
  <2>. QED
    BY <2>1, <2>2
<1>. QED
  BY <1>1, <1>2

(* When a Link is done, everything it depends on is done.                    *)
LEMMA UpsertedInOrder ==
  ASSUME OrderOK, pc \in {"upsert", "dependents"}, NEW l, IsNext(l), Upserted(l),
         UNCHANGED res
  PROVE  OrderOK'
  BY PlanFrame DEF OrderOK, IsNext, Upserted

(* An upsert that fails, however far it got, brings nothing up.              *)
LEMMA UpsertFailsOrder ==
  ASSUME TypeInv, OrderInv, pc \in {"upsert", "dependents"}, NEW l, IsNext(l), UpsertFails(l),
         UNCHANGED <<spec, action, res>>,
         \A y \in Name : kernel'[y].state = "up" /\ y \in mine'
                          => kernel[y].state = "up" /\ y \in mine
  PROVE  OrderInv'
<1>. USE DEF OrderInv
<1>1. Upserted(l) /\ failed' /\ pc' = "upsert"
  BY DEF UpsertFails, Upserted
<1>2. OrderOK'
  BY <1>1, UpsertedInOrder
<1>3. /\ SpecsOK' /\ (Valid' <=> Valid) /\ Listed' = Listed
      /\ \A k : Missing(k)' <=> Missing(k)
  BY PlanFrame DEF SpecsOK
<1>4. \A k \in Listed : res[k].name \in Name
  BY ListedSpec DEF TypeInv, CtlType
<1>5. \A k \in Listed : DownIfMissing(k) => DownIfMissing(k)'
  BY <1>3, <1>4 DEF DownIfMissing
<1>. QED
  BY <1>1, <1>2, <1>3, <1>5 DEF PlanOK, DownOK, MissingOK, UpsertedOK, Accepted

(* What an error of Upsert leaves behind.                                    *)
LEMMA UpsertErrorOrder ==
  ASSUME TypeInv, OrderInv, pc = "dependents", UpsertError, UNCHANGED spec
  PROVE  OrderInv'
<1>1. at \in Listed /\ IsNext(at) /\ HostType
  BY DEF TypeInv, CtlType, OrderInv, OrderOK
<1>2. res[at].name \in Name /\ res[at].mtu \in Nat
  BY <1>1, ListedSpec DEF TypeInv, CtlType
<1>3. PICK half \in HalfUpserted \cup {kernel} : Touch(res[at].name, half)
  BY Zenon DEF UpsertError
<1>4. \A y \in Name : /\ half[y].state = "up" => kernel[y].state = "up"
                      /\ y # res[at].name => half[y].state = kernel[y].state
  BY <1>1, <1>3, HalfUpsertedType DEF TypeInv, CtlType
<1>5. UpsertFails(at) /\ UNCHANGED <<action, res>>
  BY DEF UpsertError, plan
<1>6. \A y \in Name : kernel'[y].state = "up" /\ y \in mine'
                      => kernel[y].state = "up" /\ y \in mine
  BY <1>2, <1>3, <1>4 DEF Touch
<1>. QED
  BY <1>1, <1>5, <1>6, UpsertFailsOrder

(* The dependents of a link whose turn has not come are not done either, and *)
(* have references, so that their links are managed.                         *)
LEMMA ReachOrder ==
  ASSUME TypeInv, OrderInv, pc \in {"upsert", "dependents"}, NEW l \in todo, l \in Listed,
         NEW queued \in Seq(Edge),
         \A i \in DOMAIN queued : queued[i].link \in todo /\ Depends(queued[i].link),
         Reach(l, queued)
  PROVE  \A i \in DOMAIN search' : search'[i].link \in todo /\ Depends(search'[i].link)
<1>. DEFINE S == {e \in Dependents(l) : e.link \notin visited \cup {l}}
            Good(e) == e.link \in todo /\ Depends(e.link)
<1>1. \A e \in S : e \in Edge /\ Good(e)
  <2>. SUFFICES ASSUME NEW e \in Dependents(l)
                PROVE  e \in Edge /\ Good(e)
    OBVIOUS
  <2>1. e \in Edge /\ e.link \in Listed
    BY DEF Dependents, Edge
  <2>2. PICK r \in res[e.link].refs : r.to = l
    BY DEF Dependents
  <2>3. r \in Dependencies(e.link)
    BY <2>2 DEF Dependencies
  <2>. QED
    BY <2>1, <2>2, <2>3 DEF OrderInv, OrderOK, Depends
<1>. HIDE DEF S
<1>2. PICK order \in SetToSeqs(S) : search' = queued \o order
  BY DEF Reach, S
<1>3. order \in Seq(Edge) /\ \A i \in DOMAIN order : order[i] \in S
  <2>1. order \in Seq(Edge)
    <3>1. S \in SUBSET Edge
      BY <1>1
    <3>. QED
      BY <3>1, OrderType DEF TypeInv, CtlType
  <2>2. order \in [1..Cardinality(S) -> S]
    BY DEF SetToSeqs
  <2>. QED
    BY <2>1, <2>2
<1>4. /\ Len(queued) \in Nat /\ Len(order) \in Nat
      /\ DOMAIN queued = 1..Len(queued) /\ DOMAIN order = 1..Len(order)
  BY <1>3, LenProperties
<1>5. /\ search' \in Seq(Edge) /\ Len(search') = Len(queued) + Len(order)
      /\ \A i \in 1..(Len(queued) + Len(order)) :
           search'[i] = IF i <= Len(queued) THEN queued[i] ELSE order[i - Len(queued)]
  BY <1>2, <1>3, ConcatProperties
<1>6. DOMAIN search' = 1..(Len(queued) + Len(order))
  BY <1>5, LenProperties
<1>7. ASSUME NEW i \in DOMAIN search'
      PROVE  Good(search'[i])
  <2>1. CASE i <= Len(queued)
    <3>1. i \in DOMAIN queued /\ search'[i] = queued[i]
      BY <1>4, <1>5, <1>6, <2>1
    <3>. QED
      BY <3>1
  <2>2. CASE ~(i <= Len(queued))
    <3>1. i - Len(queued) \in DOMAIN order /\ search'[i] = order[i - Len(queued)]
      BY <1>4, <1>5, <1>6, <2>2
    <3>. QED
      BY <1>1, <1>3, <3>1
  <2>. QED
    BY <2>1, <2>2
<1>. QED
  BY <1>7

(* A Link whose link is left alone, because it cannot be or need not be      *)
(* upserted, and one that is about to be upserted.                           *)
LEMMA TurnOrder ==
  ASSUME TypeInv, OrderInv, NEW l \in Link, UpsertSkip(l) \/ UpsertStart(l)
  PROVE  OrderInv'
<1>. USE DEF OrderInv
<1>1. /\ UNCHANGED <<spec, kernel, mine, action, victims, res>>
      /\ pc = "upsert" /\ IsNext(l) /\ l \in Listed
  BY DEF UpsertSkip, UpsertStart, api, host, plan, IsNext, TypeInv, CtlType
<1>2. /\ SpecsOK' /\ (Valid' <=> Valid) /\ Listed' = Listed
      /\ \A k : Missing(k)' <=> Missing(k)
      /\ \A k : Dependencies(k)' = Dependencies(k)
      /\ \A k : Depends(k)' <=> Depends(k)
      /\ \A k : Desired(k)' = Desired(k)
  BY <1>1, PlanFrame DEF SpecsOK
<1>3. /\ \A k : DownIfMissing(k)' <=> DownIfMissing(k)
      /\ \A k : AsAsked(k)' <=> AsAsked(k)
  BY <1>1, <1>2 DEF DownIfMissing, AsAsked
<1>4. CASE UpsertFails(l)
  BY <1>1, <1>4, UpsertFailsOrder
<1>5. CASE UpsertSkip(l) /\ ~UpsertFails(l)
  <2>1. ~UpsertNeeded(l) /\ Upserted(l) /\ UNCHANGED failed
    BY <1>5 DEF UpsertSkip
  <2>2. AsAsked(l)
    BY <2>1 DEF UpsertNeeded, AsAsked
  <2>3. OrderOK'
    BY <1>1, <2>1, UpsertedInOrder
  <2>4. pc' = "upsert" /\ todo' = todo \ {l}
    BY <2>1 DEF Upserted
  <2>5. UpsertedOK'
    BY <1>1, <1>2, <1>3, <2>1, <2>2, <2>4 DEF UpsertedOK
  <2>. QED
    BY <1>1, <1>2, <1>3, <2>3, <2>4, <2>5 DEF PlanOK, DownOK, MissingOK, Accepted
<1>6. CASE UpsertStart(l)
  <2>1. /\ pc' = "dependents" /\ at' = l /\ UNCHANGED <<todo, failed>>
        /\ Reach(l, <<>>) /\ res[l].managed
    BY <1>6 DEF UpsertStart, UpsertNeeded
  <2>2. \A i \in DOMAIN search' : search'[i].link \in todo /\ Depends(search'[i].link)
    <3>1. l \in todo
      BY <1>1 DEF IsNext
    <3>2. <<>> \in Seq(Edge) /\ \A i \in DOMAIN <<>> : FALSE
      BY EmptySeq
    <3>. QED
      BY <1>1, <2>1, <3>1, <3>2, ReachOrder
  <2>3. OrderOK'
    BY <1>1, <1>2, <2>1, <2>2 DEF OrderOK, IsNext
  <2>. QED
    BY <1>1, <1>2, <1>3, <2>1, <2>3 DEF PlanOK, DownOK, MissingOK, UpsertedOK, Accepted
<1>. QED
  BY <1>4, <1>5, <1>6

(* The search brings no link down that has been upserted.                    *)
LEMMA VisitOrder ==
  ASSUME TypeInv, OrderInv, VisitDependent
  PROVE  OrderInv'
<1>. USE DEF OrderInv
<1>. DEFINE m == Head(search).link
<1>1. /\ UNCHANGED <<spec, pc, action, victims, res, todo, failed, at>>
      /\ pc = "dependents" /\ search # <<>>
      /\ Reach(m, Tail(search))
  BY DEF VisitDependent, api, plan
<1>2. search \in Seq(Edge)
  BY DEF TypeInv, CtlType
<1>3. /\ m \in todo /\ m \in Listed /\ m \in Link /\ Depends(m) /\ res[m].managed
      /\ res[m].name \in Name
  <2>1. 1 \in DOMAIN search /\ search[1] = Head(search)
    BY <1>1, <1>2
  <2>2. m \in todo /\ Depends(m)
    BY <1>1, <2>1 DEF OrderOK
  <2>3. m \in Listed /\ m \in Link
    BY <1>1, <2>2 DEF TypeInv, CtlType, PlanType
  <2>. HIDE DEF m
  <2>. QED
    BY <2>2, <2>3, DependsManaged, ListedSpec DEF TypeInv, CtlType
<1>4. \A i \in DOMAIN search' : search'[i].link \in todo /\ Depends(search'[i].link)
  <2>1. /\ Tail(search) \in Seq(Edge)
        /\ \A i \in DOMAIN Tail(search) : i + 1 \in DOMAIN search /\ Tail(search)[i] = search[i + 1]
    BY <1>1, <1>2
  <2>2. \A i \in DOMAIN Tail(search) :
          Tail(search)[i].link \in todo /\ Depends(Tail(search)[i].link)
    BY <1>1, <2>1 DEF OrderOK
  <2>. HIDE DEF m
  <2>. QED
    BY <1>1, <1>3, <2>1, <2>2, ReachOrder
<1>. HIDE DEF m
<1>5. /\ SpecsOK' /\ (Valid' <=> Valid) /\ Listed' = Listed
      /\ \A k : Missing(k)' <=> Missing(k)
      /\ \A k : Dependencies(k)' = Dependencies(k)
      /\ \A k : Depends(k)' <=> Depends(k)
      /\ \A k : Desired(k)' = Desired(k)
  BY <1>1, PlanFrame DEF SpecsOK
<1>6. \A k \in Listed : res[k].name \in Name
  BY ListedSpec DEF TypeInv, CtlType
<1>7. UNCHANGED <<kernel, mine>> \/ BringDown(res[m].name)
  BY DEF VisitDependent, host, m
<1>8. \A y \in Name : /\ y # res[m].name
                         => kernel'[y] = kernel[y] /\ (y \in mine' => y \in mine)
                      /\ kernel'[y].state = "up" /\ y \in mine'
                         => kernel[y].state = "up" /\ y \in mine
  BY <1>3, <1>7, BroughtDown DEF TypeInv
<1>9. \A k \in Listed : DownIfMissing(k) => DownIfMissing(k)'
  BY <1>1, <1>5, <1>6, <1>8 DEF DownIfMissing
<1>10. Valid
  BY <1>1 DEF PlanOK, Accepted
<1>11. \A k \in Listed \ todo : AsAsked(k) => AsAsked(k)'
  <2>1. \A k \in Listed \ todo : res[k].managed => res[k].name # res[m].name
    BY <1>3, <1>10 DEF Valid
  <2>. QED
    BY <1>1, <1>5, <1>6, <1>8, <2>1 DEF AsAsked
<1>12. OrderOK'
  BY <1>1, <1>4, <1>5 DEF OrderOK, IsNext
<1>. QED
  BY <1>1, <1>5, <1>9, <1>11, <1>12 DEF PlanOK, DownOK, MissingOK, UpsertedOK, Accepted

(* An upsert makes its link as asked, and no other managed Link has it.      *)
LEMMA UpsertOrder ==
  ASSUME TypeInv, OrderInv, Upsert
  PROVE  OrderInv'
<1>. USE DEF OrderInv
<1>. DEFINE x == res[at].name
<1>1. /\ UNCHANGED <<spec, action, victims, res, failed>>
      /\ pc = "dependents" /\ Upserted(at) /\ ~Missing(at)
      /\ Touch(x, [kernel EXCEPT ![x] = Desired(at)])
  BY DEF Upsert, CanUpsert, api, plan
<1>2. IsNext(at) /\ res[at].managed /\ at \in Listed
  BY <1>1 DEF OrderOK, TypeInv, CtlType
<1>3. pc' = "upsert" /\ todo' = todo \ {at}
  BY <1>1 DEF Upserted
<1>4. /\ SpecsOK' /\ (Valid' <=> Valid) /\ Listed' = Listed
      /\ \A k : Missing(k)' <=> Missing(k)
      /\ \A k : Desired(k)' = Desired(k)
  BY <1>1, PlanFrame DEF SpecsOK
<1>5. \A k \in Listed : res[k].name \in Name
  BY ListedSpec DEF TypeInv, CtlType
<1>6. /\ kernel'[x] = Desired(at)
      /\ \A y \in Name : y # x => kernel'[y] = kernel[y] /\ (y \in mine' => y \in mine)
  BY <1>1, <1>2, <1>5 DEF Touch, TypeInv, HostType
<1>7. Valid
  BY <1>1 DEF PlanOK, Accepted
<1>8. \A k \in Listed : res[k].managed /\ k # at => res[k].name # x
  BY <1>2, <1>7 DEF Valid
<1>9. \A k \in Listed : Missing(k) => res[k].managed /\ k # at
  <2>1. \A k \in Listed : k \in Link
    BY DEF TypeInv, CtlType, PlanType
  <2>. QED
    BY <1>1, <2>1, DependsManaged
<1>. HIDE DEF x
<1>10. \A k \in Listed : DownIfMissing(k) => DownIfMissing(k)'
  BY <1>1, <1>4, <1>5, <1>6, <1>8, <1>9 DEF DownIfMissing
<1>11. \A k \in Listed \ todo : AsAsked(k) => AsAsked(k)'
  BY <1>1, <1>2, <1>4, <1>5, <1>6, <1>8 DEF AsAsked, IsNext
<1>12. \A k \in Listed : k = at => AsAsked(k)'
  BY <1>1, <1>4, <1>6 DEF AsAsked, x
<1>13. OrderOK'
  BY <1>1, <1>2, UpsertedInOrder
<1>. QED
  BY <1>1, <1>3, <1>4, <1>10, <1>11, <1>12, <1>13
  DEF PlanOK, DownOK, MissingOK, UpsertedOK, Accepted

(* Every link has been upserted when the status is about to say so.          *)
LEMMA DoneOrder ==
  ASSUME TypeInv, OrderInv, UpsertsDone
  PROVE  OrderInv'
<1>0. UNCHANGED <<spec, kernel, mine>>
  BY DEF UpsertsDone, api, host
<1>1. CASE HandleError
  BY <1>0, <1>1, HandleErrorOrder
<1>2. CASE ~HandleError
  <2>1. /\ UNCHANGED res /\ pc = "upsert" /\ todo = {} /\ ~failed
        /\ pc' = "patch" /\ then' = "done"
    BY <1>2 DEF UpsertsDone, CallPatch, plan
  <2>2. /\ SpecsOK' /\ Listed' = Listed
        /\ \A k : Desired(k)' = Desired(k)
    BY <1>0, <2>1, PlanFrame DEF OrderInv, SpecsOK
  <2>3. \A k \in Listed : AsAsked(k)'
    BY <1>0, <2>1, <2>2 DEF OrderInv, UpsertedOK, AsAsked
  <2>. QED
    BY <2>1, <2>2, <2>3
    DEF OrderInv, PlanOK, DownOK, MissingOK, OrderOK, UpsertedOK, Accepted
<1>. QED
  BY <1>1, <1>2

(* A patch returns to where every listed Link is still to be upserted, or to *)
(* the reads.                                                                *)
LEMMA PatchOrder ==
  ASSUME TypeInv, OrderInv, PatchMain \/ PatchStatus
  PROVE  OrderInv'
<1>0. UNCHANGED <<spec, kernel, mine>> /\ pc = "patch"
  BY DEF PatchMain, PatchStatus, host
<1>1. CASE PatchFails \/ PatchEnds
  BY <1>0, <1>1, HandleErrorOrder, FinishOrder DEF PatchFails, PatchEnds, Requeue
<1>2. CASE UNCHANGED <<pc, action, then, res, victims, todo, search, at, failed>>
  <2>1. /\ SpecsOK' /\ (Valid' <=> Valid) /\ Listed' = Listed
        /\ \A k : Missing(k)' <=> Missing(k)
        /\ \A k : Desired(k)' = Desired(k)
    BY <1>0, <1>2, PlanFrame DEF OrderInv, SpecsOK
  <2>2. /\ \A k : DownIfMissing(k)' <=> DownIfMissing(k)
        /\ \A k : AsAsked(k)' <=> AsAsked(k)
    BY <1>0, <1>2, <2>1 DEF DownIfMissing, AsAsked
  <2>. QED
    BY <1>0, <1>2, <2>1, <2>2
    DEF OrderInv, PlanOK, DownOK, MissingOK, OrderOK, UpsertedOK, Accepted
<1>3. CASE PatchReturns
  <2>1. UNCHANGED <<action, res, victims>>
    BY <1>3 DEF PatchReturns
  <2>2. \/ pc' = "links"
        \/ then = "upsert" /\ pc' = "upsert" /\ todo' = Listed
    BY <1>3 DEF PatchReturns
  <2>3. /\ SpecsOK' /\ (Valid' <=> Valid) /\ Listed' = Listed
        /\ \A k : Missing(k)' <=> Missing(k)
    BY <1>0, <2>1, PlanFrame DEF OrderInv, SpecsOK
  <2>4. \A k : DownIfMissing(k)' <=> DownIfMissing(k)
    BY <1>0, <2>1, <2>3 DEF DownIfMissing
  <2>. QED
    BY <1>0, <2>1, <2>2, <2>3, <2>4
    DEF OrderInv, PlanOK, DownOK, MissingOK, OrderOK, UpsertedOK, Accepted
<1>. QED
  BY <1>1, <1>2, <1>3 DEF PatchMain, PatchStatus, upsert

(* A failed call: an iteration that fails is remembered until its loop ends. *)
LEMMA FailureOrder ==
  ASSUME TypeInv, OrderInv, CallFails \/ Restart
  PROVE  OrderInv'
<1>0. UNCHANGED spec
  BY DEF CallFails, Restart, api
<1>1. CASE Restart \/ PatchFails \/ HandleError
  BY <1>0, <1>1, HandleErrorOrder, FinishOrder DEF Restart, PatchFails, Requeue
<1>2. CASE pc = "dependents" /\ UpsertError
  BY <1>0, <1>2, UpsertErrorOrder
<1>3. CASE pc = "dependents" /\ UpsertFails(at) /\ UNCHANGED <<plan, host>>
  BY <1>0, <1>3, UpsertFailsOrder DEF OrderInv, OrderOK, plan, host
<1>4. CASE IterationFails /\ UNCHANGED host
  <2>0. UNCHANGED <<action, res, victims, kernel, mine>>
    BY <1>4 DEF IterationFails, plan, host
  <2>1. CASE pc = "upsert"
    BY <1>0, <1>4, <2>0, <2>1, UpsertFailsOrder DEF IterationFails
  <2>2. CASE pc \in {"check", "down", "delete"}
    <3>1. failed' /\ UNCHANGED <<pc, then>> /\ todo' \subseteq todo
      BY <1>4, <2>2 DEF IterationFails
    <3>2. /\ SpecsOK' /\ (Valid' <=> Valid) /\ Listed' = Listed
          /\ \A k : Missing(k)' <=> Missing(k)
      BY <1>0, <2>0, PlanFrame DEF OrderInv, SpecsOK
    <3>3. \A k : DownIfMissing(k)' <=> DownIfMissing(k)
      BY <2>0, <3>2 DEF DownIfMissing
    <3>. QED
      BY <2>0, <2>2, <3>1, <3>2, <3>3
      DEF OrderInv, PlanOK, DownOK, MissingOK, OrderOK, UpsertedOK, Accepted
  <2>. QED
    BY <1>4, <2>1, <2>2 DEF IterationFails
<1>. QED
  BY <1>1, <1>2, <1>3, <1>4 DEF CallFails

(* Users give Links the specs they may have, and whatever else changes a     *)
(* link of the node takes it from the agent's.                               *)
LEMMA EnvironmentOrder ==
  ASSUME TypeInv, OrderInv, Deliver \/ Resync \/ Environment \/ UNCHANGED vars
  PROVE  OrderInv'
<1>1. UNCHANGED ctl
  BY DEF Deliver, Resync, Environment, SetSpec, RemoveLink, Register, Unregister,
         CollectGarbage, Others, vars
<1>2. \A l \in Link : spec'[l] \in Specs[l] \cup {None}
  BY DEF Deliver, Resync, Environment, SetSpec, RemoveLink, Register, Unregister,
         CollectGarbage, Others, vars, api, OrderInv, SpecsOK, TypeInv, OutsideType
<1>3. \A x \in mine' : x \in mine /\ kernel'[x] = kernel[x]
  BY DEF Deliver, Resync, Environment, SetSpec, RemoveLink, Register, Unregister,
         CollectGarbage, Others, vars, host
<1>. QED
  BY <1>1, <1>2, <1>3, OutsideOrder

(* At first nothing has been read.                                           *)
LEMMA InitOrder == Init => OrderInv
<1>. SUFFICES ASSUME Init
              PROVE  OrderInv
  OBVIOUS
<1>1. Listed = {}
  BY DEF Init, Listed
<1>. QED
  BY <1>1
  DEF Init, OrderInv, SpecsOK, PlanOK, DownOK, MissingOK, OrderOK, UpsertedOK, Accepted

(* Every step keeps the order.                                               *)
LEMMA NextOrder == TypeInv /\ OrderInv /\ [Next]_vars => OrderInv'
<1>. SUFFICES ASSUME TypeInv, OrderInv, [Next]_vars
              PROVE  OrderInv'
  OBVIOUS
<1>1. CASE UpsertImpossible
  BY <1>1, UpsertErrorOrder DEF UpsertImpossible, api
<1>. QED
  BY <1>1, ReadsOrder, CheckOrder, DeletionOrder, TurnOrder, VisitOrder, UpsertOrder,
     DoneOrder, PatchOrder, FailureOrder, EnvironmentOrder
  DEF Next, Reconcile

-----------------------------------------------------------------------------
(* Whatever is listed and whatever fails, a link that lacks a dependency is  *)
(* down when the upserts begin and is not brought up by them                 *)
(* (updateDependentsMissingDependencies, upsertLinks), however stale what    *)
(* was read is.                                                              *)
THEOREM MissingDependencyStaysDown == Spec => []MissingDependencyDown
<1>1. OrderInv => MissingDependencyDown
  BY DEF OrderInv, MissingOK, DownIfMissing, Accepted, MissingDependencyDown
<1>. QED
  BY <1>1, InitTypes, NextTypes, InitOrder, NextOrder, PTL DEF Spec

(* deleteLinks deletes no link while another one that it is to delete is up. *)
THEOREM AllDownBeforeDelete == Spec => DownBeforeDelete
<1>1. OrderInv => [\A x \in Name : Delete(x) =>
                     \A y \in todo \cap mine : kernel[y].state # "up"]_vars
  BY DEF OrderInv, DownOK, Delete
<1>. QED
  BY <1>1, InitTypes, NextTypes, InitOrder, NextOrder, PTL DEF Spec, DownBeforeDelete

(* The NodeLinks is stored as ready only when what was upserted first is     *)
(* still as its Link asks after what was upserted last: dependents come      *)
(* after what they depend on (getTopolgicallySortedLinkNames), so            *)
(* bringDownDependents undoes nothing.                                       *)
THEOREM ReadyIsUp == Spec => ReadyWhenUp
<1>1. OrderInv => [pc = "patch" /\ then = "done" /\ nodeLinks'.ready = "True" =>
                     \A l \in Listed :
                       res[l].managed /\ res[l].name \in mine
                         => kernel[res[l].name] = Desired(l)]_vars
  BY DEF OrderInv, UpsertedOK, AsAsked
<1>. QED
  BY <1>1, InitTypes, NextTypes, InitOrder, NextOrder, PTL DEF Spec, ReadyWhenUp

-----------------------------------------------------------------------------
(* The names of the listed managed Links are names of managed links.         *)
LEMMA ManagedNamesManaged ==
  ASSUME TypeInv, SpecsOK
  PROVE  \A x \in ManagedNames : ManagedName(x)
  BY DEF ManagedNames, ManagedName, SpecsOK, TypeInv, CtlType, PlanType

(* No other name gets into the status or into a copy of it.                  *)
LEMMA NewAttempted ==
  ASSUME TypeInv, Next
  PROVE  \A x \in Attempted' : x \in Attempted \/ x \in ManagedNames
<1>. USE DEF Attempted
<1>0. /\ nodeLinks \in NodeLinksObject /\ seen \in NodeLinksObject
      /\ mem \in NodeLinksObject /\ clusterState \in NodeLinksObject
  BY DEF TypeInv, OutsideType, CtlType
<1>1. NoNodeLinks.attempted = {}
  BY DEF NoNodeLinks
<1>2. Finish => clusterState' = NoNodeLinks /\ mem' = NoNodeLinks /\ victims' = {}
  BY DEF Finish
<1>. DEFINE validated == [mem EXCEPT !.readyLinks = @ \ Names]
<1>3. /\ HandleError => /\ UNCHANGED <<clusterState, victims>>
                       /\ mem'.attempted = mem.attempted
      /\ ValidateLinks => /\ UNCHANGED <<nodeLinks, seen, clusterState, victims>>
                         /\ mem'.attempted = mem.attempted
  <2>1. validated.attempted = mem.attempted
    BY <1>0 DEF NodeLinksObject
  <2>2. ASSUME NEW object \in {mem, validated}, HandleErrorOf(object)
        PROVE  UNCHANGED <<clusterState, victims>> /\ mem'.attempted = mem.attempted
    BY <1>0, <2>1, <2>2 DEF HandleErrorOf, CallPatch, plan, NodeLinksObject
  <2>3. ValidateLinks => /\ UNCHANGED <<nodeLinks, seen>>
                         /\ \/ mem' = validated /\ UNCHANGED plan
                            \/ HandleErrorOf(validated)
    BY DEF ValidateLinks, api
  <2>. HIDE DEF validated
  <2>. QED
    BY <2>1, <2>2, <2>3 DEF HandleError, plan
<1>4. PatchFails => \/ UNCHANGED <<clusterState, victims>> /\ mem'.attempted = mem.attempted
                    \/ clusterState' = NoNodeLinks /\ mem' = NoNodeLinks /\ victims' = {}
  BY <1>2, <1>3 DEF PatchFails, Requeue
<1>5. CASE ReconcileUpsert \/ ReconcileDeletion
  <2>1. UNCHANGED <<nodeLinks, seen>> /\ clusterState' = ReadNodeLinks
        /\ ReadNodeLinks.attempted \in {nodeLinks.attempted, seen.attempted}
    BY <1>5 DEF ReconcileUpsert, ReconcileDeletion, ReadNodeLinks, api, manager
  <2>2. mem'.attempted = ReadNodeLinks.attempted
    BY <1>0, <1>5 DEF ReconcileUpsert, ReconcileDeletion, ReadNodeLinks, NodeLinksObject
  <2>3. victims' = victims \/ victims' = ReadNodeLinks.attempted
    BY <1>5 DEF ReconcileUpsert, ReconcileDeletion
  <2>. QED
    BY <2>1, <2>2, <2>3
<1>6. CASE DeletesDone
  <2>1. UNCHANGED <<nodeLinks, seen, clusterState, victims>>
    BY <1>3, <1>6 DEF DeletesDone, api, plan
  <2>2. mem'.attempted \in {mem.attempted, ManagedNames}
    BY <1>0, <1>3, <1>6 DEF DeletesDone, CallPatch, NodeLinksObject
  <2>. QED
    BY <2>1, <2>2
<1>7. CASE PatchMain
  <2>1. CASE PatchFails /\ UNCHANGED <<nodeLinks, seen>>
    BY <1>1, <1>4, <2>1
  <2>2. CASE ~(PatchFails /\ UNCHANGED nodeLinks)
    <3>. DEFINE response == [nodeLinks EXCEPT !.fin = mem.fin]
    <3>1. /\ clusterState' = response /\ nodeLinks' \in {NoNodeLinks, response}
          /\ mem' = [response EXCEPT !.attempted = mem.attempted,
                                     !.readyLinks = mem.readyLinks,
                                     !.ready = mem.ready]
          /\ UNCHANGED <<seen, victims>>
      BY <1>7, <2>2 DEF PatchMain, manager
    <3>2. response.attempted = nodeLinks.attempted /\ mem'.attempted = mem.attempted
      BY <1>0, <3>1 DEF NodeLinksObject
    <3>. QED
      BY <1>1, <3>1, <3>2
  <2>. QED
    BY <1>7, <2>1, <2>2 DEF PatchMain, manager
<1>8. CASE PatchStatus
  <2>1. PatchedStatus.attempted \in {nodeLinks.attempted, mem.attempted}
    BY <1>0 DEF PatchedStatus, NodeLinksObject
  <2>2. UNCHANGED seen /\ nodeLinks' \in {nodeLinks, PatchedStatus}
    BY <1>8 DEF PatchStatus, manager
  <2>3. \/ clusterState' = NoNodeLinks /\ mem' = NoNodeLinks /\ victims' = {}
        \/ UNCHANGED <<clusterState, victims>> /\ mem'.attempted = mem.attempted
        \/ clusterState' = PatchedStatus /\ mem' = PatchedStatus /\ UNCHANGED victims
    BY <1>2, <1>4, <1>8 DEF PatchStatus, PatchReturns, PatchEnds, Requeue
  <2>. QED
    BY <1>1, <2>1, <2>2, <2>3
<1>9. CASE \/ \E l \in Link : GetLink(l) \/ CheckDependencies(l) \/ UpsertSkip(l) \/ UpsertStart(l)
           \/ ChecksDone \/ SetDownsDone \/ UpsertsDone \/ ReconcileNothing
           \/ \E x \in Name : SetDown(x) \/ Delete(x)
           \/ VisitDependent \/ Upsert \/ UpsertImpossible
  <2>1. UNCHANGED <<nodeLinks, seen, clusterState>>
    BY <1>3, <1>9
    DEF GetLink, CheckDependencies, UpsertSkip, UpsertStart, ChecksDone,
        SetDownsDone, UpsertsDone, ReconcileNothing, SetDown, Delete, VisitDependent, Upsert,
        UpsertImpossible, UpsertError, api, manager, plan, ctl
  <2>2. mem'.attempted = mem.attempted
    BY <1>0, <1>3, <1>9
    DEF GetLink, CheckDependencies, UpsertSkip, UpsertStart, ChecksDone,
        SetDownsDone, UpsertsDone, ReconcileNothing, SetDown, Delete, VisitDependent, Upsert,
        UpsertImpossible, UpsertError, UpsertFails, CallPatch, ctl, NodeLinksObject
  <2>3. victims' = victims \/ victims' = mem.attempted \ Names
    BY <1>3, <1>9
    DEF GetLink, CheckDependencies, UpsertSkip, UpsertStart, ChecksDone,
        SetDownsDone, UpsertsDone, ReconcileNothing, SetDown, Delete, VisitDependent, Upsert,
        UpsertImpossible, UpsertError, plan, ctl
  <2>. QED
    BY <2>1, <2>2, <2>3
<1>10. CASE CallFails
  <2>1. UNCHANGED <<nodeLinks, seen>>
    BY <1>10 DEF CallFails, api, manager
  <2>2. \/ clusterState' = NoNodeLinks /\ mem' = NoNodeLinks /\ victims' = {}
        \/ UNCHANGED <<clusterState, victims>> /\ mem'.attempted = mem.attempted
    BY <1>0, <1>3, <1>4, <1>10
    DEF CallFails, IterationFails, UpsertError, UpsertFails, plan, NodeLinksObject
  <2>. QED
    BY <1>1, <2>1, <2>2
<1>11. CASE Restart \/ Deliver \/ Resync
  BY <1>1, <1>2, <1>11 DEF Restart, Deliver, Resync, api, manager, ctl, plan
<1>12. CASE Environment
  <2>1. UNCHANGED <<seen, clusterState, mem, victims>>
    BY <1>12
    DEF Environment, SetSpec, RemoveLink, Register, Unregister, CollectGarbage, Others,
        manager, ctl, plan, api
  <2>2. nodeLinks'.attempted \in {nodeLinks.attempted, {}}
    BY <1>0, <1>1, <1>12
    DEF Environment, SetSpec, RemoveLink, Register, Unregister, CollectGarbage, Deleted,
        Others, api, NodeLinksObject
  <2>. QED
    BY <2>1, <2>2
<1>13. CASE ValidateLinks
  BY <1>3, <1>13
<1>. QED
  BY <1>5, <1>6, <1>7, <1>8, <1>9, <1>10, <1>11, <1>12, <1>13 DEF Next, Reconcile

(* The names in the status, and in every copy of it, are names that a        *)
(* managed Link has or had.                                                  *)
LEMMA InitAttempted == Init => AttemptedOK
<1>. SUFFICES ASSUME Init
              PROVE  AttemptedOK
  OBVIOUS
<1>1. NoNodeLinks.attempted = {}
  BY DEF NoNodeLinks
<1>2. nodeLinks.attempted = {}
  <2>1. CASE nodeLinks = NoNodeLinks
    BY <1>1, <2>1
  <2>2. ASSUME NEW S, nodeLinks = [NoNodeLinks EXCEPT !.there = TRUE, !.gen = 1, !.matching = S]
        PROVE  nodeLinks.attempted = {}
    BY <2>2 DEF NoNodeLinks
  <2>. QED
    BY <2>1, <2>2 DEF Init
<1>. QED
  BY <1>1, <1>2 DEF Init, AttemptedOK, Attempted

(* They remain so.                                                           *)
LEMMA NextAttempted == TypeInv /\ OrderInv /\ AttemptedOK /\ [Next]_vars => AttemptedOK'
<1>. SUFFICES ASSUME TypeInv, OrderInv, AttemptedOK, [Next]_vars
              PROVE  AttemptedOK'
  OBVIOUS
<1>1. \A x \in Attempted' : x \in Attempted \/ x \in ManagedNames
  <2>1. CASE Next
    BY <2>1, NewAttempted
  <2>2. CASE UNCHANGED vars
    BY <2>2 DEF vars, api, manager, ctl, plan, Attempted
  <2>. QED
    BY <2>1, <2>2
<1>2. \A x \in Attempted' : ManagedName(x)
  BY <1>1, ManagedNamesManaged DEF AttemptedOK, OrderInv
<1>. QED
  BY <1>2 DEF AttemptedOK, ManagedName

(* An upsert, complete or not, changes the state of the one link it is for.  *)
LEMMA UpsertTouches ==
  ASSUME TypeInv, at \in Listed, Upsert \/ UpsertError,
         NEW x \in Name, kernel'[x].state # kernel[x].state
  PROVE  x = res[at].name
<1>. DEFINE n == res[at].name
<1>1. n \in Name /\ res[at].mtu \in Nat /\ HostType
  BY ListedSpec DEF TypeInv, CtlType, PlanType
<1>2. CASE Upsert
  BY <1>1, <1>2 DEF Upsert, Touch, HostType, NetlinkLink
<1>3. CASE UpsertError
  <2>1. PICK half \in HalfUpserted \cup {kernel} : kernel' = half
    BY <1>3, Zenon DEF UpsertError, Touch
  <2>. QED
    BY <1>1, <2>1, HalfUpsertedType DEF TypeInv, CtlType
<1>. QED
  BY <1>2, <1>3

(* What the agent changes the state of: the link of a listed Link that is    *)
(* managed, or one that it is to delete.                                     *)
LEMMA TouchedManaged ==
  ASSUME TypeInv, OrderInv, Next, edits' = edits,
         NEW x \in Name, kernel'[x].state # kernel[x].state
  PROVE  x \in ManagedNames \/ (pc \in {"down", "delete"} /\ x \in victims)
<1>. USE DEF OrderInv
<1>1. \A l \in Listed : res[l].managed => res[l].name \in ManagedNames
  BY DEF ManagedNames
<1>2. \A l \in Listed : l \in Link /\ res[l].name \in Name
  BY ListedSpec DEF TypeInv, CtlType, PlanType
<1>3. \A y \in Name : BringDown(y) => y = x
  BY BroughtDown DEF TypeInv
<1>4. \A l \in Listed : Depends(l) \/ Missing(l) => res[l].managed
  BY <1>2, DependsManaged
<1>5. CASE \E l \in Link : CheckDependencies(l)
  <2>1. PICK l \in Link : CheckDependencies(l)
    BY <1>5
  <2>2. l \in Listed /\ Missing(l) /\ BringDown(res[l].name)
    BY <2>1 DEF CheckDependencies, IsNext, TypeInv, CtlType, host
  <2>. QED
    BY <1>1, <1>2, <1>3, <1>4, <2>2
<1>6. CASE \E y \in Name : SetDown(y) \/ Delete(y)
  <2>1. PICK y \in Name : SetDown(y) \/ Delete(y)
    BY <1>6
  <2>2. pc \in {"down", "delete"} /\ y \in victims
    BY <2>1 DEF SetDown, Delete, PlanOK
  <2>3. x = y
    <3>1. CASE SetDown(y)
      BY <1>3, <2>1, <3>1 DEF SetDown
    <3>2. CASE Delete(y)
      BY <2>1, <3>2, DeletedState DEF Delete, Touch, TypeInv
    <3>. QED
      BY <2>1, <3>1, <3>2
  <2>. QED
    BY <2>2, <2>3
<1>7. CASE VisitDependent
  <2>1. BringDown(res[Head(search).link].name) /\ pc = "dependents" /\ search # <<>>
    BY <1>7 DEF VisitDependent, host
  <2>2. 1 \in DOMAIN search /\ search[1] = Head(search) /\ Head(search) \in Edge
    BY <2>1 DEF TypeInv, CtlType
  <2>3. Head(search).link \in Listed /\ Depends(Head(search).link)
    BY <2>1, <2>2 DEF OrderOK, Edge
  <2>. QED
    BY <1>1, <1>2, <1>3, <1>4, <2>1, <2>3
<1>8. CASE pc = "dependents" /\ (Upsert \/ UpsertError)
  <2>1. at \in Listed /\ res[at].managed
    BY <1>8 DEF OrderOK, IsNext, TypeInv, CtlType
  <2>2. x = res[at].name
    BY <1>8, <2>1, UpsertTouches
  <2>. QED
    BY <1>1, <2>1, <2>2
<1>9. CASE Upsert \/ UpsertImpossible
  BY <1>8, <1>9 DEF Upsert, UpsertImpossible
<1>10. CASE CallFails
  BY <1>8, <1>10 DEF CallFails, host
<1>11. ~Environment
  <2>1. Environment => edits' = edits + 1
    BY DEF Environment, SetSpec, RemoveLink, Register, Unregister, CollectGarbage, Others,
           Edit
  <2>2. edits + 1 # edits
    BY DEF TypeInv, OutsideType
  <2>. QED
    BY <2>1, <2>2
<1>12. CASE \/ \E l \in Link : GetLink(l) \/ UpsertSkip(l) \/ UpsertStart(l)
            \/ ReconcileNothing \/ ReconcileUpsert \/ ReconcileDeletion
            \/ ValidateLinks \/ ChecksDone \/ SetDownsDone \/ DeletesDone \/ UpsertsDone
            \/ PatchMain \/ PatchStatus \/ Restart \/ Deliver \/ Resync
  BY <1>12
  DEF GetLink, UpsertSkip, UpsertStart, ReconcileNothing, ReconcileUpsert,
      ReconcileDeletion, ValidateLinks, ChecksDone, SetDownsDone, DeletesDone, UpsertsDone,
      PatchMain, PatchStatus, Restart, Deliver, Resync, host
<1>. QED
  BY <1>5, <1>6, <1>7, <1>9, <1>10, <1>11, <1>12 DEF Next, Reconcile

(* However stale its reads are, the agent sets the state of no link whose    *)
(* name no managed Link has ever had: only managed names are written to the  *)
(* status (updateLastAttemptedLinks), and only those and the names of the    *)
(* listed managed Links are brought down, deleted or upserted.               *)
THEOREM UnmanagedLeftAlone ==
  Spec => [][edits' = edits =>
               \A x \in Name : kernel'[x].state # kernel[x].state => ManagedName(x)]_vars
<1>1. ASSUME TypeInv, OrderInv, AttemptedOK, Next, edits' = edits,
             NEW x \in Name, kernel'[x].state # kernel[x].state
      PROVE  ManagedName(x)
  <2>1. CASE x \in ManagedNames
    BY <1>1, <2>1, ManagedNamesManaged DEF OrderInv
  <2>2. CASE x \in victims
    BY <1>1, <2>2 DEF AttemptedOK, Attempted
  <2>. QED
    BY <1>1, <2>1, <2>2, TouchedManaged
<1>2. TypeInv /\ OrderInv /\ AttemptedOK /\ [Next]_vars
        => [edits' = edits =>
             \A x \in Name : kernel'[x].state # kernel[x].state => ManagedName(x)]_vars
  BY <1>1
<1>. QED
  BY <1>2, InitTypes, NextTypes, InitOrder, NextOrder, InitAttempted, NextAttempted,
     PTL DEF Spec

(* With fresh reads, the agent sets the state of a link only when a managed  *)
(* Link names it, or named it when the stored names were last written: what  *)
(* it deletes are those names and no others (deleteUndesiredLinks,           *)
(* handleDeletion), so that a link which only unmanaged Links name is left   *)
(* as it is.                                                                 *)
THEOREM OnlyManagedTouchedWithFreshReads ==
  ASSUME ~StaleReads
  PROVE  Spec => OnlyManagedTouched
<1>1. ASSUME TypeInv, OrderInv, AttemptedOK, WriteAhead, Next, edits' = edits,
             NEW x \in Name, kernel'[x].state # kernel[x].state
      PROVE  x \in nodeLinks.attempted \cup ManagedNames /\ ManagedName(x)
  <2>1. CASE x \in ManagedNames
    BY <1>1, <2>1, ManagedNamesManaged DEF OrderInv
  <2>2. CASE pc \in {"down", "delete"} /\ x \in victims
    <3>1. x \in mem.attempted
      BY <1>1, <2>2 DEF WriteAhead
    <3>2. mem.attempted = clusterState.attempted /\ clusterState.fin
      BY <1>1, <2>2 DEF WriteAhead
    <3>3. nodeLinks.attempted = clusterState.attempted
      BY <1>1, <2>2, <3>2 DEF WriteAhead
    <3>. QED
      BY <1>1, <2>2, <3>1, <3>2, <3>3 DEF AttemptedOK, Attempted
  <2>. QED
    BY <1>1, <2>1, <2>2, TouchedManaged
<1>2. TypeInv /\ OrderInv /\ AttemptedOK /\ WriteAhead /\ [Next]_vars
        => [edits' = edits =>
             \A x \in Name : kernel'[x].state # kernel[x].state =>
               /\ x \in nodeLinks.attempted \cup ManagedNames
               /\ \E l \in Link : \E s \in Specs[l] : s.managed /\ s.name = x]_vars
  BY <1>1 DEF ManagedName
<1>. QED
  BY <1>2, InitTypes, NextTypes, InitOrder, NextOrder, InitAttempted, NextAttempted,
     WriteAheadWithFreshReads, PTL DEF Spec, OnlyManagedTouched

=============================================================================
