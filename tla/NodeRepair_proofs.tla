--------------------------- MODULE NodeRepair_proofs ---------------------------
(* Proofs about NodeRepair, for every set of Links, every node they start on *)
(* and every bound on what others do.                                        *)
EXTENDS NodeRepair, LinkEventWatcher_proofs

(* What no step of the agent changes, but for Links that are listed.         *)
DesiredType == spec \in [Link -> LinkSpec] /\ listed \subseteq Link

(* A step that changes links sends an event for each of them.                *)
LEMMA EventsAreChanges ==
  ASSUME Events, UNCHANGED <<watched, request, queue, reconciler>>
  PROVE  Change \/ UNCHANGED watcherVars
<1>1. CASE UNCHANGED <<subscription, unread>>
  BY <1>1 DEF watcherVars
<1>2. CASE \E order \in SetToSeqs(Changed(kernel, kernel')) : Notify(order)
  <2>1. Changed(kernel, kernel') \in SUBSET LinkName
    BY NodeRepairAssumption DEF Changed
  <2>. QED
    BY <1>2, <2>1 DEF Change
<1>. QED
  BY <1>1, <1>2 DEF Events

(* The names that are watched are names of links.                            *)
LEMMA GetLinksSetsNames ==
  ASSUME DesiredType, GetLinks
  PROVE  \E names \in SUBSET LinkName : SetWatched(names)
<1>1. ASSUME NEW l \in listed PROVE spec[l].name \in LinkName
  BY NodeRepairAssumption DEF DesiredType, LinkSpec
<1>2. {spec[l].name : l \in listed} \in SUBSET LinkName
  BY <1>1
<1>. QED
  BY <1>2 DEF GetLinks

(* Only a name that is to be read is read.                                   *)
LEMMA ReadsNames ==
  ASSUME WatcherTypeOK, NEW n, ReadLink(n)
  PROVE  WatcherNext
  BY DEF ReadLink, WatcherTypeOK, WatcherNext, ReconcilerStep

(* Every step of the whole is a step of the watcher's specification, or none. *)
LEMMA StepOfWatcher ==
  ASSUME WatcherTypeOK, DesiredType, [Next]_vars
  PROVE  [WatcherNext]_watcherVars
<1>1. CASE UNCHANGED vars
  BY <1>1 DEF vars, watcherVars
<1>2. CASE Agent
  <2>1. CASE Begin
    BY <2>1 DEF Begin, WatcherNext, ReconcilerStep
  <2>2. CASE GetLinks
    BY <2>2, GetLinksSetsNames DEF WatcherNext, ReconcilerStep
  <2>3. CASE SetDownDependent \/ CallUpsert
    BY <2>3, EventsAreChanges DEF SetDownDependent, BringDown, CallUpsert, WatcherNext
  <2>4. CASE EndPass
    BY <2>4 DEF EndPass, WatcherNext, ReconcilerStep
  <2>5. ASSUME NEW l \in Link, SetDownLacking(l) PROVE [WatcherNext]_watcherVars
    BY <2>5, EventsAreChanges DEF SetDownLacking, BringDown, WatcherNext
  <2>6. ASSUME NEW l \in Link, RefuseLink(l) PROVE [WatcherNext]_watcherVars
    BY <2>6 DEF RefuseLink
  <2>7. ASSUME NEW l \in Link, LeaveLink(l) \/ BeginLink(l) PROVE [WatcherNext]_watcherVars
    BY <2>7, ReadsNames DEF LeaveLink, BeginLink
  <2>. QED
    BY <1>2, <2>1, <2>2, <2>3, <2>4, <2>5, <2>6, <2>7 DEF Agent
<1>3. CASE Watcher
  BY <1>3 DEF Watcher, WatcherNext
<1>4. CASE CallFails
  BY <1>4 DEF CallFails, WatcherNext
<1>5. CASE SubscriptionFails \/ Restart
  BY <1>5 DEF SubscriptionFails, Restart, WatcherNext
<1>6. ASSUME NEW n \in Name, Others(n) PROVE [WatcherNext]_watcherVars
  BY <1>6, EventsAreChanges DEF Others, WatcherNext
<1>7. ASSUME NEW l \in Link, Register(l) PROVE [WatcherNext]_watcherVars
  BY <1>7 DEF Register, WatcherNext
<1>. QED
  BY <1>1, <1>2, <1>3, <1>4, <1>5, <1>6, <1>7 DEF Next

(* Nobody changes what a Link asks for.                                      *)
LEMMA DesiredTypeKept ==
  ASSUME DesiredType, [Next]_vars
  PROVE  DesiredType'
<1>1. UNCHANGED desired \/ \E l \in Link : Register(l)
  BY DEF vars, Next, Agent, Begin, GetLinks, SetDownDependent, CallUpsert, EndPass,
         SetDownLacking, RefuseLink, LeaveLink, BeginLink, Watcher, CallFails,
         SubscriptionFails, Restart, Others
<1>. QED
  BY <1>1 DEF desired, Register, DesiredType

(* The agent with its link managers implements the watcher's specification:  *)
(* whatever it, a failure, a restart or anybody else does to the links.      *)
THEOREM ImplementsWatcher == Spec => WatcherSpec /\ []Covered
<1>. DEFINE Inv == WatcherTypeOK /\ Covered /\ DesiredType
<1>1. Init => WatcherInit /\ DesiredType
  BY NodeRepairAssumption DEF Init, DesiredType
<1>2. WatcherTypeOK /\ DesiredType /\ [Next]_vars => [WatcherNext]_watcherVars
  BY StepOfWatcher
<1>3. WatcherInit => WatcherTypeOK /\ Covered
  <2>1. <<>> \in Seq(LinkName) /\ Len(<<>>) <= Capacity
    BY LinkEventWatcherAssumption, EmptySeq
  <2>. QED
    BY <2>1 DEF WatcherInit, WatcherTypeOK, Covered
<1>4. WatcherTypeOK /\ Covered /\ [WatcherNext]_watcherVars => (WatcherTypeOK /\ Covered)'
  BY StepCovers
<1>5. DesiredType /\ [Next]_vars => DesiredType'
  BY DesiredTypeKept
<1>. QED
  BY <1>1, <1>2, <1>3, <1>4, <1>5, PTL DEF Spec, WatcherSpec
=============================================================================
