------------------------ MODULE LinkEventWatcher_proofs ------------------------
(* Proofs about LinkEventWatcher, for every set of names and every capacity. *)
EXTENDS LinkEventWatcher, FiniteSetTheorems, SequenceTheorems, TLAPS

-----------------------------------------------------------------------------
(* Sequences of names.                                                       *)

(* An order of the names that have changed is a sequence of all of them.     *)
LEMMA OrderOfNames ==
  ASSUME NEW S \in SUBSET LinkName, NEW names \in SetToSeqs(S)
  PROVE  names \in Seq(LinkName)
<1>1. Cardinality(S) \in Nat
  BY LinkEventWatcherAssumption, FS_Subset, FS_CardinalityType
<1>2. names \in [1..Cardinality(S) -> S]
  BY DEF SetToSeqs
<1>. QED
  BY <1>1, <1>2

(* What is in a sequence is at one of its places.                            *)
LEMMA ElementsOf ==
  ASSUME NEW s \in Seq(LinkName)
  PROVE  ToSet(s) = {s[i] : i \in 1..Len(s)}
  BY DEF ToSet

(* Events are received in the order they were sent, and none is skipped.     *)
LEMMA ElementsOfTail ==
  ASSUME NEW s \in Seq(LinkName), s # <<>>
  PROVE  ToSet(s) \subseteq {Head(s)} \cup ToSet(Tail(s))
<1>. SUFFICES ASSUME NEW i \in 1..Len(s), i # 1
              PROVE  s[i] \in ToSet(Tail(s))
  BY ElementsOf
<1>1. /\ Len(Tail(s)) = Len(s) - 1 /\ Tail(s) \in Seq(LinkName)
      /\ \A j \in 1..Len(Tail(s)) : Tail(s)[j] = s[j + 1]
  BY HeadTailProperties
<1>2. i - 1 \in 1..Len(Tail(s)) /\ (i - 1) + 1 = i
  BY <1>1
<1>3. Tail(s)[i - 1] = s[i]
  BY <1>1, <1>2
<1>. QED
  BY <1>1, <1>2, <1>3, ElementsOf

(* Events that are appended do not drive others out.                         *)
LEMMA ElementsOfConcat ==
  ASSUME NEW s \in Seq(LinkName), NEW t \in Seq(LinkName)
  PROVE  ToSet(s) \cup ToSet(t) \subseteq ToSet(s \o t)
<1>1. /\ s \o t \in Seq(LinkName) /\ Len(s \o t) = Len(s) + Len(t)
      /\ \A i \in 1..Len(s) + Len(t) :
           (s \o t)[i] = IF i <= Len(s) THEN s[i] ELSE t[i - Len(s)]
  BY ConcatProperties
<1>2. ASSUME NEW i \in 1..Len(s)
      PROVE  s[i] \in ToSet(s \o t)
  <2>1. i \in 1..Len(s \o t) /\ (s \o t)[i] = s[i]
    BY <1>1
  <2>. QED
    BY <1>1, <2>1, ElementsOf
<1>3. ASSUME NEW i \in 1..Len(t)
      PROVE  t[i] \in ToSet(s \o t)
  <2>. DEFINE j == i + Len(s)
  <2>1. j \in 1..Len(s \o t) /\ ~(j <= Len(s)) /\ j - Len(s) = i
    BY <1>1
  <2>2. (s \o t)[j] = t[i]
    BY <1>1, <2>1
  <2>. QED
    BY <1>1, <2>1, <2>2, ElementsOf
<1>. QED
  BY <1>2, <1>3, ElementsOf

-----------------------------------------------------------------------------
(* What the kernel sends keeps the types, and covers what has changed while  *)
(* the watcher waits for an event.                                           *)
LEMMA NotifyCovers ==
  ASSUME WatcherTypeOK, NEW names \in Seq(LinkName), Notify(names)
  PROVE  /\ updates' \in Seq(LinkName) /\ Len(updates') <= Capacity
         /\ ended' \in BOOLEAN /\ unread' \subseteq LinkName /\ watcher' = watcher
         /\ unread' = unread \cup ToSet(names)
         /\ watcher = "receive" => ended' \/ (ToSet(updates) \cup ToSet(names)) \subseteq ToSet(updates')
<1>1. watcher' = watcher /\ unread' = unread \cup ToSet(names) /\ ToSet(names) \subseteq LinkName
  BY DEF Notify, ToSet
<1>2. CASE (~Subscribed \/ ended) /\ UNCHANGED <<updates, ended>>
  BY <1>1, <1>2 DEF WatcherTypeOK, Subscribed
<1>3. CASE /\ Subscribed /\ ~ended /\ Len(updates) + Len(names) <= Capacity
           /\ updates' = updates \o names /\ UNCHANGED ended
  BY <1>1, <1>3, ConcatProperties, ElementsOfConcat DEF WatcherTypeOK
<1>4. CASE /\ Subscribed /\ ~ended /\ Len(updates) + Len(names) > Capacity
           /\ \E kept \in 0..Len(updates) : updates' = SubSeq(updates, 1, kept)
           /\ ended' = TRUE
  <2>1. PICK kept \in 0..Len(updates) : updates' = SubSeq(updates, 1, kept)
    BY <1>4
  <2>2. \A i \in 1..kept : updates[i] \in LinkName
    BY DEF WatcherTypeOK
  <2>3. updates' \in Seq(LinkName) /\ Len(updates') = kept
    BY <2>1, <2>2, SubSeqProperties DEF WatcherTypeOK
  <2>. QED
    BY <1>1, <1>4, <2>3, LinkEventWatcherAssumption DEF WatcherTypeOK
<1>. QED
  BY <1>1, <1>2, <1>3, <1>4 DEF Notify

(* A step of the watcher, the reconciler or the kernel keeps what has changed *)
(* covered.                                                                  *)
LEMMA StepCovers ==
  ASSUME WatcherTypeOK, Covered, [WatcherNext]_watcherVars
  PROVE  WatcherTypeOK' /\ Covered'
<1>0. <<>> \in Seq(LinkName) /\ Len(<<>>) <= Capacity
  BY LinkEventWatcherAssumption, EmptySeq
<1>. USE DEF subscription, reconciler
<1>1. CASE UNCHANGED watcherVars
  BY <1>1 DEF watcherVars, WatcherTypeOK, Covered, ToSet
<1>2. CASE Subscribe \/ SubscribeFails \/ ChannelClosed \/ Backoff \/ CheckEmpty
  BY <1>0, <1>2
     DEF Subscribe, SubscribeFails, ChannelClosed, Backoff, CheckEmpty, WatcherTypeOK, Covered
<1>3. CASE Receive
  <2>1. updates' \in Seq(LinkName) /\ Len(updates') <= Capacity
    BY <1>3, HeadTailProperties, LinkEventWatcherAssumption DEF Receive, WatcherTypeOK
  <2>2. WatcherTypeOK'
    BY <1>3, <2>1 DEF Receive, WatcherTypeOK
  <2>3. ToSet(updates) \subseteq {Head(updates)} \cup ToSet(updates')
    BY <1>3, ElementsOfTail DEF Receive, WatcherTypeOK
  <2>. QED
    BY <1>3, <2>2, <2>3 DEF Receive, Covered
<1>4. CASE SendRequest \/ Forward \/ TakeRequest \/ PassEnds \/ PassFails \/ Enqueue
  BY <1>4
     DEF SendRequest, Forward, TakeRequest, PassEnds, PassFails, Enqueue, WatcherTypeOK, Covered
<1>5. CASE WatcherRestart
  BY <1>0, <1>5 DEF WatcherRestart, WatcherTypeOK, Covered
<1>6. ASSUME NEW names \in SUBSET LinkName, SetWatched(names) PROVE WatcherTypeOK' /\ Covered'
  BY <1>6 DEF SetWatched, WatcherTypeOK, Covered
<1>7. ASSUME NEW n \in LinkName, ReadLink(n) PROVE WatcherTypeOK' /\ Covered'
  BY <1>7 DEF ReadLink, WatcherTypeOK, Covered
<1>8. CASE Change
  <2>0. PICK S \in SUBSET LinkName : \E names \in SetToSeqs(S) : Notify(names)
    BY <1>8 DEF Change
  <2>1. PICK names \in SetToSeqs(S) : Notify(names)
    BY <2>0
  <2>2. names \in Seq(LinkName)
    BY <2>1, OrderOfNames
  <2>3. /\ updates' \in Seq(LinkName) /\ Len(updates') <= Capacity
        /\ ended' \in BOOLEAN /\ unread' \subseteq LinkName /\ watcher' = watcher
        /\ unread' = unread \cup ToSet(names)
        /\ watcher = "receive" =>
             ended' \/ (ToSet(updates) \cup ToSet(names)) \subseteq ToSet(updates')
    BY <2>1, <2>2, NotifyCovers
  <2>4. WatcherTypeOK'
    BY <1>8, <2>3 DEF Change, WatcherTypeOK
  <2>5. ended => ended'
    BY <2>1 DEF Notify
  <2>. QED
    BY <1>8, <2>3, <2>4, <2>5 DEF Change, Covered
<1>. QED
  BY <1>1, <1>2, <1>3, <1>4, <1>5, <1>6, <1>7, <1>8 DEF WatcherNext, WatcherStep, ReconcilerStep

(* No change of a watched link is forgotten by the watcher, for any set of   *)
(* links and any capacity of the socket and the channel: the two filters and *)
(* the dropped request never act together to lose it.                        *)
THEOREM CoveredByWatcher == WatcherSpec => []Covered
<1>1. WatcherInit => WatcherTypeOK /\ Covered
  <2>1. <<>> \in Seq(LinkName) /\ Len(<<>>) <= Capacity
    BY LinkEventWatcherAssumption, EmptySeq
  <2>. QED
    BY <2>1 DEF WatcherInit, WatcherTypeOK, Covered
<1>2. WatcherTypeOK /\ Covered /\ [WatcherNext]_watcherVars => (WatcherTypeOK /\ Covered)'
  BY StepCovers
<1>. QED
  BY <1>1, <1>2, PTL DEF WatcherSpec
=============================================================================
