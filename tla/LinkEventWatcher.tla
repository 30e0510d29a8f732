--------------------------- MODULE LinkEventWatcher ---------------------------
(***************************************************************************)
(* The netlink event watcher of the agent                                  *)
(* (internal/controller/nodelinks_linkevents.go): how a change of a link   *)
(* that the node's Links name leads to a reconciliation.                   *)
(*                                                                         *)
(* The watcher, the goroutine that forwards its requests to the work queue *)
(* and the reconciler run concurrently.  Of the reconciler only what       *)
(* matters here is kept: it takes a request, sets the watched names, and   *)
(* then reads each of these links.                                         *)
(***************************************************************************)
EXTENDS Naturals, SequencesExt

CONSTANTS
  LinkName,   \* names of netlink links
  Capacity    \* events that the socket and the channel of updates hold

ASSUME LinkEventWatcherAssumption == IsFiniteSet(LinkName) /\ Capacity \in Nat

VARIABLES
  watcher,    \* what the watcher does next
  updates,    \* names in the events that were sent and not received
  ended,      \* whether the subscription fails once these are received
  watched,    \* linkNames, as the reconciler has last set them
  request,    \* whether the channel of one request holds one
  queue,      \* whether the work queue holds the node
  pass,       \* what the reconciler does
  toRead,     \* names it has still to read in this pass
  unread      \* history: names changed since the reconciler last read them

subscription == <<watcher, updates, ended>>
reconciler   == <<pass, toRead>>
watcherVars  == <<subscription, watched, request, queue, reconciler, unread>>

WatcherInit ==
  /\ watcher = "subscribe" /\ updates = <<>> /\ ended = FALSE
  /\ watched = {} /\ request = FALSE
  /\ queue = TRUE
  /\ pass = "idle" /\ toRead = {} /\ unread = LinkName

-----------------------------------------------------------------------------
(* The kernel.  Deliberately wrong variants, named Wrong..., stand before the *)
(* definition they replace.                                                  *)

Subscribed == watcher \notin {"subscribe", "backoff"}

WrongNotify(names) ==                  \* a buffer without a bound
  /\ unread' = unread \cup ToSet(names)
  /\ updates' = IF Subscribed /\ ~ended THEN updates \o names ELSE updates
  /\ UNCHANGED <<watcher, ended>>

(* Links have changed; an event each, in this order, while a subscription    *)
(* holds.  When the socket overflows the subscription ends, and whatever has *)
(* not reached the channel yet is lost.                                      *)
Notify(names) ==
  /\ unread' = unread \cup ToSet(names)
  /\ \/ /\ ~Subscribed \/ ended
        /\ UNCHANGED <<updates, ended>>
     \/ /\ Subscribed /\ ~ended /\ Len(updates) + Len(names) <= Capacity
        /\ updates' = updates \o names /\ UNCHANGED ended
     \/ /\ Subscribed /\ ~ended /\ Len(updates) + Len(names) > Capacity
        /\ \E kept \in 0..Len(updates) : updates' = SubSeq(updates, 1, kept)
        /\ ended' = TRUE
  /\ UNCHANGED watcher

-----------------------------------------------------------------------------
WrongSubscribe ==                      \* what was missed is not made up for
  /\ watcher = "subscribe"
  /\ watcher' = "receive" /\ updates' = <<>> /\ ended' = FALSE
  /\ UNCHANGED <<watched, request, queue, reconciler, unread>>

(* watch: once subscribed, a request for what was missed before.             *)
Subscribe ==
  /\ watcher = "subscribe"
  /\ watcher' = "check" /\ updates' = <<>> /\ ended' = FALSE
  /\ UNCHANGED <<watched, request, queue, reconciler, unread>>

SubscribeFails ==
  /\ watcher = "subscribe" /\ watcher' = "backoff"
  /\ UNCHANGED <<updates, ended, watched, request, queue, reconciler, unread>>

(* An event is received; it matters when the name is watched by then.        *)
Receive ==
  /\ watcher = "receive" /\ updates # <<>>
  /\ updates' = Tail(updates)
  /\ watcher' = IF Head(updates) \in watched THEN "check" ELSE "receive"
  /\ UNCHANGED <<ended, watched, request, queue, reconciler, unread>>

(* The channel is closed behind the last event of a subscription that ended. *)
ChannelClosed ==
  /\ watcher = "receive" /\ updates = <<>> /\ ended
  /\ watcher' = "backoff"
  /\ UNCHANGED <<updates, ended, watched, request, queue, reconciler, unread>>

(* Start: the next subscription after a backoff.                             *)
Backoff ==
  /\ watcher = "backoff" /\ watcher' = "subscribe"
  /\ UNCHANGED <<updates, ended, watched, request, queue, reconciler, unread>>

(* requestReconcile: nothing while no name is watched; a request is dropped  *)
(* when one is pending.                                                      *)
CheckEmpty ==
  /\ watcher = "check"
  /\ watcher' = IF watched = {} THEN "receive" ELSE "send"
  /\ UNCHANGED <<updates, ended, watched, request, queue, reconciler, unread>>

SendRequest ==
  /\ watcher = "send" /\ watcher' = "receive"
  /\ request' = TRUE
  /\ UNCHANGED <<updates, ended, watched, queue, reconciler, unread>>

(* WatchesRawSource: the channel's events enqueue the NodeLinks of the node. *)
Forward ==
  /\ request /\ request' = FALSE /\ queue' = TRUE
  /\ UNCHANGED <<subscription, watched, reconciler, unread>>

-----------------------------------------------------------------------------
(* The reconciler. *)

TakeRequest ==
  /\ pass = "idle" /\ queue
  /\ pass' = "list" /\ queue' = FALSE
  /\ UNCHANGED <<subscription, watched, request, toRead, unread>>

(* watchedLinkNames.set: before any of the links is read.  The end of a      *)
(* deletion sets no name.                                                    *)
SetWatched(names) ==
  /\ pass = "list" /\ pass' = "read"
  /\ watched' = names /\ toRead' = names
  /\ UNCHANGED <<subscription, request, queue, unread>>

(* A link is read, and found to be as it should or changed until it is.      *)
ReadLink(n) ==
  /\ pass = "read" /\ n \in toRead
  /\ toRead' = toRead \ {n} /\ unread' = unread \ {n}
  /\ UNCHANGED <<subscription, watched, request, queue, pass>>

PassEnds ==
  /\ pass = "read" /\ toRead = {} /\ pass' = "idle"
  /\ UNCHANGED <<subscription, watched, request, queue, toRead, unread>>

(* A pass that returns an error is queued again, after a backoff.            *)
PassFails ==
  /\ pass # "idle" /\ pass' = "idle" /\ toRead' = {}
  /\ queue' = TRUE
  /\ UNCHANGED <<subscription, watched, request, unread>>

-----------------------------------------------------------------------------
(* The process starts again.                                                 *)
WatcherRestart ==
  /\ watcher' = "subscribe" /\ updates' = <<>> /\ ended' = FALSE
  /\ watched' = {} /\ request' = FALSE
  /\ queue' = TRUE
  /\ pass' = "idle" /\ toRead' = {}
  /\ UNCHANGED unread

(* Anything else that enqueues the node.                                     *)
Enqueue == queue' = TRUE /\ UNCHANGED <<subscription, watched, request, reconciler, unread>>

WatcherStep ==
  Subscribe \/ Receive \/ ChannelClosed \/ Backoff \/ CheckEmpty \/ SendRequest

(* A change may come with a step of the reconciler: it changes links too.    *)
Change ==
  /\ \E S \in SUBSET LinkName : \E names \in SetToSeqs(S) : Notify(names)
  /\ UNCHANGED <<watched, request, queue, reconciler>>

ReconcilerStep ==
  \/ TakeRequest \/ PassEnds
  \/ \E names \in SUBSET LinkName : SetWatched(names)
  \/ \E n \in LinkName : ReadLink(n)

WatcherNext ==
  \/ WatcherStep \/ SubscribeFails \/ Forward \/ ReconcilerStep \/ PassFails
  \/ WatcherRestart \/ Enqueue \/ Change

WatcherSpec == WatcherInit /\ [][WatcherNext]_watcherVars

-----------------------------------------------------------------------------
(* Properties *)

WatcherTypeOK ==
  /\ watcher \in {"subscribe", "check", "send", "receive", "backoff"}
  /\ updates \in Seq(LinkName) /\ Len(updates) <= Capacity
  /\ ended \in BOOLEAN /\ request \in BOOLEAN /\ queue \in BOOLEAN
  /\ watched \subseteq LinkName /\ toRead \subseteq LinkName /\ unread \subseteq LinkName
  /\ pass \in {"idle", "list", "read"}

(* No change of a watched link is ever forgotten: as long as the reconciler  *)
(* has not read the link again, something is on its way that makes it read   *)
(* it, whatever events overflowed, were filtered by an old set of names, or  *)
(* were dropped because a request was pending.                               *)
Covered ==
  \A n \in unread \cap watched :
    \/ n \in ToSet(updates)
    \/ ended \/ watcher # "receive"
    \/ request \/ queue
    \/ pass = "list" \/ n \in toRead
=============================================================================
