-------------------------- MODULE NodeLinksLifecycle --------------------------
(***************************************************************************)
(* What the Link controller and the agent of a node promise each other     *)
(* about the node's NodeLinks object, the only thing they share.  The Link *)
(* controller creates it, writes the list of Links in its spec, and        *)
(* deletes it; the agent holds it back with a finalizer, and keeps in its  *)
(* status the names of the links that it has to clean up.                  *)
(*                                                                         *)
(* LinkReconciler and NodeLinksReconciler are both shown to implement it:  *)
(* each with the steps of its own controller in detail, and with those of  *)
(* the other one as steps of its environment.                              *)
(***************************************************************************)
EXTENDS FiniteSets

VARIABLES
  there, deleting,  \* the object exists, and is being deleted
  fin,              \* it has the agent's finalizer
  matching,         \* the Links it lists
  attempted,        \* names in its status
  made,             \* the links on the node that the agent answers for
  lost              \* whether the node that owns the object is gone

object == <<there, deleting, fin, matching>>
record == <<attempted, made>>
vars   == <<object, record>>

Init ==
  /\ there \in BOOLEAN /\ (there <=> matching # {})
  /\ ~deleting /\ ~fin
  /\ attempted = {} /\ made = {}

(* The object goes away, and its status with it.                             *)
Vanish == ~there' /\ ~deleting' /\ ~fin' /\ matching' = {} /\ attempted' = {}

-----------------------------------------------------------------------------
(* The Link controller, and the garbage collector.                           *)

Create ==
  /\ ~there
  /\ there' /\ matching' # {}
  /\ UNCHANGED <<deleting, fin, record>>

(* An object that lists no Link is deleted, not left.                        *)
List ==
  /\ there /\ (deleting \/ matching' # {})
  /\ UNCHANGED <<there, deleting, fin, record>>

Delete ==
  /\ there /\ ~deleting
  /\ \/ fin /\ deleting' /\ UNCHANGED <<there, fin, matching, record>>
     \/ ~fin /\ Vanish /\ UNCHANGED made

(* Only for an agent that is gone may the controller give up its finalizer.  *)
Abandon ==
  /\ deleting /\ fin /\ lost
  /\ Vanish /\ UNCHANGED made

-----------------------------------------------------------------------------
(* The agent. *)

Hold ==
  /\ there /\ ~deleting /\ fin'
  /\ UNCHANGED <<there, deleting, matching, record>>

(* New names are stored; the agent may disown links that a Link still names, *)
(* but whatever it answers for stays named.                                  *)
Record ==
  /\ there /\ fin
  /\ made' \subseteq made /\ made' \subseteq attempted'
  /\ UNCHANGED object

Make ==
  /\ there /\ fin
  /\ made' \subseteq attempted
  /\ UNCHANGED <<object, attempted>>

(* The finalizer goes when none of the agent's links is left.                *)
Release ==
  /\ deleting /\ fin /\ made = {}
  /\ Vanish /\ UNCHANGED made

ControllerStep == Create \/ List \/ Delete \/ Abandon
AgentStep      == Hold \/ Record \/ Make \/ Release

Next == ControllerStep \/ AgentStep

Spec == Init /\ [][Next]_vars
=============================================================================
