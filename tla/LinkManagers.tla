----------------------------- MODULE LinkManagers -----------------------------
(***************************************************************************)
(* The link managers (internal/links): whether a link of the node is as    *)
(* its Link asks, and the calls that make it so.  One action is one call   *)
(* that changes a link, with the reads before it; anybody else may change  *)
(* the links between two of them, while the upsert goes on with the copy   *)
(* of the link that it has read first.                                     *)
(***************************************************************************)
EXTENDS Netlink, Sequences

CONSTANTS
  Link,     \* names of Link objects
  NoRef     \* "no reference"

VARIABLES
  call,     \* the next call of the upsert
  copy      \* the link as the upsert has read it

upsertVars == <<kernel, call, copy>>

(* What a Link asks for; an MTU of 0 leaves it as it is, a reference may be  *)
(* optional.                                                                 *)
Reference == [to : Link, optional : BOOLEAN, setDown : BOOLEAN]

LinkSpec ==
  [name : Name, kind : {"bridge", "vxlan", "unmanaged"}, mtu : Nat, params : Nat,
   group : {"none", "unicast", "multicast"}, learning : BOOLEAN,
   master : Reference \cup {NoRef}, device : Reference \cup {NoRef}]

(* The webhook: a multicast group needs a device.                            *)
Accepted(s) == s.kind = "vxlan" /\ s.group = "multicast" => s.device # NoRef

GetDependencies(s) == IF s.kind = "vxlan" THEN {s.master, s.device} \ {NoRef} ELSE {}

IsManaged(s) == s.kind # "unmanaged"

(* resolveLinkRef: `links' are the specs of the Links listed on the node.    *)
Resolved(ref, links) ==
  IF ref # NoRef /\ ref.optional /\ ref.to \notin DOMAIN links THEN NoRef ELSE ref

(* doesLinkRefNeedUpdate: whether the link with the index has another name.  *)
(* Only called when every dependency that is not optional is listed.         *)
LinkRefDiffers(ref, index, links) ==
  LET wanted == Resolved(ref, links)
  IN IF wanted = NoRef THEN index # 0
     ELSE index = 0 \/ index # kernel[links[wanted.to].name].index

(* getDesiredReferencedLinkIndex, and whether the link is there.             *)
DesiredIndex(ref, links) ==
  LET wanted == Resolved(ref, links)
  IN IF wanted = NoRef THEN 0 ELSE kernel[links[wanted.to].name].index

DesiredIsThere(ref, links) ==
  Resolved(ref, links) # NoRef => DesiredIndex(ref, links) # 0

(* IsUpsertNeeded of the three managers, of a link that was read.            *)
IsUpsertNeeded(s, link, links) ==
  /\ IsManaged(s)
  /\ \/ link.type # s.kind
     \/ s.mtu # 0 /\ link.mtu # s.mtu
     \/ ~link.up
     \/ /\ s.kind = "vxlan"
        /\ \/ LinkRefDiffers(s.master, link.master, links)
           \/ LinkRefDiffers(s.device, link.device, links)
           \/ link.group # s.group
           \/ link.params # s.params
           \/ link.learning # s.learning

(* A deliberately wrong variant, named Wrong..., stands before the definition *)
(* it replaces.                                                              *)

WrongForceReplace(s, link) == link.type # s.kind    \* sets the rest in place

(* forceReplace: what cannot be changed in place.                            *)
ForceReplace(s, link) ==
  \/ link.type # s.kind
  \/ s.kind = "vxlan" /\ (link.params # s.params \/ link.group = "inet6")

(* The link that Upsert adds; the rest is set later.                         *)
NewLink(s) ==
  [NoLink EXCEPT !.type = s.kind, !.mtu = 1,
                 !.params = IF s.kind = "vxlan" THEN s.params ELSE 0,
                 !.learning = s.kind = "vxlan" /\ s.learning]

-----------------------------------------------------------------------------
(* Upsert.  `call' is "ok" or "error" once it has returned.                  *)

UpsertInit == call = "ok" /\ copy = NoLink

Returned == call \in {"ok", "error"}

Fails == call' = "error" /\ copy' = NoLink /\ UNCHANGED kernel

(* basicUpsertWithCheck: LinkByName.                                         *)
Retrieve(s) ==
  /\ call = "retrieve"
  /\ copy' = kernel[s.name]
  /\ call' = IF ~Present(s.name) THEN "add"
             ELSE IF ForceReplace(s, kernel[s.name]) THEN "delete" ELSE "mtu"
  /\ UNCHANGED kernel

(* Every later call is for the index in the copy.                            *)
Gone == ~HasIndex(copy.index)

DeleteExisting ==
  /\ call = "delete"
  /\ \/ Gone /\ Fails
     \/ /\ ~Gone
        /\ kernel' = Without(NameOf(copy.index))
        /\ call' = "add" /\ copy' = NoLink

(* LinkAdd: that the name is in use already is not an error.                 *)
Add(s) ==
  /\ call = "add"
  /\ \/ Present(s.name) /\ UNCHANGED kernel
     \/ ~Present(s.name) /\ kernel' = Added(s.name, NewLink(s), {})
  /\ call' = "again" /\ copy' = NoLink

(* LinkByName again: only the type is checked.                               *)
RetrieveAgain(s) ==
  /\ call = "again"
  /\ \/ kernel[s.name].type # s.kind /\ Fails
     \/ /\ kernel[s.name].type = s.kind
        /\ copy' = kernel[s.name] /\ call' = "mtu"
        /\ UNCHANGED kernel

(* One attribute of the link with the copy's index is set when it differs,   *)
(* and `next' follows.                                                       *)
SetAttribute(attribute, differs, value, next) ==
  LET link == [kernel[NameOf(copy.index)] EXCEPT ![attribute] = value]
      possible == ~Gone /\ Applicable(link)
  IN \/ /\ ~differs
        /\ call' = next /\ UNCHANGED <<kernel, copy>>
     \/ /\ differs /\ ~possible
        /\ Fails
     \/ /\ differs /\ possible
        /\ kernel' = [kernel EXCEPT ![NameOf(copy.index)] = link]
        /\ call' = next /\ UNCHANGED copy

SetReference(attribute, ref, index, links, next) ==
  \/ /\ LinkRefDiffers(ref, index, links) /\ ~DesiredIsThere(ref, links)
     /\ Fails
  \/ /\ LinkRefDiffers(ref, index, links) => DesiredIsThere(ref, links)
     /\ SetAttribute(attribute, LinkRefDiffers(ref, index, links),
                     DesiredIndex(ref, links), next)

SetMTU(s) ==
  /\ call = "mtu"
  /\ SetAttribute("mtu", s.mtu # 0 /\ copy.mtu # s.mtu, s.mtu,
                  IF s.kind = "vxlan" THEN "device" ELSE "up")

WrongSetDevice(s, links) ==            \* the group first
  /\ call = "device"
  /\ SetAttribute("group", copy.group # s.group, s.group, "group")

(* The device before the group, which is joined on it.                       *)
SetDevice(s, links) ==
  /\ call = "device"
  /\ SetReference("device", s.device, copy.device, links, "group")

SetGroup(s) ==
  /\ call = "group"
  /\ SetAttribute("group", copy.group # s.group, s.group, "learning")

SetLearning(s) ==
  /\ call = "learning"
  /\ SetAttribute("learning", copy.learning # s.learning, s.learning, "master")

SetMaster(s, links) ==
  /\ call = "master"
  /\ SetReference("master", s.master, copy.master, links, "up")

SetUp ==
  /\ call = "up"
  /\ \/ Gone /\ Fails
     \/ /\ ~Gone
        /\ kernel' = [kernel EXCEPT ![NameOf(copy.index)].up = TRUE]
        /\ call' = "ok" /\ copy' = NoLink

Upsert(s, links) ==
  \/ Retrieve(s) \/ DeleteExisting \/ Add(s) \/ RetrieveAgain(s) \/ SetMTU(s)
  \/ SetDevice(s, links) \/ SetGroup(s) \/ SetLearning(s) \/ SetMaster(s, links)
  \/ SetUp

(* Any of the calls may return an error instead.                             *)
CallError == ~Returned /\ Fails
=============================================================================
