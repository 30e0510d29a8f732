------------------------------- MODULE Netlink -------------------------------
(***************************************************************************)
(* The netlink links of a node, as the kernel keeps them: outside the      *)
(* repository, modelled from what its code relies on.                      *)
(*                                                                         *)
(* Of an index nothing matters but which link has it.  A new link gets one *)
(* that neither a link nor anybody's copy of a link holds: the kernel      *)
(* counts up.                                                              *)
(***************************************************************************)
EXTENDS Naturals, FiniteSets

CONSTANT Name       \* names of links

VARIABLE kernel     \* the links of the node, by name

(* A link: its attributes that can be set, those of a VXLAN that cannot (its *)
(* VNID and its ports), and the indices of the links it refers to, 0 for     *)
(* none.                                                                     *)
NetlinkLink ==
  [index : Nat, type : {"none", "bridge", "vxlan", "other"}, up : BOOLEAN,
   mtu : Nat, params : Nat, group : {"none", "unicast", "multicast", "inet6"},
   learning : BOOLEAN, master : Nat, device : Nat]

NoLink ==
  [index |-> 0, type |-> "none", up |-> FALSE, mtu |-> 0, params |-> 0,
   group |-> "none", learning |-> FALSE, master |-> 0, device |-> 0]

Present(n) == kernel[n].index # 0

HasIndex(i) == \E n \in Name : Present(n) /\ kernel[n].index = i

(* LinkByIndex: the name of the link with an index.                          *)
NameOf(i) == CHOOSE n \in Name : kernel[n].index = i

NewIndex(held) ==
  LET used == {kernel[n].index : n \in Name} \cup held
  IN CHOOSE i \in 1..(Cardinality(used) + 1) :
       i \notin used /\ \A j \in 1..(i - 1) : j \in used

(* LinkAdd, but for the name being in use.                                   *)
Added(n, link, held) == [kernel EXCEPT ![n] = [link EXCEPT !.index = NewIndex(held)]]

(* A VXLAN is deleted along with its device, and so on.                      *)
Deleted(n) ==
  {m \in Name : \A S \in SUBSET Name :
     /\ n \in S
     /\ \A k \in Name : (\E d \in S : Present(d) /\ kernel[k].device = kernel[d].index) => k \in S
     => m \in S}

(* LinkDel: what is left of the link's members no longer has a master.       *)
Without(n) ==
  [m \in Name |->
     IF m \in Deleted(n) THEN NoLink
     ELSE IF \E d \in Deleted(n) : Present(d) /\ kernel[m].master = kernel[d].index
     THEN [kernel[m] EXCEPT !.master = 0]
     ELSE kernel[m]]

(* RTM_NEWLINK on a VXLAN: a multicast group is joined on the device.        *)
Refused(link) == link.type = "vxlan" /\ link.group = "multicast" /\ link.device = 0

(* A reference to an index that no link has is refused as well.              *)
Applicable(link) ==
  /\ ~Refused(link)
  /\ \A i \in {link.master, link.device} : i = 0 \/ HasIndex(i)

(* The names of the links that differ, which netlink events tell of.         *)
Changed(before, after) == {n \in Name : before[n] # after[n]}
=============================================================================
