----------------------------- MODULE MCNodeRepair -----------------------------
(* Instances of NodeRepair for TLC.                                          *)
EXTENDS NodeRepair

CONSTANTS eth, br, vx        \* Links, and links of the node

Names == {eth, br, vx}

Ref(l, opt, down) == [to |-> l, optional |-> opt, setDown |-> down]

Uplink ==
  [name |-> eth, kind |-> "unmanaged", mtu |-> 0, params |-> 0, group |-> "none",
   learning |-> FALSE, master |-> NoRef, device |-> NoRef]

Bridge == [Uplink EXCEPT !.name = br, !.kind = "bridge", !.mtu = 2]

VXLAN(group, master, device) ==
  [Uplink EXCEPT !.name = vx, !.kind = "vxlan", !.params = 1, !.group = group,
                 !.master = master, !.device = device]

Node(s) == [l \in Names |-> IF l = eth THEN Uplink ELSE IF l = br THEN Bridge ELSE s]

Uplinked == [NoLink EXCEPT !.index = 1, !.type = "other", !.up = TRUE, !.mtu = 1]

Leftover ==
  [NoLink EXCEPT !.index = 2, !.type = "vxlan", !.mtu = 1, !.params = 2, !.device = 1,
                 !.group = "inet6"]

(* The uplink alone, or with a leftover in the place of the VXLAN.           *)
Bare == [n \in Names |-> IF n = eth THEN Uplinked ELSE NoLink]
Used == [Bare EXCEPT ![vx] = Leftover]

(* A VXLAN that needs its device, for a multicast group, and one that needs  *)
(* its bridge and is given its device later.                                 *)
Two ==
  {[spec |-> Node(VXLAN("multicast", Ref(br, TRUE, TRUE), Ref(eth, FALSE, FALSE))),
    listed |-> Names, kernel |-> Used],
   [spec |-> Node([VXLAN("unicast", Ref(br, FALSE, TRUE), Ref(eth, TRUE, TRUE)) EXCEPT
                     !.learning = TRUE, !.mtu = 1]),
    listed |-> {vx}, kernel |-> Bare]}

(* A VXLAN for a multicast group that may do without its device, on a node   *)
(* that does not have it.                                                    *)
OptionalDevice ==
  {[spec |-> Node(VXLAN("multicast", NoRef, Ref(eth, TRUE, FALSE))),
    listed |-> {vx}, kernel |-> Bare]}

(* What others do to the links.                                              *)
Elsewhere ==
  [n \in Names |-> IF n = vx THEN {[Leftover EXCEPT !.device = 0, !.group = "none"]}
                   ELSE {Uplinked}]

Some == {<<"up", FALSE>>, <<"device", 0>>}
=============================================================================
