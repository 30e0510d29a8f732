------------------------ MODULE MCNodeLinksReconciler ------------------------
(* Instances of NodeLinksReconciler for TLC.                                 *)
EXTENDS NodeLinksReconciler

CONSTANTS br, vx, eth,   \* Links
          nb, nv         \* netlink names

Ref(l, opt) == [to |-> l, optional |-> opt, setDown |-> TRUE, role |-> "master"]

Bridge(mtu) == [name |-> nb, managed |-> TRUE, mtu |-> mtu, refs |-> {}]
VXLAN(refs) == [name |-> nv, managed |-> TRUE, mtu |-> 1, refs |-> refs]
Foreign(x)  == [name |-> x, managed |-> FALSE, mtu |-> 0, refs |-> {}]

(* A bridge whose MTU changes and a VXLAN that needs it.                     *)
BridgeAndVXLAN ==
  [l \in {br, vx} |-> IF l = br THEN {Bridge(1), Bridge(2)}
                                ELSE {VXLAN({Ref(br, FALSE)})}]

(* A VXLAN that needs the bridge or may do without it, or has it as both its *)
(* master and its device, which no graph can be built for.                   *)
OptionalBridge ==
  [l \in {br, vx} |->
     IF l = br THEN {Bridge(1)}
     ELSE {VXLAN({Ref(br, FALSE)}), VXLAN({Ref(br, TRUE)}),
           VXLAN({Ref(br, FALSE), [Ref(br, FALSE) EXCEPT !.role = "device"]})}]

(* Names in dispute: an unmanaged Link for the name of a VXLAN or for another *)
(* one, and a bridge with the name of the VXLAN, which needs one of the two.  *)
SharedNames ==
  [l \in {br, vx, eth} |->
     CASE l = br  -> {[Bridge(1) EXCEPT !.name = nv]}
       [] l = vx  -> {VXLAN({Ref(br, FALSE)}), VXLAN({Ref(eth, FALSE)})}
       [] l = eth -> {Foreign(nv), Foreign(nb)}]

(* One spec for each Link.                                                   *)
Fixed == [l \in {br, vx} |-> IF l = br THEN {Bridge(1)} ELSE {VXLAN({Ref(br, FALSE)})}]
=============================================================================
