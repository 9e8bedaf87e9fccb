--------------------------- MODULE MCEndpoint2Pod ---------------------------
(***************************************************************************)
(* Instances of Endpoint2Pod for TLC: two services over two addresses.     *)
(***************************************************************************)
EXTENDS Endpoint2Pod, TLC

CONSTANTS sa, sb, i1, i2, p1, p2, p3

MCService == {sa, sb}
MCIp == {i1, i2}
MCIpOf == (i1 :> <<10, 244, 1, 2>>) @@ (i2 :> <<10, 244, 1, 3>>)
MCPort == {80}
MCPod == {p1, p2, p3}

En(ip, pod) == [ep |-> <<ip, 80>>, pod |-> pod, local |-> TRUE]
Remote(ip, pod) == [ep |-> <<ip, 80>>, pod |-> pod, local |-> FALSE]

\* A service exchanges its address for one the other service lists too, and one
\* object has an address without a TargetRef.
MCMoving ==
    (sa :> {{En(i1, p1)}, {En(i2, p2)}})
    @@ (sb :> {{En(i2, None), Remote(i1, p1)}, {En(i2, p3)}})

\* One pod behind two services.
MCShared ==
    (sa :> {{En(i1, p1)}, {En(i1, p1), En(i2, p2)}})
    @@ (sb :> {{En(i1, p1)}})
=============================================================================
