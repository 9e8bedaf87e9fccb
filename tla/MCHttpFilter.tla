---------------------------- MODULE MCHttpFilter ----------------------------
(***************************************************************************)
(* Instances of HttpFilter for TLC: two clients of one pod's server.       *)
(***************************************************************************)
EXTENDS HttpFilterPairing, TLC

CONSTANTS cl1, cl2, srv

MCSock == {cl1, cl2, srv}
MCSockIp == (cl1 :> <<10, 244, 1, 2>>) @@ (cl2 :> <<10, 244, 1, 3>>)
            @@ (srv :> <<10, 244, 1, 9>>)
MCConn == {[src |-> cl1, dst |-> srv], [src |-> cl2, dst |-> srv]}
MCOneConn == {[src |-> cl1, dst |-> srv]}

\* CPUs and elements are interchangeable.
MCSymmetry == Permutations(CPU) \union Permutations(Elem)
=============================================================================
