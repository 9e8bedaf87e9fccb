---------------------------- MODULE MCAttribution ---------------------------
(***************************************************************************)
(* An instance of Attribution for TLC.                                     *)
(***************************************************************************)
EXTENDS MCEndpoint2Pod, Attribution

\* One address is given to other pods of its service, another one moves between
\* the services.
MCReused ==
    (sa :> {{En(i1, p1), En(i2, p2)}, {En(i1, p3)}}) @@ (sb :> {{En(i2, p3)}})
=============================================================================
