---------------------------- MODULE MCHttpParse ----------------------------
(***************************************************************************)
(* HttpParse over all methods and the URL lengths around the ends of the   *)
(* chunks.                                                                 *)
(***************************************************************************)
EXTENDS HttpParse

MCUrlLen == 0 .. 34 \union 192 .. 198 \union 255 .. 257

\* A request line that ends the packet (HTTP/1.0), one with a header, a long one.
MCRest == {12, 30, 300}
MCLongRest == {30}
=============================================================================
