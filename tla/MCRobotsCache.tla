--------------------------- MODULE MCRobotsCache ---------------------------
(***************************************************************************)
(* p and q ask for keys of their own, v and w for one they share.          *)
(***************************************************************************)
EXTENDS RobotsCache

CONSTANTS p, q, v, w

AsksFor == [c \in Calls |-> CASE c = p -> "p" [] c = q -> "q" [] OTHER -> "shared"]
Origins == {"p", "q", "shared"}
=============================================================================
