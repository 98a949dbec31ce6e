----------------------------- MODULE MCJackLink -----------------------------
(***************************************************************************)
(* A small instance of JackLink: packets of one and of two cells.          *)
(***************************************************************************)
EXTENDS JackLink

MCBodies == {<<20>>, <<21, 22>>}
=============================================================================
