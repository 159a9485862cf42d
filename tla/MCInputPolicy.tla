---------------------------- MODULE MCInputPolicy ----------------------------
(***************************************************************************)
(* Up to three inputs, of every kind that startInput tells apart.          *)
(***************************************************************************)
EXTENDS InputPolicy
=============================================================================
