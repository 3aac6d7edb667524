----------------------------- MODULE MCDisplay ------------------------------
(* Two windows of two characters.                                          *)
EXTENDS Display

Sizes == <<2, 2>>
=============================================================================
