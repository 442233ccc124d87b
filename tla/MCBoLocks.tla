----------------------------- MODULE MCBoLocks -----------------------------
(* Two pixmaps besides the screen and the back buffer.                     *)
EXTENDS BoLocks

MCOthers == {"mask", "glyphs"}
=============================================================================
