---------------------------- MODULE MCHoverProxy ----------------------------
(* Two hovers at positions of their own, or one.                           *)
EXTENDS HoverProxy

MCPos == [h \in {"h1", "h2"} |-> IF h = "h1" THEN "p1" ELSE "p2"]
MCPos1 == [h \in {"h1"} |-> "p1"]

\* The initial build has succeeded, or failed.
MCBuilt  == {{"p1", "simple"}}
MCBuilt1 == {{}}
=============================================================================
