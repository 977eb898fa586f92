----------------------------- MODULE MCBrowser -----------------------------
(***************************************************************************)
(* A small instance of Browser.                                            *)
(***************************************************************************)
EXTENDS Browser, TLC

\* One game is over, the other is not.
MCDecided == [l \in Label |-> IF l = "a" THEN 2 ELSE 0]
=============================================================================
