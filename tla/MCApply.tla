------------------------------ MODULE MCApply --------------------------------
(* A small instance of Apply for TLC: the cards of the page.               *)
EXTENDS Apply

AllCards == {"links", "resolve", "generate", "labels", "watch", "cards"}
=============================================================================
