---------------------------- MODULE MCAnswering ----------------------------
(* Two documents with a parent chunk each: one of two children, and one of   *)
(* two in another section, the second beginning like the first of all.       *)
EXTENDS Answering

Document == [a |-> "d1", b |-> "d1", c |-> "d2", e |-> "d2"]
Parent == [a |-> "p1", b |-> "p1", c |-> "p2", e |-> "p2"]
Section == [a |-> "s1", b |-> "s1", c |-> "s2", e |-> "s2"]
Prefix == [a |-> "x", b |-> "y", c |-> "z", e |-> "x"]
=============================================================================
