-------------------------- MODULE MCVoidConversion --------------------------
EXTENDS VoidConversion

CONSTANTS c1

OneTask == <<{<<>>}>>
Anytime == [v \in Nodes |-> [after |-> {}, inner |-> {}]]
=============================================================================
