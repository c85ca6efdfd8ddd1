------------------------------ MODULE MCAgents ------------------------------
(* Two processes that write up to three lines on stdout and none on stderr, *)
(* an event channel of one slot, a budget of two lines and one Provider     *)
(* Session id, which both processes may claim.                              *)
EXTENDS Agents

MCMaxFrames == [out |-> 3, err |-> 0]

=============================================================================
