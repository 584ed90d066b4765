------------------------------ MODULE MCTcpMesh ------------------------------
(***************************************************************************)
(* TcpMesh for TLC: two ranks, started in any order, with two tasks each   *)
(* that share two calls.  A payload of one byte and an empty one, which    *)
(* the accept loop may take for the ranks 1 and 0.                         *)
(***************************************************************************)
EXTENDS TcpMesh

MCTwoTasks == {"a", "b"}
MCSizes == {0, 1}
==============================================================================
