-------------------------- MODULE MCMeshSupervisor --------------------------
(* One or two nodes; every interval a tick or two.                          *)
EXTENDS MeshSupervisor
=============================================================================
