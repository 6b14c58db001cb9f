-------------------------- MODULE MCServerSupervisor --------------------------
(* ServerSupervisor with one instance and two clients.                       *)
EXTENDS ServerSupervisor
===============================================================================
