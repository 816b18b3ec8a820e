---------------------------- MODULE MCQueryService ----------------------------
(* An application and an agent over a pool of one connection.                 *)
EXTENDS QueryService

CONSTANTS p, g
=============================================================================
