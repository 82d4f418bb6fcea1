-------------------------- MODULE MCMcpConnection --------------------------
(* Small instances of McpConnection.                                         *)
EXTENDS McpConnection, TLC

CONSTANTS n1, n2

(* A server that replaces its tool, by one that another plugin may register  *)
(* as well, or adds that one to it.                                          *)
First1 == {n1}
Catalogs == {{n1}, {n2}, {n1, n2}}
=============================================================================
