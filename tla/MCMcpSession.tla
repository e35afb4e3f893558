---------------------------- MODULE MCMcpSession -----------------------------
(* A small instance of McpSession.                                         *)
EXTENDS McpSession
==============================================================================
