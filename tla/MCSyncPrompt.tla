---------------------------- MODULE MCSyncPrompt ----------------------------
(* SyncPrompt on small sets of requests, operators and processes. *)
EXTENDS SyncPrompt, TLC

CONSTANTS proxy, cli, mcp, local_op, cli_op, bulk_op

\* An operator answers through the proxy's own Store, the bulk answer comes from
\* the MCP server.
LocalAndBulkHome == local_op :> proxy @@ bulk_op :> mcp

\* The documented in-process bulk answer.
InProcessBulkHome == local_op :> proxy @@ cli_op :> cli @@ bulk_op :> proxy

\* The shipped commands: nobody answers in the proxy's process.
RemoteHome == cli_op :> cli @@ bulk_op :> mcp
=============================================================================
