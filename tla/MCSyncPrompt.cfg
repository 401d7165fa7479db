\* Two requests; an operator in the process of the proxy, a bulk answer from the
\* MCP server, one restart; allow on timeout.
SPECIFICATION FairSpec
CONSTANTS
    Blocked = {r1, r2}
    proxy = proxy
    cli = cli
    mcp = mcp
    local_op = local_op
    cli_op = cli_op
    bulk_op = bulk_op
    Operators = {local_op}
    BulkOperators = {bulk_op}
    Processes = {proxy, mcp}
    Proxy = proxy
    Home <- LocalAndBulkHome
    BulkChoices = {"session", "none"}
    TimeoutAllows = TRUE
    MaxRestarts = 1
INVARIANTS AllowIsPermitted NoLostWake NoWaiterLeak
PROPERTIES KeepsPromise EveryWaitEnds
CHECK_DEADLOCK FALSE
