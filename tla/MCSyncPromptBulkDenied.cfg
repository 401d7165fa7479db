\* The shipped deployment: every answer comes from another process.
\*
\* A bulk answer in the proxy's process (Operators = {local_op, cli_op} and
\* Home <- InProcessBulkHome) makes these INVARIANTs fail, one at a time:
\* WokenAsRecorded ListingShowsBlocked
SPECIFICATION PromptSpec
CONSTANTS
    Blocked = {r1}
    proxy = proxy
    cli = cli
    mcp = mcp
    local_op = local_op
    cli_op = cli_op
    bulk_op = bulk_op
    Operators = {cli_op}
    BulkOperators = {bulk_op}
    Processes = {proxy, cli, mcp}
    Proxy = proxy
    Home <- RemoteHome
    BulkChoices = {"session", "none"}
    TimeoutAllows = TRUE
    MaxRestarts = 1
INVARIANTS DenyIsMeant
CHECK_DEADLOCK FALSE
