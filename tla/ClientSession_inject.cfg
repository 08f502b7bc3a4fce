\* The client sends an unknown command whose name holds CR LF; CmdParse
\* echoes it in "ERR unknown command '%s'".
CONSTANTS
    b1 = b1
    b2 = b2
    None = None
    Requests <- MCInjectRequests
    MaxReqs = 2
    Replies <- MCReplies
    CmdTable <- MCCmdTable
    PingCmd <- MCPing
    Registry <- MCRegistry
    DefaultIndex <- MCDefault
SPECIFICATION Spec
INVARIANTS RepliesAnswerRequests
