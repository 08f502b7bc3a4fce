\* Two requests of every kind, every backend outcome, replies of every
\* shape; texts without CR or LF.
CONSTANTS
    b1 = b1
    b2 = b2
    None = None
    Requests <- MCRequests
    MaxReqs = 2
    Replies <- MCReplies
    CmdTable <- MCCmdTable
    PingCmd <- MCPing
    Registry <- MCRegistry
    DefaultIndex <- MCDefault
SPECIFICATION Spec
INVARIANTS TypeOK RepliesAnswerRequests ReplyFramesPreserved
PROPERTIES AllAnswered RequestsServedInTurn
