SPECIFICATION FairSpec
CONSTANTS
    Stmts = {s1, s2}
    NoStmt = NoStmt
    CloseCmd = CloseCmd
    MailboxSize = 2
    Unlimited = {s2}
INVARIANT LaneInv
PROPERTIES LegalTransitions CancelSettles CloseCompletes
CHECK_DEADLOCK FALSE
