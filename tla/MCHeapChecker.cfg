SPECIFICATION FairSpec
CONSTANTS
    m = m
    t2 = t2
    t3 = t3
    o1 = o1
    o2 = o2
    Threads = {m, t2, t3}
    Main = m
    Objects = {o1, o2}
    Disabled = {o1}
    Referrers <- MCReferrers
    Checkers = {m, t2}
    StackIn <- MCStackIn
    Globals = Globals
    Null = Null
    Slack = 0
INVARIANTS
    AllStopped
    IgnoredRight
    MarkedOnce
    NamesThere
PROPERTIES
    CheckEnds
CHECK_DEADLOCK FALSE
