SPECIFICATION Spec
CONSTANTS
    h1 = h1
    h2 = h2
    p1 = p1
    j1 = j1
    NoStack = NoStack
    Hosts = {h1, h2}
    NeedsSudo = {h1}
    Stacks = {p1}
    OnPortainer = {p1}
    JobIds = {j1}
    StackJobId <- OneId
    StackHost <- OnH1
INVARIANTS SchedulesKept RebootAfterSuccess 
