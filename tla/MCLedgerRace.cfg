CONSTANTS
    t1 = t1
    t2 = t2
    w1 = w1
    w2 = w2
    Tenants = {t1}
    Writers = {w1, w2}
    WriterTenant <- MCRaceWriterTenant
    Actions = {ToolCall, Deploy}
    Payloads = {Null, P1}
    MaxBlocks = 3
    NoBlock = NoBlock
SPECIFICATION Spec
INVARIANTS
    IntactChains
