CONSTANTS
    t1 = t1
    w1 = w1
    Tenants = {t1}
    Writers = {w1}
    WriterTenant <- MCWriterTenant
    Actions = {ToolCall, Deploy}
    Payloads = {Null, P1}
    MaxBlocks = 3
    MaxTampers = 2
    NoBlock = NoBlock
SPECIFICATION TSpec
PROPERTIES
    VerifyAgreesWithReference
    OkProvesSealedBlocks
