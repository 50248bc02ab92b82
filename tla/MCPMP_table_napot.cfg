SPECIFICATION Spec
CONSTANTS
    PMP_ACTIVE_NUM = 2
    WORD_BITS = 6
    PmpAddrValues = {0, 1, 2, 3, 4, 5, 6, 7}
    AddrModes = {"OFF", "NAPOT"}
    PermSets <- MC_PermSets
    LockBits = {0, 1}
    TableBits = {0}
    RootTable <- MC_RootTable
    LeafTable <- MC_LeafTable
    Accesses <- MC_ShortAccesses
    AccessTypes = {"READ", "WRITE"}
    Contexts <- MC_RegionContexts
INVARIANT
    PmpTableDeciderIsFirstMatch
