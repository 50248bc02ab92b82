SPECIFICATION Spec
CONSTANTS
    PMP_ACTIVE_NUM = 2
    WORD_BITS = 6
    PmpAddrValues = {3}
    AddrModes = {"OFF", "NAPOT"}
    PermSets <- MC_PermSets
    LockBits = {0, 1}
    TableBits = {1}
    RootTable <- MC_RootTableFirstValid
    LeafTable <- MC_LeafTable
    Accesses <- MC_LowByteAccesses
    AccessTypes = {"READ", "WRITE"}
    Contexts <- MC_RegionContexts
INVARIANT
    PmpTableGrantMatchesSpec
