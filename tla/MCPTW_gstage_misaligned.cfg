CONSTANTS
    PteMem <- MC_PteMemMisaligned
    SATP_PPN = 1
    VSATP_PPN = 1
    HGATP_PPN = 16
    VAs <- MC_VAs
    AccessTypes = {"IFETCH", "READ", "WRITE"}
    Contexts <- MC_Contexts
    CONFIG_SHARE = TRUE
    MBMC <- MC_MBMC
    BitmapSet <- MC_BitmapSet
SPECIFICATION Spec
INVARIANTS
    PtwMatchesReference
