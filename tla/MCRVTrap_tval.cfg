CONSTANTS
    UserPc <- MC_UserPc
    MTVEC <- MC_MTVEC
    STVEC <- MC_STVEC
    VSTVEC <- MC_VSTVEC
    Instr <- MC_Instr
    FaultVA <- MC_FaultVA
    FaultGPA <- MC_FaultGPA
    Exceptions <- MC_Exceptions
    Irqs <- MC_Irqs
    AccessTypes <- MC_AccessTypes
    CONFIG_AC_SOFT = TRUE
    DataVA <- MC_DataVA
    AccessLens <- MC_AccessLens
    AmoFlags = {FALSE}
    CONFIG_SHARE = FALSE
    DelegConfigs <- MC_DelegConfigs
SPECIFICATION Spec
CONSTRAINT StepBound
INVARIANT TrapValueRecorded
