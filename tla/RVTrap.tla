------------------------------- MODULE RVTrap -------------------------------
(***************************************************************************)
(* Trap delegation engine of the NEMU riscv64 core (system/intr.c), in the *)
(* hypervisor build (CONFIG_RVH), together with the fault raisers of       *)
(* system/mmu.c that write a trap value and then longjmp into raise_intr,  *)
(* and the MMU-state cache that raise_intr refreshes (update_mmu_state).   *)
(*                                                                         *)
(* One step of the model is one instruction-level event of the hart: an    *)
(* exception raised by an instruction or a translation, an interrupt taken *)
(* by the execution loop, or an environment event (xRET, a CSR write, a    *)
(* platform interrupt line changing).  Data is abstracted: addresses are   *)
(* small numbers, cause numbers are the architectural ones.                *)
(***************************************************************************)
EXTENDS Naturals, FiniteSets, Sequences

CONSTANTS
    UserPc,        \* pc of the interrupted program
    MTVEC,         \* mtvec CSR value: base | mode (bit 0 = vectored)
    STVEC,         \* stvec CSR value
    VSTVEC,        \* vstvec CSR value
    Instr,         \* instruction bits recorded for an illegal instruction
    FaultVA,       \* virtual addresses a translation may fault on
    FaultGPA,      \* guest-physical addresses a G-stage walk may fault on
    Exceptions,    \* exception cause numbers exercised
    Irqs,          \* interrupt numbers exercised
    AccessTypes,   \* memory access types exercised
    CONFIG_SHARE,  \* build flag: A/D faults raised by check_permission
    CONFIG_AC_SOFT,\* build flag: misaligned data accesses trap
    DataVA,        \* virtual addresses of data accesses checked for alignment
    AccessLens,    \* access lengths in bytes
    AmoFlags,      \* values of cpu.amo at a data access
    DelegConfigs   \* medeleg/mideleg/hedeleg/hideleg values explored

-----------------------------------------------------------------------------
(* Architectural constants (isa-def.h, trapinfo.h, memory/vaddr.h).        *)

MODE_U == 0
MODE_S == 1
MODE_M == 3

EX == [II |-> 2, BP |-> 3, LAM |-> 4, SAM |-> 6, IPF |-> 12, LPF |-> 13, SPF |-> 15,
       IGPF |-> 20, LGPF |-> 21, VI |-> 22, SGPF |-> 23]
IRQ == [SSIP |-> 1, VSSIP |-> 2, MSIP |-> 3, STIP |-> 5, VSTIP |-> 6,
        MTIP |-> 7, SEIP |-> 9, VSEIP |-> 10, MEIP |-> 11, SGEI |-> 12,
        USIP |-> 0, UTIP |-> 4, UEIP |-> 8]

MMU_DIRECT == "direct"
MMU_TRANSLATE == "translate"

\* A cause value: the INTR_BIT (bit 63) and the cause code.
Cause(i, c) == [intr |-> i, code |-> c]
Exc(c) == Cause(FALSE, c)

PageFaults  == {EX.IPF, EX.LPF, EX.SPF}
GuestFaults == {EX.IGPF, EX.LGPF, EX.SGPF}

VARIABLES
    mode,      \* cpu.mode
    v,         \* cpu.v, the virtualisation flag
    ms,        \* mstatus fields read or written here
    hs,        \* hstatus fields
    vss,       \* vsstatus fields
    cause,     \* [m, s, vs] -> mcause, scause, vscause
    epc,       \* [m, s, vs] -> mepc, sepc, vsepc
    tval,      \* mtval, mtval2, stval, htval, vstval
    atp,       \* translation modes of satp, vsatp, hgatp
    mmu,       \* ifetch_mmu_state, data_mmu_state, h_mmu_state
    deleg,     \* medeleg, mideleg, hedeleg, hideleg
    mip,       \* pending interrupts
    mie,       \* individually enabled interrupts
    pc,        \* next pc of the hart
    pf_rec,    \* force_raise_pf_record's last_addr[] and force_count[]
    gpf_rec,   \* force_raise_gpf_record's g_last_addr[] and g_force_count[]
    event      \* history: what the last step did (for the properties)

vars == <<mode, v, ms, hs, vss, cause, epc, tval, atp, mmu, deleg, mip, mie,
          pc, pf_rec, gpf_rec, event>>

-----------------------------------------------------------------------------
(* Delegation (intr.c intr_deleg_S / intr_deleg_VS).                       *)

\* Mutant: delegation that forgets the cpu.mode < MODE_M condition.
intr_deleg_S_any_mode(NO) ==
    NO.code \in (IF NO.intr THEN deleg.mideleg ELSE deleg.medeleg)

intr_deleg_S(NO) ==
    /\ NO.code \in (IF NO.intr THEN deleg.mideleg ELSE deleg.medeleg)
    /\ mode < MODE_M

\* Mutant: VS delegation that forgets the cpu.v condition.
intr_deleg_VS_any_v(NO) ==
    /\ intr_deleg_S(NO)
    /\ NO.code \in (IF NO.intr THEN deleg.hideleg ELSE deleg.hedeleg)
    /\ mode < MODE_M

intr_deleg_VS(NO) ==
    /\ intr_deleg_S(NO)
    /\ v = 1
    /\ NO.code \in (IF NO.intr THEN deleg.hideleg ELSE deleg.hedeleg)
    /\ mode < MODE_M

\* Trap vector of a level: vectored interrupts jump to base + 4 * cause.
get_trap_pc(xtvec, xcause) ==
    LET base == (xtvec \div 4) * 4
    IN  IF xcause.intr /\ xtvec % 2 = 1 THEN base + 4 * (xcause.code % 256)
                                        ELSE base

(* MMU-state cache (mmu.c update_mmu_state and its helpers), as functions  *)
(* of the CSRs so that an action can apply them to the primed state.       *)
MmuMode(md, st, ifetch) == IF st.mprv = 1 /\ ~ifetch THEN st.mpp ELSE md

update_mmu_state_internal(md, st, a, ifetch) ==
    IF MmuMode(md, st, ifetch) < MODE_M /\ a.satp = 8
    THEN MMU_TRANSLATE ELSE MMU_DIRECT

update_h_mmu_state_internal(md, st, a) ==
    IF MmuMode(md, st, FALSE) < MODE_M /\ (a.vsatp = 8 \/ a.hgatp = 8)
    THEN MMU_TRANSLATE ELSE MMU_DIRECT

MmuStates(md, st, a) ==
    [ifetch |-> update_mmu_state_internal(md, st, a, TRUE),
     data   |-> update_mmu_state_internal(md, st, a, FALSE),
     h      |-> update_h_mmu_state_internal(md, st, a)]

\* Mutant: the cache refreshed from the privilege the hart had before the step.
update_mmu_state_old_mode == mmu' = MmuStates(mode, ms', atp')

\* update_mmu_state() applied after the step's other writes.
update_mmu_state == mmu' = MmuStates(mode', ms', atp')

(* isa_mmu_check's choice between the direct and the translating path      *)
(* for an access with a canonical address.                                 *)
MmuCheckState(type, hld) ==
    CASE v = 1 /\ type = "IFETCH" -> mmu.h
      [] type = "IFETCH"          -> mmu.ifetch
      [] hld                      -> mmu.h
      [] OTHER                    -> mmu.data

\* ptw's effective privilege and virtualisation for an access.
PtwContext(type, hld) ==
    LET mprvMode == IF type # "IFETCH" /\ ms.mprv = 1 THEN ms.mpp ELSE mode
        mprvVirt == IF type # "IFETCH" /\ ms.mprv = 1
                    THEN ms.mpv = 1 /\ ms.mpp # MODE_M ELSE v = 1
    IN  IF type # "IFETCH" /\ hld THEN [virt |-> TRUE, mode |-> hs.spvp]
                                   ELSE [virt |-> mprvVirt, mode |-> mprvMode]

-----------------------------------------------------------------------------
(* raise_intr (intr.c): the three targets.  t1 is the trap-value record as *)
(* the raiser left it before the longjmp; hld is hld_st at entry.          *)

\* GVA: the trap value is a guest virtual address.
GvaBit(NO, hld) ==
    LET vv == IF ms.mprv = 1 THEN ms.mpv ELSE v
    IN  IF ~NO.intr /\ (NO.code \in GuestFaults
                        \/ ((vv = 1 \/ hld) /\ ((NO.code <= 7 /\ NO.code # 2)
                                                \/ NO.code \in PageFaults)))
        THEN 1 ELSE 0

VSCause(NO) == IF NO.intr THEN Cause(TRUE, NO.code - 1) ELSE NO

\* The trap-value switch of each branch, by cause.
IsMemFault(NO) == ~NO.intr /\ NO.code \in PageFaults \cup {1, 4, 5, 6, 7}

TvalVS(NO, t1) ==
    CASE IsMemFault(NO)      -> t1
      [] NO = Exc(EX.BP)     -> [t1 EXCEPT !.vstval = pc]
      [] NO = Exc(EX.II)     -> [t1 EXCEPT !.vstval = Instr]
      [] OTHER               -> [t1 EXCEPT !.vstval = 0]

\* Mutant: the breakpoint case forgets to clear htval.
TvalHS_bp_keeps_htval(NO, t1) ==
    CASE IsMemFault(NO)                      -> [t1 EXCEPT !.htval = 0]
      [] ~NO.intr /\ NO.code \in GuestFaults -> t1
      [] NO \in {Exc(EX.II), Exc(EX.VI)}     -> [t1 EXCEPT !.stval = Instr, !.htval = 0]
      [] NO = Exc(EX.BP)                     -> [t1 EXCEPT !.stval = pc]
      [] OTHER                               -> [t1 EXCEPT !.stval = 0, !.htval = 0]

TvalHS(NO, t1) ==
    CASE IsMemFault(NO)                      -> [t1 EXCEPT !.htval = 0]
      [] ~NO.intr /\ NO.code \in GuestFaults -> t1
      [] NO \in {Exc(EX.II), Exc(EX.VI)}     -> [t1 EXCEPT !.stval = Instr, !.htval = 0]
      [] NO = Exc(EX.BP)                     -> [t1 EXCEPT !.htval = 0, !.stval = pc]
      [] OTHER                               -> [t1 EXCEPT !.stval = 0, !.htval = 0]

TvalM(NO, t1) ==
    CASE IsMemFault(NO)                      -> [t1 EXCEPT !.mtval2 = 0]
      [] ~NO.intr /\ NO.code \in GuestFaults -> t1
      [] NO \in {Exc(EX.II), Exc(EX.VI)}     -> [t1 EXCEPT !.mtval = Instr, !.mtval2 = 0]
      [] NO = Exc(EX.BP)                     -> [t1 EXCEPT !.mtval = pc]
      [] OTHER                               -> [t1 EXCEPT !.mtval = 0, !.mtval2 = 0]

\* Mutant: the VS vector is computed from the unshifted cause number.
TrapVS_vector_unshifted(NO, t1, hld) ==
    /\ cause' = [cause EXCEPT !.vs = VSCause(NO)]
    /\ epc' = [epc EXCEPT !.vs = pc]
    /\ vss' = [spp |-> mode, spie |-> vss.sie, sie |-> 0]
    /\ tval' = TvalVS(NO, t1)
    /\ v' = 1
    /\ mode' = MODE_S
    /\ pc' = get_trap_pc(VSTVEC, NO)
    /\ UNCHANGED <<ms, hs>>
    /\ update_mmu_state

TrapVS(NO, t1, hld) ==
    /\ cause' = [cause EXCEPT !.vs = VSCause(NO)]
    /\ epc' = [epc EXCEPT !.vs = pc]
    /\ vss' = [spp |-> mode, spie |-> vss.sie, sie |-> 0]
    /\ tval' = TvalVS(NO, t1)
    /\ v' = 1
    /\ mode' = MODE_S
    /\ pc' = get_trap_pc(VSTVEC, VSCause(NO))
    /\ UNCHANGED <<ms, hs>>
    /\ update_mmu_state

\* Mutant: hstatus.SPV recorded after cpu.v has been cleared.
HstatusOnTrap_spv_late(NO, hld) ==
    [gva |-> GvaBit(NO, hld), spv |-> 0, spvp |-> IF v = 1 THEN mode ELSE hs.spvp]

\* hstatus as raise_intr's HS branch leaves it.
HstatusOnTrap(NO, hld) ==
    [gva |-> GvaBit(NO, hld), spv |-> v, spvp |-> IF v = 1 THEN mode ELSE hs.spvp]

TrapHS(NO, t1, hld) ==
    /\ hs' = HstatusOnTrap(NO, hld)
    /\ v' = 0
    /\ cause' = [cause EXCEPT !.s = NO]
    /\ epc' = [epc EXCEPT !.s = pc]
    /\ ms' = [ms EXCEPT !.spp = mode, !.spie = ms.sie, !.sie = 0]
    /\ tval' = TvalHS(NO, t1)
    /\ mode' = MODE_S
    /\ pc' = get_trap_pc(STVEC, NO)
    /\ UNCHANGED vss
    /\ update_mmu_state

TrapM(NO, t1, hld) ==
    /\ ms' = [ms EXCEPT !.gva = GvaBit(NO, hld), !.mpv = v,
                        !.mpp = mode, !.mpie = ms.mie, !.mie = 0]
    /\ v' = 0
    /\ cause' = [cause EXCEPT !.m = NO]
    /\ epc' = [epc EXCEPT !.m = pc]
    /\ tval' = TvalM(NO, t1)
    /\ mode' = MODE_M
    /\ pc' = get_trap_pc(MTVEC, NO)
    /\ UNCHANGED <<hs, vss>>
    /\ update_mmu_state

raise_intr(NO, t1, hld) ==
    \/ intr_deleg_VS(NO) /\ TrapVS(NO, t1, hld)
    \/ ~intr_deleg_VS(NO) /\ intr_deleg_S(NO) /\ TrapHS(NO, t1, hld)
    \/ ~intr_deleg_VS(NO) /\ ~intr_deleg_S(NO) /\ TrapM(NO, t1, hld)


-----------------------------------------------------------------------------
(* Fault raisers: each writes its trap value, then longjmps into the       *)
(* execution loop, which calls raise_intr with the same cause.             *)

(* The history variable event numbers the steps of a behaviour (n) and    *)
(* records whether the faulting access or instruction ran in guest         *)
(* context (virt).                                                         *)
TrapEvent(NO, va, gpa, virt) ==
    [kind |-> "trap", cause |-> NO, va |-> va, gpa |-> gpa, virt |-> virt,
     n |-> event.n + 1]
EnvEvent == [kind |-> "env", cause |-> Exc(0), va |-> 0, gpa |-> 0, virt |-> FALSE,
             n |-> event.n + 1]

\* Trap-value register of the level the exception will be delegated to.
INTR_TVAL_REG(ex) ==
    IF intr_deleg_VS(ex) THEN "vstval"
    ELSE IF intr_deleg_S(ex) THEN "stval" ELSE "mtval"

PFCause(type)  == CASE type = "IFETCH" -> EX.IPF [] type = "READ" -> EX.LPF
                       [] OTHER -> EX.SPF
GPFCause(type) == CASE type = "IFETCH" -> EX.IGPF [] type = "READ" -> EX.LGPF
                       [] OTHER -> EX.SGPF

\* hld_st is set only while a hypervisor load executes (outside guest mode).
HldChoices(type) == IF type = "READ" /\ v = 0 THEN BOOLEAN ELSE {FALSE}

\* The access goes through ptw, and ptw walks a first-stage table.
Stage1Walks(type, hld) ==
    /\ MmuCheckState(type, hld) = MMU_TRANSLATE
    /\ IF PtwContext(type, hld).virt THEN atp.vsatp = 8 ELSE atp.satp = 8

\* The access goes through ptw, and gpa_stage walks the G-stage table.
GStageWalks(type, hld) ==
    /\ MmuCheckState(type, hld) = MMU_TRANSLATE
    /\ PtwContext(type, hld).virt
    /\ atp.hgatp = 8

Unchanged_Env == UNCHANGED <<atp, deleg, mip, mie, pf_rec, gpf_rec>>

\* An instruction raises an exception that carries no address.
RaiseInstrException(c) ==
    /\ Unchanged_Env
    /\ raise_intr(Exc(c), tval, FALSE)
    /\ event' = TrapEvent(Exc(c), 0, 0, v = 1)

\* check_permission rejects the leaf (or ptw reaches "bad").
RaisePageFault(type, va, hld) ==
    LET ex == Exc(PFCause(type))
    IN  /\ Unchanged_Env
        /\ Stage1Walks(type, hld)
        /\ raise_intr(ex, [tval EXCEPT ![INTR_TVAL_REG(ex)] = va], hld)
        /\ event' = TrapEvent(ex, va, 0, PtwContext(type, hld).virt)

\* A clear accessed (or dirty) bit: without CONFIG_SHARE, ptw raises the
\* page fault itself, choosing the trap-value register by cpu.v.
RaiseADFault(type, va, hld) ==
    LET ex  == Exc(PFCause(type))
        reg == IF ~CONFIG_SHARE /\ v = 1
               THEN IF intr_deleg_S(ex) THEN "vstval" ELSE "mtval"
               ELSE INTR_TVAL_REG(ex)
    IN  /\ Unchanged_Env
        /\ Stage1Walks(type, hld)
        /\ raise_intr(ex, [tval EXCEPT ![reg] = va], hld)
        /\ event' = TrapEvent(ex, va, 0, PtwContext(type, hld).virt)

\* isa_mmu_check finds the high bits of va are not a sign extension.
RaiseNonCanonical(type, va, hld) ==
    LET md        == IF ms.mprv = 1 /\ type # "IFETCH" THEN ms.mpp ELSE mode
        vm_enable == /\ md < MODE_M
                     /\ \/ atp.satp = 8
                        \/ v = 1 /\ (atp.vsatp = 8 \/ atp.hgatp = 8)
        gpf       == v = 1 /\ atp.vsatp = 0
        ex        == IF hld \/ gpf THEN Exc(GPFCause(type)) ELSE Exc(PFCause(type))
        t1        == CASE hld \/ gpf ->
                            IF intr_deleg_S(ex)
                            THEN [tval EXCEPT !.stval = va, !.htval = va \div 4]
                            ELSE [tval EXCEPT !.mtval = va, !.mtval2 = va \div 4]
                       [] v = 1 ->
                            IF intr_deleg_S(ex) THEN [tval EXCEPT !.vstval = va]
                                                ELSE [tval EXCEPT !.mtval = va]
                       [] OTHER -> [tval EXCEPT ![INTR_TVAL_REG(ex)] = va]
    IN  /\ Unchanged_Env
        /\ vm_enable
        /\ raise_intr(ex, t1, hld)
        /\ event' = TrapEvent(ex, va, IF hld \/ gpf THEN va ELSE 0,
                                   PtwContext(type, hld).virt)

(* isa_misalign_data_addr_check, the first step of isa_mmu_check for a     *)
(* data access: under CONFIG_AC_SOFT an address that is not a multiple of  *)
(* the length raises a store (for a store or an AMO) or load address-      *)
(* misaligned exception, before the canonical check and any walk, with the *)
(* address in INTR_TVAL_REG (INTR_TVAL_SV48_SEXT keeps small addresses).   *)
RaiseMisaligned(type, va, len, amo, hld) ==
    LET ex == Exc(IF amo \/ type = "WRITE" THEN EX.SAM ELSE EX.LAM)
    IN  /\ type # "IFETCH"
        /\ va % len # 0
        /\ CONFIG_AC_SOFT
        /\ Unchanged_Env
        /\ raise_intr(ex, [tval EXCEPT ![INTR_TVAL_REG(ex)] = va], hld)
        /\ event' = TrapEvent(ex, va, 0, PtwContext(type, hld).virt)

-----------------------------------------------------------------------------
(* The forced-exception injector (force_raise_pf / force_raise_gpf), run   *)
(* by isa_mmu_translate after ptw has translated the access, under guided *)
(* execution.  The execution guide's exception number is an input of the  *)
(* step; its trap values are the reference model's, which for a forced   *)
(* fault are the access's address and guest-physical address.  Neither    *)
(* injector looks at the access's virtualisation: the guide alone decides. *)

ForceRec0 == [last |-> [t \in AccessTypes |-> 0], count |-> [t \in AccessTypes |-> 0]]

\* force_raise_pf_record / force_raise_gpf_record: the count restarts when
\* the address changes.
ForceRecord(rec, va, type) ==
    LET n == IF va # rec.last[type] THEN 0 ELSE rec.count[type]
    IN  [last |-> [rec.last EXCEPT ![type] = va],
         count |-> [rec.count EXCEPT ![type] = n + 1]]

\* The fifth forced attempt in a row at one address is let through.
Released(rec, type) == rec.count[type] = 5

\* The guide asks for the page fault of this access: it is raised.
ForceRaisePF(type, va, hld) ==
    LET ex == Exc(PFCause(type))
        r  == ForceRecord(pf_rec, va, type)
    IN  /\ MmuCheckState(type, hld) = MMU_TRANSLATE
        /\ ~Released(r, type)
        /\ pf_rec' = r
        /\ UNCHANGED <<atp, deleg, mip, mie, gpf_rec>>
        /\ raise_intr(ex, [tval EXCEPT ![INTR_TVAL_REG(ex)] = va], hld)
        /\ event' = TrapEvent(ex, va, 0, PtwContext(type, hld).virt)

\* Its trap values: a fetch picks stval/htval or mtval/mtval2 itself; a
\* load writes INTR_TVAL_REG(EX_LGPF) and both htval and mtval2; a store
\* writes INTR_TVAL_REG(EX_SPF) and both.
ForceGpfTval(type, va, gpa) ==
    LET ex == Exc(GPFCause(type))
    IN  CASE type = "IFETCH" ->
               IF intr_deleg_S(ex)
               THEN [tval EXCEPT !.stval = va, !.htval = gpa \div 4]
               ELSE [tval EXCEPT !.mtval = va, !.mtval2 = gpa \div 4]
          [] type = "READ" ->
               [tval EXCEPT ![INTR_TVAL_REG(ex)] = va, !.htval = gpa \div 4,
                            !.mtval2 = gpa \div 4]
          [] OTHER ->
               [tval EXCEPT ![INTR_TVAL_REG(Exc(EX.SPF))] = va,
                            !.htval = gpa \div 4, !.mtval2 = gpa \div 4]

\* The guide asks for the guest-page fault of this access: force_raise_pf
\* returns MEM_RET_OK without counting, force_raise_gpf raises it.
ForceRaiseGPF(type, va, gpa, hld) ==
    LET ex == Exc(GPFCause(type))
        r  == ForceRecord(gpf_rec, va, type)
    IN  /\ MmuCheckState(type, hld) = MMU_TRANSLATE
        /\ ~Released(r, type)
        /\ gpf_rec' = r
        /\ UNCHANGED <<atp, deleg, mip, mie, pf_rec>>
        /\ raise_intr(ex, ForceGpfTval(type, va, gpa), hld)
        /\ event' = TrapEvent(ex, va, gpa, PtwContext(type, hld).virt)

\* The fifth attempt: the injector returns MEM_RET_OK and the access
\* completes with ptw's translation; only the count changes.
ForceRelease(type, va, hld, guest) ==
    LET r == ForceRecord(IF guest THEN gpf_rec ELSE pf_rec, va, type)
    IN  /\ MmuCheckState(type, hld) = MMU_TRANSLATE
        /\ Released(r, type)
        /\ IF guest THEN gpf_rec' = r /\ UNCHANGED pf_rec
                    ELSE pf_rec' = r /\ UNCHANGED gpf_rec
        /\ event' = EnvEvent
        /\ UNCHANGED <<mode, v, ms, hs, vss, cause, epc, tval, atp, mmu, deleg,
                       mip, mie, pc>>

(* gpa_stage rejects a guest-physical address: raise_guest_excep.  Under  *)
(* guided execution with a forced page fault (guided), it first calls      *)
(* force_raise_pf, which raises that page fault unless this is the fifth   *)
(* attempt; only then are the guest-page fault's trap values written.      *)
RaiseGuestPageFault(type, va, gpa, hld, guided) ==
    LET ex == Exc(GPFCause(type))
        t1 == IF intr_deleg_S(ex)
              THEN [tval EXCEPT !.stval = va, !.htval = gpa \div 4]
              ELSE [tval EXCEPT !.mtval = va, !.mtval2 = gpa \div 4]
        r  == ForceRecord(pf_rec, va, type)
    IN  /\ GStageWalks(type, hld)
        /\ \/ guided /\ ForceRaisePF(type, va, hld)
           \/ /\ guided => Released(r, type)
              /\ pf_rec' = IF guided THEN r ELSE pf_rec
              /\ UNCHANGED <<atp, deleg, mip, mie, gpf_rec>>
              /\ raise_intr(ex, t1, hld)
              /\ event' = TrapEvent(ex, va, gpa, PtwContext(type, hld).virt)

-----------------------------------------------------------------------------
(* isa_query_intr and the execution loop taking the interrupt.             *)

INTR_EMPTY == 64

Priority == <<IRQ.MEIP, IRQ.MSIP, IRQ.MTIP, IRQ.SEIP, IRQ.SSIP, IRQ.STIP,
              IRQ.UEIP, IRQ.USIP, IRQ.UTIP, IRQ.VSEIP, IRQ.VSSIP, IRQ.VSTIP,
              IRQ.SGEI>>

\* Mutant: an HS-level interrupt taken in HS mode whatever sstatus.SIE says.
global_enable_ignores_sie(irq) ==
    LET deleg_  == irq \in deleg.mideleg
        hdeleg  == irq \in deleg.hideleg
    IN  IF hdeleg /\ deleg_
        THEN \/ v = 1 /\ mode = MODE_S /\ vss.sie = 1
             \/ v = 1 /\ mode < MODE_S
        ELSE IF deleg_
        THEN \/ mode = MODE_S
             \/ mode < MODE_S
             \/ v = 1
        ELSE \/ mode = MODE_M /\ ms.mie = 1
             \/ mode < MODE_M

\* Mutant: a VS-level interrupt is never taken while the guest runs in VU.
global_enable_vu_masked(irq) ==
    LET deleg_  == irq \in deleg.mideleg
        hdeleg  == irq \in deleg.hideleg
    IN  IF hdeleg /\ deleg_
        THEN v = 1 /\ mode = MODE_S /\ vss.sie = 1
        ELSE IF deleg_
        THEN \/ mode = MODE_S /\ ms.sie = 1
             \/ mode < MODE_S
             \/ v = 1
        ELSE \/ mode = MODE_M /\ ms.mie = 1
             \/ mode < MODE_M

global_enable(irq) ==
    LET deleg_  == irq \in deleg.mideleg
        hdeleg  == irq \in deleg.hideleg
    IN  IF hdeleg /\ deleg_
        THEN \/ v = 1 /\ mode = MODE_S /\ vss.sie = 1
             \/ v = 1 /\ mode < MODE_S
        ELSE IF deleg_
        THEN \/ mode = MODE_S /\ ms.sie = 1
             \/ mode < MODE_S
             \/ v = 1
        ELSE \/ mode = MODE_M /\ ms.mie = 1
             \/ mode < MODE_M

RECURSIVE QueryFrom(_)
QueryFrom(i) ==
    IF i > Len(Priority) THEN INTR_EMPTY
    ELSE IF Priority[i] \in mie \cap mip /\ global_enable(Priority[i])
         THEN Priority[i] ELSE QueryFrom(i + 1)

isa_query_intr == IF mie \cap mip = {} THEN INTR_EMPTY ELSE QueryFrom(1)

TakeInterrupt ==
    LET irq == isa_query_intr
    IN  /\ Unchanged_Env
        /\ irq # INTR_EMPTY
        /\ raise_intr(Cause(TRUE, irq), tval, FALSE)
        /\ event' = TrapEvent(Cause(TRUE, irq), 0, 0, FALSE)

-----------------------------------------------------------------------------
(* Environment: instructions and devices outside this core that change the *)
(* state it reads (xRET, CSR writes, interrupt lines).                     *)

Mret ==
    /\ mode = MODE_M
    /\ mode' = ms.mpp
    /\ v' = IF ms.mpp # MODE_M THEN ms.mpv ELSE 0
    /\ ms' = [ms EXCEPT !.mie = ms.mpie, !.mpie = 1, !.mpp = MODE_U, !.mpv = 0,
                        !.mprv = IF ms.mpp # MODE_M THEN 0 ELSE ms.mprv]
    /\ pc' = epc.m
    /\ event' = EnvEvent
    /\ UNCHANGED <<hs, vss, cause, epc, tval, atp, deleg, mip, mie,
                   pf_rec, gpf_rec>>
    /\ update_mmu_state

SretHS ==
    /\ mode = MODE_S /\ v = 0
    /\ mode' = ms.spp
    /\ v' = hs.spv
    /\ ms' = [ms EXCEPT !.sie = ms.spie, !.spie = 1, !.spp = MODE_U, !.mprv = 0]
    /\ hs' = [hs EXCEPT !.spv = 0]
    /\ pc' = epc.s
    /\ event' = EnvEvent
    /\ UNCHANGED <<vss, cause, epc, tval, atp, deleg, mip, mie,
                   pf_rec, gpf_rec>>
    /\ update_mmu_state

SretVS ==
    /\ mode = MODE_S /\ v = 1
    /\ mode' = vss.spp
    /\ vss' = [vss EXCEPT !.sie = vss.spie, !.spie = 1, !.spp = MODE_U]
    /\ pc' = epc.vs
    /\ event' = EnvEvent
    /\ UNCHANGED <<v, ms, hs, cause, epc, tval, atp, deleg, mip, mie,
                   pf_rec, gpf_rec>>
    /\ update_mmu_state

\* M or HS software writes satp, vsatp or hgatp.
WriteAtp(reg, m) ==
    /\ v = 0 /\ mode \in {MODE_S, MODE_M}
    /\ atp[reg] # m
    /\ atp' = [atp EXCEPT ![reg] = m]
    /\ event' = EnvEvent
    /\ UNCHANGED <<mode, v, ms, hs, vss, cause, epc, tval, deleg, mip, mie, pc,
                   pf_rec, gpf_rec>>
    /\ update_mmu_state

\* M software prepares mstatus (MPP, MPV, MPRV) before an mret.
WriteMstatus(pp, pv, prv) ==
    /\ mode = MODE_M
    /\ <<ms.mpp, ms.mpv, ms.mprv>> # <<pp, pv, prv>>
    /\ ms' = [ms EXCEPT !.mpp = pp, !.mpv = pv, !.mprv = prv]
    /\ event' = EnvEvent
    /\ UNCHANGED <<mode, v, hs, vss, cause, epc, tval, atp, deleg, mip, mie, pc,
                   pf_rec, gpf_rec>>
    /\ update_mmu_state

\* HS software prepares sstatus.SPP and hstatus.SPV before an sret.
WriteHstatus(pp, pv) ==
    /\ mode = MODE_S /\ v = 0
    /\ <<ms.spp, hs.spv>> # <<pp, pv>>
    /\ ms' = [ms EXCEPT !.spp = pp]
    /\ hs' = [hs EXCEPT !.spv = pv]
    /\ event' = EnvEvent
    /\ UNCHANGED <<mode, v, vss, cause, epc, tval, atp, mmu, deleg, mip, mie, pc,
                   pf_rec, gpf_rec>>

\* Software sets or clears the global interrupt enable of its own level.
WriteIE(b) ==
    /\ \/ mode = MODE_M /\ ms.mie # b /\ ms' = [ms EXCEPT !.mie = b] /\ UNCHANGED vss
       \/ mode = MODE_S /\ v = 0 /\ ms.sie # b /\ ms' = [ms EXCEPT !.sie = b] /\ UNCHANGED vss
       \/ mode = MODE_S /\ v = 1 /\ vss.sie # b /\ vss' = [vss EXCEPT !.sie = b] /\ UNCHANGED ms
    /\ event' = EnvEvent
    /\ UNCHANGED <<mode, v, hs, cause, epc, tval, atp, mmu, deleg, mip, mie, pc,
                   pf_rec, gpf_rec>>

\* A device raises or lowers an interrupt line: the platform_irp_* fields of
\* cpu.non_reg_interrupt_pending are set by device code outside these sources.
PlatformIrq(irq, b) ==
    /\ mip' = IF b THEN mip \cup {irq} ELSE mip \ {irq}
    /\ mip' # mip
    /\ event' = EnvEvent
    /\ UNCHANGED <<mode, v, ms, hs, vss, cause, epc, tval, atp, mmu, deleg, mie, pc,
                   pf_rec, gpf_rec>>

-----------------------------------------------------------------------------

\* Delegation values the CSRs can hold (the writable bits of each register).
MedelegValues == SUBSET Exceptions
HedelegValues == SUBSET (Exceptions \ (GuestFaults \cup {EX.VI}))
MidelegValues == {s \cup (Irqs \cap {IRQ.VSSIP, IRQ.VSTIP, IRQ.VSEIP}) :
                    s \in SUBSET (Irqs \cap {IRQ.SSIP, IRQ.STIP, IRQ.SEIP})}
HidelegValues == SUBSET (Irqs \cap {IRQ.VSSIP, IRQ.VSTIP, IRQ.VSEIP})

MStatus0 == [sie |-> 0, spie |-> 0, spp |-> MODE_U, mie |-> 0, mpie |-> 0,
             mpp |-> MODE_U, mpv |-> 0, gva |-> 0, mprv |-> 0]
Atp0 == [satp |-> 0, vsatp |-> 0, hgatp |-> 0]

ASSUME DelegConfigs \subseteq [medeleg : MedelegValues, mideleg : MidelegValues,
                               hedeleg : HedelegValues, hideleg : HidelegValues]

Init ==
    /\ mode = MODE_M
    /\ v = 0
    /\ ms = MStatus0
    /\ hs = [gva |-> 0, spv |-> 0, spvp |-> MODE_U]
    /\ vss = [sie |-> 0, spie |-> 0, spp |-> MODE_U]
    /\ cause = [m |-> Exc(0), s |-> Exc(0), vs |-> Exc(0)]
    /\ epc = [m |-> 0, s |-> 0, vs |-> 0]
    /\ tval = [mtval |-> 0, mtval2 |-> 0, stval |-> 0, htval |-> 0, vstval |-> 0]
    /\ atp = Atp0
    /\ mmu = MmuStates(MODE_M, MStatus0, Atp0)
    /\ deleg \in DelegConfigs
    /\ mip = {}
    /\ mie = Irqs
    /\ pc = UserPc
    /\ pf_rec = ForceRec0
    /\ gpf_rec = ForceRec0
    /\ event = [kind |-> "none", cause |-> Exc(0), va |-> 0, gpa |-> 0, virt |-> FALSE,
                n |-> 0]

Next ==
    \/ \E c \in Exceptions \cap {EX.BP, EX.II} : RaiseInstrException(c)
    \/ \E type \in AccessTypes, va \in FaultVA, hld \in BOOLEAN :
          hld \in HldChoices(type) /\ RaisePageFault(type, va, hld)
    \/ \E type \in AccessTypes, va \in FaultVA, hld \in BOOLEAN :
          hld \in HldChoices(type) /\ RaiseADFault(type, va, hld)
    \/ \E type \in AccessTypes, va \in FaultVA, hld \in BOOLEAN :
          hld \in HldChoices(type) /\ RaiseNonCanonical(type, va, hld)
    \/ \E type \in AccessTypes, va \in FaultVA, gpa \in FaultGPA, hld, guided \in BOOLEAN :
          hld \in HldChoices(type) /\ RaiseGuestPageFault(type, va, gpa, hld, guided)
    \/ \E type \in AccessTypes, va \in DataVA, len \in AccessLens,
                 amo \in AmoFlags, hld \in BOOLEAN :
          hld \in HldChoices(type) /\ RaiseMisaligned(type, va, len, amo, hld)
    \/ \E type \in AccessTypes, va \in FaultVA, hld \in BOOLEAN :
          hld \in HldChoices(type) /\ ForceRaisePF(type, va, hld)
    \/ \E type \in AccessTypes, va \in FaultVA, gpa \in FaultGPA, hld \in BOOLEAN :
          hld \in HldChoices(type) /\ ForceRaiseGPF(type, va, gpa, hld)
    \/ \E type \in AccessTypes, va \in FaultVA, hld \in BOOLEAN, guest \in BOOLEAN :
          hld \in HldChoices(type) /\ ForceRelease(type, va, hld, guest)
    \/ TakeInterrupt
    \/ Mret
    \/ SretHS
    \/ SretVS
    \/ \E reg \in {"satp", "vsatp", "hgatp"}, m \in {0, 8} : WriteAtp(reg, m)
    \/ \E pp \in {MODE_U, MODE_S, MODE_M}, pv, prv \in {0, 1} :
          WriteMstatus(pp, pv, prv)
    \/ \E pp \in {MODE_U, MODE_S}, pv \in {0, 1} : WriteHstatus(pp, pv)
    \/ \E b \in {0, 1} : WriteIE(b)
    \/ \E irq \in Irqs, b \in BOOLEAN : PlatformIrq(irq, b)

Spec == Init /\ [][Next]_vars

(* The execution loop calls isa_query_intr at every instruction boundary   *)
(* and raises what it returns, so an interrupt that the query keeps        *)
(* returning cannot be put off forever: TakeInterrupt is weakly fair.      *)
(* Nothing else is: software may stop issuing CSR writes or xRETs, and     *)
(* devices need not raise or lower their lines.                            *)
FairSpec == Spec /\ WF_vars(TakeInterrupt)

-----------------------------------------------------------------------------
(* Properties.                                                             *)

TypeOK ==
    /\ mode \in {MODE_U, MODE_S, MODE_M}
    /\ v \in {0, 1}
    /\ ms \in [sie : {0, 1}, spie : {0, 1}, spp : {MODE_U, MODE_S},
               mie : {0, 1}, mpie : {0, 1}, mpp : {MODE_U, MODE_S, MODE_M},
               mpv : {0, 1}, gva : {0, 1}, mprv : {0, 1}]
    /\ hs \in [gva : {0, 1}, spv : {0, 1}, spvp : {MODE_U, MODE_S}]
    /\ vss \in [sie : {0, 1}, spie : {0, 1}, spp : {MODE_U, MODE_S}]
    /\ cause \in [{"m", "s", "vs"} -> [intr : BOOLEAN, code : 0..63]]
    /\ epc \in [{"m", "s", "vs"} -> Nat]
    /\ tval \in [{"mtval", "mtval2", "stval", "htval", "vstval"} -> Nat]
    /\ atp \in [{"satp", "vsatp", "hgatp"} -> {0, 8}]
    /\ mmu \in [{"ifetch", "data", "h"} -> {MMU_DIRECT, MMU_TRANSLATE}]
    /\ mip \subseteq Irqs
    /\ pc \in Nat
    /\ pf_rec \in [last : [AccessTypes -> Nat], count : [AccessTypes -> Nat]]
    /\ gpf_rec \in [last : [AccessTypes -> Nat], count : [AccessTypes -> Nat]]

\* Privilege ranking of (mode, v): M above HS above VS above U/VU.
PrivRank(md, vv) ==
    CASE md = MODE_M             -> 3
      [] md = MODE_S /\ vv = 0   -> 2
      [] md = MODE_S /\ vv = 1   -> 1
      [] OTHER                   -> 0

TrapStep == event'.kind = "trap"

\* Where an xRET from the current level would go, read from its saved state.
ReturnPoint ==
    CASE mode = MODE_M -> <<ms.mpp, IF ms.mpp = MODE_M THEN 0 ELSE ms.mpv>>
      [] v = 0         -> <<ms.spp, hs.spv>>
      [] OTHER         -> <<vss.spp, 1>>

\* <<xPIE, xIE>> of the current level.
SavedIE ==
    CASE mode = MODE_M -> <<ms.mpie, ms.mie>>
      [] v = 0         -> <<ms.spie, ms.sie>>
      [] OTHER         -> <<vss.spie, vss.sie>>

(* raise_intr saves, in the status of the level it lands in, exactly the   *)
(* privilege, virtualisation and interrupt enable the hart had before the  *)
(* trap, and masks that level's interrupts: an xRET from the handler       *)
(* resumes the interrupted context.  Breaks if hstatus.SPV/mstatus.MPV is  *)
(* recorded after cpu.v is cleared, or a branch saves the wrong field.     *)
TrapSavesReturnContext ==
    [][TrapStep =>
         LET preIE == CASE mode' = MODE_M -> ms.mie
                        [] v' = 0         -> ms.sie
                        [] OTHER          -> vss.sie
         IN  /\ ReturnPoint' = <<mode, v>>
             /\ SavedIE' = <<preIE, 0>>]_vars

\* The cause a handler was entered with: vscause holds interrupt codes
\* shifted down by one (VSCause), every other cause register the cause.
EnteredCause(l) == IF l = "vs" /\ cause.vs.intr THEN Cause(TRUE, cause.vs.code + 1)
                   ELSE cause[l]

HL == INSTANCE HartLevels WITH
        level <- <<mode, v>>,
        saved <- [m  |-> <<ms.mpp, IF ms.mpp = MODE_M THEN 0 ELSE ms.mpv>>,
                  s  |-> <<ms.spp, hs.spv>>,
                  vs |-> <<vss.spp, 1>>],
        cause <- [l \in {"m", "s", "vs"} |-> EnteredCause(l)],
        ExcCodes <- Exceptions,
        IrqCodes <- Irqs

IrqTarget(irq) ==
    IF irq \notin deleg.mideleg THEN 3
    ELSE IF irq \notin deleg.hideleg THEN 2 ELSE 1

\* The current level accepts interrupts for the level of rank t.
Accepts(t) ==
    LET r == PrivRank(mode, v)
    IN  CASE t = 3 -> r < 3 \/ ms.mie = 1
          [] t = 2 -> r < 2 \/ (r = 2 /\ ms.sie = 1)
          [] OTHER -> v = 1 /\ (r < 1 \/ (r = 1 /\ vss.sie = 1))

Takeable(irq) == irq \in mie \cap mip /\ Accepts(IrqTarget(irq))

PrioIndex(irq) == CHOOSE k \in 1..Len(Priority) : Priority[k] = irq

(* An interrupt is taken only when it is pending, enabled and accepted by  *)
(* the current level (a lower level, or the same level with its xIE set);  *)
(* it lands at the level mideleg/hideleg assign it, and no takeable        *)
(* interrupt of higher priority was passed over.  Relates isa_query_intr's *)
(* global_enable to raise_intr's own choice of target.                     *)
InterruptTakenByPriority ==
    [][TrapStep /\ event'.cause.intr =>
         LET irq == event'.cause.code
         IN  /\ Takeable(irq)
             /\ PrivRank(mode', v') = IrqTarget(irq)
             /\ \A j \in Irqs : Takeable(j) => PrioIndex(irq) <= PrioIndex(j)]_vars

(* No interrupt stays takeable (pending, enabled and accepted by the       *)
(* current level under the architecture's rules) forever: the execution    *)
(* loop takes it, or takes one of higher priority to a level that no       *)
(* longer accepts it, or software or the device clears it.  Fails when     *)
(* isa_query_intr's global_enable turns down a case the architecture       *)
(* accepts, so the interrupt waits at every instruction boundary.          *)
TakeableInterruptServed ==
    \A irq \in Irqs : Takeable(irq) ~> ~Takeable(irq)

(* The MMU-state cache always equals what update_mmu_state would compute   *)
(* from the current mode and CSRs: no trap leaves it stale.                *)
MmuStateCoherent == mmu = MmuStates(mode, ms, atp)

\* Level the hart is in, and its trap registers.
LevelNow == CASE mode = MODE_M -> "m" [] v = 0 -> "s" [] OTHER -> "vs"
TvalOf(l) == CASE l = "m" -> tval.mtval [] l = "s" -> tval.stval [] OTHER -> tval.vstval

(* Reference for the trap vector, from the privileged architecture: the   *)
(* handler of level l starts at its tvec's BASE (the value with MODE, bits *)
(* 1:0, cleared); in Vectored mode (MODE = 1) an interrupt enters at BASE  *)
(* + 4 * the cause code that level's handler reads.  A VS-level handler    *)
(* reads VSSIP, VSTIP and VSEIP as SSIP, STIP and SEIP.                    *)
Tvec == [m |-> MTVEC, s |-> STVEC, vs |-> VSTVEC]

ArchCode(l, c) ==
    IF l = "vs" /\ c \in {IRQ.VSSIP, IRQ.VSTIP, IRQ.VSEIP}
    THEN CHOOSE sc \in {IRQ.SSIP, IRQ.STIP, IRQ.SEIP} : sc + 1 = c
    ELSE c

HandlerAddress(l, NO) ==
    LET base == Tvec[l] - (Tvec[l] % 4)
    IN  IF NO.intr /\ Tvec[l] % 4 = 1 THEN base + 4 * ArchCode(l, NO.code) ELSE base

(* Right after a trap, the hart runs at the handler address of the level   *)
(* it landed in, for the cause that was raised (the platform's interrupt   *)
(* number or the raiser's exception): raise_intr's cause write and         *)
(* get_trap_pc's vectoring together must agree with the architecture.      *)
(* Fails if a vectored VS interrupt enters vstvec at the platform number   *)
(* rather than the VS handler's code (VSTIP at 4 * 6 instead of 4 * 5).    *)
TrapEntersHandler ==
    event.kind = "trap" => pc = HandlerAddress(LevelNow, event.cause)

\* What the trap value of a trap must be, by cause.
ExpectedTval(e, l) ==
    CASE e.cause = Exc(EX.BP)                                -> epc[l]
      [] e.cause = Exc(EX.II)                                -> Instr
      [] IsMemFault(e.cause)
         \/ (~e.cause.intr /\ e.cause.code \in GuestFaults)   -> e.va
      [] OTHER                                               -> 0

ExpectedTval2(e) ==
    IF ~e.cause.intr /\ e.cause.code \in GuestFaults THEN e.gpa \div 4 ELSE 0

(* Right after a trap into HS, htval holds the guest-physical address      *)
(* (shifted right by 2) for a guest-page fault and zero for every other    *)
(* cause: raise_guest_excep writes it, raise_intr's switch clears it.      *)
HtvalMatchesTrap ==
    event.kind = "trap" /\ LevelNow = "s" => tval.htval = ExpectedTval2(event)

(* The same for mtval2 after a trap into M.                                *)
Mtval2MatchesTrap ==
    event.kind = "trap" /\ LevelNow = "m" => tval.mtval2 = ExpectedTval2(event)

(* Right after a trap, the trap-value register of the level it landed in   *)
(* holds the faulting address (page and guest-page faults), the epc        *)
(* (breakpoint), the instruction (illegal instruction) or zero: the raiser *)
(* and raise_intr pick the same level.                                     *)
TrapValueRecorded ==
    event.kind = "trap" => TvalOf(LevelNow) = ExpectedTval(event, LevelNow)

\* Would ptw walk a page table (first or G-stage) for this access?
PtwTranslates(type, hld) ==
    LET c == PtwContext(type, hld)
    IN  /\ c.mode < MODE_M
        /\ IF c.virt THEN atp.vsatp = 8 \/ atp.hgatp = 8 ELSE atp.satp = 8

(* isa_mmu_check sends an access down the translating path exactly when    *)
(* ptw, with its own reading of MPRV/MPV and hld_st, would translate it.   *)
MmuCheckAgreesWithPtw ==
    \A type \in AccessTypes : \A hld \in HldChoices(type) :
        (MmuCheckState(type, hld) = MMU_TRANSLATE) <=> PtwTranslates(type, hld)

(* Right after a trap into HS or M, hstatus.GVA (mstatus.GVA) is set       *)
(* exactly when the trap value written is a guest virtual address: the     *)
(* address of an access made in guest context (V=1, MPRV with MPV, or a    *)
(* hypervisor load) or the pc of an instruction the guest executed.        *)
(* raise_intr computes GVA from its own reading of MPRV/MPV and hld_st,    *)
(* which the raiser has already cleared.                                   *)
GvaMarksGuestAddress ==
    event.kind = "trap" /\ LevelNow # "vs" =>
        (IF LevelNow = "m" THEN ms.gva ELSE hs.gva)
            = IF ~event.cause.intr /\ event.cause # Exc(EX.II) /\ event.virt
              THEN 1 ELSE 0

=============================================================================
