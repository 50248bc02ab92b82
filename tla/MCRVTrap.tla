------------------------------ MODULE MCRVTrap ------------------------------
(* Model-checking instance of RVTrap: one load path, the breakpoint, the  *)
(* misaligned-load, page-fault and guest-page-fault causes, and one timer  *)
(* interrupt per level, so that every delegation target is reached.        *)
EXTENDS RVTrap

MC_UserPc == 64
MC_MTVEC == 256          \* direct mode
MC_STVEC == 129          \* base 128, vectored
MC_VSTVEC == 193         \* base 192, vectored
MC_Instr == 7
MC_FaultVA == {8}
MC_FaultGPA == {16}
MC_Exceptions == {EX.BP, EX.LAM, EX.SAM, EX.LPF, EX.LGPF}

\* One aligned and one misaligned doubleword address.
MC_DataVA == {8, 12}
MC_AccessLens == {8}
MC_Irqs == {IRQ.STIP, IRQ.VSTIP, IRQ.MTIP}
MC_AccessTypes == {"READ"}

\* A hypervisor that hands guest traps to the guest, and one that keeps
\* guest page faults and the guest timer for itself.
MC_DelegConfigs ==
    {[medeleg |-> {EX.BP, EX.LAM, EX.LPF, EX.LGPF}, mideleg |-> {IRQ.STIP, IRQ.VSTIP},
      hedeleg |-> {EX.BP, EX.LAM, EX.LPF}, hideleg |-> {IRQ.VSTIP}],
     [medeleg |-> {EX.LPF, EX.LGPF}, mideleg |-> {IRQ.VSTIP},
      hedeleg |-> {EX.BP}, hideleg |-> {}]}

(* Bound on the length of the behaviours explored: every step is one event *)
(* of the hart, and MaxSteps of them reach nested traps (a guest fault     *)
(* taken in HS, an sret back into the guest, a second trap from there).    *)
MaxSteps == 6

(* The injector lets an access through at the fifth forced attempt: from   *)
(* reset that takes a satp write, an mret to U, four forced faults and the *)
(* release.  Behaviours go on to ReleaseSteps only when they end there.    *)
ReleaseSteps == 7

StepBound ==
    \/ event.n <= MaxSteps
    \/ /\ event.n <= ReleaseSteps
       /\ \E t \in AccessTypes : Released(pf_rec, t) \/ Released(gpf_rec, t)

=============================================================================
