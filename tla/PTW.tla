-------------------------------- MODULE PTW --------------------------------
(***************************************************************************)
(* The page-table walker of the NEMU riscv64 core (system/mmu.c): ptw, the *)
(* G-stage walk gpa_stage and the leaf predicate check_permission, in the  *)
(* CONFIG_RVH build with Sv39 and Sv39x4.  A step is one call of ptw for   *)
(* an access; it leaves the translation (or the exception it raised) in    *)
(* last and updates the global pt_level as the code does.  The page        *)
(* tables are a constant memory of PTEs; the hart's context (mode, V,      *)
(* MPRV/MPP/MPV, SUM/MXR, hstatus.SPVP, hld_st, hlvx, the atp modes) is    *)
(* fixed per behaviour, chosen in Init from Contexts.  After a translation *)
(* the physical access path runs the sub-page bitmap check on the result, *)
(* which reads pt_level.                                                   *)
(***************************************************************************)
EXTENDS Integers

CONSTANTS
    PteMem,        \* PTEs in physical memory by byte address (others read 0)
    SATP_PPN,      \* satp.PPN
    VSATP_PPN,     \* vsatp.PPN
    HGATP_PPN,     \* hgatp.PPN
    VAs,           \* virtual addresses accessed
    AccessTypes,   \* MEM_TYPE_IFETCH / READ / WRITE
    Contexts,      \* hart contexts ptw can run in
    CONFIG_SHARE,  \* A/D bits handled by raising a page fault in check_permission
    MBMC,          \* mbmc.BME and mbmc.CMODE (CONFIG_RV_MBMC)
    BitmapSet      \* page numbers whose isolation bit is set in the bitmap

MODE_U == 0
MODE_S == 1
MODE_M == 3

PGSHFT == 12
PAGE_SIZE == 2^PGSHFT
PTE_SIZE == 8

\* Status codes live in the page-offset bits of ptw's result.
MEM_RET_OK == 0
MEM_RET_FAIL == 1

VARIABLES
    mem,        \* physical memory holding the PTEs (ptw reads, never writes)
    ctx,        \* the hart context of this behaviour
    pt_level,   \* static pt_level of mmu.c
    last        \* the last ptw call: va, type and its outcome

vars == <<mem, ctx, pt_level, last>>

-----------------------------------------------------------------------------
(* PTE fields and address arithmetic.                                      *)

PTE0 == [v |-> 0, r |-> 0, w |-> 0, x |-> 0, u |-> 0, a |-> 0, d |-> 0, ppn |-> 0]

\* paddr_read / pte_read of an 8-byte PTE.
PteAt(addr) == IF addr \in DOMAIN mem THEN mem[addr] ELSE PTE0

VPNiSHFT(i) == PGSHFT + 9 * i
VPNi(va, i) == (va \div 2^VPNiSHFT(i)) % 512
GVPNi(va, i) == IF i = 2 THEN (va \div 2^VPNiSHFT(i)) % 2048 ELSE VPNi(va, i)
PGBASE(pn) == pn * PAGE_SIZE

\* x & ~PAGE_MASK
PageOf(x) == (x \div PAGE_SIZE) * PAGE_SIZE

\* (pg_base & ~pg_mask) | (va & pg_mask & ~PGMASK) for an aligned pg_base.
Splice(base, va, level) == base + (va % 2^VPNiSHFT(level)) - (va % PAGE_SIZE)

IsPointer(pte) == pte.v = 1 /\ pte.r = 0 /\ pte.w = 0 /\ pte.x = 0
IsInvalid(pte) == pte.v = 0 \/ (pte.r = 0 /\ pte.w = 1)

\* Outcomes of a translation.
OK(a)    == [kind |-> "ok", val |-> a]
FAIL     == [kind |-> "fail", val |-> MEM_RET_FAIL]
PF       == [kind |-> "pf", val |-> 0]
GPF(gpa) == [kind |-> "gpf", val |-> gpa]

-----------------------------------------------------------------------------
(* gpa_stage: the G-stage walk (Sv39x4).                                   *)

\* The leaf's R/W/X test of the G-stage walk.
GLeafDenied(pte, type, c) ==
    IF type = "IFETCH" \/ c.hlvx THEN pte.x = 0
    ELSE IF type = "READ" THEN pte.r = 0 /\ ~(c.mxr = 1 /\ pte.x = 1)
    ELSE ~(pte.r = 1 /\ pte.w = 1)

RECURSIVE GWalk(_, _, _, _, _)
GWalk(gpaddr, type, c, level, pg_base) ==
    LET pte  == PteAt(pg_base + GVPNi(gpaddr, level) * PTE_SIZE)
        base == PGBASE(pte.ppn)
    IN  CASE IsPointer(pte) ->
                IF level - 1 < 0 THEN GPF(gpaddr)
                ELSE GWalk(gpaddr, type, c, level - 1, base)
          [] IsInvalid(pte)                     -> GPF(gpaddr)
          [] pte.u = 0                          -> GPF(gpaddr)
          [] GLeafDenied(pte, type, c)          -> GPF(gpaddr)
          [] level > 0 /\ base % 2^VPNiSHFT(level) # 0 -> FAIL
          [] OTHER -> OK(base + (gpaddr % 2^VPNiSHFT(level)))

\* Sv39x4 rejects a guest-physical address of 41 bits or more.
gpa_stage(gpaddr, type, c) ==
    IF c.hgatp = 0 THEN OK(gpaddr)
    ELSE IF gpaddr \div 2^30 >= 2^11 THEN GPF(gpaddr)
    ELSE GWalk(gpaddr, type, c, 2, PGBASE(HGATP_PPN))

-----------------------------------------------------------------------------
(* check_permission and ptw.                                               *)

\* TRUE when the leaf grants the access; FALSE means the page fault is raised.
check_permission(pte, ok, type, virt, mode, c) ==
    LET okv == /\ ok /\ pte.v = 1
               /\ ~(mode = MODE_U /\ pte.u = 0)
               /\ ~(pte.u = 1 /\ mode = MODE_S
                    /\ ((IF virt THEN c.vsum ELSE c.sum) = 0 \/ type = "IFETCH"))
        can_load  == IF c.hlvx THEN pte.x = 1
                     ELSE pte.r = 1 \/ ((c.mxr = 1 \/ (c.vmxr = 1 /\ virt)) /\ pte.x = 1)
        update_ad == CONFIG_SHARE /\ (pte.a = 0 \/ (type = "WRITE" /\ pte.d = 0))
    IN  /\ okv /\ ~update_ad
        /\ CASE type = "IFETCH" -> pte.x = 1
             [] type = "READ"   -> can_load
             [] OTHER           -> pte.w = 1

\* ptw's effective virtualisation and privilege for an access.
PtwCtx(type, c) ==
    LET mprvMode == IF type # "IFETCH" /\ c.mprv = 1 THEN c.mpp ELSE c.mode
        mprvVirt == IF type # "IFETCH" /\ c.mprv = 1
                    THEN c.mpv = 1 /\ c.mpp # MODE_M ELSE c.v = 1
    IN  IF type # "IFETCH" /\ c.hld THEN [virt |-> TRUE, mode |-> c.spvp]
        ELSE [virt |-> mprvVirt, mode |-> mprvMode]

(* The first-stage loop from level down: the leaf and its level, "bad", or *)
(* the guest-page fault of a PTE address.  Under V, each PTE address goes  *)
(* through gpa_stage, and MEM_RET_FAIL is then read as an address.         *)
RECURSIVE Walk(_, _, _, _, _, _)
Walk(va, type, c, virt, level, pg_base) ==
    LET gp == pg_base + VPNi(va, level) * PTE_SIZE
        tr == IF virt THEN gpa_stage(gp, type, c) ELSE OK(gp)
    IN  IF tr.kind = "gpf" THEN tr
        ELSE LET pte == PteAt(tr.val)
             IN  CASE IsInvalid(pte)             -> [kind |-> "bad"]
                   [] pte.r = 1 \/ pte.x = 1     ->
                         [kind |-> "leaf", pte |-> pte, level |-> level]
                   [] level - 1 < 0              -> [kind |-> "bad"]
                   [] OTHER -> Walk(va, type, c, virt, level - 1, PGBASE(pte.ppn))

\* Mutant: a misaligned first-stage superpage is not detected.
ptw_no_align(va, type, c) ==
    LET cx == PtwCtx(type, c)
        w  == Walk(va, type, c, cx.virt, 2,
                   PGBASE(IF cx.virt THEN VSATP_PPN ELSE SATP_PPN))
    IN  IF cx.virt /\ c.vsatp = 0
        THEN LET g == gpa_stage(va, type, c)
             IN  IF g.kind = "gpf" THEN g ELSE OK(PageOf(g.val))
        ELSE CASE w.kind = "gpf" -> w
               [] w.kind = "bad" -> PF
               [] ~check_permission(w.pte, TRUE, type, cx.virt, cx.mode, c) -> PF
               [] OTHER ->
                    LET gpa == Splice(PGBASE(w.pte.ppn), va, w.level)
                        fin == IF cx.virt THEN gpa_stage(gpa + (va % PAGE_SIZE), type, c)
                               ELSE OK(gpa)
                        pg  == IF cx.virt THEN PageOf(fin.val) ELSE gpa
                    IN  CASE fin.kind = "gpf" -> fin
                          [] cx.virt /\ pg = MEM_RET_FAIL -> FAIL
                          [] ~CONFIG_SHARE /\ (w.pte.a = 0 \/ (type = "WRITE" /\ w.pte.d = 0)) -> PF
                          [] OTHER -> OK(pg)

(* ptw's outcome: OK(page base), a page fault (raised by check_permission  *)
(* or by the A/D path), or a guest-page fault (raised by gpa_stage).       *)
ptw(va, type, c) ==
    LET cx == PtwCtx(type, c)
        w  == Walk(va, type, c, cx.virt, 2,
                   PGBASE(IF cx.virt THEN VSATP_PPN ELSE SATP_PPN))
    IN  IF cx.virt /\ c.vsatp = 0
        THEN LET g == gpa_stage(va, type, c)
             IN  IF g.kind = "gpf" THEN g ELSE OK(PageOf(g.val))
        ELSE CASE w.kind = "gpf" -> w
               [] w.kind = "bad" -> PF
               [] ~check_permission(w.pte, TRUE, type, cx.virt, cx.mode, c) -> PF
               [] w.level > 0 /\ PGBASE(w.pte.ppn) % 2^VPNiSHFT(w.level) # 0 -> PF
               [] OTHER ->
                    LET gpa == Splice(PGBASE(w.pte.ppn), va, w.level)
                        fin == IF cx.virt THEN gpa_stage(gpa + (va % PAGE_SIZE), type, c)
                               ELSE OK(gpa)
                        pg  == IF cx.virt THEN PageOf(fin.val) ELSE gpa
                    IN  CASE fin.kind = "gpf" -> fin
                          [] cx.virt /\ pg = MEM_RET_FAIL -> FAIL
                          [] ~CONFIG_SHARE /\ (w.pte.a = 0 \/ (type = "WRITE" /\ w.pte.d = 0)) -> PF
                          [] OTHER -> OK(pg)

\* Mutant: pt_level counts levels from one.
PtwPtLevel_from_one(va, type, c) ==
    LET cx == PtwCtx(type, c)
        w  == Walk(va, type, c, cx.virt, 2,
                   PGBASE(IF cx.virt THEN VSATP_PPN ELSE SATP_PPN))
        granted    == w.kind = "leaf" /\ check_permission(w.pte, TRUE, type, cx.virt, cx.mode, c)
        misaligned == w.level > 0 /\ PGBASE(w.pte.ppn) % 2^VPNiSHFT(w.level) # 0
    IN  CASE cx.virt /\ c.vsatp = 0                -> 0
          [] granted /\ (~cx.virt \/ misaligned)    -> w.level + 1
          [] cx.virt                                -> 0
          [] OTHER                                  -> pt_level

\* Mutant: ptw never records the leaf's level (the stale value is kept).
PtwPtLevel_stale(va, type, c) == pt_level

(* pt_level after ptw: every gpa_stage call clears it, and ptw sets it to  *)
(* the leaf's level once check_permission has passed.  Under V the final   *)
(* gpa_stage clears it again, unless the superpage is misaligned and ptw   *)
(* goes to "bad" first; a walk under V has called gpa_stage at least once. *)
PtwPtLevel(va, type, c) ==
    LET cx == PtwCtx(type, c)
        w  == Walk(va, type, c, cx.virt, 2,
                   PGBASE(IF cx.virt THEN VSATP_PPN ELSE SATP_PPN))
        granted    == w.kind = "leaf" /\ check_permission(w.pte, TRUE, type, cx.virt, cx.mode, c)
        misaligned == w.level > 0 /\ PGBASE(w.pte.ppn) % 2^VPNiSHFT(w.level) # 0
    IN  CASE cx.virt /\ c.vsatp = 0                -> 0
          [] granted /\ (~cx.virt \/ misaligned)    -> w.level
          [] cx.virt                                -> 0
          [] OTHER                                  -> pt_level

-----------------------------------------------------------------------------
(* The sub-page bitmap check.  bitmap_read of byte ppn / 8 at mbmc.BMA and *)
(* bit ppn % 8 is abstracted to membership of ppn in BitmapSet.            *)

\* Mutant: the page number is not shifted back to a 4 KiB page index.
isa_bmc_check_permission_unscaled(addr, lvl) ==
    \/ MBMC.BME = 0
    \/ MBMC.CMODE = 1
    \/ (addr \div PAGE_SIZE) \div 2^(9 * lvl) \notin BitmapSet

\* TRUE grants the access: the check is off, the hart is in the secure
\* mode, or the bit of the page number at level lvl is clear.
isa_bmc_check_permission(addr, lvl) ==
    \/ MBMC.BME = 0
    \/ MBMC.CMODE = 1
    \/ ((addr \div PAGE_SIZE) \div 2^(9 * lvl)) * 2^(9 * lvl) \notin BitmapSet

-----------------------------------------------------------------------------
(* The walk as a step.                                                     *)

NoCall == [va |-> 0, type |-> "NONE", res |-> OK(0), bmc |-> TRUE]

(* ptw runs when isa_mmu_check returns MMU_TRANSLATE.  It reads h_mmu_state *)
(* for a guest fetch and for an HLV/HSV, ifetch_mmu_state for another      *)
(* fetch, and data_mmu_state (satp alone) for every other access, guest    *)
(* data accesses included.  update_h_mmu_state_internal(false) and the     *)
(* data state take MPRV into account; the fetch state does not.            *)
PtwCalled(type, c) ==
    LET dm == IF c.mprv = 1 THEN c.mpp ELSE c.mode
    IN  CASE type = "IFETCH" /\ c.v = 1 -> dm < MODE_M /\ (c.vsatp = 8 \/ c.hgatp = 8)
          [] type = "IFETCH"            -> c.mode < MODE_M /\ c.satp = 8
          [] c.hld                      -> dm < MODE_M /\ (c.vsatp = 8 \/ c.hgatp = 8)
          [] OTHER                      -> dm < MODE_M /\ c.satp = 8

\* An HLV/HSV is a data access and HLVX a read; the access reaches ptw.
Translates(type, c) ==
    /\ ~(c.hld /\ type = "IFETCH")
    /\ c.hlvx => type = "READ"
    /\ PtwCalled(type, c)

Init ==
    /\ mem = PteMem
    /\ ctx \in Contexts
    /\ pt_level = 0
    /\ last = NoCall

(* One call of ptw: an HLV/HSV access is a data access, HLVX a read.  A   *)
(* translated access then goes through the bitmap check, with pt_level as *)
(* ptw left it.                                                            *)
Translate(va, type) ==
    LET res == ptw(va, type, ctx)
        lvl == PtwPtLevel(va, type, ctx)
    IN  /\ Translates(type, ctx)
        /\ last' = [va |-> va, type |-> type, res |-> res,
                    bmc |-> res.kind # "ok" \/ isa_bmc_check_permission(res.val, lvl)]
        /\ pt_level' = lvl
        /\ UNCHANGED <<mem, ctx>>

Next == \E va \in VAs, type \in AccessTypes : Translate(va, type)

Spec == Init /\ [][Next]_vars

-----------------------------------------------------------------------------
(***************************************************************************)
(* Reference: translation as the design describes it (spec 4.1-4.3).  A    *)
(* leaf is found by descending through pointers; a walk that ends on an    *)
(* invalid entry or a pointer at level 0 faults; the leaf must grant the   *)
(* access and a superpage must be aligned, else a fault.  Under V every    *)
(* table address and the result go through the G-stage, whose accesses    *)
(* are user-level (the leaf needs U) and whose rejections are guest-page   *)
(* faults carrying the guest-physical address.                             *)
(***************************************************************************)

Aligned(pte, level) == PGBASE(pte.ppn) % 2^VPNiSHFT(level) = 0

MapThrough(pte, level, a) == PGBASE(pte.ppn) + (a % 2^VPNiSHFT(level))

\* The R/W/X rule of 4.1: fetch needs X, store W, HLVX X, a load R or MXR+X.
RefAccessBit(pte, type, mxr, c) ==
    CASE type = "IFETCH" -> pte.x = 1
      [] type = "WRITE"  -> pte.w = 1
      [] c.hlvx          -> pte.x = 1
      [] OTHER           -> pte.r = 1 \/ (mxr /\ pte.x = 1)

RECURSIVE RefGLeaf(_, _, _)
RefGLeaf(gpa, level, table) ==
    LET pte == PteAt(table + GVPNi(gpa, level) * PTE_SIZE)
    IN  IF IsPointer(pte) /\ level > 0
        THEN RefGLeaf(gpa, level - 1, PGBASE(pte.ppn))
        ELSE [pte |-> pte, level |-> level]

RefG(gpa, type, c) ==
    LET l == RefGLeaf(gpa, 2, PGBASE(HGATP_PPN))
    IN  CASE c.hgatp = 0 -> OK(gpa)
          [] /\ gpa \div 2^30 < 2^11
             /\ ~IsInvalid(l.pte) /\ ~IsPointer(l.pte) /\ l.pte.u = 1
             /\ RefAccessBit(l.pte, type, c.mxr = 1, c)
             /\ Aligned(l.pte, l.level) -> OK(MapThrough(l.pte, l.level, gpa))
          [] OTHER -> GPF(gpa)

RECURSIVE RefLeaf(_, _, _, _, _, _)
RefLeaf(va, type, c, virt, level, table) ==
    LET at  == table + VPNi(va, level) * PTE_SIZE
        g   == IF virt THEN RefG(at, type, c) ELSE OK(at)
        pte == PteAt(g.val)
    IN  CASE g.kind = "gpf"              -> g
          [] IsPointer(pte) /\ level > 0 -> RefLeaf(va, type, c, virt, level - 1, PGBASE(pte.ppn))
          [] OTHER -> [kind |-> "leaf", pte |-> pte, level |-> level]

\* 4.1: valid; U mode needs U; a U page from S needs SUM (the guest's under
\* V) and no fetch; the access bit; stale A/D fault only when software-managed.
RefPermits(pte, type, virt, mode, c) ==
    /\ pte.v = 1
    /\ mode = MODE_U => pte.u = 1
    /\ pte.u = 1 /\ mode = MODE_S =>
          /\ (IF virt THEN c.vsum ELSE c.sum) = 1
          /\ type # "IFETCH"
    /\ RefAccessBit(pte, type, c.mxr = 1 \/ (virt /\ c.vmxr = 1), c)
    /\ CONFIG_SHARE => pte.a = 1 /\ (type = "WRITE" => pte.d = 1)

GuestToHost(gpa, type, c) ==
    LET g == RefG(gpa, type, c) IN IF g.kind = "gpf" THEN g ELSE OK(PageOf(g.val))

RefTranslate(va, type, c) ==
    LET cx == PtwCtx(type, c)
        l  == RefLeaf(va, type, c, cx.virt, 2,
                      PGBASE(IF cx.virt THEN VSATP_PPN ELSE SATP_PPN))
    IN  CASE cx.virt /\ c.vsatp = 0 -> GuestToHost(va, type, c)
          [] l.kind = "gpf" -> l
          [] \/ IsInvalid(l.pte) \/ IsPointer(l.pte)
             \/ ~RefPermits(l.pte, type, cx.virt, cx.mode, c)
             \/ ~Aligned(l.pte, l.level) -> PF
          [] cx.virt -> GuestToHost(MapThrough(l.pte, l.level, va), type, c)
          [] OTHER   -> OK(PageOf(MapThrough(l.pte, l.level, va)))

-----------------------------------------------------------------------------
(* Properties.                                                             *)

Outcomes == [kind : {"ok", "fail", "pf", "gpf"}, val : Nat]

\* mem and ctx are fixed by Init; the type of what ptw writes.
TypeOK ==
    /\ pt_level \in 0..2
    /\ last \in [va : VAs \cup {0}, type : AccessTypes \cup {"NONE"}, res : Outcomes,
                 bmc : BOOLEAN]

(* Every ptw call, in every context (MPRV, HLV/HLVX, V with either stage  *)
(* bare), ends in the page or the fault the design's two-stage           *)
(* translation gives: same physical page, same fault kind, and for a      *)
(* guest-page fault the same guest-physical address.                     *)
PtwMatchesReference ==
    last # NoCall => last.res = RefTranslate(last.va, last.type, ctx)

\* The first 4 KiB page of the region the reference leaf maps.
RefRegionPage(va, type, c) ==
    LET l   == RefLeaf(va, type, c, FALSE, 2, PGBASE(SATP_PPN)).level
        ppn == RefTranslate(va, type, c).val \div PAGE_SIZE
    IN  (ppn \div 2^(9 * l)) * 2^(9 * l)

(* The bitmap check that follows a translation outside V reads pt_level, *)
(* a global that ptw sets after check_permission and that survives from   *)
(* one call to the next: it must be the level of the leaf that mapped this *)
(* access, so that an isolated page, or a superpage whose first page is    *)
(* isolated, is denied and nothing else is.  (Under V gpa_stage clears     *)
(* pt_level; the design names no single level for two stages.)             *)
BitmapGatesResolvedPage ==
    last # NoCall /\ last.res.kind = "ok" /\ ~PtwCtx(last.type, ctx).virt =>
        (last.bmc <=> \/ MBMC.BME = 0 \/ MBMC.CMODE = 1
                      \/ RefRegionPage(last.va, last.type, ctx) \notin BitmapSet)

=============================================================================
