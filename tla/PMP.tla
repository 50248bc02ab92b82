-------------------------------- MODULE PMP --------------------------------
(***************************************************************************)
(* Physical memory protection of the NEMU riscv64 core (system/mmu.c):     *)
(* the region PMP check (CONFIG_RV_PMP_CHECK) and the PMP-table check      *)
(* (CONFIG_PMPTABLE_EXTENSION) of isa_pmp_check_permission, each compared  *)
(* with a reference first-match definition written from the privileged    *)
(* specification.                                                          *)
(*                                                                         *)
(* The state is the PMP CSRs, which software rewrites between accesses;    *)
(* a check is a pure function of that state and of the access, so the      *)
(* properties quantify over every access of a small address space.         *)
(* Addresses are byte addresses below 2^WORD_BITS.                         *)
(***************************************************************************)
EXTENDS Integers, FiniteSets, Bitwise

CONSTANTS
    PMP_ACTIVE_NUM,  \* CONFIG_RV_PMP_ACTIVE_NUM
    WORD_BITS,       \* width of an address word in the model
    PmpAddrValues,   \* values software writes into pmpaddr
    AddrModes,       \* pmpcfg.A values software uses
    PermSets,        \* pmpcfg R/W/X combinations software uses
    LockBits,        \* pmpcfg.L values software uses
    TableBits,       \* pmpcfg.T values software uses
    RootTable,       \* root PMP-table entries, by root index (off1)
    LeafTable,       \* leaf PMP-table bytes, by <<off1, off0, byte>>
    Accesses,        \* [addr, len] of the accesses checked
    AccessTypes,     \* MEM_TYPE_* of the accesses checked
    Contexts         \* [out_mode, mode, mprv, mpp] of the accesses checked

MODE_U == 0
MODE_S == 1
MODE_M == 3

PMP_SHIFT == 2
NONE == -1

Entries == 0..(PMP_ACTIVE_NUM - 1)

CfgValues == [a : AddrModes, perm : PermSets, l : LockBits, t : TableBits]

VARIABLES
    pmpcfg,    \* pmpcfg_from_index(i) for each active entry
    pmpaddr    \* pmpaddr_from_index(i) for each active entry

vars == <<pmpcfg, pmpaddr>>

-----------------------------------------------------------------------------
(* Word arithmetic of width WORD_BITS.                                     *)

WordMax == 2^WORD_BITS - 1
WordNot(x) == WordMax - x
Shl(x, k) == (x * 2^k) % 2^WORD_BITS

\* pmp_tor_mask() for a 4-byte grain: every pmpaddr bit is significant.
pmp_tor_mask == WordMax

IsReadType(type) == type \in {"READ", "IFETCH_READ", "WRITE_READ"}

\* Effective privilege of the check (out_mode, or MPRV/MPP for M).
PmpMode(ctx, type) ==
    IF ctx.out_mode = MODE_M
    THEN IF ctx.mprv = 1 /\ type # "IFETCH" THEN ctx.mpp ELSE ctx.mode
    ELSE ctx.out_mode

\* The R/W/X bit of a pmpcfg that the access type needs.
CfgGrants(c, type) ==
    \/ IsReadType(type) /\ "R" \in c.perm
    \/ type = "WRITE" /\ "W" \in c.perm
    \/ type = "IFETCH" /\ "X" \in c.perm

-----------------------------------------------------------------------------
(* Region PMP (isa_pmp_check_permission under CONFIG_RV_PMP_CHECK).        *)

\* The NAPOT/NA4 comparison mask: the trailing ones of (pmpaddr << 1) | 1.
NapotMask(addr, is_na4) ==
    LET m == (Shl(addr, 1) | (IF is_na4 THEN 0 ELSE 1)) | WordNot(pmp_tor_mask)
    IN  Shl(WordNot(m & WordNot((m + 1) % 2^WORD_BITS)), PMP_SHIFT)

\* The 4-byte sectors of an access the loop over offset visits.
Offsets(len) == {o \in 0..(len - 1) : o % 2^PMP_SHIFT = 0}

RegionEntryMatch(i, base, cur) ==
    LET tor == Shl(pmpaddr[i] & pmp_tor_mask, PMP_SHIFT)
    IN  IF pmpcfg[i].a = "TOR"
        THEN base <= cur /\ cur < tor
        ELSE ((cur ^^ tor) & NapotMask(pmpaddr[i], pmpcfg[i].a = "NA4")) = 0

\* Mutant: the loop never carries an entry's top into base.
RECURSIVE RegionFrom_stale_base(_, _, _, _, _)
RegionFrom_stale_base(i, base, acc, type, mode) ==
    IF i > PMP_ACTIVE_NUM - 1 THEN mode = MODE_M
    ELSE LET sectors   == {acc.addr + o : o \in Offsets(acc.len)}
             any_match == \E cur \in sectors : RegionEntryMatch(i, base, cur)
             all_match == \A cur \in sectors : RegionEntryMatch(i, base, cur)
         IN  IF pmpcfg[i].a # "OFF" /\ any_match
             THEN /\ all_match
                  /\ \/ mode = MODE_M /\ pmpcfg[i].l = 0
                     \/ CfgGrants(pmpcfg[i], type)
             ELSE RegionFrom_stale_base(i + 1, base, acc, type, mode)

\* The loop over the active entries, from entry i with the running base.
RECURSIVE RegionFrom(_, _, _, _, _)
RegionFrom(i, base, acc, type, mode) ==
    IF i > PMP_ACTIVE_NUM - 1 THEN mode = MODE_M
    ELSE LET tor       == Shl(pmpaddr[i] & pmp_tor_mask, PMP_SHIFT)
             sectors   == {acc.addr + o : o \in Offsets(acc.len)}
             any_match == \E cur \in sectors : RegionEntryMatch(i, base, cur)
             all_match == \A cur \in sectors : RegionEntryMatch(i, base, cur)
         IN  IF pmpcfg[i].a # "OFF" /\ any_match
             THEN /\ all_match
                  /\ \/ mode = MODE_M /\ pmpcfg[i].l = 0
                     \/ CfgGrants(pmpcfg[i], type)
             ELSE RegionFrom(i + 1, tor, acc, type, mode)

PmpCheckRegion(acc, type, ctx) ==
    IF PMP_ACTIVE_NUM = 0 THEN TRUE
    ELSE RegionFrom(0, 0, acc, type, PmpMode(ctx, type))

-----------------------------------------------------------------------------
(* PMP-table extension (isa_pmp_check_permission under                     *)
(* CONFIG_PMPTABLE_EXTENSION, pmp_address_match, napot_decode,             *)
(* pmpcfg_check_permission, pmptable_check_permission).                    *)

napot_decode(addr, a) ==
    LET pmpaddr_start == Shl(a & (a + 1), PMP_SHIFT)
        pmpaddr_end   == Shl(a | (a + 1), PMP_SHIFT)
    IN  pmpaddr_start <= addr /\ addr < pmpaddr_end

\* Number of the access's two ends (addr and addr + len) inside the region.
pmp_address_match(base, addr, len, a, addr_mode) ==
    LET addr_e  == addr + len
        top     == Shl(a, PMP_SHIFT)
        In(x)   == CASE addr_mode = "TOR" -> base <= x /\ x < top
                     [] addr_mode = "NA4" -> top <= x /\ x < top + 2^PMP_SHIFT
                     [] OTHER             -> napot_decode(x, a)
    IN  (IF In(addr) THEN 1 ELSE 0) + (IF In(addr_e) THEN 1 ELSE 0)

pmpcfg_check_permission(c, type, out_mode) ==
    out_mode = MODE_M \/ CfgGrants(c, type)

(* Table indices of a 64-bit offset: off1, off0 and the page index.  A     *)
(* negative offset wraps as a word_t; for |offset| < 4 KiB every index     *)
(* bit above bit 12 is one.                                                *)
TableIndex(offset) ==
    IF offset >= 0
    THEN [off1 |-> (offset \div 2^25) % 512, off0 |-> (offset \div 2^16) % 512,
          page |-> (offset \div 2^12) % 16]
    ELSE [off1 |-> 511, off0 |-> 511, page |-> 15]

\* The permission nibble's R/W/X bit that the access type needs.
NibbleGrants(perm, type) ==
    \/ IsReadType(type) /\ perm % 2 = 1
    \/ type = "WRITE" /\ (perm \div 2) % 2 = 1
    \/ type = "IFETCH" /\ (perm \div 4) % 2 = 1

pmptable_check_permission(offset, type, out_mode) ==
    LET ix       == TableIndex(offset)
        root_pte == RootTable[ix.off1]
        leaf_pte == LeafTable[<<ix.off1, ix.off0, ix.page \div 2>>]
        perm     == IF ix.page % 2 = 1 THEN leaf_pte \div 16 ELSE leaf_pte % 16
    IN  \/ out_mode = MODE_M
        \/ root_pte % 16 = 1 /\ NibbleGrants(perm, type)
        \/ root_pte % 16 # 1 /\ root_pte % 2 = 1
           /\ NibbleGrants((root_pte \div 2) % 16, type)

(* The loop over the active entries; the result names the entry that       *)
(* decided (NONE when the loop ran out), the base the loop held when it    *)
(* decided, and the answer.                                                *)
RECURSIVE TableFrom(_, _, _, _, _)
TableFrom(i, base, acc, type, out_mode) ==
    IF i > PMP_ACTIVE_NUM - 1 THEN [by |-> NONE, base |-> base, grant |-> TRUE]
    ELSE IF pmpcfg[i].a = "OFF"
    THEN TableFrom(i + 1, Shl(pmpaddr[i], PMP_SHIFT), acc, type, out_mode)
    ELSE LET c         == pmpcfg[i]
             match_ret == pmp_address_match(base, acc.addr, acc.len, pmpaddr[i], c.a)
             offset    == IF c.a = "TOR" THEN acc.addr - base
                          ELSE acc.addr - Shl(pmpaddr[i], PMP_SHIFT)
         IN  CASE match_ret = 1 -> [by |-> i, base |-> base, grant |-> FALSE]
               [] match_ret = 0 -> TableFrom(i + 1, base, acc, type, out_mode)
               [] OTHER ->
                    [by |-> i, base |-> base,
                     grant |-> IF c.t = 1
                               THEN pmptable_check_permission(offset, type, out_mode)
                               ELSE pmpcfg_check_permission(c, type, out_mode)]

PmpCheckTable(acc, type, ctx) ==
    IF PMP_ACTIVE_NUM = 0 THEN [by |-> NONE, base |-> 0, grant |-> TRUE]
    ELSE TableFrom(0, 0, acc, type, ctx.out_mode)

-----------------------------------------------------------------------------
(* Software writing the PMP CSRs (csrw pmpcfg / pmpaddr).  A locked entry  *)
(* ignores writes, and so does the pmpaddr below a locked TOR entry.       *)

CfgOff == [a |-> "OFF", perm |-> {}, l |-> 0, t |-> 0]

Init ==
    /\ pmpcfg = [i \in Entries |-> CfgOff]
    /\ pmpaddr = [i \in Entries |-> 0]

WritePmpcfg(i, c) ==
    /\ pmpcfg[i].l = 0
    /\ pmpcfg' = [pmpcfg EXCEPT ![i] = c]
    /\ UNCHANGED pmpaddr

WritePmpaddr(i, a) ==
    /\ pmpcfg[i].l = 0
    /\ ~(i + 1 \in Entries /\ pmpcfg[i + 1].l = 1 /\ pmpcfg[i + 1].a = "TOR")
    /\ pmpaddr' = [pmpaddr EXCEPT ![i] = a]
    /\ UNCHANGED pmpcfg

\* Hart reset: every entry OFF and unlocked, the only way to clear L.
ResetPmp ==
    /\ \E i \in Entries : pmpcfg[i].l = 1
    /\ pmpcfg' = [i \in Entries |-> CfgOff]
    /\ pmpaddr' = [i \in Entries |-> 0]

Next ==
    \/ \E i \in Entries, c \in CfgValues : WritePmpcfg(i, c)
    \/ \E i \in Entries, a \in PmpAddrValues : WritePmpaddr(i, a)
    \/ ResetPmp

Spec == Init /\ [][Next]_vars

-----------------------------------------------------------------------------
(* Reference: the privileged specification's PMP, over sets of bytes.      *)

RECURSIVE TrailingOnes(_)
TrailingOnes(x) == IF x % 2 = 1 THEN 1 + TrailingOnes(x \div 2) ELSE 0

\* First byte and bytes of entry i's region.
RefStart(i) ==
    CASE pmpcfg[i].a = "TOR"   -> IF i = 0 THEN 0 ELSE pmpaddr[i - 1] * 4
      [] pmpcfg[i].a = "NAPOT" ->
            LET size == 2^(TrailingOnes(pmpaddr[i]) + 3)
            IN  ((pmpaddr[i] * 4) \div size) * size
      [] OTHER                 -> pmpaddr[i] * 4

RefRange(i) ==
    CASE pmpcfg[i].a = "OFF"   -> {}
      [] pmpcfg[i].a = "TOR"   -> RefStart(i)..(pmpaddr[i] * 4 - 1)
      [] pmpcfg[i].a = "NA4"   -> RefStart(i)..(RefStart(i) + 3)
      [] OTHER                 ->
            RefStart(i)..(RefStart(i) + 2^(TrailingOnes(pmpaddr[i]) + 3) - 1)

Footprint(acc) == acc.addr..(acc.addr + acc.len - 1)

\* Every entry's region, as a function of the entry.
RefRanges == [i \in Entries |-> RefRange(i)]

\* The lowest-numbered entry whose region (in rr) holds a byte of the access.
RefFirst(acc, rr) ==
    LET hit == {i \in Entries : rr[i] \cap Footprint(acc) # {}}
    IN  IF hit = {} THEN NONE ELSE CHOOSE i \in hit : \A j \in hit : i <= j

\* Region PMP: the first entry decides, partial overlap denies, no match
\* grants M only.
RefRegionGrant(acc, type, mode, rr) ==
    LET i == RefFirst(acc, rr)
    IN  IF i = NONE THEN mode = MODE_M
        ELSE /\ Footprint(acc) \subseteq rr[i]
             /\ \/ mode = MODE_M /\ pmpcfg[i].l = 0
                \/ CfgGrants(pmpcfg[i], type)

\* PMP-table: a region with T set takes its permission from the table at
\* the access's offset within the region.
RefTableGrant(acc, type, out_mode, i) ==
    IF pmpcfg[i].t = 1
    THEN pmptable_check_permission(acc.addr - RefStart(i), type, out_mode)
    ELSE pmpcfg_check_permission(pmpcfg[i], type, out_mode)

-----------------------------------------------------------------------------
(* Properties.                                                             *)

RegionAgrees(acc, type, ctx, rr) ==
    PmpCheckRegion(acc, type, ctx) = RefRegionGrant(acc, type, PmpMode(ctx, type), rr)

(* For every naturally aligned access, the region PMP check grants exactly *)
(* what the specification's first-match rule grants: TOR ranges start at   *)
(* the previous entry's top, NAPOT/NA4 masks give the right region, a      *)
(* partial overlap denies, and M mode bypasses only unlocked entries.      *)
PmpRegionMatchesSpec ==
    LET rr == RefRanges
    IN  \A acc \in Accesses, type \in AccessTypes, ctx \in Contexts :
            acc.addr % acc.len = 0 => RegionAgrees(acc, type, ctx, rr)

(* A TOR entry that decides a PMP-table check does so with the top of the  *)
(* entry before it as its floor: the running base follows every active    *)
(* entry, matched or not.                                                  *)
PmpTableTorFloorIsPreviousTop ==
    \A acc \in Accesses, type \in AccessTypes, ctx \in Contexts :
        LET r == PmpCheckTable(acc, type, ctx)
        IN  r.by # NONE /\ pmpcfg[r.by].a = "TOR" => r.base = RefStart(r.by)

(* The PMP-table scan is decided by the first entry whose region holds a   *)
(* byte of the access, and by none when no region does.                    *)
PmpTableDeciderIsFirstMatch ==
    LET rr == RefRanges
    IN  \A acc \in Accesses, type \in AccessTypes, ctx \in Contexts :
            PmpCheckTable(acc, type, ctx).by = RefFirst(acc, rr)

(* When an access lies wholly inside the region of the entry that decides  *)
(* it, the PMP-table check grants what that entry (or its table, indexed   *)
(* by the offset within the region) grants.                                *)
PmpTableGrantMatchesSpec ==
    LET rr == RefRanges
    IN  \A acc \in Accesses, type \in AccessTypes, ctx \in Contexts :
        LET i == RefFirst(acc, rr)
        IN  /\ i # NONE
            /\ Footprint(acc) \subseteq rr[i]
            /\ PmpCheckTable(acc, type, ctx).by = i
            => PmpCheckTable(acc, type, ctx).grant = RefTableGrant(acc, type, ctx.out_mode, i)

=============================================================================
