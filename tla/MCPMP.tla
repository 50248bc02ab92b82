------------------------------- MODULE MCPMP -------------------------------
(* Two active PMP entries over a 32-byte physical space: pmpaddr values    *)
(* 0..7 reach every TOR top, NA4 word and NAPOT region of 8, 16 and 32     *)
(* bytes.                                                                  *)
EXTENDS PMP

\* An S-mode access, and an M-mode access with and without MPRV.
MC_Contexts ==
    { [out_mode |-> MODE_S, mode |-> MODE_S, mprv |-> 0, mpp |-> MODE_U],
      [out_mode |-> MODE_M, mode |-> MODE_M, mprv |-> 0, mpp |-> MODE_U],
      [out_mode |-> MODE_M, mode |-> MODE_M, mprv |-> 1, mpp |-> MODE_U] }

\* An S-mode and an M-mode access: the two decisions the region check
\* makes (MPRV only changes which of them is taken).
MC_RegionContexts ==
    { [out_mode |-> MODE_S, mode |-> MODE_S, mprv |-> 0, mpp |-> MODE_U],
      [out_mode |-> MODE_M, mode |-> MODE_M, mprv |-> 0, mpp |-> MODE_U] }

MC_AllAccesses ==
    {[addr |-> a, len |-> l] : a \in 0..31, l \in {1, 2, 4, 8}}

(* Naturally aligned accesses.  Regions start and end on 4-byte           *)
(* boundaries, so a byte access is tested at the first and last byte of    *)
(* each word only.                                                         *)
MC_AlignedAccesses ==
    {acc \in MC_AllAccesses :
        /\ acc.addr % acc.len = 0
        /\ acc.len = 1 => acc.addr % 4 \in {0, 3}
        /\ acc.len # 2}

\* Accesses of at most 4 bytes: none spans a whole NA4 or TOR word.
MC_ShortAccesses ==
    {[addr |-> a, len |-> l] : a \in 0..31, l \in {1, 2, 4}}

\* Region tables: only the entries that offsets below 4 KiB, or just
\* below zero, index.
MC_RootTable == [k \in {0, 511} |-> 0]
MC_LeafTable == [k \in {<<0, 0, 0>>, <<511, 511, 7>>} |-> 0]

\* A root table whose first entry grants R/W/X directly (low nibble 1111)
\* and whose last entry is invalid.
MC_RootTableFirstValid == [k \in {0, 511} |-> IF k = 0 THEN 15 ELSE 0]

\* Byte accesses to the first three bytes: inside every NAPOT region and
\* clear of the region ends that napot_decode gets wrong.
MC_LowByteAccesses == {[addr |-> a, len |-> 1] : a \in 0..2}

MC_PermSets == {{"R"}, {"R", "W", "X"}}

====
