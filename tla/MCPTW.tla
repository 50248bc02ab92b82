------------------------------- MODULE MCPTW -------------------------------
(***************************************************************************)
(* Page tables and contexts for checking PTW.  Physical pages (PPN):       *)
(*   1  first-stage root (satp, and vsatp as a guest-physical page)        *)
(*   2  level-1 table    3, 1026  level-0 tables                           *)
(*   16 G-stage root (Sv39x4, 16 KiB aligned)  20 level-1  21 level-0      *)
(* The first-stage tables hold a 4 KiB S page, a user X page with D clear, *)
(* a write-only and an invalid entry, a pointer at level 0, a page with A *)
(* clear, a misaligned 2 MiB leaf, an aligned 2 MiB leaf and a 1 GiB leaf. *)
(* The G-stage maps guest pages 0-9 one to one with varied permissions    *)
(* (page 3 read-only, page 5 without U, page 6 without W), the 2 MiB      *)
(* region at 4 MiB and the 1 GiB region at 1 GiB; guest 2 MiB is unmapped. *)
(* Table page 1026 lies inside the 2 MiB region, so a guest walk of VA    *)
(* 6 MiB reads a PTE through the G-stage superpage.                        *)
(***************************************************************************)
EXTENDS PTW, Sequences, TLC

\* Entry idx of the table in page pn.
At(pn, idx) == pn * PAGE_SIZE + idx * PTE_SIZE

Ptr(pn) == [PTE0 EXCEPT !.v = 1, !.ppn = pn]

\* A leaf with permissions rwx ("R", "W", "X"), U bit u and A/D bits ad.
Leaf(pn, rwx, u, ad) ==
    [v |-> 1, r |-> IF "R" \in rwx THEN 1 ELSE 0,
     w |-> IF "W" \in rwx THEN 1 ELSE 0, x |-> IF "X" \in rwx THEN 1 ELSE 0,
     u |-> u, a |-> IF "A" \in ad THEN 1 ELSE 0,
     d |-> IF "D" \in ad THEN 1 ELSE 0, ppn |-> pn]

RWX == {"R", "W", "X"}
AD  == {"A", "D"}

Stage1 ==
    << <<At(1, 0), Ptr(2)>>,
       <<At(1, 1), Leaf(2^18, RWX, 1, AD)>>,
       <<At(2, 0), Ptr(3)>>,
       <<At(2, 1), Leaf(513, RWX, 1, AD)>>,
       <<At(2, 2), Leaf(1024, {"R"}, 0, AD)>>,
       <<At(2, 3), Ptr(1026)>>,
       <<At(3, 0), Leaf(5, {"R", "W"}, 0, AD)>>,
       <<At(3, 1), Leaf(6, {"R", "X"}, 1, {"A"})>>,
       <<At(3, 2), Leaf(7, {"W"}, 0, AD)>>,
       <<At(3, 3), [Leaf(8, RWX, 0, AD) EXCEPT !.v = 0]>>,
       <<At(3, 4), Ptr(9)>>,
       <<At(3, 5), Leaf(8, {"X"}, 0, {})>>,
       <<At(1026, 0), Leaf(9, RWX, 1, AD)>> >>

GStage(superLeaf) ==
    << <<At(16, 0), Ptr(20)>>,
       <<At(16, 1), Leaf(2^18, RWX, 1, {})>>,
       <<At(20, 0), Ptr(21)>>,
       <<At(20, 2), superLeaf>>,
       <<At(21, 0), Leaf(0, RWX, 1, {})>>,
       <<At(21, 1), Leaf(1, RWX, 1, {})>>,
       <<At(21, 2), Leaf(2, RWX, 1, {})>>,
       <<At(21, 3), Leaf(3, {"R"}, 1, {})>>,
       <<At(21, 5), Leaf(5, {"R", "W"}, 0, {})>>,
       <<At(21, 6), Leaf(6, {"R", "X"}, 1, {})>>,
       <<At(21, 7), Leaf(7, RWX, 1, {})>>,
       <<At(21, 8), Leaf(8, RWX, 1, {})>>,
       <<At(21, 9), Leaf(9, RWX, 1, {})>> >>

AsMemory(s) == [a \in {s[i][1] : i \in DOMAIN s} |->
                    s[CHOOSE i \in DOMAIN s : s[i][1] = a][2]]

\* The G-stage 2 MiB leaf at guest 4 MiB: aligned, or one page off.
MC_PteMem           == AsMemory(Stage1 \o GStage(Leaf(1024, RWX, 1, {})))
MC_PteMemMisaligned == AsMemory(Stage1 \o GStage(Leaf(1025, RWX, 1, {})))

\* 4 KiB pages 0-5, the misaligned 2 MiB leaf, and addresses inside the
\* 2 MiB and 1 GiB leaves away from their first page, and 6 MiB, whose
\* level-0 table is page 1026.
MC_VAs == {0, 4096, 8192, 12288, 16384, 20480, 2^21, 3 * 2^21,
           2^22 + 12288, 2^30 + 2^21 + 4096 + 8}

\* Bitmap isolation on, outside the secure mode.  Page 5 (a 4 KiB leaf),
\* page 1024 (the first page of the 2 MiB leaf at 4 MiB) and page 2^18 + 513
\* (inside the 1 GiB leaf, not its first page) are isolated.
MC_MBMC == [BME |-> 1, CMODE |-> 0]
MC_BitmapSet == {5, 1024, 2^18 + 513}

(* Privilege situations ptw can be called in: U, S, VU, VS; M with MPRV  *)
(* (MPP below M, MPV either way); HS executing HLV/HSV (hld_st) as VU or VS *)
(* (hstatus.SPVP), with HLVX or not.  Fields that do not apply are 0.      *)
Plain == [mode |-> MODE_U, v |-> 0, mprv |-> 0, mpp |-> MODE_U, mpv |-> 0,
          spvp |-> MODE_U, hld |-> FALSE, hlvx |-> FALSE]

Privs ==
    { [Plain EXCEPT !.mode = m, !.v = v] : m \in {MODE_U, MODE_S}, v \in {0, 1} }
    \cup { [Plain EXCEPT !.mode = MODE_M, !.mprv = 1, !.mpp = m, !.mpv = v] :
              m \in {MODE_U, MODE_S}, v \in {0, 1} }
    \cup { [Plain EXCEPT !.mode = MODE_S, !.hld = TRUE, !.spvp = m, !.hlvx = x] :
              m \in {MODE_U, MODE_S}, x \in BOOLEAN }

Flags == [sum : {0, 1}, mxr : {0, 1}, vsum : {0, 1}, vmxr : {0, 1}]

Atps == [satp : {0, 8}, vsatp : {0, 8}, hgatp : {0, 8}]

MC_Contexts ==
    { c \in { p @@ f @@ a : p \in Privs, f \in Flags, a \in Atps } :
        \E t \in AccessTypes : Translates(t, c) }
=============================================================================
