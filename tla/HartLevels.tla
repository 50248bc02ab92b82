----------------------------- MODULE HartLevels -----------------------------
(***************************************************************************)
(* What the RISC-V privileged architecture (with the hypervisor extension) *)
(* promises about the privilege level of a hart, abstracting from the CSR *)
(* layout: the level the hart runs at, the level each trap handler will    *)
(* return to, and the cause each handler was entered with.                 *)
(*                                                                         *)
(* A level is a pair <<privilege mode, virtualisation>>.  Three handler    *)
(* levels (M, HS, VS) each keep one saved return level: mstatus.MPP/MPV,   *)
(* sstatus.SPP with hstatus.SPV, and vsstatus.SPP.                         *)
(*   - A trap goes to M unless the hart is below M and medeleg/mideleg     *)
(*     delegates its cause; a delegated trap taken in guest mode goes to   *)
(*     VS if hedeleg/hideleg also delegates it, and to HS otherwise.  The  *)
(*     target's saved level becomes the interrupted level.                 *)
(*   - An xRET resumes the saved level of the handler level it runs at,    *)
(*     and leaves a user level saved there.                                *)
(*   - Software at a handler level may rewrite the saved level of its own  *)
(*     or a lower handler level, within what that register can hold.       *)
(* The delegation registers are fixed for a behaviour.                     *)
(***************************************************************************)
EXTENDS Naturals

CONSTANTS
    ExcCodes,      \* exception codes that traps may carry
    IrqCodes,      \* interrupt codes that traps may carry
    DelegConfigs   \* medeleg/mideleg/hedeleg/hideleg values

VARIABLES
    level,   \* <<mode, v>> the hart runs at
    saved,   \* [m, s, vs] -> the level an xRET of that handler resumes
    cause,   \* [m, s, vs] -> the cause that handler was last entered with
    deleg    \* the delegation registers

vars == <<level, saved, cause, deleg>>

MODE_U == 0
MODE_S == 1
MODE_M == 3

M_Level  == <<MODE_M, 0>>
HS_Level == <<MODE_S, 0>>
VS_Level == <<MODE_S, 1>>
Levels   == {<<MODE_U, 0>>, HS_Level, <<MODE_U, 1>>, VS_Level, M_Level}
Handlers == {M_Level, HS_Level, VS_Level}

Causes == [intr : {FALSE}, code : ExcCodes] \cup [intr : {TRUE}, code : IrqCodes]

\* The handler level whose return state a level's traps and xRETs use.
SlotOf(lv) == CASE lv = M_Level -> "m" [] lv = HS_Level -> "s" [] OTHER -> "vs"
LevelOfSlot == [m |-> M_Level, s |-> HS_Level, vs |-> VS_Level]

\* What each saved-level register can hold: MPP/MPV any level (MPV is
\* ignored under MPP = M), SPP/SPV any level below M, vsstatus.SPP a guest one.
ReturnLevels(l) ==
    CASE l = "m" -> Levels
      [] l = "s" -> Levels \ {M_Level}
      [] OTHER   -> {<<MODE_U, 1>>, VS_Level}

\* Privilege order of the handler levels.
Rank(lv) == CASE lv = M_Level -> 3 [] lv[2] = 0 -> 2 [] OTHER -> 1

Init ==
    /\ level = M_Level
    /\ saved \in {f \in [{"m", "s", "vs"} -> Levels] :
                    \A l \in DOMAIN f : f[l] \in ReturnLevels(l)}
    /\ cause = [l \in {"m", "s", "vs"} |-> [intr |-> FALSE, code |-> 0]]
    /\ deleg \in DelegConfigs

\* The level a trap with cause c lands at, from the current level.
Target(c) ==
    LET toHS == c.code \in (IF c.intr THEN deleg.mideleg ELSE deleg.medeleg)
        toVS == c.code \in (IF c.intr THEN deleg.hideleg ELSE deleg.hedeleg)
    IN  CASE level = M_Level \/ ~toHS -> M_Level
          [] level[2] = 1 /\ toVS     -> VS_Level
          [] OTHER                    -> HS_Level

Trap(c) ==
    LET t == Target(c)
    IN  /\ level' = t
        /\ cause' = [cause EXCEPT ![SlotOf(t)] = c]
        /\ saved' = [saved EXCEPT ![SlotOf(t)] = level]
        /\ UNCHANGED deleg

Return ==
    /\ level \in Handlers
    /\ level' = saved[SlotOf(level)]
    /\ \E r \in ReturnLevels(SlotOf(level)) :
          /\ r[1] = MODE_U
          /\ saved' = [saved EXCEPT ![SlotOf(level)] = r]
    /\ UNCHANGED <<cause, deleg>>

Prepare(l, r) ==
    /\ level \in Handlers
    /\ Rank(LevelOfSlot[l]) <= Rank(level)
    /\ r \in ReturnLevels(l)
    /\ saved' = [saved EXCEPT ![l] = r]
    /\ UNCHANGED <<level, cause, deleg>>

Next ==
    \/ \E c \in Causes : Trap(c)
    \/ Return
    \/ \E l \in {"m", "s", "vs"}, r \in Levels : Prepare(l, r)

Spec == Init /\ [][Next]_vars

=============================================================================
