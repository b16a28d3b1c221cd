----------------------------- MODULE SalesStage -----------------------------
(***************************************************************************)
(* The sales ladder of chatbot/app/graph/sales_stage.py: the canonical     *)
(* stages, the translation of the strings a version-1 checkpoint still     *)
(* holds, and the two functions that move a conversation along the ladder. *)
(*                                                                         *)
(* A lead profile is the set of those of its fields that are filled in and *)
(* that the ladder looks at.  A version-1 string is written "v1_...", and  *)
(* "" stands for a missing or unknown value.                               *)
(***************************************************************************)
EXTENDS Naturals

MOI           == "moi"
DA_RO_NHU_CAU == "da_ro_nhu_cau"
DA_BAO_GIA    == "da_bao_gia"
CO_SDT        == "co_sdt"
DA_HEN_LICH   == "da_hen_lich"
HANDOFF       == "handoff"

Rungs == {MOI, DA_RO_NHU_CAU, DA_BAO_GIA, CO_SDT, DA_HEN_LICH}

ALL_STAGES == Rungs \cup {HANDOFF}

\* The position of a rung in ORDER; HANDOFF is outside the ladder.
Rank(s) == CASE s = MOI           -> 0
             [] s = DA_RO_NHU_CAU -> 1
             [] s = DA_BAO_GIA    -> 2
             [] s = CO_SDT        -> 3
             [] s = DA_HEN_LICH   -> 4

LegacyStages == {"v1_moi", "v1_dang_tu_van", "v1_da_xin_sdt", "v1_da_chot",
                 "v1_can_nguoi"}

LEGACY_STAGE_MAP ==
    [v \in LegacyStages |->
        CASE v = "v1_moi"         -> MOI
          [] v = "v1_dang_tu_van" -> DA_RO_NHU_CAU
          [] v = "v1_da_xin_sdt"  -> CO_SDT
          [] v = "v1_da_chot"     -> DA_HEN_LICH
          [] v = "v1_can_nguoi"   -> HANDOFF]

\* Everything a checkpoint may hold as sales_stage.
StoredStages == ALL_STAGES \cup LegacyStages \cup {""}

normalize_stage(v) ==
    IF v \in ALL_STAGES THEN v
    ELSE IF v \in LegacyStages THEN LEGACY_STAGE_MAP[v] ELSE MOI

\* max(a, b, key=ORDER.index)
Further(a, b) == IF Rank(b) > Rank(a) THEN b ELSE a

advance_stage(current, target) ==
    LET cur == normalize_stage(current)
    IN  IF HANDOFF \in {cur, target} THEN HANDOFF ELSE Further(cur, target)

ProfileFields == {"lop", "tinh_trang", "sdt"}

\* The rung the profile alone justifies.
Implied(profile) ==
    IF "sdt" \in profile THEN CO_SDT
    ELSE IF {"lop", "tinh_trang"} \subseteq profile THEN DA_RO_NHU_CAU ELSE MOI

\* Mutant: the profile alone decides, so the ladder can be climbed down.
BrokenDeriveStage(profile, current) ==
    IF normalize_stage(current) = HANDOFF THEN HANDOFF ELSE Implied(profile)

derive_stage(profile, current) ==
    LET cur == normalize_stage(current)
    IN  IF cur = HANDOFF THEN HANDOFF ELSE Further(cur, Implied(profile))

\* b is no step back from a: further up the ladder, or the exit.
NoStepBack(a, b) == b = HANDOFF \/ (a \in Rungs /\ b \in Rungs /\ Rank(a) <= Rank(b))
=============================================================================
