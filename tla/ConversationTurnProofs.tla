----------------------- MODULE ConversationTurnProofs -----------------------
(***************************************************************************)
(* Proofs about the conversation graph, for every value of its constants.  *)
(* Each property that is not inductive comes with the strengthening that   *)
(* is: what the code relies on between its nodes and nowhere writes down.  *)
(***************************************************************************)
EXTENDS ConversationTurn, TLAPS

-----------------------------------------------------------------------------
(* The ladder: its two functions, for every stored stage and every profile *)

\* normalize_stage translates anything into a canonical stage and leaves the
\* canonical ones alone.
LEMMA NormalizeLands ==
    ASSUME NEW v
    PROVE  /\ normalize_stage(v) \in ALL_STAGES
           /\ v \in ALL_STAGES => normalize_stage(v) = v
  BY DEF normalize_stage, ALL_STAGES, Rungs, LegacyStages, LEGACY_STAGE_MAP,
         MOI, DA_RO_NHU_CAU, DA_BAO_GIA, CO_SDT, DA_HEN_LICH, HANDOFF

\* A rung has a place on the ladder; HANDOFF is no rung.
LEMMA RankIsNatural ==
    /\ \A s \in Rungs : Rank(s) \in 0..4
    /\ HANDOFF \notin Rungs
  BY DEF Rank, Rungs, MOI, DA_RO_NHU_CAU, DA_BAO_GIA, CO_SDT, DA_HEN_LICH,
         HANDOFF

\* The further of two rungs is a rung, no lower than either.
LEMMA FurtherIsFurther ==
    ASSUME NEW a \in Rungs, NEW b \in Rungs
    PROVE  /\ Further(a, b) \in Rungs
           /\ Rank(a) <= Rank(Further(a, b))
           /\ Rank(b) <= Rank(Further(a, b))
  BY RankIsNatural DEF Further

\* Staying is no step back, and steps that are none add up to none.
LEMMA NoStepBackIsAnOrder ==
    /\ \A a \in ALL_STAGES : NoStepBack(a, a)
    /\ \A a, b, c \in ALL_STAGES : NoStepBack(a, b) /\ NoStepBack(b, c) => NoStepBack(a, c)
  <1>1. \A a \in ALL_STAGES : NoStepBack(a, a)
    BY RankIsNatural DEF NoStepBack, ALL_STAGES
  <1>2. ASSUME NEW a \in ALL_STAGES, NEW b \in ALL_STAGES, NEW c \in ALL_STAGES,
               NoStepBack(a, b), NoStepBack(b, c)
        PROVE  NoStepBack(a, c)
    <2>1. CASE c = HANDOFF
      BY <2>1 DEF NoStepBack
    <2>2. CASE c # HANDOFF
      <3>1. b \in Rungs /\ c \in Rungs /\ Rank(b) <= Rank(c)
        BY <1>2, <2>2 DEF NoStepBack
      <3>2. a \in Rungs /\ Rank(a) <= Rank(b)
        BY <1>2, <3>1, RankIsNatural DEF NoStepBack
      <3>. QED
        BY <3>1, <3>2, RankIsNatural DEF NoStepBack
    <2>. QED
      BY <2>1, <2>2
  <1>. QED
    BY <1>1, <1>2

\* advance_stage gives a canonical stage and never steps back from the one
\* the thread had.
LEMMA AdvanceNeverStepsBack ==
    ASSUME NEW current, NEW target \in ALL_STAGES
    PROVE  /\ advance_stage(current, target) \in ALL_STAGES
           /\ NoStepBack(normalize_stage(current), advance_stage(current, target))
  <1>. DEFINE cur == normalize_stage(current)
  <1>1. cur \in ALL_STAGES
    BY NormalizeLands
  <1>2. CASE HANDOFF \in {cur, target}
    BY <1>2 DEF advance_stage, NoStepBack, ALL_STAGES
  <1>3. CASE HANDOFF \notin {cur, target}
    <2>1. cur \in Rungs /\ target \in Rungs
      BY <1>1, <1>3 DEF ALL_STAGES
    <2>2. advance_stage(current, target) = Further(cur, target)
      BY <1>3 DEF advance_stage
    <2>3. /\ Further(cur, target) \in Rungs
          /\ Rank(cur) <= Rank(Further(cur, target))
      BY <2>1, FurtherIsFurther
    <2>. QED
      BY <2>1, <2>2, <2>3 DEF NoStepBack, ALL_STAGES
  <1>. QED
    BY <1>2, <1>3

\* derive_stage, too, whatever the profile says; HANDOFF absorbs every profile.
LEMMA DeriveNeverStepsBack ==
    ASSUME NEW profile, NEW current
    PROVE  /\ derive_stage(profile, current) \in ALL_STAGES
           /\ NoStepBack(normalize_stage(current), derive_stage(profile, current))
  <1>. DEFINE cur == normalize_stage(current)
  <1>1. cur \in ALL_STAGES
    BY NormalizeLands
  <1>2. Implied(profile) \in Rungs
    BY DEF Implied, Rungs
  <1>3. CASE cur = HANDOFF
    BY <1>3 DEF derive_stage, NoStepBack, ALL_STAGES
  <1>4. CASE cur # HANDOFF
    <2>1. cur \in Rungs
      BY <1>1, <1>4 DEF ALL_STAGES
    <2>2. derive_stage(profile, current) = Further(cur, Implied(profile))
      BY <1>4 DEF derive_stage
    <2>3. /\ Further(cur, Implied(profile)) \in Rungs
          /\ Rank(cur) <= Rank(Further(cur, Implied(profile)))
      BY <1>2, <2>1, FurtherIsFurther
    <2>. QED
      BY <1>2, <2>1, <2>2, <2>3 DEF NoStepBack, ALL_STAGES
  <1>. QED
    BY <1>3, <1>4

-----------------------------------------------------------------------------
(* Strengthenings *)

\* What three rounds of agent, tool_exec and grade_chunks may still cost.
Spare == 3 * (MaxToolRounds - tool_rounds)

MostSteps == 3 * MaxToolRounds + 8

\* The supersteps a turn can still take from the node it is at: `before` with
\* the bounce still to come, `after` without.
CanStillTake(before, after) ==
    steps + (IF reflect_count = 0 THEN before ELSE after) <= MostSteps

StepsInv ==
    /\ tool_rounds <= MaxToolRounds
    /\ steps <= MostSteps
    /\ pc = "detect_objection" => steps = 0
    /\ pc = "agent"            => CanStillTake(Spare + 7, Spare + 4)
    /\ pc = "tool_exec"        => /\ tool_rounds < MaxToolRounds
                                  /\ CanStillTake(Spare + 6, Spare + 3)
    /\ pc = "grade_chunks"     => CanStillTake(Spare + 8, Spare + 5)
    /\ pc \in {"fallback", "handle_objection"} => CanStillTake(Spare + 6, 3)
    /\ pc = "reflect_lite"     => CanStillTake(Spare + 5, 2)
    /\ pc = "pricing_guard"    => steps < MostSteps

\* The repair of an objection follows the one bounce, so no second bounce can
\* find it spent and go to the agent; and a draft that will be counted is the
\* first one about its group.
ScriptInv ==
    /\ fix_hint \/ objection_fix_done => reflect_count = 1
    /\ ObjectionStaysOnScript
    /\ pc = "handle_objection" => objection_type \in Objections /\ ~objection_fix_done
    /\ (pc = "handle_objection" /\ ~fix_hint) =>
          objection_type # SoSanh /\ objection_count[objection_type] = 0

\* A competitor is not answered, any other group once, and that is counted.
HadItsAnswer(g) == g = SoSanh \/ objection_count[g] # 0

\* The counter knows of every argument, but for those in place of a bounced
\* fallback line; and a turn about a group that had its answer has set
\* `handoff` since its first node.
CalledInv ==
    /\ pc = "detect_objection" => ~drafted
    /\ \A g \in argued : HadItsAnswer(g)
    /\ drafted => objection_type \in Objections /\ HadItsAnswer(objection_type)
    /\ (pc \in {"fallback", "reflect_lite"} /\ objection_type # None)
          => HadItsAnswer(objection_type)
    /\ (pc = "handle_objection" /\ fix_hint) => HadItsAnswer(objection_type)
    /\ (/\ pc \in {"fallback", "reflect_lite", "handle_objection"}
        /\ objection_type \in argued \cup {SoSanh})
          => handoff /\ (drafted => objection_fix_done)

\* `escalated` and tool_exec's own copy of it follow the row.
RowInv ==
    /\ pc = "detect_objection" => ~wrote
    /\ pc = "tool_exec" => (pend.escalated <=> wrote)
    /\ pc \notin {"detect_objection", "tool_exec", "raised"} => (escalated <=> wrote)

\* The text in front of the guard is the one the customer would get, and its
\* phone ask is stamped.
DraftInv ==
    (pc = "pricing_guard" /\ lastAI.text # NoText) =>
        /\ reply.fresh
        /\ reply.text = lastAI.text
        /\ lastAI.text.ask /\ "sdt" \notin lead_profile => asked_ago = 0

\* The stage tool_exec carries is no step back, or it has booked a trial.
PendInv ==
    pc = "tool_exec" =>
        \/ NoStepBack(normalize_stage(sales_stage), normalize_stage(pend.sales_stage))
        \/ \E i \in DOMAIN lastAI.calls : i < next_call /\ lastAI.calls[i] = "book_trial"

-----------------------------------------------------------------------------
(* Types *)

\* The stages and drafts the definitions of the model build.
LEMMA BuiltValues ==
    /\ HANDOFF \in StoredStages /\ MOI \in StoredStages /\ DA_HEN_LICH \in StoredStages
    /\ DA_BAO_GIA \in ALL_STAGES
    /\ ALL_STAGES \subseteq StoredStages
    /\ HONEST_FALLBACK \in Draft /\ NEUTRAL_CONTINUATION \in Draft
    /\ NoText \notin Draft
    /\ <<>> \notin CallLists
  BY TurnAssumption DEF StoredStages, ALL_STAGES, Rungs, Draft, HONEST_FALLBACK,
     NEUTRAL_CONTINUATION, MOI, DA_RO_NHU_CAU, DA_BAO_GIA, CO_SDT, DA_HEN_LICH,
     HANDOFF

\* What reflect_lite puts in place of a draft is a draft.
LEMMA FixesAreDrafts ==
    ASSUME NEW d \in Draft
    PROVE  Fixes(d) \subseteq Draft /\ strip_phone_ask(d) \subseteq Draft
  BY TurnAssumption DEF Fixes, strip_blocklist, strip_phone_ask, Draft

\* What SendOn puts before the guard is a draft, its phone ask stamped.
LEMMA SendOnSendsADraft ==
    ASSUME NEW d \in Draft, SendOn(d)
    PROVE  \E e \in Draft : /\ ReplaceAI(e, FALSE)
                            /\ asked_ago' \in {asked_ago, 0}
                            /\ e.ask => asked_ago' = 0
  BY FixesAreDrafts, BuiltValues DEF SendOn, strip_phone_ask, NEUTRAL_CONTINUATION

\* tool_exec's pending update stays one, whatever a tool adds to it.
LEMMA PendingUpdateType ==
    ASSUME NEW p \in PendingUpdate
    PROVE  /\ NoPend \in PendingUpdate
           /\ p.sales_stage \in StoredStages /\ p.lead_profile \in SUBSET ProfileFields
           /\ p.handoff \in BOOLEAN /\ p.escalated \in BOOLEAN
           /\ p.did_retrieve \in BOOLEAN /\ p.hits \in BOOLEAN
           /\ \A found \in BOOLEAN :
                 [p EXCEPT !.did_retrieve = TRUE, !.hits = found] \in PendingUpdate
           /\ \A profile \in SUBSET ProfileFields, stage \in StoredStages :
                 [p EXCEPT !.lead_profile = profile, !.sales_stage = stage] \in PendingUpdate
           /\ [p EXCEPT !.sales_stage = DA_HEN_LICH] \in PendingUpdate
           /\ [p EXCEPT !.handoff = TRUE, !.escalated = TRUE,
                        !.sales_stage = HANDOFF] \in PendingUpdate
           /\ [p EXCEPT !.handoff = TRUE] \in PendingUpdate
  BY Zenon, BuiltValues DEF PendingUpdate, NoPend

\* Every flag is a Boolean.
LEMMA FlagsKeepType == TypeOK /\ [Next]_vars => FlagType'
  <1>. SUFFICES ASSUME TypeOK, [Next]_vars
                PROVE  FlagType'
    OBVIOUS
  <1>. USE DEF TypeOK, FlagType, Goto, perTurn, flags, lead, objected, history,
           locals, gate
  <1>1. CASE StartTurn \/ ClearHandoff \/ TimePasses \/ NodeRaises \/ UNCHANGED vars
    BY ZenonT(30), <1>1 DEF StartTurn, Ainvoke, ClearHandoff, TimePasses, NodeRaises, vars
  <1>2. ASSUME NEW o \in Objections \cup {None}, DetectObjection(o)
        PROVE  FlagType'
    BY Zenon, <1>2 DEF DetectObjection, turn_reset
  <1>3. ASSUME NEW o \in Objections, NEW rowWritten \in BOOLEAN,
               EscalateObjection(o, rowWritten)
        PROVE  FlagType'
    BY Zenon, <1>3 DEF EscalateObjection, turn_reset
  <1>4. ASSUME NEW d \in Drafts \cup {NoText}, NEW c \in CallLists \cup {<<>>}, Agent(d, c)
        PROVE  FlagType'
    BY Zenon, <1>4 DEF Agent, AppendAI
  <1>5. CASE ToolStep
    <2>1. pend.handoff \in BOOLEAN /\ pend.escalated \in BOOLEAN /\ pend.hits \in BOOLEAN
      BY PendingUpdateType DEF DataType
    <2>2. CASE ToolExecReturns
      BY Zenon, <2>1, <2>2 DEF ToolExecReturns
    <2>3. ASSUME NEW rowWritten \in BOOLEAN, HandoffToHuman(rowWritten)
          PROVE  FlagType'
      BY Zenon, <2>3 DEF HandoffToHuman, InToolExec
    <2>4. CASE \/ \E found \in BOOLEAN : RetrieveKb(found)
               \/ \E fields \in Updates : CaptureLead(fields)
               \/ BookTrial
               \/ UnsupportedTool
      <3>1. UNCHANGED <<perTurn, flags, objected, history, gate>>
        BY Zenon, <2>4 DEF RetrieveKb, CaptureLead, BookTrial, UnsupportedTool, InToolExec
      <3>. QED
        BY Zenon, <3>1
    <2>. QED
      BY Zenon, <1>5, <2>2, <2>3, <2>4 DEF ToolStep
  <1>6. CASE \E sufficient \in BOOLEAN : GradeChunks(sufficient)
    BY Zenon, <1>6 DEF GradeChunks
  <1>7. ASSUME NEW d \in Drafts \cup {NoText}, HandleObjection(d)
        PROVE  FlagType'
    BY Zenon, <1>7 DEF HandleObjection, AppendAI
  <1>8. CASE Fallback
    BY Zenon, <1>8 DEF Fallback, AppendAI
  <1>9. CASE ReflectStep
    <2>1. CASE ReflectSkips \/ ReflectBounces
      BY Zenon, <2>1 DEF ReflectSkips, ReflectBounces
    <2>2. ASSUME NEW d, SendOn(d), handoff' \in BOOLEAN
          PROVE  FlagType'
      <3>1. open' = open /\ dangling' = dangling
        BY Zenon, <2>2 DEF SendOn, ReplaceAI
      <3>. QED
        BY Zenon, <2>2, <3>1 DEF SendOn
    <2>3. CASE ReflectApproves \/ ReflectRepairs \/ ReflectGivesUp
      BY Zenon, <2>2, <2>3 DEF ReflectApproves, ReflectRepairs, ReflectGivesUp
    <2>. QED
      BY Zenon, <1>9, <2>1, <2>3 DEF ReflectStep
  <1>10. CASE GuardStep
    BY ZenonT(30), <1>10 DEF GuardStep, GuardSkips, GuardPasses, GuardBlocks, ReplaceAI
  <1>. QED
    BY Zenon, <1>1, <1>2, <1>3, <1>4, <1>5, <1>6, <1>7, <1>8, <1>9, <1>10
       DEF Next, NodeStep

\* Every other variable keeps its kind.
LEMMA DataKeepsType == TypeOK /\ [Next]_vars => DataType'
  <1>. SUFFICES ASSUME TypeOK, [Next]_vars
                PROVE  DataType'
    OBVIOUS
  <1>. USE DEF TypeOK, DataType, Goto, perTurn, flags, lead, objected, history,
           locals, gate
  <1>. AskWindow \in Nat /\ None \notin Objections /\ Updates \subseteq SUBSET ProfileFields
    BY TurnAssumption
  <1>. Drafts \subseteq Draft
    BY TurnAssumption
  <1>1. CASE StartTurn
    <2>1. reply' \in Reply
      BY Zenon, <1>1 DEF StartTurn, Ainvoke, Reply
    <2>. QED
      BY <1>1, <2>1 DEF StartTurn, Ainvoke, Nodes
  <1>13. CASE ClearHandoff
    BY <1>13 DEF ClearHandoff
  <1>14. CASE UNCHANGED vars
    BY <1>14 DEF vars
  <1>2. CASE TimePasses
    BY <1>2 DEF TimePasses
  <1>3. ASSUME NEW o \in Objections \cup {None}, DetectObjection(o)
        PROVE  DataType'
    BY <1>3 DEF DetectObjection, turn_reset, RouteAfterDetect, Nodes
  <1>4. ASSUME NEW o \in Objections, NEW rowWritten \in BOOLEAN,
               EscalateObjection(o, rowWritten)
        PROVE  DataType'
    BY <1>4, BuiltValues DEF EscalateObjection, turn_reset, RouteAfterDetect, Nodes
  <1>5. ASSUME NEW d \in Drafts \cup {NoText}, NEW c \in CallLists \cup {<<>>}, Agent(d, c)
        PROVE  DataType'
    <2>1. lastAI' \in AIMessage /\ reply' \in Reply
      BY <1>5 DEF Agent, AppendAI, AIMessage, Reply, Text
    <2>2. pend' \in PendingUpdate
      BY Zenon, <1>5, PendingUpdateType DEF Agent, PendingUpdate, FlagType
    <2>. QED
      BY <1>5, <2>1, <2>2 DEF Agent, RouteAfterAgent, Nodes
  <1>6. CASE ToolStep
    <2>1. ASSUME NEW found \in BOOLEAN, RetrieveKb(found)
          PROVE  DataType'
      <3>1. (pend.hits \/ found) \in BOOLEAN
        OBVIOUS
      <3>2. pend' \in PendingUpdate
        BY Zenon, <2>1, <3>1, PendingUpdateType DEF RetrieveKb
      <3>. QED
        BY <2>1, <3>2 DEF RetrieveKb, InToolExec
    <2>2. ASSUME NEW fields \in Updates, CaptureLead(fields)
          PROVE  DataType'
      <3>1. pend' \in PendingUpdate
        BY <2>2, BuiltValues, DeriveNeverStepsBack, PendingUpdateType DEF CaptureLead
      <3>. QED
        BY <2>2, <3>1 DEF CaptureLead, InToolExec
    <2>3. CASE BookTrial
      <3>1. pend' \in PendingUpdate
        BY Zenon, <2>3, PendingUpdateType DEF BookTrial
      <3>. QED
        BY <2>3, <3>1 DEF BookTrial, InToolExec
    <2>4. ASSUME NEW rowWritten \in BOOLEAN, HandoffToHuman(rowWritten)
          PROVE  DataType'
      <3>1. pend' \in PendingUpdate
        BY <2>4, PendingUpdateType DEF HandoffToHuman
      <3>. QED
        BY <2>4, <3>1 DEF HandoffToHuman, InToolExec
    <2>5. CASE ToolExecReturns
      <3>1. /\ pend' \in PendingUpdate
            /\ sales_stage' \in StoredStages
            /\ lead_profile' \in SUBSET ProfileFields
        BY Zenon, <2>5, PendingUpdateType DEF ToolExecReturns
      <3>. QED
        BY <2>5, <3>1 DEF ToolExecReturns, RouteAfterTools, Nodes
    <2>6. CASE UnsupportedTool
      BY <2>6 DEF UnsupportedTool, InToolExec
    <2>. QED
      BY <1>6, <2>1, <2>2, <2>3, <2>4, <2>5, <2>6 DEF ToolStep
  <1>7. CASE \E sufficient \in BOOLEAN : GradeChunks(sufficient)
    BY <1>7 DEF GradeChunks, Nodes
  <1>8. CASE Fallback
    BY <1>8, BuiltValues DEF Fallback, AppendAI, Nodes, AIMessage, Reply, Text
  <1>9. ASSUME NEW d \in Drafts \cup {NoText}, HandleObjection(d)
        PROVE  DataType'
    BY <1>9 DEF HandleObjection, AppendAI, Nodes, AIMessage, Reply, Text
  <1>10. CASE ReflectStep
    <2>1. ASSUME NEW d \in Draft, SendOn(d)
          PROVE  DataType'
      <3>1. PICK e \in Draft : ReplaceAI(e, FALSE) /\ asked_ago' \in {asked_ago, 0}
        BY <2>1, SendOnSendsADraft
      <3>2. lastAI' \in AIMessage /\ reply' \in Reply
        BY Zenon, <3>1 DEF ReplaceAI, AIMessage, Reply, Text
      <3>3. asked_ago' \in 0..AskWindow
        BY <3>1
      <3>. QED
        BY <2>1, <3>2, <3>3 DEF SendOn, Nodes
    <2>2. lastAI.text # NoText => lastAI.text \in Draft
      BY DEF AIMessage, Text
    <2>3. CASE ReflectSkips \/ ReflectBounces
      BY <2>3 DEF ReflectSkips, ReflectBounces, RouteFix, Nodes
    <2>4. CASE ReflectApproves \/ ReflectRepairs \/ ReflectGivesUp
      BY <2>1, <2>2, <2>4, FixesAreDrafts, BuiltValues
         DEF ReflectApproves, ReflectRepairs, ReflectGivesUp
    <2>. QED
      BY <1>10, <2>3, <2>4 DEF ReflectStep
  <1>11. CASE GuardStep
    <2>1. CASE GuardSkips
      BY <2>1 DEF GuardSkips, Nodes
    <2>2. CASE GuardPasses
      <3>1. reply' \in Reply
        BY Zenon, <2>2 DEF GuardPasses, Reply
      <3>2. sales_stage' \in StoredStages
        BY <2>2, BuiltValues, AdvanceNeverStepsBack DEF GuardPasses
      <3>. QED
        BY <2>2, <3>1, <3>2 DEF GuardPasses, Nodes
    <2>3. CASE GuardBlocks
      BY <2>3, BuiltValues DEF GuardBlocks, ReplaceAI, Nodes, AIMessage, Reply, Text
    <2>. QED
      BY <1>11, <2>1, <2>2, <2>3 DEF GuardStep
  <1>12. CASE NodeRaises
    <2>1. pend' \in PendingUpdate
      BY Zenon, <1>12, PendingUpdateType DEF NodeRaises
    <2>. QED
      BY <1>12, <2>1 DEF NodeRaises
  <1>. QED
    BY <1>1, <1>2, <1>3, <1>4, <1>5, <1>6, <1>7, <1>8, <1>9, <1>10, <1>11, <1>12,
       <1>13, <1>14
       DEF Next, NodeStep

\* The variables keep the kinds the code gives them.
THEOREM TypeCorrect == Spec => []TypeOK
  <1>1. Init => TypeOK
    <2>. SUFFICES ASSUME Init
                  PROVE  TypeOK
      OBVIOUS
    <2>1. FlagType
      BY Zenon DEF Init, FlagType
    <2>2. pend \in PendingUpdate
      BY Zenon, BuiltValues DEF Init, NoPend, PendingUpdate
    <2>3. lastAI \in AIMessage /\ reply \in Reply
      BY Zenon DEF Init, NoReply, AIMessage, Reply, Text
    <2>. QED
      BY <2>1, <2>2, <2>3, TurnAssumption DEF Init, TypeOK, DataType
  <1>2. TypeOK /\ [Next]_vars => TypeOK'
    BY FlagsKeepType, DataKeepsType DEF TypeOK
  <1>. QED
    BY <1>1, <1>2, PTL DEF Spec

-----------------------------------------------------------------------------
(* The recursion limit *)

\* Every node leaves the turn with at least one superstep less to take.
LEMMA StepsInvIsInductive == TypeOK /\ StepsInv /\ [Next]_vars => StepsInv'
  <1>. SUFFICES ASSUME TypeOK, StepsInv, [Next]_vars
                PROVE  StepsInv'
    OBVIOUS
  <1>. MaxToolRounds \in Nat
    BY TurnAssumption
  <1>. /\ pc \in Nodes \cup {"END", "raised"} /\ steps \in Nat
       /\ tool_rounds \in Nat /\ reflect_count \in {0, 1}
    BY DEF TypeOK, DataType
  <1>. USE DEF StepsInv, CanStillTake, MostSteps, Spare, Goto, perTurn
  <1>1. CASE StartTurn
    BY <1>1 DEF StartTurn, Ainvoke
  <1>2. CASE ClearHandoff \/ TimePasses
    BY <1>2 DEF ClearHandoff, TimePasses
  <1>3. ASSUME NEW o, DetectObjection(o) \/ \E rowWritten \in BOOLEAN : EscalateObjection(o, rowWritten)
        PROVE  StepsInv'
    BY <1>3 DEF DetectObjection, EscalateObjection, turn_reset, RouteAfterDetect
  <1>4. ASSUME NEW d, NEW c, Agent(d, c)
        PROVE  StepsInv'
    BY <1>4 DEF Agent, RouteAfterAgent
  <1>5. CASE ToolStep
    <2>1. CASE ToolExecReturns
      BY <2>1 DEF ToolExecReturns, RouteAfterTools
    <2>2. CASE ToolStep /\ ~ToolExecReturns
      BY <2>2 DEF ToolStep, RetrieveKb, CaptureLead, BookTrial, HandoffToHuman,
         UnsupportedTool, InToolExec
    <2>. QED
      BY <1>5, <2>1, <2>2
  <1>6. CASE \E sufficient \in BOOLEAN : GradeChunks(sufficient)
    BY <1>6 DEF GradeChunks
  <1>7. CASE Fallback \/ \E d \in Drafts \cup {NoText} : HandleObjection(d)
    BY <1>7 DEF Fallback, HandleObjection
  <1>8. CASE ReflectStep
    <2>1. ASSUME NEW d, SendOn(d), pc = "reflect_lite"
          PROVE  StepsInv'
      BY <2>1 DEF SendOn
    <2>2. CASE ReflectSkips
      BY <2>2 DEF ReflectSkips
    <2>3. CASE ReflectBounces
      BY <2>3 DEF ReflectBounces, RouteFix
    <2>. QED
      BY <1>8, <2>1, <2>2, <2>3
         DEF ReflectStep, ReflectApproves, ReflectRepairs, ReflectGivesUp
  <1>9. CASE GuardStep
    <2>1. pc = "pricing_guard" /\ pc' = "END" /\ steps' = steps + 1
      BY Zenon, <1>9 DEF GuardStep, GuardSkips, GuardPasses, GuardBlocks
    <2>2. UNCHANGED tool_rounds
      BY Zenon, <1>9 DEF GuardStep, GuardSkips, GuardPasses, GuardBlocks
    <2>. QED
      BY <2>1, <2>2
  <1>10. CASE NodeRaises
    BY <1>10 DEF NodeRaises, AwaitsLlm, AtCall
  <1>11. CASE UNCHANGED vars
    BY <1>11 DEF vars
  <1>. QED
    BY <1>1, <1>2, <1>3, <1>4, <1>5, <1>6, <1>7, <1>8, <1>9, <1>10, <1>11
       DEF Next, NodeStep

\* No turn reaches LangGraph's recursion limit.
THEOREM NeverOverTheLimit == Spec => []WithinRecursionLimit
  <1>1. Init => StepsInv
    BY TurnAssumption DEF Init, StepsInv, CanStillTake, MostSteps, Spare
  <1>2. TypeOK /\ StepsInv => WithinRecursionLimit
    BY TurnAssumption DEF TypeOK, DataType, StepsInv, MostSteps, WithinRecursionLimit
  <1>. QED
    BY <1>1, <1>2, StepsInvIsInductive, TypeCorrect, PTL DEF Spec

-----------------------------------------------------------------------------
(* Objections *)

\* The bounce and the repair are both spent at most once, in that order.
LEMMA ScriptInvIsInductive ==
    TypeOK /\ ScriptInv /\ CalledInv /\ [Next]_vars => ScriptInv' /\ CalledInv'
  <1>. SUFFICES ASSUME TypeOK, ScriptInv, CalledInv, [Next]_vars
                PROVE  ScriptInv' /\ CalledInv'
    OBVIOUS
  <1>. /\ reflect_count \in {0, 1} /\ handoff \in BOOLEAN /\ drafted \in BOOLEAN
       /\ objection_count \in [Objections -> Nat] /\ argued \subseteq Objections
       /\ objection_type \in Objections \cup {None}
    BY DEF TypeOK, DataType, FlagType
  <1>. None \notin Objections /\ SoSanh \in Objections
    BY TurnAssumption
  <1>. USE DEF ScriptInv, ObjectionStaysOnScript, CalledInv, HadItsAnswer,
           RepeatLimit, Goto, perTurn, objected, flags
  <1>1. CASE StartTurn \/ ClearHandoff \/ TimePasses
    BY <1>1 DEF StartTurn, Ainvoke, ClearHandoff, TimePasses
  <1>2. ASSUME NEW o \in Objections \cup {None}, DetectObjection(o)
        PROVE  ScriptInv' /\ CalledInv'
    BY <1>2 DEF DetectObjection, turn_reset, RouteAfterDetect, Escalates
  <1>3. ASSUME NEW o \in Objections, NEW rowWritten, EscalateObjection(o, rowWritten)
        PROVE  ScriptInv' /\ CalledInv'
    BY <1>3 DEF EscalateObjection, turn_reset, RouteAfterDetect, Escalates
  <1>4. ASSUME NEW d, NEW c, Agent(d, c)
        PROVE  ScriptInv' /\ CalledInv'
    BY <1>4 DEF Agent, RouteAfterAgent
  <1>5. CASE ToolStep
    <2>1. /\ pc = "tool_exec" /\ pc' \in {"tool_exec", "grade_chunks", "agent"}
          /\ UNCHANGED <<fix_hint, objection_fix_done, reflect_count, objected>>
      BY Zenon, <1>5 DEF ToolStep, ToolExecReturns, RouteAfterTools, RetrieveKb,
         CaptureLead, BookTrial, HandoffToHuman, UnsupportedTool, InToolExec, AtCall
    <2>. QED
      BY <2>1
  <1>6. CASE \E sufficient \in BOOLEAN : GradeChunks(sufficient)
    BY <1>6 DEF GradeChunks
  <1>7. CASE Fallback
    BY <1>7 DEF Fallback
  <1>8. ASSUME NEW d, HandleObjection(d)
        PROVE  ScriptInv' /\ CalledInv'
    BY <1>8 DEF HandleObjection
  <1>9. CASE ReflectStep
    <2>1. CASE ReflectBounces
      BY <2>1 DEF ReflectBounces, RouteFix
    <2>2. CASE ReflectStep /\ ~ReflectBounces
      <3>1. /\ pc' = "pricing_guard"
            /\ UNCHANGED <<fix_hint, objection_fix_done, reflect_count, objected>>
            /\ handoff' \in {handoff, TRUE}
        BY Zenon, <2>2 DEF ReflectStep, ReflectSkips, ReflectApproves, ReflectRepairs,
           ReflectGivesUp, SendOn
      <3>. QED
        BY <3>1
    <2>. QED
      BY <1>9, <2>1, <2>2
  <1>10. CASE GuardStep
    <2>1. /\ pc' = "END"
          /\ UNCHANGED <<fix_hint, objection_fix_done, reflect_count, objected>>
      BY Zenon, <1>10 DEF GuardStep, GuardSkips, GuardPasses, GuardBlocks
    <2>. QED
      BY <2>1
  <1>11. CASE NodeRaises
    BY <1>11 DEF NodeRaises
  <1>12. CASE UNCHANGED vars
    BY <1>12 DEF vars
  <1>. QED
    BY <1>1, <1>2, <1>3, <1>4, <1>5, <1>6, <1>7, <1>8, <1>9, <1>10, <1>11, <1>12
       DEF Next, NodeStep

\* An objection is never answered by the agent, which has tools and no
\* playbook.
THEOREM ScriptIsKept == Spec => []ObjectionStaysOnScript
  <1>1. Init => ScriptInv /\ CalledInv
    BY TurnAssumption DEF Init, ScriptInv, CalledInv, ObjectionStaysOnScript
  <1>2. ScriptInv => ObjectionStaysOnScript
    BY DEF ScriptInv
  <1>. QED
    BY <1>1, <1>2, ScriptInvIsInductive, TypeCorrect, PTL DEF Spec

\* However long the conversation, an argument about a group argued about
\* before, or about a competitor, is drafted only in a turn that has called a
\* human in, as the one rewrite of its bounced fallback line.
THEOREM RepeatsGoThroughAHuman == Spec => []RepeatIsArguedOnlyOnceAHumanIsCalled
  <1>1. Init => ScriptInv /\ CalledInv
    BY TurnAssumption DEF Init, ScriptInv, CalledInv, ObjectionStaysOnScript
  <1>2. ScriptInv /\ CalledInv => RepeatIsArguedOnlyOnceAHumanIsCalled
    BY DEF ScriptInv, CalledInv, HadItsAnswer, RepeatIsArguedOnlyOnceAHumanIsCalled
  <1>. QED
    BY <1>1, <1>2, ScriptInvIsInductive, TypeCorrect, PTL DEF Spec

-----------------------------------------------------------------------------
(* The handoff row *)

\* Between its nodes a turn knows whether it wrote the row.
LEMMA RowInvIsInductive == TypeOK /\ RowInv /\ [Next]_vars => RowInv'
  <1>. SUFFICES ASSUME TypeOK, RowInv, [Next]_vars
                PROVE  RowInv'
    OBVIOUS
  <1>. escalated \in BOOLEAN /\ wrote \in BOOLEAN /\ pend \in PendingUpdate
    BY DEF TypeOK, FlagType, DataType
  <1>. USE DEF RowInv, Goto, flags, gate, locals
  <1>1. CASE StartTurn
    BY <1>1 DEF StartTurn, Ainvoke
  <1>2. CASE ClearHandoff \/ TimePasses
    BY <1>2 DEF ClearHandoff, TimePasses
  <1>3. ASSUME NEW o, DetectObjection(o)
        PROVE  RowInv'
    BY <1>3 DEF DetectObjection, RouteAfterDetect
  <1>4. ASSUME NEW o, NEW rowWritten \in BOOLEAN, EscalateObjection(o, rowWritten)
        PROVE  RowInv'
    BY <1>4 DEF EscalateObjection, RouteAfterDetect
  <1>5. ASSUME NEW d, NEW c, Agent(d, c)
        PROVE  RowInv'
    BY <1>5 DEF Agent, RouteAfterAgent
  <1>6. ASSUME NEW rowWritten \in BOOLEAN, HandoffToHuman(rowWritten)
        PROVE  RowInv'
    BY <1>6 DEF HandoffToHuman, InToolExec, AtCall, PendingUpdate
  <1>7. CASE ToolExecReturns
    BY <1>7 DEF ToolExecReturns, RouteAfterTools
  <1>8. CASE \/ \E found \in BOOLEAN : RetrieveKb(found)
             \/ \E fields \in Updates : CaptureLead(fields)
             \/ BookTrial
             \/ UnsupportedTool
    <2>1. /\ pc = "tool_exec" /\ pc' = "tool_exec" /\ wrote' = wrote
          /\ pend'.escalated = pend.escalated
      BY <1>8 DEF RetrieveKb, CaptureLead, BookTrial, UnsupportedTool, InToolExec,
         AtCall, PendingUpdate
    <2>. QED
      BY <2>1
  <1>9. CASE (\E sufficient \in BOOLEAN : GradeChunks(sufficient)) \/ Fallback
    BY <1>9 DEF GradeChunks, Fallback
  <1>10. ASSUME NEW d, HandleObjection(d)
         PROVE  RowInv'
    BY <1>10 DEF HandleObjection
  <1>11. CASE ReflectStep
    <2>1. /\ pc = "reflect_lite"
          /\ pc' \in {"pricing_guard", "handle_objection", "agent"}
          /\ escalated' = escalated /\ wrote' = wrote
      BY Zenon, <1>11 DEF ReflectStep, ReflectSkips, ReflectApproves, ReflectRepairs,
         ReflectBounces, ReflectGivesUp, SendOn, RouteFix
    <2>. QED
      BY <2>1
  <1>12. CASE GuardStep
    <2>1. /\ pc = "pricing_guard" /\ pc' = "END"
          /\ escalated' = escalated /\ wrote' = wrote
      BY Zenon, <1>12 DEF GuardStep, GuardSkips, GuardPasses, GuardBlocks
    <2>. QED
      BY <2>1
  <1>13. CASE NodeRaises
    BY <1>13 DEF NodeRaises
  <1>14. CASE UNCHANGED vars
    BY <1>14 DEF vars
  <1>. QED
    BY <1>1, <1>2, <1>3, <1>4, <1>5, <1>6, <1>7, <1>8, <1>9, <1>10, <1>11, <1>12,
       <1>13, <1>14
       DEF Next, NodeStep, ToolStep

\* What the dispatcher reads as `escalated` is that this invoke wrote the row.
THEOREM EscalatedIsTheRow == Spec => []EscalatedIffRowWritten
  <1>1. Init => RowInv
    BY DEF Init, RowInv
  <1>2. RowInv => EscalatedIffRowWritten
    BY DEF RowInv, EscalatedIffRowWritten
  <1>. QED
    BY <1>1, <1>2, RowInvIsInductive, TypeCorrect, PTL DEF Spec

-----------------------------------------------------------------------------
(* The text the customer gets *)

\* Whatever reflect_lite lets through reaches the guard as the reply, stamped.
LEMMA DraftInvIsInductive ==
    TypeOK /\ DraftInv /\ FinalDraftVerified /\ [Next]_vars
        => DraftInv' /\ FinalDraftVerified'
  <1>. SUFFICES ASSUME TypeOK, DraftInv, FinalDraftVerified, [Next]_vars
                PROVE  DraftInv' /\ FinalDraftVerified'
    OBVIOUS
  <1>. lastAI \in AIMessage /\ reply \in Reply /\ steps \in Nat
    BY DEF TypeOK, DataType
  <1>. USE DEF DraftInv, FinalDraftVerified, Goto
  <1>1. CASE StartTurn
    BY <1>1 DEF StartTurn, Ainvoke
  <1>2. CASE ClearHandoff \/ TimePasses \/ UNCHANGED vars
    <2>1. /\ UNCHANGED <<pc, steps, lastAI, reply, lead_profile>>
          /\ Quiet \/ UNCHANGED asked_ago
      BY Zenon, <1>2 DEF ClearHandoff, TimePasses, vars, history, lead
    <2>. QED
      BY <2>1 DEF Quiet
  <1>3. CASE ReflectStep
    <2>1. ASSUME NEW d \in Draft, SendOn(d)
          PROVE  DraftInv' /\ FinalDraftVerified'
      <3>1. PICK e \in Draft : ReplaceAI(e, FALSE) /\ (e.ask => asked_ago' = 0)
        BY <2>1, SendOnSendsADraft
      <3>. QED
        BY <2>1, <3>1 DEF SendOn, ReplaceAI
    <2>2. lastAI.text # NoText => lastAI.text \in Draft
      BY DEF AIMessage, Text
    <2>3. CASE ReflectSkips
      BY <2>3 DEF ReflectSkips, history
    <2>4. CASE ReflectBounces
      BY <2>4 DEF ReflectBounces, RouteFix
    <2>. QED
      BY <1>3, <2>1, <2>2, <2>3, <2>4, FixesAreDrafts, BuiltValues
         DEF ReflectStep, ReflectApproves, ReflectRepairs, ReflectGivesUp
  <1>4. CASE GuardStep
    <2>1. CASE GuardSkips
      BY <2>1 DEF GuardSkips, history
    <2>2. CASE GuardPasses
      <3>1. /\ reply'.vetted /\ reply'.fresh = reply.fresh /\ reply'.text = reply.text
            /\ pc' = "END" /\ lastAI' = lastAI
        BY <2>2 DEF GuardPasses, Reply
      <3>. QED
        BY <2>2, <3>1 DEF GuardPasses
    <2>3. CASE GuardBlocks
      BY <2>3 DEF GuardBlocks, ReplaceAI, HONEST_FALLBACK
    <2>. QED
      BY <1>4, <2>1, <2>2, <2>3 DEF GuardStep
  <1>5. CASE NodeStep /\ ~ReflectStep /\ ~GuardStep
    <2>1. pc' \notin {"pricing_guard", "END"}
      BY Zenon, <1>5 DEF NodeStep, DetectObjection, EscalateObjection, RouteAfterDetect,
         Agent, RouteAfterAgent, ToolStep, ToolExecReturns, RouteAfterTools,
         RetrieveKb, CaptureLead, BookTrial, HandoffToHuman, UnsupportedTool,
         InToolExec, AtCall, GradeChunks, Fallback, HandleObjection, NodeRaises
    <2>. QED
      BY <2>1
  <1>. QED
    BY <1>1, <1>2, <1>3, <1>4, <1>5 DEF Next

\* The text the customer gets is this turn's, checked, and at catalog prices.
THEOREM DraftsAreVerified == Spec => []FinalDraftVerified
  <1>1. Init => DraftInv /\ FinalDraftVerified
    BY DEF Init, DraftInv, FinalDraftVerified
  <1>. QED
    BY <1>1, DraftInvIsInductive, TypeCorrect, PTL DEF Spec

\* A turn that ends with a phone ask has just restarted the one-ask clock.
THEOREM AsksAreStamped == Spec => AskIsStamped
  <1>1. Init => DraftInv /\ FinalDraftVerified
    BY DEF Init, DraftInv, FinalDraftVerified
  <1>2. ASSUME TypeOK, DraftInv, GuardStep, lastAI.text # NoText, reply'.text.ask,
               "sdt" \notin lead_profile
        PROVE  asked_ago' = 0
    <2>1. CASE GuardPasses
      <3>1. reply'.text = reply.text /\ asked_ago' = asked_ago /\ pc = "pricing_guard"
        BY <2>1 DEF GuardPasses, TypeOK, DataType, Reply
      <3>. QED
        BY <1>2, <3>1 DEF DraftInv
    <2>2. CASE GuardBlocks
      BY <1>2, <2>2 DEF GuardBlocks
    <2>. QED
      BY <1>2, <2>1, <2>2 DEF GuardStep, GuardSkips
  <1>3. TypeOK /\ DraftInv /\ [Next]_vars =>
           [(/\ GuardStep /\ lastAI.text # NoText /\ reply'.text.ask
             /\ "sdt" \notin lead_profile) => asked_ago' = 0]_vars
    BY Zenon, <1>2
  <1>. QED
    BY <1>1, <1>3, DraftInvIsInductive, TypeCorrect, PTL DEF Spec, AskIsStamped

-----------------------------------------------------------------------------
(* The ladder *)

\* No tool but book_trial takes tool_exec's stage back.
LEMMA PendInvIsInductive == TypeOK /\ PendInv /\ [Next]_vars => PendInv'
  <1>. SUFFICES ASSUME TypeOK, PendInv, [Next]_vars
                PROVE  PendInv'
    OBVIOUS
  <1>. /\ pend \in PendingUpdate /\ next_call \in Nat \ {0}
       /\ normalize_stage(sales_stage) \in ALL_STAGES
       /\ normalize_stage(pend.sales_stage) \in ALL_STAGES
    BY NormalizeLands DEF TypeOK, DataType
  <1>1. ASSUME NEW d, NEW c, Agent(d, c)
        PROVE  PendInv'
    <2>1. pc' = "tool_exec" => pend'.sales_stage = sales_stage /\ sales_stage' = sales_stage
      BY <1>1 DEF Agent, RouteAfterAgent, Goto, lead
    <2>. QED
      BY <2>1, NoStepBackIsAnOrder DEF PendInv
  <1>2. CASE ToolStep
    <2>1. CASE ToolExecReturns
      BY <2>1 DEF ToolExecReturns, RouteAfterTools, Goto, PendInv
    <2>2. CASE ToolStep /\ ~ToolExecReturns
      <3>1. /\ pc = "tool_exec" /\ pc' = pc /\ next_call' = next_call + 1
            /\ UNCHANGED <<sales_stage, lastAI>>
        BY Zenon, <2>2 DEF ToolStep, RetrieveKb, CaptureLead, BookTrial,
           HandoffToHuman, UnsupportedTool, InToolExec, AtCall, lead, history
      <3>2. ASSUME NEW i \in DOMAIN lastAI.calls, i < next_call, lastAI.calls[i] = "book_trial"
            PROVE  PendInv'
        <4>1. lastAI.calls \in Seq(Tools)
          BY TurnAssumption DEF TypeOK, DataType, AIMessage
        <4>2. i \in Nat
          BY <3>2, <4>1
        <4>. QED
          BY <3>1, <3>2, <4>2 DEF PendInv
      <3>3. ASSUME NoStepBack(normalize_stage(sales_stage), normalize_stage(pend.sales_stage))
            PROVE  PendInv'
        <4>1. CASE BookTrial
          <5>1. /\ next_call \in DOMAIN lastAI.calls
                /\ lastAI.calls[next_call] = "book_trial"
            BY <4>1, TurnAssumption DEF BookTrial, AtCall, TypeOK, DataType, AIMessage
          <5>. QED
            BY <3>1, <5>1 DEF PendInv
        <4>2. ASSUME NEW fields, CaptureLead(fields)
              PROVE  PendInv'
          <5>1. PICK profile :
                   pend'.sales_stage = derive_stage(profile, pend.sales_stage)
            BY <4>2 DEF CaptureLead, PendingUpdate
          <5>2. NoStepBack(normalize_stage(pend.sales_stage), normalize_stage(pend'.sales_stage))
            BY <5>1, DeriveNeverStepsBack, NormalizeLands
          <5>. QED
            BY <3>1, <3>3, <5>2, NoStepBackIsAnOrder, NormalizeLands DEF PendInv
        <4>3. ASSUME NEW rowWritten, HandoffToHuman(rowWritten)
              PROVE  PendInv'
          <5>1. pend'.sales_stage \in {HANDOFF, pend.sales_stage}
            BY <4>3 DEF HandoffToHuman, PendingUpdate
          <5>2. normalize_stage(HANDOFF) = HANDOFF
            BY NormalizeLands DEF ALL_STAGES
          <5>. QED
            BY <3>1, <3>3, <5>1, <5>2 DEF PendInv, NoStepBack
        <4>4. ASSUME NEW found, RetrieveKb(found) \/ UnsupportedTool
              PROVE  PendInv'
          <5>1. pend'.sales_stage = pend.sales_stage
            BY <4>4 DEF RetrieveKb, UnsupportedTool, PendingUpdate
          <5>. QED
            BY <3>1, <3>3, <5>1 DEF PendInv
        <4>. QED
          BY <2>2, <4>1, <4>2, <4>3, <4>4 DEF ToolStep
      <3>. QED
        BY <3>1, <3>2, <3>3 DEF PendInv
    <2>. QED
      BY <1>2, <2>1, <2>2
  <1>3. CASE UNCHANGED vars \/ ClearHandoff \/ TimePasses
    BY <1>3 DEF vars, ClearHandoff, TimePasses, lead, history, locals, PendInv
  <1>4. CASE StartTurn \/ (NodeStep /\ ~ToolStep /\ ~\E d \in Drafts \cup {NoText},
                              c \in CallLists \cup {<<>>} : Agent(d, c))
    <2>1. pc' # "tool_exec"
      BY Zenon, <1>4 DEF StartTurn, Ainvoke, NodeStep, DetectObjection, EscalateObjection,
         RouteAfterDetect, GradeChunks, Fallback, HandleObjection, NodeRaises, ReflectStep,
         ReflectSkips, ReflectApproves, ReflectRepairs, ReflectBounces, ReflectGivesUp,
         RouteFix, SendOn, GuardStep, GuardSkips, GuardPasses, GuardBlocks, Goto
    <2>. QED
      BY <2>1 DEF PendInv
  <1>. QED
    BY <1>1, <1>2, <1>3, <1>4 DEF Next

\* No step takes the conversation back on the ladder, but for a booked trial.
THEOREM LadderIsClimbed == Spec => StageNeverStepsBack
  <1>. DEFINE Step == \/ NoStepBack(normalize_stage(sales_stage), normalize_stage(sales_stage'))
                      \/ BooksTrial
  <1>1. Init => PendInv
    BY DEF Init, PendInv
  <1>2. TypeOK /\ PendInv /\ [Next]_vars => [Step]_vars
    <2>. SUFFICES ASSUME TypeOK, PendInv, Next
                  PROVE  Step
      BY Zenon
    <2>. /\ normalize_stage(sales_stage) \in ALL_STAGES
         /\ NoStepBack(normalize_stage(sales_stage), normalize_stage(sales_stage))
      BY NormalizeLands, NoStepBackIsAnOrder
    <2>1. CASE sales_stage' = sales_stage
      BY <2>1
    <2>2. CASE sales_stage' = HANDOFF
      <3>1. normalize_stage(HANDOFF) = HANDOFF
        BY NormalizeLands DEF ALL_STAGES
      <3>. QED
        BY <2>2, <3>1 DEF NoStepBack
    <2>3. CASE ToolExecReturns
      <3>1. pc = "tool_exec" /\ pc' # "tool_exec" /\ sales_stage' = pend.sales_stage
        BY <2>3 DEF ToolExecReturns, RouteAfterTools, Goto
      <3>. QED
        BY <3>1 DEF PendInv, BooksTrial
    <2>4. CASE GuardPasses
      <3>1. sales_stage' \in {sales_stage, advance_stage(sales_stage, DA_BAO_GIA)}
        BY <2>4 DEF GuardPasses
      <3>2. normalize_stage(advance_stage(sales_stage, DA_BAO_GIA))
                = advance_stage(sales_stage, DA_BAO_GIA)
        BY BuiltValues, AdvanceNeverStepsBack, NormalizeLands
      <3>. QED
        BY <3>1, <3>2, BuiltValues, AdvanceNeverStepsBack
    <2>5. CASE ~ToolExecReturns /\ ~GuardPasses
      <3>1. sales_stage' \in {sales_stage, HANDOFF}
        BY Zenon, <2>5 DEF Next, StartTurn, Ainvoke, ClearHandoff, TimePasses, NodeStep,
           DetectObjection, EscalateObjection, Agent, ToolStep, RetrieveKb, CaptureLead,
           BookTrial, HandoffToHuman, UnsupportedTool, InToolExec, GradeChunks, Fallback,
           HandleObjection, ReflectStep, ReflectSkips, ReflectApproves, ReflectRepairs,
           ReflectBounces, ReflectGivesUp, SendOn, GuardStep, GuardSkips, GuardBlocks,
           NodeRaises, lead
      <3>. QED
        BY <2>1, <2>2, <3>1
    <2>. QED
      BY <2>3, <2>4, <2>5
  <1>. QED
    BY <1>1, <1>2, PendInvIsInductive, TypeCorrect, PTL DEF Spec, StageNeverStepsBack
=============================================================================
