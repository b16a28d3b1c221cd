------------------------- MODULE ThreadSessionProofs -------------------------
(***************************************************************************)
(* Proofs about one thread's session, for every value of the constants.    *)
(* The session runs the graph as ConversationTurn allows it to: each of    *)
(* its steps is a step of that specification or leaves the graph alone, so *)
(* what is proved of the graph holds here too.  What the dispatcher adds,  *)
(* the handoff row and the two clocks, is proved from an invariant that    *)
(* ties them to where _handle is.                                          *)
(***************************************************************************)
EXTENDS ThreadSession, ConversationTurnProofs

-----------------------------------------------------------------------------
(* What the graph keeps *)

Parked(stage) == normalize_stage(stage) \in {HANDOFF, DA_HEN_LICH}

\* From the write of the row on, the stage says so: in tool_exec the local
\* copy does, everywhere else the state.
ParkedInv ==
    wrote => /\ pc = "tool_exec" => Parked(pend.sales_stage)
             /\ pc \notin {"tool_exec", "raised"} => Parked(sales_stage)

\* A capture_lead adds to the profile.
ProfileInv == pc = "tool_exec" => lead_profile \subseteq pend.lead_profile

\* Nothing of a turn is checked before its guard has run.
VettedInv == pc \notin {"END", "raised"} => ~(reply.fresh /\ reply.vetted)

TurnInv ==
    TypeOK /\ RowInv /\ DraftInv /\ FinalDraftVerified /\ ParkedInv /\ ProfileInv
        /\ VettedInv

(* What _handle keeps *)

\* The graph runs only inside the invoke, and a thread with an owner was given
\* one by the last invoke: the gate lets none start while there is one.
PhaseInv ==
    /\ at # "invoke" => Quiet
    /\ owned => wrote
    /\ at = "budget" => ~owned

\* Until the number is known, phone_asked_at is no older than the last ask the
\* customer was sent.
ClockInv == "sdt" \notin lead_profile => asked_ago <= heard_ago

\* A draft that asks got past the phone gate, so no ask had been heard within
\* the window; what the guard lets out of it is stamped.
AskInv ==
    (at \in {"invoke", "before_send"} /\ "sdt" \notin lead_profile) =>
        /\ (pc = "pricing_guard" /\ lastAI.text # NoText /\ lastAI.text.ask) =>
               heard_ago = AskWindow
        /\ CheckedAsk => asked_ago = 0 /\ (blocked \/ heard_ago = AskWindow)

SessionInv == TurnInv /\ SessionTypeOK /\ PhaseInv /\ ClockInv /\ AskInv

-----------------------------------------------------------------------------
(* The graph's invariants that the session adds *)

\* Neither the profile nor a verified price takes a parked thread back to the
\* ladder below its last rung.
LEMMA ParkedStaysParked ==
    /\ Parked(HANDOFF) /\ Parked(DA_HEN_LICH)
    /\ \A stage, profile : Parked(stage) => Parked(derive_stage(profile, stage))
    /\ \A stage : Parked(stage) => Parked(advance_stage(stage, DA_BAO_GIA))
  BY NormalizeLands
     DEF Parked, derive_stage, advance_stage, Further, Implied, Rank, ALL_STAGES, Rungs,
         MOI, DA_RO_NHU_CAU, DA_BAO_GIA, CO_SDT, DA_HEN_LICH, HANDOFF

\* Only the commit of tool_exec, an escalation and the guard write the stage.
LEMMA ParkedInvIsInductive == TypeOK /\ ParkedInv /\ [Next]_vars => ParkedInv'
  <1>. SUFFICES ASSUME TypeOK, ParkedInv, [Next]_vars
                PROVE  ParkedInv'
    OBVIOUS
  <1>. wrote \in BOOLEAN /\ pend \in PendingUpdate
    BY DEF TypeOK, FlagType, DataType
  <1>. USE DEF ParkedInv, Goto, lead, gate, locals
  <1>1. CASE StartTurn
    BY <1>1 DEF StartTurn, Ainvoke
  <1>2. CASE ClearHandoff \/ TimePasses
    BY <1>2 DEF ClearHandoff, TimePasses
  <1>3. ASSUME NEW o, DetectObjection(o)
        PROVE  ParkedInv'
    BY <1>3 DEF DetectObjection, RouteAfterDetect
  <1>4. ASSUME NEW o, NEW rowWritten \in BOOLEAN, EscalateObjection(o, rowWritten)
        PROVE  ParkedInv'
    BY <1>4, ParkedStaysParked DEF EscalateObjection, RouteAfterDetect
  <1>5. ASSUME NEW d, NEW c, Agent(d, c)
        PROVE  ParkedInv'
    BY <1>5 DEF Agent, RouteAfterAgent
  <1>6. ASSUME NEW rowWritten \in BOOLEAN, HandoffToHuman(rowWritten)
        PROVE  ParkedInv'
    BY <1>6, ParkedStaysParked DEF HandoffToHuman, InToolExec, AtCall, PendingUpdate
  <1>7. CASE ToolExecReturns
    BY <1>7 DEF ToolExecReturns, RouteAfterTools
  <1>8. CASE \/ \E found \in BOOLEAN : RetrieveKb(found)
             \/ \E fields \in Updates : CaptureLead(fields)
             \/ BookTrial
             \/ UnsupportedTool
    <2>1. /\ pc = "tool_exec" /\ pc' = "tool_exec" /\ wrote' = wrote
          /\ Parked(pend.sales_stage) => Parked(pend'.sales_stage)
      <3>1. /\ pc = "tool_exec" /\ pc' = "tool_exec" /\ wrote' = wrote
            /\ \/ pend'.sales_stage \in {pend.sales_stage, DA_HEN_LICH}
               \/ \E profile :
                     pend'.sales_stage = derive_stage(profile, pend.sales_stage)
        <4>1. CASE \E fields \in Updates : CaptureLead(fields)
          BY <4>1 DEF CaptureLead, InToolExec, AtCall, PendingUpdate
        <4>2. CASE BookTrial
          BY <4>2 DEF BookTrial, InToolExec, AtCall, PendingUpdate
        <4>3. CASE (\E found \in BOOLEAN : RetrieveKb(found)) \/ UnsupportedTool
          BY <4>3 DEF RetrieveKb, UnsupportedTool, InToolExec, AtCall, PendingUpdate
        <4>. QED
          BY <1>8, <4>1, <4>2, <4>3
      <3>. QED
        BY <3>1, ParkedStaysParked
    <2>. QED
      BY <2>1
  <1>9. CASE (\E sufficient \in BOOLEAN : GradeChunks(sufficient)) \/ Fallback
    BY <1>9 DEF GradeChunks, Fallback
  <1>10. ASSUME NEW d, HandleObjection(d)
         PROVE  ParkedInv'
    BY <1>10 DEF HandleObjection
  <1>11. CASE ReflectStep
    <2>1. /\ pc = "reflect_lite"
          /\ pc' \in {"pricing_guard", "handle_objection", "agent"}
          /\ sales_stage' = sales_stage /\ wrote' = wrote
      BY Zenon, <1>11 DEF ReflectStep, ReflectSkips, ReflectApproves, ReflectRepairs,
         ReflectBounces, ReflectGivesUp, SendOn, RouteFix
    <2>. QED
      BY <2>1
  <1>12. CASE GuardStep
    <2>1. /\ pc = "pricing_guard" /\ pc' = "END" /\ wrote' = wrote
          /\ sales_stage' \in {sales_stage, advance_stage(sales_stage, DA_BAO_GIA)}
      BY <1>12 DEF GuardStep, GuardSkips, GuardPasses, GuardBlocks
    <2>. QED
      BY <2>1, ParkedStaysParked
  <1>13. CASE NodeRaises
    BY <1>13 DEF NodeRaises
  <1>14. CASE UNCHANGED vars
    BY <1>14 DEF vars
  <1>. QED
    BY <1>1, <1>2, <1>3, <1>4, <1>5, <1>6, <1>7, <1>8, <1>9, <1>10, <1>11, <1>12,
       <1>13, <1>14
       DEF Next, NodeStep, ToolStep

\* tool_exec's copy of the profile starts as the profile and grows.
LEMMA ProfileInvIsInductive == TypeOK /\ ProfileInv /\ [Next]_vars => ProfileInv'
  <1>. SUFFICES ASSUME TypeOK, ProfileInv, [Next]_vars
                PROVE  ProfileInv'
    OBVIOUS
  <1>. pend \in PendingUpdate
    BY DEF TypeOK, DataType
  <1>1. ASSUME NEW d, NEW c, Agent(d, c)
        PROVE  ProfileInv'
    BY <1>1 DEF Agent, RouteAfterAgent, Goto, lead, ProfileInv
  <1>2. CASE ToolStep /\ ~ToolExecReturns
    <2>1. /\ pc = "tool_exec" /\ lead_profile' = lead_profile
          /\ pend.lead_profile \subseteq pend'.lead_profile
      <3>1. ASSUME NEW found, RetrieveKb(found) \/ UnsupportedTool
            PROVE  pend'.lead_profile = pend.lead_profile
        BY <3>1 DEF RetrieveKb, UnsupportedTool, PendingUpdate
      <3>2. ASSUME NEW fields, CaptureLead(fields)
            PROVE  pend'.lead_profile = pend.lead_profile \cup fields
        BY <3>2 DEF CaptureLead, PendingUpdate
      <3>3. ASSUME NEW rowWritten, HandoffToHuman(rowWritten) \/ BookTrial
            PROVE  pend'.lead_profile = pend.lead_profile
        BY <3>3 DEF HandoffToHuman, BookTrial, PendingUpdate
      <3>4. pc = "tool_exec" /\ lead_profile' = lead_profile
        BY Zenon, <1>2 DEF ToolStep, RetrieveKb, CaptureLead, BookTrial, HandoffToHuman,
           UnsupportedTool, InToolExec, AtCall, lead
      <3>. QED
        BY <1>2, <3>1, <3>2, <3>3, <3>4 DEF ToolStep
    <2>. QED
      BY <2>1 DEF ProfileInv
  <1>3. CASE UNCHANGED vars \/ ClearHandoff \/ TimePasses
    BY <1>3 DEF vars, ClearHandoff, TimePasses, lead, locals, ProfileInv
  <1>4. CASE \/ StartTurn
             \/ NodeStep /\ ~(ToolStep /\ ~ToolExecReturns)
                  /\ ~\E d \in Drafts \cup {NoText},
                         c \in CallLists \cup {<<>>} : Agent(d, c)
    <2>1. pc' # "tool_exec"
      BY Zenon, <1>4 DEF StartTurn, Ainvoke, NodeStep, ToolExecReturns, RouteAfterTools,
         DetectObjection, EscalateObjection, RouteAfterDetect, GradeChunks, Fallback,
         HandleObjection, NodeRaises, ReflectStep, ReflectSkips, ReflectApproves,
         ReflectRepairs, ReflectBounces, ReflectGivesUp, RouteFix, SendOn, GuardStep,
         GuardSkips, GuardPasses, GuardBlocks, Goto
    <2>. QED
      BY <2>1 DEF ProfileInv
  <1>. QED
    BY <1>1, <1>2, <1>3, <1>4 DEF Next, NodeStep

\* A text of this turn is unchecked from the moment it is written.
LEMMA VettedInvIsInductive == TypeOK /\ VettedInv /\ [Next]_vars => VettedInv'
  <1>. SUFFICES ASSUME TypeOK, VettedInv, [Next]_vars
                PROVE  VettedInv'
    OBVIOUS
  <1>. reply \in Reply
    BY DEF TypeOK, DataType
  <1>. USE DEF VettedInv
  <1>1. CASE StartTurn
    <2>1. reply'.fresh = FALSE
      BY <1>1 DEF StartTurn, Ainvoke, Reply
    <2>. QED
      BY <2>1
  <1>2. CASE ClearHandoff \/ TimePasses \/ UNCHANGED vars
    <2>1. UNCHANGED <<pc, reply>>
      BY Zenon, <1>2 DEF ClearHandoff, TimePasses, vars, history
    <2>. QED
      BY <2>1
  <1>3. ASSUME NEW d, NEW c, AppendAI(d, c), pc \notin {"END", "raised"}
        PROVE  VettedInv'
    BY <1>3 DEF AppendAI
  <1>4. CASE \/ \E d \in Drafts \cup {NoText}, c \in CallLists \cup {<<>>} : Agent(d, c)
             \/ Fallback
             \/ \E d \in Drafts \cup {NoText} : HandleObjection(d)
    BY Zenon, <1>3, <1>4 DEF Agent, Fallback, HandleObjection
  <1>5. CASE ReflectStep
    <2>1. ASSUME NEW d, SendOn(d)
          PROVE  VettedInv'
      <3>1. PICK e : ReplaceAI(e, FALSE)
        BY Zenon, <2>1 DEF SendOn
      <3>2. reply'.vetted = FALSE
        BY <3>1 DEF ReplaceAI
      <3>. QED
        BY <3>2
    <2>2. CASE ReflectSkips \/ ReflectBounces
      <3>1. pc = "reflect_lite" /\ reply' = reply
        BY Zenon, <2>2 DEF ReflectSkips, ReflectBounces, history
      <3>. QED
        BY <3>1
    <2>. QED
      BY Zenon, <1>5, <2>1, <2>2
         DEF ReflectStep, ReflectApproves, ReflectRepairs, ReflectGivesUp
  <1>6. CASE GuardStep
    <2>1. pc' = "END"
      BY Zenon, <1>6 DEF GuardStep, GuardSkips, GuardPasses, GuardBlocks, Goto
    <2>. QED
      BY <2>1
  <1>7. CASE NodeRaises
    BY <1>7 DEF NodeRaises
  <1>8. CASE \/ \E o \in Objections \cup {None} : DetectObjection(o)
             \/ \E o \in Objections, rowWritten \in BOOLEAN :
                   EscalateObjection(o, rowWritten)
             \/ ToolStep
             \/ \E sufficient \in BOOLEAN : GradeChunks(sufficient)
    <2>1. reply' = reply /\ pc \in {"detect_objection", "tool_exec", "grade_chunks"}
      BY Zenon, <1>8 DEF DetectObjection, EscalateObjection, ToolStep, ToolExecReturns,
         RetrieveKb, CaptureLead, BookTrial, HandoffToHuman, UnsupportedTool, InToolExec,
         AtCall, GradeChunks, history
    <2>. QED
      BY <2>1
  <1>. QED
    BY <1>1, <1>2, <1>4, <1>5, <1>6, <1>7, <1>8 DEF Next, NodeStep

\* All that is known of the graph is kept by each of its steps.
LEMMA TurnInvIsInductive == TurnInv /\ [Next]_vars => TurnInv'
  BY FlagsKeepType, DataKeepsType, RowInvIsInductive, DraftInvIsInductive,
     ParkedInvIsInductive, ProfileInvIsInductive, VettedInvIsInductive
     DEF TurnInv, TypeOK

\* A node that gives the thread an owner has written the row.
LEMMA OwnerFollowsRow ==
    ASSUME TypeOK, RowInv, owned => wrote, NodeStep
    PROVE  owned' => wrote'
  <1>. owned \in BOOLEAN /\ wrote \in BOOLEAN
    BY DEF TypeOK, FlagType
  <1>1. ASSUME NEW o, NEW rowWritten \in BOOLEAN, EscalateObjection(o, rowWritten)
        PROVE  owned' => wrote'
    BY <1>1 DEF EscalateObjection, RowInv
  <1>2. ASSUME NEW rowWritten \in BOOLEAN, HandoffToHuman(rowWritten)
        PROVE  owned' => wrote'
    BY <1>2 DEF HandoffToHuman
  <1>3. CASE /\ ~\E o \in Objections, rowWritten \in BOOLEAN :
                    EscalateObjection(o, rowWritten)
             /\ ~\E rowWritten \in BOOLEAN : HandoffToHuman(rowWritten)
    <2>1. UNCHANGED gate
      BY Zenon, <1>3 DEF NodeStep, DetectObjection, Agent, ToolStep, ToolExecReturns,
         RetrieveKb, CaptureLead, BookTrial, UnsupportedTool, GradeChunks, Fallback,
         HandleObjection, ReflectStep, ReflectSkips, ReflectApproves, ReflectRepairs,
         ReflectBounces, ReflectGivesUp, SendOn, GuardStep, GuardSkips, GuardPasses,
         GuardBlocks, NodeRaises
    <2>. QED
      BY <2>1 DEF gate
  <1>. QED
    BY <1>1, <1>2, <1>3

\* A node leaves phone_asked_at or stamps it, and loses nothing of the profile.
LEMMA NodesOnTheLead ==
    ASSUME TypeOK, ProfileInv, NodeStep
    PROVE  lead_profile \subseteq lead_profile' /\ asked_ago' \in {asked_ago, 0}
  <1>1. CASE ToolExecReturns
    BY <1>1 DEF ToolExecReturns, ProfileInv
  <1>2. CASE ReflectStep
    BY Zenon, <1>2 DEF ReflectStep, ReflectSkips, ReflectApproves, ReflectRepairs,
       ReflectBounces, ReflectGivesUp, SendOn, lead
  <1>3. CASE GuardStep
    BY Zenon, <1>3 DEF GuardStep, GuardSkips, GuardPasses, GuardBlocks, lead
  <1>4. CASE ~ToolExecReturns /\ ~ReflectStep /\ ~GuardStep
    <2>1. lead_profile' = lead_profile /\ asked_ago' = asked_ago
      BY Zenon, <1>4 DEF NodeStep, DetectObjection, EscalateObjection, Agent, ToolStep,
         RetrieveKb, CaptureLead, BookTrial, HandoffToHuman, UnsupportedTool, InToolExec,
         GradeChunks, Fallback, HandleObjection, NodeRaises, lead
    <2>. QED
      BY <2>1
  <1>. QED
    BY <1>1, <1>2, <1>3, <1>4

\* What reflect_lite sends on asks only past the phone gate.
LEMMA AsksPassTheGate ==
    ASSUME NEW d \in Draft, SendOn(d)
    PROVE  \E e \in Draft : ReplaceAI(e, FALSE) /\ (e.ask => ~should_suppress)
  BY FixesAreDrafts, BuiltValues DEF SendOn, strip_phone_ask, NEUTRAL_CONTINUATION

-----------------------------------------------------------------------------
(* The session runs the graph as ConversationTurn says *)

\* A step of the session is a step of the graph's specification, or none: the
\* invoke starts with no owner, and the clock advances between turns.
LEMMA SessionStepIsTurnStep ==
    TypeOK /\ PhaseInv /\ [SessionNext]_svars => [Next]_vars
  <1>. SUFFICES ASSUME TypeOK, PhaseInv, [SessionNext]_svars
                PROVE  [Next]_vars
    OBVIOUS
  <1>1. CASE OnFlush \/ NobodyOwns \/ TimedOut \/ HumanOwns \/ GateRaises
               \/ BudgetDegrade \/ AfterInvoke \/ UNCHANGED svars
    BY Zenon, <1>1 DEF OnFlush, NobodyOwns, TimedOut, HumanOwns, GateRaises, BudgetDegrade, AfterInvoke,
       InvokeReturns, DropReply, SendRaises, Deliver, svars
  <1>2. CASE AutoResume \/ OperatorResumes
    BY Zenon, <1>2 DEF AutoResume, OperatorResumes, Next
  <1>3. CASE StartInvoke
    BY Zenon, <1>3 DEF StartInvoke, PhaseInv, Next, StartTurn
  <1>4. CASE InGraph
    BY Zenon, <1>4 DEF InGraph, Next
  <1>5. CASE Tick
    <2>1. /\ Quiet
          /\ asked_ago' = Older(asked_ago, AskWindow)
          /\ UNCHANGED <<pc, steps, perTurn, flags, sales_stage, lead_profile, objected,
                         history, locals, gate>>
      BY Zenon, <1>5 DEF Tick, PhaseInv
    <2>2. CASE asked_ago < AskWindow
      <3>1. TimePasses
        BY Zenon, <2>1, <2>2 DEF TimePasses, Older
      <3>. QED
        BY Zenon, <3>1 DEF Next
    <2>3. CASE ~(asked_ago < AskWindow)
      <3>1. asked_ago' = asked_ago
        BY Zenon, <2>1, <2>3 DEF Older
      <3>. QED
        BY Zenon, <2>1, <3>1 DEF vars, lead
    <2>. QED
      BY <2>2, <2>3
  <1>. QED
    BY Zenon, <1>1, <1>2, <1>3, <1>4, <1>5 DEF SessionNext, HandleStep, BeforeInvoke

-----------------------------------------------------------------------------
(* What the dispatcher adds *)

\* The clocks run up to their bounds and the places of _handle are its own.
LEMMA SessionTypeIsInductive ==
    SessionTypeOK /\ PhaseInv' /\ [SessionNext]_svars => SessionTypeOK'
  <1>. SUFFICES ASSUME SessionTypeOK, PhaseInv', [SessionNext]_svars
                PROVE  SessionTypeOK'
    OBVIOUS
  <1>. AskWindow \in Nat /\ ResumeWindow \in Nat /\ LongAgo \in Nat
    BY TurnAssumption, SessionAssumption DEF LongAgo
  <1>. /\ user_ago \in 0..LongAgo /\ human_ago \in 0..LongAgo
       /\ heard_ago \in 0..AskWindow
    BY DEF SessionTypeOK
  <1>1. blocked' \in BOOLEAN
    <2>1. CASE InGraph
      <3>1. (blocked \/ GuardBlocks) \in BOOLEAN
        OBVIOUS
      <3>. QED
        BY Zenon, <2>1, <3>1 DEF InGraph
    <2>2. CASE ~InGraph
      <3>1. blocked' = blocked \/ blocked' = FALSE
        BY Zenon, <2>2 DEF SessionNext, OnFlush, HandleStep, BeforeInvoke, NobodyOwns, TimedOut,
           AutoResume, HumanOwns, GateRaises, BudgetDegrade, StartInvoke, AfterInvoke,
           InvokeReturns, DropReply, SendRaises, Deliver, OperatorResumes, Tick, svars
      <3>. QED
        BY Zenon, <3>1 DEF SessionTypeOK
    <2>. QED
      BY <2>1, <2>2
  <1>2. /\ at' \in {at, "idle", "before_invoke", "resuming", "budget", "invoke",
               "before_send"}
        /\ outcome' \in {outcome, "none", "human owns", "silence", "degrade line", "reply",
                         "soft fail line"}
    BY Zenon DEF SessionNext, OnFlush, HandleStep, BeforeInvoke, NobodyOwns, TimedOut,
       AutoResume, HumanOwns, GateRaises, BudgetDegrade, StartInvoke, AfterInvoke, InGraph,
       InvokeReturns, DropReply, SendRaises, Deliver, OperatorResumes, Tick, svars, Finish
  <1>3. /\ at' \in {"idle", "before_invoke", "resuming", "budget", "invoke",
               "before_send"}
        /\ outcome' \in {"none", "human owns", "silence", "degrade line", "reply",
                         "soft fail line"}
    BY Zenon, <1>2 DEF SessionTypeOK
  <1>4. CASE Tick
    <2>1. /\ user_ago' = Older(user_ago, LongAgo)
          /\ human_ago' = Older(human_ago, LongAgo)
          /\ heard_ago' = Older(heard_ago, AskWindow)
      BY Zenon, <1>4 DEF Tick
    <2>2. /\ user_ago' \in 0..LongAgo /\ human_ago' \in 0..LongAgo
          /\ heard_ago' \in 0..AskWindow
      BY <2>1 DEF Older
    <2>. QED
      BY <1>1, <1>3, <2>2 DEF SessionTypeOK, LongAgo, PhaseInv
  <1>5. CASE ~Tick
    <2>1. /\ user_ago' \in {0, user_ago}
          /\ human_ago' \in {0, human_ago}
          /\ heard_ago' \in {0, heard_ago}
      BY Zenon, <1>5 DEF SessionNext, OnFlush, HandleStep, BeforeInvoke, NobodyOwns, TimedOut,
         AutoResume, HumanOwns, GateRaises, BudgetDegrade, StartInvoke, AfterInvoke,
         InGraph, InvokeReturns, DropReply, SendRaises, Deliver, OperatorResumes, svars,
         table
    <2>2. /\ user_ago' \in 0..LongAgo /\ human_ago' \in 0..LongAgo
          /\ heard_ago' \in 0..AskWindow
      BY <2>1
    <2>. QED
      BY <1>1, <1>3, <2>2 DEF SessionTypeOK, LongAgo, PhaseInv
  <1>. QED
    BY <1>4, <1>5

\* The gate keeps the graph from starting on a thread with an owner.
LEMMA PhaseInvIsInductive ==
    TurnInv /\ PhaseInv /\ [SessionNext]_svars => PhaseInv'
  <1>. SUFFICES ASSUME TurnInv, PhaseInv, [SessionNext]_svars
                PROVE  PhaseInv'
    OBVIOUS
  <1>. owned \in BOOLEAN
    BY DEF TurnInv, TypeOK, FlagType
  <1>. USE DEF PhaseInv
  <1>1. CASE OnFlush \/ NobodyOwns \/ TimedOut \/ HumanOwns \/ GateRaises
               \/ BudgetDegrade \/ DropReply \/ SendRaises \/ Deliver
    <2>1. /\ UNCHANGED <<pc, owned, wrote>>
          /\ at # "invoke"
          /\ at' \in {"idle", "before_invoke", "resuming", "budget"}
          /\ at' = "budget" => ~owned
      BY <1>1 DEF OnFlush, NobodyOwns, TimedOut, HumanOwns, GateRaises, BudgetDegrade,
         DropReply, SendRaises, Deliver, Finish, vars, gate
    <2>. QED
      BY <2>1 DEF Quiet
  <1>2. CASE AutoResume \/ OperatorResumes
    <2>1. /\ owned' = FALSE /\ pc' = pc
          /\ at' = at \/ (at = "resuming" /\ at' = "budget")
      BY <1>2 DEF AutoResume, OperatorResumes, ClearHandoff, vars, gate
    <2>. QED
      BY <2>1 DEF Quiet
  <1>3. CASE StartInvoke
    BY <1>3 DEF StartInvoke, Ainvoke
  <1>4. CASE InGraph
    <2>1. at = "invoke" /\ at' = "invoke" /\ NodeStep
      BY Zenon, <1>4 DEF InGraph
    <2>2. owned' => wrote'
      BY <2>1, OwnerFollowsRow DEF TurnInv
    <2>. QED
      BY <2>1, <2>2
  <1>5. CASE InvokeReturns
    <2>1. /\ Quiet /\ UNCHANGED <<pc, owned, wrote>>
          /\ at' \in {"idle", "before_send"}
      BY <1>5 DEF InvokeReturns, Finish, vars, gate
    <2>. QED
      BY <2>1 DEF Quiet
  <1>6. CASE Tick \/ UNCHANGED svars
    <2>1. UNCHANGED <<pc, owned, wrote, at>>
      BY Zenon, <1>6 DEF Tick, svars, vars, gate
    <2>. QED
      BY <2>1 DEF Quiet
  <1>. QED
    BY <1>1, <1>2, <1>3, <1>4, <1>5, <1>6
       DEF SessionNext, HandleStep, BeforeInvoke, AfterInvoke

\* Whoever hears an ask has had it stamped.
LEMMA ClockInvIsInductive ==
    TurnInv /\ SessionTypeOK /\ ClockInv /\ AskInv /\ [SessionNext]_svars => ClockInv'
  <1>. SUFFICES ASSUME TurnInv, SessionTypeOK, ClockInv, AskInv, [SessionNext]_svars
                PROVE  ClockInv'
    OBVIOUS
  <1>. /\ AskWindow \in Nat /\ asked_ago \in 0..AskWindow /\ heard_ago \in 0..AskWindow
    BY TurnAssumption DEF TurnInv, TypeOK, DataType, SessionTypeOK
  <1>. USE DEF ClockInv
  <1>1. CASE InGraph
    <2>1. NodeStep /\ heard_ago' = heard_ago
      BY Zenon, <1>1 DEF InGraph
    <2>2. lead_profile \subseteq lead_profile' /\ asked_ago' \in {asked_ago, 0}
      BY <2>1, NodesOnTheLead DEF TurnInv
    <2>. QED
      BY <2>1, <2>2
  <1>2. CASE Deliver
    <2>1. UNCHANGED <<lead_profile, asked_ago>> /\ at = "before_send"
      BY Zenon, <1>2 DEF Deliver, vars, lead
    <2>2. CheckedAsk /\ "sdt" \notin lead_profile => asked_ago = 0
      BY <2>1 DEF AskInv
    <2>3. heard_ago' = IF CheckedAsk THEN 0 ELSE heard_ago
      BY Zenon, <1>2 DEF Deliver
    <2>. QED
      BY <2>1, <2>2, <2>3
  <1>3. CASE Tick
    <2>1. /\ lead_profile' = lead_profile
          /\ asked_ago' = Older(asked_ago, AskWindow)
          /\ heard_ago' = Older(heard_ago, AskWindow)
      BY Zenon, <1>3 DEF Tick
    <2>. QED
      BY <2>1 DEF Older
  <1>4. CASE SessionNext /\ ~InGraph /\ ~Deliver /\ ~Tick
    <2>1. UNCHANGED <<lead_profile, asked_ago, heard_ago>>
      BY Zenon, <1>4 DEF SessionNext, OnFlush, HandleStep, BeforeInvoke, NobodyOwns, TimedOut,
         AutoResume, HumanOwns, GateRaises, BudgetDegrade, StartInvoke, Ainvoke,
         AfterInvoke, InvokeReturns, DropReply, SendRaises, OperatorResumes,
         ClearHandoff, vars, lead
    <2>. QED
      BY <2>1
  <1>5. CASE UNCHANGED svars
    <2>1. UNCHANGED <<lead_profile, asked_ago, heard_ago>>
      BY Zenon, <1>5 DEF svars, vars, lead
    <2>. QED
      BY <2>1
  <1>. QED
    BY <1>1, <1>2, <1>3, <1>4, <1>5

\* An ask on its way out is the first one in a window, or the guard's own.
LEMMA AskInvIsInductive ==
    TurnInv /\ SessionTypeOK /\ PhaseInv /\ ClockInv /\ AskInv /\ [SessionNext]_svars
        => AskInv'
  <1>. SUFFICES ASSUME TurnInv, SessionTypeOK, PhaseInv, ClockInv, AskInv,
                       [SessionNext]_svars,
                       at' \in {"invoke", "before_send"}, "sdt" \notin lead_profile'
                PROVE  /\ (/\ pc' = "pricing_guard" /\ lastAI'.text # NoText
                           /\ lastAI'.text.ask) => heard_ago' = AskWindow
                       /\ CheckedAsk' => /\ asked_ago' = 0
                                         /\ blocked' \/ heard_ago' = AskWindow
    BY Zenon DEF AskInv
  <1>. /\ AskWindow \in Nat /\ asked_ago \in 0..AskWindow /\ heard_ago \in 0..AskWindow
       /\ lastAI \in AIMessage /\ reply \in Reply
    BY TurnAssumption DEF TurnInv, TypeOK, DataType, SessionTypeOK
  <1>1. CASE InGraph
    <2>1. /\ NodeStep /\ at = "invoke" /\ heard_ago' = heard_ago
          /\ blocked' = (blocked \/ GuardBlocks)
      BY Zenon, <1>1 DEF InGraph
    <2>2. "sdt" \notin lead_profile
      BY <2>1, NodesOnTheLead DEF TurnInv
    <2>3. ~should_suppress => heard_ago = AskWindow
      BY <2>2 DEF should_suppress, ClockInv
    <2>4. CASE ReflectStep
      <3>1. ASSUME NEW d \in Draft, SendOn(d)
            PROVE  /\ pc' = "pricing_guard"
                   /\ lastAI'.text.ask => heard_ago = AskWindow
        <4>1. PICK e \in Draft : ReplaceAI(e, FALSE) /\ (e.ask => ~should_suppress)
          BY <3>1, AsksPassTheGate
        <4>. QED
          BY <2>3, <3>1, <4>1 DEF SendOn, Goto, ReplaceAI
      <3>2. lastAI.text # NoText => lastAI.text \in Draft
        BY DEF AIMessage, Text
      <3>3. CASE ReflectSkips
        BY <3>3 DEF ReflectSkips, Goto, history, CheckedAsk
      <3>4. CASE ReflectBounces
        BY <3>4 DEF ReflectBounces, Goto, RouteFix, CheckedAsk
      <3>. QED
        BY <2>1, <2>4, <3>1, <3>2, <3>3, <3>4, FixesAreDrafts, BuiltValues
           DEF ReflectStep, ReflectApproves, ReflectRepairs, ReflectGivesUp, CheckedAsk
    <2>5. CASE GuardStep
      <3>1. pc' = "END" /\ pc = "pricing_guard"
        BY Zenon, <2>5 DEF GuardStep, GuardSkips, GuardPasses, GuardBlocks, Goto
      <3>2. CASE GuardSkips
        <4>1. reply' = reply
          BY Zenon, <3>2 DEF GuardSkips, history
        <4>. QED
          BY <3>1, <4>1 DEF TurnInv, VettedInv, CheckedAsk
      <3>3. CASE GuardPasses
        <4>1. /\ lastAI.text # NoText
              /\ reply'.text = reply.text /\ asked_ago' = asked_ago
          BY <3>3 DEF GuardPasses, Reply
        <4>2. reply.text = lastAI.text /\ (lastAI.text.ask => asked_ago = 0)
          BY <2>2, <3>1, <4>1 DEF TurnInv, DraftInv
        <4>3. lastAI.text.ask => heard_ago = AskWindow
          BY <2>1, <2>2, <3>1, <4>1 DEF AskInv
        <4>. QED
          BY <2>1, <3>1, <4>1, <4>2, <4>3 DEF CheckedAsk
      <3>4. CASE GuardBlocks
        <4>1. asked_ago' = 0
          BY <2>2, <3>4 DEF GuardBlocks
        <4>2. blocked'
          BY Zenon, <2>1, <3>4
        <4>. QED
          BY <3>1, <4>1, <4>2
      <3>. QED
        BY <2>5, <3>2, <3>3, <3>4 DEF GuardStep
    <2>6. CASE ~ReflectStep /\ ~GuardStep
      <3>1. pc' \notin {"pricing_guard", "END"}
        BY Zenon, <2>1, <2>6 DEF NodeStep, DetectObjection, EscalateObjection,
           RouteAfterDetect, Agent, RouteAfterAgent, ToolStep, ToolExecReturns,
           RouteAfterTools, RetrieveKb, CaptureLead, BookTrial, HandoffToHuman,
           UnsupportedTool, InToolExec, AtCall, GradeChunks, Fallback, HandleObjection,
           NodeRaises, Goto
      <3>. QED
        BY <3>1 DEF CheckedAsk
    <2>. QED
      BY <2>4, <2>5, <2>6
  <1>2. CASE StartInvoke
    <2>1. pc' = "detect_objection"
      BY Zenon, <1>2 DEF StartInvoke, Ainvoke
    <2>. QED
      BY <2>1 DEF CheckedAsk
  <1>3. CASE InvokeReturns \/ OperatorResumes \/ UNCHANGED svars
    <2>1. /\ UNCHANGED <<pc, lastAI, reply, lead_profile, asked_ago, heard_ago, blocked>>
          /\ at \in {"invoke", "before_send"}
      BY Zenon, <1>3 DEF InvokeReturns, OperatorResumes, ClearHandoff, svars, vars, lead,
         history
    <2>. QED
      BY <2>1 DEF AskInv, CheckedAsk
  <1>4. CASE SessionNext /\ ~InGraph /\ ~StartInvoke /\ ~InvokeReturns /\ ~OperatorResumes
    <2>1. at' \in {"idle", "before_invoke", "resuming", "budget"}
      BY Zenon, <1>4 DEF SessionNext, OnFlush, HandleStep, BeforeInvoke, NobodyOwns, TimedOut,
         AutoResume, HumanOwns, GateRaises, BudgetDegrade, AfterInvoke, DropReply,
         SendRaises, Deliver, Tick, Finish
    <2>. QED
      BY <2>1
  <1>. QED
    BY <1>1, <1>2, <1>3, <1>4

-----------------------------------------------------------------------------
(* Theorems *)

\* The invariant holds at the start and through every step.
THEOREM SessionInvHolds == SessionSpec => []SessionInv
  <1>1. SessionInit => SessionInv
    <2>. SUFFICES ASSUME SessionInit
                  PROVE  SessionInv
      OBVIOUS
    <2>. /\ AskWindow \in Nat /\ LongAgo \in Nat
         /\ Init /\ at = "idle" /\ heard_ago = AskWindow
      BY TurnAssumption, SessionAssumption DEF SessionInit, LongAgo
    <2>1. TypeOK
      <3>1. FlagType
        BY Zenon DEF Init, FlagType
      <3>2. pend \in PendingUpdate
        BY Zenon, BuiltValues DEF Init, NoPend, PendingUpdate
      <3>3. lastAI \in AIMessage /\ reply \in Reply
        BY Zenon DEF Init, NoReply, AIMessage, Reply, Text
      <3>. QED
        BY <3>1, <3>2, <3>3, TurnAssumption DEF Init, TypeOK, DataType
    <2>2. RowInv /\ ParkedInv /\ ProfileInv /\ VettedInv
      BY DEF Init, RowInv, ParkedInv, ProfileInv, VettedInv
    <2>3. DraftInv /\ FinalDraftVerified
      BY DEF Init, DraftInv, FinalDraftVerified
    <2>4. SessionTypeOK
      <3>1. blocked \in BOOLEAN
        BY Zenon DEF SessionInit
      <3>2. {user_ago, human_ago} \subseteq 0..LongAgo /\ heard_ago \in 0..AskWindow
        BY DEF SessionInit
      <3>. QED
        BY Zenon, <3>1, <3>2 DEF SessionInit, SessionTypeOK, Init, Quiet
    <2>5. PhaseInv /\ ClockInv /\ AskInv
      BY DEF Init, PhaseInv, Quiet, ClockInv, AskInv
    <2>. QED
      BY <2>1, <2>2, <2>3, <2>4, <2>5 DEF SessionInv, TurnInv
  <1>2. SessionInv /\ [SessionNext]_svars => SessionInv'
    <2>. SUFFICES ASSUME SessionInv, [SessionNext]_svars
                  PROVE  SessionInv'
      OBVIOUS
    <2>1. [Next]_vars
      BY SessionStepIsTurnStep DEF SessionInv, TurnInv
    <2>. QED
      BY <2>1, TurnInvIsInductive, SessionTypeIsInductive, PhaseInvIsInductive,
         ClockInvIsInductive, AskInvIsInductive DEF SessionInv
  <1>. QED
    BY <1>1, <1>2, PTL DEF SessionSpec

\* Every session is a behaviour of the graph's own specification: the gate,
\* the lock and the clock of the session give the graph no step it lacks.
THEOREM SessionRunsTheGraph == SessionSpec => Spec
  <1>1. SessionInit => Init
    BY DEF SessionInit
  <1>2. SessionInv /\ [SessionNext]_svars => [Next]_vars
    BY SessionStepIsTurnStep DEF SessionInv, TurnInv
  <1>. QED
    BY <1>1, <1>2, SessionInvHolds, PTL DEF SessionSpec, Spec

\* The dispatcher's own variables keep the kinds the code gives them.
THEOREM SessionTypeCorrect == SessionSpec => []SessionTypeOK
  <1>1. SessionInv => SessionTypeOK
    BY DEF SessionInv
  <1>. QED
    BY <1>1, SessionInvHolds, PTL

\* While a turn is at work, only a human it called in itself owns the thread.
THEOREM OwnerIsThisTurns == SessionSpec => []OwnerWasCalledByThisTurn
  <1>1. SessionInv => OwnerWasCalledByThisTurn
    BY DEF SessionInv, PhaseInv, OwnerWasCalledByThisTurn
  <1>. QED
    BY <1>1, SessionInvHolds, PTL

\* A thread a human owns is at HANDOFF, or has its trial booked, unless the
\* turn that called the human in failed.
THEOREM OwnedIsParked == SessionSpec => []OwnedThreadIsParked
  <1>1. SessionInv => OwnedThreadIsParked
    BY DEF SessionInv, TurnInv, ParkedInv, PhaseInv, Parked, OwnedThreadIsParked
  <1>. QED
    BY <1>1, SessionInvHolds, PTL

\* Two asks the customer is sent lie a window apart, or the second is the
\* guard's own line.
THEOREM AsksAreAWindowApart == SessionSpec => AsksOncePerWindow
  <1>1. SessionInv /\ [SessionNext]_svars =>
           [(Deliver /\ CheckedAsk /\ "sdt" \notin lead_profile /\ ~blocked)
               => heard_ago = AskWindow]_svars
    <2>1. SessionInv /\ Deliver /\ CheckedAsk /\ "sdt" \notin lead_profile /\ ~blocked
             => heard_ago = AskWindow
      BY DEF SessionInv, AskInv, Deliver
    <2>. QED
      BY Zenon, <2>1
  <1>. QED
    BY <1>1, SessionInvHolds, PTL DEF SessionSpec, AsksOncePerWindow
=============================================================================
