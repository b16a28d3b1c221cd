-------------------------- MODULE ConversationTurn --------------------------
(***************************************************************************)
(* The LangGraph StateGraph of chatbot/app/graph, run turn after turn on   *)
(* one conversation thread: one action per node outcome, with the state    *)
(* the checkpointer keeps for the thread (ConvState) and the row of        *)
(* handoff_status that run_handoff_to_human writes.                        *)
(*                                                                         *)
(* A node commits its update when it returns (one LangGraph superstep); a  *)
(* node that raises commits nothing and ends the invoke.  The effects that *)
(* leave the graph (the handoff row) happen where the code awaits them.    *)
(*                                                                         *)
(* The message history is kept as what the code reads of it: its newest    *)
(* AIMessage, its newest AIMessage with text (what _extract_reply finds),  *)
(* and whether some tool call in it was never answered.  A text is a       *)
(* record of the three facts the gates decide on.                          *)
(***************************************************************************)
EXTENDS SalesStage, Sequences, FiniteSets

CONSTANTS
    MaxToolRounds,   \* MAX_TOOL_ROUNDS: the agent <-> tool loop cap
    RecursionLimit,  \* LangGraph's superstep limit per invoke
    AskWindow,       \* ASK_WINDOW_SECONDS, in the clock's unit
    Drafts,          \* the texts the LLM may write
    CallLists,       \* the tool-call lists the agent may emit
    Updates,         \* the sets of profile fields a capture_lead may carry
    Objections,      \* OBJECTION_TYPES without "none"
    SoSanh,          \* SO_SANH_CHO_KHAC: the customer names a competitor
    InitialStages,   \* the sales_stage values a thread may start with
    NoText           \* an AIMessage whose content is empty

None == "none"

RepeatLimit == 1     \* _REPEAT_LIMIT

Tools == {"retrieve_kb", "capture_lead", "book_trial", "handoff_to_human",
          "unsupported"}

\* promise: a phrase of the blocklist; ask: asks for a phone number;
\* price: no course price, one the catalog lists, or one it does not.
Draft == [promise : BOOLEAN, ask : BOOLEAN, price : {"none", "listed", "wrong"}]

HONEST_FALLBACK == [promise |-> FALSE, ask |-> TRUE, price |-> "none"]

NEUTRAL_CONTINUATION == [promise |-> FALSE, ask |-> FALSE, price |-> "none"]

ASSUME TurnAssumption ==
    /\ MaxToolRounds \in Nat
    /\ RecursionLimit \in Nat
    /\ 3 * MaxToolRounds + 8 <= RecursionLimit
    /\ AskWindow \in Nat \ {0}
    /\ Drafts \subseteq Draft
    /\ CallLists \subseteq Seq(Tools) \ {<<>>}
    /\ Updates \subseteq SUBSET ProfileFields
    /\ None \notin Objections
    /\ SoSanh \in Objections
    /\ InitialStages \subseteq StoredStages
    /\ NoText \notin Draft

VARIABLES
    pc,                 \* the node to run next, "END" or "raised"
    steps,              \* supersteps of this invoke so far
    objection_type, objection_count,
    tool_rounds, reflect_count, objection_fix_done, fix_hint,
    hits,               \* retrieved_this_turn is not empty
    handoff, escalated,
    sales_stage, lead_profile,
    asked_ago,          \* clock units since phone_asked_at; AskWindow: long ago or never
    lastAI,             \* the newest AIMessage
    open,               \* its tool calls have no ToolMessages yet
    dangling,           \* tool calls of an older AIMessage never got theirs
    reply,              \* the newest AIMessage with text
    next_call, pend,    \* tool_exec's loop: the call it is at, its local update
    owned,              \* handoff_status.active of this thread
    wrote,              \* history: this invoke wrote the handoff row
    argued,             \* history: the groups an earlier turn argued about
    drafted             \* history: this turn has drafted an argument

perTurn  == <<tool_rounds, reflect_count, objection_fix_done, fix_hint, hits>>
flags    == <<handoff, escalated>>
lead     == <<sales_stage, lead_profile, asked_ago>>
objected == <<objection_type, objection_count, argued, drafted>>
history  == <<lastAI, open, dangling, reply>>
locals   == <<next_call, pend>>
gate     == <<owned, wrote>>

vars == <<pc, steps, perTurn, flags, lead, objected, history, locals, gate>>

Quiet == pc \in {"END", "raised"}

\* Nothing of tool_exec's locals outlives the node.
NoPend == [sales_stage |-> MOI, lead_profile |-> {}, handoff |-> FALSE,
           escalated |-> FALSE, did_retrieve |-> FALSE, hits |-> FALSE]

Text == Draft \cup {NoText}

AIMessage == [text : Text, calls : CallLists \cup {<<>>}]

Reply == [text : Text, fresh : BOOLEAN, vetted : BOOLEAN]

PendingUpdate == [sales_stage : StoredStages, lead_profile : SUBSET ProfileFields,
                  handoff : BOOLEAN, escalated : BOOLEAN,
                  did_retrieve : BOOLEAN, hits : BOOLEAN]

\* fresh: of this turn; vetted: pricing_guard gave its verdict on it.
NoReply == [text |-> NoText, fresh |-> FALSE, vetted |-> FALSE]

Init ==
    /\ pc = "END"
    /\ steps = 0
    /\ objection_type = None
    /\ objection_count = [g \in Objections |-> 0]
    /\ tool_rounds = 0
    /\ reflect_count = 0
    /\ objection_fix_done = FALSE
    /\ fix_hint = FALSE
    /\ hits = FALSE
    /\ handoff = FALSE
    /\ escalated = FALSE
    /\ sales_stage \in InitialStages
    /\ lead_profile = {}
    /\ asked_ago = AskWindow
    /\ lastAI = [text |-> NoText, calls |-> <<>>]
    /\ open = FALSE
    /\ dangling = FALSE
    /\ reply = NoReply
    /\ next_call = 1
    /\ pend = NoPend
    /\ owned = FALSE
    /\ wrote = FALSE
    /\ argued = {}
    /\ drafted = FALSE

-----------------------------------------------------------------------------
(* Around the graph *)

\* graph.ainvoke with the customer's message.
Ainvoke ==
    /\ Quiet
    /\ pc' = "detect_objection"
    /\ steps' = 0
    /\ reply' = [reply EXCEPT !.fresh = FALSE]
    /\ wrote' = FALSE
    /\ argued' = argued \cup {g \in Objections : drafted /\ g = objection_type}
    /\ drafted' = FALSE
    /\ UNCHANGED <<perTurn, flags, lead, objection_type, objection_count, lastAI,
                   open, dangling, locals, owned>>

\* handoff_manager.clear: /resume from an operator, or auto-resume.
ClearHandoff ==
    /\ owned
    /\ owned' = FALSE
    /\ UNCHANGED <<pc, steps, perTurn, flags, lead, objected, history, locals,
                   wrote>>

\* The clock advances between turns: a turn takes seconds, the window a day.
TimePasses ==
    /\ Quiet
    /\ asked_ago < AskWindow
    /\ asked_ago' = asked_ago + 1
    /\ UNCHANGED <<pc, steps, perTurn, flags, sales_stage, lead_profile,
                   objected, history, locals, gate>>

-----------------------------------------------------------------------------
(* Appending and replacing an AIMessage *)

AppendAI(d, c) ==
    /\ lastAI' = [text |-> d, calls |-> c]
    /\ open' = (c # <<>>)
    /\ dangling' = (dangling \/ open)
    /\ reply' = IF d = NoText THEN reply
                ELSE [text |-> d, fresh |-> TRUE, vetted |-> FALSE]

\* AIMessage(content=d, id=last_ai.id)
ReplaceAI(d, vetted) ==
    /\ lastAI' = [text |-> d, calls |-> <<>>]
    /\ reply' = [text |-> d, fresh |-> TRUE, vetted |-> vetted]
    /\ UNCHANGED <<open, dangling>>

Goto(node) ==
    /\ pc' = node
    /\ steps' = steps + 1

-----------------------------------------------------------------------------
(* detect_objection: the entry node *)

\* Mutant: the limit is off by one.
BrokenEscalates(o) == o = SoSanh \/ objection_count[o] > RepeatLimit

Escalates(o) == o = SoSanh \/ objection_count[o] >= RepeatLimit

RouteAfterDetect(o) ==
    IF o = None THEN "agent"
    ELSE IF Escalates(o) THEN "fallback" ELSE "handle_objection"

turn_reset ==
    /\ tool_rounds' = 0
    /\ reflect_count' = 0
    /\ objection_fix_done' = FALSE
    /\ fix_hint' = FALSE
    /\ hits' = FALSE

\* Mutant: last turn's `escalated` survives into this one.
BrokenDetectObjection(o) ==
    /\ pc = "detect_objection"
    /\ o # None => ~Escalates(o)
    /\ turn_reset
    /\ objection_type' = o
    /\ handoff' = FALSE
    /\ Goto(RouteAfterDetect(o))
    /\ UNCHANGED <<escalated, objection_count, argued, drafted, lead, history,
                   locals, gate>>

\* The classifier fails open: an error, or an unknown label, is None.
DetectObjection(o) ==
    /\ pc = "detect_objection"
    /\ o # None => ~Escalates(o)
    /\ turn_reset
    /\ objection_type' = o
    /\ handoff' = FALSE
    /\ escalated' = FALSE
    /\ Goto(RouteAfterDetect(o))
    /\ UNCHANGED <<objection_count, argued, drafted, lead, history, locals, gate>>

\* _escalate: run_handoff_to_human pages a human; rowWritten says whether
\* set_active succeeded.
EscalateObjection(o, rowWritten) ==
    /\ pc = "detect_objection"
    /\ o # None /\ Escalates(o)
    /\ turn_reset
    /\ objection_type' = o
    /\ handoff' = TRUE
    /\ escalated' = rowWritten
    /\ sales_stage' = IF rowWritten THEN HANDOFF ELSE sales_stage
    /\ owned' = (owned \/ rowWritten)
    /\ wrote' = rowWritten
    /\ Goto(RouteAfterDetect(o))
    /\ UNCHANGED <<objection_count, argued, drafted, lead_profile, asked_ago,
                   history, locals>>

-----------------------------------------------------------------------------
(* agent and tool_exec *)

\* Mutant: no cap on the tool rounds.
BrokenRouteAfterAgent(c) == IF c = <<>> THEN "reflect_lite" ELSE "tool_exec"

RouteAfterAgent(c) ==
    IF c = <<>> THEN "reflect_lite"
    ELSE IF tool_rounds >= MaxToolRounds THEN "fallback" ELSE "tool_exec"

\* tool_exec starts from the state the agent's superstep committed.
Agent(d, c) ==
    /\ pc = "agent"
    /\ AppendAI(d, c)
    /\ fix_hint' = FALSE
    /\ Goto(RouteAfterAgent(c))
    /\ next_call' = 1
    /\ pend' = IF RouteAfterAgent(c) # "tool_exec" THEN NoPend
               ELSE [sales_stage |-> sales_stage, lead_profile |-> lead_profile,
                     handoff |-> handoff, escalated |-> escalated,
                     did_retrieve |-> FALSE, hits |-> FALSE]
    /\ UNCHANGED <<tool_rounds, reflect_count, objection_fix_done, hits, flags,
                   lead, objected, gate>>

\* tool_exec is at a call of the tool named t.
AtCall(t) ==
    /\ pc = "tool_exec"
    /\ next_call <= Len(lastAI.calls)
    /\ lastAI.calls[next_call] = t

InToolExec == UNCHANGED <<pc, steps, perTurn, flags, lead, objected, history>>

RetrieveKb(found) ==
    /\ AtCall("retrieve_kb")
    /\ next_call' = next_call + 1
    /\ pend' = [pend EXCEPT !.did_retrieve = TRUE, !.hits = @ \/ found]
    /\ InToolExec /\ UNCHANGED gate

\* run_capture_lead: the fields the call carries are merged into the
\* profile; a failing Sheet or Telegram call changes nothing here.
CaptureLead(fields) ==
    /\ AtCall("capture_lead")
    /\ next_call' = next_call + 1
    /\ LET profile == pend.lead_profile \cup fields
       IN  pend' = [pend EXCEPT !.lead_profile = profile,
                                !.sales_stage = derive_stage(profile, @)]
    /\ InToolExec /\ UNCHANGED gate

BookTrial ==
    /\ AtCall("book_trial")
    /\ next_call' = next_call + 1
    /\ pend' = [pend EXCEPT !.sales_stage = DA_HEN_LICH]
    /\ InToolExec /\ UNCHANGED gate

\* Mutant: the row is written and the stage is left where it was.
BrokenHandoffToHuman(rowWritten) ==
    /\ AtCall("handoff_to_human")
    /\ next_call' = next_call + 1
    /\ pend' = [pend EXCEPT !.handoff = TRUE, !.escalated = @ \/ rowWritten]
    /\ owned' = (owned \/ rowWritten)
    /\ wrote' = (wrote \/ rowWritten)
    /\ InToolExec

\* run_handoff_to_human: the stage and `escalated` follow the row.
HandoffToHuman(rowWritten) ==
    /\ AtCall("handoff_to_human")
    /\ next_call' = next_call + 1
    /\ pend' = IF rowWritten
               THEN [pend EXCEPT !.handoff = TRUE, !.escalated = TRUE,
                                 !.sales_stage = HANDOFF]
               ELSE [pend EXCEPT !.handoff = TRUE]
    /\ owned' = (owned \/ rowWritten)
    /\ wrote' = (wrote \/ rowWritten)
    /\ InToolExec

UnsupportedTool ==
    /\ AtCall("unsupported")
    /\ next_call' = next_call + 1
    /\ InToolExec /\ UNCHANGED <<pend, gate>>

RouteAfterTools == IF pend.did_retrieve THEN "grade_chunks" ELSE "agent"

\* Every call has its ToolMessage: the node returns its update.
ToolExecReturns ==
    /\ pc = "tool_exec"
    /\ next_call > Len(lastAI.calls)
    /\ open' = FALSE
    /\ tool_rounds' = tool_rounds + 1
    /\ hits' = IF pend.did_retrieve THEN pend.hits ELSE hits
    /\ handoff' = pend.handoff
    /\ escalated' = pend.escalated
    /\ sales_stage' = pend.sales_stage
    /\ lead_profile' = pend.lead_profile
    /\ Goto(RouteAfterTools)
    /\ next_call' = 1
    /\ pend' = NoPend
    /\ UNCHANGED <<reflect_count, objection_fix_done, fix_hint, asked_ago,
                   objected, lastAI, dangling, reply, gate>>

\* grade_chunks: no hits of this turn are insufficient without asking the LLM.
GradeChunks(sufficient) ==
    /\ pc = "grade_chunks"
    /\ sufficient => hits
    /\ Goto(IF sufficient THEN "agent" ELSE "fallback")
    /\ UNCHANGED <<perTurn, flags, lead, objected, history, locals, gate>>

-----------------------------------------------------------------------------
(* fallback and handle_objection *)

Fallback ==
    /\ pc = "fallback"
    /\ AppendAI(HONEST_FALLBACK, <<>>)
    /\ handoff' = TRUE
    /\ Goto("reflect_lite")
    /\ UNCHANGED <<perTurn, escalated, lead, objected, locals, gate>>

\* No tools are bound here.  Only the first draft of a turn counts; a rewrite
\* after a bounce spends the one repair instead.
HandleObjection(d) ==
    /\ pc = "handle_objection"
    /\ AppendAI(d, <<>>)
    /\ IF fix_hint
       THEN /\ objection_fix_done' = TRUE
            /\ UNCHANGED objection_count
       ELSE /\ objection_count' = [objection_count EXCEPT ![objection_type] = @ + 1]
            /\ UNCHANGED objection_fix_done
    /\ fix_hint' = FALSE
    /\ drafted' = TRUE
    /\ Goto("reflect_lite")
    /\ UNCHANGED <<tool_rounds, reflect_count, hits, flags, lead,
                   objection_type, argued, locals, gate>>

-----------------------------------------------------------------------------
(* reflect_lite, with the phone gate in _result *)

\* Mutant: the window closes one unit early.
BrokenShouldSuppress == "sdt" \notin lead_profile /\ asked_ago + 1 < AskWindow

should_suppress == "sdt" \notin lead_profile /\ asked_ago < AskWindow

\* Dropping sentences can drop the claims in them, and can cost a price the
\* course name that justified it.
strip_phone_ask(d) ==
    {e \in Draft : /\ ~e.ask
                   /\ e.promise => d.promise
                   /\ d.price = "none" => e.price = "none"}

\* Dropping the phrases leaves the rest of the text, if there is any.
strip_blocklist(d) ==
    {[d EXCEPT !.promise = FALSE]}
        \cup (IF ~d.ask /\ d.price = "none" THEN {NoText} ELSE {})

\* _result: the text goes on to pricing_guard through the phone gate.
SendOn(d) ==
    /\ \/ /\ ~d.ask
          /\ ReplaceAI(d, FALSE)
          /\ UNCHANGED asked_ago
       \/ /\ d.ask /\ ~should_suppress
          /\ ReplaceAI(d, FALSE)
          /\ asked_ago' = 0
       \/ /\ d.ask /\ should_suppress
          /\ \E e \in strip_phone_ask(d) \cup {NEUTRAL_CONTINUATION} :
                ReplaceAI(e, FALSE)
          /\ UNCHANGED asked_ago
    /\ Goto("pricing_guard")
    /\ UNCHANGED <<tool_rounds, reflect_count, objection_fix_done, fix_hint,
                   hits, escalated, sales_stage, lead_profile, objected,
                   locals, gate>>

ReflectSkips ==
    /\ pc = "reflect_lite"
    /\ lastAI.text = NoText
    /\ Goto("pricing_guard")
    /\ UNCHANGED <<perTurn, flags, lead, objected, history, locals, gate>>

\* The blocklist has no hit and the LLM finds no fault.
ReflectApproves ==
    /\ pc = "reflect_lite"
    /\ lastAI.text # NoText
    /\ ~lastAI.text.promise
    /\ SendOn(lastAI.text)
    /\ UNCHANGED handoff

\* What may replace a faulty draft d: its text without the phrases on a
\* blocklist hit, else the LLM's own fixed_reply.
Fixes(d) == IF d.promise THEN strip_blocklist(d) \ {NoText} ELSE Drafts

ReflectRepairs ==
    /\ pc = "reflect_lite"
    /\ lastAI.text # NoText
    /\ \E d \in Fixes(lastAI.text) : SendOn(d)
    /\ UNCHANGED handoff

\* Faulty, and neither the stripped text nor the LLM gives a replacement.
Unfixable ==
    /\ lastAI.text # NoText
    /\ lastAI.text.promise => NoText \in strip_blocklist(lastAI.text)

\* Mutant: every bounce goes to the agent.
BrokenRouteFix == "agent"

RouteFix ==
    IF objection_type # None /\ ~objection_fix_done THEN "handle_objection"
    ELSE "agent"

\* Mutant: the bounce is not limited to one.
BrokenReflectBounces ==
    /\ pc = "reflect_lite"
    /\ Unfixable
    /\ reflect_count' = reflect_count + 1
    /\ fix_hint' = TRUE
    /\ Goto(RouteFix)
    /\ UNCHANGED <<tool_rounds, objection_fix_done, hits, flags, lead,
                   objected, history, locals, gate>>

ReflectBounces ==
    /\ pc = "reflect_lite"
    /\ Unfixable
    /\ reflect_count = 0
    /\ reflect_count' = 1
    /\ fix_hint' = TRUE
    /\ Goto(RouteFix)
    /\ UNCHANGED <<tool_rounds, objection_fix_done, hits, flags, lead,
                   objected, history, locals, gate>>

ReflectGivesUp ==
    /\ pc = "reflect_lite"
    /\ Unfixable
    /\ reflect_count # 0
    /\ handoff' = TRUE
    /\ SendOn(HONEST_FALLBACK)

-----------------------------------------------------------------------------
(* pricing_guard: the last gate before END *)

GuardSkips ==
    /\ pc = "pricing_guard"
    /\ lastAI.text = NoText
    /\ Goto("END")
    /\ UNCHANGED <<perTurn, flags, lead, objected, history, locals, gate>>

\* Mutant: the guard fails open.
BrokenGuardPasses ==
    /\ pc = "pricing_guard"
    /\ lastAI.text # NoText
    /\ reply' = [reply EXCEPT !.vetted = TRUE]
    /\ Goto("END")
    /\ UNCHANGED <<perTurn, flags, lead, objected, lastAI, open, dangling,
                   locals, gate>>

\* A verified price moves the ladder; the stored stage is written only when
\* that changes it.
GuardPasses ==
    /\ pc = "pricing_guard"
    /\ lastAI.text # NoText
    /\ lastAI.text.price # "wrong"
    /\ reply' = [reply EXCEPT !.vetted = TRUE]
    /\ LET stage == advance_stage(sales_stage, DA_BAO_GIA)
       IN  sales_stage' = IF /\ lastAI.text.price = "listed"
                             /\ stage # normalize_stage(sales_stage)
                          THEN stage ELSE sales_stage
    /\ Goto("END")
    /\ UNCHANGED <<perTurn, flags, lead_profile, asked_ago, objected, lastAI,
                   open, dangling, locals, gate>>

\* Mutant: the canned line's own phone ask is not stamped.
BrokenGuardBlocks ==
    /\ pc = "pricing_guard"
    /\ lastAI.text # NoText
    /\ ReplaceAI(HONEST_FALLBACK, TRUE)
    /\ handoff' = TRUE
    /\ Goto("END")
    /\ UNCHANGED <<perTurn, escalated, lead, objected, locals, gate>>

\* A violation, or an exception in the check, on any text.
GuardBlocks ==
    /\ pc = "pricing_guard"
    /\ lastAI.text # NoText
    /\ ReplaceAI(HONEST_FALLBACK, TRUE)
    /\ handoff' = TRUE
    /\ asked_ago' = IF "sdt" \in lead_profile THEN asked_ago ELSE 0
    /\ Goto("END")
    /\ UNCHANGED <<perTurn, escalated, sales_stage, lead_profile, objected,
                   locals, gate>>

-----------------------------------------------------------------------------
(* An exception ends the invoke; the checkpoint is the last superstep's.   *)

\* Nodes that await an LLM without catching what with_retry re-raises.
AwaitsLlm ==
    \/ pc \in {"agent", "handle_objection"}
    \/ pc = "grade_chunks" /\ hits
    \/ pc = "reflect_lite" /\ lastAI.text # NoText /\ ~lastAI.text.promise

NodeRaises ==
    /\ AwaitsLlm \/ AtCall("retrieve_kb")
    /\ pc' = "raised"
    /\ next_call' = 1
    /\ pend' = NoPend
    /\ UNCHANGED <<steps, perTurn, flags, lead, objected, history, gate>>

-----------------------------------------------------------------------------
ToolStep ==
    \/ \E found \in BOOLEAN : RetrieveKb(found)
    \/ \E fields \in Updates : CaptureLead(fields)
    \/ BookTrial
    \/ \E rowWritten \in BOOLEAN : HandoffToHuman(rowWritten)
    \/ UnsupportedTool
    \/ ToolExecReturns

ReflectStep ==
    \/ ReflectSkips
    \/ ReflectApproves
    \/ ReflectRepairs
    \/ ReflectBounces
    \/ ReflectGivesUp

GuardStep == GuardSkips \/ GuardPasses \/ GuardBlocks

NodeStep ==
    \/ \E o \in Objections \cup {None} : DetectObjection(o)
    \/ \E o \in Objections, rowWritten \in BOOLEAN : EscalateObjection(o, rowWritten)
    \/ \E d \in Drafts \cup {NoText}, c \in CallLists \cup {<<>>} : Agent(d, c)
    \/ ToolStep
    \/ \E sufficient \in BOOLEAN : GradeChunks(sufficient)
    \/ Fallback
    \/ \E d \in Drafts \cup {NoText} : HandleObjection(d)
    \/ ReflectStep
    \/ GuardStep
    \/ NodeRaises

\* The dispatcher starts a turn only when no human owns the thread.
StartTurn == ~owned /\ Ainvoke

Next == StartTurn \/ ClearHandoff \/ TimePasses \/ NodeStep

Spec == Init /\ [][Next]_vars

-----------------------------------------------------------------------------
(* Properties *)

Nodes == {"detect_objection", "agent", "tool_exec", "grade_chunks", "fallback",
          "handle_objection", "reflect_lite", "pricing_guard"}

FlagType ==
    /\ objection_fix_done \in BOOLEAN /\ fix_hint \in BOOLEAN /\ hits \in BOOLEAN
    /\ handoff \in BOOLEAN /\ escalated \in BOOLEAN
    /\ open \in BOOLEAN /\ dangling \in BOOLEAN
    /\ owned \in BOOLEAN /\ wrote \in BOOLEAN /\ drafted \in BOOLEAN

DataType ==
    /\ pc \in Nodes \cup {"END", "raised"}
    /\ steps \in Nat
    /\ objection_type \in Objections \cup {None}
    /\ objection_count \in [Objections -> Nat]
    /\ argued \subseteq Objections
    /\ tool_rounds \in Nat
    /\ reflect_count \in {0, 1}
    /\ sales_stage \in StoredStages
    /\ lead_profile \in SUBSET ProfileFields
    /\ asked_ago \in 0..AskWindow
    /\ lastAI \in AIMessage
    /\ reply \in Reply
    /\ next_call \in Nat \ {0}
    /\ pend \in PendingUpdate

\* The variables hold values of the kinds the code gives them.
TypeOK == FlagType /\ DataType

\* No turn, whatever the LLM answers, reaches LangGraph's recursion limit,
\* which would end it in an exception: the tool-round cap, the single bounce
\* and the single repair bound every path through the graph together.
WithinRecursionLimit == steps <= RecursionLimit

\* An objection is answered only by handle_objection, which has the group's
\* playbook and no tools: no bounce sends its draft to the agent.
ObjectionStaysOnScript == pc \in {"agent", "tool_exec", "grade_chunks"} => objection_type = None

\* A group of objections that has had its answer goes to a person, and so does
\* a competitor: no turn drafts an argument about a group that an earlier turn
\* argued about unless it has called a human in first and the draft is the one
\* rewrite of a fallback line that reflect_lite bounced.  That rewrite is what
\* the code does, not what detect_objection.py promises: see
\* NeverArguesAboutCompetitor.
RepeatIsArguedOnlyOnceAHumanIsCalled ==
    (pc = "handle_objection" /\ objection_type \in argued \cup {SoSanh}) =>
        handoff /\ fix_hint /\ ~drafted

\* What the dispatcher reads as `escalated` when the invoke returns is exactly
\* that this invoke wrote the handoff row.
EscalatedIffRowWritten == pc = "END" => (escalated <=> wrote)

\* When the turn's last AIMessage has text, the text the customer gets is of
\* this turn, pricing_guard has checked it, and it holds no price the catalog
\* does not list.
FinalDraftVerified ==
    (pc = "END" /\ lastAI.text # NoText /\ steps > 0) =>
        /\ reply.fresh /\ reply.vetted
        /\ reply.text = lastAI.text
        /\ reply.text.price # "wrong"

\* The commit of a turn that books a trial.
BooksTrial ==
    /\ pc = "tool_exec" /\ pc' # "tool_exec"
    /\ \E i \in DOMAIN lastAI.calls : lastAI.calls[i] = "book_trial"

\* No step of any turn moves the conversation back on the ladder, and only a
\* booked trial takes it out of HANDOFF.
StageNeverStepsBack ==
    [][\/ NoStepBack(normalize_stage(sales_stage), normalize_stage(sales_stage'))
       \/ BooksTrial]_vars

\* A turn that ends with a phone ask to a customer whose number is unknown
\* leaves the clock of the one-ask rule just started.
AskIsStamped ==
    [][(/\ GuardStep
        /\ lastAI.text # NoText
        /\ reply'.text.ask
        /\ "sdt" \notin lead_profile) => asked_ago' = 0]_vars

-----------------------------------------------------------------------------
(* What the code's own comments say and its steps do not keep *)

\* graph_builder.py, "EVERY branch converges on reflect_lite -> pricing_guard":
\* the text an invoke returns for the customer has been through the guard in
\* this invoke.
EveryReplyIsChecked ==
    (pc = "END" /\ steps > 0 /\ reply.text # NoText) => reply.fresh /\ reply.vetted

\* detect_objection.py, "never generate a reply about a competitor" (a group's
\* second objection takes the same way round, by the same bounce).
NeverArguesAboutCompetitor == objection_type = SoSanh => pc # "handle_objection"
=============================================================================
