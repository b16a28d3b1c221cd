---------------------------- MODULE ThreadSession ----------------------------
(***************************************************************************)
(* One conversation thread as MessageDispatcher._handle drives it, under   *)
(* the thread's lock: the handoff gate before the invoke, the budget       *)
(* check, the graph (ConversationTurn), the second look at the handoff row *)
(* and the delivery; with the clock of the handoff row, the operator's     *)
(* /resume and the failures of the database and of the channel.            *)
(*                                                                         *)
(* The budget is the dispatcher's shared counter (Dispatcher models it):   *)
(* here a turn may find it used up at any time.                            *)
(***************************************************************************)
EXTENDS ConversationTurn

CONSTANT
    ResumeWindow     \* handoff_auto_resume_hours, in the clock's unit

ASSUME SessionAssumption == ResumeWindow \in Nat \ {0}

VARIABLES
    at,          \* where _handle is
    outcome,     \* what became of the customer's latest batch
    user_ago,    \* clock units since last_user_ts, beyond the window at most
    human_ago,   \* the same for last_human_ts
    blocked,     \* history: pricing_guard blocked this turn's draft
    heard_ago    \* history: clock units since a checked reply with a phone ask went out

table == <<user_ago, human_ago>>
svars == <<vars, at, outcome, user_ago, human_ago, blocked, heard_ago>>

LongAgo == ResumeWindow + 1

SessionInit ==
    /\ Init
    /\ at = "idle"
    /\ outcome = "none"
    /\ user_ago = LongAgo
    /\ human_ago = LongAgo
    /\ blocked = FALSE
    /\ heard_ago = AskWindow

\* _handle returns, or raises into DebounceBuffer's handler, which only logs.
Finish(result) ==
    /\ at' = "idle"
    /\ outcome' = result

-----------------------------------------------------------------------------
(* Before the invoke *)

\* on_flush: a batch of the customer's gets the thread's lock.
OnFlush ==
    /\ at = "idle"
    /\ at' = "before_invoke"
    /\ outcome' = "none"
    /\ blocked' = FALSE
    /\ UNCHANGED <<vars, table, heard_ago>>

\* Mutant: the gap is measured from the timestamp the touch has just written.
broken_should_auto_resume == 0 > ResumeWindow /\ human_ago > ResumeWindow

should_auto_resume == user_ago > ResumeWindow /\ human_ago > ResumeWindow

\* The touch stamps last_user_ts and returns the row as it was.
NobodyOwns ==
    /\ at = "before_invoke"
    /\ ~owned
    /\ user_ago' = 0
    /\ at' = "budget"
    /\ UNCHANGED <<vars, outcome, human_ago, blocked, heard_ago>>

\* The row is active and both sides have been silent: it is to be cleared.
TimedOut ==
    /\ at = "before_invoke"
    /\ owned /\ should_auto_resume
    /\ user_ago' = 0
    /\ at' = "resuming"
    /\ UNCHANGED <<vars, outcome, human_ago, blocked, heard_ago>>

\* Mutant: the turn goes on and the row stays active.
BrokenAutoResume ==
    /\ at = "resuming"
    /\ at' = "budget"
    /\ UNCHANGED <<vars, outcome, table, blocked, heard_ago>>

\* clear: an operator's /resume may have come first.
AutoResume ==
    /\ at = "resuming"
    /\ ClearHandoff \/ (~owned /\ UNCHANGED vars)
    /\ at' = "budget"
    /\ UNCHANGED <<outcome, table, blocked, heard_ago>>

HumanOwns ==
    /\ at = "before_invoke"
    /\ owned /\ ~should_auto_resume
    /\ user_ago' = 0
    /\ Finish("human owns")
    /\ UNCHANGED <<vars, human_ago, blocked, heard_ago>>

\* The database fails in before_invoke: in the touch, before or after its
\* commit, or in the clear, when the user's clock has started again.
GateRaises ==
    /\ at \in {"before_invoke", "resuming"}
    /\ user_ago' \in {user_ago, 0}
    /\ Finish("silence")
    /\ UNCHANGED <<vars, human_ago, blocked, heard_ago>>

BudgetDegrade ==
    /\ at = "budget"
    /\ Finish("degrade line")
    /\ UNCHANGED <<vars, table, blocked, heard_ago>>

StartInvoke ==
    /\ at = "budget"
    /\ Ainvoke
    /\ at' = "invoke"
    /\ UNCHANGED <<outcome, table, blocked, heard_ago>>

-----------------------------------------------------------------------------
(* The invoke, and after it *)

\* set_active stamps last_human_ts.
InGraph ==
    /\ at = "invoke"
    /\ NodeStep
    /\ human_ago' = IF wrote' THEN 0 ELSE human_ago
    /\ blocked' = (blocked \/ GuardBlocks)
    /\ UNCHANGED <<at, outcome, user_ago, heard_ago>>

\* Mutant: a timeout gives the invoke up without cancelling it, and the
\* soft-fail line goes out while the graph runs on.
BrokenInvokeReturns ==
    /\ at = "invoke"
    /\ IF pc = "END" /\ reply.text = NoText
       THEN Finish("silence")
       ELSE at' = "before_send" /\ UNCHANGED outcome
    /\ UNCHANGED <<vars, table, blocked, heard_ago>>

\* _invoke_graph returns (reply, self_escalated); an exception is
\* (SOFT_FAIL_LINE, False).  An empty reply ends the turn.
InvokeReturns ==
    /\ at = "invoke"
    /\ Quiet
    /\ IF pc = "END" /\ reply.text = NoText
       THEN Finish("silence")
       ELSE at' = "before_send" /\ UNCHANGED outcome
    /\ UNCHANGED <<vars, table, blocked, heard_ago>>

self_escalated == pc = "END" /\ escalated

DropReply ==
    /\ at = "before_send"
    /\ ~self_escalated /\ owned
    /\ Finish("silence")
    /\ UNCHANGED <<vars, table, blocked, heard_ago>>

\* The database or the channel fails: nothing is sent.
SendRaises ==
    /\ at = "before_send"
    /\ Finish("silence")
    /\ UNCHANGED <<vars, table, blocked, heard_ago>>

MayDeliver == self_escalated \/ ~owned

\* The reply is this turn's own and went through pricing_guard.
CheckedAsk == pc = "END" /\ reply.fresh /\ reply.vetted /\ reply.text.ask

Deliver ==
    /\ at = "before_send"
    /\ MayDeliver
    /\ Finish(IF pc = "END" THEN "reply" ELSE "soft fail line")
    /\ heard_ago' = IF CheckedAsk THEN 0 ELSE heard_ago
    /\ UNCHANGED <<vars, table, blocked>>

-----------------------------------------------------------------------------
(* Around the dispatcher *)

\* /resume in the operators' Telegram group, at any moment.
OperatorResumes ==
    /\ ClearHandoff
    /\ UNCHANGED <<at, outcome, table, blocked, heard_ago>>

Older(ago, bound) == IF ago < bound THEN ago + 1 ELSE ago

Tick ==
    /\ at = "idle"
    /\ <<user_ago, human_ago, asked_ago, heard_ago>>
          # <<LongAgo, LongAgo, AskWindow, AskWindow>>
    /\ user_ago' = Older(user_ago, LongAgo)
    /\ human_ago' = Older(human_ago, LongAgo)
    /\ asked_ago' = Older(asked_ago, AskWindow)
    /\ heard_ago' = Older(heard_ago, AskWindow)
    /\ UNCHANGED <<pc, steps, perTurn, flags, sales_stage, lead_profile,
                   objected, history, locals, gate, at, outcome, blocked>>

BeforeInvoke == NobodyOwns \/ TimedOut \/ AutoResume \/ HumanOwns \/ GateRaises

AfterInvoke == InvokeReturns \/ DropReply \/ SendRaises \/ Deliver

HandleStep == BeforeInvoke \/ BudgetDegrade \/ StartInvoke \/ InGraph \/ AfterInvoke

SessionNext == OnFlush \/ HandleStep \/ OperatorResumes \/ Tick

SessionSpec == SessionInit /\ [][SessionNext]_svars

\* A task that holds the lock runs on: its awaits return or raise.
FairSessionSpec == SessionSpec /\ WF_svars(HandleStep)

-----------------------------------------------------------------------------
(* Properties *)

\* The dispatcher's own variables hold values of the kinds the code gives them,
\* and the graph runs only while _handle awaits it.
SessionTypeOK ==
    /\ at \in {"idle", "before_invoke", "resuming", "budget", "invoke", "before_send"}
    /\ outcome \in {"none", "human owns", "silence", "degrade line", "reply",
                    "soft fail line"}
    /\ {user_ago, human_ago} \subseteq 0..LongAgo
    /\ heard_ago \in 0..AskWindow
    /\ blocked \in BOOLEAN
    /\ at # "invoke" => Quiet

\* While the bot works on a turn, the only human who can own the thread is the
\* one this very turn called in: the gate let no other turn start, and a row
\* it found active and timed out is inactive before the graph runs.
OwnerWasCalledByThisTurn ==
    (at \in {"budget", "invoke", "before_send"} /\ owned) => wrote /\ at # "budget"

\* Apart from the line pricing_guard puts in place of a blocked draft, no
\* checked reply asks a customer whose number is unknown for it within the
\* window of an earlier one's ask, however many turns, failures and handoffs
\* lie between them.
AsksOncePerWindow ==
    [][(Deliver /\ CheckedAsk /\ "sdt" \notin lead_profile /\ ~blocked)
       => heard_ago = AskWindow]_svars

\* While a human owns the thread and no turn failed after calling the human
\* in, the stage tells later prompts so, unless the same turn booked a trial.
OwnedThreadIsParked ==
    (owned /\ at = "idle" /\ pc = "END") =>
        normalize_stage(sales_stage) \in {HANDOFF, DA_HEN_LICH}

\* A thread a human holds comes back to the bot with the first message the
\* customer writes after both have been silent for the whole window, unless
\* the database fails in that very gate: the touch that restarts the
\* customer's clock does not hide the silence that went before it.
TimedOutThreadResumes ==
    (at = "before_invoke" /\ owned /\ user_ago = LongAgo /\ human_ago = LongAgo)
        ~> (~owned \/ outcome = "silence")

-----------------------------------------------------------------------------
(* What the code's own comments say and its steps do not keep *)

\* message_dispatcher.py, "never lose the turn silently", and llm/retry.py:
\* when the invoke fails and the channel works, the customer gets the
\* soft-fail line.
FailedTurnIsAnnounced == [][~(DropReply /\ pc = "raised")]_svars

\* sales_stage.py, HANDOFF: a human has taken over and the bot is silent.
SilentInHandoff ==
    [][(Deliver /\ pc = "END" /\ ~self_escalated) =>
          normalize_stage(sales_stage) # HANDOFF]_svars
=============================================================================
