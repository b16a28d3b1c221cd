# A verification development for the eschool chatbot

The program under `src/chatbot/app` answers customers of a tuition centre on Messenger and Telegram. A message goes
through rate limit and dedupe into a debounce buffer; the joined text is handled under a lock per conversation by a
LangGraph state machine with several LLM calls, and may hand the conversation to a human. What it says is drawn from,
and checked against, a Google Sheet that is re-read in the background; what it learns is kept in Postgres and in another
sheet until a purge or the customer's wish removes it. This directory holds TLA+ models of all of that, TLC
configurations that check them on small instances, and TLAPS proofs for all instances.

    tlc -workers 2 -config ConversationTurn.cfg ConversationTurnMC      # and the other .cfg files
    tlapm ConversationTurnProofs.tla

## 1. Inventory

| Component | State | Operations | What makes it correct |
|---|---|---|---|
| Conversation graph (`graph/`) | the thread's checkpoint `ConvState`: history, per-turn counters and flags, stage, profile, objection counts, phone stamp | one node per step: detect_objection, agent, tool_exec, grade_chunks, fallback, handle_objection, reflect_lite, pricing_guard | every turn ends within the recursion limit; no draft skips the gates; a second objection of a group is argued about only once a human is called; the ladder is only climbed; one phone ask per window |
| Dispatcher (`channel/message_dispatcher.py`) | a lock per thread | on_flush, _handle, _invoke_graph, deliver_text | one turn per thread at a time; the bot is silent for a human, and never by mistake; locks and slots come back |
| Debounce buffer | a buffer and a timer per user, LRU-bounded | add, _flush_later, _evict | nothing swallowed but white space, nothing duplicated or reordered |
| Rate limiter | windows per user; semaphore; spend and its day | allow; add_spend, budget_exceeded | bounded concurrency and overspend; degrade only for today |
| Handoff gate (`handoff/`, `db/handoff_status_table.py`) | the row `handoff_status`: active, last_user_ts, last_human_ts | before_invoke, before_send, set_active, clear, /resume | the row decides who talks; stage and row agree |
| Lead tools (`graph/tools`) | profile, stage; rows of two Google Sheets | capture_lead, book_trial, handoff_to_human | a failing side effect does not corrupt the state |
| Pricing guard (`graph/nodes/pricing_guard.py`, `guard_*.py`, `vn_numerals.py`) | none | evaluate_draft | no price of another course, nothing the catalog does not hold; honest replies pass |
| Inbound (`api/`, `telegram_poller.py`, `dedupe_store.py`, `rate_limiter.py`) | dedupe store, windows, poll offset | process_events, _ingest, seen, allow | no message twice, none swallowed |
| Sheet parsers (`course_parser.py`, `center_faq_parser.py`, `cell_sanitizer.py`) | none | parse_courses, parse_center_faq | a row is served whole, or an error of the sync names it |
| Knowledge base (`sheet_loader.py`, `vector_store.py`) | one immutable snapshot | rebuild in a thread; readers on the loop | never older, never emptied by an outage; the guard not behind the prompt |
| Retention, erasure, lead sheet (`db/retention_purge.py`, `integrations/lead_sheet.py`) | checkpoints, rows, sheet rows | purge_expired, delete_by_psid, upsert, delete, purge, append_trial | the right rows and all of them, and no others |
| Notifications, wiring, logging | none worth a model | | |

How they interact: inbound calls `DebounceBuffer.add`; a timer task calls `on_flush`; that awaits the thread's lock and
runs `_handle`, which reads and stamps the handoff row, checks the budget, waits for a semaphore slot, invokes the graph
(which reads and writes the thread's checkpoint, the handoff row, the sheets), charges the budget, looks at the row a
second time and delivers. Operators clear the row with `/resume` at any moment; the purge and the erasure delete rows
under the feet of all of it.

What is hard here: several flush tasks of one customer alive at once; the handoff row read twice around a long await;
exceptions after a durable write; per-turn fields that live in a checkpoint; caps that bound the graph only together;
two clocks and a window; state in memory that a crash forgets; sheet rows addressed by a position that others move; a
snapshot that is read several times in one turn; numbers written in words. `PROJECT.json` lists each hazard at its line.

## 2. Modules

**`SalesStage`**: the pure functions of `sales_stage.py`. A profile is the set of the ladder-relevant fields that are
filled; the strings a version-1 checkpoint may hold are values of their own, so `normalize_stage` is a real translation.

**`ConversationTurn`**: the graph of one thread, turn after turn. One action per outcome of a node; a node's update is
committed when the node returns, as LangGraph's superstep does, and `NodeRaises` commits nothing. `tool_exec` is the one
node that awaits several times and has effects in between, so its loop is one action per call over its local `pend`.
A text is a record of the three facts the gates look at: a blocklisted promise, a phone ask, and no price, a listed
price or a wrong one. The LLM answers with any draft of `Drafts`, any tool-call list of `CallLists`, any verdict.
`reflect_lite`'s phone gate can strip sentences and with them other facts, `strip_blocklist` can leave nothing. Of the
message history the model keeps what the code reads: the newest AIMessage, the newest with text (`reply`, what
`_extract_reply` returns), and whether tool calls were left unanswered. `route_hint` and `grade_sufficient`, which only
carry a router's decision to the next edge, are folded into `pc`. `wrote`, `argued` and `drafted` are history.

**`ThreadSession`** extends it with `MessageDispatcher._handle` for that thread: the gate with both clocks of the row,
budget, invoke, second look, delivery, `/resume` at any time, and a database or a channel that fails at any await.
Clearing a timed-out row is a step of its own after the touch (`TimedOut`, `AutoResume`), and the gate can raise before
the touch is committed or after it. Time is counted in units that cap where nothing compares further.

**`Dispatcher`** is the stack for several customers with the turn itself abstracted: buffers with LRU eviction, a task per
flush, FIFO locks, the FIFO semaphore, spend and day, crashes. A batch of blank messages (`Blank`: white space, which
`messenger_adapter.py:31` lets in) joins to nothing and ends in the buffer (`FlushBlank`). A task is atomic between two
awaits, as asyncio is.

**`MessageService`** is the abstract promise to a customer: batches one at a time, in order, at most once; only the
newest waiting messages can be lost, or all of them in a restart; newest messages that are all blank are discarded.
`Dispatcher` holds the refinement mapping (`Service`): a customer's inbox is the set of messages that are in a batch
queued for the lock or in the buffer, and the customer is busy while the lock is held.

**`Inbound`** is what stands before `DebounceBuffer.add`: a background task per webhook POST, or the Telegram poller, each
walking its batch through rate limit and dedupe in the order of the code (`Accept`, `DropDuplicate`, `Refuse`; a refused
message awaits `deliver_text`, and `SendRaises` ends the whole task). A task runs without interruption between two awaits
(`running`). The platform redelivers any POST; `getUpdates` acknowledges by offset and may fail; `Crash` forgets windows,
store and offset, after which `DeleteWebhook` drops the backlog or, when it fails, leaves it. `entered_at`, `fate` and
`forgotten` are history.

**`KnowledgeBase`** is the rebuild by its blocking calls (three `Fetch`es, embedding and `Publish`, `Fails` at each) of
several callers (the start-up's and the scheduler's), against `Edit`s of the tabs and a turn that takes one snapshot per
getter (`Read` thrice) and a last one in the guard (`Check`). A tab is the number of its latest edit. `configured` says
whether `Settings` defines the two fields that the embedding step reads; in the repository it does not, and every
rebuild ends in `NoEmbeddings`.

**`Numerals`, `KbParser`, `PricingGuard`, `CatalogGuard`** take the contents up where `KnowledgeBase` leaves them at
versions. `Numerals` is `vn_numerals` and `vn_dates`: what is read of an amount as it is written, digits or number words,
unit, and what follows the unit, hundreds that go unheard and counts that are swallowed included.
`KbParser` is the way from sheet rows to the catalog. `PricingGuard` is `evaluate_draft` with the matcher of
`guard_matching` and the checks per sentence and over the reply: ids, names and aliases are searched for in the text with
its amounts and dates, which count as words there; the longest name wins; only the guess by words takes the amounts out.
They are constant-level operators over folds; `CatalogGuard` makes them a system: the staff write a sheet, it is synced
(or the sync fails), a reply is drafted and judged.

**`CustomerData`** is what is kept: checkpoint, handoff row and Leads row of each customer, written by turns, removed by
`purge_expired` and `delete_by_psid` one statement per action, each of which can fail, while staff delete sheet rows and
the bot restarts. The Trials sheet, to which `book_trial` appends, is the set of customers it names. A sheet row is
found (`Find`) and then written or deleted by position in a second call. The sheet lock is the bot's; the erasure runs
in another process. `moved` records operations whose position was outdated by somebody outside the bot, `cause` how a
thread may have lost its retention clock: both are history.

**`ConversationTurnProofs`, `ThreadSessionProofs`, `DispatcherProofs`, `InboundProofs`, `KnowledgeBaseProofs`,
`CustomerDataProofs`, `CatalogGuardProofs`** and the lemmas they share, **`SequenceLemmas`**: section 5. The `*MC` modules
give constants their values.

## 3. Runs

| Run | Result | States | What it shows |
|---|---|---|---|
| `turn` | passes | 765,626 | the graph's eight properties over any number of turns |
| `session` | passes | 1,142,649 | who owns the thread, what is dropped, the one-ask window across turns, the return of a thread both sides have left |
| `dispatcher` | passes | 84,852 | single flight, order, accounting, slots, budget, refinement of `MessageService`, every message settles |
| `customer_data` | passes | 341,516 | erasure is complete but for the trials, leads go only by design, every thread has a clock, stale data goes, and exactly which races break that |
| `inbound` | passes | 138,031 | no message twice, none swallowed, what waits is taken |
| `knowledge_base` | passes | 606,272 | what is served: never older, never emptied, torn only by an edit, nothing without its settings; prompt and guard in order |
| `catalog_guard` | passes | 170,660 | approved prices belong to their course, honest replies pass, every row of the sheet is served or on record as an error |
| `unchecked_reply`, `competitor_reply`, `failed_turn`, `resumed_thread`, `daily_budget` | violated | | section 4 |

Bounds. `turn`: `MaxToolRounds = 1` (the code has 4) with `RecursionLimit = 11 = 3*1 + 8`, the exact worst case, so one
superstep more would show; the proof covers 4 against LangGraph's 25. Two objection groups, one of them the competitor;
four draft kinds with the empty one; the call lists hold every tool and the pairs that disturb each other. Turns are
unbounded: all counters reset or saturate. `AskWindow = 1` means "within the window or not". `session` uses windows of 2
units, so that "inside", "at the edge" and "beyond" differ, and one objection group, since the groups are `turn`'s
matter. `dispatcher`: two customers with three messages each and one buffer, which forces evictions; one slot, so the
semaphore is contended; a budget of two turns; the second message of one customer is blank. `written` is the only
unbounded counter and is capped by `MaxMsgs`.

`customer_data`: two customers, of whom one asks to be erased (the two are alike, so the other one's wish adds nothing),
and that one also books trials; `Retention = 0` gives the three ages fresh, at the edge of the window and beyond;
`MaxTroubles = 1`: one failing call, restart, erasure or staff edit per behaviour *on top of* the races, which need
none. Ages saturate, turns and purges are unbounded. `Tick` assumes that a turn does not last days and that a purge does
not last the window. `inbound`: two customers, three messages, three POSTs, limits of one a minute and two a day, a
store and a window table of one entry each, a lifetime of three ticks: both tables evict, both limits refuse, entries
expire. It sets `CHECK_DEADLOCK FALSE` because messages, POSTs and time are bounded and the platform may simply stop.
`knowledge_base`: two callers, two edits, one outage; turns and rebuilds are unbounded. `catalog_guard`: a catalog of
four courses whose names nest, share words and differ in one numeral, which the first digit of a price can be, with a
hundred sheets around it (each way a row can be blank, incomplete, forged, repeated or in a deprecated column, pairs of
Center rows, missing columns); replies of one sentence (thirteen wordings times every spelling of the amounts, dates and
offers in and near the cells, the misread ones included) and of two (a sentence that sets the subject, one that states a
price or an offer). This is a bounded check of pure functions, two steps deep by nature.

Fairness. The graph has none: its properties are safety, and how long a turn takes is bounded by `WithinRecursionLimit`.
`WF(HandleStep)` in `ThreadSession`: an awaited LLM, database or KB call returns or raises (clients have timeouts,
`with_retry` is bounded). In `Dispatcher`, weak fairness per customer's tasks and of the
semaphore: asyncio runs every ready task and its locks are FIFO. A timer that keeps being restarted is not an obstacle,
since a customer writes finitely many messages in the model; nothing is assumed about operators, crashes or the clock.
`Inbound`: `WF` of all tasks and the poll together; every one of their steps uses something up, so no task starves.
`KnowledgeBase`: `WF(JobStep)`: the scheduler starts a rebuild every `kb_sync_interval_sec`, and a rebuild returns.
`CustomerData`: `SF(Purge)`, the daily job, whose wait for the sheet lock ends because asyncio's lock is first come, first
served, however many turns queue behind it; `SF(Tick)`: days go by however the turns follow one another;
`WF(\E u : UpsertWrite(u))`: whoever holds the sheet writes; `SF(\E u : EndTurn(u))`: turns end after finitely many tool
calls (`WithinRecursionLimit`). None is assumed of erasure, staff or restarts.

Every property has a mutant in its module (`Broken...`, `Unfair...`): a plausible bug in the mapped code that the run's
own configuration must find.

## 4. What the runs found

1. **`EveryReplyIsChecked`**: `_extract_reply` walks back to the newest AIMessage *with text*. When the last one is empty
   (an LLM may answer with neither text nor calls; both gates skip it), the customer gets an older text: what the agent
   wrote next to a tool call this turn, never seen by a gate, or a reply of an earlier turn.
   `FinalDraftVerified` is what does hold: a last message with text is vetted.
2. **`NeverArguesAboutCompetitor`**: the fallback line of an escalated competitor objection goes through `reflect_lite`; if
   its LLM objects without a repair, `route_after_reflect` sends the turn to `handle_objection`, which drafts one.
   A group's second objection, for which `detect_objection.py:14` promises a human instead, takes the same way, and the
   counter does not see it. `RepeatIsArguedOnlyOnceAHumanIsCalled` is what holds: that one rewrite is all there is, and it
   comes after the human was called in.
3. **`FailedTurnIsAnnounced`**: a turn that wrote the handoff row and then raises returns `(SOFT_FAIL_LINE, False)`, and
   `before_send` drops the line because of the turn's own row. Since only a turn writes the row, this is the *only*
   case in which `before_send` ever drops anything.
4. **`SilentInHandoff`**: clearing the row leaves the absorbing stage HANDOFF in the checkpoint for good, and the bot
   talks on in it.
5. **`DegradesForToday`**: the day rolls over only in `add_spend`, which a used-up budget prevents from ever running.

The exceptions written into a passing property are findings too: each is needed (without it TLC has a counterexample).

- `EveryThreadHasAClock`, `StaleDataGoes`: a checkpoint outlives its retention clock when (a) the thread crosses the
  window between the purge's SELECT and its final DELETE, which tests the age again instead of naming the ids; (b) a
  DELETE on a checkpoint table fails, which is logged at debug level, and the row goes all the same; (c) `delete_by_psid`
  meets a turn, which writes the checkpoint back without a row, or through `set_active` with a NULL clock. Such a
  thread is never purged. A purge can also delete the fresh checkpoint of a customer who wrote after its SELECT.
- `ErasureIsComplete`: `delete_by_psid`, "Erase all data for a user" (`retention_purge.py:32`), knows three places. The
  Trials rows (`channel_user_id`, `sdt`, course and slot, `trial_sheet.py:8`) are a fourth that no code deletes from: after
  every completed erasure they are still there, and the property says so.
- `EveryMessageAccountedFor`: a Messenger text of white space is accepted and dropped at `debounce_buffer.py:47`; its sender
  gets no answer.
- `LeadsAreLostByDesign`, `ErasureIsComplete`: find-then-write by position hits another customer's row when the staff, or
  the other process, delete a row in between; within the bot the sheet lock excludes it.
- `NothingIsSwallowed`: a raising `deliver_text` takes the rest of its batch along after the 200, and ends the poller for
  good (`EveryMessageIsTaken`: nothing restarts it); a restart drops Telegram's backlog, or, if `deleteWebhook` fails,
  takes updates again with an empty store. The rate limit is charged before the dedupe, so redeliveries use up the
  customer's quota.
- `GuardIsNotBehindThePrompt`: docs/chatbot-system-architecture.md:93 says a reader grabs the snapshot once per turn.
  The code takes three for a prompt and one in the guard. They may differ; what holds is that each is no older than
  the one before. `ServesTheSheet`: the snapshot itself may combine tabs from before and after an edit.
- An empty Courses tab is no error and publishes an empty catalog. `_ensure_embeddings` reads `gemini_embed_model` and
  `google_api_key`, which `Settings` does not define: with the configuration as shipped, every rebuild ends
  there and nothing is ever served. `SheetIsServed` says both: the sheet if `configured`, else nothing; `ServesTheSheet`
  and the others speak of what is served if anything is.
- `QuotesTheNamedCourse`: the matcher forgets a course called by id or alias whose name otherwise stands only inside a
  longer name ("T9 và Toán 9 Nâng Cao đều 5tr5" passes with one course's price); a sentence that paraphrases several
  courses inherits the one course another sentence mentions.
- `QuotesTheNamedCourse`, `HonestReplyPasses`: amounts and dates are taken out of the text only for the guess by words
  (`guard_matching.py:159`), so a price can complete a course's name for the matcher (`Borrows`): "học phí môn Toán
  9.000.000" is about "Toán 9" and passes if that costs nine million, and an honest price after a shared first word is
  blocked for naming two courses. The comment at `guard_matching.py:156` and
  `test_digits_from_a_price_cannot_name_a_course` hold this impossible; the test's course has no such name.
- The same two, what the tokenizer misreads (`Misread`): a grouping dot before a unit ("1.500k" is 1,500 dong); a
  remainder with a unit of its own unless it is hundreds ("5 triệu 50 nghìn" is 5.5 million); "rưỡi" or a remainder after
  thousands and billions; hundreds with tens in words ("năm trăm năm mươi nghìn" is 50,000), hundreds of millions in words
  (no amount at all, or that of the tens), tens without "mươi" ("bốn lăm triệu" is 5 million), more than one digit
  word after millions; and a count after millions ("5 triệu 12 buổi" is 5.12 million). An honest reply in such a form is
  blocked, and a wrong one may pass.
- `RowsAreServedOrRecorded`: an id belongs to its first row even if that one is not served; of two verbatim Center rows on
  a topic the last wins without an error. Short aliases and a filled deprecated column next to a filled new one are
  dropped without one. An error is not yet news to the staff: the message shows the first twenty of a sync and is sent at
  most once, not at all without a running loop or Telegram settings (`telegram_notify.py:80`).

## 5. Proofs

Every safety property that a passing run checks, invariants and action properties alike, is also a theorem: it holds for
every value of the constants that satisfies the module's assumption, not only on the instance TLC explores. The scheme is
always the same: an inductive invariant out of named parts, one lemma per action that the part's variables take part in,
`Init => Inv` and `Inv /\ [Next]_vars => Inv'`, then each property from `Inv`, or from `Inv` and one step. Before it was
proved each invariant was checked by TLC. The fair specifications imply the plain ones, so the theorems hold of them too.

**The graph** (`ConversationTurnProofs`), under `TurnAssumption`: caps are naturals with `3*MaxToolRounds + 8 <=
RecursionLimit`; drafts, calls, updates and starting stages are of their kinds; `none` is no objection group, the empty
text no draft.

| Theorem | Property | Inductive invariant |
|---|---|---|
| `TypeCorrect` | `TypeOK` | itself, split into `FlagType` and `DataType` because the two kinds need different provers |
| `NeverOverTheLimit` | `WithinRecursionLimit` | `StepsInv`: supersteps so far plus what the node can still cost, before and after the one bounce |
| `ScriptIsKept` | `ObjectionStaysOnScript` | `ScriptInv`: the repair is spent only after the bounce, so no second bounce finds it spent |
| `RepeatsGoThroughAHuman` | `RepeatIsArguedOnlyOnceAHumanIsCalled` | `ScriptInv`: the count of a group is positive once a turn has argued about it, so the next one escalates; a second draft comes after the bounce |
| `EscalatedIsTheRow` | `EscalatedIffRowWritten` | `RowInv`: the flag, or tool_exec's pending copy, follows the row at every node |
| `DraftsAreVerified` | `FinalDraftVerified` | `DraftInv`: the text before the guard is the reply |
| `AsksAreStamped` | `AskIsStamped` | `DraftInv`: a phone ask before the guard is stamped |
| `LadderIsClimbed` | `StageNeverStepsBack` | `PendInv`: tool_exec's stage is no step back, or a trial was booked |

The lemmas about `SalesStage` come first: `NoStepBack` is an order on the stages, and `advance_stage` and `derive_stage`
only climb it (`DeriveNeverStepsBack`), for every stored value.

**The session** (`ThreadSessionProofs`), under `TurnAssumption` and `ResumeWindow > 0`. `SessionRunsTheGraph` is the
refinement `SessionSpec => Spec`: gate, lock, clocks and row give the graph no step that it lacks, so every theorem above
holds of the session as well.

| Theorem | Property | Inductive invariant (`SessionInv`) |
|---|---|---|
| `SessionTypeCorrect` | `SessionTypeOK` | itself |
| `OwnerIsThisTurns` | `OwnerWasCalledByThisTurn` | `PhaseInv`: the graph runs only inside the invoke, which the gate starts without an owner |
| `OwnedIsParked` | `OwnedThreadIsParked` | `TurnInv`: from the write of the row on the stage, or tool_exec's copy, is HANDOFF or a booked trial |
| `AsksAreAWindowApart` | `AsksOncePerWindow` | `ClockInv`: the persisted clock is no older than the last ask sent; `AskInv`: what asks got past the gate or restarted the clock |

**The stack** (`DispatcherProofs`), for any finite set of customers and any limits; buffers and slots are at least one.

| Theorem | Property | Inductive invariant (`StackInv`) |
|---|---|---|
| `TypeCorrect` | `TypeOK` | `KindInv` and the bounds of the parts below |
| `OneAtATime` | `SingleFlight` | `LockInv`: a task at work is the holder of the lock, the others stand in its queue, oldest first |
| `NoSlotLeaks` | `SlotsAreConserved` | with `SemInv`: a task stands once in the semaphore's queue, and only to wait |
| `OrderIsKept` | `HandledInOrder` | `RunInv`: a batch is a run of consecutive messages, each queued one behind what was handled and before the next |
| `NoMessageVanishes` | `EveryMessageAccountedFor` | with `RunInv` and `LruInv`: the order of use lists exactly the users with a buffer |
| `OverrunIsBounded` | `OverspendIsBounded` | `BudgetInv`: spend plus a turn for each customer past the check stays within the allowed excess |
| `AlertPrecedesDegrade` | `OperatorsWereTold` | itself |
| `TheStackServes` | `ImplementsService` | step simulation: `Add` is `Accept`, the task that takes the lock is `Begin`, one that returns is `End`, `Crash` is `Restart`, all others stutter |

**Inbound** (`InboundProofs`), for any customers and limits; the bounds that size a table or window are positive, and the
mark for a message without text is no customer.

| Theorem | Property | Inductive invariant (`InboundInv`) |
|---|---|---|
| `TypeCorrect` | `TypeOK` | `KindInv`, `TaskInv` (only a task at work has messages), `WindowInv` (one window per customer) |
| `NothingDisappears` | `NothingIsSwallowed` | `PollInv`: what the offset confirms has been dealt with, and what the poller holds follows on it |
| `EnteredOnce` | `NoMessageTwice` | `StoreInv`: an entry expires a lifetime after its message came in, and a message that came in is held until then or was forgotten |

**The served snapshot** (`KnowledgeBaseProofs`), for any number of callers, edits and outages.

| Theorem | Property | Inductive invariant (`KbInv`) |
|---|---|---|
| `TypeCorrect` | `TypeOK` | `KindInv`; at most one rebuild at a time |
| `SnapshotIsTheSheet` | `ServesTheSheet` | `RowsInv`: what a rebuild has fetched stood in the sheet at one moment, unless it is torn; `ServedInv` the same of the snapshot |
| `GuardIsUpToDate` | `GuardIsNotBehindThePrompt` | `PromptInv`: the parts of a prompt are as old as the order of the reads |
| `ServingIsMonotone` | `NeverServesOlder` | `AgeInv`: sheet, rebuild, publication and reader stand in this order of age |

**What is kept** (`CustomerDataProofs`), for any finite set of customers, any retention and any number of troubles; the
two marks for who holds the sheet lock besides a customer's turn are no customers.

| Theorem | Property | Inductive invariant (`DataInv`) |
|---|---|---|
| `TypeCorrect` | `TypeOK` | `KindInv` |
| `NothingOutlivesThePurge` | `EveryThreadHasAClock` | `TurnClockInv`: a turn has stamped its clock, and only a concurrent erasure takes it; `RowInv`: a checkpoint without a row has a listed cause |
| `NoLeadIsLostByMistake` | `LeadsAreLostByDesign` | `LockInv`: who is between find and write holds the lock; `PositionInv`: the position found is the right row's, unless somebody outside moved it |
| `ErasureLeavesNothing` | `ErasureIsComplete` | the same |

**From the sheet to the reply** (`CatalogGuardProofs`), for every set of sheets and drafts that satisfies
`GuardAssumption`: names and texts are finite sequences of words, a blank cell says nothing, and amounts and dates are
well written (a spelled-out number is at most three words before and after "trăm"; no remainder follows decimals or
"rưỡi"; a time has no year). No form that the tokenizer misreads is assumed away, and nothing is assumed about what the
amounts are, which courses a sentence names, how names overlap, or which rows are flawed.

| Theorem | Property | Argument |
|---|---|---|
| `InvHolds` | | `SheetInv`: what is served is the parse of the sheet; `GuardInv`: a verdict is that of the draft beside it, on a finite catalog |
| `RowsAreOnRecord` | `RowsAreServedOrRecorded` | row by row through the three folds: `CourseStep`, `CenterStep` say what one row can do to what was parsed before it, `SheetParses` what all of them leave |
| `PricesAreTheCourses` | `QuotesTheNamedCourse` | `AmountIsRead`: the tokenizer reads an amount as it is meant, the `Misread` forms apart (`DigitsAreRead`, `WordsAreRead`); without a borrowed digit the sentence names what it mentions; `SentenceIsBound`: the course a sentence is checked against is the one a reader takes it to be about |
| `HonestyIsNotBlocked` | `HonestReplyPasses` | `CalledIsBound`, `CalledInTheReply`: a name that lies in no longer one survives `drop_shadowed`, in its sentence and in the reply; then each check is passed |

Two facts carry these proofs. Around every occurrence of a name there is one that no longer name contains (`LongestSpan`,
by the greatest length), so a course that the matcher drops is `Forgotten` and never merely shadowed. And a fold goes from
position to position: the community modules define `FoldLeft` by a `CHOOSE` of a function on sets, so `FoldExists` first
builds one and `FoldsByPrefix` runs through the positions. `Positions` is the induction, stated over sets because the
library's induction theorems take an operator.

`SequenceLemmas` proves what `Min`, `Max` and `RemoveAt` return.

What the proof attempts changed. `NoMessageTwice` looked for a message whose time of entry changes, which a second entry
within the same tick does not do; it now speaks of every `Accept` of a message that has entered before. `Crash` of
`Inbound` chose between overlapping cases, of which TLC takes the first and the logic does not say; it is an IF now.
`Post` states what a batch holds (the text messages of the body, in their order) instead of computing it with a recursive
operator, and `KbParser` writes `dict[key] = value` as a function of its own (`Put`) instead of through TLC's `@@`: no
prover reads either. That a mark like `"free"` or `"no text"` is not also a customer was implicit in the instances; it
is an assumption now.

Only model-checked: liveness, since ENABLED and reasoning under fairness are outside the prover: `TimedOutThreadResumes`,
`EveryMessageSettles`, `EveryMessageIsTaken`, `SheetIsServed`, `StaleDataGoes`. The five expected
violations of section 4 are counterexamples, for which an instance is enough.

## 6. Plan

Every module of the plan is written and checked, and every safety property of a passing run is proved. What is left:

1. Lemmas that say more about the operators than the properties need: that `Parse` serves no course that no row
   describes; that `strip_blocklist` and the phone gate only remove facts.
2. Shorter proofs where two lemmas differ only in the action they are about (`DispatcherProofs`, `InboundProofs`).

## 7. Not modelled, and why

The wording of prompts and replies, splitting, markup and signatures: conversions no property here is about. AIMessage
contents are strings, as the Chat Completions gateway the code is configured for returns them; other providers' lists of
content blocks are left out. What an LLM service does with a history whose tool calls were never answered is not decided
by this code (`dangling` records that it happens). The retry schedule of `with_retry` is only "returns or raises". Of
the guard: where words, sentences and the parts of one amount begin and end is taken as given, three of the nine
verbatim columns stand for all, `course_id` does not pass the cell gates in the code either; its operators were compared
with the running Python on 22 replies and gave the same verdicts. Leads rows with a blank or unreadable `updated_at`,
which only a hand on the sheet writes and the purge passes over (`lead_sheet.py:97`), are left out. Which of the
database's rows a pool hands to whom, and the embedding index, are libraries. Shadow mode replaces the delivery by a
draft to the operators and changes no state. Notifications, settings, logging and start-up have no behaviour worth a
model.
