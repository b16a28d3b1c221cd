---------------------------- MODULE CustomerData ----------------------------
(***************************************************************************)
(* What the system keeps about its customers, and who removes it: the      *)
(* checkpoint tables and the handoff_status row of a thread, the           *)
(* customer's row of the Leads worksheet and the bookings of the Trials    *)
(* worksheet.  Turns write all four, the daily purge and delete_by_psid    *)
(* remove the first three, and the staff edit the Leads by hand.  Nothing  *)
(* in the code removes a booking.                                          *)
(*                                                                         *)
(* handoff_status.last_user_ts is the retention clock of the checkpoint,   *)
(* updated_at that of the Leads row.  The purge and the turns run in the   *)
(* bot's process and share LeadSheet's lock; delete_by_psid is run from a  *)
(* shell (docs/runbook.md) and shares nothing, nor do the staff.           *)
(*                                                                         *)
(* A worksheet call addresses a row by its position: rows removed above it *)
(* in the meantime make it address another one.                            *)
(***************************************************************************)
EXTENDS Integers, Sequences, FiniteSets, SequencesExt, FiniteSetsExt

CONSTANTS
    Users,
    Askers,         \* the customers who ask to be erased
    Bookers,        \* the customers who book a trial lesson
    Retention,      \* pii_retention_days, in the unit of the clocks
    MaxTroubles     \* bound: failing calls, restarts, erasures, staff edits

ASSUME DataAssumption ==
    /\ IsFiniteSet(Users)
    /\ {"free", "purge"} \cap Users = {}
    /\ Askers \subseteq Users /\ Bookers \subseteq Users
    /\ Retention \in Nat
    /\ MaxTroubles \in Nat

VARIABLES
    checkpoint,   \* the threads with rows in the checkpoint tables
    row,          \* thread -> age of last_user_ts, NoClock (NULL) or NoRow
    sheet,        \* the Leads rows: [who, age of updated_at]
    trials,       \* the customers with rows in the Trials worksheet
    turn,         \* customer -> where the customer's turn is
    cell,         \* the row that ws.find returned to an upsert, 0 for None
    sheet_lock,   \* who holds LeadSheet._sheet_lock
    purge,        \* where purge_expired is
    thread_ids,   \* what its SELECT returned
    todo,         \* those of them, or those sheet rows, still to be deleted
    erase,        \* delete_by_psid: [at, who, cell]
    moved,        \* history: operations whose sheet position is outdated
    cause,        \* history: thread -> what may have cost it its clock
    troubles

pvars == <<sheet_lock, purge, thread_ids, todo>>
vars == <<checkpoint, row, sheet, turn, cell, sheet_lock, purge, thread_ids,
          todo, erase, moved, cause, troubles, trials>>

NoRow == -2
NoClock == -1
Old == Retention + 1    \* any age past the window

\* SQL's comparison with NULL is not true.
Expired(age) == age > Retention

\* No erasure is under way.
Nobody == [at |-> "idle", who |-> "none", cell |-> 0]

Init ==
    /\ checkpoint = {} /\ sheet = <<>> /\ trials = {} /\ thread_ids = {} /\ todo = {}
    /\ row = [u \in Users |-> NoRow]
    /\ turn = [u \in Users |-> "idle"]
    /\ cell = [u \in Users |-> 0]
    /\ sheet_lock = "free"
    /\ purge = "sleep"
    /\ erase = Nobody
    /\ moved = {}
    /\ cause = [u \in Users |-> {}]
    /\ troubles = 0

Trouble == troubles < MaxTroubles /\ troubles' = troubles + 1

\* What may have cost a thread its clock, with one more reason (none is needed
\* where an erasure met a turn).
Blamed(reasons, why) ==
    IF "raced" \in reasons THEN reasons ELSE reasons \cup {why}

Erasing(u) == erase.at # "idle" /\ erase.who = u

-----------------------------------------------------------------------------
(* The Leads worksheet *)

\* ws.find: the first row with this channel_user_id.
Find(u) ==
    LET rows == {i \in DOMAIN sheet : sheet[i].who = u}
    IN  IF rows = {} THEN 0 ELSE Min(rows)

\* delete_rows of a position below the last row removes an empty row.
DeleteRow(i) == sheet' = IF i \in DOMAIN sheet THEN RemoveAt(sheet, i) ELSE sheet

\* The operations that have looked a position up and not used it yet: it is
\* outdated once somebody else removes a row, or writes to an outdated one.
InFlight ==
    (IF sheet_lock # "free" THEN {"bot"} ELSE {})
        \cup (IF erase.at = "delete lead" THEN {"erase"} ELSE {})

-----------------------------------------------------------------------------
(* A customer's turn, under the thread's lock *)

\* before_invoke touches the row: last_user_ts = now(), inserted if absent.
Touch(u) ==
    /\ turn[u] = "idle"
    /\ turn' = [turn EXCEPT ![u] = "graph"]
    /\ row' = [row EXCEPT ![u] = 0]
    /\ cause' = [cause EXCEPT ![u] = IF Erasing(u) THEN {"raced"} ELSE {}]
    /\ UNCHANGED <<checkpoint, sheet, cell, pvars, erase, moved, troubles, trials>>

\* The checkpointer saves the state of the thread after a superstep.
SaveCheckpoint(u) ==
    /\ turn[u] = "graph"
    /\ checkpoint' = checkpoint \cup {u}
    /\ UNCHANGED <<row, sheet, turn, cell, pvars, erase, moved, cause, troubles,
                   trials>>

\* Mutant: the conflicting row takes every column of the inserted one.
BrokenSetActive(u) ==
    /\ turn[u] = "graph"
    /\ row' = [row EXCEPT ![u] = NoClock]
    /\ UNCHANGED <<checkpoint, sheet, turn, cell, pvars, erase, moved, cause,
                   troubles, trials>>

\* A handoff: the row is inserted without last_user_ts when there is none.
SetActive(u) ==
    /\ turn[u] = "graph"
    /\ row[u] = NoRow
    /\ row' = [row EXCEPT ![u] = NoClock]
    /\ UNCHANGED <<checkpoint, sheet, turn, cell, pvars, erase, moved, cause,
                   troubles, trials>>

\* capture_lead: upsert_lead takes the sheet lock and finds the row by value.
UpsertFind(u) ==
    /\ turn[u] = "graph"
    /\ sheet_lock = "free"
    /\ sheet_lock' = u
    /\ cell' = [cell EXCEPT ![u] = Find(u)]
    /\ turn' = [turn EXCEPT ![u] = "upsert"]
    /\ UNCHANGED <<checkpoint, row, sheet, purge, thread_ids, todo, erase, moved,
                   cause, troubles, trials>>

\* It then writes that row, or appends one, and gives the lock back.
UpsertWrite(u) ==
    LET lead == [who |-> u, age |-> 0]
    IN  /\ turn[u] = "upsert"
        /\ sheet' = IF cell[u] \in DOMAIN sheet
                    THEN [sheet EXCEPT ![cell[u]] = lead]
                    ELSE Append(sheet, lead)
        /\ cell' = [cell EXCEPT ![u] = 0]
        /\ turn' = [turn EXCEPT ![u] = "graph"]
        /\ sheet_lock' = "free"
        /\ moved' = (IF "bot" \in moved THEN InFlight ELSE moved) \ {"bot"}
        /\ UNCHANGED <<checkpoint, row, purge, thread_ids, todo, erase, cause,
                       troubles, trials>>

\* Mutant: the lock is released only on success.
BrokenUpsertRaises(u) ==
    /\ turn[u] = "upsert"
    /\ Trouble
    /\ cell' = [cell EXCEPT ![u] = 0]
    /\ turn' = [turn EXCEPT ![u] = "graph"]
    /\ UNCHANGED <<checkpoint, row, sheet, pvars, erase, moved, cause, trials>>

\* The Sheets service fails: capture_lead answers as if nothing had happened.
UpsertRaises(u) ==
    /\ turn[u] = "upsert"
    /\ Trouble
    /\ cell' = [cell EXCEPT ![u] = 0]
    /\ turn' = [turn EXCEPT ![u] = "graph"]
    /\ sheet_lock' = "free"
    /\ moved' = moved \ {"bot"}
    /\ UNCHANGED <<checkpoint, row, sheet, purge, thread_ids, todo, erase, cause,
                   trials>>

\* book_trial: append_trial adds a row with the customer's id and phone number.
BookTrial(u) ==
    /\ u \in Bookers
    /\ turn[u] = "graph"
    /\ trials' = trials \cup {u}
    /\ UNCHANGED <<checkpoint, row, sheet, turn, cell, pvars, erase, moved, cause,
                   troubles>>

\* The turn is over: replied, failed, or left to the human who owns the thread.
EndTurn(u) ==
    /\ turn[u] = "graph"
    /\ turn' = [turn EXCEPT ![u] = "idle"]
    /\ UNCHANGED <<checkpoint, row, sheet, cell, pvars, erase, moved, cause, troubles,
                   trials>>

-----------------------------------------------------------------------------
(* purge_expired, once a day *)

SelectExpired ==
    LET ids == {u \in Users : Expired(row[u])}
    IN  /\ purge = "sleep"
        /\ thread_ids' = ids
        /\ todo' = ids
        /\ purge' = IF ids = {} THEN "leads" ELSE "threads"
        /\ UNCHANGED <<checkpoint, row, sheet, turn, cell, sheet_lock, erase, moved,
                       cause, troubles, trials>>

\* _delete_thread_rows of the next thread.
DeleteThreadRows(u) ==
    /\ purge = "threads"
    /\ u \in todo
    /\ todo' = todo \ {u}
    /\ checkpoint' = checkpoint \ {u}
    /\ UNCHANGED <<row, sheet, turn, cell, sheet_lock, purge, thread_ids, erase,
                   moved, cause, troubles, trials>>

\* A DELETE on one of its tables fails, which is logged and ignored.
DeleteThreadFails(u) ==
    /\ purge = "threads"
    /\ u \in todo \cap checkpoint
    /\ Trouble
    /\ todo' = todo \ {u}
    /\ cause' = [cause EXCEPT ![u] = Blamed(@, "failed")]
    /\ UNCHANGED <<checkpoint, row, sheet, turn, cell, sheet_lock, purge, thread_ids,
                   erase, moved, trials>>

\* The rows that are past the window now, whichever threads were selected.
DeleteHandoffRows ==
    /\ purge = "threads"
    /\ todo = {}
    /\ row' = [u \in Users |-> IF Expired(row[u]) THEN NoRow ELSE row[u]]
    /\ cause' = [u \in Users |-> IF Expired(row[u]) /\ u \in checkpoint \ thread_ids
                                 THEN Blamed(cause[u], "crossed") ELSE cause[u]]
    /\ purge' = "leads"
    /\ thread_ids' = {}
    /\ UNCHANGED <<checkpoint, sheet, turn, cell, sheet_lock, todo, erase, moved,
                   troubles, trials>>

\* Mutant: the purge does not wait for the lock.
BrokenReadLeads ==
    /\ purge = "leads"
    /\ todo' = {i \in DOMAIN sheet : Expired(sheet[i].age)}
    /\ purge' = "delete leads"
    /\ UNCHANGED <<checkpoint, row, sheet, turn, cell, sheet_lock, thread_ids, erase,
                   moved, cause, troubles, trials>>

\* purge_older_than reads all records under the sheet lock.
ReadLeads ==
    /\ purge = "leads"
    /\ sheet_lock = "free"
    /\ sheet_lock' = "purge"
    /\ todo' = {i \in DOMAIN sheet : Expired(sheet[i].age)}
    /\ purge' = "delete leads"
    /\ UNCHANGED <<checkpoint, row, sheet, turn, cell, thread_ids, erase, moved,
                   cause, troubles, trials>>

\* One delete_rows, from the bottom.
DeleteLead ==
    /\ purge = "delete leads"
    /\ todo # {}
    /\ DeleteRow(Max(todo))
    /\ todo' = todo \ {Max(todo)}
    /\ moved' = moved \cup (InFlight \ {"bot"})
    /\ UNCHANGED <<checkpoint, row, turn, cell, sheet_lock, purge, thread_ids, erase,
                   cause, troubles, trials>>

PurgeDone ==
    /\ purge = "delete leads"
    /\ todo = {}
    /\ purge' = "sleep"
    /\ sheet_lock' = "free"
    /\ moved' = moved \ {"bot"}
    /\ UNCHANGED <<checkpoint, row, sheet, turn, cell, thread_ids, todo, erase, cause,
                   troubles, trials>>

\* A statement or a sheet call of the purge fails: the loop logs it.
PurgeFails ==
    /\ purge \in {"leads", "delete leads"} \/ (purge = "threads" /\ todo = {})
    /\ Trouble
    /\ thread_ids' = {}
    /\ todo' = {}
    /\ sheet_lock' = IF sheet_lock = "purge" THEN "free" ELSE sheet_lock
    /\ moved' = IF sheet_lock = "purge" THEN moved \ {"bot"} ELSE moved
    /\ UNCHANGED <<checkpoint, row, sheet, turn, cell, erase, cause, trials>>

\* Mutant: an exception ends the loop's task.
BrokenPurgeRaises == PurgeFails /\ purge' = "ended"

\* run_purge_loop goes on the next day.
PurgeRaises == PurgeFails /\ purge' = "sleep"

-----------------------------------------------------------------------------
(* delete_by_psid, from a shell *)

EraseStart(u) ==
    /\ erase.at = "idle"
    /\ Trouble
    /\ erase' = [at |-> "thread", who |-> u, cell |-> 0]
    /\ cause' = [cause EXCEPT ![u] = IF turn[u] = "idle" THEN @ ELSE @ \cup {"raced"}]
    /\ UNCHANGED <<checkpoint, row, sheet, turn, cell, pvars, moved, trials>>

EraseThread ==
    /\ erase.at = "thread"
    /\ erase' = [erase EXCEPT !.at = "row"]
    /\ checkpoint' = checkpoint \ {erase.who}
    /\ cause' = [cause EXCEPT ![erase.who] = @ \cap {"raced"}]
    /\ UNCHANGED <<row, sheet, turn, cell, pvars, moved, troubles, trials>>

EraseRow ==
    /\ erase.at = "row"
    /\ erase' = [erase EXCEPT !.at = "lead"]
    /\ row' = [row EXCEPT ![erase.who] = NoRow]
    /\ UNCHANGED <<checkpoint, sheet, turn, cell, pvars, moved, cause, troubles,
                   trials>>

\* delete_lead: find the row, then delete it.
EraseFind ==
    /\ erase.at = "lead"
    /\ erase' = IF Find(erase.who) = 0 THEN Nobody
                ELSE [erase EXCEPT !.at = "delete lead", !.cell = Find(erase.who)]
    /\ UNCHANGED <<checkpoint, row, sheet, turn, cell, pvars, moved, cause, troubles,
                   trials>>

\* Mutant: the position counts the header row twice.
BrokenEraseLead ==
    /\ erase.at = "delete lead"
    /\ DeleteRow(erase.cell + 1)
    /\ erase' = Nobody
    /\ moved' = (moved \cup InFlight) \ {"erase"}
    /\ UNCHANGED <<checkpoint, row, turn, cell, pvars, cause, troubles, trials>>

EraseLead ==
    /\ erase.at = "delete lead"
    /\ DeleteRow(erase.cell)
    /\ erase' = Nobody
    /\ moved' = (moved \cup InFlight) \ {"erase"}
    /\ UNCHANGED <<checkpoint, row, turn, cell, pvars, cause, troubles, trials>>

\* Each part that fails is logged, and the next one is tried.
EraseFails ==
    /\ erase.at # "idle"
    /\ erase' = CASE erase.at = "thread" -> [erase EXCEPT !.at = "row"]
                  [] erase.at = "row" -> [erase EXCEPT !.at = "lead"]
                  [] OTHER -> Nobody
    /\ cause' = IF erase.at \in {"thread", "row"}
                THEN [cause EXCEPT ![erase.who] = Blamed(@, "failed")] ELSE cause
    /\ moved' = moved \ {"erase"}
    /\ UNCHANGED <<checkpoint, row, sheet, turn, cell, pvars, troubles, trials>>

-----------------------------------------------------------------------------
(* The world *)

\* The staff remove a row of the worksheet by hand (only a removal between a
\* look-up and its use is of interest).
StaffDeletes(i) ==
    /\ Trouble
    /\ InFlight # {}
    /\ DeleteRow(i)
    /\ moved' = moved \cup InFlight
    /\ UNCHANGED <<checkpoint, row, turn, cell, pvars, erase, cause, trials>>

\* The bot's process is killed and started again.
BotRestarts ==
    /\ Trouble
    /\ turn' = [u \in Users |-> "idle"]
    /\ cell' = [u \in Users |-> 0]
    /\ sheet_lock' = "free" /\ purge' = "sleep" /\ thread_ids' = {} /\ todo' = {}
    /\ moved' = moved \ {"bot"}
    /\ UNCHANGED <<checkpoint, row, sheet, erase, cause, trials>>

Older(age) == IF age \in 0..Retention THEN age + 1 ELSE age

\* The clocks count days.  A turn does not last that long; a purge may meet the
\* moment at which a row crosses the window, but does not last the window.
Tick ==
    /\ \A u \in Users : turn[u] = "idle"
    /\ \A u \in thread_ids : row[u] # Retention
    /\ row' = [u \in Users |-> Older(row[u])]
    /\ sheet' = [i \in DOMAIN sheet |-> [sheet[i] EXCEPT !.age = Older(@)]]
    /\ <<row, sheet>>' # <<row, sheet>>
    /\ UNCHANGED <<checkpoint, turn, cell, pvars, erase, moved, cause, troubles,
                   trials>>

Turn(u) == SaveCheckpoint(u) \/ SetActive(u) \/ UpsertFind(u) \/ UpsertWrite(u)
              \/ UpsertRaises(u) \/ EndTurn(u)

Purge == SelectExpired \/ (\E u \in Users : DeleteThreadRows(u) \/ DeleteThreadFails(u))
            \/ DeleteHandoffRows \/ ReadLeads \/ DeleteLead \/ PurgeDone \/ PurgeRaises

Erasure == (\E u \in Askers : EraseStart(u)) \/ EraseThread \/ EraseRow \/ EraseFind
              \/ EraseLead \/ EraseFails

Next ==
    \/ \E u \in Users : Touch(u) \/ Turn(u) \/ BookTrial(u)
    \/ Purge
    \/ Erasure
    \/ \E i \in DOMAIN sheet : StaffDeletes(i)
    \/ BotRestarts
    \/ Tick

Spec == Init /\ [][Next]_vars

\* The purge loop runs on, and gets the sheet lock it waits for, for asyncio's
\* locks are first come, first served; days go by however the turns follow one
\* another; turns end, after finitely many tool calls (ConversationTurn,
\* WithinRecursionLimit).
FairSpec ==
    /\ Spec
    /\ SF_vars(Purge)
    /\ SF_vars(Tick)
    /\ WF_vars(\E u \in Users : UpsertWrite(u))
    /\ SF_vars(\E u \in Users : EndTurn(u))

-----------------------------------------------------------------------------
(* Properties *)

LeadsOf(u) == Cardinality({i \in DOMAIN sheet : sheet[i].who = u})

HasClock(u) == row[u] >= 0

\* The places that still keep something of the customer.
Remains(u) ==
    (IF u \in checkpoint THEN {"checkpoints"} ELSE {})
        \cup (IF row[u] # NoRow THEN {"handoff_status"} ELSE {})
        \cup (IF LeadsOf(u) > 0 THEN {"Leads"} ELSE {})
        \cup (IF u \in trials THEN {"Trials"} ELSE {})

\* The variables hold values of the kinds the code gives them, and the sheet
\* lock is held by exactly the operation that is at work on the sheet.
TypeOK ==
    /\ checkpoint \subseteq Users
    /\ row \in [Users -> {NoRow, NoClock} \cup 0..Old]
    /\ \A i \in DOMAIN sheet : sheet[i] \in [who : Users, age : 0..Old]
    /\ cell \in [Users -> Nat]
    /\ turn = [u \in Users |-> IF sheet_lock = u THEN "upsert" ELSE
                               IF turn[u] = "idle" THEN "idle" ELSE "graph"]
    /\ purge \in {"sleep", "threads", "leads", "delete leads"}
    /\ (purge = "delete leads") <=> (sheet_lock = "purge")
    /\ erase.at \in {"idle", "thread", "row", "lead", "delete lead"}
    /\ moved \subseteq InFlight

\* A checkpoint, or a handoff row, that no purge will ever find (its thread has
\* no last_user_ts) exists only where a delete_by_psid met a turn of its
\* customer, where a failing DELETE was ignored, or where the thread became old
\* between the two statements of a purge.
EveryThreadHasAClock ==
    \A u \in Users : (u \in checkpoint \/ row[u] # NoRow) => HasClock(u) \/ cause[u] # {}

\* "Erase all data for a user: checkpoints + handoff_status + lead row": a
\* delete_by_psid that met no turn of its customer, no failure and no change of
\* the sheet under its hands leaves none of these behind (a second Leads row,
\* which only such a change can have made, excepted).  All data it is not: the
\* bookings in the Trials worksheet stay, with the customer's id and number.
ErasureIsComplete ==
    [][\A u \in Users :
          (/\ Erasing(u) /\ (EraseLead \/ EraseFind) /\ ~Erasing(u)'
           /\ cause[u] = {} /\ "erase" \notin moved /\ LeadsOf(u) <= 1)
          => Remains(u)' = Remains(u) \cap {"Trials"}]_vars

\* A customer's Leads row disappears by the hand of the staff, by the
\* customer's own erasure, or in a purge when it is old: never under a write
\* meant for somebody else's, unless the sheet was changed from outside the
\* bot between that write and the look-up of its position.
LeadsAreLostByDesign ==
    [][\A u \in Users : LeadsOf(u)' < LeadsOf(u) =>
          \/ moved # {}
          \/ \E i \in DOMAIN sheet : StaffDeletes(i)
          \/ Erasing(u) /\ EraseLead
          \/ DeleteLead /\ Expired(sheet[Max(todo)].age)]_vars

\* The data of a customer who stays away is eventually gone, whatever restarts,
\* failing sheet calls and edits happen on the way, unless the thread lost its
\* clock in one of the three ways above.  The bookings in the Trials worksheet
\* have no window: they stay.
StaleDataGoes ==
    \A u \in Users :
        HasClock(u) ~>
            (Remains(u) \subseteq {"Trials"} \/ turn[u] # "idle" \/ cause[u] # {})
=============================================================================
