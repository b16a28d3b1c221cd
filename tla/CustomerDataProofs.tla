------------------------- MODULE CustomerDataProofs -------------------------
(***************************************************************************)
(* Proofs about the customers' data, for any customers, any retention and  *)
(* any number of failures, restarts, erasures and edits by the staff.      *)
(***************************************************************************)
EXTENDS CustomerData, SequenceLemmas, FiniteSetTheorems

-----------------------------------------------------------------------------
(* The invariant *)

Ages == {NoRow, NoClock} \cup 0..Old

Lead == [who : Users, age : 0..Old]

Eraser == [at : {"idle", "thread", "row", "lead", "delete lead"},
           who : Users \cup {"none"}, cell : Nat]

Causes == {"raced", "failed", "crossed"}

\* The kinds of the variables, and who holds the lock of the sheet.
KindInv ==
    /\ checkpoint \subseteq Users
    /\ row \in [Users -> Ages]
    /\ sheet \in Seq(Lead)
    /\ turn \in [Users -> {"idle", "graph", "upsert"}]
    /\ cell \in [Users -> Nat]
    /\ purge \in {"sleep", "threads", "leads", "delete leads"}
    /\ erase \in Eraser
    /\ erase.at # "idle" => erase.who \in Users
    /\ cause \in [Users -> SUBSET Causes]

LockInv ==
    /\ sheet_lock \in Users \cup {"free", "purge"}
    /\ \A u \in Users : turn[u] = "upsert" <=> sheet_lock = u
    /\ purge = "delete leads" <=> sheet_lock = "purge"
    /\ moved \subseteq InFlight

\* A turn starts by stamping its thread's clock, and only an erasure that runs
\* beside it takes the clock from it; the history says so.
TurnClockInv ==
    \A u \in Users :
        /\ turn[u] # "idle" => row[u] = 0 \/ "raced" \in cause[u]
        /\ turn[u] # "idle" /\ Erasing(u) => "raced" \in cause[u]
        /\ row[u] = NoClock => "raced" \in cause[u]

\* A checkpoint without a row has a reason, and so has one that an erasure or
\* the purge has passed over.
RowInv ==
    /\ purge # "threads" => thread_ids = {}
    /\ \A u \in Users :
            /\ u \in checkpoint /\ row[u] = NoRow => cause[u] # {}
            /\ (u \in thread_ids \cap checkpoint /\ u \notin todo /\ Expired(row[u])) =>
                   cause[u] # {}
            /\ (erase.who = u /\ cause[u] = {}) =>
                   /\ erase.at \in {"row", "lead", "delete lead"} => u \notin checkpoint
                   /\ erase.at \in {"lead", "delete lead"} => row[u] = NoRow

\* A position looked up in the sheet still is the row that was found, as long
\* as nobody removed or misplaced a row in between.
UpsertPosition ==
    \A u \in Users : (turn[u] = "upsert" /\ "bot" \notin moved /\ cell[u] # 0) =>
        cell[u] \in DOMAIN sheet /\ sheet[cell[u]].who = u

PurgePosition ==
    (purge = "delete leads" /\ "bot" \notin moved) =>
        \A i \in todo : i \in DOMAIN sheet /\ Expired(sheet[i].age)

ErasePosition ==
    (erase.at = "delete lead" /\ "erase" \notin moved) =>
        erase.cell \in DOMAIN sheet /\ sheet[erase.cell].who = erase.who

PositionInv == UpsertPosition /\ PurgePosition /\ ErasePosition

DataInv == KindInv /\ LockInv /\ TurnClockInv /\ RowInv /\ PositionInv

-----------------------------------------------------------------------------
(* The worksheet's operators *)

\* A booking concerns the Trials worksheet alone.
LEMMA BookingsApart ==
    ASSUME (\E u \in Users : BookTrial(u)) \/ UNCHANGED vars
    PROVE  UNCHANGED <<checkpoint, row, sheet, turn, cell, sheet_lock, purge, thread_ids,
                       todo, erase, moved, cause, troubles>>
  BY Zenon DEF BookTrial, pvars, vars

\* One more reason is some reason.
LEMMA BlameAdds ==
    ASSUME NEW reasons \in SUBSET Causes, NEW why \in Causes
    PROVE  /\ Blamed(reasons, why) \in SUBSET Causes
           /\ Blamed(reasons, why) # {}
           /\ reasons \subseteq Blamed(reasons, why)
  BY DEF Blamed

\* ws.find returns the first row of the customer, if there is one.
LEMMA FindFinds ==
    ASSUME NEW u, sheet \in Seq(Lead)
    PROVE  /\ Find(u) \in Nat
           /\ Find(u) # 0 => Find(u) \in DOMAIN sheet /\ sheet[Find(u)].who = u
           /\ Find(u) = 0 => \A i \in DOMAIN sheet : sheet[i].who # u
  <1>. DEFINE rows == {i \in DOMAIN sheet : sheet[i].who = u}
  <1>1. DOMAIN sheet = 1..Len(sheet) /\ Len(sheet) \in Nat
    BY LenProperties
  <1>2. rows \in SUBSET Nat /\ 0 \notin rows
    BY <1>1
  <1>3. rows # {} => Min(rows) \in rows
    BY <1>2, MinIsLeast
  <1>4. Find(u) = IF rows = {} THEN 0 ELSE Min(rows)
    BY DEF Find
  <1>. QED
    BY <1>2, <1>3, <1>4

\* What delete_rows leaves of the sheet.
LEMMA DeletedRow ==
    ASSUME sheet \in Seq(Lead), NEW k, DeleteRow(k)
    PROVE  /\ sheet' \in Seq(Lead)
           /\ k \notin DOMAIN sheet => sheet' = sheet
           /\ k \in DOMAIN sheet =>
                 /\ k \in Nat /\ DOMAIN sheet' = 1..(Len(sheet) - 1)
                 /\ \A j \in DOMAIN sheet' :
                       sheet'[j] = IF j < k THEN sheet[j] ELSE sheet[j + 1]
  <1>1. DOMAIN sheet = 1..Len(sheet) /\ Len(sheet) \in Nat
    BY LenProperties
  <1>2. CASE k \in DOMAIN sheet
    <2>1. sheet' = RemoveAt(sheet, k)
      BY <1>2 DEF DeleteRow
    <2>2. /\ sheet' \in Seq(Lead) /\ Len(sheet') = Len(sheet) - 1
          /\ \A j \in 1..(Len(sheet) - 1) :
                sheet'[j] = IF j < k THEN sheet[j] ELSE sheet[j + 1]
      BY <1>1, <1>2, <2>1, RowRemoved, Zenon
    <2>3. DOMAIN sheet' = 1..Len(sheet')
      BY <2>2, LenProperties
    <2>. QED
      BY <1>1, <1>2, <2>2, <2>3
  <1>3. CASE k \notin DOMAIN sheet
    BY <1>3 DEF DeleteRow
  <1>. QED
    BY <1>2, <1>3

-----------------------------------------------------------------------------
(* Kinds and lock *)

\* The clocks' arithmetic: a missing clock neither ages nor expires, and a
\* clock expires by passing the window and stays expired.
LEMMA AgesAge ==
    /\ Retention \in Nat /\ Old \in Nat /\ 0 \in 0..Old
    /\ {NoRow, NoClock, 0} \subseteq Ages /\ NoRow # NoClock /\ 0 \notin {NoRow, NoClock}
    /\ ~Expired(NoRow) /\ ~Expired(NoClock) /\ ~Expired(0)
    /\ \A a \in 0..Old : Older(a) \in 0..Old
    /\ \A a \in Ages : /\ Older(a) \in Ages
                       /\ Older(a) = NoRow <=> a = NoRow
                       /\ Older(a) = NoClock <=> a = NoClock
                       /\ Expired(Older(a)) <=> Expired(a) \/ a = Retention
                       /\ a >= 0 <=> a \notin {NoRow, NoClock}
  <1>1. Retention \in Nat
    BY DataAssumption
  <1>2. Old \in Nat /\ Old = Retention + 1
    BY <1>1 DEF Old
  <1>3. NoRow = -2 /\ NoClock = -1
    BY DEF NoRow, NoClock
  <1>4. \A a \in 0..Old : Older(a) \in 0..Old
    BY <1>1, <1>2 DEF Older
  <1>5. ASSUME NEW a \in Ages
        PROVE  /\ Older(a) \in Ages
               /\ Older(a) = NoRow <=> a = NoRow
               /\ Older(a) = NoClock <=> a = NoClock
               /\ Expired(Older(a)) <=> Expired(a) \/ a = Retention
               /\ a >= 0 <=> a \notin {NoRow, NoClock}
    <2>1. CASE a \in 0..Old
      BY <1>1, <1>2, <1>3, <1>4, <2>1 DEF Ages, Older, Expired
    <2>2. CASE a \in {NoRow, NoClock}
      BY <1>1, <1>2, <1>3, <2>2 DEF Ages, Older, Expired
    <2>. QED
      BY <2>1, <2>2 DEF Ages
  <1>6. ~Expired(NoRow) /\ ~Expired(NoClock) /\ ~Expired(0)
    BY <1>1, <1>3 DEF Expired
  <1>7. 0 \in 0..Old
    BY <1>2
  <1>8. {NoRow, NoClock, 0} \subseteq Ages /\ NoRow # NoClock /\ 0 \notin {NoRow, NoClock}
    BY <1>3, <1>7 DEF Ages
  <1>. QED
    BY <1>1, <1>2, <1>4, <1>5, <1>6, <1>7, <1>8

\* Every variable keeps its kind.
LEMMA KindInvIsInductive == KindInv /\ [Next]_vars => KindInv'
  <1>. SUFFICES ASSUME KindInv, [Next]_vars
                PROVE  KindInv'
    OBVIOUS
  <1>. Retention \in Nat /\ Askers \subseteq Users
    BY DataAssumption
  <1>. USE DEF KindInv
  <1>1. ASSUME NEW u \in Users, Touch(u)
        PROVE  KindInv'
    <2>1. row' \in [Users -> Ages]
      BY <1>1, AgesAge DEF Touch
    <2>2. cause' \in [Users -> SUBSET Causes]
      <3>1. (IF Erasing(u) THEN {"raced"} ELSE {}) \in SUBSET Causes
        BY DEF Causes
      <3>2. cause' = [cause EXCEPT ![u] = IF Erasing(u) THEN {"raced"} ELSE {}]
        BY Zenon, <1>1 DEF Touch
      <3>. QED
        BY Zenon, <3>1, <3>2
    <2>3. turn' \in [Users -> {"idle", "graph", "upsert"}]
      BY <1>1 DEF Touch
    <2>. QED
      BY Zenon, <1>1, <2>1, <2>2, <2>3 DEF Touch, pvars
  <1>2. ASSUME NEW u \in Users, SaveCheckpoint(u) \/ SetActive(u) \/ EndTurn(u)
        PROVE  KindInv'
    <2>1. CASE SaveCheckpoint(u)
      BY <2>1 DEF SaveCheckpoint, pvars
    <2>2. CASE SetActive(u)
      BY <2>2, AgesAge DEF SetActive, pvars
    <2>3. CASE EndTurn(u)
      BY <2>3 DEF EndTurn, pvars
    <2>. QED
      BY <1>2, <2>1, <2>2, <2>3
  <1>3. ASSUME NEW u \in Users, UpsertFind(u)
        PROVE  KindInv'
    BY <1>3, FindFinds DEF UpsertFind
  <1>4. ASSUME NEW u \in Users, UpsertWrite(u)
        PROVE  KindInv'
    <2>. DEFINE lead == [who |-> u, age |-> 0]
    <2>1. lead \in Lead
      BY AgesAge DEF Lead
    <2>2. Append(sheet, lead) \in Seq(Lead)
      BY <2>1, AppendProperties, Zenon
    <2>3. ASSUME NEW i \in DOMAIN sheet
          PROVE  [sheet EXCEPT ![i] = lead] \in Seq(Lead)
      <3>1. i \in 1..Len(sheet) /\ sheet \in Seq(Lead)
        BY LenProperties
      <3>. HIDE DEF lead
      <3>. QED
        BY Zenon, <2>1, <3>1, ExceptSeq
    <2>4. sheet' \in Seq(Lead)
      BY <1>4, <2>2, <2>3 DEF UpsertWrite
    <2>. QED
      BY <1>4, <2>4 DEF UpsertWrite
  <1>5. ASSUME NEW u \in Users, UpsertRaises(u)
        PROVE  KindInv'
    BY <1>5 DEF UpsertRaises
  <1>6. CASE SelectExpired \/ (\E u \in Users : DeleteThreadRows(u)) \/ ReadLeads
               \/ PurgeDone \/ PurgeRaises
    BY <1>6 DEF SelectExpired, DeleteThreadRows, ReadLeads, PurgeDone, PurgeRaises, PurgeFails
  <1>7. ASSUME NEW u \in Users, DeleteThreadFails(u)
        PROVE  KindInv'
    <2>1. /\ cause' = [cause EXCEPT ![u] = Blamed(@, "failed")]
          /\ UNCHANGED <<checkpoint, row, sheet, turn, cell, purge, erase>>
      BY <1>7 DEF DeleteThreadFails
    <2>2. cause[u] \in SUBSET Causes /\ "failed" \in Causes
      BY DEF Causes
    <2>3. cause' \in [Users -> SUBSET Causes]
      BY <2>1, <2>2, BlameAdds
    <2>. QED
      BY <2>1, <2>3
  <1>8. CASE DeleteHandoffRows
    <2>1. /\ row' = [u \in Users |-> IF Expired(row[u]) THEN NoRow ELSE row[u]]
          /\ cause' = [u \in Users |-> IF Expired(row[u]) /\ u \in checkpoint \ thread_ids
                                       THEN Blamed(cause[u], "crossed") ELSE cause[u]]
          /\ purge' = "leads"
          /\ UNCHANGED <<checkpoint, sheet, turn, cell, erase>>
      BY Zenon, <1>8 DEF DeleteHandoffRows
    <2>2. \A u \in Users : cause[u] \in SUBSET Causes /\ "crossed" \in Causes
      BY DEF Causes
    <2>3. cause' \in [Users -> SUBSET Causes]
      BY <2>1, <2>2, BlameAdds
    <2>4. row' \in [Users -> Ages]
      BY <2>1, AgesAge
    <2>. QED
      BY <2>1, <2>3, <2>4
  <1>9. CASE DeleteLead
    BY <1>9, DeletedRow DEF DeleteLead
  <1>10. ASSUME NEW u \in Askers, EraseStart(u)
         PROVE  KindInv'
    BY <1>10 DEF EraseStart, pvars, Causes, Eraser
  <1>11. CASE EraseThread \/ EraseRow
    <2>1. erase' \in Eraser /\ erase'.who = erase.who /\ erase.who \in Users
      BY <1>11 DEF EraseThread, EraseRow, Eraser
    <2>2. cause' \in [Users -> SUBSET Causes]
      <3>1. \/ cause' = cause
            \/ cause' = [cause EXCEPT ![erase.who] = cause[erase.who] \cap {"raced"}]
        BY Zenon, <1>11 DEF EraseThread, EraseRow
      <3>2. cause[erase.who] \cap {"raced"} \in SUBSET Causes
        BY <2>1
      <3>. QED
        BY Zenon, <3>1, <3>2
    <2>3. row' \in [Users -> Ages]
      <3>1. row' = row \/ row' = [row EXCEPT ![erase.who] = NoRow]
        BY Zenon, <1>11 DEF EraseThread, EraseRow
      <3>2. NoRow \in Ages
        BY AgesAge
      <3>. QED
        BY Zenon, <3>1, <3>2
    <2>. QED
      BY <1>11, <2>1, <2>2, <2>3 DEF EraseThread, EraseRow, pvars
  <1>12. CASE EraseFind
    BY <1>12, FindFinds DEF EraseFind, pvars, Nobody, Eraser
  <1>13. CASE EraseLead
    BY <1>13, DeletedRow DEF EraseLead, pvars, Nobody, Eraser
  <1>14. CASE EraseFails
    <2>1. /\ \/ cause' = cause
             \/ erase.at # "idle" /\ cause' = [cause EXCEPT ![erase.who] = Blamed(@, "failed")]
          /\ UNCHANGED <<checkpoint, row, sheet, turn, cell, purge>>
      BY <1>14 DEF EraseFails, pvars
    <2>2. erase' \in Eraser /\ (erase'.at # "idle" => erase'.who \in Users)
      BY <1>14 DEF EraseFails, Nobody, Eraser
    <2>3. cause' \in [Users -> SUBSET Causes]
      <3>1. "failed" \in Causes
        BY DEF Causes
      <3>2. \A u \in Users : Blamed(cause[u], "failed") \in SUBSET Causes
        BY Zenon, <3>1, BlameAdds
      <3>3. CASE cause' = cause
        BY <3>3
      <3>4. CASE erase.at # "idle" /\ cause' = [cause EXCEPT ![erase.who] = Blamed(@, "failed")]
        <4>1. erase.who \in Users
          BY <3>4
        <4>. QED
          BY Zenon, <3>2, <3>4, <4>1
      <3>. QED
        BY <2>1, <3>3, <3>4
    <2>. QED
      BY <2>1, <2>2, <2>3
  <1>15. ASSUME NEW i \in DOMAIN sheet, StaffDeletes(i)
         PROVE  KindInv'
    BY <1>15, DeletedRow DEF StaffDeletes, pvars
  <1>16. CASE BotRestarts
    BY <1>16 DEF BotRestarts
  <1>17. CASE Tick
    <2>1. row' \in [Users -> Ages]
      <3>1. row' = [u \in Users |-> Older(row[u])]
        BY Zenon, <1>17 DEF Tick
      <3>. QED
        BY <3>1, AgesAge
    <2>4. sheet' \in Seq(Lead)
      <3>1. DOMAIN sheet = 1..Len(sheet) /\ Len(sheet) \in Nat
        BY LenProperties
      <3>2. sheet' = [i \in 1..Len(sheet) |-> [sheet[i] EXCEPT !.age = Older(@)]]
        BY Zenon, <1>17, <3>1 DEF Tick
      <3>3. \A i \in 1..Len(sheet) : sheet[i] \in Lead
        BY ElementOfSeq
      <3>4. \A l \in Lead : [l EXCEPT !.age = Older(@)] \in Lead
        BY AgesAge DEF Lead
      <3>5. sheet' \in [1..Len(sheet) -> Lead]
        BY Zenon, <3>2, <3>3, <3>4
      <3>. QED
        <4>1. sheet' \in UNION {[1..n -> Lead] : n \in Nat}
          BY Zenon, <3>1, <3>5
        <4>. QED
          BY Zenon, <4>1, SeqDef
    <2>. QED
      BY Zenon, <1>17, <2>1, <2>4 DEF Tick, pvars
  <1>18. CASE (\E u \in Users : BookTrial(u)) \/ UNCHANGED vars
    BY <1>18, BookingsApart
  <1>. QED
    BY <1>1, <1>2, <1>3, <1>4, <1>5, <1>6, <1>7, <1>8, <1>9, <1>10, <1>11, <1>12, <1>13,
       <1>14, <1>15, <1>16, <1>17, <1>18 DEF Next, Turn, Purge, Erasure

\* The lock of the sheet is held by the upsert or the purge that is at work.
LEMMA LockInvIsInductive == KindInv /\ LockInv /\ [Next]_vars => LockInv'
  <1>. SUFFICES ASSUME KindInv, LockInv, [Next]_vars
                PROVE  LockInv'
    OBVIOUS
  <1>. "free" \notin Users /\ "purge" \notin Users
    BY DataAssumption
  <1>. turn \in [Users -> {"idle", "graph", "upsert"}]
    BY DEF KindInv
  <1>. USE DEF LockInv, InFlight
  <1>1. ASSUME NEW u \in Users, Touch(u) \/ SaveCheckpoint(u) \/ SetActive(u) \/ EndTurn(u)
        PROVE  LockInv'
    <2>1. /\ UNCHANGED <<sheet_lock, purge, moved, erase>>
          /\ turn' = turn \/ (turn[u] \in {"idle", "graph"}
                                /\ \E p \in {"idle", "graph"} : turn' = [turn EXCEPT ![u] = p])
      BY Zenon, <1>1 DEF Touch, SaveCheckpoint, SetActive, EndTurn, pvars
    <2>. QED
      BY <2>1
  <1>2. ASSUME NEW u \in Users, UpsertFind(u)
        PROVE  LockInv'
    BY <1>2 DEF UpsertFind
  <1>3. ASSUME NEW u \in Users, UpsertWrite(u)
        PROVE  LockInv'
    BY <1>3 DEF UpsertWrite
  <1>4. ASSUME NEW u \in Users, UpsertRaises(u)
        PROVE  LockInv'
    BY <1>4 DEF UpsertRaises
  <1>5. CASE SelectExpired \/ DeleteHandoffRows
               \/ \E u \in Users : DeleteThreadRows(u) \/ DeleteThreadFails(u)
    <2>1. /\ UNCHANGED <<turn, sheet_lock, moved, erase>>
          /\ purge # "delete leads" /\ purge' # "delete leads"
      BY <1>5 DEF SelectExpired, DeleteHandoffRows, DeleteThreadRows, DeleteThreadFails
    <2>. QED
      BY <2>1
  <1>6. CASE ReadLeads
    BY <1>6 DEF ReadLeads
  <1>7. CASE DeleteLead
    BY <1>7 DEF DeleteLead
  <1>8. CASE PurgeDone
    BY <1>8 DEF PurgeDone
  <1>9. CASE PurgeRaises
    BY <1>9 DEF PurgeRaises, PurgeFails
  <1>10. CASE EraseThread \/ EraseRow \/ EraseFind \/ \E u \in Askers : EraseStart(u)
    <2>1. UNCHANGED <<turn, sheet_lock, purge, moved>> /\ erase.at # "delete lead"
      BY Zenon, <1>10 DEF EraseStart, EraseThread, EraseRow, EraseFind, pvars
    <2>. QED
      BY <2>1
  <1>11. CASE EraseLead
    BY <1>11 DEF EraseLead, pvars, Nobody
  <1>12. CASE EraseFails
    <2>1. UNCHANGED <<turn, sheet_lock, purge>> /\ moved' = moved \ {"erase"}
      BY Zenon, <1>12 DEF EraseFails, pvars
    <2>. QED
      BY <2>1
  <1>13. ASSUME NEW i \in DOMAIN sheet, StaffDeletes(i)
         PROVE  LockInv'
    <2>1. UNCHANGED <<turn, sheet_lock, purge, erase>> /\ moved' = moved \cup InFlight
      BY Zenon, <1>13 DEF StaffDeletes, pvars
    <2>. QED
      BY <2>1
  <1>14. CASE BotRestarts
    BY <1>14 DEF BotRestarts
  <1>15. CASE Tick \/ (\E u \in Users : BookTrial(u)) \/ UNCHANGED vars
    <2>1. UNCHANGED <<turn, sheet_lock, purge, moved, erase>>
      BY Zenon, <1>15, BookingsApart DEF Tick, pvars
    <2>. QED
      BY <2>1
  <1>. QED
    BY <1>1, <1>2, <1>3, <1>4, <1>5, <1>6, <1>7, <1>8, <1>9, <1>10, <1>11, <1>12, <1>13,
       <1>14, <1>15 DEF Next, Turn, Purge, Erasure

-----------------------------------------------------------------------------
(* The threads' clocks *)

\* Where reasons are added, none is taken away.
LEMMA ReasonsGrow ==
    ASSUME NEW reasons \in SUBSET Causes, NEW why \in Causes, NEW then,
           then = reasons \/ then = Blamed(reasons, why)
    PROVE  reasons \subseteq then /\ (reasons # {} => then # {})
  BY BlameAdds

\* delete_by_psid goes on with the customer it began with.
LEMMA EraserMoves ==
    ASSUME NEW e \in Eraser, NEW p
    PROVE  [e EXCEPT !.at = p].who = e.who /\ [e EXCEPT !.at = p].at = p
  BY DEF Eraser

\* How the record of an erasure starts and rests.
LEMMA EraserStarts ==
    /\ \A u : [at |-> "thread", who |-> u, cell |-> 0].at = "thread"
    /\ Nobody.at = "idle"
  BY DEF Nobody

\* Only an erasure beside the turn takes the clock of a thread at work.
LEMMA TurnClockInvIsInductive ==
    KindInv /\ LockInv /\ TurnClockInv /\ [Next]_vars => TurnClockInv'
  <1>. SUFFICES ASSUME KindInv, LockInv, TurnClockInv, [Next]_vars
                PROVE  TurnClockInv'
    OBVIOUS
  <1>. /\ turn \in [Users -> {"idle", "graph", "upsert"}]
       /\ row \in [Users -> Ages] /\ cause \in [Users -> SUBSET Causes]
       /\ erase \in Eraser /\ (erase.at # "idle" => erase.who \in Users)
       /\ Askers \subseteq Users
    BY DataAssumption DEF KindInv
  <1>. USE DEF TurnClockInv, Erasing
  <1>1. ASSUME NEW u \in Users, Touch(u)
        PROVE  TurnClockInv'
    <2>1. /\ turn' = [turn EXCEPT ![u] = "graph"] /\ row' = [row EXCEPT ![u] = 0]
          /\ cause' = [cause EXCEPT ![u] = IF Erasing(u) THEN {"raced"} ELSE {}]
          /\ erase' = erase
      BY Zenon, <1>1 DEF Touch
    <2>. QED
      BY <2>1, AgesAge
  <1>2. ASSUME NEW u \in Users, turn[u] # "idle", UNCHANGED <<cause, erase>>,
               row' = row \/ (row' = [row EXCEPT ![u] = NoClock] /\ row[u] # 0),
               turn' = turn \/ \E p : turn' = [turn EXCEPT ![u] = p]
        PROVE  TurnClockInv'
    BY <1>2
  <1>3. ASSUME NEW u \in Users, Turn(u)
        PROVE  TurnClockInv'
    <2>1. /\ turn[u] # "idle" /\ UNCHANGED <<cause, erase>>
          /\ row' = row \/ (row' = [row EXCEPT ![u] = NoClock] /\ row[u] = NoRow)
          /\ turn' = turn \/ \E p : turn' = [turn EXCEPT ![u] = p]
      BY Zenon, <1>3 DEF Turn, SaveCheckpoint, SetActive, UpsertFind, UpsertWrite,
         UpsertRaises, EndTurn
    <2>. QED
      BY <1>2, <2>1, AgesAge
  <1>4. CASE DeleteHandoffRows
    <2>1. /\ UNCHANGED <<turn, erase>>
          /\ row' = [u \in Users |-> IF Expired(row[u]) THEN NoRow ELSE row[u]]
          /\ \A u \in Users : \/ cause'[u] = cause[u]
                               \/ cause'[u] = Blamed(cause[u], "crossed")
      BY <1>4 DEF DeleteHandoffRows
    <2>2. \A u \in Users : cause[u] \subseteq cause'[u]
      <3>1. "crossed" \in Causes
        BY DEF Causes
      <3>. QED
        BY <2>1, <3>1, ReasonsGrow
    <2>. QED
      BY <2>1, <2>2, AgesAge
  <1>5. CASE SelectExpired \/ ReadLeads \/ DeleteLead \/ PurgeDone \/ PurgeRaises
               \/ \E u \in Users : DeleteThreadRows(u)
    <2>1. UNCHANGED <<turn, row, cause, erase>>
      BY Zenon, <1>5 DEF SelectExpired, ReadLeads, DeleteLead, PurgeDone, PurgeRaises,
         PurgeFails, DeleteThreadRows
    <2>. QED
      BY <2>1
  <1>6. ASSUME NEW u \in Users, DeleteThreadFails(u)
        PROVE  TurnClockInv'
    <2>1. /\ cause' = [cause EXCEPT ![u] = Blamed(@, "failed")]
          /\ UNCHANGED <<turn, row, erase>>
      BY <1>6 DEF DeleteThreadFails
    <2>2. \A v \in Users : cause[v] \subseteq cause'[v]
      <3>1. "failed" \in Causes
        BY DEF Causes
      <3>2. \A v \in Users : cause'[v] = cause[v] \/ cause'[v] = Blamed(cause[v], "failed")
        BY <2>1
      <3>. QED
        BY <3>1, <3>2, ReasonsGrow
    <2>. QED
      BY <2>1, <2>2
  <1>7. ASSUME NEW u \in Askers, EraseStart(u)
        PROVE  TurnClockInv'
    BY <1>7 DEF EraseStart
  <1>8. CASE EraseThread
    <2>1. /\ erase' = [erase EXCEPT !.at = "row"] /\ erase.at # "idle"
          /\ cause' = [cause EXCEPT ![erase.who] = @ \cap {"raced"}]
          /\ UNCHANGED <<turn, row>>
      BY <1>8 DEF EraseThread, pvars
    <2>2. erase'.who = erase.who
      BY <2>1, EraserMoves
    <2>. QED
      BY <2>1, <2>2
  <1>9. CASE EraseRow
    <2>1. /\ erase' = [erase EXCEPT !.at = "lead"] /\ erase.at # "idle"
          /\ row' = [row EXCEPT ![erase.who] = NoRow]
          /\ UNCHANGED <<turn, cause>>
      BY <1>9 DEF EraseRow, pvars
    <2>2. erase'.who = erase.who
      BY <2>1, EraserMoves
    <2>. QED
      BY <2>1, <2>2, AgesAge
  <1>10. CASE EraseFind \/ EraseLead \/ EraseFails
    <2>1. /\ UNCHANGED <<turn, row>> /\ erase.at # "idle"
          /\ erase'.at = "idle" \/ erase'.who = erase.who
          /\ \A u \in Users : cause[u] \subseteq cause'[u]
      <3>1. CASE EraseFind \/ EraseLead
        <4>1. /\ UNCHANGED <<turn, row, cause>> /\ erase.at # "idle"
              /\ \/ erase' = [erase EXCEPT !.at = "delete lead", !.cell = Find(erase.who)]
                 \/ erase' = Nobody
          BY Zenon, <3>1 DEF EraseFind, EraseLead, pvars
        <4>2. erase'.at = "idle" \/ erase'.who = erase.who
          <5>1. CASE erase' = [erase EXCEPT !.at = "delete lead", !.cell = Find(erase.who)]
            BY <5>1 DEF Eraser
          <5>2. CASE erase' = Nobody
            BY <5>2 DEF Nobody
          <5>. QED
            BY <4>1, <5>1, <5>2
        <4>. QED
          BY <4>1, <4>2
      <3>2. CASE EraseFails
        <4>1. /\ UNCHANGED <<turn, row>> /\ erase.at # "idle"
              /\ \/ \E p : erase' = [erase EXCEPT !.at = p]
                 \/ erase' = Nobody
              /\ cause' = cause
                    \/ cause' = [cause EXCEPT ![erase.who] = Blamed(@, "failed")]
          BY <3>2 DEF EraseFails, pvars
        <4>2. erase'.at = "idle" \/ erase'.who = erase.who
          <5>1. ASSUME NEW p, erase' = [erase EXCEPT !.at = p]
                PROVE  erase'.who = erase.who
            BY Zenon, <5>1, EraserMoves
          <5>2. CASE erase' = Nobody
            BY <5>2 DEF Nobody
          <5>. QED
            BY <4>1, <5>1, <5>2
        <4>3. \A u \in Users : cause[u] \subseteq cause'[u]
          <5>1. "failed" \in Causes
            BY DEF Causes
          <5>2. \A u \in Users : cause'[u] = cause[u] \/ cause'[u] = Blamed(cause[u], "failed")
            BY <4>1
          <5>. QED
            BY <5>1, <5>2, ReasonsGrow
        <4>. QED
          BY <4>1, <4>2, <4>3
      <3>. QED
        BY <1>10, <3>1, <3>2
    <2>. QED
      BY <2>1
  <1>11. CASE (\E i \in DOMAIN sheet : StaffDeletes(i)) \/ (\E u \in Users : BookTrial(u)) \/ UNCHANGED vars
    <2>1. UNCHANGED <<turn, row, cause, erase>>
      BY Zenon, <1>11, BookingsApart DEF StaffDeletes
    <2>. QED
      BY <2>1
  <1>12. CASE BotRestarts
    BY <1>12 DEF BotRestarts
  <1>13. CASE Tick
    <2>1. /\ UNCHANGED <<turn, cause, erase>> /\ \A u \in Users : turn[u] = "idle"
          /\ row' = [u \in Users |-> Older(row[u])]
      BY Zenon, <1>13 DEF Tick
    <2>. QED
      BY <2>1, AgesAge
  <1>. QED
    BY <1>1, <1>3, <1>4, <1>5, <1>6, <1>7, <1>8, <1>9, <1>10, <1>11, <1>12, <1>13
       DEF Next, Purge, Erasure

\* A thread that loses its row, or keeps its checkpoint, without a clock has
\* met an erasure, a failing DELETE or the edge of the window.
LEMMA RowInvIsInductive ==
    KindInv /\ LockInv /\ TurnClockInv /\ RowInv /\ [Next]_vars => RowInv'
  <1>. SUFFICES ASSUME KindInv, LockInv, TurnClockInv, RowInv, [Next]_vars
                PROVE  RowInv'
    OBVIOUS
  <1>. /\ turn \in [Users -> {"idle", "graph", "upsert"}]
       /\ row \in [Users -> Ages] /\ cause \in [Users -> SUBSET Causes]
       /\ erase \in Eraser /\ (erase.at # "idle" => erase.who \in Users)
       /\ Askers \subseteq Users
    BY DataAssumption DEF KindInv
  <1>. USE DEF RowInv
  <1>1. ASSUME NEW u \in Users, Touch(u)
        PROVE  RowInv'
    <2>1. /\ row' = [row EXCEPT ![u] = 0]
          /\ cause' = [cause EXCEPT ![u] = IF Erasing(u) THEN {"raced"} ELSE {}]
          /\ UNCHANGED <<checkpoint, purge, thread_ids, todo, erase>>
      BY Zenon, <1>1 DEF Touch, pvars
    <2>2. /\ row'[u] = 0 /\ (Erasing(u) => cause'[u] = {"raced"})
          /\ \A v \in Users \ {u} : row'[v] = row[v] /\ cause'[v] = cause[v]
      BY <2>1
    <2>3. ~Expired(0) /\ 0 # NoRow
      BY AgesAge
    <2>. QED
      BY <2>1, <2>2, <2>3 DEF Erasing
  <1>2. ASSUME NEW u \in Users, SaveCheckpoint(u)
        PROVE  RowInv'
    <2>1. /\ checkpoint' = checkpoint \cup {u} /\ turn[u] # "idle"
          /\ UNCHANGED <<row, cause, purge, thread_ids, todo, erase>>
      BY <1>2 DEF SaveCheckpoint, pvars
    <2>. QED
      BY ZenonT(30), <2>1, AgesAge DEF TurnClockInv, Erasing
  <1>3. ASSUME NEW u \in Users, SetActive(u)
        PROVE  RowInv'
    <2>1. /\ row' = [row EXCEPT ![u] = NoClock] /\ turn[u] # "idle"
          /\ UNCHANGED <<checkpoint, cause, purge, thread_ids, todo, erase>>
      BY <1>3 DEF SetActive, pvars
    <2>2. /\ row'[u] = NoClock
          /\ \A v \in Users \ {u} : row'[v] = row[v]
      BY <2>1
    <2>3. ~Expired(NoClock) /\ NoClock # NoRow
      BY AgesAge
    <2>4. (erase.who = u /\ cause[u] = {}) => erase.at = "idle"
      BY <2>1 DEF TurnClockInv, Erasing
    <2>. QED
      BY <2>1, <2>2, <2>3, <2>4
  <1>4. CASE \/ \E u \in Users : UpsertFind(u) \/ UpsertWrite(u) \/ UpsertRaises(u)
                                    \/ EndTurn(u)
             \/ \E i \in DOMAIN sheet : StaffDeletes(i)
             \/ (\E u \in Users : BookTrial(u)) \/ UNCHANGED vars
    <2>1. UNCHANGED <<checkpoint, row, cause, purge, thread_ids, todo, erase>>
      BY Zenon, <1>4, BookingsApart DEF UpsertFind, UpsertWrite, UpsertRaises, EndTurn,
         StaffDeletes, pvars
    <2>. QED
      BY <2>1
  <1>5. CASE SelectExpired
    BY <1>5 DEF SelectExpired
  <1>6. ASSUME NEW u \in Users, DeleteThreadRows(u)
        PROVE  RowInv'
    BY <1>6 DEF DeleteThreadRows
  <1>7. ASSUME NEW u \in Users, DeleteThreadFails(u)
        PROVE  RowInv'
    <2>1. /\ cause' = [cause EXCEPT ![u] = Blamed(@, "failed")]
          /\ todo' = todo \ {u} /\ purge = "threads"
          /\ UNCHANGED <<checkpoint, row, purge, thread_ids, erase>>
      BY <1>7 DEF DeleteThreadFails
    <2>2. cause'[u] # {} /\ \A v \in Users : cause[v] # {} => cause'[v] # {}
      <3>1. "failed" \in Causes /\ cause[u] \in SUBSET Causes
        BY DEF Causes, KindInv
      <3>2. /\ cause'[u] = Blamed(cause[u], "failed")
            /\ \A v \in Users : cause'[v] = cause[v] \/ cause'[v] = Blamed(cause[v], "failed")
        BY <2>1
      <3>3. cause'[u] # {}
        BY Zenon, <3>1, <3>2, BlameAdds
      <3>4. \A v \in Users : cause[v] # {} => cause'[v] # {}
        BY <3>1, <3>2, ReasonsGrow
      <3>. QED
        BY <3>3, <3>4
    <2>. QED
      BY <2>1, <2>2
  <1>8. CASE DeleteHandoffRows
    <2>1. /\ todo = {} /\ thread_ids' = {}
          /\ UNCHANGED <<checkpoint, erase>>
          /\ \A u \in Users :
                /\ row'[u] = IF Expired(row[u]) THEN NoRow ELSE row[u]
                /\ cause'[u] = IF Expired(row[u]) /\ u \in checkpoint \ thread_ids
                               THEN Blamed(cause[u], "crossed") ELSE cause[u]
      BY <1>8 DEF DeleteHandoffRows
    <2>2. ASSUME NEW u \in Users, Expired(row[u]), u \in checkpoint
          PROVE  cause'[u] # {}
      <3>1. "crossed" \in Causes /\ cause[u] \in SUBSET Causes
        BY DEF Causes, KindInv
      <3>2. u \in thread_ids => cause[u] # {}
        BY <2>1, <2>2
      <3>3. \/ cause'[u] = cause[u] /\ u \in thread_ids
            \/ cause'[u] = Blamed(cause[u], "crossed")
        BY <2>1, <2>2
      <3>. QED
        BY Zenon, <3>1, <3>2, <3>3, BlameAdds
    <2>3. \A u \in Users : ~Expired(row'[u])
      BY <2>1, AgesAge
    <2>4. \A u \in Users : cause[u] # {} => cause'[u] # {}
      <3>1. "crossed" \in Causes
        BY DEF Causes
      <3>2. \A u \in Users : cause'[u] = cause[u] \/ cause'[u] = Blamed(cause[u], "crossed")
        BY <2>1
      <3>. QED
        BY <3>1, <3>2, ReasonsGrow
    <2>. QED
      BY <2>1, <2>2, <2>3, <2>4
  <1>9. CASE ReadLeads \/ DeleteLead \/ PurgeDone \/ PurgeRaises
    <2>1. /\ UNCHANGED <<checkpoint, row, cause, erase>>
          /\ thread_ids' = {} \/ (thread_ids' = thread_ids /\ purge # "threads")
      BY <1>9 DEF ReadLeads, DeleteLead, PurgeDone, PurgeRaises, PurgeFails
    <2>. QED
      BY <2>1
  <1>10. ASSUME NEW u \in Askers, EraseStart(u)
         PROVE  RowInv'
    BY <1>10 DEF EraseStart, pvars
  <1>11. CASE EraseThread
    <2>1. /\ erase' = [erase EXCEPT !.at = "row"] /\ erase.at # "idle"
          /\ checkpoint' = checkpoint \ {erase.who}
          /\ cause' = [cause EXCEPT ![erase.who] = @ \cap {"raced"}]
          /\ UNCHANGED <<row, purge, thread_ids, todo>>
      BY <1>11 DEF EraseThread, pvars
    <2>2. erase'.who = erase.who /\ erase'.at = "row"
      BY Zenon, <2>1, EraserMoves
    <2>3. \A u \in Users \ {erase.who} : cause'[u] = cause[u]
      BY <2>1
    <2>. QED
      BY <2>1, <2>2, <2>3
  <1>12. CASE EraseRow
    <2>1. /\ erase' = [erase EXCEPT !.at = "lead"] /\ erase.at = "row"
          /\ row' = [row EXCEPT ![erase.who] = NoRow]
          /\ UNCHANGED <<checkpoint, cause, purge, thread_ids, todo>>
      BY <1>12 DEF EraseRow, pvars
    <2>2. erase'.who = erase.who /\ erase'.at = "lead"
      BY <2>1, EraserMoves
    <2>3. /\ row'[erase.who] = NoRow /\ ~Expired(NoRow)
          /\ \A u \in Users \ {erase.who} : row'[u] = row[u]
      BY <2>1, AgesAge
    <2>4. erase.who \in checkpoint => cause[erase.who] # {}
      BY <2>1
    <2>. QED
      BY <2>1, <2>2, <2>3, <2>4
  <1>13. CASE EraseFind
    BY <1>13 DEF EraseFind, pvars, Nobody
  <1>14. CASE EraseLead
    BY <1>14 DEF EraseLead, pvars, Nobody
  <1>15. CASE EraseFails
    <2>1. erase.at # "idle" /\ UNCHANGED <<checkpoint, row, purge, thread_ids, todo>>
      BY Zenon, <1>15 DEF EraseFails, pvars
    <2>2. CASE erase.at \in {"thread", "row"}
      <3>1. cause' = [cause EXCEPT ![erase.who] = Blamed(@, "failed")]
        BY <1>15, <2>2 DEF EraseFails
      <3>2. erase'.who = erase.who
        <4>1. \/ erase' = [erase EXCEPT !.at = "row"]
              \/ erase' = [erase EXCEPT !.at = "lead"]
          BY <1>15, <2>2 DEF EraseFails
        <4>. QED
          BY <4>1 DEF Eraser
      <3>3. cause'[erase.who] # {} /\ \A u \in Users : cause[u] # {} => cause'[u] # {}
        <4>1. "failed" \in Causes /\ erase.who \in Users /\ cause[erase.who] \in SUBSET Causes
          BY <2>1 DEF Causes, KindInv
        <4>2. /\ cause'[erase.who] = Blamed(cause[erase.who], "failed")
              /\ \A u \in Users : cause'[u] = cause[u] \/ cause'[u] = Blamed(cause[u], "failed")
          BY <3>1, <4>1
        <4>. QED
          BY <4>1, <4>2, BlameAdds, ReasonsGrow
      <3>4. \A u \in Users : ~(erase'.who = u /\ cause'[u] = {})
        BY <3>2, <3>3
      <3>. QED
        BY <2>1, <3>3, <3>4
    <2>3. CASE erase.at \notin {"thread", "row"}
      <3>1. cause' = cause /\ erase' = Nobody
        BY <1>15, <2>1, <2>3 DEF EraseFails
      <3>. QED
        BY <2>1, <3>1 DEF Nobody
    <2>. QED
      BY <2>2, <2>3
  <1>16. CASE BotRestarts
    BY <1>16 DEF BotRestarts
  <1>17. CASE Tick
    <2>1. /\ UNCHANGED <<checkpoint, cause, purge, thread_ids, todo, erase>>
          /\ \A u \in thread_ids : row[u] # Retention
          /\ row' = [u \in Users |-> Older(row[u])]
      BY Zenon, <1>17 DEF Tick, pvars
    <2>. QED
      BY <2>1, AgesAge
  <1>. QED
    BY <1>1, <1>2, <1>3, <1>4, <1>5, <1>6, <1>7, <1>8, <1>9, <1>10, <1>11, <1>12, <1>13,
       <1>14, <1>15, <1>16, <1>17 DEF Next, Turn, Purge, Erasure

-----------------------------------------------------------------------------
(* The positions in the worksheet *)

\* Whoever is at work on the sheet excludes the others.
LEMMA OneAtTheSheet ==
    ASSUME LockInv
    PROVE  /\ \A u, v \in Users : turn[u] = "upsert" /\ turn[v] = "upsert" => u = v
           /\ \A u \in Users : turn[u] = "upsert" => purge # "delete leads"
           /\ sheet_lock = "free" =>
                 purge # "delete leads" /\ \A u \in Users : turn[u] # "upsert"
  <1>1. "free" \notin Users /\ "purge" \notin Users
    BY DataAssumption
  <1>. QED
    BY <1>1 DEF LockInv

\* An upsert whose position is not outdated writes a row of its own customer.
LEMMA WriteKeepsTheOwners ==
    ASSUME KindInv, UpsertPosition, NEW u \in Users, UpsertWrite(u), "bot" \notin moved
    PROVE  \A i \in DOMAIN sheet : i \in DOMAIN sheet' /\ sheet'[i].who = sheet[i].who
  <1>. DEFINE lead == [who |-> u, age |-> 0]
  <1>. sheet \in Seq(Lead) /\ cell \in [Users -> Nat]
    BY DEF KindInv
  <1>1. DOMAIN sheet = 1..Len(sheet) /\ Len(sheet) \in Nat
    BY LenProperties
  <1>2. /\ turn[u] = "upsert"
        /\ sheet' = IF cell[u] \in DOMAIN sheet
                    THEN [sheet EXCEPT ![cell[u]] = lead] ELSE Append(sheet, lead)
    BY Zenon DEF UpsertWrite
  <1>3. lead.who = u
    OBVIOUS
  <1>. HIDE DEF lead
  <1>4. CASE cell[u] \in DOMAIN sheet
    <2>1. cell[u] # 0
      BY <1>1, <1>4
    <2>2. sheet[cell[u]].who = u
      BY <1>2, <1>4, <2>1 DEF UpsertPosition
    <2>3. DOMAIN sheet' = DOMAIN sheet /\ sheet'[cell[u]] = lead
          /\ \A i \in DOMAIN sheet : i # cell[u] => sheet'[i] = sheet[i]
      BY <1>2, <1>4
    <2>. QED
      BY <1>3, <2>2, <2>3
  <1>5. CASE cell[u] \notin DOMAIN sheet
    <2>1. sheet' = Append(sheet, lead)
      BY <1>2, <1>5
    <2>2. \A i \in 1..Len(sheet) : i \in DOMAIN sheet' /\ sheet'[i] = sheet[i]
      <3>1. lead \in Lead
        BY AgesAge DEF lead, Lead
      <3>2. /\ DOMAIN Append(sheet, lead) = 1..(Len(sheet) + 1)
            /\ \A i \in 1..Len(sheet) : Append(sheet, lead)[i] = sheet[i]
        BY <3>1, AppendProperties
      <3>. QED
        BY <1>1, <2>1, <3>2
    <2>. QED
      BY <1>1, <2>2
  <1>. QED
    BY <1>4, <1>5

\* The rows still to be deleted lie above the one that is deleted.
LEMMA DeletionsGoUpwards ==
    ASSUME KindInv, PurgePosition, DeleteLead, "bot" \notin moved
    PROVE  /\ Max(todo) \in todo /\ Max(todo) \in DOMAIN sheet
           /\ Expired(sheet[Max(todo)].age)
           /\ \A i \in todo' : i \in DOMAIN sheet' /\ sheet'[i] = sheet[i]
  <1>. sheet \in Seq(Lead)
    BY DEF KindInv
  <1>1. DOMAIN sheet = 1..Len(sheet) /\ Len(sheet) \in Nat
    BY LenProperties
  <1>2. /\ purge = "delete leads" /\ todo # {} /\ DeleteRow(Max(todo))
        /\ todo' = todo \ {Max(todo)}
    BY DEF DeleteLead
  <1>3. \A i \in todo : i \in DOMAIN sheet /\ Expired(sheet[i].age)
    BY <1>2 DEF PurgePosition
  <1>4. Max(todo) \in todo /\ \A i \in todo : i <= Max(todo)
    <2>1. todo \in SUBSET (1..Len(sheet))
      BY <1>1, <1>3
    <2>. QED
      BY <1>1, <1>2, <2>1, MaxIsGreatest, Zenon
  <1>5. /\ DOMAIN sheet' = 1..(Len(sheet) - 1)
        /\ \A j \in DOMAIN sheet' :
              sheet'[j] = IF j < Max(todo) THEN sheet[j] ELSE sheet[j + 1]
    BY <1>2, <1>3, <1>4, DeletedRow, Zenon
  <1>6. ASSUME NEW i \in todo'
        PROVE  i \in DOMAIN sheet' /\ sheet'[i] = sheet[i]
    <2>1. i \in 1..Len(sheet) /\ Max(todo) \in 1..Len(sheet) /\ i <= Max(todo) /\ i # Max(todo)
      BY <1>1, <1>2, <1>3, <1>4
    <2>2. i \in 1..(Len(sheet) - 1) /\ i < Max(todo)
      BY <1>1, <2>1
    <2>. QED
      BY <1>5, <2>2
  <1>. QED
    BY <1>3, <1>4, <1>6

\* Days pass over the rows where they are.
LEMMA TickKeepsTheRows ==
    ASSUME KindInv, Tick
    PROVE  /\ DOMAIN sheet' = DOMAIN sheet
           /\ \A i \in DOMAIN sheet : /\ sheet'[i].who = sheet[i].who
                                      /\ Expired(sheet[i].age) => Expired(sheet'[i].age)
  <1>. sheet \in Seq(Lead)
    BY DEF KindInv
  <1>1. sheet' = [i \in DOMAIN sheet |-> [sheet[i] EXCEPT !.age = Older(@)]]
    BY Zenon DEF Tick
  <1>2. ASSUME NEW i \in DOMAIN sheet
        PROVE  /\ sheet'[i].who = sheet[i].who
               /\ Expired(sheet[i].age) => Expired(sheet'[i].age)
    <2>1. sheet[i] \in Lead
      <3>1. DOMAIN sheet = 1..Len(sheet)
        BY LenProperties
      <3>. QED
        BY <3>1, ElementOfSeq
    <2>2. sheet'[i] = [sheet[i] EXCEPT !.age = Older(@)]
      BY <1>1
    <2>3. sheet'[i].who = sheet[i].who /\ sheet'[i].age = Older(sheet[i].age)
      BY <2>1, <2>2 DEF Lead
    <2>4. sheet[i].age \in Ages
      BY <2>1 DEF Lead, Ages
    <2>. QED
      BY <2>3, <2>4, AgesAge
  <1>. QED
    BY <1>1, <1>2

\* A position is looked up and used under the lock of the sheet, and the history
\* names the operations whose position an outsider has outdated.
LEMMA PositionInvIsInductive ==
    KindInv /\ LockInv /\ PositionInv /\ [Next]_vars => PositionInv'
  <1>. SUFFICES ASSUME KindInv, LockInv, PositionInv, [Next]_vars
                PROVE  PositionInv'
    OBVIOUS
  <1>. /\ turn \in [Users -> {"idle", "graph", "upsert"}] /\ cell \in [Users -> Nat]
       /\ sheet \in Seq(Lead) /\ erase \in Eraser /\ moved \subseteq InFlight
    BY DEF KindInv, LockInv
  <1>. UpsertPosition /\ PurgePosition /\ ErasePosition
    BY DEF PositionInv
  <1>. USE DEF PositionInv, UpsertPosition, PurgePosition, ErasePosition
  <1>1. ASSUME NEW u \in Users, Touch(u) \/ SaveCheckpoint(u) \/ SetActive(u) \/ EndTurn(u)
        PROVE  PositionInv'
    <2>1. /\ UNCHANGED <<sheet, cell, purge, todo, erase, moved>>
          /\ turn' = turn \/ turn' = [turn EXCEPT ![u] = "graph"]
                \/ turn' = [turn EXCEPT ![u] = "idle"]
      BY Zenon, <1>1 DEF Touch, SaveCheckpoint, SetActive, EndTurn, pvars
    <2>2. \A v \in Users : turn'[v] = "upsert" => turn[v] = "upsert"
      BY <2>1
    <2>. QED
      BY <2>1, <2>2
  <1>2. ASSUME NEW u \in Users, UpsertFind(u)
        PROVE  PositionInv'
    <2>1. /\ UNCHANGED <<sheet, purge, todo, erase, moved>> /\ sheet_lock = "free"
          /\ cell' = [cell EXCEPT ![u] = Find(u)]
          /\ turn' = [turn EXCEPT ![u] = "upsert"]
      BY Zenon, <1>2 DEF UpsertFind
    <2>2. purge # "delete leads" /\ \A v \in Users : turn[v] # "upsert"
      BY <2>1, OneAtTheSheet
    <2>3. cell'[u] = Find(u) /\ \A v \in Users \ {u} : turn'[v] # "upsert"
      BY <2>1, <2>2
    <2>4. Find(u) # 0 => Find(u) \in DOMAIN sheet /\ sheet[Find(u)].who = u
      BY FindFinds
    <2>. QED
      BY <2>1, <2>2, <2>3, <2>4
  <1>3. ASSUME NEW u \in Users, UpsertWrite(u)
        PROVE  PositionInv'
    <2>1. /\ UNCHANGED <<purge, todo, erase>> /\ turn[u] = "upsert"
          /\ turn' = [turn EXCEPT ![u] = "graph"]
          /\ moved' = (IF "bot" \in moved THEN InFlight ELSE moved) \ {"bot"}
      BY Zenon, <1>3 DEF UpsertWrite
    <2>2. purge # "delete leads" /\ \A v \in Users : turn'[v] # "upsert"
      BY <2>1, OneAtTheSheet
    <2>3. ErasePosition'
      <3>1. CASE "bot" \in moved
        <4>1. erase.at = "delete lead" => "erase" \in moved'
          BY <2>1, <3>1 DEF InFlight
        <4>. QED
          BY <2>1, <4>1
      <3>2. CASE "bot" \notin moved
        <4>1. \A i \in DOMAIN sheet : i \in DOMAIN sheet' /\ sheet'[i].who = sheet[i].who
          BY Zenon, <1>3, <3>2, WriteKeepsTheOwners
        <4>2. "erase" \in moved' <=> "erase" \in moved
          BY <2>1, <3>2
        <4>. QED
          BY <2>1, <4>1, <4>2
      <3>. QED
        BY <3>1, <3>2
    <2>. QED
      BY <2>1, <2>2, <2>3
  <1>4. ASSUME NEW u \in Users, UpsertRaises(u)
        PROVE  PositionInv'
    <2>1. /\ UNCHANGED <<sheet, purge, todo, erase>> /\ turn[u] = "upsert"
          /\ turn' = [turn EXCEPT ![u] = "graph"] /\ moved' = moved \ {"bot"}
      BY Zenon, <1>4 DEF UpsertRaises
    <2>2. purge # "delete leads" /\ \A v \in Users : turn'[v] # "upsert"
      BY <2>1, OneAtTheSheet
    <2>. QED
      BY <2>1, <2>2
  <1>5. CASE SelectExpired \/ DeleteHandoffRows
               \/ \E u \in Users : DeleteThreadRows(u) \/ DeleteThreadFails(u)
    <2>1. UNCHANGED <<sheet, turn, cell, erase, moved>> /\ purge' # "delete leads"
      BY <1>5 DEF SelectExpired, DeleteHandoffRows, DeleteThreadRows, DeleteThreadFails
    <2>. QED
      BY <2>1
  <1>6. CASE ReadLeads
    <2>1. UNCHANGED <<sheet, turn, cell, erase, moved>>
          /\ todo' = {i \in DOMAIN sheet : Expired(sheet[i].age)}
      BY Zenon, <1>6 DEF ReadLeads
    <2>. QED
      BY <2>1
  <1>7. CASE DeleteLead
    <2>1. /\ UNCHANGED <<turn, purge, erase>> /\ purge = "delete leads"
          /\ moved' = moved \cup (InFlight \ {"bot"})
      BY Zenon, <1>7 DEF DeleteLead
    <2>2. \A u \in Users : turn[u] # "upsert"
      BY <2>1, OneAtTheSheet
    <2>3. erase.at = "delete lead" => "erase" \in moved'
      BY <2>1 DEF InFlight
    <2>4. PurgePosition'
      <3>1. SUFFICES ASSUME "bot" \notin moved'
                     PROVE  \A i \in todo' : i \in DOMAIN sheet' /\ Expired(sheet'[i].age)
        OBVIOUS
      <3>2. "bot" \notin moved
        BY <2>1, <3>1
      <3>3. \A i \in todo' : i \in DOMAIN sheet' /\ sheet'[i] = sheet[i]
        BY Zenon, <1>7, <3>2, DeletionsGoUpwards
      <3>4. \A i \in todo' : Expired(sheet[i].age)
        BY <1>7, <2>1, <3>2 DEF DeleteLead
      <3>. QED
        BY <3>3, <3>4
    <2>. QED
      BY <2>1, <2>2, <2>3, <2>4
  <1>8. CASE PurgeDone \/ PurgeRaises
    <2>1. /\ UNCHANGED <<sheet, turn, cell, erase>> /\ purge' = "sleep"
          /\ moved' = moved \/ (moved' = moved \ {"bot"}
                /\ (purge = "delete leads" \/ sheet_lock = "purge"))
      BY <1>8 DEF PurgeDone, PurgeRaises, PurgeFails
    <2>2. CASE moved' = moved
      BY <2>1, <2>2
    <2>3. CASE moved' = moved \ {"bot"} /\ purge = "delete leads"
      <3>1. \A u \in Users : turn[u] # "upsert"
        BY <2>3, OneAtTheSheet
      <3>. QED
        BY <2>1, <2>3, <3>1
    <2>4. sheet_lock = "purge" => purge = "delete leads"
      BY DEF LockInv
    <2>. QED
      BY <2>1, <2>2, <2>3, <2>4
  <1>9. CASE EraseThread \/ EraseRow \/ \E u \in Askers : EraseStart(u)
    <2>1. /\ UNCHANGED <<sheet, turn, cell, purge, todo, moved>>
          /\ \/ erase' = [erase EXCEPT !.at = "row"]
             \/ erase' = [erase EXCEPT !.at = "lead"]
             \/ \E u \in Askers : erase' = [at |-> "thread", who |-> u, cell |-> 0]
      BY Zenon, <1>9 DEF EraseThread, EraseRow, EraseStart, pvars
    <2>2. erase' = [erase EXCEPT !.at = "row"] => erase'.at = "row"
      BY Zenon, EraserMoves
    <2>3. erase' = [erase EXCEPT !.at = "lead"] => erase'.at = "lead"
      BY Zenon, EraserMoves
    <2>4. (\E u \in Askers : erase' = [at |-> "thread", who |-> u, cell |-> 0]) =>
             erase'.at = "thread"
      BY Zenon, EraserStarts
    <2>5. erase'.at \in {"thread", "row", "lead"}
      BY Zenon, <2>1, <2>2, <2>3, <2>4
    <2>. QED
      BY <2>1, <2>5
  <1>10. CASE EraseFind
    <2>1. /\ UNCHANGED <<sheet, turn, cell, purge, todo, moved>>
          /\ erase' = IF Find(erase.who) = 0 THEN Nobody
                      ELSE [erase EXCEPT !.at = "delete lead", !.cell = Find(erase.who)]
      BY Zenon, <1>10 DEF EraseFind, pvars
    <2>2. Find(erase.who) # 0 =>
             Find(erase.who) \in DOMAIN sheet /\ sheet[Find(erase.who)].who = erase.who
      BY FindFinds
    <2>3. erase'.at = "delete lead" => /\ Find(erase.who) # 0
                                       /\ erase'.who = erase.who /\ erase'.cell = Find(erase.who)
      BY <2>1 DEF Nobody, Eraser
    <2>. QED
      BY <2>1, <2>2, <2>3
  <1>11. CASE EraseLead \/ \E i \in DOMAIN sheet : StaffDeletes(i)
    <2>1. /\ UNCHANGED <<turn, cell, purge, todo>>
          /\ \/ erase'.at = "idle" /\ moved' = (moved \cup InFlight) \ {"erase"}
             \/ erase' = erase /\ moved' = moved \cup InFlight
      <3>1. CASE EraseLead
        <4>1. /\ UNCHANGED <<turn, cell, purge, todo>> /\ erase' = Nobody
              /\ moved' = (moved \cup InFlight) \ {"erase"}
          BY Zenon, <3>1 DEF EraseLead, pvars
        <4>. QED
          BY <4>1 DEF Nobody
      <3>2. CASE \E i \in DOMAIN sheet : StaffDeletes(i)
        BY Zenon, <3>2 DEF StaffDeletes, pvars
      <3>. QED
        BY Zenon, <1>11, <3>1, <3>2
    <2>2. "bot" \notin moved' => sheet_lock = "free"
      BY <2>1 DEF InFlight
    <2>3. "bot" \notin moved' => purge # "delete leads" /\ \A u \in Users : turn[u] # "upsert"
      BY <2>2, OneAtTheSheet
    <2>4. erase'.at = "delete lead" => "erase" \in moved'
      BY <2>1 DEF InFlight
    <2>. QED
      BY <2>1, <2>3, <2>4
  <1>12. CASE EraseFails
    <2>1. /\ UNCHANGED <<sheet, turn, cell, purge, todo>> /\ moved' = moved \ {"erase"}
      BY Zenon, <1>12 DEF EraseFails, pvars
    <2>2. erase'.at # "delete lead"
      <3>1. \/ erase' = [erase EXCEPT !.at = "row"] \/ erase' = [erase EXCEPT !.at = "lead"]
            \/ erase' = Nobody
        BY <1>12 DEF EraseFails
      <3>2. erase' = [erase EXCEPT !.at = "row"] => erase'.at = "row"
        BY Zenon, EraserMoves
      <3>3. erase' = [erase EXCEPT !.at = "lead"] => erase'.at = "lead"
        BY Zenon, EraserMoves
      <3>4. erase' = Nobody => erase'.at = "idle"
        BY Zenon, EraserStarts
      <3>5. erase'.at \in {"row", "lead", "idle"}
        BY Zenon, <3>1, <3>2, <3>3, <3>4
      <3>. QED
        BY <3>5
    <2>. QED
      BY <2>1, <2>2
  <1>13. CASE BotRestarts
    <2>1. /\ UNCHANGED <<sheet, erase>> /\ moved' = moved \ {"bot"} /\ purge' = "sleep"
          /\ \A u \in Users : turn'[u] = "idle"
      BY <1>13 DEF BotRestarts
    <2>. QED
      BY <2>1
  <1>14. CASE Tick
    <2>1. /\ UNCHANGED <<turn, cell, purge, todo, erase, moved>>
          /\ \A u \in Users : turn[u] = "idle"
      BY Zenon, <1>14 DEF Tick, pvars
    <2>2. /\ DOMAIN sheet' = DOMAIN sheet
          /\ \A i \in DOMAIN sheet : /\ sheet'[i].who = sheet[i].who
                                     /\ Expired(sheet[i].age) => Expired(sheet'[i].age)
      BY Zenon, <1>14, TickKeepsTheRows
    <2>. QED
      BY <2>1, <2>2
  <1>15. CASE (\E u \in Users : BookTrial(u)) \/ UNCHANGED vars
    BY <1>15, BookingsApart
  <1>. QED
    BY <1>1, <1>2, <1>3, <1>4, <1>5, <1>6, <1>7, <1>8, <1>9, <1>10, <1>11, <1>12, <1>13,
       <1>14, <1>15 DEF Next, Turn, Purge, Erasure

-----------------------------------------------------------------------------
(* Theorems *)

\* Empty stores satisfy the invariant.
LEMMA InitEstablishes == Init => DataInv
  <1>. SUFFICES ASSUME Init
                PROVE  DataInv
    OBVIOUS
  <1>1. KindInv
    <2>1. sheet \in Seq(Lead)
      BY EmptySeq DEF Init
    <2>2. row \in [Users -> Ages]
      BY AgesAge DEF Init
    <2>3. erase \in Eraser /\ erase.at = "idle"
      BY DEF Init, Nobody, Eraser
    <2>4. cause \in [Users -> SUBSET Causes]
      BY DEF Init
    <2>. QED
      BY <2>1, <2>2, <2>3, <2>4 DEF Init, KindInv
  <1>2. erase.at = "idle"
    BY DEF Init, Nobody
  <1>3. LockInv
    BY DataAssumption DEF Init, LockInv
  <1>4. TurnClockInv
    BY AgesAge DEF Init, TurnClockInv
  <1>5. RowInv
    BY <1>2 DEF Init, RowInv
  <1>6. PositionInv
    BY <1>2 DEF Init, PositionInv, UpsertPosition, PurgePosition, ErasePosition
  <1>. QED
    BY <1>1, <1>3, <1>4, <1>5, <1>6 DEF DataInv

\* The invariant of the customers' data holds in every reachable state.
THEOREM DataInvHolds == Spec => []DataInv
  <1>1. DataInv /\ [Next]_vars => DataInv'
    BY KindInvIsInductive, LockInvIsInductive, TurnClockInvIsInductive, RowInvIsInductive,
       PositionInvIsInductive, Zenon DEF DataInv
  <1>. QED
    BY <1>1, InitEstablishes, PTL DEF Spec

\* The variables keep their kinds, and the lock of the sheet (LeadSheet's
\* _sheet_lock) is held exactly while an upsert or the purge is at work on it.
THEOREM TypeCorrect == Spec => []TypeOK
  <1>1. DataInv => TypeOK
    <2>. SUFFICES ASSUME KindInv, LockInv
                  PROVE  TypeOK
      BY DEF DataInv
    <2>1. \A i \in DOMAIN sheet : sheet[i] \in [who : Users, age : 0..Old]
      <3>1. sheet \in Seq(Lead)
        BY DEF KindInv
      <3>2. DOMAIN sheet = 1..Len(sheet)
        BY <3>1, LenProperties
      <3>. QED
        BY <3>1, <3>2, ElementOfSeq DEF Lead
    <2>2. turn = [u \in Users |-> IF sheet_lock = u THEN "upsert" ELSE
                                  IF turn[u] = "idle" THEN "idle" ELSE "graph"]
      BY DEF KindInv, LockInv
    <2>3. erase.at \in {"idle", "thread", "row", "lead", "delete lead"}
      BY DEF KindInv, Eraser
    <2>4. row \in [Users -> {NoRow, NoClock} \cup 0..Old]
      BY DEF KindInv, Ages
    <2>. QED
      BY <2>1, <2>2, <2>3, <2>4 DEF KindInv, LockInv, TypeOK
  <1>. QED
    BY <1>1, DataInvHolds, PTL

\* No checkpoint and no handoff row is beyond the purge's reach (it selects by
\* last_user_ts, and a NULL is never old) unless an erasure met a turn, a
\* DELETE failed, or the thread aged between the two statements of a purge.
THEOREM NothingOutlivesThePurge == Spec => []EveryThreadHasAClock
  <1>1. DataInv => EveryThreadHasAClock
    <2>. SUFFICES ASSUME KindInv, TurnClockInv, RowInv, NEW u \in Users,
                         u \in checkpoint \/ row[u] # NoRow, cause[u] = {}
                  PROVE  HasClock(u)
      BY DEF DataInv, EveryThreadHasAClock
    <2>1. row[u] # NoRow
      BY DEF RowInv
    <2>2. row[u] # NoClock
      BY DEF TurnClockInv
    <2>3. row[u] \in Ages
      BY DEF KindInv
    <2>. QED
      BY <2>1, <2>2, <2>3, AgesAge DEF HasClock
  <1>. QED
    BY <1>1, DataInvHolds, PTL

\* The rows of one customer.
LEMMA LeadsAreCounted ==
    ASSUME NEW s \in Seq(Lead), NEW u
    PROVE  /\ IsFiniteSet({i \in DOMAIN s : s[i].who = u})
           /\ Cardinality({i \in DOMAIN s : s[i].who = u}) \in Nat
  <1>1. DOMAIN s = 1..Len(s) /\ Len(s) \in Nat
    BY LenProperties
  <1>2. IsFiniteSet(DOMAIN s)
    BY <1>1, FS_Interval
  <1>3. {i \in DOMAIN s : s[i].who = u} \in SUBSET (DOMAIN s)
    OBVIOUS
  <1>. QED
    BY Zenon, <1>2, <1>3, FS_Subset, FS_CardinalityType

\* Removing a row of somebody else's takes no row from a customer.
LEMMA OthersKeepTheirLeads ==
    ASSUME sheet \in Seq(Lead), NEW k \in DOMAIN sheet, NEW u, sheet[k].who # u, DeleteRow(k)
    PROVE  ~(LeadsOf(u)' < LeadsOf(u))
  <1>. DEFINE S == {i \in DOMAIN sheet : sheet[i].who = u}
              T == {i \in DOMAIN sheet' : sheet'[i].who = u}
              f == [i \in S |-> IF i < k THEN i ELSE i - 1]
  <1>1. DOMAIN sheet = 1..Len(sheet) /\ Len(sheet) \in Nat /\ k \in 1..Len(sheet)
    BY LenProperties
  <1>2. /\ sheet' \in Seq(Lead) /\ DOMAIN sheet' = 1..(Len(sheet) - 1)
        /\ \A j \in DOMAIN sheet' : sheet'[j] = IF j < k THEN sheet[j] ELSE sheet[j + 1]
    BY Zenon, DeletedRow
  <1>3. ASSUME NEW i \in S
        PROVE  f[i] \in T /\ i \in Nat /\ i # k
    <2>1. i \in 1..Len(sheet) /\ i # k /\ sheet[i].who = u
      BY <1>1
    <2>2. CASE i < k
      <3>1. i \in 1..(Len(sheet) - 1) /\ f[i] = i
        BY <1>1, <2>1, <2>2
      <3>. QED
        BY <1>2, <2>1, <2>2, <3>1
    <2>3. CASE ~(i < k)
      <3>1. i - 1 \in 1..(Len(sheet) - 1) /\ f[i] = i - 1 /\ ~(i - 1 < k) /\ (i - 1) + 1 = i
        BY <1>1, <2>1, <2>3
      <3>. QED
        BY <1>2, <2>1, <3>1
    <2>. QED
      BY <2>2, <2>3
  <1>4. f \in Injection(S, T)
    <2>1. f \in [S -> T]
      BY <1>3
    <2>2. ASSUME NEW a \in S, NEW b \in S, f[a] = f[b]
          PROVE  a = b
      <3>1. a \in Nat /\ b \in Nat /\ a # k /\ b # k /\ k \in Nat
        BY <1>1, <1>3
      <3>. QED
        BY <2>2, <3>1
    <2>. QED
      BY <2>1, <2>2 DEF Injection, IsInjective
  <1>5. /\ Cardinality(S) \in Nat /\ IsFiniteSet(T) /\ Cardinality(T) \in Nat
    BY <1>2, LeadsAreCounted, Zenon
  <1>. HIDE DEF f, S, T
  <1>6. Cardinality(S) <= Cardinality(T)
    BY Zenon, <1>4, <1>5, FS_Injection
  <1>7. LeadsOf(u) = Cardinality(S) /\ LeadsOf(u)' = Cardinality(T)
    BY DEF LeadsOf, S, T
  <1>. QED
    BY <1>5, <1>6, <1>7

\* Rows that stay where they are, with their owners, are not lost.
LEMMA LeadsThatStay ==
    ASSUME sheet \in Seq(Lead), sheet' \in Seq(Lead), NEW u,
           \A i \in DOMAIN sheet : i \in DOMAIN sheet' /\ sheet'[i].who = sheet[i].who
    PROVE  ~(LeadsOf(u)' < LeadsOf(u))
  <1>. DEFINE S == {i \in DOMAIN sheet : sheet[i].who = u}
              T == {i \in DOMAIN sheet' : sheet'[i].who = u}
  <1>1. S \in SUBSET T
    OBVIOUS
  <1>2. /\ Cardinality(S) \in Nat /\ IsFiniteSet(T) /\ Cardinality(T) \in Nat
    BY LeadsAreCounted, Zenon
  <1>. HIDE DEF S, T
  <1>3. Cardinality(S) <= Cardinality(T)
    BY Zenon, <1>1, <1>2, FS_Subset
  <1>4. LeadsOf(u) = Cardinality(S) /\ LeadsOf(u)' = Cardinality(T)
    BY DEF LeadsOf, S, T
  <1>. QED
    BY <1>2, <1>3, <1>4

\* The steps that remove or overwrite a row of the worksheet.
LEMMA TheSheetChanges ==
    ASSUME [Next]_vars, sheet' # sheet
    PROVE  \/ \E u \in Users : UpsertWrite(u)
           \/ DeleteLead \/ EraseLead \/ Tick
           \/ \E i \in DOMAIN sheet : StaffDeletes(i)
  BY Zenon DEF Next, Turn, Purge, Erasure, Touch, SaveCheckpoint, SetActive, UpsertFind,
     UpsertRaises, EndTurn, SelectExpired, DeleteThreadRows, DeleteThreadFails,
     DeleteHandoffRows, ReadLeads, PurgeDone, PurgeRaises, PurgeFails, EraseStart,
     EraseThread, EraseRow, EraseFind, EraseFails, BotRestarts, BookTrial, vars

\* A row of the worksheet goes by the hand of the staff, by the customer's own
\* erasure or because it is old; upsert_lead, delete_lead and purge_older_than
\* take nobody else's, as long as the sheet is not changed from outside the bot
\* between their look-up and their write.
THEOREM NoLeadIsLostByMistake == Spec => LeadsAreLostByDesign
  <1>. DEFINE ByDesign(u) == \/ moved # {}
                             \/ \E i \in DOMAIN sheet : StaffDeletes(i)
                             \/ Erasing(u) /\ EraseLead
                             \/ DeleteLead /\ Expired(sheet[Max(todo)].age)
  <1>1. ASSUME DataInv, [Next]_vars, NEW u \in Users
        PROVE  LeadsOf(u)' < LeadsOf(u) => ByDesign(u)
    <2>1. KindInv /\ LockInv /\ PositionInv /\ sheet \in Seq(Lead)
      BY <1>1 DEF DataInv, KindInv
    <2>2. KindInv' /\ sheet' \in Seq(Lead)
      BY <1>1, <2>1, KindInvIsInductive DEF KindInv
    <2>3. SUFFICES ASSUME moved = {}
                   PROVE  LeadsOf(u)' < LeadsOf(u) => ByDesign(u)
      OBVIOUS
    <2>4. CASE sheet' = sheet
      <3>1. ~(LeadsOf(u)' < LeadsOf(u))
        BY Zenon, <2>1, <2>2, <2>4, LeadsThatStay
      <3>. QED
        BY <3>1
    <2>5. ASSUME NEW v \in Users, UpsertWrite(v)
          PROVE  ~(LeadsOf(u)' < LeadsOf(u))
      <3>1. "bot" \notin moved /\ UpsertPosition
        BY <2>1, <2>3 DEF PositionInv
      <3>2. \A i \in DOMAIN sheet : i \in DOMAIN sheet' /\ sheet'[i].who = sheet[i].who
        BY Zenon, <2>1, <2>5, <3>1, WriteKeepsTheOwners
      <3>. QED
        BY Zenon, <2>1, <2>2, <3>2, LeadsThatStay
    <2>6. CASE DeleteLead
      <3>1. "bot" \notin moved /\ PurgePosition
        BY <2>1, <2>3 DEF PositionInv
      <3>2. Expired(sheet[Max(todo)].age)
        BY Zenon, <2>1, <2>6, <3>1, DeletionsGoUpwards
      <3>. QED
        BY Zenon, <2>6, <3>2
    <2>7. CASE EraseLead
      <3>1. erase.at = "delete lead" /\ DeleteRow(erase.cell) /\ "erase" \notin moved
        BY <2>3, <2>7 DEF EraseLead
      <3>2. erase.cell \in DOMAIN sheet /\ sheet[erase.cell].who = erase.who
        BY <2>1, <3>1 DEF PositionInv, ErasePosition
      <3>3. CASE erase.who = u
        BY <2>7, <3>1, <3>3 DEF Erasing
      <3>4. CASE erase.who # u
        <4>1. ~(LeadsOf(u)' < LeadsOf(u))
          BY Zenon, <2>1, <3>1, <3>2, <3>4, OthersKeepTheirLeads
        <4>. QED
          BY <4>1
      <3>. QED
        BY <3>3, <3>4
    <2>8. CASE Tick
      <3>1. \A i \in DOMAIN sheet : i \in DOMAIN sheet' /\ sheet'[i].who = sheet[i].who
        BY Zenon, <2>1, <2>8, TickKeepsTheRows
      <3>2. ~(LeadsOf(u)' < LeadsOf(u))
        BY Zenon, <2>1, <2>2, <3>1, LeadsThatStay
      <3>. QED
        BY <3>2
    <2>9. CASE \E i \in DOMAIN sheet : StaffDeletes(i)
      BY Zenon, <2>9
    <2>. QED
      BY Zenon, <1>1, <2>4, <2>5, <2>6, <2>7, <2>8, <2>9, TheSheetChanges
  <1>2. DataInv /\ [Next]_vars =>
           [\A u \in Users : LeadsOf(u)' < LeadsOf(u) => ByDesign(u)]_vars
    BY <1>1, Zenon
  <1>. QED
    BY <1>2, DataInvHolds, PTL DEF Spec, LeadsAreLostByDesign

\* delete_by_psid leaves nothing of the customer it was run for but bookings, which
\* it leaves all, unless it met a turn of that customer, a failure, or a change of
\* the sheet under its hands.
THEOREM ErasureLeavesNothing == Spec => ErasureIsComplete
  <1>. DEFINE Met(u) == /\ Erasing(u) /\ (EraseLead \/ EraseFind) /\ ~Erasing(u)'
                        /\ cause[u] = {} /\ "erase" \notin moved /\ LeadsOf(u) <= 1
  <1>1. ASSUME DataInv, NEW u \in Users, Met(u)
        PROVE  Remains(u)' = Remains(u) \cap {"Trials"}
    <2>1. /\ KindInv /\ RowInv /\ ErasePosition /\ sheet \in Seq(Lead) /\ erase \in Eraser
          /\ erase.who = u /\ cause[u] = {} /\ "erase" \notin moved /\ LeadsOf(u) <= 1
      BY <1>1 DEF DataInv, KindInv, PositionInv, Erasing
    <2>2. UNCHANGED <<checkpoint, row, trials>> /\ erase.at \in {"lead", "delete lead"}
      <3>1. CASE EraseLead
        BY Zenon, <3>1 DEF EraseLead
      <3>2. CASE EraseFind
        BY Zenon, <3>2 DEF EraseFind
      <3>. QED
        BY <1>1, <3>1, <3>2
    <2>3. u \notin checkpoint' /\ row'[u] = NoRow
      BY <2>1, <2>2 DEF RowInv
    <2>4. \A i \in DOMAIN sheet' : sheet'[i].who # u
      <3>1. CASE EraseFind
        <4>1. UNCHANGED sheet /\ erase' = IF Find(erase.who) = 0 THEN Nobody
                 ELSE [erase EXCEPT !.at = "delete lead", !.cell = Find(erase.who)]
          BY Zenon, <3>1 DEF EraseFind
        <4>2. ~(erase'.at # "idle" /\ erase'.who = u)
          BY <1>1 DEF Erasing
        <4>3. Find(u) = 0
          <5>1. SUFFICES ASSUME Find(u) # 0
                         PROVE  FALSE
            OBVIOUS
          <5>2. erase' = [erase EXCEPT !.at = "delete lead", !.cell = Find(u)]
            BY Zenon, <2>1, <4>1, <5>1
          <5>3. erase'.at = "delete lead" /\ erase'.who = erase.who
            BY <2>1, <5>2 DEF Eraser
          <5>. QED
            BY <2>1, <4>2, <5>3
        <4>. QED
          BY <2>1, <4>1, <4>3, FindFinds
      <3>2. CASE EraseLead
        <4>. DEFINE k == erase.cell
                    S == {i \in DOMAIN sheet : sheet[i].who = u}
        <4>1. erase.at = "delete lead" /\ DeleteRow(k)
          BY Zenon, <3>2 DEF EraseLead
        <4>2. k \in DOMAIN sheet /\ sheet[k].who = u
          BY <2>1, <4>1 DEF ErasePosition
        <4>3. DOMAIN sheet = 1..Len(sheet) /\ Len(sheet) \in Nat
          BY <2>1, LenProperties
        <4>4. S = {k}
          <5>1. {k} \in SUBSET S
            BY <4>2
          <5>2. IsFiniteSet(S) /\ Cardinality(S) \in Nat /\ Cardinality(S) <= 1
            BY Zenon, <2>1, LeadsAreCounted DEF LeadsOf
          <5>3. Cardinality({k}) = 1
            BY FS_Singleton
          <5>. HIDE DEF S
          <5>4. Cardinality({k}) <= Cardinality(S) /\ (Cardinality(S) = Cardinality({k}) => S = {k})
            BY Zenon, <5>1, <5>2, FS_Subset
          <5>. QED
            BY <5>2, <5>3, <5>4
        <4>5. /\ DOMAIN sheet' = 1..(Len(sheet) - 1)
              /\ \A j \in DOMAIN sheet' : sheet'[j] = IF j < k THEN sheet[j] ELSE sheet[j + 1]
          BY Zenon, <2>1, <4>1, <4>2, DeletedRow
        <4>6. \A i \in DOMAIN sheet : i # k => sheet[i].who # u
          BY <4>4
        <4>7. ASSUME NEW j \in DOMAIN sheet'
              PROVE  sheet'[j].who # u
          <5>1. j \in 1..(Len(sheet) - 1) /\ k \in 1..Len(sheet)
            BY <4>2, <4>3, <4>5
          <5>2. CASE j < k
            <6>1. j \in DOMAIN sheet /\ j # k
              BY <4>3, <5>1, <5>2
            <6>. QED
              BY <4>5, <4>6, <5>2, <6>1
          <5>3. CASE ~(j < k)
            <6>1. j + 1 \in DOMAIN sheet /\ j + 1 # k
              BY <4>3, <5>1, <5>3
            <6>. QED
              BY <4>5, <4>6, <5>3, <6>1
          <5>. QED
            BY <5>2, <5>3
        <4>. QED
          BY <4>7
      <3>. QED
        BY <1>1, <3>1, <3>2
    <2>5. LeadsOf(u)' = 0
      <3>1. {i \in DOMAIN sheet' : sheet'[i].who = u} = {}
        BY <2>4
      <3>. QED
        BY <3>1, FS_EmptySet DEF LeadsOf
    <2>6. Remains(u)' = IF u \in trials THEN {"Trials"} ELSE {}
      <3>1. ~(LeadsOf(u)' > 0)
        BY <2>5
      <3>2. trials' = trials
        BY <2>2
      <3>. QED
        BY <2>3, <3>1, <3>2 DEF Remains
    <2>7. Remains(u) \cap {"Trials"} = IF u \in trials THEN {"Trials"} ELSE {}
      BY DEF Remains
    <2>. QED
      BY <2>6, <2>7
  <1>2. DataInv => [\A u \in Users : Met(u) => Remains(u)' = Remains(u) \cap {"Trials"}]_vars
    BY <1>1, Zenon
  <1>. QED
    BY <1>2, DataInvHolds, PTL DEF Spec, ErasureIsComplete
=============================================================================
