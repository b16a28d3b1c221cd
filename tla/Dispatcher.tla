----------------------------- MODULE Dispatcher -----------------------------
(***************************************************************************)
(* The channel stack between an accepted message and the graph:            *)
(* DebounceBuffer (one buffer and one timer per user, LRU-bounded),        *)
(* MessageDispatcher (one asyncio.Lock per thread) and the parts of        *)
(* RateLimiter that concern turns (the semaphore and the daily budget).    *)
(*                                                                         *)
(* Each flush is an asyncio task of its own, so several tasks of one user  *)
(* may be alive; a task runs from one await to the next without another    *)
(* one in between.  A task is named by the number of its first message.    *)
(* What a turn does is ThreadSession's matter: here the gate lets it pass  *)
(* or not, the graph returns, and the reply goes out or not.               *)
(***************************************************************************)
EXTENDS Naturals, Sequences, FiniteSets

CONSTANTS
    Users,          \* the customers
    MaxMsgs,        \* bound: messages a customer writes
    Blank,          \* which of each customer's messages are only white space
    MaxBuffers,     \* DebounceBuffer maxsize
    MaxConcurrent,  \* max_concurrent_invokes
    DailyBudget,    \* gemini_daily_budget; 0 turns the check off
    TurnCost        \* _EST_TOKENS_PER_TURN

ASSUME DispatcherAssumption ==
    /\ IsFiniteSet(Users)
    /\ MaxMsgs \in Nat
    /\ Blank \in [Users -> SUBSET Nat]
    /\ MaxBuffers \in Nat \ {0}
    /\ MaxConcurrent \in Nat \ {0}
    /\ DailyBudget \in Nat
    /\ TurnCost \in Nat

Ids == 1..MaxMsgs

VARIABLES
    written,    \* messages accepted from each user so far
    buffer,     \* _buffers[user]["parts"]; <<>> when the user has no buffer
    lru,        \* the users with a buffer, oldest use first
    task,       \* where each flush task is
    batch,      \* the messages it joined
    lock,       \* the task that holds the thread's lock, 0 when it is free
    lockq,      \* the tasks that wait for it, first come first served
    slots,      \* the semaphore's value
    semq,       \* the tasks that wait for it
    spend,      \* _spend
    newDay,     \* the day is not _spend_day
    alerted,    \* _alerted
    handled,    \* history: the messages handed to _handle, in that order
    lost        \* history: the messages an eviction or a crash dropped

turns   == <<task, batch, lock, lockq>>
money   == <<spend, newDay, alerted>>
inbound == <<written, buffer, lru>>
vars == <<inbound, turns, slots, semq, money, handled, lost>>

AllFree ==
    /\ buffer = [u \in Users |-> <<>>]
    /\ lru = <<>>
    /\ task = [u \in Users |-> [k \in Ids |-> "none"]]
    /\ batch = [u \in Users |-> [k \in Ids |-> <<>>]]
    /\ lock = [u \in Users |-> 0]
    /\ lockq = [u \in Users |-> <<>>]
    /\ slots = MaxConcurrent
    /\ semq = <<>>
    /\ spend = 0
    /\ newDay = FALSE
    /\ alerted = FALSE

Init ==
    /\ AllFree
    /\ written = [u \in Users |-> 0]
    /\ handled = [u \in Users |-> <<>>]
    /\ lost = [u \in Users |-> {}]

InSeq(s) == {s[i] : i \in DOMAIN s}

-----------------------------------------------------------------------------
(* DebounceBuffer *)

\* The order of use without u: what pop and move_to_end take out.
Without(order, u) ==
    IF u \in InSeq(order)
    THEN LET i == CHOOSE j \in DOMAIN order : order[j] = u
         IN  SubSeq(order, 1, i - 1) \o SubSeq(order, i + 1, Len(order))
    ELSE order

\* How many buffers are beyond maxsize.
Excess(order) == IF Len(order) > MaxBuffers THEN Len(order) - MaxBuffers ELSE 0

\* Mutant: a new message replaces the parts it should join.
BrokenAdd(u) ==
    /\ written[u] < MaxMsgs
    /\ written' = [written EXCEPT ![u] = @ + 1]
    /\ buffer' = [buffer EXCEPT ![u] = <<written[u] + 1>>]
    /\ lru' = Append(Without(lru, u), u)
    /\ UNCHANGED <<turns, slots, semq, money, handled, lost>>

\* add: the message joins the user's buffer and restarts its timer; for a new
\* buffer _evict pushes out the least recently used ones, timers included.
Add(u) ==
    /\ written[u] < MaxMsgs
    /\ written' = [written EXCEPT ![u] = @ + 1]
    /\ LET order == Append(Without(lru, u), u)
           n     == IF buffer[u] = <<>> THEN Excess(order) ELSE 0
           gone  == {order[i] : i \in 1..n}
       IN  /\ lru' = SubSeq(order, n + 1, Len(order))
           /\ buffer' = [v \in Users |->
                            IF v = u THEN Append(buffer[v], written[u] + 1)
                            ELSE IF v \in gone THEN <<>> ELSE buffer[v]]
           /\ lost' = [v \in Users |->
                            IF v \in gone THEN lost[v] \cup InSeq(buffer[v])
                            ELSE lost[v]]
    /\ UNCHANGED <<turns, slots, semq, money, handled>>

\* Mutant: the buffer is popped only after the turn has been queued.
BrokenFlush(u) ==
    /\ buffer[u] # <<>>
    /\ LET k == Head(buffer[u])
       IN  /\ task' = [task EXCEPT ![u][k] = "lock"]
           /\ batch' = [batch EXCEPT ![u][k] = buffer[u]]
           /\ lockq' = [lockq EXCEPT ![u] = Append(@, k)]
    /\ UNCHANGED <<inbound, lock, slots, semq, money, handled, lost>>

\* `if not joined: return`: the joined text is empty once it is stripped.
JoinsToNothing(u) == InSeq(buffer[u]) \subseteq Blank[u]

\* _flush_later: the timer fires; the buffer is popped before on_flush asks
\* for the thread's lock, so a later message starts a new buffer.
Flush(u) ==
    /\ buffer[u] # <<>>
    /\ ~JoinsToNothing(u)
    /\ LET k == Head(buffer[u])
       IN  /\ task' = [task EXCEPT ![u][k] = "lock"]
           /\ batch' = [batch EXCEPT ![u][k] = buffer[u]]
           /\ lockq' = [lockq EXCEPT ![u] = Append(@, k)]
    /\ buffer' = [buffer EXCEPT ![u] = <<>>]
    /\ lru' = Without(lru, u)
    /\ UNCHANGED <<written, lock, slots, semq, money, handled, lost>>

\* _flush_later of a batch of nothing but white space: MessengerAdapter lets
\* such a text in, and here it ends, without an answer.
FlushBlank(u) ==
    /\ buffer[u] # <<>>
    /\ JoinsToNothing(u)
    /\ buffer' = [buffer EXCEPT ![u] = <<>>]
    /\ lru' = Without(lru, u)
    /\ UNCHANGED <<written, turns, slots, semq, money, handled, lost>>

-----------------------------------------------------------------------------
(* on_flush and _handle, under the thread's lock *)

\* Mutant: every flush gets a lock of its own.
BrokenTakeLock(u) ==
    /\ lockq[u] # <<>>
    /\ LET k == Head(lockq[u])
       IN  /\ lock' = [lock EXCEPT ![u] = k]
           /\ task' = [task EXCEPT ![u][k] = "gate"]
           /\ handled' = [handled EXCEPT ![u] = @ \o batch[u][k]]
    /\ lockq' = [lockq EXCEPT ![u] = Tail(@)]
    /\ UNCHANGED <<inbound, batch, slots, semq, money, lost>>

\* Mutant: the lock goes to the newest waiter.
UnfairTakeLock(u) ==
    /\ lock[u] = 0
    /\ lockq[u] # <<>>
    /\ LET n == Len(lockq[u])
           k == lockq[u][n]
       IN  /\ lock' = [lock EXCEPT ![u] = k]
           /\ task' = [task EXCEPT ![u][k] = "gate"]
           /\ handled' = [handled EXCEPT ![u] = @ \o batch[u][k]]
           /\ lockq' = [lockq EXCEPT ![u] = SubSeq(@, 1, n - 1)]
    /\ UNCHANGED <<inbound, batch, slots, semq, money, lost>>

TakeLock(u) ==
    /\ lock[u] = 0
    /\ lockq[u] # <<>>
    /\ LET k == Head(lockq[u])
       IN  /\ lock' = [lock EXCEPT ![u] = k]
           /\ task' = [task EXCEPT ![u][k] = "gate"]
           /\ handled' = [handled EXCEPT ![u] = @ \o batch[u][k]]
    /\ lockq' = [lockq EXCEPT ![u] = Tail(@)]
    /\ UNCHANGED <<inbound, batch, slots, semq, money, lost>>

\* Mutant: a task that ends keeps the lock.
BrokenReturn(u, k) ==
    /\ task' = [task EXCEPT ![u][k] = "none"]
    /\ batch' = [batch EXCEPT ![u][k] = <<>>]
    /\ UNCHANGED lock

\* _handle returns or raises: `async with` gives the lock back either way.
Return(u, k) ==
    /\ task' = [task EXCEPT ![u][k] = "none"]
    /\ batch' = [batch EXCEPT ![u][k] = <<>>]
    /\ lock' = [lock EXCEPT ![u] = 0]

\* before_invoke: a human owns the thread, or the database fails.
GateStops(u, k) ==
    /\ task[u][k] = "gate"
    /\ Return(u, k)
    /\ UNCHANGED <<inbound, lockq, slots, semq, money, handled, lost>>

budget_exceeded == DailyBudget # 0 /\ spend >= DailyBudget

\* Mutant: the turn runs whatever was spent.
BrokenGatePasses(u, k) ==
    /\ task[u][k] = "gate"
    /\ task' = [task EXCEPT ![u][k] = "sem"]
    /\ semq' = Append(semq, <<u, k>>)
    /\ UNCHANGED <<inbound, batch, lock, lockq, slots, money, handled, lost>>

\* The gate lets the turn pass; no await lies between it and the budget check.
GatePasses(u, k) ==
    /\ task[u][k] = "gate"
    /\ ~budget_exceeded
    /\ task' = [task EXCEPT ![u][k] = "sem"]
    /\ semq' = Append(semq, <<u, k>>)
    /\ UNCHANGED <<inbound, batch, lock, lockq, slots, money, handled, lost>>

Degrade(u, k) ==
    /\ task[u][k] = "gate"
    /\ budget_exceeded
    /\ task' = [task EXCEPT ![u][k] = "degrade"]
    /\ UNCHANGED <<inbound, batch, lock, lockq, slots, semq, money, handled, lost>>

\* Mutant: the semaphore admits one too many.
BrokenTakeSlot ==
    /\ semq # <<>>
    /\ slots >= 0
    /\ slots' = slots - 1
    /\ task' = [task EXCEPT ![Head(semq)[1]][Head(semq)[2]] = "graph"]
    /\ semq' = Tail(semq)
    /\ UNCHANGED <<inbound, batch, lock, lockq, money, handled, lost>>

TakeSlot ==
    /\ semq # <<>>
    /\ slots > 0
    /\ slots' = slots - 1
    /\ task' = [task EXCEPT ![Head(semq)[1]][Head(semq)[2]] = "graph"]
    /\ semq' = Tail(semq)
    /\ UNCHANGED <<inbound, batch, lock, lockq, money, handled, lost>>

\* Mutant: the operators are told only beyond the budget, not at it.
broken_add_spend ==
    LET base == IF newDay THEN 0 ELSE spend
    IN  /\ spend' = base + TurnCost
        /\ newDay' = FALSE
        /\ alerted' = \/ ~newDay /\ alerted
                      \/ DailyBudget # 0 /\ base + TurnCost > DailyBudget

\* add_spend: the day rolls over here and nowhere else.
add_spend ==
    LET base == IF newDay THEN 0 ELSE spend
    IN  /\ spend' = base + TurnCost
        /\ newDay' = FALSE
        /\ alerted' = \/ ~newDay /\ alerted
                      \/ DailyBudget # 0 /\ base + TurnCost >= DailyBudget

\* Mutant: the slot is not given back.
BrokenGraphReturns(u, k) ==
    /\ task[u][k] = "graph"
    /\ task' = [task EXCEPT ![u][k] = "send"]
    /\ add_spend
    /\ UNCHANGED <<inbound, batch, lock, lockq, slots, semq, handled, lost>>

\* _invoke_graph returns, exceptions included; the slot is given back and the
\* turn is charged.
GraphReturns(u, k) ==
    /\ task[u][k] = "graph"
    /\ task' = [task EXCEPT ![u][k] = "send"]
    /\ slots' = slots + 1
    /\ add_spend
    /\ UNCHANGED <<inbound, batch, lock, lockq, semq, handled, lost>>

\* The reply or the degrade line is sent, dropped, or fails to be sent.
Sent(u, k) ==
    /\ task[u][k] \in {"send", "degrade"}
    /\ Return(u, k)
    /\ UNCHANGED <<inbound, lockq, slots, semq, money, handled, lost>>

-----------------------------------------------------------------------------
(* Around the stack *)

DayPasses ==
    /\ ~newDay
    /\ newDay' = TRUE
    /\ UNCHANGED <<inbound, turns, slots, semq, spend, alerted, handled, lost>>

\* What is on its way to a turn: waiting for the lock, or still buffered.
Pending(u) ==
    InSeq(buffer[u])
        \cup UNION {InSeq(batch[u][k]) : k \in {j \in Ids : task[u][j] = "lock"}}

\* The process dies and is started again: all of this is in its memory.
Crash ==
    /\ lost' = [u \in Users |-> lost[u] \cup Pending(u)]
    /\ buffer' = [u \in Users |-> <<>>]
    /\ lru' = <<>>
    /\ task' = [u \in Users |-> [k \in Ids |-> "none"]]
    /\ batch' = [u \in Users |-> [k \in Ids |-> <<>>]]
    /\ lock' = [u \in Users |-> 0]
    /\ lockq' = [u \in Users |-> <<>>]
    /\ slots' = MaxConcurrent
    /\ semq' = <<>>
    /\ spend' = 0
    /\ newDay' = FALSE
    /\ alerted' = FALSE
    /\ UNCHANGED <<written, handled>>

\* What the event loop runs for user u, whichever task is ready.
TaskStep(u) ==
    \/ Flush(u) \/ FlushBlank(u)
    \/ TakeLock(u)
    \/ \E k \in Ids :
          \/ GateStops(u, k)
          \/ GatePasses(u, k)
          \/ Degrade(u, k)
          \/ GraphReturns(u, k)
          \/ Sent(u, k)

Next ==
    \/ \E u \in Users : Add(u) \/ TaskStep(u)
    \/ TakeSlot
    \/ DayPasses
    \/ Crash

Spec == Init /\ [][Next]_vars

\* A customer stops typing and the timer fires; a task whose await is over is
\* run; the graph, the database and the channel answer or raise.
FairSpec == Spec /\ WF_vars(TakeSlot) /\ \A u \in Users : WF_vars(TaskStep(u))

-----------------------------------------------------------------------------
(* Properties *)

TaskStates == {"none", "lock", "gate", "degrade", "sem", "graph", "send"}

\* The variables hold values of the kinds the code gives them, and the table of
\* buffers keeps its bound.
TypeOK ==
    /\ written \in [Users -> 0..MaxMsgs]
    /\ buffer \in [Users -> Seq(Ids)]
    /\ lru \in Seq(Users) /\ Len(lru) <= MaxBuffers
    /\ task \in [Users -> [Ids -> TaskStates]]
    /\ batch \in [Users -> [Ids -> Seq(Ids)]]
    /\ lock \in [Users -> 0..MaxMsgs]
    /\ lockq \in [Users -> Seq(Ids)]
    /\ slots \in 0..MaxConcurrent
    /\ semq \in Seq(Users \X Ids)
    /\ spend \in Nat
    /\ {newDay, alerted} \subseteq BOOLEAN
    /\ handled \in [Users -> Seq(Ids)]
    /\ lost \in [Users -> SUBSET Ids]

\* The task is between taking the thread's lock and giving it back.
Working(u, k) == task[u][k] \in {"gate", "degrade", "sem", "graph", "send"}

\* Two tasks of one customer are never at work at the same time, so no two
\* invokes write the same checkpoint.
SingleFlight ==
    \A u \in Users : \A j, k \in Ids : Working(u, j) /\ Working(u, k) => j = k

InGraph == {t \in Users \X Ids : task[t[1]][t[2]] = "graph"}

\* No path through _handle leaks or invents a slot of the semaphore, so at
\* most MaxConcurrent turns run.
SlotsAreConserved == slots + Cardinality(InGraph) = MaxConcurrent

\* A customer's messages reach _handle in the order they were written, and
\* none reaches it twice.
HandledInOrder ==
    \A u \in Users : \A i, j \in DOMAIN handled[u] :
        i < j => handled[u][i] < handled[u][j]

\* Whatever was accepted and is not white space was handled, is on its way, or
\* was dropped by an eviction or a crash: no timer restart, lock, buffer swap or
\* blank neighbour swallows it.
EveryMessageAccountedFor ==
    \A u \in Users :
        1..written[u] \ Blank[u] \subseteq InSeq(handled[u]) \cup Pending(u) \cup lost[u]

\* Every turn checks the budget before it runs and is charged after, so turns
\* under way may overrun it, but by no more than one turn of each customer.
OverspendIsBounded ==
    DailyBudget # 0 => spend < DailyBudget + TurnCost * Cardinality(Users)

\* The bot turns no customer away for the budget without having told the
\* operators.
OperatorsWereTold == budget_exceeded => alerted

\* What a customer has waiting is queued for the lock or buffered, and the
\* customer is being served while the lock is held.
Service == INSTANCE MessageService WITH
    inbox <- [u \in Users |-> Pending(u)],
    busy <- [u \in Users |-> lock[u] # 0]

\* Debounce, locks and semaphore together keep the promise to the customer.
ImplementsService == Service!ServiceSpec

\* An accepted message that is not white space is handled in the end, or dropped
\* by an eviction or a crash: the locks and the semaphore never leave it waiting
\* forever.
EveryMessageSettles ==
    \A u \in Users : \A m \in Ids \ Blank[u] :
        (m <= written[u]) ~> (m \in InSeq(handled[u]) \cup lost[u])

-----------------------------------------------------------------------------
(* What the code's own comments say and its steps do not keep *)

\* rate_limiter.py: the spend counter is daily, and BUDGET_DEGRADE_LINE says
\* "today": a customer is turned away for the spend of the day it is.
DegradesForToday == [][(\E u \in Users : \E k \in Ids : Degrade(u, k)) => ~newDay]_vars
=============================================================================
