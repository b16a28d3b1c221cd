-------------------------- MODULE DispatcherProofs --------------------------
(***************************************************************************)
(* Proofs about the channel stack, for any customers, messages, buffers,   *)
(* slots and budget.                                                       *)
(***************************************************************************)
EXTENDS Dispatcher, FiniteSetTheorems, SequenceTheorems, TLAPS

-----------------------------------------------------------------------------
(* Strengthenings *)

\* The kinds of values TypeOK gives the variables, its bounds aside.
KindInv ==
    /\ written \in [Users -> 0..MaxMsgs]
    /\ buffer \in [Users -> Seq(Ids)]
    /\ lru \in Seq(Users)
    /\ task \in [Users -> [Ids -> TaskStates]]
    /\ batch \in [Users -> [Ids -> Seq(Ids)]]
    /\ lock \in [Users -> 0..MaxMsgs]
    /\ lockq \in [Users -> Seq(Ids)]
    /\ slots \in Nat
    /\ semq \in Seq(Users \X Ids)
    /\ spend \in Nat /\ newDay \in BOOLEAN /\ alerted \in BOOLEAN
    /\ handled \in [Users -> Seq(Ids)]
    /\ lost \in [Users -> SUBSET Ids]

Distinct(s) == \A i, j \in DOMAIN s : s[i] = s[j] => i = j
Increasing(s) == \A i, j \in DOMAIN s : i < j => s[i] < s[j]

\* The order of use lists the users with a buffer, each once, within its bound.
LruInv ==
    /\ Len(lru) <= MaxBuffers
    /\ Distinct(lru)
    /\ \A u \in Users : u \in InSeq(lru) <=> buffer[u] # <<>>

\* A task at work is the holder of its thread's lock, and the waiting tasks are
\* queued for it, the oldest first.
LockInv ==
    \A u \in Users :
        /\ \A k \in Ids : Working(u, k) <=> lock[u] = k
        /\ \A k \in Ids : task[u][k] = "lock" <=> k \in InSeq(lockq[u])
        /\ Increasing(lockq[u])

\* Each task stands in the semaphore's queue at most once, and only to wait.
SemInv ==
    /\ \A i \in DOMAIN semq : task[semq[i][1]][semq[i][2]] = "sem"
    /\ Distinct(semq)

\* The newest message that has left the buffer.
Flushed(u) == written[u] - Len(buffer[u])

\* The newest message of a batch that waits for the lock.
Through(u, k) == k + Len(batch[u][k]) - 1

\* What was handled of a customer's, the waiting batches and the buffer are runs
\* of messages, each older than the next.
RunsOf(u) ==
    /\ Flushed(u) >= 0
    /\ \A i \in DOMAIN buffer[u] : buffer[u][i] = Flushed(u) + i
    /\ Increasing(handled[u])
    /\ \A i \in DOMAIN handled[u] : handled[u][i] <= Flushed(u)
    /\ \A k \in Ids : task[u][k] # "none" => k <= Flushed(u)
    /\ \A k \in Ids : task[u][k] = "lock" =>
          /\ batch[u][k] # <<>> /\ Through(u, k) <= Flushed(u)
          /\ \A i \in DOMAIN batch[u][k] : batch[u][k][i] = k + i - 1
          /\ \A i \in DOMAIN handled[u] : handled[u][i] < k
          /\ \A j \in Ids : task[u][j] = "lock" /\ j < k => Through(u, j) < k

RunInv == \A u \in Users : RunsOf(u)

\* Customers with a turn that passed the budget check and is not charged yet.
Committed == {u \in Users : \E k \in Ids : task[u][k] \in {"sem", "graph"}}

\* What is spent and what is committed to leave room for no more than the
\* allowed excess.
BudgetInv ==
    DailyBudget # 0 =>
        spend + TurnCost * Cardinality(Committed)
            < DailyBudget + TurnCost * Cardinality(Users)

StackInv ==
    KindInv /\ LruInv /\ LockInv /\ SemInv /\ RunInv /\ BudgetInv
        /\ SlotsAreConserved /\ EveryMessageAccountedFor /\ OperatorsWereTold

-----------------------------------------------------------------------------
(* The order of use *)

\* A sequence without its i-th element.
LEMMA OneLess ==
    ASSUME NEW s \in Seq(Users), Distinct(s), NEW i \in 1..Len(s),
           NEW r \in Seq(Users), Len(r) = Len(s) - 1,
           \A j \in 1..(Len(s) - 1) : r[j] = IF j < i THEN s[j] ELSE s[j + 1]
    PROVE  /\ Distinct(r)
           /\ InSeq(r) = InSeq(s) \ {s[i]}
  <1>. /\ DOMAIN s = 1..Len(s) /\ DOMAIN r = 1..(Len(s) - 1)
       /\ Len(s) \in Nat
    OBVIOUS
  <1>1. ASSUME NEW j \in DOMAIN r
        PROVE  /\ r[j] = s[j] \/ r[j] = s[j + 1]
               /\ j \in DOMAIN s /\ j + 1 \in DOMAIN s
               /\ j < i => r[j] = s[j]
               /\ ~(j < i) => r[j] = s[j + 1]
    OBVIOUS
  <1>2. Distinct(r)
    <2>. SUFFICES ASSUME NEW j \in DOMAIN r, NEW k \in DOMAIN r, r[j] = r[k]
                  PROVE  j = k
      BY DEF Distinct
    <2>. DEFINE J == IF j < i THEN j ELSE j + 1
                K == IF k < i THEN k ELSE k + 1
    <2>1. J \in DOMAIN s /\ K \in DOMAIN s /\ r[j] = s[J] /\ r[k] = s[K]
      BY <1>1
    <2>2. J = K
      BY <2>1 DEF Distinct
    <2>. QED
      BY <2>2
  <1>3. ASSUME NEW j \in DOMAIN r
        PROVE  r[j] \in InSeq(s) \ {s[i]}
    <2>. DEFINE J == IF j < i THEN j ELSE j + 1
    <2>1. J \in DOMAIN s /\ r[j] = s[J] /\ J # i
      BY <1>1
    <2>. QED
      BY <2>1 DEF InSeq, Distinct
  <1>4. ASSUME NEW j \in DOMAIN s, j # i
        PROVE  s[j] \in InSeq(r)
    <2>. DEFINE J == IF j < i THEN j ELSE j - 1
    <2>1. J \in DOMAIN r /\ (J < i <=> j < i)
      BY <1>4
    <2>2. r[J] = s[j]
      BY <2>1, <1>1
    <2>. QED
      BY <2>1, <2>2 DEF InSeq
  <1>. QED
    BY <1>2, <1>3, <1>4 DEF InSeq

\* Taking a customer out of the order leaves the others, each once.
LEMMA WithoutTakesOut ==
    ASSUME NEW order \in Seq(Users), Distinct(order), NEW u \in Users
    PROVE  /\ Without(order, u) \in Seq(Users)
           /\ Distinct(Without(order, u))
           /\ InSeq(Without(order, u)) = InSeq(order) \ {u}
           /\ Len(Without(order, u)) =
                 IF u \in InSeq(order) THEN Len(order) - 1 ELSE Len(order)
  <1>1. CASE u \notin InSeq(order)
    BY <1>1 DEF Without
  <1>2. CASE u \in InSeq(order)
    <2>. DEFINE i == CHOOSE j \in DOMAIN order : order[j] = u
                front == SubSeq(order, 1, i - 1)
                back == SubSeq(order, i + 1, Len(order))
    <2>1. i \in 1..Len(order) /\ order[i] = u
      BY <1>2 DEF InSeq
    <2>2. Without(order, u) = front \o back
      BY <1>2 DEF Without
    <2>. HIDE DEF i
    <2>3. /\ front \in Seq(Users) /\ Len(front) = i - 1
          /\ \A j \in 1..(i - 1) : front[j] = order[j]
      BY <2>1
    <2>4. /\ back \in Seq(Users) /\ Len(back) = Len(order) - i
          /\ \A j \in 1..(Len(order) - i) : back[j] = order[i + j]
      BY <2>1
    <2>. HIDE DEF front, back
    <2>. DEFINE r == front \o back
    <2>5. /\ r \in Seq(Users) /\ Len(r) = Len(front) + Len(back)
          /\ \A j \in 1..(Len(front) + Len(back)) :
                r[j] = IF j <= Len(front) THEN front[j] ELSE back[j - Len(front)]
      BY <2>3, <2>4, ConcatProperties
    <2>. HIDE DEF r
    <2>6. /\ Len(r) = Len(order) - 1
          /\ \A j \in 1..(Len(order) - 1) : r[j] = IF j < i THEN order[j] ELSE order[j + 1]
      <3>1. Len(r) = Len(order) - 1
        BY <2>1, <2>3, <2>4, <2>5
      <3>2. ASSUME NEW j \in 1..(Len(order) - 1)
            PROVE  r[j] = IF j < i THEN order[j] ELSE order[j + 1]
        <4>1. CASE j < i
          <5>1. j \in 1..(Len(front) + Len(back)) /\ j <= Len(front) /\ j \in 1..(i - 1)
            BY <2>1, <2>3, <2>4, <4>1
          <5>2. r[j] = front[j] /\ front[j] = order[j]
            BY <2>3, <2>5, <5>1
          <5>. QED
            BY <4>1, <5>2
        <4>2. CASE ~(j < i)
          <5>1. j - (i - 1) \in 1..(Len(order) - i) /\ i + (j - (i - 1)) = j + 1
            BY <2>1, <4>2
          <5>2. j \in 1..(Len(front) + Len(back)) /\ ~(j <= Len(front)) /\ Len(front) = i - 1
            BY <2>1, <2>3, <2>4, <4>2
          <5>3. r[j] = back[j - (i - 1)]
            BY <2>5, <5>2
          <5>4. back[j - (i - 1)] = order[j + 1]
            BY <2>4, <5>1
          <5>. QED
            BY <4>2, <5>3, <5>4
        <4>. QED
          BY <4>1, <4>2
      <3>. QED
        BY <3>1, <3>2
    <2>7. Distinct(r) /\ InSeq(r) = InSeq(order) \ {order[i]}
      BY ZenonT(30), <2>1, <2>5, <2>6, OneLess
    <2>. QED
      BY <1>2, <2>1, <2>2, <2>5, <2>6, <2>7 DEF r
  <1>. QED
    BY <1>1, <1>2

\* Dropping the n oldest of an order leaves the others, each once.
LEMMA DroppingTheOldest ==
    ASSUME NEW order \in Seq(Users), Distinct(order), NEW n \in 0..Len(order)
    PROVE  LET rest == SubSeq(order, n + 1, Len(order))
           IN  /\ rest \in Seq(Users)
               /\ Distinct(rest)
               /\ Len(rest) = Len(order) - n
               /\ InSeq(rest) = InSeq(order) \ {order[i] : i \in 1..n}
  <1>. DEFINE rest == SubSeq(order, n + 1, Len(order))
  <1>1. /\ rest \in Seq(Users) /\ Len(rest) = Len(order) - n
        /\ \A j \in 1..(Len(order) - n) : rest[j] = order[n + j]
    OBVIOUS
  <1>. HIDE DEF rest
  <1>. DOMAIN rest = 1..(Len(order) - n) /\ DOMAIN order = 1..Len(order) /\ Len(order) \in Nat
    BY <1>1
  <1>2. ASSUME NEW j \in DOMAIN rest
        PROVE  n + j \in DOMAIN order /\ n + j > n /\ rest[j] = order[n + j]
    BY <1>1
  <1>3. Distinct(rest)
    <2>. SUFFICES ASSUME NEW j \in DOMAIN rest, NEW k \in DOMAIN rest, rest[j] = rest[k]
                  PROVE  j = k
      BY DEF Distinct
    <2>1. n + j = n + k
      BY <1>2 DEF Distinct
    <2>. QED
      BY <2>1
  <1>4. ASSUME NEW j \in DOMAIN rest
        PROVE  rest[j] \in InSeq(order) \ {order[i] : i \in 1..n}
    <2>1. \A i \in 1..n : i \in DOMAIN order /\ i # n + j
      BY <1>2
    <2>. QED
      BY <1>2, <2>1 DEF InSeq, Distinct
  <1>5. ASSUME NEW j \in DOMAIN order, j \notin 1..n
        PROVE  order[j] \in InSeq(rest)
    <2>1. j - n \in DOMAIN rest /\ n + (j - n) = j
      BY <1>5
    <2>. QED
      BY <1>2, <2>1 DEF InSeq
  <1>6. InSeq(rest) = InSeq(order) \ {order[i] : i \in 1..n}
    BY <1>4, <1>5 DEF InSeq
  <1>. QED
    BY <1>1, <1>3, <1>6 DEF rest

\* A newcomer at the end of an order keeps it one.
LEMMA AppendingTheNewest ==
    ASSUME NEW order \in Seq(Users), Distinct(order), NEW u \in Users, u \notin InSeq(order)
    PROVE  /\ Append(order, u) \in Seq(Users)
           /\ Distinct(Append(order, u))
           /\ Len(Append(order, u)) = Len(order) + 1
           /\ InSeq(Append(order, u)) = InSeq(order) \cup {u}
  <1>. DEFINE s == Append(order, u)
  <1>1. /\ s \in Seq(Users) /\ Len(s) = Len(order) + 1
        /\ \A j \in 1..Len(order) : s[j] = order[j]
        /\ s[Len(order) + 1] = u
    BY AppendProperties
  <1>. HIDE DEF s
  <1>2. Distinct(s)
    BY <1>1 DEF Distinct, InSeq
  <1>3. InSeq(s) = InSeq(order) \cup {u}
    BY <1>1 DEF InSeq
  <1>. QED
    BY <1>1, <1>2, <1>3 DEF s

-----------------------------------------------------------------------------
(* What one step may disturb *)

\* A task that moves leaves every other task where it is.
LEMMA OneTaskMoves ==
    ASSUME KindInv, NEW u \in Users, NEW k \in Ids, NEW s \in TaskStates,
           task' = [task EXCEPT ![u][k] = s]
    PROVE  /\ task' \in [Users -> [Ids -> TaskStates]]
           /\ task'[u][k] = s
           /\ \A v \in Users, j \in Ids : <<v, j>> # <<u, k>> => task'[v][j] = task[v][j]
  BY DEF KindInv

\* A task that ends without waiting for the lock leaves the runs of messages and
\* the account of them as they are.
LEMMA RunsKept ==
    ASSUME KindInv, RunInv, EveryMessageAccountedFor,
           \A v \in Users, j \in Ids :
              /\ task'[v][j] = "lock" <=> task[v][j] = "lock"
              /\ task'[v][j] # "none" => task[v][j] # "none"
              /\ task[v][j] = "lock" => batch'[v][j] = batch[v][j],
           UNCHANGED <<written, buffer, handled, lost>>
    PROVE  /\ RunInv' /\ EveryMessageAccountedFor'
           /\ \A v \in Users : Pending(v)' = Pending(v)
  <1>1. ASSUME NEW v \in Users
        PROVE  Flushed(v)' = Flushed(v) /\ Pending(v)' = Pending(v)
    BY DEF Flushed, Pending, InSeq
  <1>2. ASSUME NEW v \in Users, NEW j \in Ids, task[v][j] = "lock"
        PROVE  Through(v, j)' = Through(v, j)
    BY <1>2 DEF Through
  <1>3. EveryMessageAccountedFor'
    BY <1>1 DEF EveryMessageAccountedFor, InSeq
  <1>4. RunInv'
    BY <1>1, <1>2 DEF RunInv, RunsOf, Increasing
  <1>. QED
    BY <1>1, <1>3, <1>4

\* A step that moves no task in or out of the semaphore's care leaves slots and
\* budget as they are.
LEMMA MoneyKept ==
    ASSUME BudgetInv, SlotsAreConserved, OperatorsWereTold,
           \A v \in Users, j \in Ids :
              /\ task'[v][j] = "graph" <=> task[v][j] = "graph"
              /\ task'[v][j] = "sem" <=> task[v][j] = "sem",
           UNCHANGED <<slots, spend, alerted>>
    PROVE  BudgetInv' /\ SlotsAreConserved' /\ OperatorsWereTold'
  <1>1. InGraph' = InGraph
    BY DEF InGraph
  <1>2. Committed' = Committed
    BY DEF Committed
  <1>3. BudgetInv' /\ SlotsAreConserved'
    BY <1>1, <1>2 DEF BudgetInv, SlotsAreConserved
  <1>4. OperatorsWereTold'
    BY DEF OperatorsWereTold, budget_exceeded
  <1>. QED
    BY <1>3, <1>4

LEMMA InitStack == Init => StackInv
  <1>. SUFFICES ASSUME Init
                PROVE  StackInv
    OBVIOUS
  <1>. USE DEF Init, AllFree
  <1>1. KindInv
    <2>1. /\ written \in [Users -> 0..MaxMsgs] /\ lock \in [Users -> 0..MaxMsgs]
          /\ slots \in Nat /\ spend \in Nat
      BY DispatcherAssumption
    <2>2. <<>> \in Seq(Ids) /\ <<>> \in Seq(Users) /\ <<>> \in Seq(Users \X Ids)
      OBVIOUS
    <2>3. "none" \in TaskStates
      BY DEF TaskStates
    <2>. QED
      BY <2>1, <2>2, <2>3 DEF KindInv
  <1>2. LruInv /\ LockInv /\ SemInv
    BY DispatcherAssumption DEF LruInv, LockInv, SemInv, InSeq, Distinct, Increasing, Working, Ids
  <1>3. RunInv
    BY DEF RunInv, RunsOf, Flushed, Increasing
  <1>4. InGraph = {} /\ Committed = {}
    BY DEF InGraph, Committed
  <1>5. Cardinality({}) = 0 /\ Cardinality(Users) \in Nat
    BY FS_EmptySet, FS_CardinalityType, DispatcherAssumption
  <1>6. TurnCost * Cardinality(Users) \in Nat /\ TurnCost * 0 = 0
    BY <1>5, DispatcherAssumption
  <1>7. BudgetInv /\ SlotsAreConserved
    BY <1>4, <1>5, <1>6, DispatcherAssumption DEF BudgetInv, SlotsAreConserved
  <1>8. EveryMessageAccountedFor
    BY DEF EveryMessageAccountedFor, Pending, InSeq
  <1>9. OperatorsWereTold
    BY DispatcherAssumption DEF OperatorsWereTold, budget_exceeded
  <1>. QED
    BY <1>1, <1>2, <1>3, <1>7, <1>8, <1>9 DEF StackInv

-----------------------------------------------------------------------------
(* A task under the thread's lock *)

\* A task that goes on working keeps the lock it holds.
LEMMA StaysAtWork ==
    ASSUME KindInv, LockInv, NEW u \in Users, NEW k \in Ids, Working(u, k),
           NEW s \in {"gate", "degrade", "sem", "graph", "send"},
           task' = [task EXCEPT ![u][k] = s], UNCHANGED <<lock, lockq>>
    PROVE  LockInv'
  <1>0. s \in TaskStates
    BY DEF TaskStates
  <1>1. /\ task'[u][k] = s
        /\ \A v \in Users, j \in Ids : <<v, j>> # <<u, k>> => task'[v][j] = task[v][j]
    BY <1>0 DEF KindInv
  <1>2. task[u][k] # "lock"
    BY DEF Working
  <1>3. ASSUME NEW v \in Users, NEW j \in Ids
        PROVE  /\ Working(v, j)' <=> Working(v, j)
               /\ task'[v][j] = "lock" <=> task[v][j] = "lock"
    BY <1>1, <1>2 DEF Working
  <1>. QED
    BY <1>3 DEF LockInv, InSeq, Increasing

\* A task that ends gives the lock back, and nobody else had it.
LEMMA ReturnFreesTheLock ==
    ASSUME KindInv, LockInv, NEW u \in Users, NEW k \in Ids, Working(u, k),
           Return(u, k), UNCHANGED lockq
    PROVE  /\ LockInv'
           /\ task' \in [Users -> [Ids -> TaskStates]]
           /\ batch' \in [Users -> [Ids -> Seq(Ids)]]
           /\ lock' \in [Users -> 0..MaxMsgs]
           /\ \A v \in Users, j \in Ids :
                 /\ <<v, j>> # <<u, k>> => task'[v][j] = task[v][j] /\ batch'[v][j] = batch[v][j]
           /\ task'[u][k] = "none"
  <1>0. task' = [task EXCEPT ![u][k] = "none"] /\ "none" \in TaskStates
    BY DEF Return, TaskStates
  <1>1. /\ task' \in [Users -> [Ids -> TaskStates]]
        /\ task'[u][k] = "none"
        /\ \A v \in Users, j \in Ids : <<v, j>> # <<u, k>> => task'[v][j] = task[v][j]
    BY ZenonT(30), <1>0, OneTaskMoves
  <1>2. /\ batch' \in [Users -> [Ids -> Seq(Ids)]]
        /\ \A v \in Users, j \in Ids : <<v, j>> # <<u, k>> => batch'[v][j] = batch[v][j]
    BY DEF KindInv, Return
  <1>3. /\ lock' \in [Users -> 0..MaxMsgs] /\ lock'[u] = 0
        /\ \A v \in Users : v # u => lock'[v] = lock[v]
    BY DispatcherAssumption DEF KindInv, Return
  <1>4. lock[u] = k /\ \A j \in Ids : j # 0
    BY DEF LockInv, Ids
  <1>5. ASSUME NEW v \in Users, NEW j \in Ids
        PROVE  /\ Working(v, j)' <=> lock'[v] = j
               /\ task'[v][j] = "lock" <=> task[v][j] = "lock"
    <2>1. Working(v, j) <=> lock[v] = j
      BY DEF LockInv
    <2>2. CASE v = u /\ j = k
      BY <1>1, <1>3, <1>4, <2>2 DEF Working
    <2>3. CASE v = u /\ j # k
      BY <1>1, <1>3, <1>4, <2>1, <2>3 DEF Working
    <2>4. CASE v # u
      BY <1>1, <1>3, <2>1, <2>4 DEF Working
    <2>. QED
      BY <2>2, <2>3, <2>4
  <1>6. LockInv'
    BY <1>5 DEF LockInv, InSeq, Increasing
  <1>. QED
    BY <1>1, <1>2, <1>3, <1>6

\* The semaphore's queue, when no task joins or leaves it.
LEMMA QueueKept ==
    ASSUME KindInv, SemInv, UNCHANGED semq,
           \A v \in Users, j \in Ids : task[v][j] = "sem" => task'[v][j] = "sem"
    PROVE  SemInv'
  <1>1. \A i \in DOMAIN semq : semq[i] \in Users \X Ids
    BY DEF KindInv
  <1>2. \A i \in DOMAIN semq : semq[i][1] \in Users /\ semq[i][2] \in Ids
    BY <1>1
  <1>. QED
    BY <1>2 DEF SemInv, Distinct

\* GateStops and Sent: the task is over.
LEMMA EndKeepsStack ==
    ASSUME StackInv, NEW u \in Users, NEW k \in Ids,
           task[u][k] \in {"gate", "send", "degrade"}, Return(u, k),
           UNCHANGED <<inbound, lockq, slots, semq, money, handled, lost>>
    PROVE  StackInv'
  <1>. USE DEF StackInv
  <1>1. Working(u, k)
    BY DEF Working
  <1>2. UNCHANGED <<written, buffer, lru, lockq, slots, semq, spend, newDay, alerted, handled, lost>>
    BY DEF inbound, money
  <1>3. /\ LockInv'
        /\ task' \in [Users -> [Ids -> TaskStates]]
        /\ batch' \in [Users -> [Ids -> Seq(Ids)]]
        /\ lock' \in [Users -> 0..MaxMsgs]
        /\ \A v \in Users, j \in Ids :
              <<v, j>> # <<u, k>> => task'[v][j] = task[v][j] /\ batch'[v][j] = batch[v][j]
        /\ task'[u][k] = "none"
    BY <1>1, <1>2, ReturnFreesTheLock
  <1>4. \A v \in Users, j \in Ids :
              /\ task'[v][j] = "lock" <=> task[v][j] = "lock"
              /\ task'[v][j] = "graph" <=> task[v][j] = "graph"
              /\ task'[v][j] = "sem" <=> task[v][j] = "sem"
              /\ task'[v][j] # "none" => task[v][j] # "none"
              /\ task[v][j] = "lock" => batch'[v][j] = batch[v][j]
    BY <1>3
  <1>5. KindInv'
    BY <1>2, <1>3 DEF KindInv
  <1>6. LruInv'
    BY <1>2 DEF LruInv, Distinct, InSeq
  <1>7. SemInv'
    BY <1>2, <1>4, QueueKept
  <1>8. RunInv' /\ EveryMessageAccountedFor'
    BY <1>2, <1>4, RunsKept
  <1>9. BudgetInv' /\ SlotsAreConserved' /\ OperatorsWereTold'
    BY <1>2, <1>4, MoneyKept
  <1>. QED
    BY <1>3, <1>5, <1>6, <1>7, <1>8, <1>9

\* The conjuncts that a task moving on under its lock does not disturb.
LEMMA MoveKeeps ==
    ASSUME StackInv, NEW u \in Users, NEW k \in Ids, Working(u, k),
           NEW s \in {"gate", "degrade", "sem", "graph", "send"},
           task' = [task EXCEPT ![u][k] = s],
           UNCHANGED <<inbound, batch, lock, lockq, handled, lost>>
    PROVE  /\ task' \in [Users -> [Ids -> TaskStates]]
           /\ task'[u][k] = s
           /\ \A v \in Users, j \in Ids : <<v, j>> # <<u, k>> => task'[v][j] = task[v][j]
           /\ LruInv' /\ LockInv' /\ RunInv' /\ EveryMessageAccountedFor'
  <1>. USE DEF StackInv
  <1>1. UNCHANGED <<written, buffer, lru, batch, lock, lockq, handled, lost>>
    BY DEF inbound
  <1>2. s \in TaskStates /\ s \notin {"lock", "none"} /\ task[u][k] \notin {"lock", "none"}
    BY DEF TaskStates, Working
  <1>3. /\ task' \in [Users -> [Ids -> TaskStates]]
        /\ task'[u][k] = s
        /\ \A v \in Users, j \in Ids : <<v, j>> # <<u, k>> => task'[v][j] = task[v][j]
    BY <1>2 DEF KindInv
  <1>4. LruInv'
    BY <1>1 DEF LruInv, Distinct, InSeq
  <1>5. LockInv'
    BY <1>1, StaysAtWork
  <1>6. \A v \in Users, j \in Ids :
              /\ task'[v][j] = "lock" <=> task[v][j] = "lock"
              /\ task'[v][j] # "none" => task[v][j] # "none"
              /\ task[v][j] = "lock" => batch'[v][j] = batch[v][j]
    BY <1>1, <1>2, <1>3
  <1>7. RunInv' /\ EveryMessageAccountedFor'
    BY <1>1, <1>6, RunsKept
  <1>. QED
    BY <1>3, <1>4, <1>5, <1>7

LEMMA DegradeKeepsStack ==
    ASSUME StackInv, NEW u \in Users, NEW k \in Ids, Degrade(u, k)
    PROVE  StackInv'
  <1>. USE DEF StackInv
  <1>1. /\ task[u][k] = "gate"
        /\ task' = [task EXCEPT ![u][k] = "degrade"]
        /\ UNCHANGED <<inbound, batch, lock, lockq, handled, lost>>
        /\ UNCHANGED <<written, buffer, lru, batch, lock, lockq, slots, semq, spend,
                       newDay, alerted, handled, lost>>
    BY DEF Degrade, inbound, money
  <1>2. /\ task' \in [Users -> [Ids -> TaskStates]]
        /\ task'[u][k] = "degrade"
        /\ \A v \in Users, j \in Ids : <<v, j>> # <<u, k>> => task'[v][j] = task[v][j]
        /\ LruInv' /\ LockInv' /\ RunInv' /\ EveryMessageAccountedFor'
    BY <1>1, MoveKeeps DEF Working
  <1>3. KindInv'
    BY <1>1, <1>2 DEF KindInv
  <1>4. SemInv'
    BY <1>1, <1>2, QueueKept
  <1>5. BudgetInv' /\ SlotsAreConserved' /\ OperatorsWereTold'
    <2>1. \A v \in Users, j \in Ids :
              /\ task'[v][j] = "graph" <=> task[v][j] = "graph"
              /\ task'[v][j] = "sem" <=> task[v][j] = "sem"
      BY <1>1, <1>2
    <2>. QED
      BY <1>1, <2>1, MoneyKept
  <1>. QED
    BY <1>2, <1>3, <1>4, <1>5

\* How many customers are committed, and what that is worth.
LEMMA CommittedAreFew ==
    /\ Cardinality(Users) \in Nat
    /\ \A S \in SUBSET Users : /\ IsFiniteSet(S) /\ Cardinality(S) \in Nat
                              /\ TurnCost * Cardinality(S) <= TurnCost * Cardinality(Users)
                              /\ TurnCost * Cardinality(S) \in Nat
  <1>1. Cardinality(Users) \in Nat
    BY FS_CardinalityType, DispatcherAssumption
  <1>2. ASSUME NEW S \in SUBSET Users
        PROVE  IsFiniteSet(S) /\ Cardinality(S) \in Nat /\ Cardinality(S) <= Cardinality(Users)
    BY FS_Subset, FS_CardinalityType, DispatcherAssumption
  <1>3. \A a, b \in Nat : a <= b => TurnCost * a <= TurnCost * b /\ TurnCost * a \in Nat
    BY DispatcherAssumption
  <1>. QED
    BY <1>1, <1>2, <1>3

LEMMA GatePassesKeepsStack ==
    ASSUME StackInv, NEW u \in Users, NEW k \in Ids, GatePasses(u, k)
    PROVE  StackInv'
  <1>. USE DEF StackInv
  <1>1. /\ task[u][k] = "gate"
        /\ ~budget_exceeded
        /\ task' = [task EXCEPT ![u][k] = "sem"]
        /\ semq' = Append(semq, <<u, k>>)
        /\ UNCHANGED <<inbound, batch, lock, lockq, handled, lost>>
        /\ UNCHANGED <<written, buffer, lru, batch, lock, lockq, slots, spend,
                       newDay, alerted, handled, lost>>
    BY DEF GatePasses, inbound, money
  <1>2. /\ task' \in [Users -> [Ids -> TaskStates]]
        /\ task'[u][k] = "sem"
        /\ \A v \in Users, j \in Ids : <<v, j>> # <<u, k>> => task'[v][j] = task[v][j]
        /\ LruInv' /\ LockInv' /\ RunInv' /\ EveryMessageAccountedFor'
    BY <1>1, MoveKeeps DEF Working
  <1>3. /\ semq' \in Seq(Users \X Ids)
        /\ DOMAIN semq' = 1..(Len(semq) + 1) /\ DOMAIN semq = 1..Len(semq) /\ Len(semq) \in Nat
        /\ \A i \in 1..Len(semq) : semq'[i] = semq[i] /\ semq[i] \in Users \X Ids
        /\ semq'[Len(semq) + 1] = <<u, k>>
    BY <1>1 DEF KindInv
  <1>4. KindInv'
    BY <1>1, <1>2, <1>3 DEF KindInv
  <1>5. SemInv'
    <2>1. ASSUME NEW i \in 1..Len(semq)
          PROVE  /\ semq[i] # <<u, k>>
                 /\ task'[semq[i][1]][semq[i][2]] = "sem"
      <3>1. /\ semq[i] = <<semq[i][1], semq[i][2]>>
            /\ semq[i][1] \in Users /\ semq[i][2] \in Ids
        BY <1>3
      <3>2. task[semq[i][1]][semq[i][2]] = "sem"
        BY <1>3 DEF SemInv
      <3>3. semq[i] # <<u, k>>
        BY <1>1, <3>1, <3>2
      <3>. QED
        BY <1>2, <3>1, <3>2, <3>3
    <2>2. \A i \in DOMAIN semq' : task'[semq'[i][1]][semq'[i][2]] = "sem"
      BY <1>2, <1>3, <2>1
    <2>3. Distinct(semq')
      BY <1>3, <2>1 DEF SemInv, Distinct
    <2>. QED
      BY <2>2, <2>3 DEF SemInv
  <1>6. SlotsAreConserved'
    <2>1. InGraph' = InGraph
      BY <1>1, <1>2 DEF InGraph
    <2>. QED
      BY <1>1, <2>1 DEF SlotsAreConserved
  <1>7. BudgetInv'
    <2>1. SUFFICES ASSUME DailyBudget # 0
                   PROVE  spend + TurnCost * Cardinality(Committed')
                             < DailyBudget + TurnCost * Cardinality(Users)
      BY <1>1 DEF BudgetInv
    <2>2. spend < DailyBudget
      BY <1>1, <2>1, DispatcherAssumption DEF budget_exceeded, KindInv
    <2>3. Committed' \in SUBSET Users
      BY DEF Committed
    <2>. DEFINE a == TurnCost * Cardinality(Committed')
                b == TurnCost * Cardinality(Users)
    <2>4. a \in Nat /\ b \in Nat /\ a <= b
      BY <2>3, CommittedAreFew
    <2>. HIDE DEF a, b
    <2>5. spend + a < DailyBudget + b
      BY <2>2, <2>4, DispatcherAssumption DEF KindInv
    <2>. QED
      BY <2>5 DEF a, b
  <1>8. OperatorsWereTold'
    BY <1>1 DEF OperatorsWereTold, budget_exceeded
  <1>. QED
    BY <1>2, <1>4, <1>5, <1>6, <1>7, <1>8

\* The turns in the graph can be counted.
LEMMA GraphTurns == IsFiniteSet(InGraph) /\ Cardinality(InGraph) \in Nat
  <1>1. IsFiniteSet(Ids)
    BY FS_Interval, DispatcherAssumption DEF Ids
  <1>2. IsFiniteSet(Users \X Ids)
    BY <1>1, FS_Product, DispatcherAssumption
  <1>3. InGraph \in SUBSET (Users \X Ids)
    BY DEF InGraph
  <1>4. IsFiniteSet(InGraph)
    BY <1>2, <1>3, FS_Subset
  <1>. QED
    BY <1>4, FS_CardinalityType

LEMMA TakeSlotKeepsStack ==
    ASSUME StackInv, TakeSlot
    PROVE  StackInv'
  <1>. USE DEF StackInv
  <1>. DEFINE u == Head(semq)[1]
              k == Head(semq)[2]
  <1>1. /\ semq # <<>>
        /\ slots > 0 /\ slots' = slots - 1
        /\ task' = [task EXCEPT ![u][k] = "graph"]
        /\ semq' = Tail(semq)
        /\ UNCHANGED <<inbound, batch, lock, lockq, handled, lost>>
        /\ UNCHANGED <<written, buffer, lru, batch, lock, lockq, spend,
                       newDay, alerted, handled, lost>>
    BY DEF TakeSlot, inbound, money
  <1>2. /\ Len(semq) \in Nat \ {0} /\ DOMAIN semq = 1..Len(semq)
        /\ \A i \in 1..Len(semq) : semq[i] \in Users \X Ids
        /\ semq' \in Seq(Users \X Ids)
        /\ DOMAIN semq' = 1..(Len(semq) - 1)
        /\ \A i \in 1..(Len(semq) - 1) : semq'[i] = semq[i + 1]
        /\ Head(semq) = semq[1]
    <2>1. semq \in Seq(Users \X Ids) /\ semq # <<>>
      BY <1>1 DEF KindInv
    <2>2. /\ Tail(semq) \in Seq(Users \X Ids)
          /\ Len(Tail(semq)) = Len(semq) - 1
          /\ \A i \in 1..Len(Tail(semq)) : Tail(semq)[i] = semq[i + 1]
      BY <2>1, HeadTailProperties
    <2>3. Len(semq) \in Nat \ {0} /\ DOMAIN semq = 1..Len(semq) /\ Head(semq) = semq[1]
      BY <2>1
    <2>4. \A i \in 1..Len(semq) : semq[i] \in Users \X Ids
      BY <2>1
    <2>5. DOMAIN Tail(semq) = 1..(Len(semq) - 1)
      BY <2>2
    <2>6. semq' = Tail(semq)
      BY <1>1
    <2>. QED
      BY <2>2, <2>3, <2>4, <2>5, <2>6
  <1>3. /\ u \in Users /\ k \in Ids /\ semq[1] = <<u, k>>
        /\ task[u][k] = "sem"
    BY <1>2 DEF SemInv
  <1>. HIDE DEF u, k
  <1>4. /\ task' \in [Users -> [Ids -> TaskStates]]
        /\ task'[u][k] = "graph"
        /\ \A v \in Users, j \in Ids : <<v, j>> # <<u, k>> => task'[v][j] = task[v][j]
        /\ LruInv' /\ LockInv' /\ RunInv' /\ EveryMessageAccountedFor'
    BY <1>1, <1>3, MoveKeeps DEF Working
  <1>5. KindInv'
    <2>1. slots' \in Nat
      BY <1>1 DEF KindInv
    <2>. QED
      BY ZenonT(30), <1>1, <1>2, <1>4, <2>1 DEF KindInv
  <1>6. SemInv'
    <2>1. ASSUME NEW i \in 1..(Len(semq) - 1)
          PROVE  task'[semq'[i][1]][semq'[i][2]] = "sem"
      <3>. DEFINE t == semq[i + 1]
      <3>1. i + 1 \in 1..Len(semq) /\ i + 1 # 1
        BY <1>2
      <3>2. t = <<t[1], t[2]>> /\ t[1] \in Users /\ t[2] \in Ids
        BY <1>2, <3>1
      <3>3. t # <<u, k>>
        <4>1. semq[i + 1] # semq[1]
          BY <1>2, <3>1 DEF SemInv, Distinct
        <4>. QED
          BY <1>3, <4>1
      <3>4. task[t[1]][t[2]] = "sem"
        BY <1>2, <3>1 DEF SemInv
      <3>. HIDE DEF t
      <3>5. task'[t[1]][t[2]] = "sem"
        BY <1>4, <3>2, <3>3, <3>4
      <3>. QED
        BY <1>2, <3>5 DEF t
    <2>2. Distinct(semq')
      <3>. SUFFICES ASSUME NEW i \in 1..(Len(semq) - 1), NEW j \in 1..(Len(semq) - 1),
                           semq'[i] = semq'[j]
                    PROVE  i = j
        BY <1>2 DEF Distinct
      <3>1. i + 1 \in DOMAIN semq /\ j + 1 \in DOMAIN semq /\ semq[i + 1] = semq[j + 1]
        BY <1>2
      <3>2. i + 1 = j + 1
        BY <3>1 DEF SemInv, Distinct
      <3>. QED
        BY <3>2
    <2>. QED
      BY <1>2, <2>1, <2>2 DEF SemInv
  <1>7. SlotsAreConserved'
    <2>1. InGraph' = InGraph \cup {<<u, k>>}
      BY <1>3, <1>4 DEF InGraph
    <2>2. <<u, k>> \notin InGraph
      BY <1>3 DEF InGraph
    <2>3. Cardinality(InGraph') = Cardinality(InGraph) + 1
      BY <2>1, <2>2, GraphTurns, FS_AddElement
    <2>. QED
      BY <1>1, <2>3, GraphTurns, DispatcherAssumption DEF SlotsAreConserved, KindInv
  <1>8. BudgetInv'
    <2>1. Committed' = Committed
      BY <1>3, <1>4 DEF Committed
    <2>. QED
      BY <1>1, <2>1 DEF BudgetInv
  <1>9. OperatorsWereTold'
    BY <1>1 DEF OperatorsWereTold, budget_exceeded
  <1>. QED
    BY <1>4, <1>5, <1>6, <1>7, <1>8, <1>9

LEMMA GraphReturnsKeepsStack ==
    ASSUME StackInv, NEW u \in Users, NEW k \in Ids, GraphReturns(u, k)
    PROVE  StackInv'
  <1>. USE DEF StackInv
  <1>. DEFINE base == IF newDay THEN 0 ELSE spend
  <1>1. /\ task[u][k] = "graph"
        /\ task' = [task EXCEPT ![u][k] = "send"]
        /\ slots' = slots + 1
        /\ spend' = base + TurnCost
        /\ newDay' = FALSE
        /\ alerted' = ((~newDay /\ alerted) \/ (DailyBudget # 0 /\ base + TurnCost >= DailyBudget))
        /\ UNCHANGED <<inbound, batch, lock, lockq, handled, lost>>
        /\ UNCHANGED <<written, buffer, lru, batch, lock, lockq, semq, handled, lost>>
    <2>1. /\ task[u][k] = "graph" /\ add_spend
          /\ task' = [task EXCEPT ![u][k] = "send"]
          /\ slots' = slots + 1
          /\ UNCHANGED <<inbound, batch, lock, lockq, handled, lost>>
          /\ UNCHANGED <<written, buffer, lru, batch, lock, lockq, semq, handled, lost>>
      BY DEF GraphReturns, inbound
    <2>2. /\ spend' = base + TurnCost /\ newDay' = FALSE
          /\ alerted' = ((~newDay /\ alerted) \/ (DailyBudget # 0 /\ base + TurnCost >= DailyBudget))
      BY <2>1 DEF add_spend
    <2>. QED
      BY <2>1, <2>2
  <1>2. /\ task' \in [Users -> [Ids -> TaskStates]]
        /\ task'[u][k] = "send"
        /\ \A v \in Users, j \in Ids : <<v, j>> # <<u, k>> => task'[v][j] = task[v][j]
        /\ LruInv' /\ LockInv' /\ RunInv' /\ EveryMessageAccountedFor'
    BY <1>1, MoveKeeps DEF Working
  <1>3. base \in Nat /\ base <= spend /\ TurnCost \in Nat /\ spend \in Nat
    BY DispatcherAssumption DEF KindInv
  <1>. HIDE DEF base
  <1>4. KindInv'
    <2>1. slots' \in Nat /\ spend' \in Nat /\ alerted' \in BOOLEAN
      BY <1>1, <1>3 DEF KindInv
    <2>. QED
      BY <1>1, <1>2, <2>1 DEF KindInv
  <1>5. SemInv'
    BY <1>1, <1>2, QueueKept
  <1>6. SlotsAreConserved'
    <2>1. InGraph' = InGraph \ {<<u, k>>}
      BY <1>1, <1>2 DEF InGraph
    <2>2. <<u, k>> \in InGraph
      BY <1>1 DEF InGraph
    <2>3. Cardinality(InGraph') = Cardinality(InGraph) - 1
      BY <2>1, <2>2, GraphTurns, FS_RemoveElement
    <2>. QED
      BY <1>1, <2>3, GraphTurns, DispatcherAssumption DEF SlotsAreConserved, KindInv
  <1>7. BudgetInv'
    <2>1. \A j \in Ids : j # k => task[u][j] \notin {"sem", "graph"}
      BY <1>1 DEF LockInv, Working
    <2>2. Committed' = Committed \ {u} /\ u \in Committed
      BY <1>1, <1>2, <2>1 DEF Committed
    <2>3. /\ IsFiniteSet(Committed) /\ Cardinality(Committed) \in Nat
          /\ Cardinality(Committed') \in Nat
      BY CommittedAreFew, <2>2 DEF Committed
    <2>4. Cardinality(Committed) = Cardinality(Committed') + 1
      <3>1. Cardinality(Committed \ {u}) = Cardinality(Committed) - 1
        BY <2>2, <2>3, FS_RemoveElement
      <3>. QED
        BY <2>2, <2>3, <3>1
    <2>5. TurnCost * Cardinality(Committed) = TurnCost * Cardinality(Committed') + TurnCost
      BY <2>3, <2>4, <1>3
    <2>. DEFINE a == TurnCost * Cardinality(Committed')
                b == TurnCost * Cardinality(Users)
    <2>6. a \in Nat /\ b \in Nat
      BY <2>3, <1>3, CommittedAreFew
    <2>7. DailyBudget # 0 => spend + (a + TurnCost) < DailyBudget + b
      BY <2>5 DEF BudgetInv
    <2>. HIDE DEF a, b
    <2>8. DailyBudget # 0 => spend' + a < DailyBudget + b
      BY <1>1, <1>3, <2>6, <2>7, DispatcherAssumption
    <2>. QED
      BY <2>8 DEF BudgetInv, a, b
  <1>8. OperatorsWereTold'
    BY <1>1 DEF OperatorsWereTold, budget_exceeded
  <1>. QED
    BY <1>2, <1>4, <1>5, <1>6, <1>7, <1>8

-----------------------------------------------------------------------------
(* The debounce buffer and the queue for the lock *)

LEMMA AddKeepsStack ==
    ASSUME StackInv, NEW u \in Users, Add(u)
    PROVE  StackInv'
  <1>. USE DEF StackInv
  <1>. DEFINE order == Append(Without(lru, u), u)
              n     == IF buffer[u] = <<>> THEN Excess(order) ELSE 0
              gone  == {order[i] : i \in 1..n}
  <1>1. /\ written[u] < MaxMsgs
        /\ written' = [written EXCEPT ![u] = @ + 1]
        /\ lru' = SubSeq(order, n + 1, Len(order))
        /\ buffer' = [v \in Users |->
                         IF v = u THEN Append(buffer[v], written[u] + 1)
                         ELSE IF v \in gone THEN <<>> ELSE buffer[v]]
        /\ lost' = [v \in Users |->
                         IF v \in gone THEN lost[v] \cup InSeq(buffer[v]) ELSE lost[v]]
        /\ UNCHANGED <<task, batch, lock, lockq, slots, semq, spend, newDay, alerted, handled>>
    BY DEF Add, turns, money
  <1>2. /\ Without(lru, u) \in Seq(Users)
        /\ Distinct(Without(lru, u))
        /\ InSeq(Without(lru, u)) = InSeq(lru) \ {u}
        /\ Len(Without(lru, u)) = IF u \in InSeq(lru) THEN Len(lru) - 1 ELSE Len(lru)
    BY WithoutTakesOut DEF KindInv, LruInv
  <1>3. /\ order \in Seq(Users)
        /\ Distinct(order)
        /\ Len(order) = Len(Without(lru, u)) + 1
        /\ InSeq(order) = InSeq(lru) \cup {u}
        /\ order[Len(order)] = u
    <2>1. u \notin InSeq(Without(lru, u))
      BY <1>2
    <2>2. /\ order \in Seq(Users)
          /\ Distinct(order)
          /\ Len(order) = Len(Without(lru, u)) + 1
          /\ InSeq(order) = InSeq(Without(lru, u)) \cup {u}
      BY <1>2, <2>1, AppendingTheNewest
    <2>3. order[Len(Without(lru, u)) + 1] = u
      BY <1>2, AppendProperties
    <2>. QED
      BY <1>2, <2>2, <2>3
  <1>. HIDE DEF order
  <1>4. /\ Len(lru) \in Nat /\ Len(order) \in Nat \ {0} /\ MaxBuffers \in Nat \ {0}
        /\ Len(lru) <= MaxBuffers
        /\ buffer[u] = <<>> => Len(order) = Len(lru) + 1
        /\ buffer[u] # <<>> => Len(order) = Len(lru)
    <2>1. Len(lru) \in Nat /\ Len(order) \in Nat /\ Len(Without(lru, u)) \in Nat
      BY <1>2, <1>3, LenProperties DEF KindInv
    <2>2. u \in InSeq(lru) <=> buffer[u] # <<>>
      BY DEF LruInv
    <2>3. Len(lru) <= MaxBuffers /\ MaxBuffers \in Nat \ {0}
      BY DispatcherAssumption DEF LruInv
    <2>4. buffer[u] = <<>> => Len(order) = Len(lru) + 1
      BY <1>2, <1>3, <2>1, <2>2
    <2>5. buffer[u] # <<>> => Len(order) = Len(lru)
      BY <1>2, <1>3, <2>1, <2>2
    <2>. QED
      BY <1>3, <2>1, <2>3, <2>4, <2>5
  <1>5. /\ n \in 0..(Len(order) - 1)
        /\ Len(order) - n <= MaxBuffers
        /\ buffer[u] # <<>> => n = 0
    BY <1>4 DEF Excess
  <1>. HIDE DEF n
  <1>6. /\ lru' \in Seq(Users) /\ Distinct(lru') /\ Len(lru') <= MaxBuffers
        /\ InSeq(lru') = (InSeq(lru) \cup {u}) \ gone
    <2>1. n \in 0..Len(order)
      BY <1>4, <1>5
    <2>. QED
      BY <1>1, <1>3, <1>5, <2>1, DroppingTheOldest
  <1>7. u \notin gone
    <2>1. \A i \in 1..n : i \in DOMAIN order /\ i # Len(order)
      BY <1>3, <1>4, <1>5
    <2>2. Len(order) \in DOMAIN order
      BY <1>3, <1>4
    <2>. QED
      BY <1>3, <2>1, <2>2 DEF Distinct
  <1>. HIDE DEF gone
  <1>8. /\ written' \in [Users -> 0..MaxMsgs]
        /\ written'[u] = written[u] + 1
        /\ \A v \in Users : v # u => written'[v] = written[v]
    BY <1>1, DispatcherAssumption DEF KindInv
  <1>9. /\ buffer' \in [Users -> Seq(Ids)]
        /\ buffer'[u] = Append(buffer[u], written[u] + 1)
        /\ \A v \in Users : v # u => buffer'[v] = IF v \in gone THEN <<>> ELSE buffer[v]
    <2>1. written[u] + 1 \in Ids
      BY <1>1, DispatcherAssumption DEF KindInv, Ids
    <2>2. \A v \in Users : buffer[v] \in Seq(Ids)
      BY DEF KindInv
    <2>3. Append(buffer[u], written[u] + 1) \in Seq(Ids)
      BY <2>1, <2>2
    <2>. QED
      BY <1>1, <2>2, <2>3
  <1>10. /\ lost' \in [Users -> SUBSET Ids]
         /\ lost'[u] = lost[u]
         /\ \A v \in Users : v # u => lost'[v] = IF v \in gone THEN lost[v] \cup InSeq(buffer[v])
                                                              ELSE lost[v]
    <2>1. \A v \in Users : buffer[v] \in Seq(Ids) /\ lost[v] \in SUBSET Ids
      BY DEF KindInv
    <2>2. \A v \in Users : InSeq(buffer[v]) \in SUBSET Ids
      BY <2>1 DEF InSeq
    <2>. QED
      BY <1>1, <1>7, <2>1, <2>2
  <1>11. KindInv'
    BY <1>1, <1>6, <1>8, <1>9, <1>10 DEF KindInv
  <1>12. LruInv'
    <2>1. buffer'[u] # <<>>
      <3>1. buffer[u] \in Seq(Ids) /\ written[u] + 1 \in Ids
        BY <1>1, DispatcherAssumption DEF KindInv, Ids
      <3>. QED
        BY <1>9, <3>1, AppendProperties
    <2>2. ASSUME NEW v \in Users
          PROVE  v \in InSeq(lru') <=> buffer'[v] # <<>>
      BY <1>6, <1>7, <1>9, <2>1 DEF LruInv
    <2>. QED
      BY <1>6, <2>2 DEF LruInv, InSeq
  <1>13. LockInv' /\ SemInv'
    BY <1>1 DEF LockInv, SemInv, Working, Increasing, Distinct, InSeq
  <1>14. /\ \A v \in Users : DOMAIN buffer[v] = 1..Len(buffer[v]) /\ Len(buffer[v]) \in Nat
         /\ DOMAIN buffer'[u] = 1..(Len(buffer[u]) + 1) /\ Len(buffer'[u]) = Len(buffer[u]) + 1
         /\ \A i \in DOMAIN buffer[u] : buffer'[u][i] = buffer[u][i]
         /\ buffer'[u][Len(buffer[u]) + 1] = written[u] + 1
    <2>1. \A v \in Users : buffer[v] \in Seq(Ids)
      BY DEF KindInv
    <2>2. written[u] + 1 \in Ids
      BY <1>1, DispatcherAssumption DEF KindInv, Ids
    <2>3. buffer'[u] = Append(buffer[u], written[u] + 1)
      BY <1>9
    <2>. QED
      BY <2>1, <2>2, <2>3, AppendProperties
  <1>15. \A v \in Users : written[v] \in Nat /\ Flushed(v) \in Nat
    BY <1>14, DispatcherAssumption DEF KindInv, RunInv, RunsOf, Flushed
  <1>16. ASSUME NEW v \in Users
         PROVE  /\ Flushed(v)' \in Nat /\ Flushed(v) <= Flushed(v)'
                /\ v = u => Flushed(v)' = Flushed(v)
                /\ v # u => buffer'[v] = <<>> \/ (buffer'[v] = buffer[v] /\ Flushed(v)' = Flushed(v))
    <2>1. CASE v = u
      <3>1. /\ Flushed(u) = written[u] - Len(buffer[u])
            /\ Flushed(u)' = written'[u] - Len(buffer'[u])
        BY DEF Flushed
      <3>2. Flushed(u)' = Flushed(u)
        BY SMTT(30), <1>8, <1>14, <1>15, <3>1
      <3>. QED
        BY <1>15, <2>1, <3>2
    <2>2. CASE v # u /\ v \in gone
      <3>1. Flushed(v)' = written[v] /\ buffer'[v] = <<>>
        <4>1. Len(<<>>) = 0
          OBVIOUS
        <4>. QED
          BY <1>8, <1>9, <1>15, <2>2, <4>1 DEF Flushed
      <3>2. Flushed(v) = written[v] - Len(buffer[v]) /\ Len(buffer[v]) \in Nat
        BY <1>14 DEF Flushed
      <3>. QED
        <4>1. Flushed(v) <= written[v] /\ written[v] \in Nat
          BY <1>15, <3>2
        <4>. QED
          BY <2>2, <3>1, <4>1
    <2>3. CASE v # u /\ v \notin gone
      <3>1. Flushed(v)' = Flushed(v) /\ buffer'[v] = buffer[v]
        BY <1>8, <1>9, <2>3 DEF Flushed
      <3>. QED
        BY <1>15, <2>3, <3>1
    <2>. QED
      BY <2>1, <2>2, <2>3
  <1>17. RunInv'
    <2>. SUFFICES ASSUME NEW v \in Users
                  PROVE  RunsOf(v)'
      BY DEF RunInv
    <2>1. Flushed(v)' >= 0
      BY <1>16
    <2>2. \A i \in DOMAIN buffer'[v] : buffer'[v][i] = Flushed(v)' + i
      <3>1. CASE v = u
        <4>1. ASSUME NEW i \in DOMAIN buffer[u]
              PROVE  buffer'[u][i] = Flushed(u)' + i
          BY <1>14, <1>16 DEF RunInv, RunsOf
        <4>2. buffer'[u][Len(buffer[u]) + 1] = Flushed(u)' + (Len(buffer[u]) + 1)
          BY SMTT(30), <1>14, <1>15, <1>16 DEF Flushed
        <4>. QED
          BY <1>14, <3>1, <4>1, <4>2
      <3>2. CASE v # u
        BY <1>16, <3>2 DEF RunInv, RunsOf
      <3>. QED
        BY <3>1, <3>2
    <2>3. Increasing(handled[v])'
      BY <1>1 DEF RunInv, RunsOf, Increasing
    <2>4. \A k \in Ids : Through(v, k)' = Through(v, k)
      BY <1>1 DEF Through
    <2>5. /\ \A i \in DOMAIN handled[v] : handled[v][i] \in Int
          /\ \A k \in Ids : k \in Int
          /\ \A k \in Ids : Through(v, k) \in Int
      <3>1. handled[v] \in Seq(Ids) /\ \A k \in Ids : batch[v][k] \in Seq(Ids)
        BY DEF KindInv
      <3>2. \A k \in Ids : k \in Int
        BY DEF Ids
      <3>3. \A i \in DOMAIN handled[v] : handled[v][i] \in Ids
        BY <3>1
      <3>4. \A k \in Ids : Len(batch[v][k]) \in Nat
        BY <3>1
      <3>5. \A k \in Ids : Through(v, k) \in Int
        BY <3>2, <3>4 DEF Through
      <3>. QED
        BY <3>2, <3>3, <3>5
    <2>6. \A i \in DOMAIN handled'[v] : handled'[v][i] <= Flushed(v)'
      BY <1>1, <1>15, <1>16, <2>5 DEF RunInv, RunsOf
    <2>7. \A k \in Ids : task'[v][k] # "none" => k <= Flushed(v)'
      BY <1>1, <1>15, <1>16, <2>5 DEF RunInv, RunsOf
    <2>8. ASSUME NEW k \in Ids, task'[v][k] = "lock"
          PROVE  /\ batch'[v][k] # <<>> /\ Through(v, k)' <= Flushed(v)'
                 /\ \A i \in DOMAIN batch'[v][k] : batch'[v][k][i] = k + i - 1
                 /\ \A i \in DOMAIN handled'[v] : handled'[v][i] < k
                 /\ \A j \in Ids : task'[v][j] = "lock" /\ j < k => Through(v, j)' < k
      <3>1. Through(v, k) <= Flushed(v)
        BY <1>1, <2>8 DEF RunInv, RunsOf
      <3>2. Through(v, k)' <= Flushed(v)'
        BY <1>15, <1>16, <2>4, <2>5, <3>1
      <3>. QED
        BY <1>1, <2>4, <2>8, <3>2 DEF RunInv, RunsOf
    <2>. QED
      BY <2>1, <2>2, <2>3, <2>6, <2>7, <2>8 DEF RunsOf
  <1>18. EveryMessageAccountedFor'
    <2>. DEFINE Waiting(v) == UNION {InSeq(batch[v][k]) : k \in {j \in Ids : task[v][j] = "lock"}}
    <2>1. \A v \in Users : /\ Pending(v) = InSeq(buffer[v]) \cup Waiting(v)
                           /\ Pending(v)' = InSeq(buffer'[v]) \cup Waiting(v)
      <3>1. \A v \in Users : Waiting(v)' = Waiting(v)
        BY <1>1 DEF InSeq
      <3>2. \A v \in Users : Pending(v) = InSeq(buffer[v]) \cup Waiting(v)
        BY DEF Pending
      <3>3. \A v \in Users : Pending(v)' = InSeq(buffer'[v]) \cup Waiting(v)'
        BY DEF Pending, InSeq
      <3>. QED
        BY <3>1, <3>2, <3>3
    <2>. HIDE DEF Waiting
    <2>2. InSeq(buffer'[u]) = InSeq(buffer[u]) \cup {written[u] + 1}
      BY SMTT(30), <1>14 DEF InSeq
    <2>3. ASSUME NEW v \in Users
          PROVE  1..written'[v] \ Blank[v]
                     \subseteq InSeq(handled'[v]) \cup Pending(v)' \cup lost'[v]
      <3>1. 1..written[v] \ Blank[v] \subseteq InSeq(handled[v]) \cup Pending(v) \cup lost[v]
        BY DEF EveryMessageAccountedFor
      <3>2. InSeq(handled'[v]) = InSeq(handled[v])
        BY <1>1
      <3>3. CASE v = u
        <4>1. 1..written'[u] = 1..written[u] \cup {written[u] + 1}
          BY <1>8, <1>15
        <4>. QED
          BY <1>10, <2>1, <2>2, <3>1, <3>2, <3>3, <4>1
      <3>4. CASE v # u
        <4>1. InSeq(<<>>) = {}
          BY DEF InSeq
        <4>. QED
          BY <1>8, <1>9, <1>10, <2>1, <3>1, <3>2, <3>4, <4>1
      <3>. QED
        BY <3>3, <3>4
    <2>4. \A v \in Users : InSeq(handled[v])' = InSeq(handled'[v])
      BY DEF InSeq
    <2>. QED
      BY <2>3, <2>4 DEF EveryMessageAccountedFor
  <1>19. BudgetInv' /\ SlotsAreConserved' /\ OperatorsWereTold'
    BY <1>1, MoneyKept
  <1>. QED
    BY <1>11, <1>12, <1>13, <1>17, <1>18, <1>19

\* Elements that are numbers, wherever they stand.
LEMMA Numbers ==
    ASSUME KindInv
    PROVE  /\ \A k \in Ids : k \in Nat \ {0}
           /\ \A v \in Users : /\ written[v] \in Nat
                              /\ buffer[v] \in Seq(Ids)
                              /\ Len(buffer[v]) \in Nat /\ DOMAIN buffer[v] = 1..Len(buffer[v])
                              /\ Flushed(v) \in Int /\ Flushed(v) = written[v] - Len(buffer[v])
                              /\ handled[v] \in Seq(Ids)
                              /\ lockq[v] \in Seq(Ids)
                              /\ \A k \in Ids : /\ batch[v][k] \in Seq(Ids)
                                                /\ Len(batch[v][k]) \in Nat
                                                /\ DOMAIN batch[v][k] = 1..Len(batch[v][k])
                                                /\ Through(v, k) \in Int
                                                /\ Through(v, k) = k + Len(batch[v][k]) - 1
  <1>1. \A k \in Ids : k \in Nat \ {0}
    BY DispatcherAssumption DEF Ids
  <1>2. \A v \in Users : /\ written[v] \in Nat
                        /\ buffer[v] \in Seq(Ids) /\ handled[v] \in Seq(Ids) /\ lockq[v] \in Seq(Ids)
                        /\ \A k \in Ids : batch[v][k] \in Seq(Ids)
    BY DispatcherAssumption DEF KindInv
  <1>3. \A s \in Seq(Ids) : Len(s) \in Nat /\ DOMAIN s = 1..Len(s)
    OBVIOUS
  <1>4. \A v \in Users : Flushed(v) \in Int /\ Flushed(v) = written[v] - Len(buffer[v])
    BY <1>2, <1>3 DEF Flushed
  <1>5. \A v \in Users, k \in Ids : Through(v, k) \in Int /\ Through(v, k) = k + Len(batch[v][k]) - 1
    BY <1>1, <1>2, <1>3 DEF Through
  <1>. QED
    BY <1>1, <1>2, <1>3, <1>4, <1>5

\* The timer moves messages from the buffer to a waiting batch and loses none.
LEMMA FlushKeepsStack ==
    ASSUME StackInv, NEW u \in Users, Flush(u)
    PROVE  StackInv' /\ \A v \in Users : Pending(v)' = Pending(v)
  <1>. USE DEF StackInv
  <1>0. Head(buffer[u]) \in Ids
    BY DEF Flush, KindInv
  <1>. PICK k \in Ids : k = Head(buffer[u])
    BY <1>0
  <1>1. /\ buffer[u] # <<>>
        /\ task' = [task EXCEPT ![u][k] = "lock"]
        /\ batch' = [batch EXCEPT ![u][k] = buffer[u]]
        /\ lockq' = [lockq EXCEPT ![u] = Append(@, k)]
        /\ buffer' = [buffer EXCEPT ![u] = <<>>]
        /\ lru' = Without(lru, u)
        /\ UNCHANGED <<written, lock, slots, semq, spend, newDay, alerted, handled, lost>>
    BY DEF Flush, money
  <1>2. /\ k \in Ids /\ k = Flushed(u) + 1
        /\ buffer[u] \in Seq(Ids) /\ Len(buffer[u]) \in Nat \ {0}
        /\ DOMAIN buffer[u] = 1..Len(buffer[u])
    <2>1. buffer[u] \in Seq(Ids) /\ Len(buffer[u]) \in Nat \ {0} /\ k = buffer[u][1] /\ 1 \in DOMAIN buffer[u]
      BY <1>1 DEF KindInv
    <2>2. k \in Ids /\ DOMAIN buffer[u] = 1..Len(buffer[u])
      BY <2>1
    <2>3. k = Flushed(u) + 1
      BY <2>1 DEF RunInv, RunsOf
    <2>. QED
      BY <2>1, <2>2, <2>3
  <1>2a. /\ \A j \in Ids : j \in Nat \ {0}
        /\ Flushed(u) \in Int /\ written[u] \in Nat /\ Flushed(u) = written[u] - Len(buffer[u])
    BY Numbers
  <1>2b. \A a \in Int : a <= Flushed(u) => a < k /\ a <= written[u]
    BY <1>2, <1>2a
  <1>3. task[u][k] = "none"
    BY <1>2, Numbers DEF RunInv, RunsOf
  <1>4. /\ task' \in [Users -> [Ids -> TaskStates]]
        /\ task'[u][k] = "lock"
        /\ \A v \in Users, j \in Ids : <<v, j>> # <<u, k>> => task'[v][j] = task[v][j]
    BY <1>1, <1>2 DEF KindInv, TaskStates
  <1>5. /\ batch' \in [Users -> [Ids -> Seq(Ids)]]
        /\ batch'[u][k] = buffer[u]
        /\ \A v \in Users, j \in Ids : <<v, j>> # <<u, k>> => batch'[v][j] = batch[v][j]
    BY <1>1, <1>2 DEF KindInv
  <1>6. /\ lockq' \in [Users -> Seq(Ids)]
        /\ lockq'[u] = Append(lockq[u], k)
        /\ \A v \in Users : v # u => lockq'[v] = lockq[v]
    BY <1>1, <1>2 DEF KindInv
  <1>7. /\ buffer' \in [Users -> Seq(Ids)]
        /\ buffer'[u] = <<>>
        /\ \A v \in Users : v # u => buffer'[v] = buffer[v]
    BY <1>1 DEF KindInv
  <1>8. /\ lru' \in Seq(Users) /\ Distinct(lru') /\ InSeq(lru') = InSeq(lru) \ {u}
        /\ Len(lru') = IF u \in InSeq(lru) THEN Len(lru) - 1 ELSE Len(lru)
    BY <1>1, WithoutTakesOut DEF KindInv, LruInv
  <1>9. KindInv'
    BY <1>1, <1>4, <1>5, <1>6, <1>7, <1>8 DEF KindInv
  <1>10. LruInv'
    <2>1. Len(lru') <= MaxBuffers
      BY <1>8, LenProperties, DispatcherAssumption DEF KindInv, LruInv
    <2>2. \A v \in Users : v \in InSeq(lru') <=> buffer'[v] # <<>>
      BY <1>7, <1>8 DEF LruInv
    <2>. QED
      BY <1>8, <2>1, <2>2 DEF LruInv, InSeq
  <1>11. /\ \A v \in Users : lockq[v] \in Seq(Ids) /\ DOMAIN lockq[v] = 1..Len(lockq[v]) /\ Len(lockq[v]) \in Nat
         /\ DOMAIN lockq'[u] = 1..(Len(lockq[u]) + 1)
         /\ \A i \in DOMAIN lockq[u] : lockq'[u][i] = lockq[u][i]
         /\ lockq'[u][Len(lockq[u]) + 1] = k
    <2>1. \A v \in Users : lockq[v] \in Seq(Ids)
      BY DEF KindInv
    <2>2. \A s \in Seq(Ids) : DOMAIN s = 1..Len(s) /\ Len(s) \in Nat
      OBVIOUS
    <2>. QED
      BY <1>6, <2>1, <2>2, AppendProperties
  <1>12. LockInv'
    <2>1. ASSUME NEW v \in Users, NEW j \in Ids
          PROVE  Working(v, j)' <=> lock'[v] = j
      BY <1>1, <1>3, <1>4 DEF LockInv, Working
    <2>2. ASSUME NEW v \in Users, NEW j \in Ids
          PROVE  task'[v][j] = "lock" <=> j \in InSeq(lockq'[v])
      <3>1. task[v][j] = "lock" <=> j \in InSeq(lockq[v])
        BY DEF LockInv
      <3>2. InSeq(lockq'[u]) = InSeq(lockq[u]) \cup {k}
        BY SMTT(30), <1>11 DEF InSeq
      <3>. QED
        BY <1>4, <1>6, <3>1, <3>2
    <2>3. ASSUME NEW v \in Users
          PROVE  Increasing(lockq'[v])
      <3>1. CASE v # u
        BY <1>6, <3>1 DEF LockInv, Increasing
      <3>2. CASE v = u
        <4>1. ASSUME NEW i \in DOMAIN lockq[u]
              PROVE  lockq[u][i] < k
          <5>1. lockq[u][i] \in Ids /\ lockq[u][i] \in InSeq(lockq[u])
            BY <1>11 DEF InSeq
          <5>2. task[u][lockq[u][i]] = "lock"
            BY <5>1 DEF LockInv
          <5>3. lockq[u][i] <= Flushed(u)
            BY <5>1, <5>2 DEF RunInv, RunsOf
          <5>. QED
            BY <1>2a, <1>2b, <5>1, <5>3
        <4>2. \A i, j \in DOMAIN lockq[u] : i < j => lockq[u][i] < lockq[u][j]
          BY DEF LockInv, Increasing
        <4>. QED
          BY <1>11, <3>2, <4>1, <4>2 DEF Increasing
      <3>. QED
        BY <3>1, <3>2
    <2>4. \A v \in Users : InSeq(lockq[v])' = InSeq(lockq'[v]) /\ Increasing(lockq[v])' = Increasing(lockq'[v])
      BY DEF InSeq, Increasing
    <2>. QED
      BY <2>1, <2>2, <2>3, <2>4 DEF LockInv
  <1>13. SemInv'
    BY <1>1, <1>3, <1>4, QueueKept
  <1>14. BudgetInv' /\ SlotsAreConserved' /\ OperatorsWereTold'
    BY <1>1, <1>3, <1>4, MoneyKept
  <1>15. /\ Flushed(u)' = written[u] /\ Flushed(u) <= written[u] /\ Flushed(u)' \in Nat
         /\ \A v \in Users : v # u => Flushed(v)' = Flushed(v)
    <2>1. Len(<<>>) = 0
      OBVIOUS
    <2>2. Flushed(u)' = written[u]
      BY <1>1, <1>7, <2>1, Numbers DEF Flushed
    <2>. QED
      BY <1>1, <1>7, <2>2, Numbers DEF Flushed
  <1>16. /\ \A v \in Users, j \in Ids : <<v, j>> # <<u, k>> => Through(v, j)' = Through(v, j)
         /\ Through(u, k)' = written[u]
    <2>1. Through(u, k)' = k + Len(buffer[u]) - 1
      BY <1>5 DEF Through
    <2>2. Through(u, k)' = written[u]
      BY <1>2, <1>2a, <2>1
    <2>. QED
      BY <1>5, <2>2 DEF Through
  <1>17. RunInv'
    <2>. SUFFICES ASSUME NEW v \in Users
                  PROVE  RunsOf(v)'
      BY DEF RunInv
    <2>0. RunsOf(v)
      BY DEF RunInv
    <2>1. CASE v # u
      <3>1. /\ Flushed(v)' = Flushed(v) /\ buffer'[v] = buffer[v]
            /\ handled'[v] = handled[v] /\ task'[v] = task[v] /\ batch'[v] = batch[v]
            /\ \A j \in Ids : Through(v, j)' = Through(v, j)
        BY <1>1, <1>7, <1>15, <1>16, <2>1 DEF KindInv
      <3>. QED
        BY <2>0, <3>1 DEF RunsOf, Increasing
    <2>2. CASE v = u
      <3>1. Flushed(u)' >= 0 /\ buffer'[u] = <<>>
        BY <1>7, <1>15, Numbers
      <3>2. Increasing(handled[u])'
        BY <1>1, <2>0, <2>2 DEF RunsOf, Increasing
      <3>3. \A i \in DOMAIN handled[u] : /\ handled[u][i] \in Nat
                                       /\ handled[u][i] <= Flushed(u)' /\ handled[u][i] < k
        <4>1. \A i \in DOMAIN handled[u] : handled[u][i] \in Ids /\ handled[u][i] <= Flushed(u)
          BY <2>0, <2>2, Numbers DEF RunsOf
        <4>. QED
          BY <1>2a, <1>2b, <1>15, <4>1
      <3>4. ASSUME NEW j \in Ids, j # k, task[u][j] # "none"
            PROVE  j <= Flushed(u)' /\ j < k
        <4>1. j <= Flushed(u)
          BY <2>0, <2>2, <3>4 DEF RunsOf
        <4>. QED
          BY <1>2a, <1>2b, <1>15, <4>1
      <3>5. k <= Flushed(u)'
        BY <1>2, <1>15, Numbers
      <3>6. \A j \in Ids : task'[u][j] # "none" => j <= Flushed(u)'
        BY <1>4, <3>4, <3>5
      <3>7. ASSUME NEW j \in Ids, j # k, task[u][j] = "lock"
            PROVE  /\ batch'[u][j] # <<>> /\ Through(u, j)' <= Flushed(u)' /\ Through(u, j)' < k
                   /\ \A i \in DOMAIN batch'[u][j] : batch'[u][j][i] = j + i - 1
                   /\ \A i \in DOMAIN handled'[u] : handled'[u][i] < j
                   /\ \A l \in Ids : task'[u][l] = "lock" /\ l < j => Through(u, l)' < j
        <4>1. /\ batch[u][j] # <<>> /\ Through(u, j) <= Flushed(u)
              /\ \A i \in DOMAIN batch[u][j] : batch[u][j][i] = j + i - 1
              /\ \A i \in DOMAIN handled[u] : handled[u][i] < j
              /\ \A l \in Ids : task[u][l] = "lock" /\ l < j => Through(u, l) < j
          BY <2>0, <2>2, <3>7 DEF RunsOf
        <4>2. batch'[u][j] = batch[u][j] /\ Through(u, j)' = Through(u, j)
          BY <1>5, <1>16, <3>7
        <4>3. Through(u, j) <= Flushed(u)' /\ Through(u, j) < k
          BY <1>2b, <1>15, <4>1, Numbers
        <4>4. ~(k < j)
          BY <1>2, <1>2a, <3>4, <3>7
        <4>5. \A l \in Ids : task'[u][l] = "lock" /\ l < j => Through(u, l)' < j
          BY <1>4, <1>16, <4>1, <4>4
        <4>. QED
          BY <1>1, <4>1, <4>2, <4>3, <4>5
      <3>8. /\ batch'[u][k] # <<>> /\ Through(u, k)' <= Flushed(u)'
            /\ \A i \in DOMAIN batch'[u][k] : batch'[u][k][i] = k + i - 1
            /\ \A l \in Ids : task'[u][l] = "lock" /\ l < k => Through(u, l)' < k
        <4>1. \A i \in DOMAIN buffer[u] : buffer[u][i] = Flushed(u) + i
          BY <2>0, <2>2 DEF RunsOf
        <4>2. \A i \in DOMAIN buffer[u] : buffer[u][i] = k + i - 1
          BY <1>2, <4>1, Numbers
        <4>3. Through(u, k)' <= Flushed(u)'
          BY <1>15, <1>16
        <4>4. \A l \in Ids : task'[u][l] = "lock" /\ l < k => Through(u, l)' < k
          BY <1>2, <1>2a, <1>4, <3>7
        <4>. QED
          BY <1>1, <1>5, <4>2, <4>3, <4>4
      <3>9. \A j \in Ids : task'[u][j] = "lock" /\ j # k => task[u][j] = "lock"
        BY <1>4
      <3>. QED
        BY <1>1, <2>2, <3>1, <3>2, <3>3, <3>6, <3>7, <3>8, <3>9 DEF RunsOf
    <2>. QED
      BY <2>1, <2>2
  <1>18. \A v \in Users : Pending(v)' = Pending(v)
    <2>. SUFFICES ASSUME NEW v \in Users
                  PROVE  Pending(v)' = Pending(v)
      OBVIOUS
    <2>1. CASE v # u
      <3>1. buffer'[v] = buffer[v] /\ task'[v] = task[v] /\ batch'[v] = batch[v]
        BY <1>1, <2>1 DEF KindInv
      <3>. QED
        BY <3>1 DEF Pending, InSeq
    <2>2. CASE v = u
      <3>. DEFINE W == {j \in Ids : task[u][j] = "lock"}
      <3>1. {j \in Ids : task'[u][j] = "lock"} = W \cup {k} /\ k \notin W
        BY <1>2, <1>3, <1>4
      <3>2. \A j \in W : InSeq(batch'[u][j]) = InSeq(batch[u][j])
        BY <1>5, <3>1
      <3>3. InSeq(batch'[u][k]) = InSeq(buffer[u]) /\ InSeq(buffer'[u]) = {}
        BY <1>5, <1>7 DEF InSeq
      <3>4. Pending(u)' = InSeq(buffer'[u]) \cup UNION {InSeq(batch'[u][j]) : j \in {i \in Ids : task'[u][i] = "lock"}}
        BY DEF Pending, InSeq
      <3>5. Pending(u)' = InSeq(buffer'[u]) \cup UNION {InSeq(batch'[u][j]) : j \in W \cup {k}}
        BY <3>1, <3>4
      <3>6. Pending(u) = InSeq(buffer[u]) \cup UNION {InSeq(batch[u][j]) : j \in W}
        BY DEF Pending
      <3>. HIDE DEF W
      <3>7. UNION {InSeq(batch'[u][j]) : j \in W \cup {k}}
              = InSeq(batch'[u][k]) \cup UNION {InSeq(batch[u][j]) : j \in W}
        BY <3>2
      <3>. QED
        BY <2>2, <3>3, <3>5, <3>6, <3>7
    <2>. QED
      BY <2>1, <2>2
  <1>19. EveryMessageAccountedFor'
    BY <1>1, <1>18 DEF EveryMessageAccountedFor, InSeq
  <1>. QED
    BY <1>9, <1>10, <1>12, <1>13, <1>14, <1>17, <1>18, <1>19

\* A batch of white space leaves the buffer and nothing else.
LEMMA FlushBlankKeepsStack ==
    ASSUME StackInv, NEW u \in Users, FlushBlank(u)
    PROVE  StackInv'
  <1>. USE DEF StackInv
  <1>1. /\ InSeq(buffer[u]) \subseteq Blank[u]
        /\ buffer' = [buffer EXCEPT ![u] = <<>>]
        /\ lru' = Without(lru, u)
        /\ UNCHANGED <<written, task, batch, lock, lockq, slots, semq, spend, newDay,
                       alerted, handled, lost>>
    BY DEF FlushBlank, JoinsToNothing, turns, money
  <1>2. /\ buffer' \in [Users -> Seq(Ids)]
        /\ buffer'[u] = <<>>
        /\ \A v \in Users : v # u => buffer'[v] = buffer[v]
    BY <1>1 DEF KindInv
  <1>3. /\ lru' \in Seq(Users) /\ Distinct(lru') /\ InSeq(lru') = InSeq(lru) \ {u}
        /\ Len(lru') = IF u \in InSeq(lru) THEN Len(lru) - 1 ELSE Len(lru)
    BY <1>1, WithoutTakesOut DEF KindInv, LruInv
  <1>4. KindInv'
    BY <1>1, <1>2, <1>3 DEF KindInv
  <1>5. LruInv'
    <2>1. Len(lru') <= MaxBuffers
      BY <1>3, LenProperties, DispatcherAssumption DEF KindInv, LruInv
    <2>2. \A v \in Users : v \in InSeq(lru') <=> buffer'[v] # <<>>
      BY <1>2, <1>3 DEF LruInv
    <2>. QED
      BY <1>3, <2>1, <2>2 DEF LruInv, InSeq
  <1>6. LockInv' /\ SemInv'
    BY <1>1 DEF LockInv, SemInv, Working, Increasing, Distinct, InSeq
  <1>7. ASSUME NEW v \in Users
        PROVE  /\ Flushed(v) \in Nat /\ Flushed(v)' \in Nat /\ Flushed(v) <= Flushed(v)'
               /\ \A i \in DOMAIN buffer'[v] : buffer'[v][i] = Flushed(v)' + i
    <2>1. RunsOf(v)
      BY DEF RunInv
    <2>2. CASE v = u
      <3>1. Flushed(u)' = written[u]
        <4>1. Len(<<>>) = 0
          OBVIOUS
        <4>. QED
          BY <1>1, <1>2, <4>1, Numbers DEF Flushed
      <3>. QED
        BY <1>2, <2>1, <2>2, <3>1, Numbers DEF RunsOf
    <2>3. CASE v # u
      <3>1. Flushed(v)' = Flushed(v) /\ buffer'[v] = buffer[v]
        BY <1>1, <1>2, <2>3 DEF Flushed
      <3>. QED
        BY <2>1, <3>1, Numbers DEF RunsOf
    <2>. QED
      BY <2>2, <2>3
  <1>8. RunInv'
    <2>. SUFFICES ASSUME NEW v \in Users
                  PROVE  RunsOf(v)'
      BY DEF RunInv
    <2>0. RunsOf(v)
      BY DEF RunInv
    <2>1. Flushed(v)' >= 0 /\ \A i \in DOMAIN buffer'[v] : buffer'[v][i] = Flushed(v)' + i
      BY <1>7
    <2>2. Increasing(handled[v])'
      BY <1>1, <2>0 DEF RunsOf, Increasing
    <2>3. \A k \in Ids : Through(v, k)' = Through(v, k)
      BY <1>1 DEF Through
    <2>4. /\ \A i \in DOMAIN handled[v] : handled[v][i] \in Int
          /\ \A k \in Ids : k \in Int /\ Through(v, k) \in Int
      <3>1. \A i \in DOMAIN handled[v] : handled[v][i] \in Ids
        BY Numbers
      <3>. QED
        BY <3>1, Numbers
    <2>5. \A i \in DOMAIN handled'[v] : handled'[v][i] <= Flushed(v)'
      BY <1>1, <1>7, <2>0, <2>4 DEF RunsOf
    <2>6. \A k \in Ids : task'[v][k] # "none" => k <= Flushed(v)'
      BY <1>1, <1>7, <2>0, <2>4 DEF RunsOf
    <2>7. ASSUME NEW k \in Ids, task'[v][k] = "lock"
          PROVE  /\ batch'[v][k] # <<>> /\ Through(v, k)' <= Flushed(v)'
                 /\ \A i \in DOMAIN batch'[v][k] : batch'[v][k][i] = k + i - 1
                 /\ \A i \in DOMAIN handled'[v] : handled'[v][i] < k
                 /\ \A j \in Ids : task'[v][j] = "lock" /\ j < k => Through(v, j)' < k
      <3>1. Through(v, k) <= Flushed(v)
        BY <1>1, <2>0, <2>7 DEF RunsOf
      <3>2. Through(v, k)' <= Flushed(v)'
        BY <1>7, <2>3, <2>4, <3>1
      <3>. QED
        BY <1>1, <2>0, <2>3, <2>7, <3>2 DEF RunsOf
    <2>. QED
      BY <2>1, <2>2, <2>5, <2>6, <2>7 DEF RunsOf
  <1>9. EveryMessageAccountedFor'
    <2>. SUFFICES ASSUME NEW v \in Users
                  PROVE  1..written[v] \ Blank[v]
                             \subseteq InSeq(handled[v]) \cup Pending(v)' \cup lost[v]
      BY <1>1 DEF EveryMessageAccountedFor, InSeq
    <2>1. 1..written[v] \ Blank[v] \subseteq InSeq(handled[v]) \cup Pending(v) \cup lost[v]
      BY DEF EveryMessageAccountedFor
    <2>2. Pending(v) \subseteq Pending(v)' \cup InSeq(buffer[v])
      BY <1>1 DEF Pending, InSeq
    <2>3. v # u => Pending(v)' = Pending(v)
      BY <1>1, <1>2 DEF Pending, InSeq
    <2>. QED
      BY <1>1, <2>1, <2>2, <2>3
  <1>10. BudgetInv' /\ SlotsAreConserved' /\ OperatorsWereTold'
    BY <1>1, MoneyKept
  <1>. QED
    BY <1>4, <1>5, <1>6, <1>8, <1>9, <1>10

\* The oldest waiting task holds the oldest waiting messages.
LEMMA OldestWaiter ==
    ASSUME StackInv, NEW u \in Users, lockq[u] # <<>>, NEW k, k = Head(lockq[u])
    PROVE  /\ k \in Ids /\ task[u][k] = "lock"
           /\ \A j \in Ids : task[u][j] = "lock" /\ j # k => k < j /\ Through(u, k) < j
           /\ batch[u][k] \in Seq(Ids) /\ Len(batch[u][k]) \in Nat \ {0}
           /\ DOMAIN batch[u][k] = 1..Len(batch[u][k])
           /\ \A i \in DOMAIN batch[u][k] : batch[u][k][i] = k + i - 1
           /\ k <= Through(u, k) /\ Through(u, k) <= Flushed(u) /\ Through(u, k) \in Nat
           /\ InSeq(batch[u][k]) = k..Through(u, k)
  <1>. USE DEF StackInv
  <1>1. /\ lockq[u] \in Seq(Ids) /\ DOMAIN lockq[u] = 1..Len(lockq[u]) /\ Len(lockq[u]) \in Nat \ {0}
        /\ k = lockq[u][1] /\ 1 \in DOMAIN lockq[u]
    BY DEF KindInv
  <1>2. k \in Ids /\ k \in InSeq(lockq[u])
    BY <1>1 DEF InSeq
  <1>3. task[u][k] = "lock"
    BY <1>2 DEF LockInv
  <1>4. ASSUME NEW j \in Ids, task[u][j] = "lock", j # k
        PROVE  k < j
    <2>1. PICK i \in DOMAIN lockq[u] : lockq[u][i] = j
      BY <1>4 DEF LockInv, InSeq
    <2>2. i # 1 /\ 1 < i
      BY <1>1, <1>4, <2>1
    <2>. QED
      BY <1>1, <2>1, <2>2 DEF LockInv, Increasing
  <1>5. \A j \in Ids : task[u][j] = "lock" /\ j # k => Through(u, k) < j
    BY <1>2, <1>3, <1>4 DEF RunInv, RunsOf
  <1>6. /\ batch[u][k] # <<>> /\ Through(u, k) <= Flushed(u)
        /\ \A i \in DOMAIN batch[u][k] : batch[u][k][i] = k + i - 1
    BY <1>2, <1>3 DEF RunInv, RunsOf
  <1>7. batch[u][k] \in Seq(Ids)
    BY <1>2, Numbers
  <1>8. Len(batch[u][k]) \in Nat \ {0} /\ DOMAIN batch[u][k] = 1..Len(batch[u][k])
    BY <1>6, <1>7, EmptySeq
  <1>9. k \in Nat \ {0} /\ Through(u, k) = k + Len(batch[u][k]) - 1
    BY <1>2, Numbers
  <1>10. k <= Through(u, k) /\ Through(u, k) \in Nat
    BY <1>8, <1>9
  <1>11. InSeq(batch[u][k]) = k..Through(u, k)
    <2>1. ASSUME NEW i \in DOMAIN batch[u][k]
          PROVE  batch[u][k][i] \in k..Through(u, k)
      <3>1. \A n, a \in Nat : \A e \in 1..n : a + e - 1 \in a..(a + n - 1)
        OBVIOUS
      <3>2. i \in 1..Len(batch[u][k])
        BY <1>8
      <3>3. k + i - 1 \in k..(k + Len(batch[u][k]) - 1)
        BY <1>8, <1>9, <3>1, <3>2
      <3>. QED
        BY <1>6, <1>9, <3>3
    <2>2. ASSUME NEW m \in k..Through(u, k)
          PROVE  m \in InSeq(batch[u][k])
      <3>0. \A n, a \in Nat : \A e \in a..(a + n - 1) :
               e - a + 1 \in 1..n /\ e = a + (e - a + 1) - 1
        OBVIOUS
      <3>1. m - k + 1 \in DOMAIN batch[u][k] /\ m = k + (m - k + 1) - 1
        BY ZenonT(30), <1>8, <1>9, <3>0
      <3>2. batch[u][k][m - k + 1] = m
        BY <1>6, <3>1
      <3>. QED
        BY <3>1, <3>2 DEF InSeq
    <2>. QED
      BY <2>1, <2>2 DEF InSeq
  <1>. QED
    BY <1>2, <1>3, <1>4, <1>5, <1>6, <1>7, <1>8, <1>10, <1>11

LEMMA TakeLockKeepsStack ==
    ASSUME StackInv, NEW u \in Users, TakeLock(u)
    PROVE  StackInv'
  <1>. USE DEF StackInv
  <1>0. Head(lockq[u]) \in Ids
    BY DEF TakeLock, KindInv
  <1>. PICK k \in Ids : k = Head(lockq[u])
    BY <1>0
  <1>1. /\ lock[u] = 0 /\ lockq[u] # <<>>
        /\ lock' = [lock EXCEPT ![u] = k]
        /\ task' = [task EXCEPT ![u][k] = "gate"]
        /\ handled' = [handled EXCEPT ![u] = @ \o batch[u][k]]
        /\ lockq' = [lockq EXCEPT ![u] = Tail(@)]
        /\ UNCHANGED <<written, buffer, lru, batch, slots, semq, spend, newDay, alerted, lost>>
    BY DEF TakeLock, inbound, money
  <1>. DEFINE b == batch[u][k]
              h == handled[u]
  <1>2. /\ task[u][k] = "lock"
        /\ \A j \in Ids : task[u][j] = "lock" /\ j # k => k < j /\ Through(u, k) < j
        /\ b \in Seq(Ids) /\ Len(b) \in Nat \ {0} /\ DOMAIN b = 1..Len(b)
        /\ \A i \in DOMAIN b : b[i] = k + i - 1
        /\ k <= Through(u, k) /\ Through(u, k) <= Flushed(u) /\ Through(u, k) \in Nat
        /\ InSeq(b) = k..Through(u, k)
    BY <1>1, OldestWaiter
  <1>3. /\ \A j \in Ids : j \in Nat \ {0}
        /\ Flushed(u) \in Int /\ h \in Seq(Ids) /\ lockq[u] \in Seq(Ids)
    BY Numbers
  <1>. HIDE DEF b, h
  <1>4. /\ task' \in [Users -> [Ids -> TaskStates]]
        /\ task'[u][k] = "gate"
        /\ \A v \in Users, j \in Ids : <<v, j>> # <<u, k>> => task'[v][j] = task[v][j]
    BY <1>1 DEF KindInv, TaskStates
  <1>5. /\ lock' \in [Users -> 0..MaxMsgs] /\ lock'[u] = k
        /\ \A v \in Users : v # u => lock'[v] = lock[v]
    <2>1. k \in 0..MaxMsgs
      BY DispatcherAssumption DEF Ids
    <2>. QED
      BY <1>1, <2>1 DEF KindInv
  <1>6. /\ Tail(lockq[u]) \in Seq(Ids)
        /\ Len(Tail(lockq[u])) = Len(lockq[u]) - 1 /\ Len(lockq[u]) \in Nat \ {0}
        /\ DOMAIN lockq[u] = 1..Len(lockq[u])
        /\ DOMAIN Tail(lockq[u]) = 1..(Len(lockq[u]) - 1)
        /\ \A i \in DOMAIN Tail(lockq[u]) : Tail(lockq[u])[i] = lockq[u][i + 1]
        /\ lockq[u][1] = k
    <2>1. /\ Tail(lockq[u]) \in Seq(Ids)
          /\ Len(Tail(lockq[u])) = Len(lockq[u]) - 1
          /\ \A i \in 1..Len(Tail(lockq[u])) : Tail(lockq[u])[i] = lockq[u][i + 1]
      BY <1>1, <1>3, HeadTailProperties
    <2>2. Len(lockq[u]) \in Nat \ {0} /\ DOMAIN lockq[u] = 1..Len(lockq[u]) /\ lockq[u][1] = k
      BY <1>1, <1>3
    <2>3. DOMAIN Tail(lockq[u]) = 1..(Len(lockq[u]) - 1)
      BY <2>1
    <2>. QED
      BY <2>1, <2>2, <2>3
  <1>7. /\ lockq' \in [Users -> Seq(Ids)]
        /\ lockq'[u] = Tail(lockq[u])
        /\ \A v \in Users : v # u => lockq'[v] = lockq[v]
    BY <1>1, <1>6 DEF KindInv
  <1>8. /\ h \o b \in Seq(Ids)
        /\ Len(h) \in Nat /\ DOMAIN h = 1..Len(h)
        /\ DOMAIN (h \o b) = 1..(Len(h) + Len(b))
        /\ \A i \in DOMAIN h : (h \o b)[i] = h[i]
        /\ \A i \in (Len(h) + 1)..(Len(h) + Len(b)) :
              i - Len(h) \in DOMAIN b /\ (h \o b)[i] = b[i - Len(h)]
    <2>1. /\ h \o b \in Seq(Ids)
          /\ Len(h \o b) = Len(h) + Len(b)
          /\ \A i \in 1..(Len(h) + Len(b)) :
                (h \o b)[i] = IF i <= Len(h) THEN h[i] ELSE b[i - Len(h)]
      BY <1>2, <1>3, ConcatProperties
    <2>2. Len(h) \in Nat /\ DOMAIN h = 1..Len(h)
      BY <1>3
    <2>3. DOMAIN (h \o b) = 1..(Len(h) + Len(b))
      BY <2>1
    <2>. DEFINE c == h \o b
    <2>. HIDE DEF c
    <2>4. \A i \in DOMAIN h : c[i] = h[i]
      BY <1>2, <2>1, <2>2 DEF c
    <2>5. \A i \in (Len(h) + 1)..(Len(h) + Len(b)) :
              i - Len(h) \in DOMAIN b /\ c[i] = b[i - Len(h)]
      BY <1>2, <2>1, <2>2 DEF c
    <2>. QED
      BY <2>1, <2>2, <2>3, <2>4, <2>5 DEF c
  <1>9. /\ handled' \in [Users -> Seq(Ids)]
        /\ handled'[u] = h \o b
        /\ \A v \in Users : v # u => handled'[v] = handled[v]
    BY <1>1, <1>8 DEF KindInv, h, b
  <1>10. KindInv'
    BY <1>1, <1>4, <1>5, <1>7, <1>9 DEF KindInv
  <1>11. LruInv'
    BY <1>1 DEF LruInv, Distinct, InSeq
  <1>12. LockInv'
    <2>1. ASSUME NEW v \in Users, NEW j \in Ids
          PROVE  Working(v, j)' <=> lock'[v] = j
      <3>1. Working(v, j) <=> lock[v] = j
        BY DEF LockInv
      <3>2. CASE v = u /\ j = k
        BY <1>4, <1>5, <3>2 DEF Working
      <3>3. CASE v = u /\ j # k
        BY <1>1, <1>3, <1>4, <1>5, <3>1, <3>3 DEF Working
      <3>4. CASE v # u
        BY <1>4, <1>5, <3>1, <3>4 DEF Working
      <3>. QED
        BY <3>2, <3>3, <3>4
    <2>2. /\ \A i \in DOMAIN Tail(lockq[u]) : i + 1 \in DOMAIN lockq[u] /\ i + 1 # 1
          /\ \A i \in DOMAIN lockq[u] : i # 1 => i - 1 \in DOMAIN Tail(lockq[u]) /\ (i - 1) + 1 = i
      BY <1>6
    <2>3. \A i, j \in DOMAIN lockq[u] : i < j => lockq[u][i] < lockq[u][j]
      BY DEF LockInv, Increasing
    <2>4. InSeq(Tail(lockq[u])) = InSeq(lockq[u]) \ {k}
      <3>1. ASSUME NEW i \in DOMAIN Tail(lockq[u])
            PROVE  Tail(lockq[u])[i] \in InSeq(lockq[u]) \ {k}
        <4>1. 1 \in DOMAIN lockq[u] /\ i + 1 \in DOMAIN lockq[u] /\ 1 < i + 1
          BY <1>6
        <4>2. k < lockq[u][i + 1] /\ lockq[u][i + 1] \in Ids
          <5>1. lockq[u][i + 1] \in Ids
            BY <1>3, <4>1
          <5>2. lockq[u][1] < lockq[u][i + 1]
            BY <2>3, <4>1
          <5>. QED
            BY <1>6, <5>1, <5>2
        <4>. QED
          BY SMTT(30), <1>3, <1>6, <4>1, <4>2 DEF InSeq
      <3>2. ASSUME NEW j \in InSeq(lockq[u]), j # k
            PROVE  j \in InSeq(Tail(lockq[u]))
        <4>1. PICK i \in DOMAIN lockq[u] : lockq[u][i] = j
          BY DEF InSeq
        <4>2. i # 1
          BY <1>6, <3>2, <4>1
        <4>3. Tail(lockq[u])[i - 1] = j
          BY <1>6, <2>2, <4>1, <4>2
        <4>. QED
          BY <2>2, <4>2, <4>3 DEF InSeq
      <3>. QED
        BY <3>1, <3>2 DEF InSeq
    <2>5. ASSUME NEW v \in Users, NEW j \in Ids
          PROVE  task'[v][j] = "lock" <=> j \in InSeq(lockq'[v])
      <3>1. task[v][j] = "lock" <=> j \in InSeq(lockq[v])
        BY DEF LockInv
      <3>. QED
        BY <1>4, <1>7, <2>4, <3>1
    <2>6. ASSUME NEW v \in Users
          PROVE  Increasing(lockq'[v])
      <3>1. CASE v # u
        BY <1>7, <3>1 DEF LockInv, Increasing
      <3>2. CASE v = u
        <4>. SUFFICES ASSUME NEW i \in DOMAIN Tail(lockq[u]), NEW j \in DOMAIN Tail(lockq[u]), i < j
                      PROVE  Tail(lockq[u])[i] < Tail(lockq[u])[j]
          BY <1>7, <3>2 DEF Increasing
        <4>1. i + 1 \in DOMAIN lockq[u] /\ j + 1 \in DOMAIN lockq[u] /\ i + 1 < j + 1
          BY <1>6
        <4>2. lockq[u][i + 1] < lockq[u][j + 1]
          BY <2>3, <4>1
        <4>. QED
          BY <1>6, <4>2
      <3>. QED
        BY <3>1, <3>2
    <2>7. \A v \in Users : InSeq(lockq[v])' = InSeq(lockq'[v]) /\ Increasing(lockq[v])' = Increasing(lockq'[v])
      BY DEF InSeq, Increasing
    <2>. QED
      BY <2>1, <2>5, <2>6, <2>7 DEF LockInv
  <1>13. SemInv'
    BY <1>1, <1>2, <1>4, QueueKept
  <1>14. BudgetInv' /\ SlotsAreConserved' /\ OperatorsWereTold'
    BY <1>1, <1>2, <1>4, MoneyKept
  <1>15. /\ \A v \in Users : Flushed(v)' = Flushed(v)
         /\ \A v \in Users, j \in Ids : Through(v, j)' = Through(v, j)
    BY <1>1 DEF Flushed, Through
  <1>16. RunInv'
    <2>. SUFFICES ASSUME NEW v \in Users
                  PROVE  RunsOf(v)'
      BY DEF RunInv
    <2>0. RunsOf(v)
      BY DEF RunInv
    <2>1. CASE v # u
      <3>1. /\ buffer'[v] = buffer[v] /\ batch'[v] = batch[v]
            /\ handled'[v] = handled[v] /\ task'[v] = task[v]
        BY <1>1, <2>1 DEF KindInv
      <3>. QED
        BY <1>15, <2>0, <3>1 DEF RunsOf, Increasing
    <2>2. CASE v = u
      <3>1. /\ Flushed(u)' >= 0
            /\ \A i \in DOMAIN buffer'[u] : buffer'[u][i] = Flushed(u)' + i
        BY <1>1, <1>15, <2>0, <2>2 DEF RunsOf
      <3>2. \A j \in Ids : /\ task'[u][j] # "none" => task[u][j] # "none"
                           /\ task'[u][j] = "lock" => task[u][j] = "lock" /\ j # k
        BY <1>2, <1>4
      <3>3. \A j \in Ids : task'[u][j] # "none" => j <= Flushed(u)'
        BY <1>15, <2>0, <2>2, <3>2 DEF RunsOf
      <3>4. \A i \in DOMAIN h : h[i] \in Ids /\ h[i] < k /\ h[i] <= Flushed(u)
        <4>1. \A i \in DOMAIN h : h[i] \in Ids
          BY <1>3
        <4>. QED
          BY <1>2, <2>0, <2>2, <4>1 DEF RunsOf, h
      <3>5. ASSUME NEW i \in DOMAIN b
            PROVE  b[i] \in Ids /\ k <= b[i] /\ b[i] <= Through(u, k)
        <4>1. b[i] \in Ids /\ b[i] \in InSeq(b)
          BY <1>2 DEF InSeq
        <4>. QED
          BY <1>2, <1>3, <4>1
      <3>6. \A i \in DOMAIN (h \o b) :
               \/ i \in DOMAIN h /\ (h \o b)[i] = h[i]
               \/ i \notin DOMAIN h /\ i - Len(h) \in DOMAIN b /\ (h \o b)[i] = b[i - Len(h)]
        BY <1>2, <1>8
      <3>7. \A i \in DOMAIN (h \o b) : (h \o b)[i] \in Ids /\ (h \o b)[i] <= Flushed(u)
        <4>1. \A i \in DOMAIN b : b[i] <= Flushed(u)
          BY <1>2, <1>3, <3>5
        <4>. QED
          BY <3>4, <3>5, <3>6, <4>1
      <3>8. \A i, j \in DOMAIN (h \o b) : i < j => (h \o b)[i] < (h \o b)[j]
        <4>. SUFFICES ASSUME NEW i \in DOMAIN (h \o b), NEW j \in DOMAIN (h \o b), i < j
                      PROVE  (h \o b)[i] < (h \o b)[j]
          OBVIOUS
        <4>0. i \in Nat /\ j \in Nat /\ (j \in DOMAIN h => i \in DOMAIN h)
          BY <1>2, <1>8
        <4>1. CASE j \in DOMAIN h
          <5>1. \A n, m \in DOMAIN h : n < m => h[n] < h[m]
            BY <2>0, <2>2 DEF RunsOf, Increasing, h
          <5>. QED
            BY <1>8, <4>0, <4>1, <5>1
        <4>2. CASE i \in DOMAIN h /\ j \notin DOMAIN h
          <5>1. /\ (h \o b)[i] = h[i] /\ h[i] < k /\ h[i] \in Nat
                /\ (h \o b)[j] = b[j - Len(h)]
                /\ k <= b[j - Len(h)] /\ b[j - Len(h)] \in Nat
            BY <1>3, <3>4, <3>5, <3>6, <4>2
          <5>. QED
            BY SMTT(30), <1>3, <5>1
        <4>3. CASE i \notin DOMAIN h /\ j \notin DOMAIN h
          <5>1. /\ i - Len(h) \in DOMAIN b /\ (h \o b)[i] = b[i - Len(h)]
                /\ j - Len(h) \in DOMAIN b /\ (h \o b)[j] = b[j - Len(h)]
            BY <3>6, <4>3
          <5>2. /\ b[i - Len(h)] = k + (i - Len(h)) - 1
                /\ b[j - Len(h)] = k + (j - Len(h)) - 1
            BY <1>2, <5>1
          <5>. QED
            <6>1. k + (i - Len(h)) - 1 < k + (j - Len(h)) - 1
              BY <1>3, <1>8, <4>0
            <6>. QED
              BY <5>1, <5>2, <6>1
        <4>. QED
          BY <4>0, <4>1, <4>2, <4>3
      <3>9. \A j \in Ids : task'[u][j] = "lock" =>
               \A i \in DOMAIN (h \o b) : (h \o b)[i] < j
        <4>. SUFFICES ASSUME NEW j \in Ids, task'[u][j] = "lock", NEW i \in DOMAIN (h \o b)
                      PROVE  (h \o b)[i] < j
          OBVIOUS
        <4>1. k < j /\ Through(u, k) < j
          BY <1>2, <3>2
        <4>2. \A n \in Int : n < k \/ n <= Through(u, k) => n < j
          BY <1>2, <1>3, <4>1
        <4>. QED
          BY <1>3, <3>4, <3>5, <3>6, <4>2
      <3>10. \A j \in Ids : task'[u][j] = "lock" =>
               /\ batch'[u][j] # <<>> /\ Through(u, j)' <= Flushed(u)'
               /\ \A i \in DOMAIN batch'[u][j] : batch'[u][j][i] = j + i - 1
               /\ \A l \in Ids : task'[u][l] = "lock" /\ l < j => Through(u, l)' < j
        BY <1>1, <1>15, <2>0, <2>2, <3>2 DEF RunsOf
      <3>11. Increasing(handled[u])'
        BY <1>9, <3>8 DEF Increasing
      <3>. QED
        BY <1>9, <1>15, <2>2, <3>1, <3>3, <3>7, <3>9, <3>10, <3>11 DEF RunsOf
    <2>. QED
      BY <2>1, <2>2
  <1>17. EveryMessageAccountedFor'
    <2>1. \A v \in Users : InSeq(handled[v])' = InSeq(handled'[v])
      BY DEF InSeq
    <2>2. ASSUME NEW v \in Users
          PROVE  InSeq(handled'[v]) \cup Pending(v)' = InSeq(handled[v]) \cup Pending(v)
      <3>1. CASE v # u
        <4>1. /\ buffer'[v] = buffer[v] /\ batch'[v] = batch[v]
              /\ handled'[v] = handled[v] /\ task'[v] = task[v]
          BY <1>1, <3>1 DEF KindInv
        <4>. QED
          BY <4>1 DEF Pending, InSeq
      <3>2. CASE v = u
        <4>1. InSeq(handled'[u]) = InSeq(handled[u]) \cup InSeq(b)
          <5>1. ASSUME NEW i \in DOMAIN (h \o b)
                PROVE  (h \o b)[i] \in InSeq(h) \cup InSeq(b)
            BY <1>2, <1>8 DEF InSeq
          <5>2. ASSUME NEW i \in DOMAIN h
                PROVE  h[i] \in InSeq(h \o b)
            <6>1. i \in DOMAIN (h \o b)
              BY <1>2, <1>8
            <6>. QED
              BY <1>8, <6>1 DEF InSeq
          <5>3. ASSUME NEW i \in DOMAIN b
                PROVE  b[i] \in InSeq(h \o b)
            <6>1. /\ Len(h) + i \in (Len(h) + 1)..(Len(h) + Len(b))
                  /\ Len(h) + i \in DOMAIN (h \o b) /\ (Len(h) + i) - Len(h) = i
              BY <1>2, <1>8
            <6>2. (h \o b)[Len(h) + i] = b[i]
              BY <1>8, <6>1
            <6>. QED
              BY <6>1, <6>2 DEF InSeq
          <5>4. InSeq(h \o b) = InSeq(h) \cup InSeq(b)
            BY <5>1, <5>2, <5>3 DEF InSeq
          <5>. QED
            BY <1>9, <5>4 DEF h
        <4>. DEFINE W == {j \in Ids : task[u][j] = "lock"}
        <4>2. {j \in Ids : task'[u][j] = "lock"} = W \ {k} /\ k \in W
          BY <1>2, <1>4
        <4>3. Pending(u) = InSeq(buffer[u]) \cup UNION {InSeq(batch[u][j]) : j \in W}
          BY DEF Pending
        <4>4. Pending(u)' = InSeq(buffer[u]) \cup UNION {InSeq(batch[u][j]) : j \in W \ {k}}
          BY <1>1, <4>2 DEF Pending, InSeq
        <4>. HIDE DEF W
        <4>5. UNION {InSeq(batch[u][j]) : j \in W}
                = InSeq(b) \cup UNION {InSeq(batch[u][j]) : j \in W \ {k}}
          BY <4>2 DEF b
        <4>. QED
          BY <3>2, <4>1, <4>3, <4>4, <4>5
      <3>. QED
        BY <3>1, <3>2
    <2>3. ASSUME NEW v \in Users
          PROVE  1..written'[v] \ Blank[v]
                     \subseteq InSeq(handled'[v]) \cup Pending(v)' \cup lost'[v]
      <3>1. 1..written[v] \ Blank[v] \subseteq InSeq(handled[v]) \cup Pending(v) \cup lost[v]
        BY DEF EveryMessageAccountedFor
      <3>. QED
        BY <1>1, <2>2, <3>1
    <2>. QED
      BY <2>1, <2>3 DEF EveryMessageAccountedFor
  <1>. QED
    BY <1>10, <1>11, <1>12, <1>13, <1>14, <1>16, <1>17

-----------------------------------------------------------------------------
(* The invariant is inductive *)

LEMMA DayPassesKeepsStack ==
    ASSUME StackInv, DayPasses
    PROVE  StackInv'
  <1>. USE DEF StackInv
  <1>1. /\ newDay' = TRUE
        /\ UNCHANGED <<written, buffer, lru, task, batch, lock, lockq, slots, semq, spend,
                       alerted, handled, lost>>
    BY DEF DayPasses, inbound, turns
  <1>2. KindInv'
    BY <1>1 DEF KindInv
  <1>3. LruInv' /\ LockInv' /\ SemInv'
    BY <1>1 DEF LruInv, LockInv, SemInv, Distinct, Increasing, InSeq, Working
  <1>4. RunInv' /\ EveryMessageAccountedFor'
    BY <1>1, RunsKept
  <1>5. BudgetInv' /\ SlotsAreConserved' /\ OperatorsWereTold'
    BY <1>1, MoneyKept
  <1>. QED
    BY <1>2, <1>3, <1>4, <1>5

LEMMA CrashKeepsStack ==
    ASSUME StackInv, Crash
    PROVE  StackInv'
  <1>. USE DEF StackInv
  <1>1. /\ lost' = [u \in Users |-> lost[u] \cup Pending(u)]
        /\ buffer' = [u \in Users |-> <<>>] /\ lru' = <<>>
        /\ task' = [u \in Users |-> [k \in Ids |-> "none"]]
        /\ batch' = [u \in Users |-> [k \in Ids |-> <<>>]]
        /\ lock' = [u \in Users |-> 0] /\ lockq' = [u \in Users |-> <<>>]
        /\ slots' = MaxConcurrent /\ semq' = <<>>
        /\ spend' = 0 /\ newDay' = FALSE /\ alerted' = FALSE
        /\ UNCHANGED <<written, handled>>
    BY DEF Crash
  <1>2. \A u \in Users : Pending(u) \in SUBSET Ids
    <2>1. \A s \in Seq(Ids) : InSeq(s) \in SUBSET Ids
      BY DEF InSeq
    <2>. QED
      BY <2>1, Numbers DEF Pending
  <1>3. KindInv'
    <2>1. lock' \in [Users -> 0..MaxMsgs] /\ slots' \in Nat /\ spend' \in Nat
      BY <1>1, DispatcherAssumption
    <2>2. <<>> \in Seq(Ids) /\ <<>> \in Seq(Users) /\ <<>> \in Seq(Users \X Ids)
      OBVIOUS
    <2>3. task' \in [Users -> [Ids -> TaskStates]]
      BY <1>1 DEF TaskStates
    <2>4. /\ buffer' \in [Users -> Seq(Ids)] /\ lockq' \in [Users -> Seq(Ids)]
          /\ batch' \in [Users -> [Ids -> Seq(Ids)]]
          /\ lru' \in Seq(Users) /\ semq' \in Seq(Users \X Ids)
      BY <1>1, <2>2
    <2>5. lost' \in [Users -> SUBSET Ids]
      <3>1. \A u \in Users : lost[u] \in SUBSET Ids
        BY DEF KindInv
      <3>. QED
        BY <1>1, <1>2, <3>1
    <2>. QED
      BY <1>1, <2>1, <2>3, <2>4, <2>5 DEF KindInv
  <1>4. LruInv' /\ LockInv' /\ SemInv'
    BY <1>1, DispatcherAssumption DEF LruInv, LockInv, SemInv, InSeq, Distinct, Increasing, Working, Ids
  <1>5. \A u \in Users : Flushed(u)' = written[u] /\ written[u] \in Nat /\ Flushed(u) <= written[u]
    <2>1. Len(<<>>) = 0
      OBVIOUS
    <2>2. \A u \in Users : Flushed(u)' = written[u]
      BY <1>1, <2>1, Numbers DEF Flushed
    <2>. QED
      BY <2>2, Numbers
  <1>6. RunInv'
    <2>. SUFFICES ASSUME NEW u \in Users
                  PROVE  RunsOf(u)'
      BY DEF RunInv
    <2>1. /\ Flushed(u)' >= 0 /\ buffer'[u] = <<>>
          /\ \A k \in Ids : task'[u][k] = "none"
      BY <1>1, <1>5
    <2>2. Increasing(handled[u])'
      BY <1>1 DEF RunInv, RunsOf, Increasing
    <2>3. \A i \in DOMAIN handled'[u] : handled'[u][i] <= Flushed(u)'
      <3>1. \A i \in DOMAIN handled[u] : handled[u][i] \in Ids /\ handled[u][i] <= Flushed(u)
        BY Numbers DEF RunInv, RunsOf
      <3>. QED
        <4>1. Flushed(u) \in Int /\ \A k \in Ids : k \in Nat
          BY Numbers
        <4>2. \A k \in Ids : k <= Flushed(u) => k <= Flushed(u)'
          BY <1>5, <4>1
        <4>. QED
          BY <1>1, <3>1, <4>2
    <2>. QED
      BY <2>1, <2>2, <2>3 DEF RunsOf
  <1>7. \A u \in Users : Pending(u)' = {}
    BY <1>1 DEF Pending, InSeq
  <1>8. EveryMessageAccountedFor'
    <2>1. \A u \in Users :
             1..written[u] \ Blank[u] \subseteq InSeq(handled[u]) \cup Pending(u) \cup lost[u]
      BY DEF EveryMessageAccountedFor
    <2>2. \A u \in Users : InSeq(handled[u])' = InSeq(handled[u])
      BY <1>1 DEF InSeq
    <2>. QED
      BY <1>1, <1>7, <2>1, <2>2 DEF EveryMessageAccountedFor
  <1>9. InGraph' = {} /\ Committed' = {}
    BY <1>1 DEF InGraph, Committed
  <1>10. Cardinality({}) = 0 /\ TurnCost * 0 = 0 /\ TurnCost * Cardinality(Users) \in Nat
    BY FS_EmptySet, CommittedAreFew, DispatcherAssumption
  <1>11. BudgetInv' /\ SlotsAreConserved'
    BY <1>1, <1>9, <1>10, DispatcherAssumption DEF BudgetInv, SlotsAreConserved
  <1>12. OperatorsWereTold'
    BY <1>1, DispatcherAssumption DEF OperatorsWereTold, budget_exceeded
  <1>. QED
    BY <1>3, <1>4, <1>6, <1>8, <1>11, <1>12

LEMMA NextKeepsStack == StackInv /\ [Next]_vars => StackInv'
  <1>. SUFFICES ASSUME StackInv, [Next]_vars
                PROVE  StackInv'
    OBVIOUS
  <1>1. ASSUME NEW u \in Users, Add(u)
        PROVE  StackInv'
    BY <1>1, AddKeepsStack
  <1>2. ASSUME NEW u \in Users, Flush(u) \/ FlushBlank(u)
        PROVE  StackInv'
    BY <1>2, FlushKeepsStack, FlushBlankKeepsStack
  <1>3. ASSUME NEW u \in Users, TakeLock(u)
        PROVE  StackInv'
    BY <1>3, TakeLockKeepsStack
  <1>4. ASSUME NEW u \in Users, NEW k \in Ids, GateStops(u, k) \/ Sent(u, k)
        PROVE  StackInv'
    <2>1. /\ task[u][k] \in {"gate", "send", "degrade"} /\ Return(u, k)
          /\ UNCHANGED <<inbound, lockq, slots, semq, money, handled, lost>>
      BY <1>4 DEF GateStops, Sent
    <2>. QED
      BY <2>1, EndKeepsStack
  <1>5. ASSUME NEW u \in Users, NEW k \in Ids, GatePasses(u, k)
        PROVE  StackInv'
    BY <1>5, GatePassesKeepsStack
  <1>6. ASSUME NEW u \in Users, NEW k \in Ids, Degrade(u, k)
        PROVE  StackInv'
    BY <1>6, DegradeKeepsStack
  <1>7. ASSUME NEW u \in Users, NEW k \in Ids, GraphReturns(u, k)
        PROVE  StackInv'
    BY <1>7, GraphReturnsKeepsStack
  <1>8. CASE TakeSlot
    BY <1>8, TakeSlotKeepsStack
  <1>9. CASE DayPasses
    BY <1>9, DayPassesKeepsStack
  <1>10. CASE Crash
    BY <1>10, CrashKeepsStack
  <1>11. CASE UNCHANGED vars
    <2>. USE DEF StackInv
    <2>1. UNCHANGED <<written, buffer, lru, task, batch, lock, lockq, slots, semq, spend,
                      newDay, alerted, handled, lost>>
      BY <1>11 DEF vars, inbound, turns, money
    <2>2. KindInv'
      BY <2>1 DEF KindInv
    <2>3. LruInv' /\ LockInv' /\ SemInv'
      BY <2>1 DEF LruInv, LockInv, SemInv, Distinct, Increasing, InSeq, Working
    <2>4. RunInv' /\ EveryMessageAccountedFor'
      BY <2>1, RunsKept
    <2>5. BudgetInv' /\ SlotsAreConserved' /\ OperatorsWereTold'
      BY <2>1, MoneyKept
    <2>. QED
      BY <2>2, <2>3, <2>4, <2>5
  <1>. QED
    BY <1>1, <1>2, <1>3, <1>4, <1>5, <1>6, <1>7, <1>8, <1>9, <1>10, <1>11 DEF Next, TaskStep

\* Everything above holds in every reachable state.
THEOREM StackInvHolds == Spec => []StackInv
  <1>. QED
    BY InitStack, NextKeepsStack, PTL DEF Spec

-----------------------------------------------------------------------------
(* The properties *)

\* The variables keep their types, the table of buffers its bound and the
\* semaphore its range.
THEOREM TypeCorrect == Spec => []TypeOK
  <1>1. StackInv => TypeOK
    <2>. SUFFICES ASSUME StackInv
                  PROVE  TypeOK
      OBVIOUS
    <2>1. slots \in 0..MaxConcurrent
      BY GraphTurns, DispatcherAssumption DEF StackInv, KindInv, SlotsAreConserved
    <2>. QED
      BY <2>1 DEF StackInv, KindInv, LruInv, TypeOK
  <1>. QED
    BY <1>1, StackInvHolds, PTL

\* The thread's lock keeps two tasks of a customer from running at the same time.
THEOREM OneAtATime == Spec => []SingleFlight
  <1>1. StackInv => SingleFlight
    BY DEF StackInv, LockInv, SingleFlight
  <1>. QED
    BY <1>1, StackInvHolds, PTL

\* Every path through _handle gives back the slot it took, and no other.
THEOREM NoSlotLeaks == Spec => []SlotsAreConserved
  <1>1. StackInv => SlotsAreConserved
    BY DEF StackInv
  <1>. QED
    BY <1>1, StackInvHolds, PTL

\* Messages are handled in the order they were written, each at most once.
THEOREM OrderIsKept == Spec => []HandledInOrder
  <1>1. StackInv => HandledInOrder
    BY DEF StackInv, RunInv, RunsOf, Increasing, HandledInOrder
  <1>. QED
    BY <1>1, StackInvHolds, PTL

\* Every accepted message that is not white space was handled, waits, or was
\* dropped by an eviction or a crash.
THEOREM NoMessageVanishes == Spec => []EveryMessageAccountedFor
  <1>1. StackInv => EveryMessageAccountedFor
    BY DEF StackInv
  <1>. QED
    BY <1>1, StackInvHolds, PTL

\* The budget is overrun by no more than one turn of each customer.
THEOREM OverrunIsBounded == Spec => []OverspendIsBounded
  <1>1. StackInv => OverspendIsBounded
    <2>. SUFFICES ASSUME StackInv, DailyBudget # 0
                  PROVE  spend < DailyBudget + TurnCost * Cardinality(Users)
      BY DEF OverspendIsBounded
    <2>1. Committed \in SUBSET Users
      BY DEF Committed
    <2>. DEFINE a == TurnCost * Cardinality(Committed)
                b == TurnCost * Cardinality(Users)
    <2>2. a \in Nat /\ b \in Nat
      BY <2>1, CommittedAreFew
    <2>3. spend + a < DailyBudget + b
      BY DEF StackInv, BudgetInv
    <2>. HIDE DEF a, b
    <2>4. spend < DailyBudget + b
      BY <2>2, <2>3, DispatcherAssumption DEF StackInv, KindInv
    <2>. QED
      BY <2>4 DEF b
  <1>. QED
    BY <1>1, StackInvHolds, PTL

\* Nobody is turned away for the budget before the operators were told.
THEOREM AlertPrecedesDegrade == Spec => []OperatorsWereTold
  <1>1. StackInv => OperatorsWereTold
    BY DEF StackInv
  <1>. QED
    BY <1>1, StackInvHolds, PTL

-----------------------------------------------------------------------------
(***************************************************************************)
(* The channel stack implements MessageService: what a customer has        *)
(* waiting is the inbox, the thread's lock says whether the customer is    *)
(* being served, and every step of the stack is a step of the service or   *)
(* none at all.                                                            *)
(***************************************************************************)

Inbox == [u \in Users |-> Pending(u)]
Busy == [u \in Users |-> lock[u] # 0]

\* The messages of the batches that wait for the lock.
Waiting(u) == UNION {InSeq(batch[u][k]) : k \in {j \in Ids : task[u][j] = "lock"}}

\* An empty stack is an empty service.
LEMMA InitServes == Init => Service!ServiceInit
  <1>. SUFFICES ASSUME Init
                PROVE  Service!ServiceInit
    OBVIOUS
  <1>1. \A u \in Users : Pending(u) = {}
    BY DEF Init, AllFree, Pending, InSeq
  <1>2. \A u \in Users : lock[u] = 0
    BY DEF Init, AllFree
  <1>3. Inbox = [u \in Users |-> {}] /\ Busy = [u \in Users |-> FALSE]
    BY <1>1, <1>2 DEF Inbox, Busy
  <1>. QED
    BY <1>3 DEF Init, Service!ServiceInit, Inbox, Busy

\* Waiting batches hold what has left the buffer, which holds the newer rest.
LEMMA BufferIsNewer ==
    ASSUME StackInv, NEW u \in Users
    PROVE  /\ Pending(u) = InSeq(buffer[u]) \cup Waiting(u)
           /\ Pending(u) \in SUBSET Ids
           /\ Flushed(u) \in 0..MaxMsgs
           /\ \A m \in Waiting(u) : m <= Flushed(u)
           /\ \A m \in InSeq(buffer[u]) : Flushed(u) < m
  <1>. USE DEF StackInv
  <1>1. Pending(u) = InSeq(buffer[u]) \cup Waiting(u)
    BY DEF Pending, Waiting
  <1>2. Pending(u) \in SUBSET Ids
    <2>1. \A s \in Seq(Ids) : InSeq(s) \in SUBSET Ids
      BY DEF InSeq
    <2>2. InSeq(buffer[u]) \in SUBSET Ids /\ \A k \in Ids : InSeq(batch[u][k]) \in SUBSET Ids
      BY <2>1, Numbers
    <2>. QED
      BY <2>2 DEF Pending
  <1>3. Flushed(u) \in 0..MaxMsgs
    <2>1. Flushed(u) >= 0 /\ written[u] \in 0..MaxMsgs
      BY DEF RunInv, RunsOf, KindInv
    <2>2. Flushed(u) \in Int /\ Flushed(u) <= written[u]
      BY Numbers
    <2>. QED
      BY <2>1, <2>2, DispatcherAssumption
  <1>4. ASSUME NEW m \in Waiting(u)
        PROVE  m <= Flushed(u)
    <2>1. PICK k \in Ids : task[u][k] = "lock" /\ m \in InSeq(batch[u][k])
      BY DEF Waiting
    <2>2. PICK i \in DOMAIN batch[u][k] : m = batch[u][k][i]
      BY <2>1 DEF InSeq
    <2>3. m = k + i - 1 /\ Through(u, k) <= Flushed(u)
      BY <2>1, <2>2 DEF RunInv, RunsOf
    <2>4. /\ k \in Nat /\ Len(batch[u][k]) \in Nat /\ i \in 1..Len(batch[u][k])
          /\ Through(u, k) = k + Len(batch[u][k]) - 1 /\ Flushed(u) \in Int
      BY <2>2, Numbers
    <2>. QED
      BY <2>3, <2>4
  <1>5. ASSUME NEW m \in InSeq(buffer[u])
        PROVE  Flushed(u) < m
    <2>1. PICK i \in DOMAIN buffer[u] : m = buffer[u][i]
      BY DEF InSeq
    <2>2. m = Flushed(u) + i
      BY <2>1 DEF RunInv, RunsOf
    <2>3. i \in Nat \ {0} /\ Flushed(u) \in Int
      BY <2>1, Numbers
    <2>. QED
      BY <2>2, <2>3
  <1>. QED
    BY <1>1, <1>2, <1>3, <1>4, <1>5

\* A message that joins a buffer is accepted; an eviction loses the newest
\* messages of its customer and no older one.
LEMMA AddAccepts ==
    ASSUME StackInv, NEW u \in Users, Add(u)
    PROVE  Service!Accept(u)
  <1>. USE DEF StackInv
  <1>. DEFINE order == Append(Without(lru, u), u)
              n     == IF buffer[u] = <<>> THEN Excess(order) ELSE 0
  <1>. PICK gone : gone = {order[i] : i \in 1..n}
    OBVIOUS
  <1>1. /\ written[u] < MaxMsgs
        /\ written' = [written EXCEPT ![u] = @ + 1]
        /\ buffer' = [v \in Users |->
                         IF v = u THEN Append(buffer[v], written[u] + 1)
                         ELSE IF v \in gone THEN <<>> ELSE buffer[v]]
        /\ UNCHANGED <<task, batch, lock, handled>>
    BY DEF Add, turns
  <1>. HIDE DEF n, order
  <1>2. \A v \in Users : Waiting(v)' = Waiting(v)
    BY <1>1 DEF Waiting, InSeq
  <1>3. \A v \in Users : Pending(v)' = InSeq(buffer'[v]) \cup Waiting(v)
    <2>1. \A v \in Users : Pending(v)' = InSeq(buffer'[v]) \cup Waiting(v)'
      BY DEF Pending, Waiting, InSeq
    <2>. QED
      BY <1>2, <2>1
  <1>4. InSeq(buffer'[u]) = InSeq(buffer[u]) \cup {written[u] + 1}
    <2>1. buffer[u] \in Seq(Ids) /\ written[u] + 1 \in Ids
      BY <1>1, DispatcherAssumption DEF KindInv, Ids
    <2>2. buffer'[u] = Append(buffer[u], written[u] + 1)
      BY <1>1
    <2>3. /\ DOMAIN buffer[u] = 1..Len(buffer[u]) /\ Len(buffer[u]) \in Nat
          /\ DOMAIN buffer'[u] = 1..(Len(buffer[u]) + 1)
          /\ \A i \in 1..Len(buffer[u]) : buffer'[u][i] = buffer[u][i]
          /\ buffer'[u][Len(buffer[u]) + 1] = written[u] + 1
      BY <2>1, <2>2, AppendProperties
    <2>. QED
      BY <2>3 DEF InSeq
  <1>5. Pending(u)' = Pending(u) \cup {written[u] + 1}
    BY <1>3, <1>4, BufferIsNewer
  <1>. DEFINE last == [v \in Users |-> IF v \in gone THEN Flushed(v) ELSE MaxMsgs]
  <1>6. last \in [Users -> 0..MaxMsgs]
    BY BufferIsNewer, DispatcherAssumption
  <1>7. ASSUME NEW v \in Users, v # u
        PROVE  Pending(v)' = {m \in Pending(v) : m <= last[v]}
    <2>1. CASE v \in gone
      <3>1. last[v] = Flushed(v) /\ buffer'[v] = <<>>
        BY <1>1, <1>7, <2>1
      <3>2. Pending(v)' = Waiting(v)
        <4>1. InSeq(<<>>) = {}
          BY DEF InSeq
        <4>. QED
          BY <1>3, <3>1, <4>1
      <3>3. /\ Pending(v) = InSeq(buffer[v]) \cup Waiting(v)
            /\ \A m \in Waiting(v) : m <= Flushed(v)
            /\ \A m \in InSeq(buffer[v]) : Flushed(v) < m
            /\ Pending(v) \in SUBSET Ids /\ Flushed(v) \in 0..MaxMsgs
        BY BufferIsNewer
      <3>4. \A m \in InSeq(buffer[v]) : ~(m <= Flushed(v))
        BY <3>3, DispatcherAssumption DEF Ids
      <3>. QED
        BY <3>1, <3>2, <3>3, <3>4
    <2>2. CASE v \notin gone
      <3>1. last[v] = MaxMsgs /\ buffer'[v] = buffer[v]
        BY <1>1, <1>7, <2>2
      <3>2. Pending(v)' = Pending(v)
        BY <1>3, <3>1, BufferIsNewer
      <3>3. \A m \in Pending(v) : m <= MaxMsgs
        BY BufferIsNewer, DispatcherAssumption DEF Ids
      <3>. QED
        BY <3>1, <3>2, <3>3
    <2>. QED
      BY <2>1, <2>2
  <1>. HIDE DEF last
  <1>8. Inbox' = [v \in Users |-> IF v = u THEN Inbox[v] \cup {written[u] + 1}
                                  ELSE {m \in Inbox[v] : m <= last[v]}]
    <2>1. Inbox' = [v \in Users |-> Pending(v)']
      BY DEF Inbox
    <2>2. \A v \in Users : Inbox[v] = Pending(v)
      BY DEF Inbox
    <2>3. \A v \in Users : Pending(v)' = IF v = u THEN Inbox[v] \cup {written[u] + 1}
                                         ELSE {m \in Inbox[v] : m <= last[v]}
      BY <1>5, <1>7, <2>2
    <2>. QED
      BY <2>1, <2>3
  <1>9. Busy' = Busy
    BY <1>1 DEF Busy
  <1>. QED
    BY <1>1, <1>6, <1>8, <1>9 DEF Service!Accept, Inbox, Busy

\* The oldest waiting batch begins when its task takes the lock.
LEMMA TakeLockBegins ==
    ASSUME StackInv, NEW u \in Users, TakeLock(u)
    PROVE  \E m, n \in 1..MaxMsgs : Service!Begin(u, m, n)
  <1>. USE DEF StackInv
  <1>0. Head(lockq[u]) \in Ids
    BY DEF TakeLock, KindInv
  <1>. PICK k \in Ids : k = Head(lockq[u])
    BY <1>0
  <1>. PICK n : n = Through(u, k)
    OBVIOUS
  <1>1. /\ lock[u] = 0 /\ lockq[u] # <<>>
        /\ lock' = [lock EXCEPT ![u] = k]
        /\ task' = [task EXCEPT ![u][k] = "gate"]
        /\ handled' = [handled EXCEPT ![u] = @ \o batch[u][k]]
        /\ UNCHANGED <<written, buffer, batch>>
    BY DEF TakeLock, inbound
  <1>2. /\ task[u][k] = "lock"
        /\ \A j \in Ids : task[u][j] = "lock" /\ j # k => n < j
        /\ batch[u][k] \in Seq(Ids) /\ Len(batch[u][k]) \in Nat \ {0}
        /\ DOMAIN batch[u][k] = 1..Len(batch[u][k])
        /\ \A i \in DOMAIN batch[u][k] : batch[u][k][i] = k + i - 1
        /\ k <= n /\ n <= Flushed(u) /\ n \in Nat
        /\ InSeq(batch[u][k]) = k..n
    BY <1>1, OldestWaiter
  <1>3. n = k + Len(batch[u][k]) - 1 /\ k \in Nat \ {0} /\ \A j \in Ids : j \in Nat
    BY Numbers
  <1>4. n \in 1..MaxMsgs /\ k \in 1..MaxMsgs
    BY <1>2, <1>3, BufferIsNewer, DispatcherAssumption DEF Ids
  <1>5. /\ \A v \in Users : v # u => task'[v] = task[v]
        /\ task'[u][k] = "gate" /\ \A j \in Ids : j # k => task'[u][j] = task[u][j]
    BY <1>1 DEF KindInv
  <1>. DEFINE rest == InSeq(buffer[u]) \cup
                        UNION {InSeq(batch[u][j]) : j \in {i \in Ids : task[u][i] = "lock"} \ {k}}
  <1>6. Pending(u) = (k..n) \cup rest
    BY <1>2 DEF Pending
  <1>7. Pending(u)' = rest
    <2>1. {j \in Ids : task'[u][j] = "lock"} = {i \in Ids : task[u][i] = "lock"} \ {k}
      BY <1>5
    <2>. QED
      BY <1>1, <2>1 DEF Pending, InSeq
  <1>8. \A m \in rest : m \in Nat /\ n < m
    <2>1. ASSUME NEW m \in InSeq(buffer[u])
          PROVE  m \in Nat /\ n < m
      <3>1. m \in Ids /\ Flushed(u) < m /\ Flushed(u) \in 0..MaxMsgs
        BY BufferIsNewer
      <3>. QED
        BY <1>2, <1>3, <3>1, DispatcherAssumption
    <2>2. ASSUME NEW j \in Ids, task[u][j] = "lock", j # k, NEW m \in InSeq(batch[u][j])
          PROVE  m \in Nat /\ n < m
      <3>1. PICK i \in DOMAIN batch[u][j] : m = batch[u][j][i]
        BY DEF InSeq
      <3>2. m = j + i - 1 /\ n < j
        BY <1>2, <2>2, <3>1 DEF RunInv, RunsOf
      <3>3. i \in 1..Len(batch[u][j]) /\ Len(batch[u][j]) \in Nat
        BY <3>1, Numbers
      <3>. QED
        BY SMTT(30), <1>2, <1>3, <3>2, <3>3
    <2>. QED
      BY <2>1, <2>2
  <1>. HIDE DEF rest
  <1>9. \A m \in Pending(u) : k <= m
    BY <1>2, <1>3, <1>6, <1>8
  <1>10. Pending(u)' = Pending(u) \ (k..n)
    BY <1>2, <1>3, <1>6, <1>7, <1>8
  <1>11. batch[u][k] = Service!Run(k, n)
    <2>1. n - k + 1 = Len(batch[u][k])
      BY SMTT(30), <1>2, <1>3
    <2>2. batch[u][k] = [i \in 1..Len(batch[u][k]) |-> batch[u][k][i]]
      BY <1>2
    <2>. QED
      BY <1>2, <2>1, <2>2 DEF Service!Run
  <1>12. Inbox' = [Inbox EXCEPT ![u] = @ \ (k..n)]
    <2>1. Inbox' = [v \in Users |-> Pending(v)']
      BY DEF Inbox
    <2>2. \A v \in Users : v # u => Pending(v)' = Pending(v)
      BY <1>1, <1>5 DEF Pending, InSeq
    <2>. QED
      BY <1>10, <2>1, <2>2 DEF Inbox
  <1>13. Busy' = [Busy EXCEPT ![u] = TRUE] /\ ~Busy[u]
    BY <1>1, <1>3 DEF Busy, KindInv
  <1>14. Inbox[u] = Pending(u)
    BY DEF Inbox
  <1>15. handled' = [handled EXCEPT ![u] = @ \o Service!Run(k, n)] /\ UNCHANGED written
    BY <1>1, <1>11
  <1>16. k..n \subseteq Inbox[u] /\ \A i \in Inbox[u] : k <= i
    BY <1>6, <1>9, <1>14
  <1>17. Service!Begin(u, k, n)
    BY <1>2, <1>12, <1>13, <1>15, <1>16 DEF Service!Begin, Inbox, Busy
  <1>. QED
    BY <1>4, <1>17

\* A step that leaves messages, waiting batches and locks alone is none of the
\* service's.
LEMMA UnseenStep ==
    ASSUME StackInv, UNCHANGED <<written, handled, lock>>,
           \A v \in Users : Pending(v)' = Pending(v)
    PROVE  UNCHANGED <<Inbox, Busy, handled, written>>
  BY DEF Inbox, Busy

\* The steps of a task that has the lock, and of one that waits for a slot.
LEMMA TaskMovesUnseen ==
    ASSUME StackInv, NEW u \in Users, NEW k \in Ids, Working(u, k),
           NEW s \in {"gate", "degrade", "sem", "graph", "send"},
           task' = [task EXCEPT ![u][k] = s],
           UNCHANGED <<written, buffer, batch, lock, handled, lost>>
    PROVE  UNCHANGED <<Inbox, Busy, handled, written>>
  <1>. USE DEF StackInv
  <1>1. /\ task'[u][k] = s
        /\ \A v \in Users, j \in Ids : <<v, j>> # <<u, k>> => task'[v][j] = task[v][j]
    BY DEF KindInv
  <1>2. \A v \in Users, j \in Ids : task'[v][j] = "lock" <=> task[v][j] = "lock"
    BY <1>1 DEF Working
  <1>3. \A v \in Users : Pending(v)' = Pending(v)
    BY <1>2 DEF Pending, InSeq
  <1>. QED
    BY <1>3, UnseenStep

\* A flush moves messages inside the stack: the service sees nothing.
LEMMA FlushUnseen ==
    ASSUME StackInv, NEW u \in Users, Flush(u)
    PROVE  UNCHANGED <<Inbox, Busy, handled, written>>
  <1>1. \A v \in Users : Pending(v)' = Pending(v)
    BY FlushKeepsStack
  <1>2. UNCHANGED <<written, handled, lock>>
    BY DEF Flush
  <1>. QED
    BY <1>1, <1>2, UnseenStep

\* A batch of white space is discarded: the newest of what waits, all of it blank.
LEMMA FlushBlankDiscards ==
    ASSUME StackInv, NEW u \in Users, FlushBlank(u)
    PROVE  \E m \in 1..MaxMsgs : Service!Discard(u, m)
  <1>. USE DEF StackInv
  <1>1. /\ buffer[u] # <<>> /\ InSeq(buffer[u]) \subseteq Blank[u]
        /\ buffer' = [buffer EXCEPT ![u] = <<>>]
        /\ UNCHANGED <<written, task, batch, lock, handled>>
    BY DEF FlushBlank, JoinsToNothing, turns
  <1>2. /\ buffer'[u] = <<>>
        /\ \A v \in Users : v # u => buffer'[v] = buffer[v]
    BY <1>1 DEF KindInv
  <1>. PICK m : m = Flushed(u) + 1
    OBVIOUS
  <1>3. m \in 1..MaxMsgs
    <2>1. /\ buffer[u][1] \in Ids /\ 1 \in DOMAIN buffer[u]
      BY <1>1, Numbers
    <2>2. buffer[u][1] = m
      BY <2>1 DEF RunInv, RunsOf
    <2>. QED
      BY <2>1, <2>2 DEF Ids
  <1>4. /\ Pending(u) = InSeq(buffer[u]) \cup Waiting(u)
        /\ Pending(u) \in SUBSET Ids
        /\ \A i \in Waiting(u) : i < m
        /\ \A i \in InSeq(buffer[u]) : m <= i
    <2>1. Flushed(u) \in Nat
      BY BufferIsNewer, DispatcherAssumption
    <2>2. \A i \in Ids : i \in Nat
      BY DEF Ids
    <2>3. /\ Pending(u) = InSeq(buffer[u]) \cup Waiting(u)
          /\ Pending(u) \in SUBSET Ids
          /\ \A i \in Waiting(u) : i <= Flushed(u)
          /\ \A i \in InSeq(buffer[u]) : Flushed(u) < i
      BY BufferIsNewer
    <2>4. \A i \in Pending(u) : i \in Nat
      BY <2>2, <2>3
    <2>5. \A i \in Waiting(u) : i < m
      BY <2>1, <2>3, <2>4
    <2>6. \A i \in InSeq(buffer[u]) : m <= i
      BY <2>1, <2>3, <2>4
    <2>. QED
      BY <2>3, <2>5, <2>6
  <1>5. \A i \in Ids : i \in Nat
    BY DEF Ids
  <1>6. {i \in Pending(u) : m <= i} \subseteq Blank[u]
    BY <1>1, <1>3, <1>4, <1>5
  <1>7. Pending(u)' = {i \in Pending(u) : i < m}
    <2>1. Pending(u)' = Waiting(u)
      <3>1. Waiting(u)' = Waiting(u)
        BY <1>1 DEF Waiting, InSeq
      <3>2. Pending(u)' = InSeq(buffer'[u]) \cup Waiting(u)'
        BY DEF Pending, Waiting, InSeq
      <3>3. InSeq(<<>>) = {}
        BY DEF InSeq
      <3>. QED
        BY <1>2, <3>1, <3>2, <3>3
    <2>. QED
      BY <1>3, <1>4, <1>5, <2>1
  <1>8. \A v \in Users : v # u => Pending(v)' = Pending(v)
    BY <1>1, <1>2 DEF Pending, InSeq
  <1>9. Inbox' = [Inbox EXCEPT ![u] = {i \in @ : i < m}]
    <2>1. Inbox' = [v \in Users |-> Pending(v)']
      BY DEF Inbox
    <2>. QED
      BY <1>7, <1>8, <2>1 DEF Inbox
  <1>10. Busy' = Busy
    BY <1>1 DEF Busy
  <1>11. {i \in Inbox[u] : m <= i} \subseteq Blank[u]
    BY <1>6 DEF Inbox
  <1>12. Service!Discard(u, m)
    BY <1>1, <1>9, <1>10, <1>11 DEF Service!Discard, Inbox, Busy
  <1>. QED
    BY <1>3, <1>12

\* A turn that returns answers its batch.
LEMMA ReturnEnds ==
    ASSUME StackInv, NEW u \in Users, NEW k \in Ids, Working(u, k), Return(u, k),
           UNCHANGED <<written, buffer, lockq, handled, lost>>
    PROVE  Service!End(u)
  <1>. USE DEF StackInv
  <1>1. /\ \A v \in Users, j \in Ids :
              <<v, j>> # <<u, k>> => task'[v][j] = task[v][j] /\ batch'[v][j] = batch[v][j]
        /\ task'[u][k] = "none"
    BY ReturnFreesTheLock
  <1>2. \A v \in Users, j \in Ids :
            /\ task'[v][j] = "lock" <=> task[v][j] = "lock"
            /\ task'[v][j] # "none" => task[v][j] # "none"
            /\ task[v][j] = "lock" => batch'[v][j] = batch[v][j]
    BY <1>1 DEF Working
  <1>3. \A v \in Users : Pending(v)' = Pending(v)
    BY <1>2, RunsKept
  <1>4. Inbox' = Inbox
    BY <1>3 DEF Inbox
  <1>5. lock[u] # 0
    BY Numbers DEF LockInv
  <1>6. Busy[u] /\ Busy' = [Busy EXCEPT ![u] = FALSE]
    BY <1>5 DEF Busy, Return, KindInv
  <1>. QED
    BY <1>4, <1>6 DEF Service!End, Inbox, Busy

\* A crash of the stack is a crash of the service.
LEMMA CrashRestarts ==
    ASSUME Crash
    PROVE  Service!Restart
  <1>1. \A u \in Users : Pending(u)' = {} /\ lock'[u] = 0
    BY DEF Crash, Pending, InSeq
  <1>2. Inbox' = [u \in Users |-> {}] /\ Busy' = [u \in Users |-> FALSE]
    BY <1>1 DEF Inbox, Busy
  <1>. QED
    BY <1>2 DEF Crash, Service!Restart, Inbox, Busy

\* Every step of the stack is a step of the service, or none.
LEMMA NextServes ==
    StackInv /\ [Next]_vars => [Service!ServiceNext]_<<Inbox, Busy, handled, written>>
  <1>. SUFFICES ASSUME StackInv, [Next]_vars
                PROVE  Service!ServiceNext \/ UNCHANGED <<Inbox, Busy, handled, written>>
    OBVIOUS
  <1>1. ASSUME NEW u \in Users, Add(u)
        PROVE  Service!ServiceNext
    BY <1>1, AddAccepts DEF Service!ServiceNext
  <1>2. ASSUME NEW u \in Users, Flush(u)
        PROVE  UNCHANGED <<Inbox, Busy, handled, written>>
    BY <1>2, FlushUnseen
  <1>9. ASSUME NEW u \in Users, FlushBlank(u)
        PROVE  Service!ServiceNext
    BY <1>9, FlushBlankDiscards DEF Service!ServiceNext
  <1>3. ASSUME NEW u \in Users, TakeLock(u)
        PROVE  Service!ServiceNext
    BY <1>3, TakeLockBegins DEF Service!ServiceNext
  <1>4. ASSUME NEW u \in Users, NEW k \in Ids, GateStops(u, k) \/ Sent(u, k)
        PROVE  Service!ServiceNext
    <2>1. /\ Working(u, k) /\ Return(u, k)
          /\ UNCHANGED <<written, buffer, lockq, handled, lost>>
      BY <1>4 DEF GateStops, Sent, Working, inbound
    <2>. QED
      BY <2>1, ReturnEnds DEF Service!ServiceNext
  <1>5. ASSUME NEW u \in Users, NEW k \in Ids,
               GatePasses(u, k) \/ Degrade(u, k) \/ GraphReturns(u, k)
        PROVE  UNCHANGED <<Inbox, Busy, handled, written>>
    <2>1. /\ Working(u, k)
          /\ UNCHANGED <<written, buffer, batch, lock, handled, lost>>
          /\ \E s \in {"sem", "degrade", "send"} : task' = [task EXCEPT ![u][k] = s]
      BY <1>5 DEF GatePasses, Degrade, GraphReturns, Working, inbound
    <2>2. PICK s \in {"sem", "degrade", "send"} : task' = [task EXCEPT ![u][k] = s]
      BY <2>1
    <2>. QED
      BY <2>1, <2>2, TaskMovesUnseen
  <1>6. CASE TakeSlot
    <2>1. semq # <<>> /\ semq \in Seq(Users \X Ids)
      BY <1>6 DEF TakeSlot, StackInv, KindInv
    <2>2. Head(semq) \in Users \X Ids /\ Head(semq) = semq[1] /\ 1 \in DOMAIN semq
      BY <2>1
    <2>. PICK u \in Users, k \in Ids : Head(semq) = <<u, k>>
      BY <2>2
    <2>3. Working(u, k)
      BY <2>2 DEF StackInv, SemInv, Working
    <2>4. /\ task' = [task EXCEPT ![u][k] = "graph"]
          /\ UNCHANGED <<written, buffer, batch, lock, handled, lost>>
      <3>1. /\ task' = [task EXCEPT ![Head(semq)[1]][Head(semq)[2]] = "graph"]
            /\ UNCHANGED <<written, buffer, batch, lock, handled, lost>>
        BY <1>6 DEF TakeSlot, inbound
      <3>2. Head(semq)[1] = u /\ Head(semq)[2] = k
        OBVIOUS
      <3>. QED
        BY <3>1, <3>2
    <2>. QED
      BY <2>3, <2>4, TaskMovesUnseen
  <1>7. CASE DayPasses \/ UNCHANGED vars
    <2>1. UNCHANGED <<written, buffer, task, batch, lock, handled>>
      BY <1>7 DEF DayPasses, vars, inbound, turns
    <2>2. \A v \in Users : Pending(v)' = Pending(v)
      BY <2>1 DEF Pending, InSeq
    <2>. QED
      BY <2>1, <2>2, UnseenStep
  <1>8. CASE Crash
    BY <1>8, CrashRestarts DEF Service!ServiceNext
  <1>. QED
    BY <1>1, <1>2, <1>3, <1>4, <1>5, <1>6, <1>7, <1>8, <1>9 DEF Next, TaskStep

\* Whatever the timers, locks, evictions and crashes do, each customer gets the
\* promised service: one batch at a time, in order, the oldest first.
THEOREM TheStackServes == Spec => ImplementsService
  <1>1. StackInv /\ [Next]_vars =>
          [Service!ServiceNext]_<<[u \in Users |-> Pending(u)], [u \in Users |-> lock[u] # 0],
                                  handled, written>>
    BY NextServes DEF Inbox, Busy
  <1>. QED
    BY InitServes, <1>1, StackInvHolds, PTL
       DEF Spec, ImplementsService, Service!ServiceSpec
=============================================================================
