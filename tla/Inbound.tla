------------------------------ MODULE Inbound ------------------------------
(***************************************************************************)
(* How a customer's message gets into the debounce buffer: pushed by Meta  *)
(* in batches to the Messenger webhook, which answers 200 and processes    *)
(* the batch in a background task, or pulled from Telegram by the one      *)
(* polling task.  Both send every message through the rate limit, then the *)
(* dedupe store, then to DebounceBuffer.add (module Dispatcher).           *)
(*                                                                         *)
(* Task 0 is the poller, the others are the webhook's background tasks.  A *)
(* task runs until it awaits deliver_text; asyncio then runs another.      *)
(* Windows, store and offset live in memory.                               *)
(***************************************************************************)
EXTENDS Integers, Sequences, FiniteSets, SequencesExt, FiniteSetsExt

CONSTANTS
    Users,
    MaxMsgs,       \* bound: messages written by the customers
    Writers,       \* who may have written them: functions like from below
    MaxPosts,      \* bound: POSTs of Meta, redeliveries included
    MaxTime,       \* bound of the clock, in minutes
    MaxTroubles,   \* bound: failing calls and crashes
    PerMin, PerDay, Day, MaxWindows,   \* RateLimiter
    Ttl, MaxSeen                       \* DedupeStore

ASSUME InboundAssumption ==
    /\ {MaxMsgs, MaxPosts, MaxTime, MaxTroubles} \subseteq Nat
    /\ Writers \subseteq [1..MaxMsgs -> Users \cup {"no text"}] /\ "no text" \notin Users
    /\ {PerMin, PerDay, Day, MaxWindows, Ttl, MaxSeen} \subseteq Nat \ {0}

Msgs == 1..MaxMsgs
Posts == 1..MaxPosts
Poller == 0
Tasks == 0..MaxPosts
Never == -1
NoText == "no text"

VARIABLES
    channel,      \* which of the two stacks this behaviour is about
    from,         \* message -> the customer who wrote it, NoText if it has none
    sent,         \* how many messages the customers have written
    body,         \* POST -> the text messages of its payload, <<>> if not made yet
    rest,         \* task -> the messages it still has to process
    state,        \* task -> none, starting, ready, sending, done, ended
    running,      \* the task between two awaits, Never if none
    offset,       \* the poller's next update, Never for None
    acked,        \* Telegram: updates up to here are confirmed and gone
    windows,      \* RateLimiter._windows: [who, times], oldest first
    seen,         \* DedupeStore._seen: [mid, expiry], oldest first
    now,
    fate,         \* history: message -> none, entered, refused, lost
    entered_at,   \* history: message -> when this process accepted it last
    forgotten,    \* history: mids evicted from the full store
    troubles

tvars == <<body, rest, state, running>>
poll == <<offset, acked>>
limits == <<windows, seen>>
hist == <<fate, entered_at, forgotten>>
vars == <<channel, from, sent, tvars, poll, limits, now, hist, troubles>>

Init ==
    /\ channel \in {"messenger", "telegram"}
    /\ from \in Writers
    /\ sent = 0 /\ now = 0 /\ troubles = 0
    /\ body = [p \in Posts |-> <<>>]
    /\ rest = [t \in Tasks |-> <<>>]
    /\ state = [t \in Tasks |-> IF t = Poller /\ channel = "telegram"
                                THEN "starting" ELSE "none"]
    /\ running = Never
    /\ offset = Never /\ acked = 0
    /\ windows = <<>> /\ seen = <<>>
    /\ fate = [m \in Msgs |-> "none"]
    /\ entered_at = [m \in Msgs |-> Never]
    /\ forgotten = {}

Trouble == troubles < MaxTroubles /\ troubles' = troubles + 1

-----------------------------------------------------------------------------
(* The ordered dictionaries of both stores, oldest entry first *)

LastN(s, n) == IF Len(s) > n THEN SubSeq(s, Len(s) - n + 1, Len(s)) ELSE s

\* Where a key is (in one place at most), 0 for nowhere.
Place(positions) == IF positions = {} THEN 0 ELSE CHOOSE i \in positions : TRUE

\* move_to_end of the entry at i, or a new entry.
MovedToEnd(s, i, entry) == Append(IF i = 0 THEN s ELSE RemoveAt(s, i), entry)

-----------------------------------------------------------------------------
(* The rate limit *)

\* The window of a customer; a new one may push out the oldest of a full table.
WindowPlace(u) == Place({i \in DOMAIN windows : windows[i].who = u})
WindowOf(u) == LET i == WindowPlace(u) IN IF i = 0 THEN <<>> ELSE windows[i].times

\* The entries of the day, and those of the last minute (a unit of the clock);
\* the cutoff itself still counts.
Since(times, cutoff) ==
    SubSeq(times, 1 + Cardinality({i \in DOMAIN times : times[i] < cutoff}), Len(times))
InDay(u) == Since(WindowOf(u), now - Day)
InMinute(u) == Since(WindowOf(u), now - 1)

Allowed(u) == Len(InMinute(u)) < PerMin /\ Len(InDay(u)) < PerDay

Charged(u) ==
    [who |-> u, times |-> IF Allowed(u) THEN Append(InDay(u), now) ELSE InDay(u)]

\* Mutant: the table of windows is not bounded.
BrokenCharge(u) == windows' = MovedToEnd(windows, WindowPlace(u), Charged(u))

\* allow(u): the window moves to the end, and is charged if the answer is yes.
Charge(u) ==
    windows' = LastN(MovedToEnd(windows, WindowPlace(u), Charged(u)), MaxWindows)

-----------------------------------------------------------------------------
(* The dedupe store *)

\* _prune: at most 8 expired entries go, from the oldest end.
Pruned ==
    LET kept == {i \in DOMAIN seen : seen[i].expiry > now \/ i > 8}
    IN  IF kept = {} THEN <<>> ELSE SubSeq(seen, Min(kept), Len(seen))

PlaceOf(m, s) == Place({i \in DOMAIN s : s[i].mid = m})

Known(m) ==
    LET s == Pruned  i == PlaceOf(m, s)
    IN  i # 0 /\ s[i].expiry > now

\* A known mid moves to the end with the expiry it has; a new one is recorded.
Grown(m) ==
    LET s == Pruned  i == PlaceOf(m, s)
    IN  MovedToEnd(s, i, IF Known(m) THEN s[i] ELSE [mid |-> m, expiry |-> now + Ttl])

Forgotten(m, grown) ==
    (forgotten \ {m}) \cup {grown[i].mid : i \in 1..(Len(grown) - MaxSeen)}

\* Mutant: a full store drops the entry just made.
BrokenRemember(m) ==
    LET grown == Grown(m)
    IN  /\ seen' = SubSeq(grown, 1, Min({Len(grown), MaxSeen}))
        /\ forgotten' = Forgotten(m, grown)

\* seen(mid), which may push out the oldest.
Remember(m) ==
    LET grown == Grown(m)
    IN  /\ seen' = LastN(grown, MaxSeen)
        /\ forgotten' = Forgotten(m, grown)

-----------------------------------------------------------------------------
(* One message of a task: process_events' loop body, and _ingest's *)

\* The task's next message, while no other task is between two awaits.
AtHead(t) ==
    /\ state[t] = "ready" /\ rest[t] # <<>>
    /\ running \in {Never, t}

\* Mutant: the offset skips an update.
BrokenMoveOffset(t) ==
    /\ offset' = IF t = Poller THEN Head(rest[t]) + 2 ELSE offset
    /\ UNCHANGED acked

\* The poller moves its offset before it ingests the update.
MoveOffset(t) ==
    /\ offset' = IF t = Poller THEN Head(rest[t]) + 1 ELSE offset
    /\ UNCHANGED acked

\* The task goes on with its next message, or is through with this batch.
GoOn(t) ==
    /\ rest' = [rest EXCEPT ![t] = Tail(@)]
    /\ running' = IF Len(rest[t]) > 1 THEN t ELSE Never
    /\ state' = [state EXCEPT ![t] = IF Len(rest[t]) > 1 \/ t = Poller THEN "ready" ELSE "done"]

\* Over the limit: the task awaits deliver_text of the rate-limit line.
Refuse(t) ==
    LET u == from[Head(rest[t])]
    IN  /\ AtHead(t)
        /\ u # NoText /\ ~Allowed(u)
        /\ Charge(u)
        /\ MoveOffset(t)
        /\ state' = [state EXCEPT ![t] = "sending"]
        /\ running' = Never
        /\ UNCHANGED <<channel, from, sent, body, rest, seen, now, hist, troubles>>

DropDuplicate(t) ==
    LET m == Head(rest[t])
    IN  /\ AtHead(t)
        /\ from[m] # NoText /\ Allowed(from[m]) /\ Charge(from[m])
        /\ Known(m) /\ Remember(m)
        /\ MoveOffset(t)
        /\ GoOn(t)
        /\ UNCHANGED <<channel, from, sent, body, now, fate, entered_at, troubles>>

Accept(t) ==
    LET m == Head(rest[t])
    IN  /\ AtHead(t)
        /\ from[m] # NoText /\ Allowed(from[m]) /\ Charge(from[m])
        /\ ~Known(m) /\ Remember(m)
        /\ MoveOffset(t)
        /\ GoOn(t)
        /\ fate' = [fate EXCEPT ![m] = "entered"]
        /\ entered_at' = [entered_at EXCEPT ![m] = now]
        /\ UNCHANGED <<channel, from, sent, body, now, troubles>>

\* parse_inbound returns nothing for an update that is no private text message.
SkipUpdate ==
    LET m == Head(rest[Poller])
    IN  /\ AtHead(Poller)
        /\ from[m] = NoText
        /\ MoveOffset(Poller)
        /\ GoOn(Poller)
        /\ fate' = [fate EXCEPT ![m] = "ignored"]
        /\ UNCHANGED <<channel, from, sent, body, limits, now, entered_at, forgotten,
                       troubles>>

Lose(ms) == fate' = [m \in Msgs |-> IF m \in ms /\ fate[m] \in {"none", "refused"}
                                    THEN "lost" ELSE fate[m]]

LineSent(t) ==
    /\ state[t] = "sending"
    /\ running = Never
    /\ GoOn(t)
    /\ fate' = [fate EXCEPT ![Head(rest[t])] = IF @ = "none" THEN "refused" ELSE @]
    /\ UNCHANGED <<channel, from, sent, body, poll, limits, now, entered_at, forgotten,
                   troubles>>

\* deliver_text raises: the rest of the batch goes with the task, and the
\* poller's task is the poller.
SendRaises(t) ==
    /\ state[t] = "sending"
    /\ running = Never
    /\ Trouble
    /\ rest' = [rest EXCEPT ![t] = <<>>]
    /\ state' = [state EXCEPT ![t] = IF t = Poller THEN "ended" ELSE "done"]
    /\ Lose(Range(rest[t]))
    /\ UNCHANGED <<channel, from, sent, body, running, poll, limits, now, entered_at,
                   forgotten>>

-----------------------------------------------------------------------------
(* The Messenger webhook *)

\* The next POST's background task; the 200 has been answered.
Start(msgs) ==
    \E p \in Posts :
        /\ \A q \in Posts : q < p <=> state[q] # "none"
        /\ body' = [body EXCEPT ![p] = msgs]
        /\ rest' = [rest EXCEPT ![p] = msgs]
        /\ state' = [state EXCEPT ![p] = IF msgs = <<>> THEN "done" ELSE "ready"]
        /\ UNCHANGED <<channel, from, running, poll, limits, now, entered_at, forgotten,
                       troubles>>

\* Meta posts one or two new events; parse_inbound returns those with a text, in
\* their order.
Post(n) ==
    LET fresh == (sent + 1)..(sent + n)
    IN  /\ channel = "messenger"
        /\ sent + n <= MaxMsgs
        /\ sent' = sent + n
        /\ \E msgs \in UNION {[1..k -> fresh] : k \in 0..n} :
              /\ Range(msgs) = {m \in fresh : from[m] # NoText}
              /\ \A i, j \in DOMAIN msgs : i < j => msgs[i] < msgs[j]
              /\ Start(msgs)
        /\ UNCHANGED fate

\* Meta did not see the 200 of a POST and delivers it again.
Redeliver(q) ==
    /\ body[q] # <<>>
    /\ Start(body[q])
    /\ UNCHANGED <<sent, fate>>

-----------------------------------------------------------------------------
(* The Telegram poller *)

Write ==
    /\ channel = "telegram"
    /\ sent < MaxMsgs
    /\ sent' = sent + 1
    /\ UNCHANGED <<channel, from, tvars, poll, limits, now, hist, troubles>>

\* delete_webhook with drop_pending_updates: the backlog is gone.
DeleteWebhook ==
    /\ state[Poller] = "starting"
    /\ state' = [state EXCEPT ![Poller] = "ready"]
    /\ acked' = sent
    /\ Lose((acked + 1)..sent)
    /\ UNCHANGED <<channel, from, sent, body, rest, running, offset, limits, now,
                   entered_at, forgotten, troubles>>

\* It fails three times: the poller starts anyway.
DeleteWebhookFails ==
    /\ state[Poller] = "starting"
    /\ Trouble
    /\ state' = [state EXCEPT ![Poller] = "ready"]
    /\ UNCHANGED <<channel, from, sent, body, rest, running, poll, limits, now, hist>>

\* getUpdates confirms what is below the offset and returns what is above.
GetUpdates ==
    LET upto == IF offset = Never THEN acked ELSE Max({acked, offset - 1})
    IN  /\ state[Poller] = "ready" /\ rest[Poller] = <<>>
        /\ running = Never
        /\ upto # acked \/ sent > upto
        /\ acked' = upto
        /\ rest' = [rest EXCEPT ![Poller] = [i \in 1..(sent - upto) |-> upto + i]]
        /\ UNCHANGED <<channel, from, sent, body, state, running, offset, limits, now,
                       hist, troubles>>

\* Mutant: the exception ends the loop.
BrokenGetUpdatesRaises ==
    /\ state[Poller] = "ready" /\ rest[Poller] = <<>>
    /\ Trouble
    /\ state' = [state EXCEPT ![Poller] = "done"]
    /\ UNCHANGED <<channel, from, sent, body, rest, running, poll, limits, now, hist>>

\* It fails: again after three seconds.
GetUpdatesRaises ==
    /\ state[Poller] = "ready" /\ rest[Poller] = <<>>
    /\ Trouble
    /\ UNCHANGED <<channel, from, sent, tvars, poll, limits, now, hist>>

-----------------------------------------------------------------------------
(* The world *)

\* The process is killed and started again.
Crash ==
    /\ Trouble
    /\ rest' = [t \in Tasks |-> <<>>]
    /\ state' = [t \in Tasks |-> IF t = Poller /\ channel = "telegram" THEN "starting"
                                 ELSE IF state[t] \in {"ready", "sending"} THEN "done"
                                 ELSE state[t]]
    /\ running' = Never
    /\ offset' = Never
    /\ windows' = <<>> /\ seen' = <<>>
    /\ Lose(UNION {Range(rest[p]) : p \in Posts})
    /\ entered_at' = [m \in Msgs |-> Never]
    /\ forgotten' = {}
    /\ UNCHANGED <<channel, from, sent, body, acked, now>>

Tick ==
    /\ now < MaxTime
    /\ now' = now + 1
    /\ UNCHANGED <<channel, from, sent, tvars, poll, limits, hist, troubles>>

Process(t) == Refuse(t) \/ DropDuplicate(t) \/ Accept(t) \/ LineSent(t) \/ SendRaises(t)

Poll == DeleteWebhook \/ DeleteWebhookFails \/ GetUpdates \/ GetUpdatesRaises
           \/ SkipUpdate

Next ==
    \/ \E t \in Tasks : Process(t)
    \/ Poll
    \/ \E n \in 1..2 : Post(n)
    \/ \E q \in Posts : Redeliver(q)
    \/ Write
    \/ Crash
    \/ Tick

Spec == Init /\ [][Next]_vars

\* asyncio runs what is ready, and the HTTP calls answer or fail.
FairSpec == Spec /\ WF_vars((\E t \in Tasks : Process(t)) \/ Poll)

-----------------------------------------------------------------------------
(* Properties *)

\* The variables hold values of the kinds the code gives them, the tables keep
\* their bounds, and only a task with messages left runs.
TypeOK ==
    /\ channel \in {"messenger", "telegram"}
    /\ sent \in 0..MaxMsgs /\ now \in 0..MaxTime
    /\ \A t \in Tasks : state[t] \in {"none", "starting", "ready", "sending", "done", "ended"}
    /\ state[Poller] \in {"starting", "ready", "sending", "ended"}
          <=> channel = "telegram"
    /\ running # Never => state[running] = "ready" /\ rest[running] # <<>>
    /\ Len(windows) <= MaxWindows /\ Len(seen) <= MaxSeen
    /\ IsInjective([i \in DOMAIN seen |-> seen[i].mid])
    /\ IsInjective([i \in DOMAIN windows |-> windows[i].who])

\* While the process lives a message enters the buffer a second time only if
\* its first time is longer ago than the store's lifetime, or the store was
\* full and dropped it, however often and in however many POSTs it arrives.
NoMessageTwice ==
    [][\A t \in Tasks :
          LET m == Head(rest[t])
          IN  Accept(t) /\ entered_at[m] # Never
              => now >= entered_at[m] + Ttl \/ m \in forgotten]_vars

Waiting(m) ==
    \/ \E t \in Tasks : m \in Range(rest[t])
    \/ channel = "telegram" /\ m \in (acked + 1)..sent

\* No text message that the platform has handed over disappears: it is still
\* waiting, or it entered the buffer, or its customer was told to slow down, or
\* it is one of those a raising deliver_text, a crash or a dropped backlog took.
NothingIsSwallowed ==
    \A m \in 1..sent : from[m] \in Users => fate[m] # "none" \/ Waiting(m)

\* What waits is taken, by a poller that survives failing getUpdates calls as
\* long as no deliver_text raises in it.
EveryMessageIsTaken ==
    \A m \in Msgs : Waiting(m) ~> (~Waiting(m) \/ state[Poller] = "ended")
=============================================================================
