--------------------------- MODULE InboundProofs ---------------------------
(***************************************************************************)
(* Proofs about the way in, for any messages, POSTs, limits and lifetimes  *)
(* and any number of failing calls and crashes.                            *)
(***************************************************************************)
EXTENDS Inbound, SequenceLemmas, FiniteSetTheorems

-----------------------------------------------------------------------------
(* The invariant *)

States == {"none", "starting", "ready", "sending", "done", "ended"}

Fates == {"none", "entered", "refused", "lost", "ignored"}

Window == [who : Users, times : Seq(Nat)]

Entry == [mid : Msgs, expiry : Nat]

\* The kinds of the variables.
KindInv ==
    /\ channel \in {"messenger", "telegram"}
    /\ from \in [Msgs -> Users \cup {NoText}]
    /\ sent \in 0..MaxMsgs /\ now \in 0..MaxTime
    /\ body \in [Posts -> Seq(Msgs)]
    /\ rest \in [Tasks -> Seq(Msgs)]
    /\ state \in [Tasks -> States]
    /\ offset = Never \/ offset \in Nat \ {0}
    /\ windows \in Seq(Window)
    /\ seen \in Seq(Entry)
    /\ fate \in [Msgs -> Fates]
    /\ entered_at \in [Msgs -> Nat \cup {Never}]
    /\ forgotten \subseteq Msgs

\* Only a task at work has messages, and the one between two awaits has some.
TaskInv ==
    /\ \A t \in Tasks : /\ state[t] \notin {"ready", "sending"} => rest[t] = <<>>
                        /\ state[t] = "sending" => rest[t] # <<>>
    /\ running # Never =>
           running \in Tasks /\ state[running] = "ready" /\ rest[running] # <<>>
    /\ state[Poller] \in {"starting", "ready", "sending", "ended"} <=> channel = "telegram"

\* The poller is through with the updates up to this one, which the next
\* getUpdates will confirm.
Upto == IF offset = Never THEN acked ELSE Max({acked, offset - 1})

Through == IF rest[Poller] = <<>> THEN Upto ELSE rest[Poller][1] - 1

\* What the poller confirms it has dealt with, and what it holds follows on it.
PollInv ==
    /\ acked \in Nat /\ acked <= Through
    /\ Through + Len(rest[Poller]) <= sent
    /\ \A i \in DOMAIN rest[Poller] : rest[Poller][i] = Through + i
    /\ state[Poller] = "sending" => offset = rest[Poller][1] + 1
    /\ \A m \in 1..Through : from[m] \in Users => fate[m] # "none"

WindowInv ==
    /\ Len(windows) <= MaxWindows
    /\ \A i, j \in DOMAIN windows : windows[i].who = windows[j].who => i = j

\* What the store holds has entered the buffer one lifetime before it expires,
\* and what has entered is held until then, unless the full store forgot it.
StoreInv ==
    /\ Len(seen) <= MaxSeen
    /\ \A i, j \in DOMAIN seen : seen[i].mid = seen[j].mid => i = j
    /\ \A i \in DOMAIN seen : /\ entered_at[seen[i].mid] # Never
                              /\ seen[i].expiry = entered_at[seen[i].mid] + Ttl
    /\ \A m \in Msgs : entered_at[m] # Never =>
           /\ fate[m] = "entered" /\ from[m] # NoText
           /\ \/ now >= entered_at[m] + Ttl
              \/ m \in forgotten
              \/ \E i \in DOMAIN seen : seen[i].mid = m

InboundInv == KindInv /\ TaskInv /\ PollInv /\ WindowInv /\ StoreInv /\ NothingIsSwallowed

-----------------------------------------------------------------------------
(* The ordered dictionaries *)

\* Never is no time and no task, and the bounds are numbers.
LEMMA Bounds ==
    /\ {MaxMsgs, MaxPosts, MaxTime, MaxTroubles} \subseteq Nat
    /\ {PerMin, PerDay, Day, MaxWindows, Ttl, MaxSeen} \subseteq Nat \ {0}
    /\ Never = -1 /\ Poller = 0 /\ Poller \in Tasks /\ Posts \subseteq Tasks
    /\ Never \notin Tasks /\ Never \notin Nat /\ Msgs \subseteq Nat \ {0}
    /\ Poller \notin Posts
  <1>1. /\ {MaxMsgs, MaxPosts, MaxTime, MaxTroubles} \subseteq Nat
        /\ {PerMin, PerDay, Day, MaxWindows, Ttl, MaxSeen} \subseteq Nat \ {0}
    BY Zenon, InboundAssumption
  <1>2. MaxMsgs \in Nat /\ MaxPosts \in Nat
    BY <1>1
  <1>3. Never = -1 /\ Poller = 0 /\ Tasks = 0..MaxPosts /\ Posts = 1..MaxPosts /\ Msgs = 1..MaxMsgs
    BY DEF Never, Poller, Tasks, Posts, Msgs
  <1>. QED
    BY <1>1, <1>2, <1>3

\* The clock and the lifetime.
LEMMA ClockBounds == MaxTime \in Nat /\ Ttl \in Nat /\ Day \in Nat
  BY Bounds

\* A key is found where it is.
LEMMA PlaceFinds ==
    ASSUME NEW n \in Nat, NEW S \in SUBSET (1..n)
    PROVE  /\ Place(S) \in 0..n
           /\ Place(S) # 0 => Place(S) \in S
           /\ Place(S) = 0 => S = {}
  <1>1. CASE S = {}
    BY <1>1 DEF Place
  <1>2. CASE S # {}
    <2>1. Place(S) \in S
      BY <1>2 DEF Place
    <2>2. Place(S) \in 1..n
      BY <2>1
    <2>3. Place(S) \in 0..n /\ Place(S) # 0
      BY <2>2
    <2>. QED
      BY <2>1, <2>3
  <1>. QED
    BY <1>1, <1>2

\* The other entries keep their order, the moved one is the last.
Shifted(g, s, i, e) ==
    /\ Len(g) \in Nat \ {0} /\ g[Len(g)] = e
    /\ Len(g) = IF i = 0 THEN Len(s) + 1 ELSE Len(s)
    /\ \A j \in 1..(Len(g) - 1) : g[j] = IF i = 0 \/ j < i THEN s[j] ELSE s[j + 1]

\* move_to_end.
LEMMA MovedIsLast ==
    ASSUME NEW R, NEW s \in Seq(R), NEW i \in 0..Len(s), NEW e \in R
    PROVE  MovedToEnd(s, i, e) \in Seq(R) /\ Shifted(MovedToEnd(s, i, e), s, i, e)
  <1>. Len(s) \in Nat
    BY LenProperties
  <1>. DEFINE r == IF i = 0 THEN s ELSE RemoveAt(s, i)
  <1>1. /\ r \in Seq(R) /\ Len(r) = IF i = 0 THEN Len(s) ELSE Len(s) - 1
        /\ \A j \in 1..Len(r) : r[j] = IF i = 0 \/ j < i THEN s[j] ELSE s[j + 1]
    <2>1. CASE i = 0
      BY <2>1
    <2>2. CASE i # 0
      <3>1. i \in 1..Len(s) /\ r = RemoveAt(s, i)
        BY <2>2
      <3>2. /\ RemoveAt(s, i) \in Seq(R) /\ Len(RemoveAt(s, i)) = Len(s) - 1
            /\ \A j \in 1..(Len(s) - 1) :
                  RemoveAt(s, i)[j] = IF j < i THEN s[j] ELSE s[j + 1]
        BY Zenon, <3>1, RowRemoved
      <3>. HIDE DEF r
      <3>. QED
        BY <2>2, <3>1, <3>2
    <2>. QED
      BY <2>1, <2>2
  <1>2. MovedToEnd(s, i, e) = Append(r, e)
    BY DEF MovedToEnd
  <1>. HIDE DEF r
  <1>3. /\ Append(r, e) \in Seq(R) /\ Len(Append(r, e)) = Len(r) + 1
        /\ Append(r, e)[Len(r) + 1] = e
        /\ \A j \in 1..Len(r) : Append(r, e)[j] = r[j]
    BY <1>1, AppendProperties
  <1>4. PICK g \in Seq(R) : g = Append(r, e)
    BY <1>3
  <1>5. Len(g) = Len(r) + 1 /\ Len(r) \in Nat
    BY <1>1, <1>3, <1>4
  <1>6. Shifted(g, s, i, e)
    BY <1>1, <1>3, <1>4, <1>5 DEF Shifted
  <1>. QED
    BY Zenon, <1>2, <1>4, <1>6

\* t is s without its gap first entries.
Cut(t, s, gap) ==
    /\ Len(t) = Len(s) - gap
    /\ \A j \in 1..(Len(s) - gap) : t[j] = s[j + gap]

\* popitem(last=False) down to n entries.
LEMMA LastNKeepsTheNewest ==
    ASSUME NEW R, NEW s \in Seq(R), NEW n \in Nat \ {0}
    PROVE  /\ LastN(s, n) \in Seq(R) /\ Len(LastN(s, n)) <= n
           /\ Cut(LastN(s, n), s, IF Len(s) > n THEN Len(s) - n ELSE 0)
  <1>. Len(s) \in Nat
    BY LenProperties
  <1>1. CASE Len(s) > n
    <2>1. LastN(s, n) = SubSeq(s, (Len(s) - n) + 1, Len(s))
      BY <1>1 DEF LastN
    <2>2. /\ SubSeq(s, (Len(s) - n) + 1, Len(s)) \in Seq(R)
          /\ Len(SubSeq(s, (Len(s) - n) + 1, Len(s))) = n
          /\ \A j \in 1..n : SubSeq(s, (Len(s) - n) + 1, Len(s))[j] = s[j + (Len(s) - n)]
      BY <1>1, SubSeqProperties
    <2>. QED
      BY <1>1, <2>1, <2>2 DEF Cut
  <1>2. CASE ~(Len(s) > n)
    <2>1. LastN(s, n) = s
      BY <1>2 DEF LastN
    <2>. QED
      BY <1>2, <2>1 DEF Cut
  <1>. QED
    BY <1>1, <1>2

\* The gap oldest entries have expired.
Expired(gap) == \A i \in 1..gap : ~(seen[i].expiry > now)

\* _prune takes expired entries only.
LEMMA PrunedIsALaterPart ==
    ASSUME seen \in Seq(Entry)
    PROVE  /\ Pruned \in Seq(Entry)
           /\ \E gap \in 0..Len(seen) : Cut(Pruned, seen, gap) /\ Expired(gap)
  <1>. DEFINE kept == {i \in DOMAIN seen : seen[i].expiry > now \/ i > 8}
  <1>. DOMAIN seen = 1..Len(seen) /\ Len(seen) \in Nat
    BY LenProperties
  <1>1. Pruned = IF kept = {} THEN <<>> ELSE SubSeq(seen, Min(kept), Len(seen))
    BY DEF Pruned
  <1>2. \A i \in DOMAIN seen : i \notin kept => ~(seen[i].expiry > now)
    OBVIOUS
  <1>3. kept \in SUBSET (1..Len(seen))
    OBVIOUS
  <1>. HIDE DEF kept
  <1>4. CASE kept = {}
    <2>1. Pruned = <<>> /\ Pruned \in Seq(Entry) /\ Len(Pruned) = 0
      BY <1>1, <1>4, EmptySeq
    <2>2. \A i \in 1..Len(seen) : ~(seen[i].expiry > now)
      BY <1>2, <1>4
    <2>3. Len(seen) \in 0..Len(seen)
      BY SMT
    <2>4. /\ Len(Pruned) = Len(seen) - Len(seen)
          /\ \A j \in 1..(Len(seen) - Len(seen)) : Pruned[j] = seen[j + Len(seen)]
      BY <2>1
    <2>. QED
      BY Zenon, <2>1, <2>2, <2>3, <2>4 DEF Cut, Expired
  <1>5. CASE kept # {}
    <2>1. kept \in SUBSET Nat
      BY <1>3
    <2>2. Min(kept) \in kept /\ \A i \in kept : Min(kept) <= i
      BY Zenon, <1>5, <2>1, MinIsLeast
    <2>3. PICK gap \in 0..Len(seen) : Min(kept) = gap + 1 /\ gap + 1 <= Len(seen)
      <3>1. Min(kept) \in 1..Len(seen)
        BY <1>3, <2>2
      <3>2. Min(kept) - 1 \in 0..Len(seen) /\ Min(kept) = (Min(kept) - 1) + 1
        BY <3>1
      <3>. QED
        BY <3>1, <3>2
    <2>4. Pruned = SubSeq(seen, gap + 1, Len(seen))
      BY <1>1, <1>5, <2>3
    <2>5. /\ SubSeq(seen, gap + 1, Len(seen)) \in Seq(Entry)
          /\ Len(SubSeq(seen, gap + 1, Len(seen))) = Len(seen) - gap
          /\ \A j \in 1..(Len(seen) - gap) :
                SubSeq(seen, gap + 1, Len(seen))[j] = seen[j + gap]
      BY <2>3, SubSeqProperties
    <2>6. \A i \in 1..gap : ~(seen[i].expiry > now)
      <3>1. \A i \in 1..gap : i \in DOMAIN seen /\ i \notin kept
        BY <2>2, <2>3
      <3>. QED
        BY <1>2, <3>1
    <2>. QED
      BY Zenon, <2>4, <2>5, <2>6 DEF Cut, Expired
  <1>. QED
    BY <1>4, <1>5

\* Where the entry at j stood before the entry at i moved to the end.
Source(i, j) == IF i = 0 \/ j < i THEN j ELSE j + 1

\* g is s with the entry at i, if any, gone and e at the end.
Moved(g, s, i, e) ==
    /\ Len(g) \in Nat \ {0} /\ g[Len(g)] = e
    /\ \A j \in 1..(Len(g) - 1) :
          Source(i, j) \in 1..Len(s) /\ Source(i, j) # i /\ g[j] = s[Source(i, j)]
    /\ \A j, k \in 1..(Len(g) - 1) : Source(i, j) = Source(i, k) => j = k
    /\ \A k \in 1..Len(s) : k # i => \E j \in 1..(Len(g) - 1) : g[j] = s[k]

LEMMA MovedToEndMoves ==
    ASSUME NEW R, NEW s \in Seq(R), NEW i \in 0..Len(s), NEW e \in R
    PROVE  MovedToEnd(s, i, e) \in Seq(R) /\ Moved(MovedToEnd(s, i, e), s, i, e)
  <1>. Len(s) \in Nat
    BY LenProperties
  <1>0. PICK g \in Seq(R) : g = MovedToEnd(s, i, e) /\ Shifted(g, s, i, e)
    BY Zenon, MovedIsLast
  <1>1. /\ Len(g) \in Nat \ {0} /\ g[Len(g)] = e
        /\ Len(g) = IF i = 0 THEN Len(s) + 1 ELSE Len(s)
        /\ \A j \in 1..(Len(g) - 1) : g[j] = IF i = 0 \/ j < i THEN s[j] ELSE s[j + 1]
    BY Zenon, <1>0 DEF Shifted
  <1>2. \A j \in 1..(Len(g) - 1) :
           Source(i, j) \in 1..Len(s) /\ Source(i, j) # i /\ g[j] = s[Source(i, j)]
    BY <1>1 DEF Source
  <1>3. \A j, k \in 1..(Len(g) - 1) : Source(i, j) = Source(i, k) => j = k
    BY DEF Source
  <1>4. ASSUME NEW k \in 1..Len(s), k # i
        PROVE  \E j \in 1..(Len(g) - 1) : g[j] = s[k]
    <2>1. CASE i = 0 \/ k < i
      <3>1. k \in 1..(Len(g) - 1) /\ g[k] = s[k]
        BY <1>1, <1>4, <2>1
      <3>. QED
        BY <3>1
    <2>2. CASE i # 0 /\ k > i
      <3>1. k - 1 \in 1..(Len(g) - 1) /\ ~(k - 1 < i) /\ (k - 1) + 1 = k
        BY <1>1, <1>4, <2>2
      <3>2. g[k - 1] = s[k]
        BY <1>1, <2>2, <3>1
      <3>. QED
        BY <3>1, <3>2
    <2>. QED
      BY <1>4, <2>1, <2>2
  <1>. QED
    BY Zenon, <1>0, <1>1, <1>2, <1>3, <1>4 DEF Moved

\* allow keeps one window per customer and no more than the table holds.
LEMMA ChargeKeepsTheWindows ==
    ASSUME KindInv, WindowInv, NEW u \in Users, Charge(u)
    PROVE  windows' \in Seq(Window) /\ WindowInv'
  <1>. DEFINE i == WindowPlace(u)
              e == Charged(u)
  <1>. windows \in Seq(Window) /\ now \in Nat
    BY Bounds DEF KindInv
  <1>1. DOMAIN windows = 1..Len(windows) /\ Len(windows) \in Nat
        /\ \A k \in 1..Len(windows) : windows[k] \in Window
    BY LenProperties, ElementOfSeq
  <1>2. /\ i \in 0..Len(windows)
        /\ i # 0 => windows[i].who = u
        /\ i = 0 => \A k \in 1..Len(windows) : windows[k].who # u
    <2>. DEFINE S == {k \in DOMAIN windows : windows[k].who = u}
    <2>1. S \in SUBSET (1..Len(windows))
      BY <1>1
    <2>2. Place(S) \in 0..Len(windows) /\ (Place(S) # 0 => Place(S) \in S) /\ (Place(S) = 0 => S = {})
      BY Zenon, <1>1, <2>1, PlaceFinds
    <2>. QED
      BY <1>1, <2>2 DEF WindowPlace
  <1>3. e \in Window
    <2>1. \A times \in Seq(Nat), c \in Int : Since(times, c) \in Seq(Nat)
      <3>. SUFFICES ASSUME NEW times \in Seq(Nat), NEW c \in Int
                    PROVE  Since(times, c) \in Seq(Nat)
        OBVIOUS
      <3>. DEFINE old == {k \in DOMAIN times : times[k] < c}
      <3>1. DOMAIN times = 1..Len(times) /\ Len(times) \in Nat
            /\ \A k \in 1..Len(times) : times[k] \in Nat
        BY LenProperties, ElementOfSeq
      <3>2. IsFiniteSet(DOMAIN times) /\ old \in SUBSET (DOMAIN times)
        BY <3>1, FS_Interval
      <3>3. Cardinality(old) \in Nat
        BY Zenon, <3>2, FS_Subset, FS_CardinalityType
      <3>. HIDE DEF old
      <3>4. SubSeq(times, 1 + Cardinality(old), Len(times)) \in Seq(Nat)
        BY <3>1, <3>3, SubSeqProperties
      <3>. QED
        BY <3>4 DEF Since, old
    <2>2. WindowOf(u) \in Seq(Nat)
      <3>1. i = 0 => WindowOf(u) = <<>>
        BY DEF WindowOf
      <3>2. i # 0 => WindowOf(u) = windows[i].times /\ windows[i] \in Window
        BY <1>1, <1>2 DEF WindowOf
      <3>. QED
        BY <3>1, <3>2, EmptySeq DEF Window
    <2>3. InDay(u) \in Seq(Nat)
      <3>1. now - Day \in Int
        BY Bounds
      <3>. QED
        BY <2>1, <2>2, <3>1 DEF InDay
    <2>4. Append(InDay(u), now) \in Seq(Nat)
      BY <2>3, AppendProperties, Zenon
    <2>. QED
      BY <2>3, <2>4 DEF Charged, Window
  <1>4. e.who = u
    BY DEF Charged
  <1>. HIDE DEF e, i
  <1>5. PICK g \in Seq(Window) : g = MovedToEnd(windows, i, e) /\ Moved(g, windows, i, e)
    BY Zenon, <1>2, <1>3, MovedToEndMoves
  <1>6. windows' = LastN(g, MaxWindows)
    BY <1>5 DEF Charge, i, e
  <1>7. \A j \in 1..(Len(g) - 1) : g[j].who # u
    <2>1. ASSUME NEW j \in 1..(Len(g) - 1)
          PROVE  g[j].who # u
      <3>1. PICK k \in 1..Len(windows) : k # i /\ g[j] = windows[k]
        BY Zenon, <1>5 DEF Moved
      <3>2. i # 0 => i \in DOMAIN windows /\ windows[i].who = u
        BY <1>1, <1>2
      <3>. QED
        BY Zenon, <1>1, <1>2, <3>1, <3>2 DEF WindowInv
    <2>. QED
      BY <2>1
  <1>8. \A j, k \in 1..Len(g) : g[j].who = g[k].who => j = k
    <2>1. ASSUME NEW j \in 1..(Len(g) - 1), NEW k \in 1..(Len(g) - 1), g[j].who = g[k].who
          PROVE  j = k
      <3>1. /\ Source(i, j) \in DOMAIN windows /\ g[j] = windows[Source(i, j)]
            /\ Source(i, k) \in DOMAIN windows /\ g[k] = windows[Source(i, k)]
        BY Zenon, <1>1, <1>5 DEF Moved
      <3>2. Source(i, j) = Source(i, k)
        BY Zenon, <2>1, <3>1 DEF WindowInv
      <3>. QED
        BY Zenon, <1>5, <3>2 DEF Moved
    <2>2. \A j \in 1..Len(g) : j = Len(g) \/ j \in 1..(Len(g) - 1)
      BY <1>5 DEF Moved
    <2>3. g[Len(g)].who = u
      BY Zenon, <1>4, <1>5 DEF Moved
    <2>. QED
      BY Zenon, <1>7, <2>1, <2>2, <2>3
  <1>9. PICK gap \in 0..Len(g) : Cut(windows', g, gap)
    <2>1. MaxWindows \in Nat \ {0} /\ Len(g) \in Nat
      BY Bounds, LenProperties
    <2>2. (IF Len(g) > MaxWindows THEN Len(g) - MaxWindows ELSE 0) \in 0..Len(g)
      BY <2>1
    <2>. QED
      BY Zenon, <1>6, <2>1, <2>2, LastNKeepsTheNewest
  <1>10. windows' \in Seq(Window) /\ Len(windows') <= MaxWindows
    BY Zenon, <1>6, Bounds, LastNKeepsTheNewest
  <1>12. DOMAIN windows' = 1..(Len(g) - gap) /\ Len(g) \in Nat
    BY Zenon, <1>9, <1>10, LenProperties DEF Cut
  <1>11. ASSUME NEW j \in DOMAIN windows', NEW k \in DOMAIN windows',
                windows'[j].who = windows'[k].who
         PROVE  j = k
    <2>1. j + gap \in 1..Len(g) /\ k + gap \in 1..Len(g) /\ (j + gap = k + gap => j = k)
      BY <1>12
    <2>2. windows'[j] = g[j + gap] /\ windows'[k] = g[k + gap]
      BY Zenon, <1>9, <1>12 DEF Cut
    <2>. QED
      BY Zenon, <1>8, <1>11, <2>1, <2>2
  <1>. QED
    BY Zenon, <1>10, <1>11 DEF WindowInv

-----------------------------------------------------------------------------
(* The dedupe store *)

\* A known mid has a place with an unexpired entry; an unknown one has at most
\* an expired entry in the store.
LEMMA KnownIsInTheStore ==
    ASSUME KindInv, StoreInv, NEW m \in Msgs
    PROVE  /\ Pruned \in Seq(Entry)
           /\ PlaceOf(m, Pruned) \in 0..Len(Pruned)
           /\ \A k \in DOMAIN Pruned : Pruned[k].mid = m <=> k = PlaceOf(m, Pruned)
           /\ \A k \in DOMAIN Pruned : \E n \in DOMAIN seen : Pruned[k] = seen[n]
           /\ \A k, n \in DOMAIN Pruned : Pruned[k].mid = Pruned[n].mid => k = n
           /\ \A n \in DOMAIN seen :
                 seen[n].expiry > now => \E k \in DOMAIN Pruned : Pruned[k] = seen[n]
  <1>. DEFINE i == PlaceOf(m, Pruned)
  <1>1. seen \in Seq(Entry) /\ now \in Nat /\ Len(seen) \in Nat
        /\ \A k, n \in DOMAIN seen : seen[k].mid = seen[n].mid => k = n
    BY LenProperties DEF KindInv, StoreInv
  <1>2. PICK p \in Seq(Entry) :
           p = Pruned /\ \E gap \in 0..Len(seen) : Cut(p, seen, gap) /\ Expired(gap)
    BY Zenon, <1>1, PrunedIsALaterPart
  <1>3. PICK gap \in 0..Len(seen) : Cut(p, seen, gap) /\ Expired(gap)
    BY Zenon, <1>2
  <1>4. /\ DOMAIN p = 1..(Len(seen) - gap) /\ DOMAIN seen = 1..Len(seen)
        /\ Len(p) = Len(seen) - gap
        /\ \A k \in 1..(Len(seen) - gap) : p[k] = seen[k + gap]
    BY Zenon, <1>1, <1>2, <1>3, LenProperties DEF Cut
  <1>5. \A k \in DOMAIN p : k + gap \in DOMAIN seen /\ p[k] = seen[k + gap]
    BY <1>1, <1>4
  <1>6. ASSUME NEW k \in DOMAIN p, NEW n \in DOMAIN p, p[k].mid = p[n].mid
        PROVE  k = n
    <2>1. k + gap = n + gap
      BY Zenon, <1>1, <1>5, <1>6
    <2>. QED
      BY <1>1, <1>4, <2>1
  <1>7. ASSUME NEW n \in DOMAIN seen, seen[n].expiry > now
        PROVE  \E k \in DOMAIN p : p[k] = seen[n]
    <2>1. n \notin 1..gap
      BY Zenon, <1>3, <1>7 DEF Expired
    <2>2. n - gap \in DOMAIN p /\ (n - gap) + gap = n
      BY <1>1, <1>4, <2>1
    <2>. QED
      BY Zenon, <1>5, <2>2
  <1>8. /\ i \in 0..Len(p)
        /\ \A k \in DOMAIN p : p[k].mid = m <=> k = i
    <2>. DEFINE S == {k \in DOMAIN p : p[k].mid = m}
    <2>1. S \in SUBSET (1..Len(p)) /\ Len(p) \in Nat
      BY <1>1, <1>4
    <2>2. Place(S) \in 0..Len(p) /\ (Place(S) # 0 => Place(S) \in S) /\ (Place(S) = 0 => S = {})
      BY Zenon, <2>1, PlaceFinds
    <2>3. i = Place(S)
      BY <1>2 DEF PlaceOf
    <2>4. 0 \notin DOMAIN p
      BY <1>4
    <2>5. i # 0 => i \in DOMAIN p /\ p[i].mid = m
      BY Zenon, <2>2, <2>3
    <2>6. i = 0 => \A k \in DOMAIN p : p[k].mid # m
      BY Zenon, <2>2, <2>3
    <2>. QED
      BY Zenon, <1>6, <2>2, <2>3, <2>4, <2>5, <2>6
  <1>. HIDE DEF i
  <1>9. \A k \in DOMAIN p : \E n \in DOMAIN seen : p[k] = seen[n]
    BY Zenon, <1>5
  <1>. QED
    BY Zenon, <1>2, <1>6, <1>7, <1>8, <1>9 DEF i

\* What one call of seen(mid) does to the store.
Remembered(m) ==
    /\ seen' \in Seq(Entry) /\ Len(seen') <= MaxSeen
    /\ \A j, k \in DOMAIN seen' : seen'[j].mid = seen'[k].mid => j = k
    /\ forgotten' \subseteq Msgs /\ \A x \in forgotten : x # m => x \in forgotten'
    /\ \A j \in DOMAIN seen' :
          \/ ~Known(m) /\ seen'[j] = [mid |-> m, expiry |-> now + Ttl]
          \/ \E n \in DOMAIN seen : seen'[j] = seen[n] /\ (seen[n].mid # m \/ Known(m))
    /\ \E j \in DOMAIN seen' : seen'[j].mid = m
    /\ \A n \in DOMAIN seen : seen[n].mid # m =>
          \/ ~(seen[n].expiry > now)
          \/ seen[n].mid \in forgotten'
          \/ \E j \in DOMAIN seen' : seen'[j].mid = seen[n].mid
    /\ Known(m) => \E n \in DOMAIN seen : seen[n].mid = m
    /\ ~Known(m) => \A n \in DOMAIN seen : seen[n].mid = m => ~(seen[n].expiry > now)

LEMMA RememberKeepsTheStore ==
    ASSUME KindInv, StoreInv, NEW m \in Msgs, Remember(m)
    PROVE  Remembered(m)
  <1>1. PICK p \in Seq(Entry) : p = Pruned
    BY Zenon, KnownIsInTheStore
  <1>2. PICK i \in 0..Len(p) : i = PlaceOf(m, p)
    BY Zenon, <1>1, KnownIsInTheStore
  <1>3. /\ \A k \in DOMAIN p : p[k].mid = m <=> k = i
        /\ \A k \in DOMAIN p : \E n \in DOMAIN seen : p[k] = seen[n]
        /\ \A k, n \in DOMAIN p : p[k].mid = p[n].mid => k = n
        /\ \A n \in DOMAIN seen : seen[n].expiry > now => \E k \in DOMAIN p : p[k] = seen[n]
    BY Zenon, <1>1, <1>2, KnownIsInTheStore
  <1>4. DOMAIN p = 1..Len(p) /\ Len(p) \in Nat /\ \A k \in DOMAIN p : p[k] \in Entry
    BY <1>1, LenProperties, ElementOfSeq
  <1>5. Known(m) <=> i # 0 /\ p[i].expiry > now
    BY Zenon, <1>1, <1>2 DEF Known
  <1>6. PICK e \in Entry : /\ e = IF Known(m) THEN p[i] ELSE [mid |-> m, expiry |-> now + Ttl]
                           /\ e.mid = m
    <2>1. CASE Known(m)
      <3>1. i \in DOMAIN p
        BY <1>4, <1>5, <2>1
      <3>. QED
        BY Zenon, <1>3, <1>4, <2>1, <3>1
    <2>2. CASE ~Known(m)
      <3>1. now + Ttl \in Nat
        <4>1. now \in 0..MaxTime /\ MaxTime \in Nat /\ Ttl \in Nat
          BY Zenon, ClockBounds DEF KindInv
        <4>. QED
          BY <4>1
      <3>2. [mid |-> m, expiry |-> now + Ttl] \in Entry
            /\ [mid |-> m, expiry |-> now + Ttl].mid = m
        BY <3>1 DEF Entry
      <3>. QED
        BY Zenon, <2>2, <3>2
    <2>. QED
      BY Zenon, <2>1, <2>2
  <1>7. PICK g \in Seq(Entry) : g = MovedToEnd(p, i, e) /\ Moved(g, p, i, e)
    BY Zenon, <1>1, <1>2, <1>6, MovedToEndMoves
  <1>8. g = Grown(m)
    BY Zenon, <1>1, <1>2, <1>6, <1>7 DEF Grown
  <1>9. seen' = LastN(g, MaxSeen) /\ forgotten' = Forgotten(m, g)
    BY Zenon, <1>8 DEF Remember
  <1>10. MaxSeen \in Nat \ {0} /\ Len(g) \in Nat \ {0} /\ DOMAIN g = 1..Len(g)
         /\ g[Len(g)] = e /\ \A k \in 1..Len(g) : g[k] \in Entry
    <2>1. MaxSeen \in Nat \ {0}
      BY Bounds
    <2>. QED
      BY Zenon, <1>7, <2>1, LenProperties, ElementOfSeq DEF Moved
  <1>11. /\ seen' \in Seq(Entry) /\ Len(seen') <= MaxSeen
         /\ Cut(seen', g, IF Len(g) > MaxSeen THEN Len(g) - MaxSeen ELSE 0)
    BY Zenon, <1>7, <1>9, <1>10, LastNKeepsTheNewest
  <1>12. PICK gap \in 0..(Len(g) - 1) :
            /\ Cut(seen', g, gap)
            /\ \A k \in 1..gap : k \in 1..(Len(g) - MaxSeen)
    <2>1. CASE Len(g) > MaxSeen
      <3>1. Len(g) - MaxSeen \in 0..(Len(g) - 1)
        BY <1>10, <2>1
      <3>. QED
        BY Zenon, <1>11, <2>1, <3>1
    <2>2. CASE ~(Len(g) > MaxSeen)
      <3>1. 0 \in 0..(Len(g) - 1) /\ 1..0 = {}
        BY <1>10
      <3>. QED
        BY Zenon, <1>11, <2>2, <3>1
    <2>. QED
      BY Zenon, <2>1, <2>2
  <1>13. /\ DOMAIN seen' = 1..(Len(g) - gap)
         /\ \A j \in 1..(Len(g) - gap) : seen'[j] = g[j + gap]
    BY Zenon, <1>11, <1>12, LenProperties DEF Cut
  <1>14. \A j \in DOMAIN seen' : j + gap \in 1..Len(g) /\ seen'[j] = g[j + gap]
    BY <1>10, <1>13
  <1>15. \A k \in 1..Len(g) : k = Len(g) \/ k \in 1..(Len(g) - 1)
    <2>1. Len(g) \in Nat \ {0}
      BY Zenon, <1>10
    <2>. QED
      BY <2>1
  <1>16. \A k \in 1..(Len(g) - 1) : \E n \in DOMAIN p : n # i /\ g[k] = p[n] /\ p[n].mid # m
    <2>1. \A k \in 1..(Len(g) - 1) : \E n \in 1..Len(p) : n # i /\ g[k] = p[n]
      BY Zenon, <1>7 DEF Moved
    <2>. QED
      BY Zenon, <1>3, <1>4, <2>1
  <1>17. \A k, n \in 1..Len(g) : g[k].mid = g[n].mid => k = n
    <2>1. ASSUME NEW k \in 1..(Len(g) - 1), NEW n \in 1..(Len(g) - 1), g[k].mid = g[n].mid
          PROVE  k = n
      <3>1. /\ Source(i, k) \in DOMAIN p /\ g[k] = p[Source(i, k)]
            /\ Source(i, n) \in DOMAIN p /\ g[n] = p[Source(i, n)]
        BY Zenon, <1>4, <1>7 DEF Moved
      <3>2. Source(i, k) = Source(i, n)
        BY Zenon, <1>3, <2>1, <3>1
      <3>. QED
        BY Zenon, <1>7, <3>2 DEF Moved
    <2>2. \A k \in 1..(Len(g) - 1) : g[k].mid # m
      BY Zenon, <1>16
    <2>. QED
      BY Zenon, <1>6, <1>10, <1>15, <2>1, <2>2
  <1>18. \A j, k \in DOMAIN seen' : seen'[j].mid = seen'[k].mid => j = k
    <2>1. \A j, k \in DOMAIN seen' : j + gap = k + gap => j = k
      BY <1>10, <1>13
    <2>. QED
      BY Zenon, <1>14, <1>17, <2>1
  <1>19. \A k \in 1..(Len(g) - MaxSeen) : g[k].mid \in forgotten'
    BY <1>9 DEF Forgotten
  <1>20. forgotten' \subseteq Msgs /\ \A x \in forgotten : x # m => x \in forgotten'
    <2>1. \A k \in 1..(Len(g) - MaxSeen) : k \in 1..Len(g)
      BY <1>10
    <2>2. \A k \in 1..(Len(g) - MaxSeen) : g[k].mid \in Msgs
      <3>1. \A x \in Entry : x.mid \in Msgs
        BY DEF Entry
      <3>. QED
        BY Zenon, <1>10, <2>1, <3>1
    <2>3. forgotten \subseteq Msgs
      BY DEF KindInv
    <2>. QED
      BY <1>9, <2>2, <2>3 DEF Forgotten
  <1>21. \E j \in DOMAIN seen' : seen'[j].mid = m
    <2>1. Len(g) - gap \in 1..(Len(g) - gap) /\ (Len(g) - gap) + gap = Len(g)
      BY <1>10
    <2>2. seen'[Len(g) - gap] = g[(Len(g) - gap) + gap]
      BY Zenon, <1>13, <2>1
    <2>. QED
      BY Zenon, <1>6, <1>10, <1>13, <2>1, <2>2
  <1>22. \A j \in DOMAIN seen' :
            \/ ~Known(m) /\ seen'[j] = [mid |-> m, expiry |-> now + Ttl]
            \/ \E n \in DOMAIN seen : seen'[j] = seen[n] /\ (seen[n].mid # m \/ Known(m))
    <2>1. ASSUME NEW j \in DOMAIN seen', j + gap \in 1..(Len(g) - 1)
          PROVE  \E n \in DOMAIN seen : seen'[j] = seen[n] /\ seen[n].mid # m
      <3>1. PICK k \in DOMAIN p : g[j + gap] = p[k] /\ p[k].mid # m
        BY Zenon, <1>16, <2>1
      <3>2. PICK n \in DOMAIN seen : p[k] = seen[n]
        BY Zenon, <1>3
      <3>3. seen'[j] = seen[n] /\ seen[n].mid # m
        BY Zenon, <1>14, <3>1, <3>2
      <3>. QED
        BY Zenon, <3>3
    <2>2. ASSUME NEW j \in DOMAIN seen', j + gap = Len(g), Known(m)
          PROVE  \E n \in DOMAIN seen : seen'[j] = seen[n]
      <3>1. i \in DOMAIN p
        BY <1>4, <1>5, <2>2
      <3>2. seen'[j] = p[i]
        BY Zenon, <1>6, <1>10, <1>14, <2>2
      <3>3. PICK n \in DOMAIN seen : p[i] = seen[n]
        BY Zenon, <1>3, <3>1
      <3>4. seen'[j] = seen[n]
        BY Zenon, <3>2, <3>3
      <3>. QED
        BY Zenon, <3>4
    <2>3. ASSUME NEW j \in DOMAIN seen', j + gap = Len(g), ~Known(m)
          PROVE  seen'[j] = [mid |-> m, expiry |-> now + Ttl]
      BY Zenon, <1>6, <1>10, <1>14, <2>3
    <2>. QED
      BY Zenon, <1>14, <1>15, <2>1, <2>2, <2>3
  <1>23. ASSUME NEW n \in DOMAIN seen, seen[n].mid # m, seen[n].expiry > now
         PROVE  seen[n].mid \in forgotten' \/ \E j \in DOMAIN seen' : seen'[j].mid = seen[n].mid
    <2>1. PICK k \in DOMAIN p : p[k] = seen[n]
      BY Zenon, <1>3, <1>23
    <2>2. k \in 1..Len(p) /\ k # i
      BY Zenon, <1>3, <1>4, <1>23, <2>1
    <2>3. PICK q \in 1..(Len(g) - 1) : g[q] = p[k]
      BY Zenon, <1>7, <2>2 DEF Moved
    <2>4. CASE q \in 1..gap
      BY Zenon, <1>12, <1>19, <2>1, <2>3, <2>4
    <2>5. CASE q \notin 1..gap
      <3>1. q - gap \in 1..(Len(g) - gap) /\ (q - gap) + gap = q
        BY <1>10, <2>5
      <3>2. seen'[q - gap] = g[(q - gap) + gap]
        BY Zenon, <1>13, <3>1
      <3>. QED
        BY Zenon, <1>13, <2>1, <2>3, <3>1, <3>2
    <2>. QED
      BY <2>4, <2>5
  <1>24. Known(m) => \E n \in DOMAIN seen : seen[n].mid = m
    <2>1. SUFFICES ASSUME i # 0
                   PROVE  \E n \in DOMAIN seen : seen[n].mid = m
      BY Zenon, <1>5
    <2>2. i \in DOMAIN p
      BY <1>4, <2>1
    <2>3. PICK n \in DOMAIN seen : p[i] = seen[n]
      BY Zenon, <1>3, <2>2
    <2>4. p[i].mid = m
      BY Zenon, <1>3, <2>2
    <2>. QED
      BY Zenon, <2>3, <2>4
  <1>25. ASSUME ~Known(m), NEW n \in DOMAIN seen, seen[n].mid = m, seen[n].expiry > now
         PROVE  FALSE
    <2>1. PICK k \in DOMAIN p : p[k] = seen[n]
      BY Zenon, <1>3, <1>25
    <2>2. k = i /\ k # 0
      <3>1. k # 0
        BY <1>4
      <3>. QED
        BY Zenon, <1>3, <1>25, <2>1, <3>1
    <2>. QED
      BY Zenon, <1>5, <1>25, <2>1, <2>2
  <1>. QED
    BY Zenon, <1>11, <1>18, <1>20, <1>21, <1>22, <1>23, <1>24, <1>25 DEF Remembered

-----------------------------------------------------------------------------
(* The poller's offset *)

\* The later of two updates.
LEMMA MaxOfTwo ==
    ASSUME NEW a \in Nat, NEW b \in Nat
    PROVE  /\ Max({a, b}) \in Nat /\ a <= Max({a, b}) /\ b <= Max({a, b})
           /\ Max({a, b}) = a \/ Max({a, b}) = b
  <1>1. \E x \in {a, b} : \A y \in {a, b} : x >= y
    <2>1. CASE a >= b
      BY <2>1
    <2>2. CASE b >= a
      BY <2>2
    <2>. QED
      BY <2>1, <2>2
  <1>2. Max({a, b}) \in {a, b} /\ \A y \in {a, b} : Max({a, b}) >= y
    BY <1>1 DEF Max
  <1>. QED
    BY <1>2

\* An offset confirms what is below it, and never takes back what is confirmed.
LEMMA UptoIsTheLater ==
    ASSUME InboundInv
    PROVE  /\ Upto \in Nat /\ acked <= Upto
           /\ offset = Never => Upto = acked
           /\ offset # Never => offset - 1 \in Nat /\ offset - 1 <= Upto
           /\ Upto = acked \/ (offset # Never /\ Upto = offset - 1)
  <1>1. acked \in Nat /\ (offset = Never \/ offset \in Nat \ {0})
    BY DEF InboundInv, KindInv, PollInv
  <1>2. CASE offset = Never
    BY <1>1, <1>2 DEF Upto
  <1>3. CASE offset # Never
    <2>1. offset - 1 \in Nat
      BY <1>1, <1>3
    <2>. QED
      BY Zenon, <1>1, <1>3, <2>1, MaxOfTwo DEF Upto
  <1>. QED
    BY <1>2, <1>3

-----------------------------------------------------------------------------
(* The tasks *)

\* A task's first message and the rest of its batch.
LEMMA HeadAndTail ==
    ASSUME NEW s \in Seq(Msgs), s # <<>>
    PROVE  /\ Head(s) \in Msgs /\ Head(s) = s[1] /\ Len(s) \in Nat \ {0}
           /\ Tail(s) \in Seq(Msgs) /\ Len(Tail(s)) = Len(s) - 1
           /\ \A i \in 1..(Len(s) - 1) : Tail(s)[i] = s[i + 1]
           /\ Len(s) > 1 <=> Tail(s) # <<>>
           /\ \A m \in Range(s) : m = Head(s) \/ m \in Range(Tail(s))
  <1>1. /\ Head(s) \in Msgs /\ Head(s) = s[1]
        /\ Tail(s) \in Seq(Msgs) /\ Len(Tail(s)) = Len(s) - 1
        /\ \A i \in 1..(Len(s) - 1) : Tail(s)[i] = s[i + 1]
    <2>1. /\ Head(s) \in Msgs /\ Tail(s) \in Seq(Msgs)
          /\ Len(Tail(s)) = Len(s) - 1 /\ \A i \in 1..Len(Tail(s)) : Tail(s)[i] = s[i + 1]
      BY HeadTailProperties
    <2>2. Head(s) = s[1]
      OBVIOUS
    <2>. QED
      BY <2>1, <2>2
  <1>2. Len(s) \in Nat \ {0} /\ DOMAIN s = 1..Len(s)
    BY LenProperties, EmptySeq
  <1>3. Len(Tail(s)) = 0 <=> Tail(s) = <<>>
    BY Zenon, <1>1, EmptySeq
  <1>4. Len(s) > 1 <=> Tail(s) # <<>>
    BY <1>1, <1>2, <1>3
  <1>5. ASSUME NEW m \in Range(s)
        PROVE  m = Head(s) \/ m \in Range(Tail(s))
    <2>1. PICK i \in 1..Len(s) : m = s[i]
      BY <1>2 DEF Range
    <2>2. CASE i = 1
      BY <1>1, <2>1, <2>2
    <2>3. CASE i # 1
      <3>1. i - 1 \in 1..(Len(s) - 1) /\ (i - 1) + 1 = i
        BY <1>2, <2>3
      <3>2. Tail(s)[i - 1] = s[i]
        BY <1>1, <3>1
      <3>3. DOMAIN Tail(s) = 1..(Len(s) - 1)
        BY Zenon, <1>1, LenProperties
      <3>. QED
        BY Zenon, <2>1, <3>1, <3>2, <3>3 DEF Range
    <2>. QED
      BY <2>2, <2>3
  <1>. QED
    BY Zenon, <1>1, <1>2, <1>4, <1>5

\* Everything but one task stays.
Elsewhere(t) == \A q \in Tasks \ {t} : rest'[q] = rest[q] /\ state'[q] = state[q]

\* A task that goes on has the rest of its batch, and is no longer sending.
LEMMA GoOnMoves ==
    ASSUME KindInv, TaskInv, NEW t \in Tasks, rest[t] # <<>>,
           state[t] \in {"ready", "sending"}, running \in {Never, t}, GoOn(t),
           channel' = channel
    PROVE  /\ rest' \in [Tasks -> Seq(Msgs)] /\ state' \in [Tasks -> States]
           /\ TaskInv'
           /\ rest'[t] = Tail(rest[t]) /\ state'[t] # "sending" /\ Elsewhere(t)
  <1>1. rest \in [Tasks -> Seq(Msgs)] /\ state \in [Tasks -> States] /\ rest[t] \in Seq(Msgs)
    BY DEF KindInv
  <1>2. Tail(rest[t]) \in Seq(Msgs) /\ (Len(rest[t]) > 1 <=> Tail(rest[t]) # <<>>)
    BY Zenon, <1>1, HeadAndTail
  <1>3. /\ rest' = [rest EXCEPT ![t] = Tail(rest[t])]
        /\ running' = IF Len(rest[t]) > 1 THEN t ELSE Never
        /\ state' = [state EXCEPT ![t] =
                        IF Len(rest[t]) > 1 \/ t = Poller THEN "ready" ELSE "done"]
    BY DEF GoOn
  <1>4. rest' \in [Tasks -> Seq(Msgs)] /\ state' \in [Tasks -> States]
    BY <1>1, <1>2, <1>3 DEF States
  <1>5. /\ rest'[t] = Tail(rest[t])
        /\ state'[t] = IF Len(rest[t]) > 1 \/ t = Poller THEN "ready" ELSE "done"
    BY <1>1, <1>3
  <1>6. Elsewhere(t)
    BY <1>1, <1>3 DEF Elsewhere
  <1>7. \A q \in Tasks : /\ state'[q] \notin {"ready", "sending"} => rest'[q] = <<>>
                         /\ state'[q] = "sending" => rest'[q] # <<>>
    <2>1. state'[t] \notin {"ready", "sending"} => rest'[t] = <<>>
      BY <1>2, <1>5
    <2>2. state'[t] # "sending"
      BY <1>5
    <2>. QED
      BY Zenon, <1>6, <2>1, <2>2 DEF TaskInv, Elsewhere
  <1>8. running' # Never =>
            running' \in Tasks /\ state'[running'] = "ready" /\ rest'[running'] # <<>>
    <2>1. CASE Len(rest[t]) > 1
      <3>1. running' = t /\ state'[t] = "ready"
        BY <1>3, <1>5, <2>1
      <3>2. rest'[t] # <<>>
        BY Zenon, <1>2, <1>5, <2>1
      <3>. QED
        BY Zenon, <3>1, <3>2
    <2>2. CASE ~(Len(rest[t]) > 1)
      BY Zenon, <1>3, <2>2
    <2>. QED
      BY <2>1, <2>2
  <1>9. state'[Poller] \in {"starting", "ready", "sending", "ended"} <=> channel' = "telegram"
    <2>1. CASE t = Poller
      <3>1. state[Poller] \in {"starting", "ready", "sending", "ended"}
        BY <2>1
      <3>2. state'[Poller] \in {"starting", "ready", "sending", "ended"}
        BY <1>5, <2>1
      <3>. QED
        BY Zenon, <3>1, <3>2 DEF TaskInv
    <2>2. CASE t # Poller
      BY Zenon, <1>6, <2>2, Bounds DEF TaskInv, Elsewhere
    <2>. QED
      BY <2>1, <2>2
  <1>. QED
    BY Zenon, <1>4, <1>5, <1>6, <1>7, <1>8, <1>9 DEF TaskInv

\* The actions of a task that end in GoOn, as one.
Advance(t) == t \in Tasks /\ \/ DropDuplicate(t) \/ Accept(t) \/ LineSent(t)
                             \/ (t = Poller /\ SkipUpdate)

\* What holds of a task that takes its next message.
LEMMA AdvanceGoesOn ==
    ASSUME InboundInv, NEW t, Advance(t)
    PROVE  /\ t \in Tasks /\ rest[t] # <<>> /\ state[t] \in {"ready", "sending"}
           /\ rest[t] \in Seq(Msgs) /\ Head(rest[t]) \in Msgs
           /\ running \in {Never, t} /\ GoOn(t) /\ channel' = channel
           /\ from' = from /\ sent' = sent /\ body' = body /\ now' = now /\ acked' = acked
           /\ offset' = IF t = Poller THEN Head(rest[t]) + 1 ELSE offset
  <1>0. t \in Tasks /\ rest[t] \in Seq(Msgs)
    BY DEF Advance, InboundInv, KindInv
  <1>1. /\ rest[t] # <<>> /\ state[t] \in {"ready", "sending"}
        /\ running \in {Never, t} /\ GoOn(t) /\ channel' = channel
        /\ from' = from /\ sent' = sent /\ body' = body /\ now' = now /\ acked' = acked
        /\ \/ offset' = IF t = Poller THEN Head(rest[t]) + 1 ELSE offset
           \/ state[t] = "sending" /\ offset' = offset
    BY Zenon, <1>0 DEF Advance, DropDuplicate, Accept, LineSent, SkipUpdate, AtHead, MoveOffset, poll,
        InboundInv, TaskInv
  <1>2. Head(rest[t]) \in Msgs /\ Head(rest[t]) = rest[t][1]
    BY Zenon, <1>0, <1>1, HeadAndTail
  <1>3. state[Poller] = "sending" => offset = rest[Poller][1] + 1
    BY Zenon DEF InboundInv, PollInv
  <1>4. offset' = IF t = Poller THEN Head(rest[t]) + 1 ELSE offset
    BY Zenon, <1>1, <1>2, <1>3
  <1>. QED
    BY Zenon, <1>0, <1>1, <1>2, <1>4

\* A task that gives up its batch.
Drop(t, outcome) ==
    /\ rest' = [rest EXCEPT ![t] = <<>>]
    /\ state' = [state EXCEPT ![t] = outcome]

\* A new background task.
Began(p, msgs) ==
    /\ rest' = [rest EXCEPT ![p] = msgs]
    /\ state' = [state EXCEPT ![p] = IF msgs = <<>> THEN "done" ELSE "ready"]

\* Redeliver and Post start a task that has not been used.
LEMMA StartsAfresh ==
    ASSUME InboundInv, NEW msgs \in Seq(Msgs), Start(msgs)
    PROVE  \E p \in Posts : /\ state[p] = "none" /\ rest[p] = <<>> /\ p # running
                            /\ p \in Tasks \ {Poller} /\ Began(p, msgs)
                            /\ body' = [body EXCEPT ![p] = msgs]
                            /\ running' = running /\ channel' = channel /\ from' = from
                            /\ offset' = offset /\ acked' = acked
                            /\ windows' = windows /\ seen' = seen /\ now' = now
                            /\ entered_at' = entered_at /\ forgotten' = forgotten
  <1>1. PICK p \in Posts : /\ \A q \in Posts : q < p <=> state[q] # "none"
                           /\ Began(p, msgs)
                           /\ body' = [body EXCEPT ![p] = msgs]
                           /\ running' = running /\ channel' = channel /\ from' = from
                           /\ offset' = offset /\ acked' = acked
                           /\ windows' = windows /\ seen' = seen /\ now' = now
                           /\ entered_at' = entered_at /\ forgotten' = forgotten
    BY Zenon DEF Start, Began, poll, limits
  <1>2. ~(p < p) /\ p \in Tasks \ {Poller}
    BY DEF Posts, Tasks, Poller
  <1>3. state[p] = "none"
    BY Zenon, <1>1, <1>2
  <1>4. rest[p] = <<>> /\ p # running
    <2>1. state[p] \notin {"ready", "sending"}
      BY <1>3
    <2>. QED
      BY Zenon, <1>2, <2>1, Bounds DEF InboundInv, TaskInv
  <1>. QED
    BY Zenon, <1>1, <1>2, <1>3, <1>4

\* The texts Meta posts are messages.
LEMMA PostStarts ==
    ASSUME InboundInv, NEW n \in 1..2, Post(n)
    PROVE  \E msgs \in Seq(Msgs) :
              /\ channel = "messenger" /\ sent + n <= MaxMsgs
              /\ sent' = sent + n /\ fate' = fate
              /\ Range(msgs) = {m \in (sent + 1)..(sent + n) : from[m] # NoText}
              /\ Start(msgs)
  <1>1. sent \in Nat /\ MaxMsgs \in Nat
    BY Bounds DEF InboundInv, KindInv
  <1>2. sent + n <= MaxMsgs
    BY DEF Post
  <1>3. PICK msgs \in UNION {[1..k -> (sent + 1)..(sent + n)] : k \in 0..n} :
           /\ Range(msgs) = {m \in (sent + 1)..(sent + n) : from[m] # NoText}
           /\ Start(msgs)
    BY Zenon DEF Post
  <1>4. PICK k \in 0..n : msgs \in [1..k -> (sent + 1)..(sent + n)]
    BY <1>3
  <1>5. k \in Nat /\ \A i \in 1..k : msgs[i] \in Msgs
    BY <1>1, <1>2, <1>4 DEF Msgs
  <1>6. msgs \in Seq(Msgs)
    BY <1>4, <1>5, SeqDef
  <1>. QED
    BY Zenon, <1>3, <1>6 DEF Post

\* The kinds of the batches and of the tasks' states, and the tasks' invariant.
LEMMA TasksKept ==
    ASSUME InboundInv, [Next]_vars
    PROVE  rest' \in [Tasks -> Seq(Msgs)] /\ state' \in [Tasks -> States] /\ TaskInv'
  <1>. USE DEF InboundInv
  <1>1. rest \in [Tasks -> Seq(Msgs)] /\ state \in [Tasks -> States] /\ TaskInv /\ KindInv
    BY DEF KindInv
  <1>2. ASSUME NEW t, Advance(t)
        PROVE  rest' \in [Tasks -> Seq(Msgs)] /\ state' \in [Tasks -> States] /\ TaskInv'
    BY Zenon, <1>1, <1>2, AdvanceGoesOn, GoOnMoves
  <1>3. ASSUME NEW t \in Tasks, Refuse(t)
        PROVE  rest' \in [Tasks -> Seq(Msgs)] /\ state' \in [Tasks -> States] /\ TaskInv'
    <2>1. /\ state[t] = "ready" /\ rest[t] # <<>> /\ rest' = rest
          /\ state' = [state EXCEPT ![t] = "sending"] /\ running' = Never /\ channel' = channel
      BY Zenon, <1>3 DEF Refuse, AtHead
    <2>2. state' \in [Tasks -> States]
      BY <1>1, <2>1 DEF States
    <2>3. \A q \in Tasks : state'[q] = IF q = t THEN "sending" ELSE state[q]
      BY <1>1, <2>1
    <2>4. t = Poller => channel = "telegram"
      BY <1>1, <2>1 DEF TaskInv
    <2>. QED
      BY <1>1, <2>1, <2>2, <2>3, <2>4, Bounds DEF TaskInv
  <1>4. ASSUME NEW t \in Tasks, SendRaises(t)
        PROVE  rest' \in [Tasks -> Seq(Msgs)] /\ state' \in [Tasks -> States] /\ TaskInv'
    <2>1. /\ state[t] = "sending" /\ rest' = [rest EXCEPT ![t] = <<>>]
          /\ state' = [state EXCEPT ![t] = IF t = Poller THEN "ended" ELSE "done"]
          /\ running' = running /\ running = Never /\ channel' = channel
      BY Zenon, <1>4 DEF SendRaises
    <2>2. rest' \in [Tasks -> Seq(Msgs)] /\ state' \in [Tasks -> States]
      BY <1>1, <2>1, EmptySeq DEF States
    <2>3. \A q \in Tasks : /\ state'[q] = IF q = t THEN IF t = Poller THEN "ended" ELSE "done"
                                          ELSE state[q]
                           /\ rest'[q] = IF q = t THEN <<>> ELSE rest[q]
      BY <1>1, <2>1
    <2>4. t = Poller => channel = "telegram"
      BY <1>1, <2>1 DEF TaskInv
    <2>. QED
      BY <1>1, <2>1, <2>2, <2>3, <2>4, Bounds DEF TaskInv
  <1>5. ASSUME NEW msgs \in Seq(Msgs), Start(msgs)
        PROVE  rest' \in [Tasks -> Seq(Msgs)] /\ state' \in [Tasks -> States] /\ TaskInv'
    <2>1. PICK p \in Posts : /\ state[p] = "none" /\ rest[p] = <<>> /\ p # running
                             /\ p \in Tasks \ {Poller} /\ Began(p, msgs)
                             /\ running' = running /\ channel' = channel
      BY Zenon, <1>5, StartsAfresh
    <2>2. rest' \in [Tasks -> Seq(Msgs)] /\ state' \in [Tasks -> States]
      BY <1>1, <1>5, <2>1 DEF States, Began
    <2>3. \A q \in Tasks : /\ state'[q] = IF q = p THEN IF msgs = <<>> THEN "done" ELSE "ready"
                                          ELSE state[q]
                           /\ rest'[q] = IF q = p THEN msgs ELSE rest[q]
      BY <1>1, <2>1 DEF Began
    <2>. QED
      BY <1>1, <2>1, <2>2, <2>3, Bounds DEF TaskInv
  <1>6. ASSUME state[Poller] = "starting", state' = [state EXCEPT ![Poller] = "ready"],
               rest' = rest, running' = running, channel' = channel
        PROVE  rest' \in [Tasks -> Seq(Msgs)] /\ state' \in [Tasks -> States] /\ TaskInv'
    <2>1. state' \in [Tasks -> States]
      BY <1>1, <1>6 DEF States
    <2>2. \A q \in Tasks : state'[q] = IF q = Poller THEN "ready" ELSE state[q]
      BY <1>1, <1>6
    <2>3. channel = "telegram" /\ running # Poller
      BY <1>1, <1>6, Bounds DEF TaskInv
    <2>. QED
      BY <1>1, <1>6, <2>1, <2>2, <2>3, Bounds DEF TaskInv
  <1>7. CASE GetUpdates
    <2>. DEFINE batch == [i \in 1..(sent - Upto) |-> Upto + i]
    <2>1. /\ state[Poller] = "ready" /\ rest[Poller] = <<>> /\ running = Never
          /\ rest' = [rest EXCEPT ![Poller] = batch]
          /\ state' = state /\ running' = running /\ channel' = channel
      BY Zenon, <1>7 DEF GetUpdates, Upto
    <2>2. Upto \in Nat /\ sent \in Nat /\ sent <= MaxMsgs /\ MaxMsgs \in Nat /\ Upto <= sent
      <3>1. Through = Upto /\ Len(<<>>) = 0 /\ Upto \in Nat
        BY Zenon, <2>1, EmptySeq, UptoIsTheLater DEF Through
      <3>2. Upto + Len(<<>>) <= sent
        BY Zenon, <2>1, <3>1 DEF PollInv
      <3>3. sent \in 0..MaxMsgs
        BY DEF KindInv
      <3>. QED
        BY <3>1, <3>2, <3>3, Bounds
    <2>3. batch \in Seq(Msgs)
      <3>1. sent - Upto \in Nat /\ \A i \in 1..(sent - Upto) : Upto + i \in Msgs
        BY <2>2 DEF Msgs
      <3>. QED
        BY <3>1, SeqDef
    <2>. HIDE DEF batch
    <2>4. rest' \in [Tasks -> Seq(Msgs)] /\ \A q \in Tasks \ {Poller} : rest'[q] = rest[q]
      BY <1>1, <2>1, <2>3
    <2>. QED
      BY <1>1, <2>1, <2>4, Bounds DEF TaskInv
  <1>8. CASE Crash
    <2>1. /\ rest' = [t \in Tasks |-> <<>>]
          /\ state' = [t \in Tasks |-> IF t = Poller /\ channel = "telegram" THEN "starting"
                                       ELSE IF state[t] \in {"ready", "sending"} THEN "done"
                                       ELSE state[t]]
          /\ running' = Never /\ channel' = channel
      BY Zenon, <1>8 DEF Crash
    <2>2. \A q \in Tasks : /\ rest'[q] = <<>> /\ state'[q] \in States
                           /\ state'[q] \notin {"ready", "sending"}
      BY <1>1, <2>1 DEF States
    <2>3. state'[Poller] = IF channel = "telegram" THEN "starting"
                           ELSE IF state[Poller] \in {"ready", "sending"} THEN "done"
                           ELSE state[Poller]
      <3>1. Poller \in Tasks
        BY Zenon, Bounds
      <3>. QED
        BY <2>1, <3>1
    <2>4. rest' \in [Tasks -> Seq(Msgs)] /\ state' \in [Tasks -> States]
      BY <2>1, <2>2, EmptySeq
    <2>. QED
      BY <1>1, <2>1, <2>2, <2>3, <2>4 DEF TaskInv
  <1>9. ASSUME rest' = rest, state' = state, running' = running, channel' = channel
        PROVE  rest' \in [Tasks -> Seq(Msgs)] /\ state' \in [Tasks -> States] /\ TaskInv'
    BY <1>1, <1>9 DEF TaskInv
  <1>10. ASSUME NEW n \in 1..2, Post(n)
         PROVE  rest' \in [Tasks -> Seq(Msgs)] /\ state' \in [Tasks -> States] /\ TaskInv'
    BY Zenon, <1>5, <1>10, PostStarts
  <1>11. ASSUME NEW q \in Posts, Redeliver(q)
         PROVE  rest' \in [Tasks -> Seq(Msgs)] /\ state' \in [Tasks -> States] /\ TaskInv'
    <2>1. body[q] \in Seq(Msgs)
      BY DEF KindInv
    <2>. QED
      BY Zenon, <1>5, <1>11, <2>1 DEF Redeliver
  <1>. QED
    BY Zenon, <1>2, <1>3, <1>4, <1>6, <1>7, <1>8, <1>9, <1>10, <1>11, Bounds
       DEF Next, Process, Poll, Advance, DeleteWebhook, DeleteWebhookFails, GetUpdatesRaises,
           Write, Tick, vars, tvars

-----------------------------------------------------------------------------
(* The windows and the store *)

\* A message with a text has a customer.
LEMMA WriterOf ==
    ASSUME KindInv, NEW m \in Msgs, from[m] # NoText
    PROVE  from[m] \in Users
  BY DEF KindInv

LEMMA WindowsKept ==
    ASSUME InboundInv, [Next]_vars
    PROVE  windows' \in Seq(Window) /\ WindowInv'
  <1>1. KindInv /\ WindowInv /\ windows \in Seq(Window)
    BY DEF InboundInv, KindInv
  <1>2. ASSUME NEW t \in Tasks, rest[t] # <<>>, from[Head(rest[t])] # NoText,
               Charge(from[Head(rest[t])])
        PROVE  windows' \in Seq(Window) /\ WindowInv'
    <2>1. rest[t] \in Seq(Msgs)
      BY <1>1 DEF KindInv
    <2>2. Head(rest[t]) \in Msgs
      BY Zenon, <1>2, <2>1, HeadAndTail
    <2>. QED
      BY Zenon, <1>1, <1>2, <2>2, WriterOf, ChargeKeepsTheWindows
  <1>3. ASSUME windows' = windows
        PROVE  windows' \in Seq(Window) /\ WindowInv'
    BY Zenon, <1>1, <1>3 DEF WindowInv
  <1>4. ASSUME windows' = <<>>
        PROVE  windows' \in Seq(Window) /\ WindowInv'
    <2>1. <<>> \in Seq(Window) /\ Len(<<>>) <= MaxWindows /\ DOMAIN <<>> = {}
      BY Bounds, EmptySeq
    <2>. QED
      BY Zenon, <1>4, <2>1 DEF WindowInv
  <1>5. ASSUME NEW msgs, Start(msgs)
        PROVE  windows' = windows
    BY Zenon, <1>5 DEF Start, limits
  <1>. QED
    BY Zenon, <1>2, <1>3, <1>4, <1>5
       DEF Next, Process, Poll, Refuse, DropDuplicate, Accept, LineSent, SendRaises, SkipUpdate,
           AtHead, Post, Redeliver, DeleteWebhook, DeleteWebhookFails, GetUpdates,
           GetUpdatesRaises, Write, Crash, Tick, vars, limits

\* What has entered the buffer stays so, and the others do not enter.
Unentered ==
    /\ entered_at' = entered_at /\ from' = from
    /\ \A m \in Msgs : fate[m] = "entered" => fate'[m] = "entered"

\* Without an entry made the store keeps its promise while the clock goes on.
LEMMA StoreStays ==
    ASSUME KindInv, StoreInv, seen' = seen, forgotten' = forgotten, Unentered,
           now' \in Nat, now <= now'
    PROVE  StoreInv'
  <1>1. Len(seen') <= MaxSeen /\ \A i, j \in DOMAIN seen' : seen'[i].mid = seen'[j].mid => i = j
    BY Zenon DEF StoreInv
  <1>2. \A i \in DOMAIN seen' : /\ entered_at'[seen'[i].mid] # Never
                                /\ seen'[i].expiry = entered_at'[seen'[i].mid] + Ttl
    BY Zenon DEF StoreInv, Unentered
  <1>3. ASSUME NEW m \in Msgs, entered_at'[m] # Never
        PROVE  /\ fate'[m] = "entered" /\ from'[m] # NoText
               /\ \/ now' >= entered_at'[m] + Ttl
                  \/ m \in forgotten'
                  \/ \E i \in DOMAIN seen' : seen'[i].mid = m
    <2>1. entered_at'[m] = entered_at[m] /\ entered_at[m] # Never
      BY Zenon, <1>3 DEF Unentered
    <2>2. now >= entered_at[m] + Ttl => now' >= entered_at[m] + Ttl
      <3>1. entered_at[m] \in Nat /\ now \in Nat /\ Ttl \in Nat
        BY <2>1, Bounds DEF KindInv
      <3>. QED
        BY <3>1
    <2>. QED
      BY Zenon, <2>1, <2>2 DEF StoreInv, Unentered
  <1>. QED
    BY Zenon, <1>1, <1>2, <1>3 DEF StoreInv

\* A call of seen(mid) keeps the promise, with a message that enters and with
\* one that does not.
LEMMA StoreRemembers ==
    ASSUME KindInv, StoreInv, NEW m \in Msgs, Remembered(m), from' = from, now' = now,
           from[m] # NoText,
           \/ /\ ~Known(m) /\ fate' = [fate EXCEPT ![m] = "entered"]
              /\ entered_at' = [entered_at EXCEPT ![m] = now]
           \/ Known(m) /\ fate' = fate /\ entered_at' = entered_at
    PROVE  StoreInv'
  <1>1. now \in Nat /\ now # Never /\ \A x \in Msgs : entered_at[x] \in Nat \cup {Never}
    BY SMTT(30), Bounds DEF KindInv
  <1>2. /\ \A x \in Msgs : x # m => entered_at'[x] = entered_at[x] /\ fate'[x] = fate[x]
        /\ Known(m) => entered_at'[m] = entered_at[m] /\ fate'[m] = fate[m]
        /\ ~Known(m) => entered_at'[m] = now /\ fate'[m] = "entered"
    BY DEF KindInv
  <1>3. \A n \in DOMAIN seen : seen[n].mid \in Msgs
    <2>1. seen \in Seq(Entry) /\ DOMAIN seen = 1..Len(seen)
      BY LenProperties DEF KindInv
    <2>2. \A n \in DOMAIN seen : seen[n] \in Entry
      BY Zenon, <2>1, ElementOfSeq
    <2>3. \A x \in Entry : x.mid \in Msgs
      BY DEF Entry
    <2>. QED
      BY Zenon, <2>2, <2>3
  <1>4. ASSUME NEW j \in DOMAIN seen'
        PROVE  /\ entered_at'[seen'[j].mid] # Never
               /\ seen'[j].expiry = entered_at'[seen'[j].mid] + Ttl
    <2>1. CASE ~Known(m) /\ seen'[j] = [mid |-> m, expiry |-> now + Ttl]
      <3>1. seen'[j].mid = m /\ seen'[j].expiry = now + Ttl
        BY <2>1
      <3>. QED
        BY Zenon, <1>1, <1>2, <2>1, <3>1
    <2>2. ASSUME NEW n \in DOMAIN seen, seen'[j] = seen[n], seen[n].mid # m \/ Known(m)
          PROVE  /\ entered_at'[seen'[j].mid] # Never
                 /\ seen'[j].expiry = entered_at'[seen'[j].mid] + Ttl
      <3>1. entered_at'[seen[n].mid] = entered_at[seen[n].mid]
        BY Zenon, <1>2, <1>3, <2>2
      <3>2. /\ entered_at[seen[n].mid] # Never
            /\ seen[n].expiry = entered_at[seen[n].mid] + Ttl
        BY Zenon DEF StoreInv
      <3>. QED
        BY <2>2, <3>1, <3>2
    <2>. QED
      BY Zenon, <2>1, <2>2 DEF Remembered
  <1>5. ASSUME NEW x \in Msgs, entered_at'[x] # Never
        PROVE  /\ fate'[x] = "entered" /\ from'[x] # NoText
               /\ \/ now' >= entered_at'[x] + Ttl
                  \/ x \in forgotten'
                  \/ \E j \in DOMAIN seen' : seen'[j].mid = x
    <2>1. CASE x = m
      <3>1. \E j \in DOMAIN seen' : seen'[j].mid = x
        BY Zenon, <2>1 DEF Remembered
      <3>2. fate'[m] = "entered"
        BY Zenon, <1>2, <1>5, <2>1 DEF StoreInv
      <3>. QED
        BY Zenon, <2>1, <3>1, <3>2
    <2>2. CASE x # m
      <3>1. /\ entered_at'[x] = entered_at[x] /\ fate'[x] = fate[x] /\ entered_at[x] # Never
        BY Zenon, <1>2, <1>5, <2>2
      <3>2. fate[x] = "entered" /\ from[x] # NoText
            /\ (now >= entered_at[x] + Ttl \/ x \in forgotten
                \/ \E n \in DOMAIN seen : seen[n].mid = x)
        BY Zenon, <3>1 DEF StoreInv
      <3>3. ASSUME NEW n \in DOMAIN seen, seen[n].mid = x
            PROVE  \/ now >= entered_at[x] + Ttl
                   \/ x \in forgotten'
                   \/ \E j \in DOMAIN seen' : seen'[j].mid = x
        <4>1. seen[n].expiry = entered_at[x] + Ttl
          BY Zenon, <3>3 DEF StoreInv
        <4>2. ~(seen[n].expiry > now) => now >= entered_at[x] + Ttl
          <5>1. entered_at[x] \in Nat /\ Ttl \in Nat
            BY <1>1, <3>1, Bounds
          <5>. QED
            BY <1>1, <4>1, <5>1
        <4>. QED
          BY Zenon, <2>2, <3>3, <4>2 DEF Remembered
      <3>4. x \in forgotten => x \in forgotten'
        BY Zenon, <2>2 DEF Remembered
      <3>. QED
        BY Zenon, <3>1, <3>2, <3>3, <3>4
    <2>. QED
      BY <2>1, <2>2
  <1>6. Len(seen') <= MaxSeen
        /\ \A j, k \in DOMAIN seen' : seen'[j].mid = seen'[k].mid => j = k
    BY Zenon DEF Remembered
  <1>. QED
    BY Zenon, <1>4, <1>5, <1>6 DEF StoreInv

\* Lose leaves what has entered.
LEMMA LoseLeavesTheEntered ==
    ASSUME KindInv, NEW ms, Lose(ms)
    PROVE  /\ fate' \in [Msgs -> Fates]
           /\ \A m \in Msgs : fate[m] = "entered" => fate'[m] = "entered"
           /\ \A m \in Msgs : fate[m] # "none" => fate'[m] # "none"
           /\ \A m \in Msgs : m \in ms => fate'[m] # "none"
  <1>1. /\ fate \in [Msgs -> Fates]
        /\ fate' = [m \in Msgs |-> IF m \in ms /\ fate[m] \in {"none", "refused"}
                                   THEN "lost" ELSE fate[m]]
    BY DEF KindInv, Lose
  <1>. QED
    BY <1>1 DEF Fates

\* The fates change as messages are taken, and no message becomes untouched.
LEMMA FatesKept ==
    ASSUME InboundInv, [Next]_vars
    PROVE  /\ fate' \in [Msgs -> Fates]
           /\ \A m \in Msgs : fate[m] # "none" => fate'[m] # "none"
  <1>1. fate \in [Msgs -> Fates] /\ KindInv
    BY DEF InboundInv, KindInv
  <1>2. ASSUME NEW m \in Msgs, NEW f \in Fates \ {"none"}, fate' = [fate EXCEPT ![m] = f]
        PROVE  /\ fate' \in [Msgs -> Fates]
               /\ \A x \in Msgs : fate[x] # "none" => fate'[x] # "none"
    BY <1>1, <1>2
  <1>3. ASSUME NEW t \in Tasks, Accept(t) \/ LineSent(t) \/ (t = Poller /\ SkipUpdate)
        PROVE  \E m \in Msgs, f \in Fates \ {"none"} : fate' = [fate EXCEPT ![m] = f]
    <2>1. Head(rest[t]) \in Msgs
      BY Zenon, <1>3, AdvanceGoesOn DEF Advance
    <2>2. {"entered", "ignored", "refused"} \subseteq Fates \ {"none"}
      BY DEF Fates
    <2>3. CASE Accept(t)
      BY Zenon, <2>1, <2>2, <2>3 DEF Accept
    <2>4. CASE t = Poller /\ SkipUpdate
      BY Zenon, <2>1, <2>2, <2>4 DEF SkipUpdate
    <2>5. CASE LineSent(t)
      <3>1. fate' = [fate EXCEPT ![Head(rest[t])] =
                        IF fate[Head(rest[t])] = "none" THEN "refused" ELSE fate[Head(rest[t])]]
        BY <1>1, <2>1, <2>5 DEF LineSent
      <3>2. (IF fate[Head(rest[t])] = "none" THEN "refused" ELSE fate[Head(rest[t])])
               \in Fates \ {"none"}
        BY <1>1, <2>1, <2>2
      <3>. QED
        BY Zenon, <2>1, <3>1, <3>2
    <2>. QED
      BY Zenon, <1>3, <2>3, <2>4, <2>5
  <1>4. ASSUME NEW ms, Lose(ms)
        PROVE  /\ fate' \in [Msgs -> Fates]
               /\ \A x \in Msgs : fate[x] # "none" => fate'[x] # "none"
    BY Zenon, <1>1, <1>4, LoseLeavesTheEntered
  <1>5. fate' = fate => /\ fate' \in [Msgs -> Fates]
                        /\ \A x \in Msgs : fate[x] # "none" => fate'[x] # "none"
    BY Zenon, <1>1
  <1>. QED
    BY Zenon, <1>2, <1>3, <1>4, <1>5, Bounds
       DEF Next, Process, Poll, Refuse, DropDuplicate, SendRaises,
           Post, Redeliver, DeleteWebhook, DeleteWebhookFails, GetUpdates,
           GetUpdatesRaises, Write, Crash, Tick, vars, hist

LEMMA StoreKept ==
    ASSUME InboundInv, [Next]_vars
    PROVE  seen' \in Seq(Entry) /\ forgotten' \subseteq Msgs /\ StoreInv'
  <1>1. /\ KindInv /\ StoreInv /\ seen \in Seq(Entry) /\ forgotten \subseteq Msgs
        /\ now \in Nat /\ now <= now /\ now <= now + 1 /\ now + 1 \in Nat
    <2>1. KindInv /\ StoreInv /\ seen \in Seq(Entry) /\ forgotten \subseteq Msgs
      BY Zenon DEF InboundInv, KindInv
    <2>2. now \in 0..MaxTime /\ MaxTime \in Nat
      BY Bounds DEF InboundInv, KindInv
    <2>3. now \in Nat /\ now <= now /\ now <= now + 1 /\ now + 1 \in Nat
      BY <2>2
    <2>. QED
      BY Zenon, <2>1, <2>3
  <1>2. ASSUME NEW t \in Tasks, DropDuplicate(t) \/ Accept(t)
        PROVE  seen' \in Seq(Entry) /\ forgotten' \subseteq Msgs /\ StoreInv'
    <2>. DEFINE m == Head(rest[t])
    <2>1. m \in Msgs
      BY Zenon, <1>2, AdvanceGoesOn DEF Advance
    <2>2. /\ Remember(m) /\ from[m] # NoText /\ from' = from /\ now' = now
          /\ \/ /\ ~Known(m) /\ fate' = [fate EXCEPT ![m] = "entered"]
                /\ entered_at' = [entered_at EXCEPT ![m] = now]
             \/ Known(m) /\ fate' = fate /\ entered_at' = entered_at
      BY Zenon, <1>2 DEF DropDuplicate, Accept
    <2>. HIDE DEF m
    <2>3. Remembered(m)
      BY Zenon, <1>1, <2>1, <2>2, RememberKeepsTheStore
    <2>4. StoreInv'
      BY Zenon, <1>1, <2>1, <2>2, <2>3, StoreRemembers
    <2>. QED
      BY Zenon, <2>3, <2>4 DEF Remembered
  <1>3. ASSUME seen' = seen, forgotten' = forgotten, entered_at' = entered_at, from' = from,
               now' = now \/ now' = now + 1,
               \A m \in Msgs : fate[m] = "entered" => fate'[m] = "entered"
        PROVE  seen' \in Seq(Entry) /\ forgotten' \subseteq Msgs /\ StoreInv'
    BY Zenon, <1>1, <1>3, StoreStays DEF Unentered
  <1>4. ASSUME fate' = fate
        PROVE  \A m \in Msgs : fate[m] = "entered" => fate'[m] = "entered"
    BY Zenon, <1>4
  <1>5. ASSUME NEW ms, Lose(ms)
        PROVE  \A m \in Msgs : fate[m] = "entered" => fate'[m] = "entered"
    BY Zenon, <1>1, <1>5, LoseLeavesTheEntered
  <1>6. ASSUME NEW t \in Tasks, LineSent(t)
        PROVE  \A m \in Msgs : fate[m] = "entered" => fate'[m] = "entered"
    BY <1>6 DEF LineSent, InboundInv, KindInv
  <1>7. ASSUME SkipUpdate
        PROVE  seen' \in Seq(Entry) /\ forgotten' \subseteq Msgs /\ StoreInv'
    <2>. DEFINE m == Head(rest[Poller])
    <2>1. m \in Msgs /\ from[m] = NoText /\ fate' = [fate EXCEPT ![m] = "ignored"]
          /\ seen' = seen /\ forgotten' = forgotten /\ entered_at' = entered_at
          /\ from' = from /\ now' = now
      BY Zenon, <1>7, Bounds, AdvanceGoesOn DEF Advance, SkipUpdate, limits
    <2>. HIDE DEF m
    <2>2. KindInv /\ \A x \in Msgs : x # m => fate'[x] = fate[x]
      BY <1>1, <2>1 DEF KindInv
    <2>3. entered_at[m] = Never
      BY Zenon, <1>1, <2>1 DEF StoreInv
    <2>4. ASSUME NEW x \in Msgs, entered_at'[x] # Never
          PROVE  /\ fate'[x] = "entered" /\ from'[x] # NoText
                 /\ \/ now' >= entered_at'[x] + Ttl
                    \/ x \in forgotten'
                    \/ \E i \in DOMAIN seen' : seen'[i].mid = x
      BY Zenon, <1>1, <2>1, <2>2, <2>3, <2>4 DEF StoreInv
    <2>. QED
      BY Zenon, <1>1, <2>1, <2>4 DEF StoreInv
  <1>8. CASE Crash
    <2>1. seen' = <<>> /\ forgotten' = {} /\ entered_at' = [m \in Msgs |-> Never]
      BY Zenon, <1>8 DEF Crash
    <2>2. <<>> \in Seq(Entry) /\ Len(<<>>) <= MaxSeen /\ DOMAIN <<>> = {}
      BY Bounds, EmptySeq
    <2>3. \A m \in Msgs : ~(entered_at'[m] # Never)
      BY <2>1
    <2>4. StoreInv'
      BY Zenon, <2>1, <2>2, <2>3 DEF StoreInv
    <2>. QED
      BY <2>1, <2>2, <2>4
  <1>9. CASE UNCHANGED vars
    BY Zenon, <1>3, <1>4, <1>9 DEF vars, limits, hist
  <1>10. ASSUME NEW t \in Tasks, Process(t)
         PROVE  seen' \in Seq(Entry) /\ forgotten' \subseteq Msgs /\ StoreInv'
    BY Zenon, <1>2, <1>3, <1>4, <1>5, <1>6, <1>10
       DEF Process, Refuse, SendRaises, LineSent, limits, hist
  <1>11. ASSUME Poll \/ Write \/ Tick
         PROVE  seen' \in Seq(Entry) /\ forgotten' \subseteq Msgs /\ StoreInv'
    BY Zenon, <1>3, <1>4, <1>5, <1>7, <1>11
       DEF Poll, DeleteWebhook, DeleteWebhookFails, GetUpdates, GetUpdatesRaises, Write, Tick,
           limits, hist
  <1>12. ASSUME NEW n, Post(n) \/ Redeliver(n)
         PROVE  seen' \in Seq(Entry) /\ forgotten' \subseteq Msgs /\ StoreInv'
    BY Zenon, <1>3, <1>4, <1>12 DEF Post, Redeliver, Start, limits
  <1>. QED
    BY Zenon, <1>8, <1>9, <1>10, <1>11, <1>12 DEF Next

-----------------------------------------------------------------------------
(* The offset *)

\* A task goes on only with a message that has a fate.
LEMMA TakenHasAFate ==
    ASSUME InboundInv, NEW t, Advance(t)
    PROVE  fate'[Head(rest[t])] # "none"
  <1>. DEFINE m == Head(rest[t])
  <1>1. t \in Tasks /\ m \in Msgs /\ fate \in [Msgs -> Fates] /\ KindInv /\ StoreInv
    BY Zenon, AdvanceGoesOn DEF InboundInv, KindInv
  <1>. HIDE DEF m
  <1>2. CASE Accept(t)
    <2>1. fate' = [fate EXCEPT ![m] = "entered"]
      BY Zenon, <1>2 DEF Accept, m
    <2>. QED
      BY <1>1, <2>1 DEF m
  <1>3. CASE DropDuplicate(t)
    <2>1. Known(m) /\ Remember(m) /\ fate' = fate
      BY Zenon, <1>3 DEF DropDuplicate, m
    <2>2. PICK n \in DOMAIN seen : seen[n].mid = m
      BY Zenon, <1>1, <2>1, RememberKeepsTheStore DEF Remembered
    <2>3. fate[m] = "entered"
      BY Zenon, <1>1, <2>2 DEF StoreInv
    <2>. QED
      BY <2>1, <2>3 DEF m
  <1>4. CASE LineSent(t)
    <2>1. fate' = [fate EXCEPT ![m] = IF @ = "none" THEN "refused" ELSE @]
      BY Zenon, <1>4 DEF LineSent, m
    <2>. QED
      BY <1>1, <2>1 DEF m
  <1>5. CASE t = Poller /\ SkipUpdate
    <2>1. fate' = [fate EXCEPT ![m] = "ignored"]
      BY Zenon, <1>5 DEF SkipUpdate, m
    <2>. QED
      BY <1>1, <2>1 DEF m
  <1>. QED
    BY Zenon, <1>2, <1>3, <1>4, <1>5 DEF Advance

\* What the poller is through with stays so.
LEMMA PollStays ==
    ASSUME PollInv, rest'[Poller] = rest[Poller], acked' = acked, offset' = offset,
           state'[Poller] = "sending" => state[Poller] = "sending",
           sent \in Nat, sent' \in Nat, sent <= sent', sent <= MaxMsgs, MaxMsgs \in Nat,
           from' = from, Through \in Nat, Len(rest[Poller]) \in Nat,
           \A m \in Msgs : fate[m] # "none" => fate'[m] # "none"
    PROVE  PollInv'
  <1>1. Through' = Through
    BY Zenon DEF Through, Upto
  <1>2. Through + Len(rest[Poller]) <= sent'
    <2>1. Through + Len(rest[Poller]) <= sent
      BY DEF PollInv
    <2>. QED
      BY <2>1
  <1>3. \A m \in 1..Through : m \in Msgs
    <2>1. Through + Len(rest[Poller]) <= sent
      BY DEF PollInv
    <2>. QED
      BY <2>1 DEF Msgs
  <1>. QED
    BY Zenon, <1>1, <1>2, <1>3 DEF PollInv

\* The next update is the one after those the poller is through with.
LEMMA ThroughIsANumber ==
    ASSUME InboundInv
    PROVE  /\ Through \in Nat /\ sent \in Nat /\ sent <= MaxMsgs /\ MaxMsgs \in Nat
           /\ acked \in Nat /\ acked <= Through
           /\ rest[Poller] \in Seq(Msgs) /\ Len(rest[Poller]) \in Nat
           /\ Through + Len(rest[Poller]) <= sent
           /\ rest[Poller] = <<>> => Through = Upto
           /\ rest[Poller] # <<>> => /\ Len(rest[Poller]) >= 1
                                     /\ rest[Poller][1] = Through + 1
           /\ \A m \in 1..Through : m \in Msgs
  <1>1. sent \in 0..MaxMsgs /\ MaxMsgs \in Nat /\ rest[Poller] \in Seq(Msgs)
    BY Bounds DEF InboundInv, KindInv
  <1>2. Len(rest[Poller]) \in Nat /\ (rest[Poller] # <<>> => Len(rest[Poller]) \in Nat \ {0})
    BY Zenon, <1>1, LenProperties, HeadAndTail
  <1>3. /\ acked \in Nat /\ acked <= Through /\ Through + Len(rest[Poller]) <= sent
        /\ \A i \in DOMAIN rest[Poller] : rest[Poller][i] = Through + i
    BY Zenon DEF InboundInv, PollInv
  <1>4. rest[Poller] = <<>> => Through = Upto /\ Through \in Nat
    BY Zenon, UptoIsTheLater DEF Through
  <1>5. ASSUME rest[Poller] # <<>>
        PROVE  Through \in Nat /\ rest[Poller][1] = Through + 1
    <2>1. rest[Poller][1] \in Msgs /\ Through = rest[Poller][1] - 1
      BY Zenon, <1>1, <1>5, HeadAndTail DEF Through
    <2>. QED
      BY <2>1, Bounds DEF Msgs
  <1>6. Through \in Nat
    BY <1>4, <1>5
  <1>7. \A m \in 1..Through : m \in Msgs
    BY <1>1, <1>2, <1>3, <1>6 DEF Msgs
  <1>8. sent \in Nat /\ sent <= MaxMsgs /\ (rest[Poller] # <<>> => Len(rest[Poller]) >= 1)
    BY <1>1, <1>2
  <1>. QED
    BY Zenon, <1>1, <1>2, <1>3, <1>4, <1>5, <1>6, <1>7, <1>8

\* The poller is through with one more update, and goes on or gives up.
LEMMA PollTakes ==
    ASSUME InboundInv, rest[Poller] # <<>>,
           rest'[Poller] = Tail(rest[Poller]) \/ rest'[Poller] = <<>>,
           state'[Poller] # "sending", offset' = Head(rest[Poller]) + 1,
           acked' = acked, sent' = sent, from' = from,
           \A m \in Msgs : fate[m] # "none" => fate'[m] # "none",
           fate'[Head(rest[Poller])] # "none"
    PROVE  PollInv'
  <1>. DEFINE r == rest[Poller]
              h == Through + 1
  <1>1. /\ Through \in Nat /\ sent \in Nat /\ sent <= MaxMsgs /\ MaxMsgs \in Nat
        /\ acked \in Nat /\ acked <= Through
        /\ r \in Seq(Msgs) /\ Len(r) \in Nat /\ Len(r) >= 1 /\ Through + Len(r) <= sent
    BY Zenon, ThroughIsANumber
  <1>2. /\ Head(r) = h /\ Tail(r) \in Seq(Msgs) /\ Len(Tail(r)) = Len(r) - 1
        /\ \A i \in 1..(Len(r) - 1) : Tail(r)[i] = r[i + 1]
    BY Zenon, <1>1, ThroughIsANumber, HeadAndTail
  <1>3. \A i \in 1..Len(r) : r[i] = Through + i
    BY Zenon, <1>1, LenProperties DEF InboundInv, PollInv
  <1>4. offset' = h + 1 /\ offset' # Never /\ offset' - 1 = h
    <2>1. offset' = h + 1
      BY Zenon, <1>2
    <2>2. h \in Nat /\ Never = -1
      BY <1>1 DEF Never
    <2>. QED
      BY <2>1, <2>2
  <1>5. Upto' = h
    <2>1. Upto' = Max({acked, h})
      BY Zenon, <1>4 DEF Upto
    <2>2. h \in Nat /\ acked <= h /\ ~(h <= acked)
      BY <1>1
    <2>3. /\ h <= Max({acked, h})
          /\ Max({acked, h}) = acked \/ Max({acked, h}) = h
      BY Zenon, <1>1, <2>2, MaxOfTwo
    <2>. QED
      BY Zenon, <2>1, <2>2, <2>3
  <1>. HIDE DEF r, h
  <1>6. PICK s \in Seq(Msgs) : /\ s = rest'[Poller]
                               /\ s = <<>> \/ (s # <<>> /\ s = Tail(r))
    BY Zenon, <1>2, EmptySeq DEF r
  <1>7. Through' = h
    <2>1. CASE s = <<>>
      BY Zenon, <1>5, <1>6, <2>1 DEF Through
    <2>2. CASE s # <<>> /\ s = Tail(r)
      <3>1. Len(s) \in Nat \ {0}
        BY Zenon, <1>6, <2>2, HeadAndTail
      <3>2. s[1] = r[2] /\ r[2] = Through + 2
        BY <1>1, <1>2, <1>3, <2>2, <3>1
      <3>3. Through' = s[1] - 1
        BY Zenon, <1>6, <2>2 DEF Through
      <3>. QED
        BY <1>1, <3>2, <3>3 DEF h
    <2>. QED
      BY <1>6, <2>1, <2>2
  <1>8. h \in Nat /\ acked <= h /\ h <= sent /\ h \in Msgs
    BY <1>1 DEF h, Msgs
  <1>9. h + Len(s) <= sent /\ \A i \in DOMAIN s : s[i] = h + i
    <2>1. CASE s = <<>>
      <3>1. Len(s) = 0 /\ DOMAIN s = {}
        BY <2>1
      <3>. QED
        BY <1>8, <3>1
    <2>2. CASE s = Tail(r)
      <3>1. Len(s) = Len(r) - 1 /\ DOMAIN s = 1..(Len(r) - 1)
        BY Zenon, <1>2, <1>6, <2>2, LenProperties
      <3>2. h + Len(s) <= sent
        BY <1>1, <3>1 DEF h
      <3>3. ASSUME NEW i \in 1..(Len(r) - 1)
            PROVE  s[i] = h + i
        <4>1. s[i] = r[i + 1] /\ i + 1 \in 1..Len(r)
          BY <1>1, <1>2, <2>2
        <4>2. r[i + 1] = Through + (i + 1)
          BY Zenon, <1>3, <4>1
        <4>. QED
          BY <1>1, <4>1, <4>2 DEF h
      <3>. QED
        BY Zenon, <3>1, <3>2, <3>3
    <2>. QED
      BY <1>6, <2>1, <2>2
  <1>10. ASSUME NEW m \in 1..h, from[m] \in Users
         PROVE  fate'[m] # "none"
    <2>1. m = h \/ m \in 1..Through
      BY <1>1 DEF h
    <2>2. CASE m = h
      BY Zenon, <1>2, <2>2 DEF r
    <2>3. CASE m \in 1..Through
      <3>1. fate[m] # "none" /\ m \in Msgs
        BY Zenon, <1>10, <2>3, ThroughIsANumber DEF InboundInv, PollInv
      <3>. QED
        BY Zenon, <3>1
    <2>. QED
      BY <2>1, <2>2, <2>3
  <1>. QED
    BY Zenon, <1>1, <1>6, <1>7, <1>8, <1>9, <1>10 DEF PollInv

LEMMA PollKept ==
    ASSUME InboundInv, [Next]_vars
    PROVE  PollInv'
  <1>1. /\ PollInv /\ KindInv /\ Poller \in Tasks /\ Poller \notin Posts
        /\ sent \in Nat /\ sent <= sent /\ sent + 1 \in Nat /\ sent <= sent + 1
        /\ \A n \in 1..2 : sent + n \in Nat /\ sent <= sent + n
    <2>1. sent \in Nat
      BY Zenon, ThroughIsANumber
    <2>2. /\ sent <= sent /\ sent + 1 \in Nat /\ sent <= sent + 1
          /\ \A n \in 1..2 : sent + n \in Nat /\ sent <= sent + n
      BY <2>1
    <2>. QED
      BY Zenon, <2>1, <2>2, Bounds DEF InboundInv
  <1>2. \A m \in Msgs : fate[m] # "none" => fate'[m] # "none"
    BY Zenon, FatesKept
  <1>3. ASSUME rest'[Poller] = rest[Poller], acked' = acked, offset' = offset, from' = from,
               state'[Poller] = "sending" => state[Poller] = "sending",
               sent' = sent \/ sent' = sent + 1 \/ \E n \in 1..2 : sent' = sent + n
        PROVE  PollInv'
    BY Zenon, <1>1, <1>2, <1>3, PollStays, ThroughIsANumber
  <1>4. ASSUME NEW t, Advance(t), t # Poller
        PROVE  PollInv'
    BY ZenonT(30), <1>1, <1>3, <1>4, AdvanceGoesOn, GoOnMoves DEF Elsewhere, InboundInv
  <1>5. ASSUME Advance(Poller)
        PROVE  PollInv'
    <2>1. /\ rest[Poller] # <<>> /\ rest'[Poller] = Tail(rest[Poller])
          /\ state'[Poller] # "sending" /\ offset' = Head(rest[Poller]) + 1
          /\ acked' = acked /\ sent' = sent /\ from' = from
      BY Zenon, <1>1, <1>5, AdvanceGoesOn, GoOnMoves DEF InboundInv
    <2>2. fate'[Head(rest[Poller])] # "none"
      BY Zenon, <1>5, TakenHasAFate
    <2>. QED
      BY Zenon, <1>2, <2>1, <2>2, PollTakes
  <1>6. ASSUME NEW t \in Tasks, Refuse(t)
        PROVE  PollInv'
    <2>1. /\ rest[t] # <<>> /\ rest' = rest /\ acked' = acked /\ sent' = sent /\ from' = from
          /\ offset' = IF t = Poller THEN Head(rest[t]) + 1 ELSE offset
          /\ state' = [state EXCEPT ![t] = "sending"]
      BY Zenon, <1>6 DEF Refuse, AtHead, MoveOffset
    <2>2. CASE t # Poller
      <3>1. state'[Poller] = state[Poller]
        BY <1>1, <2>1, <2>2 DEF KindInv
      <3>. QED
        BY Zenon, <1>3, <2>1, <2>2, <3>1
    <2>3. CASE t = Poller
      <3>1. Through' = Through
        BY Zenon, <2>1, <2>3 DEF Through
      <3>2. offset' = rest[Poller][1] + 1
        <4>1. rest[Poller] \in Seq(Msgs)
          BY Zenon, ThroughIsANumber
        <4>2. Head(rest[Poller]) = rest[Poller][1]
          BY Zenon, <2>1, <2>3, <4>1, HeadAndTail
        <4>. QED
          BY Zenon, <2>1, <2>3, <4>2
      <3>3. \A m \in 1..Through : from[m] \in Users => fate'[m] # "none"
        BY Zenon, <1>1, <1>2, ThroughIsANumber DEF PollInv
      <3>. QED
        BY Zenon, <1>1, <2>1, <3>1, <3>2, <3>3 DEF PollInv
    <2>. QED
      BY <2>2, <2>3
  <1>7. ASSUME NEW t \in Tasks, SendRaises(t)
        PROVE  PollInv'
    <2>1. /\ state[t] = "sending" /\ rest' = [rest EXCEPT ![t] = <<>>]
          /\ state' = [state EXCEPT ![t] = IF t = Poller THEN "ended" ELSE "done"]
          /\ offset' = offset /\ acked' = acked /\ sent' = sent /\ from' = from
          /\ Lose(Range(rest[t]))
      BY Zenon, <1>7 DEF SendRaises, poll
    <2>2. CASE t # Poller
      <3>1. state'[Poller] = state[Poller] /\ rest'[Poller] = rest[Poller]
        BY <1>1, <2>1, <2>2 DEF KindInv
      <3>. QED
        BY Zenon, <1>3, <2>1, <3>1
    <2>3. CASE t = Poller
      <3>1. state'[Poller] = "ended" /\ rest'[Poller] = <<>>
        BY <1>1, <2>1, <2>3 DEF KindInv
      <3>2. rest[Poller] # <<>> /\ rest[Poller] \in Seq(Msgs)
        BY Zenon, <1>1, <2>1, <2>3, ThroughIsANumber DEF InboundInv, TaskInv
      <3>3. Head(rest[Poller]) = rest[Poller][1] /\ Head(rest[Poller]) \in Msgs
            /\ Len(rest[Poller]) \in Nat \ {0}
        BY Zenon, <3>2, HeadAndTail
      <3>4. offset' = Head(rest[Poller]) + 1
        BY Zenon, <1>1, <2>1, <2>3, <3>3 DEF PollInv
      <3>5. Head(rest[Poller]) \in Range(rest[Poller])
        <4>1. DOMAIN rest[Poller] = 1..Len(rest[Poller])
          BY Zenon, <3>2, LenProperties
        <4>2. 1 \in DOMAIN rest[Poller]
          BY <3>3, <4>1
        <4>. QED
          BY Zenon, <3>3, <4>2 DEF Range
      <3>6. fate'[Head(rest[Poller])] # "none"
        BY Zenon, <1>1, <2>1, <2>3, <3>3, <3>5, LoseLeavesTheEntered
      <3>7. state'[Poller] # "sending"
        BY <3>1
      <3>. QED
        BY Zenon, <1>2, <2>1, <3>1, <3>2, <3>4, <3>6, <3>7, PollTakes
    <2>. QED
      BY <2>2, <2>3
  <1>8. ASSUME NEW msgs \in Seq(Msgs), Start(msgs),
               sent' = sent \/ \E n \in 1..2 : sent' = sent + n
        PROVE  PollInv'
    <2>1. PICK p \in Posts : /\ p \in Tasks \ {Poller} /\ Began(p, msgs)
                             /\ from' = from /\ offset' = offset /\ acked' = acked
      BY Zenon, <1>8, StartsAfresh
    <2>2. state'[Poller] = state[Poller] /\ rest'[Poller] = rest[Poller]
      BY <1>1, <2>1 DEF KindInv, Began
    <2>. QED
      BY Zenon, <1>3, <1>8, <2>1, <2>2
  <1>9. CASE DeleteWebhook
    <2>1. /\ state[Poller] = "starting" /\ state' = [state EXCEPT ![Poller] = "ready"]
          /\ acked' = sent /\ offset' = offset /\ rest' = rest /\ from' = from /\ sent' = sent
          /\ Lose((acked + 1)..sent)
      BY Zenon, <1>9 DEF DeleteWebhook
    <2>2. rest[Poller] = <<>> /\ state'[Poller] = "ready"
      <3>1. state[Poller] \notin {"ready", "sending"}
        BY <2>1
      <3>2. state'[Poller] = "ready"
        BY <1>1, <2>1 DEF KindInv
      <3>. QED
        BY Zenon, <1>1, <3>1, <3>2 DEF InboundInv, TaskInv
    <2>3. Upto <= sent /\ Upto \in Nat /\ sent <= MaxMsgs /\ MaxMsgs \in Nat
      <3>1. /\ Through = Upto /\ Through + Len(rest[Poller]) <= sent
            /\ Upto \in Nat /\ sent <= MaxMsgs /\ MaxMsgs \in Nat
        BY Zenon, <2>2, ThroughIsANumber, UptoIsTheLater
      <3>2. Len(rest[Poller]) = 0
        BY <2>2
      <3>. QED
        BY <1>1, <3>1, <3>2
    <2>4. Upto' = sent
      <3>1. CASE offset = Never
        BY Zenon, <2>1, <3>1 DEF Upto
      <3>2. CASE offset # Never
        <4>1. Upto' = Max({sent, offset - 1})
          BY Zenon, <2>1, <3>2 DEF Upto
        <4>2. offset - 1 \in Nat /\ offset - 1 <= Upto
          BY Zenon, <3>2, UptoIsTheLater
        <4>3. /\ sent <= Max({sent, offset - 1})
              /\ Max({sent, offset - 1}) = sent \/ Max({sent, offset - 1}) = offset - 1
          BY Zenon, <1>1, <4>2, MaxOfTwo
        <4>4. offset - 1 <= sent
          BY <1>1, <2>3, <4>2
        <4>5. sent <= offset - 1 => offset - 1 = sent
          BY <1>1, <4>2, <4>4
        <4>. QED
          BY Zenon, <4>1, <4>3, <4>5
      <3>. QED
        BY <3>1, <3>2
    <2>5. Through' = sent
      BY Zenon, <2>1, <2>2, <2>4 DEF Through
    <2>6. ASSUME NEW m \in 1..sent, from'[m] \in Users
          PROVE  fate'[m] # "none"
      <3>1. m \in Msgs /\ (m \in 1..Through \/ m \in (acked + 1)..sent)
        <4>1. acked \in Nat /\ acked <= Through /\ Through \in Nat
          BY Zenon, ThroughIsANumber
        <4>. QED
          BY <1>1, <2>3, <4>1 DEF Msgs
      <3>2. CASE m \in 1..Through
        BY Zenon, <1>1, <1>2, <2>1, <2>6, <3>1, <3>2 DEF PollInv
      <3>3. CASE m \in (acked + 1)..sent
        BY Zenon, <1>1, <2>1, <3>1, <3>3, LoseLeavesTheEntered
      <3>. QED
        BY Zenon, <3>1, <3>2, <3>3
    <2>7. /\ sent <= sent /\ sent + Len(<<>>) <= sent /\ DOMAIN <<>> = {}
          /\ "ready" # "sending"
      BY <1>1
    <2>. QED
      BY Zenon, <1>1, <2>1, <2>2, <2>5, <2>6, <2>7 DEF PollInv
  <1>10. CASE GetUpdates
    <2>. DEFINE n == sent - Upto
    <2>1. /\ state[Poller] = "ready" /\ rest[Poller] = <<>> /\ acked' = Upto
          /\ rest' = [rest EXCEPT ![Poller] = [i \in 1..n |-> Upto + i]]
          /\ state' = state /\ offset' = offset /\ from' = from /\ sent' = sent /\ fate' = fate
      BY Zenon, <1>10 DEF GetUpdates, Upto, hist
    <2>2. Upto = Through /\ Upto \in Nat /\ Upto <= sent /\ n \in Nat /\ Upto + n = sent
      <3>1. /\ Through = Upto /\ Through + Len(rest[Poller]) <= sent /\ Upto \in Nat
        BY Zenon, <2>1, ThroughIsANumber, UptoIsTheLater
      <3>2. Len(rest[Poller]) = 0
        BY <2>1
      <3>. QED
        BY <1>1, <3>1, <3>2
    <2>3. PICK s : s = [i \in 1..n |-> Upto + i]
      OBVIOUS
    <2>. HIDE DEF n
    <2>4. rest'[Poller] = s
      BY <1>1, <2>1, <2>3 DEF KindInv
    <2>5. /\ Len(s) = n /\ DOMAIN s = 1..n /\ (s = <<>> <=> n = 0)
          /\ \A i \in 1..n : s[i] = Upto + i
      BY <2>2, <2>3
    <2>6. Upto' = Upto
      <3>1. CASE offset = Never
        BY Zenon, <2>1, <3>1 DEF Upto
      <3>2. CASE offset # Never
        <4>1. Upto' = Max({Upto, offset - 1})
          BY Zenon, <2>1, <3>2 DEF Upto
        <4>2. offset - 1 \in Nat /\ offset - 1 <= Upto
          BY Zenon, <3>2, UptoIsTheLater
        <4>3. /\ Upto <= Max({Upto, offset - 1})
              /\ Max({Upto, offset - 1}) = Upto \/ Max({Upto, offset - 1}) = offset - 1
          BY Zenon, <2>2, <4>2, MaxOfTwo
        <4>4. Upto <= offset - 1 => offset - 1 = Upto
          BY <2>2, <4>2
        <4>. QED
          BY Zenon, <4>1, <4>3, <4>4
      <3>. QED
        BY <3>1, <3>2
    <2>7. Through' = Upto
      <3>1. CASE s = <<>>
        BY Zenon, <2>4, <2>6, <3>1 DEF Through
      <3>2. CASE s # <<>>
        <4>1. Through' = s[1] - 1
          BY Zenon, <2>4, <3>2 DEF Through
        <4>2. s[1] = Upto + 1
          BY <2>2, <2>5, <3>2
        <4>. QED
          BY <2>2, <4>1, <4>2
      <3>. QED
        BY <3>1, <3>2
    <2>8. state'[Poller] # "sending" /\ Upto + Len(s) <= sent /\ Upto <= Upto
      BY <1>1, <2>1, <2>2, <2>5
    <2>9. \A m \in 1..Upto : from'[m] \in Users => fate'[m] # "none"
      BY Zenon, <1>1, <2>1, <2>2 DEF PollInv
    <2>. QED
      BY Zenon, <2>1, <2>2, <2>4, <2>5, <2>7, <2>8, <2>9 DEF PollInv
  <1>11. CASE Crash
    <2>1. /\ rest' = [t \in Tasks |-> <<>>] /\ offset' = Never /\ acked' = acked
          /\ from' = from /\ sent' = sent
          /\ state' = [t \in Tasks |-> IF t = Poller /\ channel = "telegram" THEN "starting"
                                       ELSE IF state[t] \in {"ready", "sending"} THEN "done"
                                       ELSE state[t]]
      BY Zenon, <1>11 DEF Crash
    <2>2. rest'[Poller] = <<>> /\ state'[Poller] # "sending"
      BY <1>1, <2>1
    <2>3. Through' = acked
      BY Zenon, <2>1, <2>2 DEF Through, Upto
    <2>4. /\ acked \in Nat /\ acked <= Through /\ Through \in Nat
          /\ Through + Len(rest[Poller]) <= sent /\ Len(rest[Poller]) \in Nat
      BY Zenon, ThroughIsANumber
    <2>5. /\ acked <= acked /\ acked + Len(<<>>) <= sent /\ DOMAIN <<>> = {}
          /\ \A m \in 1..acked : m \in 1..Through
      BY <1>1, <2>4
    <2>6. \A m \in 1..acked : from'[m] \in Users => fate'[m] # "none"
      BY Zenon, <1>1, <1>2, <2>1, <2>5, ThroughIsANumber DEF PollInv
    <2>. QED
      BY Zenon, <2>1, <2>2, <2>3, <2>4, <2>5, <2>6 DEF PollInv
  <1>12. ASSUME NEW n \in 1..2, Post(n)
         PROVE  PollInv'
    BY Zenon, <1>8, <1>12, PostStarts
  <1>13. ASSUME NEW q \in Posts, Redeliver(q)
         PROVE  PollInv'
    <2>1. body[q] \in Seq(Msgs)
      BY <1>1 DEF KindInv
    <2>. QED
      BY Zenon, <1>8, <1>13, <2>1 DEF Redeliver
  <1>14. CASE DeleteWebhookFails
    <2>1. /\ state' = [state EXCEPT ![Poller] = "ready"] /\ rest' = rest /\ acked' = acked
          /\ offset' = offset /\ from' = from /\ sent' = sent
      BY Zenon, <1>14 DEF DeleteWebhookFails, poll
    <2>2. state'[Poller] # "sending"
      BY <1>1, <2>1 DEF KindInv
    <2>. QED
      BY Zenon, <1>3, <2>1, <2>2
  <1>15. CASE GetUpdatesRaises \/ Write \/ Tick \/ UNCHANGED vars
    BY Zenon, <1>3, <1>15 DEF GetUpdatesRaises, Write, Tick, vars, tvars, poll
  <1>. QED
    BY Zenon, <1>1, <1>4, <1>5, <1>6, <1>7, <1>9, <1>10, <1>11, <1>12, <1>13, <1>14, <1>15
       DEF Next, Process, Poll, Advance

-----------------------------------------------------------------------------
(* The other variables *)

LEMMA OthersKept ==
    ASSUME InboundInv, [Next]_vars
    PROVE  /\ channel' = channel /\ from' = from
           /\ sent' \in 0..MaxMsgs /\ now' \in 0..MaxTime
           /\ body' \in [Posts -> Seq(Msgs)]
           /\ offset' = Never \/ offset' \in Nat \ {0}
           /\ entered_at' \in [Msgs -> Nat \cup {Never}]
  <1>1. channel' = channel /\ from' = from
    BY Zenon DEF Next, Process, Poll, Refuse, DropDuplicate, Accept, LineSent, SendRaises,
           SkipUpdate, Post, Redeliver, Start, DeleteWebhook, DeleteWebhookFails, GetUpdates,
           GetUpdatesRaises, Write, Crash, Tick, vars
  <1>2. sent' \in 0..MaxMsgs
    <2>1. sent \in 0..MaxMsgs /\ MaxMsgs \in Nat
      BY Bounds DEF InboundInv, KindInv
    <2>2. \/ sent' = sent
          \/ sent < MaxMsgs /\ sent' = sent + 1
          \/ \E n \in 1..2 : sent + n <= MaxMsgs /\ sent' = sent + n
      BY Zenon DEF Next, Process, Poll, Refuse, DropDuplicate, Accept, LineSent, SendRaises,
             SkipUpdate, Post, Redeliver, Start, DeleteWebhook, DeleteWebhookFails, GetUpdates,
             GetUpdatesRaises, Write, Crash, Tick, vars
    <2>. QED
      BY <2>1, <2>2
  <1>3. now' \in 0..MaxTime
    <2>1. now \in 0..MaxTime /\ MaxTime \in Nat
      BY Bounds DEF InboundInv, KindInv
    <2>2. now' = now \/ (now < MaxTime /\ now' = now + 1)
      BY Zenon DEF Next, Process, Poll, Refuse, DropDuplicate, Accept, LineSent, SendRaises,
             SkipUpdate, Post, Redeliver, Start, DeleteWebhook, DeleteWebhookFails, GetUpdates,
             GetUpdatesRaises, Write, Crash, Tick, vars
    <2>. QED
      BY <2>1, <2>2
  <1>4. body' \in [Posts -> Seq(Msgs)]
    <2>1. body \in [Posts -> Seq(Msgs)]
      BY DEF InboundInv, KindInv
    <2>2. ASSUME NEW msgs \in Seq(Msgs), Start(msgs)
          PROVE  body' \in [Posts -> Seq(Msgs)]
      <3>1. PICK p \in Posts : body' = [body EXCEPT ![p] = msgs]
        BY Zenon, <2>2 DEF Start
      <3>. QED
        BY <2>1, <3>1
    <2>3. ASSUME NEW n \in 1..2, Post(n)
          PROVE  body' \in [Posts -> Seq(Msgs)]
      BY Zenon, <2>2, <2>3, PostStarts
    <2>4. ASSUME NEW q \in Posts, Redeliver(q)
          PROVE  body' \in [Posts -> Seq(Msgs)]
      <3>1. body[q] \in Seq(Msgs)
        BY <2>1
      <3>. QED
        BY Zenon, <2>2, <2>4, <3>1 DEF Redeliver
    <2>. QED
      BY Zenon, <2>1, <2>3, <2>4
         DEF Next, Process, Poll, Refuse, DropDuplicate, Accept, LineSent, SendRaises,
             SkipUpdate, DeleteWebhook, DeleteWebhookFails, GetUpdates, GetUpdatesRaises,
             Write, Crash, Tick, vars, tvars
  <1>5. offset' = Never \/ offset' \in Nat \ {0}
    <2>1. offset = Never \/ offset \in Nat \ {0}
      BY DEF InboundInv, KindInv
    <2>2. ASSUME NEW t \in Tasks, rest[t] # <<>>, MoveOffset(t)
          PROVE  offset' = Never \/ offset' \in Nat \ {0}
      <3>1. rest[t] \in Seq(Msgs)
        BY DEF InboundInv, KindInv
      <3>2. Head(rest[t]) \in Msgs
        BY Zenon, <2>2, <3>1, HeadAndTail
      <3>3. offset' = offset \/ offset' = Head(rest[t]) + 1
        BY Zenon, <2>2 DEF MoveOffset
      <3>. QED
        BY <2>1, <3>2, <3>3, Bounds DEF Msgs
    <2>3. ASSUME NEW msgs, Start(msgs)
          PROVE  offset' = offset
      BY Zenon, <2>3 DEF Start, poll
    <2>. QED
      BY Zenon, <2>1, <2>2, <2>3, Bounds
         DEF Next, Process, Poll, Refuse, DropDuplicate, Accept, LineSent, SendRaises,
             SkipUpdate, AtHead, Post, Redeliver, DeleteWebhook, DeleteWebhookFails, GetUpdates,
             GetUpdatesRaises, Write, Crash, Tick, vars, poll
  <1>6. entered_at' \in [Msgs -> Nat \cup {Never}]
    <2>1. entered_at \in [Msgs -> Nat \cup {Never}] /\ now \in Nat
      BY Bounds DEF InboundInv, KindInv
    <2>2. ASSUME NEW t \in Tasks, Accept(t)
          PROVE  entered_at' \in [Msgs -> Nat \cup {Never}]
      <3>1. entered_at' = [entered_at EXCEPT ![Head(rest[t])] = now]
        BY Zenon, <2>2 DEF Accept
      <3>. QED
        BY <2>1, <3>1
    <2>3. CASE Crash
      <3>1. entered_at' = [m \in Msgs |-> Never]
        BY Zenon, <2>3 DEF Crash
      <3>. QED
        BY <3>1
    <2>4. ASSUME NEW msgs, Start(msgs)
          PROVE  entered_at' = entered_at
      BY Zenon, <2>4 DEF Start
    <2>. QED
      BY Zenon, <2>1, <2>2, <2>3, <2>4
         DEF Next, Process, Poll, Refuse, DropDuplicate, LineSent, SendRaises,
             SkipUpdate, Post, Redeliver, DeleteWebhook, DeleteWebhookFails, GetUpdates,
             GetUpdatesRaises, Write, Tick, vars, hist
  <1>. QED
    BY Zenon, <1>1, <1>2, <1>3, <1>4, <1>5, <1>6

\* A message that no step of a task or of the poller takes keeps waiting.
LEMMA NothingKept ==
    ASSUME InboundInv, [Next]_vars
    PROVE  NothingIsSwallowed'
  <1>. SUFFICES ASSUME NEW m \in 1..sent', from'[m] \in Users, fate'[m] = "none"
                PROVE  Waiting(m)'
    BY Zenon DEF NothingIsSwallowed
  <1>1. /\ KindInv /\ TaskInv /\ PollInv /\ NothingIsSwallowed /\ Poller \in Tasks
        /\ Posts \subseteq Tasks /\ NoText \notin Users
        /\ rest \in [Tasks -> Seq(Msgs)] /\ rest' \in [Tasks -> Seq(Msgs)]
    BY Zenon, Bounds, TasksKept, InboundAssumption DEF InboundInv, KindInv, NoText
  <1>2. m \in Msgs /\ from[m] \in Users /\ fate[m] = "none" /\ channel' = channel
    <2>1. sent' \in 0..MaxMsgs /\ MaxMsgs \in Nat /\ from' = from /\ channel' = channel
      BY Zenon, Bounds, OthersKept
    <2>2. m \in Msgs
      BY <2>1 DEF Msgs
    <2>. QED
      BY Zenon, <2>1, <2>2, FatesKept
  <1>3. m \in 1..sent => Waiting(m)
    BY Zenon, <1>1, <1>2 DEF NothingIsSwallowed
  <1>4. /\ sent \in Nat /\ acked \in Nat /\ acked <= sent
        /\ m \in 1..sent \/ m \in (sent + 1)..sent'
    <2>1. /\ Through \in Nat /\ acked \in Nat /\ acked <= Through /\ sent \in Nat
          /\ Through + Len(rest[Poller]) <= sent /\ Len(rest[Poller]) \in Nat
      BY Zenon, ThroughIsANumber
    <2>2. sent' \in 0..MaxMsgs /\ MaxMsgs \in Nat
      BY Zenon, Bounds, OthersKept
    <2>. QED
      BY <2>1, <2>2
  \* Nothing new, and the batches grow only.
  <1>5. ASSUME acked' = acked, sent' = sent,
               \A t \in Tasks : m \in Range(rest[t]) => m \in Range(rest'[t])
        PROVE  Waiting(m)'
    BY Zenon, <1>2, <1>3, <1>5 DEF Waiting
  <1>6. ASSUME NEW t, Advance(t)
        PROVE  Waiting(m)'
    <2>1. /\ t \in Tasks /\ rest[t] # <<>> /\ rest'[t] = Tail(rest[t]) /\ Elsewhere(t)
          /\ acked' = acked /\ sent' = sent
      BY Zenon, <1>1, <1>6, AdvanceGoesOn, GoOnMoves
    <2>2. m # Head(rest[t])
      BY Zenon, <1>6, TakenHasAFate
    <2>3. rest[t] \in Seq(Msgs)
      BY <1>1, <2>1
    <2>4. m \in Range(rest[t]) => m \in Range(rest'[t])
      BY Zenon, <2>1, <2>2, <2>3, HeadAndTail
    <2>. QED
      BY Zenon, <1>5, <2>1, <2>4 DEF Elsewhere
  <1>7. ASSUME NEW t \in Tasks, SendRaises(t)
        PROVE  Waiting(m)'
    <2>1. /\ rest' = [rest EXCEPT ![t] = <<>>] /\ acked' = acked /\ sent' = sent
          /\ Lose(Range(rest[t]))
      BY Zenon, <1>7 DEF SendRaises, poll
    <2>2. \A q \in Tasks : q # t => rest'[q] = rest[q]
      BY <1>1, <2>1
    <2>3. m \notin Range(rest[t])
      BY Zenon, <1>1, <1>2, <2>1, LoseLeavesTheEntered
    <2>. QED
      BY Zenon, <1>5, <2>1, <2>2, <2>3
  <1>8. ASSUME NEW msgs \in Seq(Msgs), Start(msgs)
        PROVE  /\ acked' = acked /\ \E p \in Tasks : rest'[p] = msgs
               /\ \A t \in Tasks : m \in Range(rest[t]) => m \in Range(rest'[t])
    <2>1. PICK p \in Posts : /\ p \in Tasks \ {Poller} /\ Began(p, msgs) /\ rest[p] = <<>>
                             /\ acked' = acked
      BY Zenon, <1>8, StartsAfresh
    <2>2. \A q \in Tasks : rest'[q] = IF q = p THEN msgs ELSE rest[q]
      BY <1>1, <2>1 DEF Began
    <2>3. Range(<<>>) = {}
      BY DEF Range
    <2>. QED
      BY Zenon, <2>1, <2>2, <2>3
  <1>9. ASSUME NEW n \in 1..2, Post(n)
        PROVE  Waiting(m)'
    <2>1. PICK msgs \in Seq(Msgs) :
             /\ sent' = sent + n
             /\ Range(msgs) = {x \in (sent + 1)..(sent + n) : from[x] # NoText}
             /\ Start(msgs) /\ channel = "messenger"
      BY Zenon, <1>9, PostStarts
    <2>2. CASE m \in 1..sent
      <3>1. channel # "telegram"
        BY <2>1
      <3>2. \E t \in Tasks : m \in Range(rest[t])
        BY Zenon, <1>3, <2>2, <3>1 DEF Waiting
      <3>. QED
        BY Zenon, <1>8, <2>1, <3>2 DEF Waiting
    <2>3. CASE m \in (sent + 1)..sent'
      <3>1. m \in Range(msgs)
        BY Zenon, <1>1, <1>2, <2>1, <2>3
      <3>. QED
        BY Zenon, <1>8, <2>1, <3>1 DEF Waiting
    <2>. QED
      BY <1>4, <2>2, <2>3
  <1>10. ASSUME NEW q \in Posts, Redeliver(q)
         PROVE  Waiting(m)'
    <2>1. body[q] \in Seq(Msgs)
      BY DEF InboundInv, KindInv
    <2>. QED
      BY Zenon, <1>5, <1>8, <1>10, <2>1 DEF Redeliver
  <1>11. CASE Write
    <2>1. channel = "telegram" /\ sent' = sent + 1 /\ acked' = acked /\ rest' = rest
      BY Zenon, <1>11 DEF Write, tvars, poll
    <2>2. CASE m \in (sent + 1)..sent'
      <3>1. m \in (acked' + 1)..sent'
        BY <1>4, <2>1, <2>2
      <3>. QED
        BY Zenon, <1>2, <2>1, <3>1 DEF Waiting
    <2>3. CASE m \in 1..sent
      <3>1. m \in (acked + 1)..sent => m \in (acked' + 1)..sent'
        BY <1>4, <2>1
      <3>. QED
        BY Zenon, <1>2, <1>3, <2>1, <2>3, <3>1 DEF Waiting
    <2>. QED
      BY <1>4, <2>2, <2>3
  <1>12. CASE DeleteWebhook
    <2>1. /\ Lose((acked + 1)..sent) /\ rest' = rest /\ sent' = sent
      BY Zenon, <1>12 DEF DeleteWebhook
    <2>2. m \notin (acked + 1)..sent
      BY Zenon, <1>1, <1>2, <2>1, LoseLeavesTheEntered
    <2>3. m \in 1..sent
      BY <1>4, <2>1
    <2>. QED
      BY Zenon, <1>3, <2>1, <2>2, <2>3 DEF Waiting
  <1>13. CASE GetUpdates
    <2>1. /\ rest[Poller] = <<>> /\ acked' = Upto /\ sent' = sent
          /\ \E s : rest' = [rest EXCEPT ![Poller] = s]
      BY Zenon, <1>13 DEF GetUpdates, Upto
    <2>2. \A t \in Tasks : m \in Range(rest[t]) => m \in Range(rest'[t])
      <3>1. \A t \in Tasks : t # Poller => rest'[t] = rest[t]
        BY <1>1, <2>1
      <3>2. Range(<<>>) = {}
        BY DEF Range
      <3>. QED
        BY Zenon, <2>1, <3>1, <3>2
    <2>3. m \notin 1..Upto
      <3>1. Upto = Through
        BY Zenon, <2>1, ThroughIsANumber
      <3>. QED
        BY Zenon, <1>1, <1>2, <3>1 DEF PollInv
    <2>4. m \in 1..sent
      BY <1>4, <2>1
    <2>5. m \in (acked' + 1)..sent'
      <3>1. Upto \in Nat
        BY Zenon, UptoIsTheLater
      <3>. QED
        BY <1>4, <2>1, <2>3, <2>4, <3>1
    <2>. QED
      BY Zenon, <1>2, <1>3, <2>2, <2>4, <2>5 DEF Waiting
  <1>14. CASE Crash
    <2>1. acked' = acked /\ sent' = sent /\ Lose(UNION {Range(rest[p]) : p \in Posts})
      BY Zenon, <1>14 DEF Crash
    <2>2. \A p \in Posts : m \notin Range(rest[p])
      <3>1. m \notin UNION {Range(rest[p]) : p \in Posts}
        BY Zenon, <1>1, <1>2, <2>1, LoseLeavesTheEntered
      <3>. QED
        BY <3>1
    <2>3. m \in 1..sent
      BY <1>4, <2>1
    <2>4. ASSUME m \in Range(rest[Poller])
          PROVE  channel = "telegram" /\ m \in (acked + 1)..sent
      <3>1. rest[Poller] # <<>>
        BY <2>4 DEF Range
      <3>2. channel = "telegram"
        BY Zenon, <1>1, <3>1 DEF TaskInv
      <3>3. /\ Through \in Nat /\ acked <= Through /\ Len(rest[Poller]) \in Nat
            /\ DOMAIN rest[Poller] = 1..Len(rest[Poller])
            /\ Through + Len(rest[Poller]) <= sent
        BY Zenon, ThroughIsANumber, LenProperties
      <3>4. PICK i \in 1..Len(rest[Poller]) : m = Through + i
        BY Zenon, <1>1, <2>4, <3>3 DEF PollInv, Range
      <3>. QED
        BY <1>4, <3>2, <3>3, <3>4
    <2>5. \A t \in Tasks : t = Poller \/ t \in Posts
      BY Bounds DEF Tasks, Posts, Poller
    <2>. QED
      BY Zenon, <1>2, <1>3, <2>1, <2>2, <2>3, <2>4, <2>5 DEF Waiting
  <1>15. ASSUME NEW t \in Tasks, Refuse(t)
         PROVE  Waiting(m)'
    BY Zenon, <1>5, <1>15 DEF Refuse, MoveOffset
  <1>16. CASE DeleteWebhookFails \/ GetUpdatesRaises \/ Tick \/ UNCHANGED vars
    BY Zenon, <1>5, <1>16 DEF DeleteWebhookFails, GetUpdatesRaises, Tick, vars, tvars, poll
  <1>. QED
    BY Zenon, <1>1, <1>6, <1>7, <1>9, <1>10, <1>11, <1>12, <1>13, <1>14, <1>15, <1>16
       DEF Next, Process, Poll, Advance

-----------------------------------------------------------------------------
(* The theorems *)

\* The invariant holds at the start,
LEMMA InboundInvStarts == Init => InboundInv
  <1>. SUFFICES ASSUME Init PROVE InboundInv
    OBVIOUS
  <1>1. /\ {MaxMsgs, MaxPosts, MaxTime} \subseteq Nat
        /\ {MaxWindows, MaxSeen} \subseteq Nat \ {0} /\ Poller \in Tasks /\ Never \notin Nat
        /\ Writers \subseteq [Msgs -> Users \cup {NoText}]
    BY Bounds, InboundAssumption DEF Msgs, NoText
  <1>2. /\ channel \in {"messenger", "telegram"} /\ from \in Writers
        /\ sent = 0 /\ now = 0 /\ running = Never /\ offset = Never /\ acked = 0
        /\ windows = <<>> /\ seen = <<>> /\ forgotten = {}
        /\ body = [p \in Posts |-> <<>>] /\ rest = [t \in Tasks |-> <<>>]
        /\ state = [t \in Tasks |-> IF t = Poller /\ channel = "telegram"
                                    THEN "starting" ELSE "none"]
        /\ fate = [m \in Msgs |-> "none"] /\ entered_at = [m \in Msgs |-> Never]
    BY Zenon DEF Init
  <1>3. KindInv
    <2>1. from \in [Msgs -> Users \cup {NoText}]
      BY <1>1, <1>2
    <2>2. /\ sent \in 0..MaxMsgs /\ now \in 0..MaxTime
          /\ body \in [Posts -> Seq(Msgs)] /\ rest \in [Tasks -> Seq(Msgs)]
          /\ windows \in Seq(Window) /\ seen \in Seq(Entry)
      BY <1>1, <1>2, EmptySeq
    <2>3. state \in [Tasks -> States] /\ fate \in [Msgs -> Fates]
          /\ entered_at \in [Msgs -> Nat \cup {Never}] /\ forgotten \subseteq Msgs
      BY <1>2 DEF States, Fates
    <2>. QED
      BY Zenon, <1>2, <2>1, <2>2, <2>3 DEF KindInv
  <1>4. TaskInv
    <2>1. \A t \in Tasks : rest[t] = <<>> /\ state[t] # "sending"
      BY <1>2
    <2>2. state[Poller] = IF channel = "telegram" THEN "starting" ELSE "none"
      BY <1>1, <1>2
    <2>. QED
      BY <1>2, <2>1, <2>2 DEF TaskInv
  <1>5. PollInv
    <2>1. rest[Poller] = <<>> /\ state[Poller] # "sending"
      BY <1>1, <1>2
    <2>2. Through = 0
      BY Zenon, <1>2, <2>1 DEF Through, Upto
    <2>. QED
      BY <1>2, <2>1, <2>2 DEF PollInv
  <1>6. WindowInv /\ StoreInv
    <2>1. Len(<<>>) = 0 /\ DOMAIN <<>> = {}
      OBVIOUS
    <2>2. \A m \in Msgs : ~(entered_at[m] # Never)
      BY <1>2
    <2>3. Len(windows) <= MaxWindows /\ Len(seen) <= MaxSeen
      BY <1>1, <1>2, <2>1
    <2>4. DOMAIN windows = {} /\ DOMAIN seen = {}
      BY <1>2, <2>1
    <2>. QED
      BY Zenon, <2>2, <2>3, <2>4 DEF WindowInv, StoreInv
  <1>7. NothingIsSwallowed
    BY <1>2 DEF NothingIsSwallowed
  <1>. QED
    BY <1>3, <1>4, <1>5, <1>6, <1>7 DEF InboundInv

\* and every step keeps it.
LEMMA InboundInvStays == InboundInv /\ [Next]_vars => InboundInv'
  <1>. SUFFICES ASSUME InboundInv, [Next]_vars PROVE InboundInv'
    OBVIOUS
  <1>1. KindInv'
    <2>1. KindInv
      BY DEF InboundInv
    <2>2. channel' \in {"messenger", "telegram"} /\ from' \in [Msgs -> Users \cup {NoText}]
      BY Zenon, <2>1, OthersKept DEF KindInv
    <2>. QED
      BY Zenon, <2>2, OthersKept, TasksKept, WindowsKept, StoreKept, FatesKept DEF KindInv
  <1>. QED
    BY Zenon, <1>1, TasksKept, PollKept, WindowsKept, StoreKept, NothingKept DEF InboundInv

\* The tasks, the poller's offset, the windows of the limit, the dedupe store
\* and the messages' fates agree as InboundInv says, in every reachable state.
THEOREM InboundInvHolds == Spec => []InboundInv
  BY InboundInvStarts, InboundInvStays, PTL DEF Spec

\* Type correctness: both tables keep their bounds and hold each key once, and
\* only a task with messages left is between two awaits.
THEOREM TypeCorrect == Spec => []TypeOK
  <1>1. InboundInv => TypeOK
    <2>. SUFFICES ASSUME InboundInv PROVE TypeOK
      OBVIOUS
    <2>1. \A t \in Tasks : state[t] \in {"none", "starting", "ready", "sending", "done", "ended"}
      BY DEF InboundInv, KindInv, States
    <2>2. IsInjective([i \in DOMAIN seen |-> seen[i].mid])
      BY DEF InboundInv, StoreInv, IsInjective
    <2>3. IsInjective([i \in DOMAIN windows |-> windows[i].who])
      BY DEF InboundInv, WindowInv, IsInjective
    <2>. QED
      BY Zenon, <2>1, <2>2, <2>3 DEF InboundInv, KindInv, TaskInv, WindowInv, StoreInv, TypeOK
  <1>. QED
    BY <1>1, InboundInvHolds, PTL

\* No text message that Meta or Telegram handed over disappears without one of
\* the known reasons, whatever is redelivered, fails or crashes.
THEOREM NothingDisappears == Spec => []NothingIsSwallowed
  <1>1. InboundInv => NothingIsSwallowed
    BY DEF InboundInv
  <1>. QED
    BY <1>1, InboundInvHolds, PTL

\* The dedupe store lets a message into the buffer a second time only after its
\* lifetime, or when the full store had to forget it.
THEOREM EnteredOnce == Spec => NoMessageTwice
  <1>1. ASSUME InboundInv, NEW t \in Tasks, Accept(t), entered_at[Head(rest[t])] # Never
        PROVE  now >= entered_at[Head(rest[t])] + Ttl \/ Head(rest[t]) \in forgotten
    <2>. DEFINE m == Head(rest[t])
    <2>1. m \in Msgs
      BY Zenon, <1>1, AdvanceGoesOn DEF Advance
    <2>2. ~Known(m) /\ Remember(m) /\ KindInv /\ StoreInv /\ entered_at[m] # Never
      BY Zenon, <1>1 DEF Accept, InboundInv
    <2>. HIDE DEF m
    <2>3. ASSUME NEW i \in DOMAIN seen, seen[i].mid = m
          PROVE  now >= entered_at[m] + Ttl
      <3>1. ~(seen[i].expiry > now)
        BY Zenon, <2>1, <2>2, <2>3, RememberKeepsTheStore DEF Remembered
      <3>2. seen[i].expiry = entered_at[m] + Ttl
        BY Zenon, <2>2, <2>3 DEF StoreInv
      <3>3. entered_at[m] \in Nat /\ Ttl \in Nat /\ now \in Nat
        BY <2>1, <2>2, Bounds DEF KindInv
      <3>. QED
        BY <3>1, <3>2, <3>3
    <2>. QED
      BY Zenon, <2>1, <2>2, <2>3 DEF StoreInv, m
  <1>2. InboundInv /\ [Next]_vars =>
           [\A t \in Tasks :
               LET m == Head(rest[t])
               IN  Accept(t) /\ entered_at[m] # Never
                   => now >= entered_at[m] + Ttl \/ m \in forgotten]_vars
    BY Zenon, <1>1
  <1>. QED
    BY <1>2, InboundInvHolds, PTL DEF Spec, NoMessageTwice
=============================================================================
