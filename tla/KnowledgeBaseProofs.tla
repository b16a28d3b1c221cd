------------------------ MODULE KnowledgeBaseProofs ------------------------
(***************************************************************************)
(* Proofs about the knowledge base, for any number of rebuild jobs, edits  *)
(* and outages.  "Not older" is no order (a tab that was renamed away      *)
(* compares with everything), so the invariant compares every pair of      *)
(* copies that a later step may put side by side.                          *)
(***************************************************************************)
EXTENDS KnowledgeBase, TLAPS

-----------------------------------------------------------------------------
(* Strengthenings *)

Contents == {Absent} \cup 0..MaxEdits
Sheet == [Tabs -> Contents]

\* The kinds of values TypeOK leaves open, and at most one rebuild at a time.
KindInv ==
    /\ configured \in BOOLEAN
    /\ tabs \in Sheet
    /\ past \in Seq(Sheet)
    /\ job \in [Jobs -> {"idle", "embed"} \cup Tabs]
    /\ rows \in [Jobs -> Sheet]
    /\ torn \in [Jobs -> BOOLEAN]
    /\ torn_kb \in BOOLEAN
    /\ snapshot \in Sheet /\ checked \in Sheet
    /\ turn \in {"catalog", "center", "playbook", "llm"}
    /\ prompt \in [{"catalog", "center", "playbook"} -> Sheet]
    /\ \A j, k \in Jobs : job[j] # "idle" /\ job[k] # "idle" => j = k

\* The history ends with the sheet as it is, and its length is a version that
\* no copy of a tab has reached yet.
PastInv ==
    /\ past # <<>> /\ Len(past) <= MaxEdits + 1
    /\ past[Len(past)] = tabs
    /\ \A t \in Tabs : /\ tabs[t] < Len(past) /\ snapshot[t] < Len(past)
                       /\ \A j \in Jobs : rows[j][t] < Len(past)
                       /\ \A k \in DOMAIN prompt : prompt[k][t] < Len(past)

\* What a rebuild has fetched so far.
Fetched(j) ==
    {t \in Tabs : \/ job[j] = "embed"
                  \/ job[j] = "FAQ" /\ t # "FAQ"
                  \/ job[j] = "Center" /\ t = "Courses"}

\* Once stood in this tab of the sheet.
Once(t, value) == \E i \in DOMAIN past : past[i][t] = value

\* What is fetched stood in the sheet, at one moment unless the job is torn;
\* what is not fetched yet is blank.
RowsInv ==
    \A j \in Jobs :
        /\ \A t \in Tabs \ Fetched(j) : rows[j][t] = Absent
        /\ \A t \in Fetched(j) : Once(t, rows[j][t])
        /\ "Courses" \in Fetched(j) => rows[j]["Courses"] # Absent
        /\ ~torn[j] /\ job[j] # "embed" =>
              \A t \in Fetched(j) : rows[j][t] = tabs[t]
        /\ ~torn[j] /\ job[j] = "embed" =>
              \E i \in DOMAIN past : past[i] = rows[j]

\* Sheet, rebuild, publication and reader stand in this order.
AgeInv ==
    /\ NotOlder(tabs, snapshot)
    /\ \A k \in DOMAIN prompt : NotOlder(tabs, prompt[k]) /\ NotOlder(snapshot, prompt[k])
    /\ \A j \in Jobs : /\ NotOlder(tabs, rows[j]) /\ NotOlder(rows[j], snapshot)
                       /\ \A k \in DOMAIN prompt : NotOlder(rows[j], prompt[k])

\* The parts of a prompt are read one after the other.
PromptInv ==
    /\ turn \in {"playbook", "llm", "catalog"} => NotOlder(prompt.center, prompt.catalog)
    /\ turn \in {"llm", "catalog"} => NotOlder(prompt.playbook, prompt.center)
    /\ turn = "catalog" => NotOlder(checked, prompt.playbook)

ServedInv ==
    snapshot # None =>
        /\ torn_kb \/ \E i \in DOMAIN past : past[i] = snapshot
        /\ \A t \in Tabs : Once(t, snapshot[t])

KbInv == KindInv /\ PastInv /\ RowsInv /\ AgeInv /\ PromptInv /\ ServedInv

-----------------------------------------------------------------------------
(* The invariant is inductive *)

\* What the proofs use of versions and sheets.
LEMMA Versions ==
    /\ \A v \in Contents : v \in Int
    /\ Absent \in Contents /\ Absent = -1
    /\ Empty \in Sheet /\ \A t \in Tabs : Empty[t] = Absent
    /\ \A s \in Sheet : NotOlder(s, s) /\ NotOlder(Empty, s) /\ NotOlder(s, Empty)
  BY KbAssumption DEF Contents, Absent, Empty, Sheet, NotOlder

\* Nothing is served at the start.
LEMMA InitKb == Init => KbInv
  <1>. SUFFICES ASSUME Init
                PROVE  KbInv
    OBVIOUS
  <1>. USE Versions, KbAssumption DEF Init, None
  <1>0. tabs \in Sheet
    BY DEF Sheet, Contents
  <1>1. KindInv
    <2>1. past \in Seq(Sheet) /\ rows \in [Jobs -> Sheet]
      BY <1>0
    <2>2. prompt \in [{"catalog", "center", "playbook"} -> Sheet]
      OBVIOUS
    <2>. QED
      BY <1>0, <2>1, <2>2 DEF KindInv
  <1>2. PastInv
    BY DEF PastInv, Sheet
  <1>3. RowsInv
    BY DEF RowsInv, Fetched, Tabs
  <1>4. AgeInv
    BY <1>0 DEF AgeInv
  <1>5. PromptInv /\ ServedInv
    BY DEF PromptInv, ServedInv
  <1>. QED
    BY <1>1, <1>2, <1>3, <1>4, <1>5 DEF KbInv

LEMMA StartKeepsKb ==
    ASSUME KbInv, NEW j \in Jobs, Start(j)
    PROVE  KbInv'
  <1>. USE DEF KbInv, Start, rvars, tvars
  <1>1. KindInv'
    BY DEF KindInv, Tabs
  <1>2. PastInv'
    BY DEF PastInv
  <1>3. RowsInv'
    BY DEF RowsInv, KindInv, Fetched, Once
  <1>4. AgeInv' /\ PromptInv' /\ ServedInv'
    BY DEF AgeInv, PromptInv, ServedInv, NotOlder, Once
  <1>. QED
    BY <1>1, <1>2, <1>3, <1>4

LEMMA FetchKeepsKb ==
    ASSUME KbInv, NEW j \in Jobs, Fetch(j)
    PROVE  KbInv'
  <1>. DEFINE tab == job[j]
  <1>. USE DEF KbInv, Fetch, rvars, tvars
  <1>0. /\ tab \in Tabs /\ tab \notin Fetched(j)
        /\ rows' = [rows EXCEPT ![j][tab] = tabs[tab]]
        /\ \A k \in Jobs : k # j => job[k] = "idle"
    BY DEF KindInv, Fetched, Tabs
  <1>1. KindInv'
    <2>1. rows' \in [Jobs -> Sheet]
      BY <1>0 DEF KindInv, Sheet
    <2>2. job' \in [Jobs -> {"idle", "embed"} \cup Tabs]
      BY <1>0 DEF KindInv, After, Tabs
    <2>. QED
      BY <1>0, <2>1, <2>2 DEF KindInv
  <1>2. PastInv'
    BY <1>0 DEF PastInv, KindInv, Sheet
  <1>3. RowsInv'
    <2>1. Fetched(j)' = Fetched(j) \cup {tab}
      BY <1>0 DEF Fetched, After, Tabs, KindInv
    <2>2. /\ \A t \in Tabs \ {tab} : rows'[j][t] = rows[j][t]
          /\ rows'[j][tab] = tabs[tab]
      BY <1>0 DEF KindInv, Sheet
    <2>3. Len(past) \in DOMAIN past
      BY DEF PastInv, KindInv
    <2>4. \A t \in Tabs \ Fetched(j)' : rows'[j][t] = Absent
      BY <2>1, <2>2 DEF RowsInv
    <2>5. \A t \in Fetched(j)' : Once(t, rows[j][t])' 
      BY <1>0, <2>1, <2>2, <2>3 DEF RowsInv, PastInv, Once, Fetched
    <2>6. "Courses" \in Fetched(j)' => rows'[j]["Courses"] # Absent
      BY <1>0, <2>1, <2>2 DEF RowsInv, Tabs
    <2>7. ~torn[j] => \A t \in Fetched(j)' : rows'[j][t] = tabs[t]
      <3>1. job[j] # "embed"
        BY <1>0 DEF Tabs
      <3>. QED
        BY <1>0, <2>1, <2>2, <3>1 DEF RowsInv, Fetched
    <2>8. ~torn[j] /\ job'[j] = "embed" => rows'[j] = tabs
      <3>1. job'[j] = "embed" => Fetched(j)' = Tabs
        BY DEF Fetched
      <3>2. rows'[j] \in Sheet /\ tabs \in Sheet
        BY <1>1 DEF KindInv
      <3>. QED
        BY <2>7, <3>1, <3>2 DEF Sheet
    <2>9. \A k \in Jobs : k # j =>
             Fetched(k)' = {} /\ Fetched(k) = {} /\ rows'[k] = rows[k] /\ job'[k] = job[k]
      BY <1>0 DEF KindInv, Fetched, Tabs
    <2>. QED
      BY <2>3, <2>4, <2>5, <2>6, <2>7, <2>8, <2>9 DEF RowsInv, PastInv
  <1>4. AgeInv' /\ PromptInv' /\ ServedInv'
    <2>1. \A k \in Jobs, t \in Tabs : rows'[k][t] \in {rows[k][t], tabs[t]}
      BY <1>0 DEF KindInv, Sheet
    <2>2. NotOlder(tabs, tabs)
      BY Versions DEF KindInv
    <2>. QED
      BY <2>1, <2>2 DEF AgeInv, PromptInv, ServedInv, NotOlder, Once
  <1>. QED
    BY <1>1, <1>2, <1>3, <1>4

LEMMA PublishKeepsKb ==
    ASSUME KbInv, NEW j \in Jobs, Publish(j)
    PROVE  KbInv'
  <1>. USE DEF KbInv, Publish, rvars, tvars
  <1>0. /\ \A k \in Jobs : k # j => job[k] = "idle" /\ rows'[k] = rows[k]
        /\ Fetched(j) = Tabs /\ rows'[j] = Empty
        /\ \A k \in Jobs : job'[k] = "idle"
        /\ \A k \in Jobs : Fetched(k)' = {} /\ (k # j => Fetched(k) = {})
    BY DEF KindInv, Fetched, Tabs
  <1>1. KindInv'
    BY Versions DEF KindInv
  <1>2. PastInv'
    BY <1>0, Versions DEF PastInv, KindInv
  <1>3. RowsInv'
    <2>1. \A k \in Jobs, t \in Tabs : rows'[k][t] = Absent
      BY <1>0, Versions DEF RowsInv
    <2>. QED
      BY <1>0, <2>1 DEF RowsInv
  <1>4. AgeInv'
    <2>1. \A k \in Jobs, t \in Tabs : rows'[k][t] = Absent
      BY <1>0, Versions DEF RowsInv
    <2>2. NotOlder(snapshot', snapshot')
      BY <1>1, Versions DEF KindInv
    <2>. QED
      BY <2>1, <2>2 DEF AgeInv, NotOlder
  <1>5. PromptInv'
    BY DEF PromptInv
  <1>6. ServedInv'
    BY <1>0 DEF ServedInv, RowsInv, KindInv, Once
  <1>. QED
    BY <1>1, <1>2, <1>3, <1>4, <1>5, <1>6

LEMMA FailsKeepsKb ==
    ASSUME KbInv, NEW j \in Jobs, Fails(j)
    PROVE  KbInv'
  <1>. USE DEF KbInv, Fails, rvars, tvars
  <1>0. /\ rows'[j] = Empty /\ job'[j] = "idle" /\ Fetched(j)' = {}
        /\ \A k \in Jobs : k # j => rows'[k] = rows[k] /\ job'[k] = job[k]
                                    /\ Fetched(k)' = Fetched(k)
    BY DEF KindInv, Fetched
  <1>1. KindInv'
    BY Versions DEF KindInv
  <1>2. PastInv'
    BY <1>0, Versions DEF PastInv, KindInv
  <1>3. RowsInv'
    <2>1. \A t \in Tabs : rows'[j][t] = Absent
      BY <1>0, Versions
    <2>2. \A v, t : Once(t, v)' <=> Once(t, v)
      BY DEF Once
    <2>. QED
      BY <1>0, <2>1, <2>2 DEF RowsInv
  <1>4. AgeInv' /\ PromptInv' /\ ServedInv'
    BY <1>0, Versions DEF AgeInv, PromptInv, ServedInv, NotOlder, Once
  <1>. QED
    BY <1>1, <1>2, <1>3, <1>4

LEMMA NoEmbeddingsKeepsKb ==
    ASSUME KbInv, NEW j \in Jobs, NoEmbeddings(j)
    PROVE  KbInv'
  <1>. USE DEF KbInv, NoEmbeddings, rvars, tvars
  <1>0. /\ rows'[j] = Empty /\ job'[j] = "idle" /\ Fetched(j)' = {}
        /\ \A k \in Jobs : k # j => rows'[k] = rows[k] /\ job'[k] = job[k]
                                    /\ Fetched(k)' = Fetched(k)
    BY DEF KindInv, Fetched
  <1>1. KindInv'
    BY Versions DEF KindInv
  <1>2. PastInv'
    BY <1>0, Versions DEF PastInv, KindInv
  <1>3. RowsInv'
    <2>1. \A t \in Tabs : rows'[j][t] = Absent
      BY <1>0, Versions
    <2>2. \A v, t : Once(t, v)' <=> Once(t, v)
      BY DEF Once
    <2>. QED
      BY <1>0, <2>1, <2>2 DEF RowsInv
  <1>4. AgeInv' /\ PromptInv' /\ ServedInv'
    BY <1>0, Versions DEF AgeInv, PromptInv, ServedInv, NotOlder, Once
  <1>. QED
    BY <1>1, <1>2, <1>3, <1>4

LEMMA NoCoursesKeepsKb ==
    ASSUME KbInv, NEW j \in Jobs, NoCourses(j)
    PROVE  KbInv'
  <1>. USE DEF KbInv, NoCourses, rvars, tvars
  <1>1. KindInv' /\ PastInv'
    BY DEF KindInv, PastInv
  <1>2. RowsInv'
    <2>1. \A k \in Jobs : Fetched(k)' = Fetched(k) /\ (k # j => job'[k] = job[k])
      BY DEF KindInv, Fetched
    <2>2. Fetched(j) = {}
      BY DEF Fetched
    <2>. QED
      BY <2>1, <2>2 DEF RowsInv, Once
  <1>3. AgeInv' /\ PromptInv' /\ ServedInv'
    BY DEF AgeInv, PromptInv, ServedInv, NotOlder, Once
  <1>. QED
    BY <1>1, <1>2, <1>3

LEMMA EditKeepsKb ==
    ASSUME KbInv, NEW t \in Tabs, NEW c \in {Len(past), Absent}, Edit(t, c)
    PROVE  KbInv'
  <1>. USE DEF KbInv
  <1>0. /\ tabs' \in Sheet
        /\ \A u \in Tabs : tabs'[u] \in {tabs[u], Len(past), Absent}
        /\ Len(past) \in Nat /\ Len(past) <= MaxEdits
    BY KbAssumption DEF Edit, KindInv, PastInv, Contents, Absent, Sheet
  <1>1. /\ past' \in Seq(Sheet) /\ Len(past') = Len(past) + 1
        /\ past'[Len(past')] = tabs'
        /\ DOMAIN past \subseteq DOMAIN past' /\ past' # <<>>
        /\ \A i \in DOMAIN past : past'[i] = past[i]
    BY <1>0 DEF Edit, KindInv
  <1>2. /\ configured' = configured
        /\ job' = job /\ rows' = rows /\ snapshot' = snapshot /\ torn_kb' = torn_kb
        /\ turn' = turn /\ prompt' = prompt /\ checked' = checked
        /\ torn' = [j \in Jobs |-> torn[j] \/ job[j] \in {"Center", "FAQ"}]
    BY DEF Edit, tvars
  <1>3. KindInv'
    BY <1>0, <1>1, <1>2 DEF KindInv
  <1>4. PastInv'
    <2>0. \A s \in Sheet, u \in Tabs : s[u] \in Int
      BY DEF Sheet, Contents, Absent
    <2>1. \A u \in Tabs : tabs'[u] < Len(past) + 1
      BY SMTT(30), <1>0, <2>0 DEF PastInv, KindInv, Absent
    <2>2. \A s \in Sheet, u \in Tabs : s[u] < Len(past) => s[u] < Len(past) + 1
      BY <1>0, <2>0
    <2>. QED
      BY <1>0, <1>1, <1>2, <2>1, <2>2, KbAssumption DEF PastInv, KindInv
  <1>5. RowsInv'
    <2>1. \A j \in Jobs : Fetched(j)' = Fetched(j)
      BY <1>2 DEF Fetched
    <2>2. \A u \in Tabs : \A v : Once(u, v) => Once(u, v)'
      BY <1>1 DEF Once
    <2>3. \A j \in Jobs : ~torn'[j] => job[j] \notin {"Center", "FAQ"} /\ ~torn[j]
      BY <1>2 DEF KindInv
    <2>4. \A j \in Jobs : job[j] \notin {"Center", "FAQ", "embed"} => Fetched(j) = {}
      BY DEF Fetched
    <2>5. \A j \in Jobs : \A u \in Fetched(j) : Once(u, rows[j][u])'
      BY <1>2, <2>2 DEF RowsInv, Fetched
    <2>6. \A j \in Jobs : ~torn'[j] /\ job[j] = "embed" =>
             \E i \in DOMAIN past' : past'[i] = rows[j]
      BY <1>1, <2>3 DEF RowsInv
    <2>. QED
      BY <1>2, <2>1, <2>3, <2>4, <2>5, <2>6 DEF RowsInv
  <1>6. AgeInv'
    <2>1. ASSUME NEW s \in Sheet, NotOlder(tabs, s), \A u \in Tabs : s[u] < Len(past)
          PROVE  NotOlder(tabs', s)
      BY <1>0, <2>1 DEF NotOlder, Sheet, Contents, Absent
    <2>2. /\ NotOlder(tabs', snapshot)
          /\ \A k \in DOMAIN prompt : NotOlder(tabs', prompt[k])
          /\ \A j \in Jobs : NotOlder(tabs', rows[j])
      BY <2>1 DEF AgeInv, PastInv, KindInv
    <2>. QED
      BY <1>2, <2>2 DEF AgeInv, NotOlder
  <1>7. PromptInv' /\ ServedInv'
    BY <1>1, <1>2 DEF PromptInv, ServedInv, Once, NotOlder
  <1>. QED
    BY <1>3, <1>4, <1>5, <1>6, <1>7

LEMMA ReadKeepsKb ==
    ASSUME KbInv, Read
    PROVE  KbInv'
  <1>. USE DEF KbInv, Read, ReadsNext, rvars
  <1>0. /\ turn \in {"catalog", "center", "playbook"}
        /\ prompt'[turn] = snapshot
        /\ \A k \in DOMAIN prompt : k # turn => prompt'[k] = prompt[k]
        /\ DOMAIN prompt' = DOMAIN prompt
    BY DEF KindInv
  <1>1. KindInv'
    BY <1>0 DEF KindInv
  <1>2. PastInv' /\ RowsInv' /\ ServedInv'
    BY <1>0 DEF PastInv, RowsInv, ServedInv, Fetched, Once
  <1>3. AgeInv'
    <2>1. NotOlder(snapshot, snapshot)
      BY Versions DEF KindInv
    <2>. QED
      BY <1>0, <2>1 DEF AgeInv, NotOlder
  <1>4. PromptInv'
    BY <1>0 DEF PromptInv, AgeInv, KindInv, NotOlder
  <1>. QED
    BY <1>1, <1>2, <1>3, <1>4

LEMMA CheckKeepsKb ==
    ASSUME KbInv, Check
    PROVE  KbInv'
  <1>. USE DEF KbInv, Check, rvars
  <1>1. KindInv' /\ PastInv' /\ RowsInv' /\ ServedInv'
    BY DEF KindInv, PastInv, RowsInv, ServedInv, Fetched, Once
  <1>2. AgeInv' /\ PromptInv'
    BY DEF AgeInv, PromptInv, KindInv, NotOlder
  <1>. QED
    BY <1>1, <1>2

LEMMA NextKeepsKb == KbInv /\ [Next]_vars => KbInv'
  <1>. SUFFICES ASSUME KbInv, [Next]_vars
                PROVE  KbInv'
    OBVIOUS
  <1>1. CASE \E j \in Jobs : JobStep(j)
    BY <1>1, StartKeepsKb, FetchKeepsKb, PublishKeepsKb, FailsKeepsKb, NoCoursesKeepsKb,
       NoEmbeddingsKeepsKb
       DEF JobStep
  <1>2. CASE \E t \in Tabs : Edit(t, Len(past)) \/ Edit(t, Absent)
    BY <1>2, EditKeepsKb
  <1>3. CASE Read \/ Check
    BY <1>3, ReadKeepsKb, CheckKeepsKb
  <1>4. CASE UNCHANGED vars
    BY <1>4 DEF vars, rvars, tvars, KbInv, KindInv, PastInv, RowsInv, AgeInv, PromptInv,
                ServedInv, NotOlder, Fetched, Once
  <1>. QED
    BY <1>1, <1>2, <1>3, <1>4 DEF Next

LEMMA KbInvHolds == Spec => []KbInv
  BY InitKb, NextKeepsKb, PTL DEF Spec

-----------------------------------------------------------------------------
(* The properties *)

\* The variables hold values of the kinds the code gives them, and never do two
\* rebuilds run at once.
THEOREM TypeCorrect == Spec => []TypeOK
  <1>1. KbInv => TypeOK
    <2>. SUFFICES ASSUME KindInv
                  PROVE  TypeOK
      BY DEF KbInv
    <2>1. \A s \in Sheet : DOMAIN s = Tabs
      BY DEF Sheet
    <2>2. Range(prompt) \subseteq Sheet
      BY DEF KindInv, Range
    <2>. QED
      BY <2>1, <2>2 DEF KindInv, TypeOK, Sheet, Contents
  <1>. QED
    BY <1>1, KbInvHolds, PTL

\* The snapshot is the sheet of one moment unless its job was torn by an edit,
\* and a tab of it is always one the staff wrote: no outage empties a tab.
THEOREM SnapshotIsTheSheet == Spec => []ServesTheSheet
  <1>1. KbInv => ServesTheSheet
    BY DEF KbInv, ServedInv, ServesTheSheet, Once, Range
  <1>. QED
    BY <1>1, KbInvHolds, PTL

\* The guard's courses are at least as new as those of the prompt whose draft it
\* checks, however many rebuilds publish while the turn runs.
THEOREM GuardIsUpToDate == Spec => []GuardIsNotBehindThePrompt
  <1>1. KbInv => GuardIsNotBehindThePrompt
    BY DEF KbInv, PromptInv, GuardIsNotBehindThePrompt
  <1>. QED
    BY <1>1, KbInvHolds, PTL

\* No publication serves an older state of a tab, nor nothing after something.
THEOREM ServingIsMonotone == Spec => NeverServesOlder
  <1>1. ASSUME KbInv, [Next]_vars
        PROVE  [snapshot # None => snapshot' # None /\ NotOlder(snapshot', snapshot)]_vars
    <2>1. ASSUME NEW j \in Jobs, Publish(j)
          PROVE  snapshot' # None /\ NotOlder(snapshot', snapshot)
      <3>1. Fetched(j) = Tabs
        BY <2>1 DEF Publish, Fetched
      <3>2. rows[j]["Courses"] # Absent
        BY <1>1, <3>1 DEF KbInv, RowsInv, Tabs
      <3>3. None["Courses"] = Absent
        BY Versions DEF None, Tabs
      <3>. QED
        BY <1>1, <2>1, <3>2, <3>3 DEF Publish, KbInv, AgeInv
    <2>2. CASE UNCHANGED snapshot
      <3>1. NotOlder(snapshot, snapshot)
        BY <1>1, Versions DEF KbInv, KindInv
      <3>. QED
        BY <2>2, <3>1 DEF NotOlder
    <2>3. (\E j \in Jobs : Publish(j)) \/ UNCHANGED snapshot
      BY <1>1 DEF Next, JobStep, Start, Fetch, Fails, NoCourses, NoEmbeddings, Edit, Read, Check, vars,
                  rvars, tvars
    <2>. QED
      BY <2>1, <2>2, <2>3
  <1>2. KbInv /\ [Next]_vars =>
          [snapshot # None => snapshot' # None /\ NotOlder(snapshot', snapshot)]_vars
    BY <1>1
  <1>. QED
    BY <1>2, KbInvHolds, PTL DEF Spec, NeverServesOlder
=============================================================================
