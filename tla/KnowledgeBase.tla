--------------------------- MODULE KnowledgeBase ---------------------------
(***************************************************************************)
(* The knowledge base between the staff, who edit the three tabs of a      *)
(* Google Sheet at any time, the rebuild, which runs in a thread of its    *)
(* own and fetches one tab after the other, and the turns, which read the  *)
(* published snapshot without a lock: the prompt in three reads            *)
(* (get_catalog_text, get_center_always, get_verbatim_map), pricing_guard  *)
(* in a fourth one after the LLM has answered.                             *)
(*                                                                         *)
(* The contents of a tab are abstracted to the number of the edit that     *)
(* produced them.  KbParser says what becomes of the rows.                 *)
(***************************************************************************)
EXTENDS Integers, Sequences, SequencesExt

CONSTANTS
    Jobs,         \* threads that may run rebuild
    MaxEdits,     \* bound on the edits of the sheet
    MaxOutages    \* bound on the rebuilds that fail

ASSUME KbAssumption == {MaxEdits, MaxOutages} \subseteq Nat

VARIABLES
    configured, \* Settings has the two fields _ensure_embeddings reads; as the
                \* repository stands it has neither, and this is FALSE
    tabs,       \* the sheet: tab -> its contents, Absent without the worksheet
    past,       \* history: every state the sheet has been in
    job,        \* job -> idle, Courses, Center, FAQ (to be fetched), embed
    rows,       \* job -> what it has fetched
    torn,       \* job -> history: the sheet changed between its fetches
    snapshot,   \* KnowledgeBase._snapshot, None before the first publication
    torn_kb,    \* history: the snapshot's job was torn
    turn,       \* the reading turn: catalog, center, playbook, llm
    prompt,     \* the snapshots its prompt was read from
    checked,    \* the snapshot pricing_guard compared the draft with
    outages

rvars == <<job, rows, torn, snapshot, torn_kb>>
tvars == <<turn, prompt, checked>>
vars == <<configured, tabs, past, rvars, tvars, outages>>

Tabs == {"Courses", "Center", "FAQ"}
Absent == -1
Empty == [t \in Tabs |-> Absent]
None == Empty      \* no Courses: the shape of a snapshot that is never published

Init ==
    /\ configured \in BOOLEAN
    /\ tabs = [t \in Tabs |-> 0]
    /\ past = <<tabs>>
    /\ job = [j \in Jobs |-> "idle"]
    /\ rows = [j \in Jobs |-> Empty]
    /\ torn = [j \in Jobs |-> FALSE]
    /\ snapshot = None /\ torn_kb = FALSE
    /\ turn = "catalog"
    /\ prompt = [catalog |-> None, center |-> None, playbook |-> None]
    /\ checked = None
    /\ outages = 0

-----------------------------------------------------------------------------
(* rebuild *)

\* Mutant: max_instances is not set, and a slow rebuild is overtaken.
BrokenStart(j) ==
    /\ job[j] = "idle"
    /\ job' = [job EXCEPT ![j] = "Courses"]
    /\ torn' = [torn EXCEPT ![j] = FALSE]
    /\ UNCHANGED <<configured, tabs, past, rows, snapshot, torn_kb, tvars, outages>>

\* The start-up's rebuild, and every interval's after it: never two at once.
Start(j) ==
    /\ \A k \in Jobs : job[k] = "idle"
    /\ job' = [job EXCEPT ![j] = "Courses"]
    /\ torn' = [torn EXCEPT ![j] = FALSE]
    /\ UNCHANGED <<configured, tabs, past, rows, snapshot, torn_kb, tvars, outages>>

After == [Courses |-> "Center", Center |-> "FAQ", FAQ |-> "embed"]

\* _fetch: an optional tab that is not there counts as empty.
Fetch(j) ==
    LET tab == job[j]
    IN  /\ tab \in Tabs
        /\ tab = "Courses" => tabs[tab] # Absent
        /\ rows' = [rows EXCEPT ![j][tab] = tabs[tab]]
        /\ job' = [job EXCEPT ![j] = After[tab]]
        /\ UNCHANGED <<configured, tabs, past, torn, snapshot, torn_kb, tvars, outages>>

\* The documents are embedded (a network call), then one rebind publishes.
Publish(j) ==
    /\ job[j] = "embed" /\ configured
    /\ snapshot' = rows[j]
    /\ torn_kb' = torn[j]
    /\ rows' = [rows EXCEPT ![j] = Empty]
    /\ job' = [job EXCEPT ![j] = "idle"]
    /\ UNCHANGED <<configured, tabs, past, torn, tvars, outages>>

\* Mutant: any failing fetch of an optional tab counts as an empty tab.
BrokenFails(j) ==
    /\ job[j] # "idle"
    /\ outages < MaxOutages /\ outages' = outages + 1
    /\ IF job[j] \in {"Center", "FAQ"}
       THEN job' = [job EXCEPT ![j] = After[@]] /\ UNCHANGED rows
       ELSE job' = [job EXCEPT ![j] = "idle"] /\ rows' = [rows EXCEPT ![j] = Empty]
    /\ UNCHANGED <<configured, tabs, past, torn, snapshot, torn_kb, tvars>>

\* Mutant: the failure leaves the job's slot taken.
StuckFails(j) ==
    /\ job[j] # "idle"
    /\ outages < MaxOutages /\ outages' = outages + 1
    /\ job' = [job EXCEPT ![j] = "failed"]
    /\ UNCHANGED <<configured, tabs, past, rows, torn, snapshot, torn_kb, tvars>>

\* The Sheets or the embedding service raises: the last good snapshot stays.
Fails(j) ==
    /\ job[j] # "idle"
    /\ outages < MaxOutages /\ outages' = outages + 1
    /\ job' = [job EXCEPT ![j] = "idle"]
    /\ rows' = [rows EXCEPT ![j] = Empty]
    /\ UNCHANGED <<configured, tabs, past, torn, snapshot, torn_kb, tvars>>

\* Without the Courses tab the rebuild fails as well.
NoCourses(j) ==
    /\ job[j] = "Courses" /\ tabs["Courses"] = Absent
    /\ job' = [job EXCEPT ![j] = "idle"]
    /\ UNCHANGED <<configured, tabs, past, rows, torn, snapshot, torn_kb, tvars, outages>>

\* _ensure_embeddings: a field that Settings lacks raises, in every rebuild.
NoEmbeddings(j) ==
    /\ job[j] = "embed" /\ ~configured
    /\ job' = [job EXCEPT ![j] = "idle"]
    /\ rows' = [rows EXCEPT ![j] = Empty]
    /\ UNCHANGED <<configured, tabs, past, torn, snapshot, torn_kb, tvars, outages>>

-----------------------------------------------------------------------------
(* The staff *)

\* New contents for a tab, or the tab renamed away.
Edit(t, contents) ==
    /\ Len(past) <= MaxEdits
    /\ tabs' = [tabs EXCEPT ![t] = contents]
    /\ tabs' # tabs
    /\ past' = Append(past, tabs')
    /\ torn' = [j \in Jobs |-> torn[j] \/ job[j] \in {"Center", "FAQ"}]
    /\ UNCHANGED <<configured, job, rows, snapshot, torn_kb, tvars, outages>>

-----------------------------------------------------------------------------
(* A turn *)

\* _system_text: three getters, each of which reads the snapshot for itself.
ReadsNext == [catalog |-> "center", center |-> "playbook", playbook |-> "llm"]

Read ==
    /\ turn \in DOMAIN ReadsNext
    /\ prompt' = [prompt EXCEPT ![turn] = snapshot]
    /\ turn' = ReadsNext[turn]
    /\ UNCHANGED <<configured, tabs, past, rvars, checked, outages>>

\* Mutant: the guard keeps the course list of its first check.
BrokenCheck ==
    /\ turn = "llm"
    /\ checked' = IF checked = None THEN snapshot ELSE checked
    /\ turn' = "catalog"
    /\ UNCHANGED <<configured, tabs, past, rvars, prompt, outages>>

\* The LLM has answered: the guard reads get_all_courses.
Check ==
    /\ turn = "llm"
    /\ checked' = snapshot
    /\ turn' = "catalog"
    /\ UNCHANGED <<configured, tabs, past, rvars, prompt, outages>>

-----------------------------------------------------------------------------

JobStep(j) ==
    Start(j) \/ Fetch(j) \/ Publish(j) \/ Fails(j) \/ NoCourses(j) \/ NoEmbeddings(j)

Next ==
    \/ \E j \in Jobs : JobStep(j)
    \/ \E t \in Tabs : Edit(t, Len(past)) \/ Edit(t, Absent)
    \/ Read
    \/ Check

Spec == Init /\ [][Next]_vars

\* The scheduler starts a rebuild every kb_sync_interval_sec, and a rebuild
\* returns.
FairSpec == Spec /\ WF_vars(\E j \in Jobs : JobStep(j))

-----------------------------------------------------------------------------
(* Properties *)

\* The variables hold values of the kinds the code gives them, and at most one
\* rebuild runs.
TypeOK ==
    /\ configured \in BOOLEAN
    /\ tabs \in [Tabs -> {Absent} \cup 0..MaxEdits]
    /\ job \in [Jobs -> {"idle", "embed"} \cup Tabs]
    /\ \A j, k \in Jobs : job[j] # "idle" /\ job[k] # "idle" => j = k
    /\ turn \in {"catalog", "center", "playbook", "llm"}
    /\ \A s \in {snapshot, checked} \cup Range(prompt) : DOMAIN s = Tabs

NotOlder(new, old) ==
    \A t \in Tabs : Absent \in {new[t], old[t]} \/ new[t] >= old[t]

\* What customers are told never falls back to an earlier state of a tab, and
\* once something is served something stays served, whichever rebuilds fail.
NeverServesOlder ==
    [][snapshot # None => snapshot' # None /\ NotOlder(snapshot', snapshot)]_vars

\* The snapshot is the sheet as a whole, as it was at some moment; only if the
\* staff edited it between two fetches of one rebuild can it combine tabs that
\* never stood side by side.  A failing service never empties a tab.
ServesTheSheet ==
    snapshot # None =>
        \/ snapshot \in Range(past)
        \/ torn_kb /\ \A t \in Tabs : \E s \in Range(past) : snapshot[t] = s[t]

\* pricing_guard compares a draft with courses at least as new as those in the
\* prompt the draft was written from, and the parts of a prompt are in order.
GuardIsNotBehindThePrompt ==
    turn = "catalog" =>
        /\ NotOlder(checked, prompt.playbook)
        /\ NotOlder(prompt.playbook, prompt.center)
        /\ NotOlder(prompt.center, prompt.catalog)

\* When the staff leave the sheet alone and the services work, what is on the
\* sheet is what is served, if Settings names the embedding model and its key.
\* If not, as in the repository, nothing is ever served, however often the
\* rebuild runs.
SheetIsServed ==
    <>[](tabs["Courses"] # Absent => snapshot = IF configured THEN tabs ELSE None)
=============================================================================
