---------------------------- MODULE CatalogGuard ----------------------------
(***************************************************************************)
(* From the sheet to the reply: a sync publishes what KbParser makes of    *)
(* the rows, the LLM writes any draft, pricing_guard judges it against the *)
(* published courses, and the draft or the honest fallback leaves.         *)
(* KnowledgeBase models when syncs and reads happen, ConversationTurn what *)
(* surrounds the guard; here are the two algorithms, for every sheet and   *)
(* every draft of the instance.                                            *)
(***************************************************************************)
EXTENDS PricingGuard

CONSTANTS
    Sheets,   \* what the staff may have written
    Drafts    \* what the LLM may write

VARIABLES
    sheet,    \* the three tabs
    kb,       \* what the last sync published: Parse(sheet)
    synced,   \* a sync has published or failed
    draft,    \* the reply under way, <<>> between turns
    verdict   \* of pricing_guard on that draft

vars == <<sheet, kb, synced, draft, verdict>>

NoVerdict == [violations |-> {"not checked"}, quoted_price |-> FALSE]

Init ==
    /\ sheet \in Sheets
    /\ kb = Empty /\ synced = FALSE
    /\ draft = <<>> /\ verdict = NoVerdict

Publish ==
    /\ ~synced /\ ~SchemaError(sheet)
    /\ kb' = Parse(sheet)
    /\ synced' = TRUE
    /\ UNCHANGED <<sheet, draft, verdict>>

\* KbSchemaError: the last good snapshot (here none) goes on serving.
SyncFails ==
    /\ ~synced /\ SchemaError(sheet)
    /\ synced' = TRUE
    /\ UNCHANGED <<sheet, kb, draft, verdict>>

\* The guard judges the final draft.
Judge(d) ==
    /\ synced /\ draft = <<>>
    /\ draft' = d
    /\ verdict' = evaluate_draft(kb.courses, d)
    /\ UNCHANGED <<sheet, kb, synced>>

\* The draft, or the fallback in its place, goes out.
TurnOver ==
    /\ draft # <<>>
    /\ draft' = <<>> /\ verdict' = NoVerdict
    /\ UNCHANGED <<sheet, kb, synced>>

Next == Publish \/ SyncFails \/ (\E d \in Drafts : Judge(d)) \/ TurnOver

Spec == Init /\ [][Next]_vars

Approved == draft # <<>> /\ verdict.violations = {}

-----------------------------------------------------------------------------
(* What a reader makes of the draft *)

\* A spelled-out number: up to three words on each side of "tram", two digits
\* in a row being tens and units ("bon lam" is 45), "linh" a missing ten.
Worth(word) == CASE word = "muoi" -> 10 [] word = "linh" -> 0 [] OTHER -> WordDigits[word]

Tens(words) ==
    CASE Len(words) = 0 -> 0
      [] Len(words) = 1 -> Worth(words[1])
      [] Len(words) = 2 -> IF words[1] = "muoi" THEN 10 + Worth(words[2])
                           ELSE IF words[2] = "muoi" THEN 10 * Worth(words[1])
                           ELSE 10 * Worth(words[1]) + Worth(words[2])
      [] Len(words) = 3 -> 10 * Worth(words[1]) + Worth(words[3])

\* "hai tram tu" is 240.
Spoken(number) ==
    100 * Tens(number.hundred)
    + IF number.hundred # <<>> /\ Len(number.tens) = 1 /\ number.tens # <<"muoi">>
      THEN 10 * Tens(number.tens) ELSE Tens(number.tens)

\* The next smaller unit.
SmallUnit == [ty |-> Million, trieu |-> Thousand, nghin |-> 1]

Part(digits, unit) == IF digits = <<>> THEN 0 ELSE Decimals(digits, Places[unit])

\* The amount the writer had in mind.
MeantWhole(c) ==
    CASE c.form = "words" -> Spoken(c.words) * UnitValue[c.unit]
      [] c.form = "digits" ->
           IF Len(c.frac) = 3 THEN (c.n * Thousand + Number(c.frac)) * UnitValue[c.unit]
           ELSE c.n * UnitValue[c.unit] + Part(c.frac, c.unit)

MeantRest(c) ==
    CASE c.then = "count" -> 0
      [] c.then = "unit" ->
           SmallUnit[c.unit] * (IF c.form = "digits" THEN Number(c.tail) ELSE Spoken(c.rest))
      [] c.then = "part" ->
           IF c.form = "digits" THEN Part(c.tail, c.unit)
           ELSE Spoken(c.rest) * 10^(Places[c.unit] - Len(c.rest.tens))

Meant(c) ==
    IF c.form = "dong" THEN c.n
    ELSE MeantWhole(c) + MeantRest(c) + IF c.half THEN UnitValue[c.unit] \div 2 ELSE 0

Priced(claims) == {c \in claims : c.form \notin {"pct", "free", "phone"}}

Nought == [hundred |-> <<>>, tens |-> <<>>]

\* The tokenizer takes the whole number: it has no hundreds, or is hundreds of
\* thousands without tens; and it has "muoi" between tens and units.
TakenWhole(number, unit) ==
    \/ number.hundred = <<>> /\ IsWordNum(number.tens)
    \/ unit = "nghin" /\ number.tens = <<>> /\ IsWordNum(number.hundred)

\* The forms the tokenizer misreads: a dot that groups thousands before a unit
\* ("1.500 nghin"), "ruoi" or a remainder after billions and thousands ("1 ty
\* ruoi"), a remainder of tens of thousands with a unit of its own ("5 trieu 50
\* nghin"), and a count that follows millions ("5 trieu 12 buoi" is 5.120.000).
MisreadDigits(c) ==
    \/ Len(c.frac) = 3
    \/ c.unit # "trieu" /\ (c.half \/ (c.tail # <<>> /\ c.then # "count"))
    \/ c.unit = "trieu" /\ c.tail # <<>> /\ \/ c.then = "unit" /\ Len(c.tail) # 3
                                            \/ c.then = "count" /\ c.frac = <<>> /\ ~c.half

\* In words also hundreds followed by tens ("nam tram nam muoi nghin" is 50.000,
\* "mot tram nam muoi trieu" 50 million), hundreds of millions, tens without
\* "muoi" ("bon lam trieu" is 5 million), any remainder of millions but one digit
\* ("nam trieu tam") or hundreds ("nam trieu hai tram nghin"), and again a count
\* ("nam trieu hai buoi" is 5.200.000).
MisreadWords(c) ==
    \/ ~TakenWhole(c.words, c.unit)
    \/ c.unit # "trieu" /\ (c.half \/ (c.rest # Nought /\ c.then # "count"))
    \/ c.unit = "trieu" /\ c.rest # Nought
         /\ CASE c.then = "part" -> Len(c.rest.tens) # 1
              [] c.then = "unit" ->
                   c.rest.tens # <<>> \/ Len(c.rest.hundred) # 1 \/ ~BeginsWithDigit(c.rest)
              [] c.then = "count" -> ~c.half /\ BeginsWithDigit(c.rest)

Misread(c) ==
    \/ c.form = "digits" /\ MisreadDigits(c)
    \/ c.form = "words" /\ MisreadWords(c)

\* A name calls its course unless it is part of a longer name; an id or an
\* alias always does.
Called(text) ==
    {c \in DOMAIN kb.courses :
        \/ id_in_draft(c, text)
        \/ alias_in_draft(kb.courses[c].tu_khoa, text)
        \/ \E s \in spans(kb.courses[c].ten_khoa, text) :
              \A d \in DOMAIN kb.courses :
                 \A o \in spans(kb.courses[d].ten_khoa, text) : ~Within(s, o)}

\* To a reader an amount or a date is no part of a name.
NoWord == ""

Bare(segment) ==
    [segment EXCEPT !.words = [i \in DOMAIN segment.words |->
                                 IF i \in segment.numeric THEN NoWord ELSE segment.words[i]]]

Mentioned(text) == Called([s \in DOMAIN text |-> Bare(text[s])])

\* With its amounts and dates the text calls other courses than without: the 9
\* of "mon toan 9.000.000" calls "Toan 9".
Borrows(text) == Called(text) # Mentioned(text)

\* The courses a sentence is about: those it mentions, else those it
\* paraphrases, else those the whole reply is about.
About(s) ==
    CASE Mentioned(<<draft[s]>>) # {} -> Mentioned(<<draft[s]>>)
      [] Mentioned(<<draft[s]>>) = {} /\ fuzzy(kb.courses, <<draft[s]>>) # {} ->
           fuzzy(kb.courses, <<draft[s]>>)
      [] OTHER -> IF Mentioned(draft) # {} THEN Mentioned(draft)
                  ELSE fuzzy(kb.courses, draft)

\* A course called by id or alias whose name stands in the text only inside a
\* longer name: the matcher forgets the call.
Forgotten(text) ==
    {c \in Called(text) :
        /\ spans(kb.courses[c].ten_khoa, text) # {}
        /\ \A s \in spans(kb.courses[c].ten_khoa, text) :
              \E d \in Called(text) :
                 \E o \in spans(kb.courses[d].ten_khoa, text) : Within(s, o)}

-----------------------------------------------------------------------------
(* What is taken for granted about sheets and drafts: text is made of words *)
(* and amounts, written well enough to mean something, and a blank cell says *)
(* nothing.                                                                  *)

Forms == {"pct", "free", "phone", "dong", "digits", "words"}
NumberWords == DOMAIN WordDigits \cup {"muoi", "linh"}

IsANumber(number) ==
    /\ {number.hundred, number.tens} \subseteq Seq(NumberWords)
    /\ {Len(number.hundred), Len(number.tens)} \subseteq 0..3
    /\ number = [hundred |-> number.hundred, tens |-> number.tens]

\* A remainder follows neither decimals nor "ruoi"; a part of the unit is at
\* most two digits in words.
WellWritten(c) ==
    /\ c.form \in Forms /\ c.n \in Nat /\ c.unit \in DOMAIN UnitValue
    /\ c.half \in BOOLEAN /\ c.then \in {"part", "unit", "count"}
    /\ {c.frac, c.tail} \subseteq Seq(0..9)
    /\ Len(c.frac) \in 0..3 /\ Len(c.tail) \in 0..5
    /\ IsANumber(c.words) /\ IsANumber(c.rest)
    /\ c.form = "digits" => /\ c.then # "count" /\ c.tail # <<>> => c.frac = <<>> /\ ~c.half
                            /\ c.half => c.frac = <<>>
    /\ c.form = "words" => /\ c.then # "count" /\ c.rest # Nought => ~c.half
                           /\ c.then = "part" => c.rest.hundred = <<>> /\ Len(c.rest.tens) <= 2
                                                 /\ ToSet(c.rest.tens) \subseteq DOMAIN WordDigits

\* A date has its parts, a time has no year.
WellDated(d) ==
    /\ d \in [kind : {"date", "time"}, day : Nat, month : Nat, year : Nat,
              hour : Nat, minute : Nat \cup {-1}]
    /\ d.kind = "time" => d.year = 0

WellSaid(x) == (\A c \in x.money : WellWritten(c)) /\ (\A d \in x.dates : WellDated(d))

IsASequence(s) == s \in Seq(ToSet(s))

IsADraft(text) ==
    /\ IsASequence(text)
    /\ \A s \in DOMAIN text : IsASequence(text[s].words) /\ WellSaid(text[s])

IsACell(c) ==
    WellSaid(c) /\ (c.blank => c.money = {} /\ c.dates = {} /\ c.offers = {})

IsASheet(tabs) ==
    /\ IsASequence(tabs.courses) /\ IsASequence(tabs.center) /\ IsASequence(tabs.faq)
    /\ \A i \in DOMAIN tabs.courses :
          /\ IsASequence(tabs.courses[i].name)
          /\ \A k \in VerbatimFields : IsACell(cell(tabs.courses[i], k))

ASSUME GuardAssumption ==
    (\A tabs \in Sheets : IsASheet(tabs)) /\ (\A text \in Drafts : IsADraft(text))

-----------------------------------------------------------------------------
(* Properties *)

\* Every price in an approved reply is a price of the one course its sentence
\* is about, as a reader would take both, unless the tokenizer misreads one of
\* the amounts.  Three kinds of reply escape the guard: one for which the
\* matcher forgets a course; one in which an amount or a date completes a
\* course's name, so that "mon toan 9.000.000" is about "Toan 9" (only the guess
\* by words takes the amounts out first); and one with a sentence that
\* paraphrases several courses, whose price need only be that of the course some
\* other sentence mentions.
QuotesTheNamedCourse ==
    Approved =>
        \A s \in DOMAIN draft :
            LET prices == Priced(draft[s].money)
            IN  \/ prices = {}
                \/ \E p \in prices : Misread(p)
                \/ Forgotten(<<draft[s]>>) # {} \/ Forgotten(draft) # {}
                \/ Borrows(<<draft[s]>>) \/ Borrows(draft)
                \/ \E c \in DOMAIN kb.courses :
                      LET facts == kb.courses[c].facts.money
                      IN  /\ \/ About(s) = {c}
                             \/ Cardinality(About(s)) > 1 /\ Mentioned(<<draft[s]>>) = {}
                                /\ Mentioned(draft) = {c}
                          /\ \/ \E f \in facts : Misread(f)
                             \/ {Meant(p) : p \in prices} \subseteq {Meant(f) : f \in Priced(facts)}

\* A reply is not blocked for nothing: when each sentence that states an
\* amount, a date or an offer calls one course by its name, no amount or date
\* completes the name of another, and what it states repeats that course's
\* cells, the amounts in any of the forms that the tokenizer does not misread,
\* then the guard lets it pass.
HonestReplyPasses ==
    (/\ draft # <<>>
     /\ \A s \in DOMAIN draft :
           \/ draft[s].money = {} /\ draft[s].dates = {} /\ draft[s].offers = {}
           \/ \E c \in DOMAIN kb.courses :
                LET facts == kb.courses[c].facts
                IN  /\ Mentioned(<<draft[s]>>) = {c} /\ ~Borrows(<<draft[s]>>)
                    /\ spans(kb.courses[c].ten_khoa, <<draft[s]>>) # {}
                    /\ Priced(draft[s].money) = draft[s].money
                    /\ \A p \in draft[s].money :
                          /\ ~Misread(p)
                          /\ \E f \in Priced(facts.money) :
                                ~Misread(f) /\ Meant(f) = Meant(p)
                    /\ draft[s].dates
                         \subseteq facts.dates \cup {[d EXCEPT !.year = 0] : d \in facts.dates}
                    /\ draft[s].offers \subseteq facts.offers)
    => verdict.violations = {}

\* What the name, the official cells and the prose of a Courses row say is
\* served.  The deprecated column is not missed when the new one is filled in;
\* aliases are not looked at: short ones are dropped and no error says so.
CourseIsServed(i) ==
    LET row == sheet.courses[i]
    IN  \/ row.blank
        \/ /\ row.id \in DOMAIN kb.courses
           /\ kb.courses[row.id].ten_khoa = row.name
           /\ kb.courses[row.id].facts = Says({cell(row, k) : k \in VerbatimFields})
           /\ {k \in VerbatimFields \cup ProseFields : ~cell(row, k).blank}
                \subseteq kb.courses[row.id].block

CenterIsServed(i) ==
    LET row == sheet.center[i]
    IN  \/ row.topic = NoText /\ row.text = NoText
        \/ <<row.topic, row.text>> \in kb.always
        \/ <<"center", row.topic, row.text>> \in kb.docs
        \/ /\ row.kind = "verbatim" /\ row.topic \in DOMAIN kb.verbatim
           /\ \/ kb.verbatim[row.topic] = row.text
              \/ \E k \in DOMAIN sheet.center :
                    /\ k > i /\ sheet.center[k].topic = row.topic
                    /\ kb.verbatim[row.topic] = sheet.center[k].text

FaqIsServed(i) ==
    LET row == sheet.faq[i]
    IN  \/ row.cau_hoi = NoText /\ row.tra_loi = NoText
        \/ <<"faq", row.cau_hoi, row.tra_loi>> \in kb.docs

\* No flawed row goes unrecorded: after a sync that did not fail every row is
\* served whole or an error of the sync names it or its tab, apart from a
\* verbatim row that a later row on its topic replaces.  (The errors are what the
\* alert to the staff is made of: it shows the first twenty, and is sent once.)
RowsAreServedOrRecorded ==
    (synced /\ ~SchemaError(sheet)) =>
        /\ \A i \in DOMAIN sheet.courses :
              CourseIsServed(i) \/ <<"Courses", i>> \in kb.errors
        /\ \A i \in DOMAIN sheet.center :
              CenterIsServed(i) \/ {<<"Center", i>>, <<"Center", 0>>} \cap kb.errors # {}
        /\ \A i \in DOMAIN sheet.faq :
              FaqIsServed(i) \/ {<<"FAQ", i>>, <<"FAQ", 0>>} \cap kb.errors # {}
=============================================================================
