---------------------------- MODULE PricingGuard ----------------------------
(***************************************************************************)
(* The last gate before a reply is sent: whose course each sentence of the *)
(* draft is about (guard_matching.resolve_named) and whether what it says  *)
(* of money, dates and offers stands in that course's official cells       *)
(* (guard_checks, pricing_guard.evaluate_draft).                           *)
(*                                                                         *)
(* A draft is a sequence of sentences.  A sentence is its words in order,  *)
(* those that write its amounts and dates included ("9.000.000" is 9, .000 *)
(* and .000: a word boundary follows the 9), the positions (numeric) that  *)
(* the amounts and dates the tokenizers match take up, and the amounts,    *)
(* dates and offers it states.  Courses is the served catalog:             *)
(* course_id -> Course(row).                                               *)
(***************************************************************************)
EXTENDS KbParser, FiniteSets

\* Words every course name may share: no evidence for one course.
Stopwords == {"toan", "van", "anh", "tieng", "ly", "hoa", "sinh", "su", "dia", "lop",
              "khoa", "cap", "trung", "tam", "hoc", "chuong", "trinh", "va", "cho", "cua"}

MinFuzzyWords == 2

-----------------------------------------------------------------------------
(* guard_matching *)

\* Where the words of needle stand in the text: <<sentence, first, last>>.
spans(needle, text) ==
    LET Starts(s) == {a \in 1..(Len(text[s].words) - Len(needle) + 1) :
                        SubSeq(text[s].words, a, a + Len(needle) - 1) = needle}
    IN  IF needle = <<>> THEN {}
        ELSE UNION {{<<s, a, a + Len(needle) - 1>> : a \in Starts(s)} : s \in DOMAIN text}

id_in_draft(id, text) == \E s \in DOMAIN text : id \in ToSet(text[s].words)

alias_in_draft(aliases, text) ==
    \E alias \in aliases \ ShortAliases : spans(alias, text) # {}

\* Mutant: an id or an alias is looked for only where no name is found.
BrokenCertain(courses, text) ==
    LET named == {c \in DOMAIN courses : spans(courses[c].ten_khoa, text) # {}}
    IN  IF named # {} THEN named
        ELSE {c \in DOMAIN courses :
                id_in_draft(c, text) \/ alias_in_draft(courses[c].tu_khoa, text)}

\* Searched for in the text as it stands, amounts and dates included.
certain(courses, text) ==
    {c \in DOMAIN courses :
        \/ id_in_draft(c, text)
        \/ spans(courses[c].ten_khoa, text) # {}
        \/ alias_in_draft(courses[c].tu_khoa, text)}

Within(inner, outer) ==
    inner # outer /\ inner[1] = outer[1] /\ outer[2] <= inner[2] /\ inner[3] <= outer[3]

\* A hit goes when its name stands in the text, but only inside longer names.
drop_shadowed(courses, hits, text) ==
    LET own(c) == spans(courses[c].ten_khoa, text)
        covered(c) == {s \in own(c) : \E d \in hits : \E o \in own(d) : Within(s, o)}
    IN  {c \in hits : own(c) = {} \/ covered(c) # own(c)}

significant_words(words) == words \ Stopwords

\* Only here, for the guess, are the amounts and dates taken out of the text.
without_numeric_tokens(segment) ==
    {segment.words[i] : i \in DOMAIN segment.words \ segment.numeric}

DraftWords(text) ==
    significant_words(UNION {without_numeric_tokens(text[s]) : s \in DOMAIN text})

\* At least four fifths of the name's own words occur, in any order.
Overlaps(name, words) ==
    LET own == significant_words(ToSet(name))
    IN  Cardinality(own) >= MinFuzzyWords
        /\ 5 * Cardinality(own \cap words) >= 4 * Cardinality(own)

fuzzy(courses, text) ==
    {c \in DOMAIN courses : Overlaps(courses[c].ten_khoa, DraftWords(text))}

resolve_named(courses, text) ==
    LET hits == certain(courses, text)
        guesses == fuzzy(courses, text)
    IN  IF hits # {}
        THEN [named |-> drop_shadowed(courses, hits, text), ambiguous |-> FALSE]
        ELSE [named |-> IF Cardinality(guesses) = 1 THEN guesses ELSE {},
              ambiguous |-> Cardinality(guesses) > 1]

-----------------------------------------------------------------------------
(* guard_checks *)

\* iter_money_tokens also yields percentages; "free" is matched apart.
has_money(segment) == \E t \in MoneyTokens(segment.money) : t.kind # "free_claim"

check_money(segment, facts) ==
    {t.kind : t \in MoneyTokens(segment.money) \ MoneyTokens(facts.money)}

check_schedule(segment, facts) ==
    IF \A d \in DateTokens(segment.dates) : token_allowed(d, DateTokens(facts.dates))
    THEN {} ELSE {"schedule"}

\* An offer is a claim of the whole draft, about any course it names.
check_concession(draft, facts) ==
    IF UNION {draft[s].offers : s \in DOMAIN draft} \subseteq UNION {f.offers : f \in facts}
    THEN {} ELSE {"concession"}

-----------------------------------------------------------------------------
(* evaluate_draft *)

check_segment(courses, segment, context) ==
    LET own == resolve_named(courses, <<segment>>)
        inherits == own.named = {} /\ Cardinality(context.named) = 1 /\ ~context.ambiguous
        named == IF inherits THEN context.named ELSE own.named
        facts == courses[CHOOSE c \in named : TRUE].facts
    IN  CASE named = {} ->
               IF ~has_money(segment) THEN {}
               ELSE IF own.ambiguous \/ context.ambiguous THEN {"ambiguous"}
               ELSE {"no_course"}
          [] Cardinality(named) > 1 ->
               IF has_money(segment) THEN {"ambiguous"} ELSE {}
          [] Cardinality(named) = 1 ->
               check_money(segment, facts)
               \cup IF inherits THEN {} ELSE check_schedule(segment, facts)

evaluate_draft(courses, draft) ==
    LET context == resolve_named(courses, draft)
        violations ==
            UNION {check_segment(courses, draft[s], context) : s \in DOMAIN draft}
            \cup check_concession(draft, {courses[c].facts : c \in context.named})
    IN  [violations |-> violations,
         quoted_price |-> /\ violations = {} /\ context.named # {}
                          /\ \E s \in DOMAIN draft : has_money(draft[s])]
=============================================================================
