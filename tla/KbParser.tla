------------------------------ MODULE KbParser ------------------------------
(***************************************************************************)
(* From the rows of the three tabs to the catalog the program serves:      *)
(* parse_courses and parse_center_faq with the gates of cell_sanitizer.    *)
(*                                                                         *)
(* A cell is what stands in it: whether it is blank, whether the gates     *)
(* find forged structure or a newline in it, and what it says (amounts,    *)
(* dates, offers: the claims a reply may repeat).  A name or an alias is a *)
(* sequence of words.  Of the nine verbatim columns three are kept (the    *)
(* fee, one more, and the one with a deprecated twin), of the six prose    *)
(* columns one: the code treats the others alike.                          *)
(***************************************************************************)
EXTENDS Numerals, Functions

CONSTANTS
    NoId,          \* a blank course_id
    NoText,        \* a blank topic, text, question or answer
    ShortAliases   \* aliases of fewer than four letters, and bare numbers

VerbatimFields == {"hoc_phi", "uu_dai", "khai_giang"}
ProseFields == {"doi_tuong"}
FallbackColumns == [khai_giang |-> "lich_khai_giang"]
RequiredColumns == {"course_id", "ten_khoa", "hoc_phi"}
RequiredVerbatimTopics == {"tra gop"}

-----------------------------------------------------------------------------
(* Cells *)

cell(row, key) ==
    IF key \in DOMAIN FallbackColumns /\ row.cells[key].blank
    THEN row.cells[FallbackColumns[key]] ELSE row.cells[key]

is_prose_cell_safe(c) == ~c.forged
is_verbatim_cell_safe(c) == ~c.newline /\ is_prose_cell_safe(c)

collect_verbatim(row) ==
    {k \in VerbatimFields : ~cell(row, k).blank /\ is_verbatim_cell_safe(cell(row, k))}

collect_prose(row) ==
    {k \in ProseFields : ~cell(row, k).blank /\ is_prose_cell_safe(cell(row, k))}

\* Mutant: a prose cell is left out and no error says so.
BrokenDropped(row) ==
    {k \in VerbatimFields : ~cell(row, k).blank} \ collect_verbatim(row)

\* The columns that hold something a gate refused: each is an error.
Dropped(row) ==
    {k \in VerbatimFields \cup ProseFields : ~cell(row, k).blank}
        \ (collect_verbatim(row) \cup collect_prose(row))

\* What a set of cells says, all together.
Says(cells) ==
    [money |-> UNION {c.money : c \in cells},
     dates |-> UNION {c.dates : c \in cells},
     offers |-> UNION {c.offers : c \in cells}]

-----------------------------------------------------------------------------
(* Courses *)

Incomplete(row) == row.name = <<>> \/ row.cells["hoc_phi"].blank

split_keywords(row) == row.aliases \ ShortAliases

Course(row) ==
    [ten_khoa |-> row.name,
     tu_khoa |-> split_keywords(row),
     facts |-> Says({cell(row, k) : k \in collect_verbatim(row)}),
     block |-> collect_verbatim(row) \cup collect_prose(row)]

\* dict[key] = value
Put(dict, key, value) ==
    [k \in DOMAIN dict \cup {key} |-> IF k = key THEN value ELSE dict[k]]

\* errors.append
Alert(parsed, tab, i) == [parsed EXCEPT !.errors = @ \cup {<<tab, i>>}]

Serve(parsed, row) == [parsed EXCEPT !.courses = Put(@, row.id, Course(row))]

\* One row: an id is taken by the first row that has it, complete or not.
parse_course(parsed, i, row) ==
    LET fresh == [parsed EXCEPT !.seen = @ \cup {row.id}]
        warned == IF Dropped(row) = {} THEN fresh ELSE Alert(fresh, "Courses", i)
    IN  CASE row.blank -> parsed
          [] ~row.blank /\ (row.id = NoId \/ row.id \in parsed.seen) ->
               Alert(parsed, "Courses", i)
          [] OTHER ->
               IF \/ Incomplete(row) \/ row.name_forged
                  \/ ~is_verbatim_cell_safe(row.cells["hoc_phi"])
               THEN Alert(fresh, "Courses", i)
               ELSE Serve(warned, row)

NoCourses == <<>>

Empty == [courses |-> NoCourses, seen |-> {}, errors |-> {},
          always |-> {}, verbatim |-> <<>>, docs |-> {}]

\* Without a required column the whole rebuild fails.
SchemaError(sheet) == sheet.courses # <<>> /\ sheet.lacks \cap RequiredColumns # {}

parse_courses(rows) ==
    FoldLeftDomain(LAMBDA p, i: parse_course(p, i, rows[i]), Empty, rows)

-----------------------------------------------------------------------------
(* Center and FAQ *)

\* Of two verbatim rows on one topic the later one is quoted.
parse_center_row(parsed, i, row) ==
    CASE row.topic = NoText /\ row.text = NoText -> parsed
      [] row.kind = "always" /\ row.text # NoText /\ is_prose_cell_safe(row) ->
           [parsed EXCEPT !.always = @ \cup {<<row.topic, row.text>>}]
      [] row.kind = "verbatim" /\ row.text # NoText /\ is_verbatim_cell_safe(row) ->
           [parsed EXCEPT !.verbatim = Put(@, row.topic, row.text)]
      [] row.kind = "embed" /\ row.text # NoText ->
           [parsed EXCEPT !.docs = @ \cup {<<"center", row.topic, row.text>>}]
      [] OTHER -> Alert(parsed, "Center", i)

parse_faq_row(parsed, i, row) ==
    CASE row.cau_hoi = NoText /\ row.tra_loi = NoText -> parsed
      [] row.cau_hoi # NoText /\ row.tra_loi # NoText ->
           [parsed EXCEPT !.docs = @ \cup {<<"faq", row.cau_hoi, row.tra_loi>>}]
      [] OTHER -> Alert(parsed, "FAQ", i)

warn_missing_topics(parsed) ==
    IF RequiredVerbatimTopics \subseteq DOMAIN parsed.verbatim
    THEN parsed ELSE Alert(parsed, "topics", 0)

\* A malformed optional tab costs that tab and one error (position 0).
parse_center_faq(parsed, sheet) ==
    LET center == IF sheet.center # <<>> /\ sheet.center_lacks
                  THEN Alert(parsed, "Center", 0)
                  ELSE FoldLeftDomain(LAMBDA p, i: parse_center_row(p, i, sheet.center[i]),
                                      parsed, sheet.center)
        faq == IF sheet.faq # <<>> /\ sheet.faq_lacks
               THEN Alert(center, "FAQ", 0)
               ELSE FoldLeftDomain(LAMBDA p, i: parse_faq_row(p, i, sheet.faq[i]),
                                   center, sheet.faq)
    IN  warn_missing_topics(faq)

Parse(sheet) == parse_center_faq(parse_courses(sheet.courses), sheet)
=============================================================================
