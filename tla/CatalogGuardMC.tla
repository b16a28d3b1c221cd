--------------------------- MODULE CatalogGuardMC ---------------------------
(* The instance of CatalogGuard: a catalog of courses whose names overlap, *)
(* sheets with every kind of flawed row, and drafts built from a few       *)
(* sentences and spellings.                                                *)
EXTENDS CatalogGuard

-----------------------------------------------------------------------------
(* Amounts and dates, as written *)

NoWords == [hundred |-> <<>>, tens |-> <<>>]
Plain == [form |-> "dong", n |-> 0, frac |-> <<>>, words |-> NoWords, unit |-> "trieu",
          half |-> FALSE, tail |-> <<>>, rest |-> NoWords, then |-> "part"]
Grouped(n) == [Plain EXCEPT !.n = n]
Trieu(n) == [Plain EXCEPT !.form = "digits", !.n = n]
Spelled(hundred, tens, unit) ==
    [Plain EXCEPT !.form = "words", !.words = [hundred |-> hundred, tens |-> tens],
                  !.unit = unit]
NamTrieu == Spelled(<<>>, <<"nam">>, "trieu")
Rest(amount, hundred, tens, then) ==
    [amount EXCEPT !.rest = [hundred |-> hundred, tens |-> tens], !.then = then]

FiveAndAHalf ==
    {[Trieu(5) EXCEPT !.tail = <<5>>], [Trieu(5) EXCEPT !.frac = <<5>>],
     [Trieu(5) EXCEPT !.half = TRUE],
     [Trieu(5) EXCEPT !.tail = <<5, 0, 0>>, !.then = "unit"],
     [NamTrieu EXCEPT !.half = TRUE],
     Rest(NamTrieu, <<>>, <<"nam">>, "part"),
     Rest(NamTrieu, <<"nam">>, <<>>, "unit"),
     [Trieu(5500) EXCEPT !.unit = "nghin"]}

TwentyOne == {Grouped(21 * Million), Spelled(<<>>, <<"hai", "muoi", "mot">>, "trieu")}

\* "5 trieu 50 nghin", read as 5.500.000
FiveAndFifty == [Trieu(5) EXCEPT !.tail = <<5, 0>>, !.then = "unit"]

\* More that the tokenizer misreads.
MisreadAmounts ==
    {FiveAndFifty,
     [Trieu(5) EXCEPT !.tail = <<1, 2>>, !.then = "count"],
     [Trieu(1) EXCEPT !.frac = <<5, 0, 0>>, !.unit = "nghin"],
     [Trieu(1) EXCEPT !.half = TRUE, !.unit = "ty"],
     [Trieu(1) EXCEPT !.tail = <<5>>, !.then = "unit", !.unit = "ty"],
     Spelled(<<"mot">>, <<>>, "trieu"),
     Spelled(<<"nam">>, <<"nam", "muoi">>, "nghin"),
     Spelled(<<"mot">>, <<"nam", "muoi">>, "trieu"),
     Spelled(<<"mot">>, <<"linh", "nam">>, "trieu"),
     Spelled(<<>>, <<"bon", "lam">>, "trieu"),
     [Spelled(<<>>, <<"mot">>, "ty") EXCEPT !.half = TRUE],
     Rest(Spelled(<<>>, <<"mot">>, "ty"), <<>>, <<"hai">>, "unit"),
     Rest(NamTrieu, <<>>, <<"hai">>, "count"),
     Rest(NamTrieu, <<>>, <<"tam", "lam">>, "part"),
     Rest(NamTrieu, <<"hai">>, <<"nam", "muoi">>, "unit"),
     Rest(NamTrieu, <<>>, <<"muoi">>, "unit")}

Sundry ==
    {[Plain EXCEPT !.form = "pct", !.n = 10], [Plain EXCEPT !.form = "pct", !.n = 9, !.frac = <<5>>],
     [Plain EXCEPT !.form = "free"], [Plain EXCEPT !.form = "phone", !.n = 912345678],
     [Trieu(1) EXCEPT !.unit = "ty"], [Trieu(1) EXCEPT !.unit = "ty", !.frac = <<5>>],
     Spelled(<<"nam">>, <<>>, "nghin"), Spelled(<<>>, <<"muoi", "lam">>, "nghin"),
     Rest(NamTrieu, <<>>, <<"muoi">>, "count"),
     [Trieu(5) EXCEPT !.frac = <<5>>, !.tail = <<1, 2>>, !.then = "count"]}

\* What is named as misread is misread, and nothing else.
ASSUME \A c \in FiveAndAHalf \cup TwentyOne \cup MisreadAmounts \cup Priced(Sundry) :
          Misread(c) <=> iter_money_tokens(c) # Tokens("money", {Meant(c)})

Date(day, month, year) == [kind |-> "date", day |-> day, month |-> month, year |-> year,
                           hour |-> 0, minute |-> 0]
Time(hour, minute) == [kind |-> "time", day |-> 0, month |-> 0, year |-> 0,
                       hour |-> hour, minute |-> minute]
Opening == Date(5, 8, 2026)

\* The words an amount or a date is written with.
AmountWords(c) ==
    CASE c.form \in {"pct", "dong"} ->
           IF c.n >= Million THEN <<ToString(c.n \div Million), ".000", ".000">>
           ELSE <<ToString(c.n)>>
      [] c.form = "digits" -> <<ToString(c.n), c.unit>>
      [] c.form = "words" -> c.words.hundred \o c.words.tens \o <<c.unit>>
      [] c.form \in {"free", "phone"} -> <<>>

DateWords(d) == IF d.kind = "date" THEN <<ToString(d.day), "/8">> ELSE <<"18h30">>

-----------------------------------------------------------------------------
(* Rows *)

MCShortAliases == {<<"anh">>}

BlankCell == [blank |-> TRUE, forged |-> FALSE, newline |-> FALSE,
              money |-> {}, dates |-> {}, offers |-> {}]
Cell(money) == [BlankCell EXCEPT !.blank = FALSE, !.money = money]
Columns == {"hoc_phi", "uu_dai", "khai_giang", "lich_khai_giang", "doi_tuong"}

Row(id, name, fee) ==
    [blank |-> FALSE, id |-> id, name |-> name, name_forged |-> FALSE, aliases |-> {},
     cells |-> [k \in Columns |-> IF k = "hoc_phi" THEN Cell({fee}) ELSE BlankCell]]

T9 == [Row("t9", <<"toan", "9">>, Grouped(5 * Million))
         EXCEPT !.cells["khai_giang"] = [Cell({}) EXCEPT !.dates = {Opening}],
                !.cells["uu_dai"] = [Cell({}) EXCEPT !.offers = {"ho tro them"}]]
NangCao == [Row("nc", <<"toan", "9", "nang", "cao">>,
                [NamTrieu EXCEPT !.half = TRUE])
              EXCEPT !.aliases = {<<"boi", "gioi">>, <<"anh">>},
                     !.cells["uu_dai"] = [Cell({[Plain EXCEPT !.form = "pct", !.n = 10],
                                                Grouped(1500 * Thousand)})
                                            EXCEPT !.offers = {"tang them"}]]
MatGoc7 == Row("mg7", <<"toan", "7", "mat", "goc">>, Grouped(21 * Million))
MatGoc9 == Row("mg9", <<"toan", "9", "mat", "goc">>, Grouped(5 * Million))

Forged(row, column) == [row EXCEPT !.cells[column] = [Cell({}) EXCEPT !.forged = TRUE]]

\* T9 as the staff may also have left it.
Flawed ==
    {[Row(NoId, <<>>, Grouped(1)) EXCEPT !.blank = TRUE],
     [T9 EXCEPT !.id = NoId], [T9 EXCEPT !.name = <<>>], [T9 EXCEPT !.name_forged = TRUE],
     [T9 EXCEPT !.cells["hoc_phi"] = BlankCell],
     [T9 EXCEPT !.cells["hoc_phi"].newline = TRUE],
     [T9 EXCEPT !.cells["hoc_phi"] = Cell({FiveAndFifty})],
     [T9 EXCEPT !.cells["hoc_phi"] = Cell({Grouped(9 * Million)})],
     [T9 EXCEPT !.cells["khai_giang"] = BlankCell,
                !.cells["lich_khai_giang"] = [Cell({}) EXCEPT !.dates = {Date(6, 8, 0)}]],
     Forged(T9, "khai_giang"), Forged(T9, "doi_tuong"),
     [T9 EXCEPT !.cells["doi_tuong"] = [Cell({}) EXCEPT !.newline = TRUE]]}

Tabs(courses, center, faq) ==
    [courses |-> courses, lacks |-> {}, center |-> center, center_lacks |-> FALSE,
     faq |-> faq, faq_lacks |-> FALSE]

CenterRow(topic, text, kind) ==
    [topic |-> topic, text |-> text, kind |-> kind, forged |-> FALSE, newline |-> FALSE]

CenterRows ==
    {CenterRow("tra gop", "a", "verbatim"), CenterRow("tra gop", "b", "verbatim"),
     CenterRow("gio", "a", "always"), CenterRow("gio", "a", "embed"),
     CenterRow("gio", NoText, "always"), CenterRow("gio", "a", "other"),
     CenterRow(NoText, NoText, "other"),
     [CenterRow("gio", "a", "always") EXCEPT !.forged = TRUE],
     [CenterRow("tra gop", "a", "verbatim") EXCEPT !.newline = TRUE]}

FaqRows == {[cau_hoi |-> q, tra_loi |-> a] : q \in {"q", NoText}, a \in {"a", NoText}}

\* A course whose price begins with the digit that another's name ends with.
NineMillion == [MatGoc7 EXCEPT !.cells["hoc_phi"] = Cell({Grouped(9 * Million)})]

FullCatalog == <<T9, NangCao, MatGoc7, MatGoc9>>

MCSheets ==
    {Tabs(FullCatalog, <<>>, <<>>), Tabs(<<>>, <<>>, <<>>),
     Tabs(<<T9, NineMillion>>, <<>>, <<>>),
     [Tabs(<<T9>>, <<>>, <<>>) EXCEPT !.lacks = {"hoc_phi"}],
     [Tabs(<<T9>>, <<CenterRow("gio", "a", "always")>>, <<>>) EXCEPT !.center_lacks = TRUE],
     [Tabs(<<T9>>, <<>>, <<[cau_hoi |-> "q", tra_loi |-> "a"]>>) EXCEPT !.faq_lacks = TRUE]}
    \cup {Tabs(<<r, T9>>, <<>>, <<>>) : r \in Flawed}
    \cup {Tabs(<<r, NangCao>>, <<>>, <<>>) : r \in Flawed}
    \cup {Tabs(<<MatGoc9>>, <<r, s>>, <<>>) : r \in CenterRows, s \in CenterRows}
    \cup {Tabs(<<MatGoc7>>, <<>>, <<r>>) : r \in FaqRows}

-----------------------------------------------------------------------------
(* Drafts *)

Sentence(words) ==
    [words |-> words, numeric |-> {}, money |-> {}, dates |-> {}, offers |-> {}]

\* An amount or a date at the end of a sentence.
Numeric(words, more) == {i \in 1..Len(words \o more) : i > Len(words)}

Price(words, c) ==
    [Sentence(words \o AmountWords(c)) EXCEPT
        !.money = {c},
        !.numeric = IF iter_money_tokens(c) = {} THEN {} ELSE Numeric(words, AmountWords(c))]

Dated(words, d) ==
    [Sentence(words \o DateWords(d)) EXCEPT
        !.dates = {d},
        !.numeric = IF iter_date_tokens(d) = {} THEN {} ELSE Numeric(words, DateWords(d))]

Wordings ==
    {<<"toan", "9">>, <<"toan", "9", "nang", "cao">>, <<"lop", "boi", "gioi">>,
     <<"t9">>, <<"toan", "7", "mat", "goc", "va", "lop", "boi", "gioi">>,
     <<"t9", "va", "toan", "9", "nang", "cao">>,
     <<"toan", "9", "va", "toan", "9", "nang", "cao">>,
     <<"toan", "7", "mat", "goc">>, <<"mat", "goc", "lop", "7">>,
     <<"mat", "goc", "lop", "7", "va", "lop", "9">>, <<"hoc", "phi">>, <<"mon", "toan">>,
     <<"toan", "7", "mat", "goc", "la", "mon", "toan">>}

Amounts ==
    FiveAndAHalf \cup TwentyOne \cup Sundry \cup MisreadAmounts
    \cup {Grouped(5 * Million), Trieu(5), Grouped(9 * Million)}

Offers == {"tang them", "ho tro them"}

Singles ==
    {<<Price(w, c)>> : w \in Wordings, c \in Amounts}
    \cup {<<Dated(w, d)>> :
            w \in Wordings, d \in {Opening, Date(5, 8, 0), Date(5, 8, 26), Date(6, 8, 0),
                                   Date(5, 0, 0), Date(40, 8, 0), Time(2, -1), Time(18, 30)}}
    \cup {<<[Sentence(w) EXCEPT !.offers = {o}]>> : w \in Wordings, o \in Offers}

\* A sentence about a course, then a price or an offer.
Pairs ==
    {<<Sentence(v), Price(w, c)>> :
       v \in Wordings, w \in Wordings,
       c \in {Grouped(5 * Million), [Trieu(5) EXCEPT !.tail = <<5>>], Grouped(21 * Million)}}
    \cup {<<Sentence(v), [Sentence(w) EXCEPT !.offers = {o}]>> :
            v \in Wordings, w \in Wordings, o \in Offers}

MCDrafts == Singles \cup Pairs
=============================================================================
