------------------------------ MODULE Numerals ------------------------------
(***************************************************************************)
(* How the program reads an amount of money and a date that stand in a     *)
(* reply or in a cell of the sheet: the forms the two tokenizers           *)
(* (vn_numerals, vn_dates) match and the value each of them gives.         *)
(*                                                                         *)
(* An amount is a record of what is WRITTEN: its form, then                *)
(*   dong    n                         "1.500.000", "1500000"              *)
(*   digits  n frac unit half tail     "5 trieu", "5,5tr", "5 trieu ruoi"  *)
(*   words   words unit half rest      "nam trieu tam"                     *)
(* where tail (digits) or rest (words) is what follows the unit, and then  *)
(* says what it is there: a part of that unit ("5tr5"), an amount in the   *)
(* next smaller unit ("5 trieu 500 nghin"), or the count of something else *)
(* ("5 trieu 12 buoi").  A spelled-out number is its words before and      *)
(* after "tram" (hundred), accents dropped.  Amounts are in dong.          *)
(***************************************************************************)
EXTENDS Integers, Sequences, SequencesExt

Thousand == 1000
Million == 1000 * Thousand
Billion == 1000 * Million

UnitValue == [nghin |-> Thousand, trieu |-> Million, ty |-> Billion]
Places == [nghin |-> 3, trieu |-> 6, ty |-> 9]

Number(digits) == FoldLeft(LAMBDA v, d: 10 * v + d, 0, digits)

\* The value of digits written to the right of a unit worth 10^places: "4tr05".
Decimals(digits, places) == Number(digits) * 10^(places - Len(digits))

-----------------------------------------------------------------------------
(* Numbers that are spelled out *)

WordDigits ==
    [mot |-> 1, hai |-> 2, ba |-> 3, bon |-> 4, tu |-> 4, nam |-> 5,
     lam |-> 5, sau |-> 6, bay |-> 7, tam |-> 8, chin |-> 9]

Digit(parts, k) == IF k \in DOMAIN parts /\ parts[k] \in DOMAIN WordDigits
                   THEN WordDigits[parts[k]] ELSE 0

word_number(parts) ==
    IF parts = <<>> THEN 0
    ELSE IF Head(parts) = "muoi" THEN 10 + Digit(parts, 2)
    ELSE IF Len(parts) > 1 /\ parts[2] = "muoi"
         THEN 10 * Digit(parts, 1) + Digit(parts, 3)
    ELSE Digit(parts, 1)

\* What _WORD_NUM matches: below a hundred, and never two digits in a row.
IsWordNum(parts) ==
    /\ Len(parts) \in 1..3
    /\ Head(parts) \in DOMAIN WordDigits \cup {"muoi"}
    /\ Len(parts) > 1 =>
          IF Head(parts) = "muoi"
          THEN Len(parts) = 2 /\ parts[2] \in DOMAIN WordDigits
          ELSE parts[2] = "muoi"
    /\ Len(parts) = 3 => parts[3] \in DOMAIN WordDigits

\* finditer begins at the first word from which a number runs up to the unit;
\* the words before it are passed over.  One value, or none.
heard(words) ==
    LET starts == {i \in DOMAIN words : IsWordNum(SubSeq(words, i, Len(words)))}
    IN  {word_number(SubSeq(words, i, Len(words))) :
           i \in {j \in starts : \A k \in starts : j <= k}}

\* Hundreds count only right before "nghin", and only when no tens follow.
word_values(number, unit) ==
    IF number.tens # <<>> THEN {v * UnitValue[unit] : v \in heard(number.tens)}
    ELSE IF unit = "nghin" THEN {v * 100 * Thousand : v \in heard(number.hundred)}
    ELSE {}

-----------------------------------------------------------------------------
(* Money *)

Below == [ty |-> "trieu", trieu |-> "nghin"]

\* A decimal sign hides whatever follows the unit; digits after millions are
\* read as decimals, whatever they count.
million_value(c) ==
    IF c.frac # <<>> THEN c.n * Million + Decimals(c.frac, 6)
    ELSE c.n * Million + (IF c.half THEN Million \div 2 ELSE Decimals(c.tail, 6))

\* After thousands and billions "ruoi" and bare digits are not read; what has a
\* unit of its own is an amount of its own.
digit_values(c) ==
    IF c.unit = "trieu" THEN {million_value(c)}
    ELSE {c.n * UnitValue[c.unit] + Decimals(c.frac, Places[c.unit])}
         \cup IF c.unit = "ty" /\ c.then = "unit" /\ c.tail # <<>>
              THEN {Number(c.tail) * Million} ELSE {}

\* After spelled-out millions one digit word is read, as hundreds of thousands.
BeginsWithDigit(number) ==
    LET spelled == number.hundred \o number.tens
    IN  spelled # <<>> /\ Head(spelled) \in DOMAIN WordDigits

Swallows(c) ==
    /\ c.unit = "trieu" /\ ~c.half
    /\ word_values(c.words, "trieu") # {}
    /\ BeginsWithDigit(c.rest)

Swallowed(c) == WordDigits[Head(c.rest.hundred \o c.rest.tens)] * 100 * Thousand

Left(c) ==
    IF ~Swallows(c) THEN c.rest
    ELSE IF c.rest.hundred # <<>> THEN [c.rest EXCEPT !.hundred = Tail(@)]
    ELSE [c.rest EXCEPT !.tens = Tail(@)]

\* What is left of the words after the unit is read as an amount of its own.
spelled_values(c) ==
    {v + IF Swallows(c) THEN Swallowed(c)
         ELSE IF c.half /\ c.unit = "trieu" THEN Million \div 2 ELSE 0 :
       v \in word_values(c.words, c.unit)}
    \cup IF c.then = "unit" /\ c.unit \in DOMAIN Below
         THEN word_values(Left(c), Below[c.unit]) ELSE {}

\* round(): a half goes to the even neighbour.
percent_value(c) ==
    LET twice == 2 * Number(c.frac)
        whole == 10^Len(c.frac)
    IN  IF twice > whole \/ (twice = whole /\ c.n % 2 = 1) THEN c.n + 1 ELSE c.n

Tokens(kind, values) == {[kind |-> kind, value |-> v] : v \in values}

\* The tokens of one written amount: none where no alternative of _TOKEN_RE
\* matches (a phone number, hundreds of millions in words).
iter_money_tokens(c) ==
    CASE c.form = "pct" -> Tokens("percent", {percent_value(c)})
      [] c.form = "free" -> Tokens("free_claim", {0})
      [] c.form = "dong" -> Tokens("money", {c.n})
      [] c.form = "digits" -> Tokens("money", digit_values(c))
      [] c.form = "words" -> Tokens("money", spelled_values(c))
      [] c.form = "phone" -> {}

MoneyTokens(claims) == UNION {iter_money_tokens(c) : c \in claims}

-----------------------------------------------------------------------------
(* Dates and times.  0 is a part that is not said, -1 minutes not said. *)

normalize_year(y) == IF y \in 1..99 THEN y + 2000 ELSE y

\* A bare "2h" is a duration, not two o'clock.
MaxDurationHours == 4

iter_date_tokens(d) ==
    IF d.kind = "date"
    THEN IF d.day \in 1..31 /\ d.month \in 0..12
         THEN {[d EXCEPT !.year = normalize_year(@)]} ELSE {}
    ELSE IF d.hour > 23 \/ d.minute > 59 \/ (d.minute = -1 /\ d.hour <= MaxDurationHours)
         THEN {} ELSE {[d EXCEPT !.minute = IF @ = -1 THEN 0 ELSE @]}

DateTokens(dates) == UNION {iter_date_tokens(d) : d \in dates}

\* Mutant: a date without its year matches no date that has one.
BrokenTokenAllowed(t, allowed) == t \in allowed

\* What either side leaves unsaid matches anything.
token_allowed(t, allowed) ==
    \E o \in allowed :
        /\ o.kind = t.kind
        /\ IF t.kind = "time" THEN o = t
           ELSE /\ o.day = t.day
                /\ 0 \in {o.month, t.month} \/ o.month = t.month
                /\ 0 \in {o.year, t.year} \/ o.year = t.year
=============================================================================
