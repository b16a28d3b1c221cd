------------------------- MODULE CatalogGuardProofs -------------------------
(***************************************************************************)
(* Proofs about the guard and the parser, for every sheet the staff write  *)
(* and every draft the LLM writes: which amounts are read as meant, to     *)
(* which course a sentence is bound, and that no row of a sheet gets lost  *)
(* without an error.                                                       *)
(***************************************************************************)
EXTENDS CatalogGuard, SequenceLemmas, FiniteSetTheorems

-----------------------------------------------------------------------------
(* Folds *)

\* What holds at the start and passes from one position to the next holds at
\* all of them.
LEMMA Positions ==
    ASSUME NEW n \in Nat, NEW S, 0 \in S, \A k \in 1..n : k - 1 \in S => k \in S
    PROVE  0..n \subseteq S
  <1>. DEFINE bad == {k \in 0..n : k \notin S}
  <1>1. SUFFICES ASSUME bad # {} PROVE FALSE
    OBVIOUS
  <1>2. PICK k \in bad : \A i \in bad : k <= i
    <2>1. bad \in SUBSET Nat
      OBVIOUS
    <2>. HIDE DEF bad
    <2>. QED
      BY <1>1, <2>1, MinIsLeast
  <1>3. k \in 1..n /\ k - 1 \in 0..n /\ ~(k <= k - 1)
    OBVIOUS
  <1>. QED
    BY <1>2, <1>3

\* The folds of the model: the value of digits, and the rows of the three tabs.
Fold(kind, seq) == [kind |-> kind, seq |-> seq]

Apply(fold, p, i) ==
    CASE fold.kind = "digits" -> 10 * p + fold.seq[i]
      [] fold.kind = "Courses" -> parse_course(p, i, fold.seq[i])
      [] fold.kind = "Center" -> parse_center_row(p, i, fold.seq[i])
      [] fold.kind = "FAQ" -> parse_faq_row(p, i, fold.seq[i])

\* f gives the result of folding over each set of positions.
Folds(fold, base, S, f) ==
    f = [s \in SUBSET S |->
           IF s = {} THEN base ELSE Apply(fold, f[s \ {Max(s)}], Max(s))]

\* The last of some positions, and what is left without it.
LEMMA LastPosition ==
    ASSUME NEW k \in Nat, NEW s \in SUBSET (1..k)
    PROVE  /\ s # {} => Max(s) \in s /\ s \ {Max(s)} \in SUBSET (1..k)
           /\ k \in s => Max(s) = k /\ s \ {Max(s)} \in SUBSET (1..(k - 1))
  <1>1. CASE s = {}
    BY <1>1
  <1>2. CASE s # {}
    <2>1. Max(s) \in s /\ \A i \in s : i <= Max(s)
      BY <1>2, MaxIsGreatest
    <2>2. ASSUME k \in s PROVE Max(s) = k
      <3>1. PICK m \in 1..k : m = Max(s) /\ k <= m
        BY <2>1, <2>2
      <3>. QED
        BY <3>1
    <2>3. k \in s => s \ {k} \in SUBSET (1..(k - 1))
      OBVIOUS
    <2>. QED
      BY <2>1, <2>2, <2>3
  <1>. QED
    BY <1>1, <1>2

\* A fold over positions has a result for each set of them.
LEMMA FoldExists ==
    ASSUME NEW fold, NEW base, NEW n \in Nat
    PROVE  \E f : Folds(fold, base, 1..n, f)
  <1>. DEFINE S == {k \in 0..n : \E f : Folds(fold, base, 1..k, f)}
  <1>1. 0 \in S
    <2>. DEFINE f0 == [s \in {{}} |-> base]
    <2>1. 1..0 = {} /\ SUBSET {} = {{}}
      OBVIOUS
    <2>2. Folds(fold, base, 1..0, f0)
      BY <2>1 DEF Folds
    <2>3. \E f : Folds(fold, base, 1..0, f)
      BY Zenon, <2>2
    <2>4. 0 \in 0..n
      OBVIOUS
    <2>. QED
      BY Zenon, <2>3, <2>4
  <1>2. ASSUME NEW k \in 1..n, k - 1 \in S
        PROVE  k \in S
    <2>. DEFINE Old == SUBSET (1..(k - 1))
    <2>1. PICK f : Folds(fold, base, 1..(k - 1), f)
      BY <1>2
    <2>. DEFINE g == [s \in SUBSET (1..k) |->
                        IF s \in Old THEN f[s] ELSE Apply(fold, f[s \ {k}], k)]
    <2>2. \A s \in Old : f[s] = IF s = {} THEN base ELSE Apply(fold, f[s \ {Max(s)}], Max(s))
      BY Zenon, <2>1 DEF Folds
    <2>3. \A s \in Old : s \in SUBSET (1..k) /\ g[s] = f[s]
      OBVIOUS
    <2>4. ASSUME NEW s \in SUBSET (1..k)
          PROVE  g[s] = IF s = {} THEN base ELSE Apply(fold, g[s \ {Max(s)}], Max(s))
      <3>1. CASE s \in Old
        <4>1. CASE s = {}
          BY Zenon, <2>2, <2>3, <3>1, <4>1
        <4>2. CASE s # {}
          <5>1. s \ {Max(s)} \in Old
            BY Zenon, <3>1
          <5>. QED
            BY Zenon, <2>2, <2>3, <3>1, <4>2, <5>1
        <4>. QED
          BY Zenon, <4>1, <4>2
      <3>2. CASE s \notin Old
        <4>1. k \in s
          BY <3>2
        <4>2. s # {} /\ Max(s) = k /\ s \ {k} \in Old
          BY <4>1, LastPosition
        <4>3. g[s] = Apply(fold, f[s \ {k}], k)
          BY Zenon, <3>2
        <4>. QED
          BY Zenon, <2>3, <4>2, <4>3
      <3>. QED
        BY <3>1, <3>2
    <2>. HIDE DEF g
    <2>5. Folds(fold, base, 1..k, g)
      <3>1. g = [s \in SUBSET (1..k) |-> g[s]]
        BY Zenon DEF g
      <3>2. g = [s \in SUBSET (1..k) |->
                   IF s = {} THEN base ELSE Apply(fold, g[s \ {Max(s)}], Max(s))]
        BY Zenon, <2>4, <3>1
      <3>. QED
        BY Zenon, <3>2 DEF Folds
    <2>. QED
      BY <2>5
  <1>3. 0..n \subseteq S
    <2>. HIDE DEF S
    <2>. QED
      BY <1>1, <1>2, Positions
  <1>. QED
    BY <1>3

\* Position after position: what the fold over the first k of them gives.
RunsThrough(fold, base, n, at) ==
    /\ at = [k \in 0..n |-> at[k]]
    /\ at[0] = base
    /\ \A k \in 1..n : at[k] = Apply(fold, at[k - 1], k)

\* A fold runs through the positions in their order.
LEMMA FoldsByPrefix ==
    ASSUME NEW fold, NEW base, NEW n \in Nat, NEW f, Folds(fold, base, 1..n, f)
    PROVE  \E at : RunsThrough(fold, base, n, at) /\ at[n] = f[1..n]
  <1>. DEFINE at == [k \in 0..n |-> f[1..k]]
  <1>1. \A s \in SUBSET (1..n) :
           f[s] = IF s = {} THEN base ELSE Apply(fold, f[s \ {Max(s)}], Max(s))
    BY Zenon DEF Folds
  <1>2. at[0] = base
    <2>1. 1..0 = {} /\ 0 \in 0..n
      OBVIOUS
    <2>. QED
      BY Zenon, <1>1, <2>1
  <1>3. ASSUME NEW k \in 1..n
        PROVE  at[k] = Apply(fold, at[k - 1], k)
    <2>1. /\ k \in 0..n /\ k - 1 \in 0..n /\ k \in Nat
          /\ 1..k \in SUBSET (1..n) /\ 1..k # {} /\ k \in 1..k
          /\ (1..k) \ {k} = 1..(k - 1)
      OBVIOUS
    <2>2. Max(1..k) = k
      BY <2>1, LastPosition
    <2>3. at[k] = f[1..k] /\ at[k - 1] = f[1..(k - 1)]
      BY Zenon, <2>1
    <2>. QED
      BY Zenon, <1>1, <2>1, <2>2, <2>3
  <1>4. n \in 0..n
    OBVIOUS
  <1>. QED
    BY Zenon, <1>2, <1>3, <1>4 DEF RunsThrough

-----------------------------------------------------------------------------
(* Amounts *)

\* f is the fold that Number computes: the value of any part of the digits.
Adds(digits, f) ==
    f = [s \in SUBSET DOMAIN digits |->
           IF s = {} THEN 0 ELSE 10 * f[s \ {Max(s)}] + digits[Max(s)]]

\* Number is the fold over the digits.
LEMMA NumberFolds ==
    ASSUME NEW digits
    PROVE  Number(digits) = (CHOOSE f : Adds(digits, f))[DOMAIN digits]
  BY Zenon DEF Number, FoldLeft, MapThenFoldSet, Adds

\* The value of digits, one digit after the other.
LEMMA NumberByDigits ==
    ASSUME NEW digits \in Seq(0..9)
    PROVE  \E at : /\ RunsThrough(Fold("digits", digits), 0, Len(digits), at)
                   /\ at[Len(digits)] = Number(digits)
  <1>. DEFINE n == Len(digits)
              fold == Fold("digits", digits)
  <1>1. n \in Nat /\ DOMAIN digits = 1..n
    OBVIOUS
  <1>2. \A v, i : Apply(fold, v, i) = 10 * v + digits[i]
    BY DEF Apply, Fold
  <1>. HIDE DEF n, fold
  <1>3. \A f : Folds(fold, 0, 1..n, f) <=> Adds(digits, f)
    BY Zenon, <1>1, <1>2 DEF Folds, Adds
  <1>4. PICK f : f = (CHOOSE g : Adds(digits, g)) /\ Adds(digits, f)
    BY Zenon, <1>1, <1>3, FoldExists
  <1>5. Number(digits) = f[1..n]
    BY Zenon, <1>1, <1>4, NumberFolds
  <1>6. Folds(fold, 0, 1..n, f)
    BY Zenon, <1>3, <1>4
  <1>7. \E at : RunsThrough(fold, 0, n, at) /\ at[n] = f[1..n]
    BY <1>1, <1>6, FoldsByPrefix
  <1>. QED
    BY Zenon, <1>5, <1>7 DEF fold, n

\* Digits have a value, no digits are zero, one digit is its own value.
LEMMA NumberReads ==
    ASSUME NEW digits \in Seq(0..9)
    PROVE  /\ Number(digits) \in Nat
           /\ digits = <<>> => Number(digits) = 0
           /\ Len(digits) = 1 => Number(digits) = Head(digits)
  <1>. DEFINE n == Len(digits)
  <1>1. PICK at : RunsThrough(Fold("digits", digits), 0, n, at) /\ at[n] = Number(digits)
    BY Zenon, NumberByDigits
  <1>2. n \in Nat /\ \A k \in 1..n : digits[k] \in 0..9
    OBVIOUS
  <1>3. at[0] = 0 /\ \A k \in 1..n : at[k] = 10 * at[k - 1] + digits[k]
    BY <1>1 DEF RunsThrough, Apply, Fold
  <1>4. at[n] \in Nat
    <2>. DEFINE S == {k \in 0..n : at[k] \in Nat}
    <2>. HIDE DEF n
    <2>1. 0 \in S
      BY <1>2, <1>3
    <2>2. ASSUME NEW k \in 1..n, k - 1 \in S
          PROVE  k \in S
      <3>1. at[k - 1] \in Nat /\ digits[k] \in Nat
        BY <1>2, <2>2
      <3>2. at[k] \in Nat
        BY <1>3, <3>1
      <3>. QED
        BY <3>2
    <2>. HIDE DEF S
    <2>3. 0..n \subseteq S
      BY <1>2, <2>1, <2>2, Positions
    <2>4. n \in 0..n
      BY <1>2
    <2>. QED
      BY <2>3, <2>4 DEF S
  <1>5. digits = <<>> => at[n] = 0
    BY <1>3
  <1>6. n = 1 => at[n] = Head(digits)
    <2>1. n = 1 => digits[1] \in 0..9 /\ Head(digits) = digits[1]
      BY <1>2
    <2>2. n = 1 => at[1] = 10 * 0 + digits[1]
      <3>. HIDE DEF n
      <3>1. n = 1 => 1 \in 1..n /\ 1 - 1 = 0
        OBVIOUS
      <3>. QED
        BY Zenon, <1>3, <3>1
    <2>. QED
      BY <2>1, <2>2
  <1>. QED
    BY <1>1, <1>4, <1>5, <1>6

\* What the digits after a unit are worth.
LEMMA DecimalsAreNatural ==
    ASSUME NEW digits \in Seq(0..9), NEW unit \in DOMAIN UnitValue,
           Len(digits) \in 0..(IF unit = "trieu" THEN 6 ELSE 3)
    PROVE  /\ Part(digits, unit) = Decimals(digits, Places[unit])
           /\ Decimals(digits, Places[unit]) \in Nat
           /\ digits = <<>> => Decimals(digits, Places[unit]) = 0
  <1>. DEFINE n == Number(digits)
              k == Places[unit] - Len(digits)
  <1>1. n \in Nat /\ (digits = <<>> => n = 0)
    BY NumberReads
  <1>2. k \in 0..9
    <2>1. unit \in {"nghin", "trieu", "ty"}
      BY DEF UnitValue
    <2>2. Places["nghin"] = 3 /\ Places["trieu"] = 6 /\ Places["ty"] = 9
      BY DEF Places
    <2>. QED
      BY <2>1, <2>2
  <1>3. 10^k \in Nat
    <2>1. /\ 10^0 \in Nat /\ 10^1 \in Nat /\ 10^2 \in Nat /\ 10^3 \in Nat /\ 10^4 \in Nat
          /\ 10^5 \in Nat /\ 10^6 \in Nat /\ 10^7 \in Nat /\ 10^8 \in Nat /\ 10^9 \in Nat
      BY SMT
    <2>2. k \in {0, 1, 2, 3, 4, 5, 6, 7, 8, 9}
      <3>. HIDE DEF k
      <3>. QED
        BY <1>2
    <2>. HIDE DEF k
    <2>. QED
      BY Zenon, <2>1, <2>2
  <1>4. Decimals(digits, Places[unit]) = n * 10^k
    BY DEF Decimals
  <1>. DEFINE ten == 10^k
  <1>5. n * ten \in Nat /\ (n = 0 => n * ten = 0)
    <2>1. ten \in Nat
      BY <1>3
    <2>. HIDE DEF n, ten
    <2>. QED
      BY <1>1, <2>1
  <1>6. Part(digits, unit) = IF digits = <<>> THEN 0 ELSE Decimals(digits, Places[unit])
    BY DEF Part
  <1>. QED
    BY Zenon, <1>1, <1>4, <1>5, <1>6

\* A number of words that the tokenizer matches is heard whole and taken for
\* what it says.
LEMMA WordNumIsHeard ==
    ASSUME NEW words \in Seq(NumberWords), IsWordNum(words)
    PROVE  /\ words # <<>>
           /\ heard(words) = {word_number(words)}
           /\ word_number(words) = Tens(words)
           /\ Tens(words) \in Nat
  <1>. DEFINE n == Len(words)
              starts == {i \in DOMAIN words : IsWordNum(SubSeq(words, i, n))}
  <1>1. n \in {1, 2, 3} /\ DOMAIN words = 1..n /\ words # <<>> /\ Head(words) = words[1]
        /\ SubSeq(words, 1, n) = words
    BY DEF IsWordNum
  <1>2. {j \in starts : \A k \in starts : j <= k} = {1}
    <2>1. 1 \in DOMAIN words /\ DOMAIN words \subseteq Nat /\ \A k \in DOMAIN words : 1 <= k
      BY <1>1
    <2>2. 1 \in starts /\ starts \subseteq DOMAIN words
      BY Zenon, <1>1, <2>1
    <2>3. \A j \in starts : j <= 1 <=> j = 1
      <3>1. \A j \in DOMAIN words : j <= 1 <=> j = 1
        BY <1>1
      <3>. QED
        BY Zenon, <2>2, <3>1
    <2>. HIDE DEF starts
    <2>. QED
      BY Zenon, <2>1, <2>2, <2>3
  <1>3. heard(words) = {word_number(words)}
    <2>1. heard(words) = {word_number(SubSeq(words, i, n)) :
                            i \in {j \in starts : \A k \in starts : j <= k}}
      BY Zenon DEF heard
    <2>2. heard(words) = {word_number(SubSeq(words, i, n)) : i \in {1}}
      BY Zenon, <1>2, <2>1
    <2>3. heard(words) = {word_number(SubSeq(words, 1, n))}
      BY Zenon, <2>2
    <2>. QED
      BY Zenon, <1>1, <2>3
  <1>4. \A w \in DOMAIN WordDigits : WordDigits[w] \in Nat /\ w # "muoi" /\ w # "linh"
                                     /\ Worth(w) = WordDigits[w]
    <2>1. \A w \in DOMAIN WordDigits : WordDigits[w] \in Nat /\ w # "muoi" /\ w # "linh"
      BY DEF WordDigits
    <2>. QED
      BY Zenon, <2>1 DEF Worth
  <1>5. Worth("muoi") = 10
    BY DEF Worth
  <1>6. /\ words[1] \in DOMAIN WordDigits \cup {"muoi"}
        /\ n > 1 => IF words[1] = "muoi" THEN n = 2 /\ words[2] \in DOMAIN WordDigits
                    ELSE words[2] = "muoi"
        /\ n = 3 => words[3] \in DOMAIN WordDigits
    BY Zenon, <1>1 DEF IsWordNum
  <1>7. word_number(words) =
          IF words[1] = "muoi" THEN 10 + Digit(words, 2)
          ELSE IF n > 1 /\ words[2] = "muoi" THEN 10 * Digit(words, 1) + Digit(words, 3)
          ELSE Digit(words, 1)
    BY Zenon, <1>1 DEF word_number
  <1>8. \A k \in 1..3 : Digit(words, k) = IF k <= n /\ words[k] \in DOMAIN WordDigits
                                          THEN WordDigits[words[k]] ELSE 0
    <2>1. \A k \in 1..3 : k \in DOMAIN words <=> k <= n
      BY <1>1
    <2>. QED
      BY Zenon, <2>1 DEF Digit
  <1>9. word_number(words) = Tens(words) /\ Tens(words) \in Nat
    <2>1. CASE n = 1
      <3>1. Tens(words) = Worth(words[1])
        BY <2>1 DEF Tens
      <3>. HIDE DEF n
      <3>. QED
        BY <1>4, <1>5, <1>6, <1>7, <1>8, <2>1, <3>1
    <2>2. CASE n = 2
      <3>1. Tens(words) = IF words[1] = "muoi" THEN 10 + Worth(words[2])
                          ELSE IF words[2] = "muoi" THEN 10 * Worth(words[1])
                          ELSE 10 * Worth(words[1]) + Worth(words[2])
        BY <2>2 DEF Tens
      <3>. HIDE DEF n
      <3>. QED
        BY <1>4, <1>5, <1>6, <1>7, <1>8, <2>2, <3>1
    <2>3. CASE n = 3
      <3>1. Tens(words) = 10 * Worth(words[1]) + Worth(words[3])
        BY <2>3 DEF Tens
      <3>. HIDE DEF n
      <3>. QED
        BY <1>4, <1>5, <1>6, <1>7, <1>8, <2>3, <3>1
    <2>. QED
      BY Zenon, <1>1, <2>1, <2>2, <2>3
  <1>. QED
    BY Zenon, <1>1, <1>3, <1>9

\* No words say nothing.
LEMMA NothingIsHeard ==
    /\ heard(<<>>) = {}
    /\ Tens(<<>>) = 0
    /\ Spoken(Nought) = 0
    /\ \A unit : word_values(Nought, unit) = {}
    /\ ~BeginsWithDigit(Nought)
  <1>1. heard(<<>>) = {}
    BY DEF heard
  <1>2. Tens(<<>>) = 0
    BY DEF Tens
  <1>3. Nought.hundred = <<>> /\ Nought.tens = <<>>
    BY DEF Nought
  <1>4. Spoken(Nought) = 0
    <2>1. Spoken(Nought) = 100 * Tens(<<>>) + Tens(<<>>)
      BY Zenon, <1>3 DEF Spoken
    <2>. QED
      BY <1>2, <2>1
  <1>5. \A unit : word_values(Nought, unit) = {}
    BY Zenon, <1>1, <1>3 DEF word_values
  <1>6. ~BeginsWithDigit(Nought)
    BY <1>3 DEF BeginsWithDigit
  <1>. QED
    BY Zenon, <1>1, <1>2, <1>4, <1>5, <1>6

\* The number before a unit, when the tokenizer takes it whole.
LEMMA WholeIsRead ==
    ASSUME NEW number, IsANumber(number), NEW unit \in DOMAIN UnitValue,
           TakenWhole(number, unit)
    PROVE  /\ Spoken(number) \in Nat
           /\ word_values(number, unit) = {Spoken(number) * UnitValue[unit]}
  <1>1. number.hundred \in Seq(NumberWords) /\ number.tens \in Seq(NumberWords)
    BY Zenon DEF IsANumber
  <1>2. CASE number.hundred = <<>> /\ IsWordNum(number.tens)
    <2>1. /\ number.tens # <<>> /\ heard(number.tens) = {Tens(number.tens)}
          /\ Tens(number.tens) \in Nat
      BY Zenon, <1>1, <1>2, WordNumIsHeard
    <2>2. Spoken(number) = 100 * Tens(<<>>) + Tens(number.tens)
      BY Zenon, <1>2 DEF Spoken
    <2>3. Spoken(number) = Tens(number.tens)
      BY <2>1, <2>2, NothingIsHeard
    <2>4. word_values(number, unit) = {v * UnitValue[unit] : v \in {Tens(number.tens)}}
      BY Zenon, <2>1 DEF word_values
    <2>. QED
      BY Zenon, <2>1, <2>3, <2>4
  <1>3. CASE unit = "nghin" /\ number.tens = <<>> /\ IsWordNum(number.hundred)
    <2>1. heard(number.hundred) = {Tens(number.hundred)} /\ Tens(number.hundred) \in Nat
      BY Zenon, <1>1, <1>3, WordNumIsHeard
    <2>2. Spoken(number) = 100 * Tens(number.hundred) + Tens(<<>>)
      <3>1. Len(number.tens) # 1
        BY <1>3
      <3>. QED
        BY Zenon, <1>3, <3>1 DEF Spoken
    <2>3. word_values(number, unit) = {v * 100 * Thousand : v \in {Tens(number.hundred)}}
      BY Zenon, <1>3, <2>1 DEF word_values
    <2>4. UnitValue[unit] = Thousand
      BY <1>3 DEF UnitValue
    <2>. DEFINE t == Tens(number.hundred)
    <2>5. Spoken(number) = 100 * t /\ t \in Nat
      BY <2>1, <2>2, NothingIsHeard
    <2>6. t * 100 * Thousand = Spoken(number) * UnitValue[unit] /\ Spoken(number) \in Nat
      <3>. HIDE DEF t
      <3>. QED
        BY SMT, <2>4, <2>5 DEF Thousand
    <2>7. word_values(number, unit) = {t * 100 * Thousand}
      BY Zenon, <2>3
    <2>. QED
      BY Zenon, <2>6, <2>7
  <1>. QED
    BY Zenon, <1>2, <1>3 DEF TakenWhole

UnitsAre ==
    /\ DOMAIN UnitValue = {"nghin", "trieu", "ty"}
    /\ UnitValue["trieu"] = Million
    /\ \A unit \in DOMAIN UnitValue :
          /\ UnitValue[unit] \in Nat /\ SmallUnit[unit] \in Nat /\ 10^Places[unit] \in Nat
          /\ UnitValue[unit] \div 2 \in Nat

LEMMA Units ==
    UnitsAre
  <1>1. DOMAIN UnitValue = {"nghin", "trieu", "ty"}
    BY DEF UnitValue
  <1>2. UnitValue["trieu"] = Million
    BY DEF UnitValue
  <1>3. /\ UnitValue["nghin"] = Thousand /\ UnitValue["ty"] = Billion
        /\ SmallUnit["nghin"] = 1 /\ SmallUnit["trieu"] = Thousand /\ SmallUnit["ty"] = Million
        /\ Places["nghin"] = 3 /\ Places["trieu"] = 6 /\ Places["ty"] = 9
    BY DEF UnitValue, SmallUnit, Places
  <1>4. /\ Thousand \in Nat /\ Million \in Nat /\ Billion \in Nat /\ 1 \in Nat
        /\ Thousand \div 2 \in Nat /\ Million \div 2 \in Nat /\ Billion \div 2 \in Nat
    BY SMT DEF Thousand, Million, Billion
  <1>5. 10^3 \in Nat /\ 10^6 \in Nat /\ 10^9 \in Nat
    BY SMT
  <1>6. \A unit \in {"nghin", "trieu", "ty"} :
          /\ UnitValue[unit] \in Nat /\ SmallUnit[unit] \in Nat /\ 10^Places[unit] \in Nat
          /\ UnitValue[unit] \div 2 \in Nat
    BY Zenon, <1>2, <1>3, <1>4, <1>5
  <1>. QED
    BY Zenon, <1>1, <1>2, <1>6 DEF UnitsAre

\* Nothing follows the unit, or the count of something else.
LEMMA NothingIsAdded ==
    ASSUME NEW c, WellWritten(c),
           \/ c.form = "digits" /\ (c.tail = <<>> \/ c.then = "count")
           \/ c.form = "words" /\ (c.rest = Nought \/ c.then = "count")
    PROVE  MeantRest(c) = 0
  <1>1. c.unit \in DOMAIN UnitValue /\ c.then \in {"part", "unit", "count"}
    BY Zenon DEF WellWritten
  <1>2. CASE c.then = "count"
    BY <1>2 DEF MeantRest
  <1>3. CASE c.then = "unit"
    <2>1. MeantRest(c) = SmallUnit[c.unit] * (IF c.form = "digits" THEN Number(c.tail)
                                              ELSE Spoken(c.rest))
      BY <1>3 DEF MeantRest
    <2>2. (IF c.form = "digits" THEN Number(c.tail) ELSE Spoken(c.rest)) = 0
      <3>1. c.tail = <<>> => Number(c.tail) = 0
        <4>1. <<>> \in Seq(0..9)
          OBVIOUS
        <4>. QED
          BY Zenon, <4>1, NumberReads
      <3>2. c.form # "digits" => c.rest = Nought
        BY <1>3
      <3>3. c.form = "digits" => c.tail = <<>>
        BY <1>3
      <3>. QED
        BY Zenon, <3>1, <3>2, <3>3, NothingIsHeard
    <2>3. SmallUnit[c.unit] \in Nat
      BY Zenon, <1>1, Units DEF UnitsAre
    <2>. DEFINE small == SmallUnit[c.unit]
                more == IF c.form = "digits" THEN Number(c.tail) ELSE Spoken(c.rest)
    <2>4. MeantRest(c) = small * more /\ small \in Nat /\ more = 0
      BY Zenon, <2>1, <2>2, <2>3
    <2>. HIDE DEF small, more
    <2>. QED
      BY <2>4
  <1>4. CASE c.then = "part"
    <2>1. MeantRest(c) = IF c.form = "digits" THEN Part(c.tail, c.unit)
                         ELSE Spoken(c.rest) * 10^(Places[c.unit] - Len(c.rest.tens))
      BY <1>4 DEF MeantRest
    <2>2. CASE c.form = "digits"
      <3>1. Part(<<>>, c.unit) = 0
        BY DEF Part
      <3>2. c.tail = <<>>
        BY <1>4, <2>2
      <3>. QED
        BY Zenon, <2>1, <2>2, <3>1, <3>2
    <2>3. CASE c.form # "digits"
      <3>1. c.rest = Nought
        BY <1>4, <2>3
      <3>2. c.rest.tens = <<>>
        BY <3>1 DEF Nought
      <3>3. MeantRest(c) = 0 * 10^(Places[c.unit] - 0)
        <4>1. Len(<<>>) = 0
          OBVIOUS
        <4>. QED
          BY Zenon, <2>1, <2>3, <3>1, <3>2, <4>1, NothingIsHeard
      <3>4. Places[c.unit] - 0 = Places[c.unit] /\ 10^Places[c.unit] \in Nat
        <4>1. Places[c.unit] \in {3, 6, 9}
          BY <1>1 DEF Places, UnitValue
        <4>2. Places[c.unit] - 0 = Places[c.unit]
          BY <4>1
        <4>. QED
          BY Zenon, <1>1, <4>2, Units DEF UnitsAre
      <3>. DEFINE ten == 10^Places[c.unit]
      <3>5. MeantRest(c) = 0 * ten /\ ten \in Nat
        BY Zenon, <3>3, <3>4
      <3>. HIDE DEF ten
      <3>. QED
        BY <3>5
    <2>. QED
      BY Zenon, <2>2, <2>3
  <1>. QED
    BY Zenon, <1>1, <1>2, <1>3, <1>4

\* Digits: "5 trieu", "5,5tr", "5tr5", "5 trieu 500 nghin", "5 trieu ruoi".
LEMMA DigitsAreRead ==
    ASSUME NEW c, WellWritten(c), c.form = "digits", ~MisreadDigits(c)
    PROVE  digit_values(c) = {Meant(c)}
  <1>. DEFINE unit == c.unit
              frac == c.frac
              tail == c.tail
              half == UnitValue[unit] \div 2
              base == c.n * UnitValue[unit]
              right == Decimals(frac, Places[unit])
  <1>1. /\ c.n \in Nat /\ unit \in DOMAIN UnitValue /\ c.half \in BOOLEAN
        /\ c.then \in {"part", "unit", "count"}
        /\ frac \in Seq(0..9) /\ tail \in Seq(0..9) /\ Len(frac) \in 0..3 /\ Len(tail) \in 0..5
        /\ c.then # "count" /\ tail # <<>> => frac = <<>> /\ ~c.half
        /\ c.half => frac = <<>>
    BY Zenon DEF WellWritten
  <1>2. Part(frac, unit) = right /\ right \in Nat /\ (frac = <<>> => right = 0)
    <2>1. Len(frac) \in 0..(IF unit = "trieu" THEN 6 ELSE 3)
      <3>1. \A k \in 0..3 : k \in 0..6
        OBVIOUS
      <3>. QED
        BY Zenon, <1>1, <3>1
    <2>. QED
      BY Zenon, <1>1, <2>1, DecimalsAreNatural
  <1>3. base \in Nat /\ half \in Nat
    <2>1. UnitValue[unit] \in Nat /\ half \in Nat
      BY Zenon, <1>1, Units DEF UnitsAre
    <2>. QED
      BY <1>1, <2>1
  <1>4. Meant(c) = base + right + MeantRest(c) + (IF c.half THEN half ELSE 0)
    <2>1. MeantWhole(c) = base + right
      <3>1. Len(frac) # 3
        BY Zenon DEF MisreadDigits
      <3>2. "digits" # "words"
        OBVIOUS
      <3>. QED
        BY Zenon, <1>2, <3>1, <3>2 DEF MeantWhole
    <2>. QED
      BY Zenon, <2>1 DEF Meant
  <1>5. ASSUME unit # "trieu"
        PROVE  digit_values(c) = {Meant(c)}
    <2>1. ~c.half /\ (tail = <<>> \/ c.then = "count")
      BY Zenon, <1>5 DEF MisreadDigits
    <2>2. MeantRest(c) = 0
      BY Zenon, <2>1, NothingIsAdded
    <2>3. Meant(c) = base + right
      <3>. HIDE DEF base, right, half
      <3>. QED
        BY <1>2, <1>3, <1>4, <2>1, <2>2
    <2>4. digit_values(c) = {base + right}
      <3>1. ~(unit = "ty" /\ c.then = "unit" /\ tail # <<>>)
        BY <2>1
      <3>2. digit_values(c) = {base + right} \cup {}
        BY Zenon, <1>5, <3>1 DEF digit_values
      <3>. QED
        BY Zenon, <3>2
    <2>. QED
      BY Zenon, <2>3, <2>4
  <1>6. ASSUME unit = "trieu"
        PROVE  digit_values(c) = {Meant(c)}
    <2>. DEFINE sub == Decimals(tail, 6)
    <2>1. UnitValue[unit] = Million /\ Places[unit] = 6 /\ half = Million \div 2
      <3>1. Places[unit] = 6
        BY <1>6 DEF Places
      <3>. QED
        BY Zenon, <1>6, <3>1, Units DEF UnitsAre
    <2>2. million_value(c) = IF frac # <<>> THEN base + right
                             ELSE base + (IF c.half THEN half ELSE sub)
      BY Zenon, <2>1 DEF million_value
    <2>3. Part(tail, unit) = sub /\ sub \in Nat /\ (tail = <<>> => sub = 0)
      <3>1. Len(tail) \in 0..(IF unit = "trieu" THEN 6 ELSE 3)
        BY <1>1, <1>6
      <3>2. tail \in Seq(0..9) /\ unit \in DOMAIN UnitValue
        BY Zenon, <1>1
      <3>. QED
        BY Zenon, <2>1, <3>1, <3>2, DecimalsAreNatural
    <2>4. tail = <<>> \/ c.then = "count" => MeantRest(c) = 0
      BY Zenon, NothingIsAdded
    <2>5. /\ tail # <<>> /\ c.then = "unit" => Len(tail) = 3
          /\ tail # <<>> /\ c.then = "count" => frac # <<>> \/ c.half
      BY Zenon, <1>6 DEF MisreadDigits
    <2>6. frac = <<>> /\ ~c.half => MeantRest(c) = sub
      <3>1. CASE tail = <<>>
        BY Zenon, <2>3, <2>4, <3>1
      <3>2. CASE tail # <<>> /\ c.then = "unit"
        <4>1. MeantRest(c) = SmallUnit[unit] * Number(tail)
          BY <3>2 DEF MeantRest
        <4>2. SmallUnit[unit] = Thousand
          BY <1>6 DEF SmallUnit
        <4>3. sub = Number(tail) * 10^(6 - 3)
          BY Zenon, <2>5, <3>2 DEF Decimals
        <4>4. 10^(6 - 3) = Thousand
          BY SMT DEF Thousand
        <4>. DEFINE n == Number(tail)
        <4>5. n \in Nat
          BY Zenon, <1>1, NumberReads
        <4>6. sub = n * Thousand /\ MeantRest(c) = Thousand * n
          BY Zenon, <4>1, <4>2, <4>3, <4>4
        <4>. HIDE DEF n, sub
        <4>. QED
          BY SMT, <4>5, <4>6 DEF Thousand
      <3>3. CASE tail # <<>> /\ c.then = "part"
        <4>1. MeantRest(c) = Part(tail, unit)
          BY <3>3 DEF MeantRest
        <4>. QED
          BY Zenon, <2>3, <4>1
      <3>. QED
        BY Zenon, <1>1, <2>5, <3>1, <3>2, <3>3
    <2>7. frac # <<>> \/ c.half => MeantRest(c) = 0
      BY Zenon, <1>1, <2>4
    <2>8. Meant(c) = million_value(c)
      <3>. HIDE DEF base, right, half, sub
      <3>. DEFINE rest == MeantRest(c)
      <3>1. rest = IF frac # <<>> \/ c.half THEN 0 ELSE sub
        BY Zenon, <2>6, <2>7
      <3>2. Meant(c) = base + right + rest + (IF c.half THEN half ELSE 0)
        BY Zenon, <1>4
      <3>. HIDE DEF rest
      <3>. QED
        BY <1>1, <1>2, <1>3, <2>2, <2>3, <3>1, <3>2
    <2>9. digit_values(c) = {million_value(c)}
      BY Zenon, <1>6 DEF digit_values
    <2>. QED
      BY Zenon, <2>8, <2>9
  <1>. QED
    BY Zenon, <1>5, <1>6

\* The one digit word that is read after spelled-out millions: "nam trieu tam",
\* "nam trieu tam tram nghin".
LEMMA SwallowedIsMeant ==
    ASSUME NEW c, WellWritten(c), c.form = "words", ~MisreadWords(c),
           c.unit = "trieu", c.rest # Nought, c.then # "count"
    PROVE  /\ BeginsWithDigit(c.rest) /\ ~c.half
           /\ MeantRest(c) = Swallowed(c) /\ Swallowed(c) \in Nat
           /\ c.then = "unit" => c.rest.tens = <<>> /\ c.rest.hundred # <<>>
                                 /\ Tail(c.rest.hundred) = <<>>
  <1>. DEFINE hundred == c.rest.hundred
              tens == c.rest.tens
  <1>1. /\ hundred \in Seq(NumberWords) /\ tens \in Seq(NumberWords)
        /\ c.rest = [hundred |-> hundred, tens |-> tens]
    BY Zenon DEF WellWritten, IsANumber
  <1>2. ~c.half /\ c.then \in {"part", "unit", "count"}
    BY Zenon DEF WellWritten
  <1>3. \A w \in DOMAIN WordDigits : WordDigits[w] \in Nat /\ Worth(w) = WordDigits[w]
    <2>1. \A w \in DOMAIN WordDigits : WordDigits[w] \in Nat /\ w # "muoi" /\ w # "linh"
      BY DEF WordDigits
    <2>. QED
      BY Zenon, <2>1 DEF Worth
  <1>4. CASE c.then = "part"
    <2>1. hundred = <<>> /\ Len(tens) = 1 /\ ToSet(tens) \subseteq DOMAIN WordDigits
      <3>1. c.unit = "trieu" /\ c.rest # Nought /\ c.form = "words"
        OBVIOUS
      <3>2. Len(tens) = 1
        BY <1>4 DEF MisreadWords
      <3>. QED
        BY Zenon, <1>4, <3>1, <3>2 DEF WellWritten
    <2>2. Head(tens) = tens[1] /\ tens[1] \in ToSet(tens) /\ hundred \o tens = tens
          /\ tens # <<>>
      BY <1>1, <2>1 DEF ToSet
    <2>3. BeginsWithDigit(c.rest)
      BY Zenon, <2>1, <2>2 DEF BeginsWithDigit
    <2>4. Swallowed(c) = WordDigits[tens[1]] * 100 * Thousand
      BY Zenon, <2>2 DEF Swallowed
    <2>. DEFINE d == WordDigits[tens[1]]
    <2>5. d \in Nat /\ Worth(tens[1]) = d
      BY Zenon, <1>3, <2>1, <2>2
    <2>6. Tens(tens) = d
      <3>1. Tens(tens) = Worth(tens[1])
        BY <2>1 DEF Tens
      <3>. QED
        BY Zenon, <2>5, <3>1
    <2>7. Spoken(c.rest) = 100 * 0 + d
      BY Zenon, <2>1, <2>6, NothingIsHeard DEF Spoken
    <2>8. MeantRest(c) = Spoken(c.rest) * 10^(Places[c.unit] - Len(tens))
      BY <1>4 DEF MeantRest
    <2>9. 10^(Places[c.unit] - Len(tens)) = 100 * Thousand
      <3>1. Places[c.unit] = 6
        BY DEF Places
      <3>2. 10^(6 - 1) = 100 * Thousand
        BY SMT DEF Thousand
      <3>. QED
        BY Zenon, <2>1, <3>1, <3>2
    <2>10. MeantRest(c) = (100 * 0 + d) * (100 * Thousand)
      BY Zenon, <2>7, <2>8, <2>9
    <2>11. Swallowed(c) = d * 100 * Thousand
      BY Zenon, <2>4
    <2>12. MeantRest(c) = Swallowed(c) /\ Swallowed(c) \in Nat
      <3>. HIDE DEF d
      <3>. QED
        BY SMT, <2>5, <2>10, <2>11 DEF Thousand
    <2>13. c.then # "unit"
      BY <1>4
    <2>. QED
      BY Zenon, <1>2, <2>3, <2>12, <2>13
  <1>5. CASE c.then = "unit"
    <2>1. tens = <<>> /\ Len(hundred) = 1 /\ BeginsWithDigit(c.rest)
      BY <1>5 DEF MisreadWords
    <2>2. Head(hundred) = hundred[1] /\ hundred \o tens = hundred /\ hundred # <<>>
          /\ Tail(hundred) = <<>>
      <3>1. Head(hundred) = hundred[1] /\ hundred # <<>>
        <4>1. ASSUME NEW s \in Seq(NumberWords), Len(s) = 1
              PROVE  Head(s) = s[1] /\ s # <<>>
          BY <4>1
        <4>. QED
          BY Zenon, <1>1, <2>1, <4>1
      <3>4. hundred \o <<>> = hundred
        BY <1>1, ConcatEmptySeq
      <3>2. Tail(hundred) \in Seq(NumberWords) /\ Len(Tail(hundred)) = 0
        BY <1>1, <2>1
      <3>3. Tail(hundred) = <<>>
        BY Zenon, <3>2, EmptySeq
      <3>. QED
        BY Zenon, <2>1, <3>1, <3>3, <3>4
    <2>3. hundred[1] \in DOMAIN WordDigits
      BY Zenon, <2>1, <2>2 DEF BeginsWithDigit
    <2>4. Swallowed(c) = WordDigits[hundred[1]] * 100 * Thousand
      BY Zenon, <2>2 DEF Swallowed
    <2>. DEFINE d == WordDigits[hundred[1]]
    <2>5. d \in Nat /\ Worth(hundred[1]) = d
      BY Zenon, <1>3, <2>3
    <2>6. Tens(hundred) = d
      <3>1. Tens(hundred) = Worth(hundred[1])
        BY <2>1 DEF Tens
      <3>. QED
        BY Zenon, <2>5, <3>1
    <2>7. Spoken(c.rest) = 100 * d + 0
      <3>1. Len(tens) # 1
        BY <2>1
      <3>. QED
        BY Zenon, <2>1, <2>6, <3>1, NothingIsHeard DEF Spoken
    <2>8. MeantRest(c) = SmallUnit[c.unit] * Spoken(c.rest)
      BY <1>5 DEF MeantRest
    <2>9. SmallUnit[c.unit] = Thousand
      BY DEF SmallUnit
    <2>10. MeantRest(c) = Thousand * (100 * d + 0)
      BY Zenon, <2>7, <2>8, <2>9
    <2>11. Swallowed(c) = d * 100 * Thousand
      BY Zenon, <2>4
    <2>12. MeantRest(c) = Swallowed(c) /\ Swallowed(c) \in Nat
      <3>. HIDE DEF d
      <3>. QED
        BY SMT, <2>5, <2>10, <2>11 DEF Thousand
    <2>. QED
      BY Zenon, <1>2, <2>1, <2>2, <2>12
  <1>. QED
    BY Zenon, <1>2, <1>4, <1>5

\* Other hundreds, the same tens.
LEMMA HundredsChange ==
    ASSUME NEW number, IsANumber(number), NEW h
    PROVE  [number EXCEPT !.hundred = h] = [hundred |-> h, tens |-> number.tens]
  <1>1. number = [hundred |-> number.hundred, tens |-> number.tens]
    BY Zenon DEF IsANumber
  <1>. QED
    BY <1>1

\* Words: "nam trieu", "nam trieu ruoi", "nam trieu tam", "muoi lam nghin".
LEMMA WordsAreRead ==
    ASSUME NEW c, WellWritten(c), c.form = "words", ~MisreadWords(c)
    PROVE  spelled_values(c) = {Meant(c)}
  <1>. DEFINE unit == c.unit
              base == Spoken(c.words) * UnitValue[unit]
              half == UnitValue[unit] \div 2
              added == IF Swallows(c) THEN Swallowed(c)
                       ELSE IF c.half /\ unit = "trieu" THEN Million \div 2 ELSE 0
              after == IF c.then = "unit" /\ unit \in DOMAIN Below
                       THEN word_values(Left(c), Below[unit]) ELSE {}
  <1>1. /\ unit \in DOMAIN UnitValue /\ c.half \in BOOLEAN /\ IsANumber(c.words)
        /\ c.then \in {"part", "unit", "count"}
        /\ c.then # "count" /\ c.rest # Nought => ~c.half
    BY Zenon DEF WellWritten
  <1>2. /\ word_values(c.words, unit) = {base} /\ Spoken(c.words) \in Nat
    <2>1. TakenWhole(c.words, unit)
      BY Zenon DEF MisreadWords
    <2>. QED
      BY Zenon, <1>1, <2>1, WholeIsRead
  <1>3. base \in Nat /\ half \in Nat
    <2>1. UnitValue[unit] \in Nat /\ half \in Nat
      BY Zenon, <1>1, Units DEF UnitsAre
    <2>. QED
      BY <1>2, <2>1
  <1>4. Meant(c) = base + MeantRest(c) + (IF c.half THEN half ELSE 0)
    <2>1. MeantWhole(c) = base
      BY DEF MeantWhole
    <2>2. c.form # "dong"
      OBVIOUS
    <2>. QED
      BY Zenon, <2>1, <2>2 DEF Meant
  <1>5. spelled_values(c) = {base + added} \cup after
    <2>1. spelled_values(c) = {v + added : v \in {base}} \cup after
      BY Zenon, <1>2 DEF spelled_values
    <2>. QED
      BY Zenon, <2>1
  <1>6. ASSUME c.rest = Nought \/ c.then = "count"
        PROVE  spelled_values(c) = {Meant(c)}
    <2>1. MeantRest(c) = 0
      BY Zenon, <1>6, NothingIsAdded
    <2>2. ~Swallows(c)
      <3>1. CASE unit # "trieu"
        BY Zenon, <3>1 DEF Swallows
      <3>2. CASE c.rest = Nought
        BY Zenon, <3>2, NothingIsHeard DEF Swallows
      <3>3. CASE unit = "trieu" /\ c.rest # Nought
        <4>1. c.then = "count"
          BY Zenon, <1>6, <3>3
        <4>2. ~(~c.half /\ BeginsWithDigit(c.rest))
          BY <3>3, <4>1 DEF MisreadWords
        <4>. QED
          BY Zenon, <4>2 DEF Swallows
      <3>. QED
        BY Zenon, <3>1, <3>2, <3>3
    <2>3. after = {}
      <3>1. CASE c.then = "unit"
        <4>1. c.rest = Nought
          BY <1>6, <3>1
        <4>2. Left(c) = Nought
          BY Zenon, <2>2, <4>1 DEF Left
        <4>. QED
          BY Zenon, <4>2, NothingIsHeard
      <3>. QED
        BY Zenon, <3>1
    <2>4. c.half => unit = "trieu"
      BY Zenon DEF MisreadWords
    <2>5. unit = "trieu" => half = Million \div 2
      BY Zenon, Units DEF UnitsAre
    <2>6. added = IF c.half THEN half ELSE 0
      BY Zenon, <2>2, <2>4, <2>5
    <2>7. Meant(c) = base + added
      <3>. HIDE DEF base, added, half
      <3>. QED
        BY <1>3, <1>4, <2>1, <2>6
    <2>8. spelled_values(c) = {base + added} \cup {}
      BY Zenon, <1>5, <2>3
    <2>. QED
      BY Zenon, <2>7, <2>8
  <1>7. ASSUME c.rest # Nought, c.then # "count"
        PROVE  spelled_values(c) = {Meant(c)}
    <2>1. unit = "trieu"
      BY Zenon, <1>7 DEF MisreadWords
    <2>2. /\ BeginsWithDigit(c.rest) /\ ~c.half
          /\ MeantRest(c) = Swallowed(c) /\ Swallowed(c) \in Nat
          /\ c.then = "unit" => c.rest.tens = <<>> /\ c.rest.hundred # <<>>
                                /\ Tail(c.rest.hundred) = <<>>
      BY Zenon, <1>7, <2>1, SwallowedIsMeant
    <2>3. Swallows(c)
      <3>1. word_values(c.words, "trieu") # {}
        BY Zenon, <1>2, <2>1
      <3>. QED
        BY Zenon, <2>1, <2>2, <3>1 DEF Swallows
    <2>4. after = {}
      <3>1. CASE c.then = "unit"
        <4>1. Left(c) = [c.rest EXCEPT !.hundred = Tail(@)]
          BY Zenon, <2>2, <2>3, <3>1 DEF Left
        <4>3. [c.rest EXCEPT !.hundred = Tail(@)]
              = [hundred |-> Tail(c.rest.hundred), tens |-> c.rest.tens]
          BY Zenon, HundredsChange DEF WellWritten
        <4>4. Left(c) = Nought
          BY Zenon, <2>2, <3>1, <4>1, <4>3 DEF Nought
        <4>. QED
          BY Zenon, <4>4, NothingIsHeard
      <3>. QED
        BY Zenon, <3>1
    <2>5. added = MeantRest(c)
      BY Zenon, <2>2, <2>3
    <2>6. Meant(c) = base + added
      <3>. HIDE DEF base, added, half
      <3>. QED
        BY <1>3, <1>4, <2>2, <2>5
    <2>7. spelled_values(c) = {base + added} \cup {}
      BY Zenon, <1>5, <2>4
    <2>. QED
      BY Zenon, <2>6, <2>7
  <1>. QED
    BY Zenon, <1>6, <1>7

\* The tokenizer reads an amount in figures, or in the figures or the words of
\* one unit and what may follow it, as the number its writer meant, except in
\* the forms of Misread: a grouping dot before a unit, "ruoi" or a remainder
\* after thousands and billions, a remainder of tens of thousands, a count
\* right after millions, and in words hundreds with tens, hundreds of millions,
\* tens without "muoi" and remainders of more than one digit.
LEMMA AmountIsRead ==
    ASSUME NEW c, WellWritten(c), c.form \notin {"pct", "free", "phone"}, ~Misread(c)
    PROVE  iter_money_tokens(c) = Tokens("money", {Meant(c)})
  <1>1. c.form \in {"dong", "digits", "words"}
    BY DEF WellWritten, Forms
  <1>2. CASE c.form = "dong"
    BY <1>2 DEF iter_money_tokens, Meant
  <1>3. CASE c.form = "digits"
    <2>1. iter_money_tokens(c) = Tokens("money", digit_values(c))
      BY <1>3 DEF iter_money_tokens
    <2>. QED
      BY Zenon, <1>3, <2>1, DigitsAreRead DEF Misread
  <1>4. CASE c.form = "words"
    <2>1. iter_money_tokens(c) = Tokens("money", spelled_values(c))
      BY <1>4 DEF iter_money_tokens
    <2>. QED
      BY Zenon, <1>4, <2>1, WordsAreRead DEF Misread
  <1>. QED
    BY Zenon, <1>1, <1>2, <1>3, <1>4

-----------------------------------------------------------------------------
(* Names in a text *)

IsACatalog(courses) ==
    /\ IsFiniteSet(DOMAIN courses)
    /\ \A c \in DOMAIN courses :
          IsASequence(courses[c].ten_khoa) /\ WellSaid(courses[c].facts)

\* Where the name of a course stands.
Own(c, text) == spans(kb.courses[c].ten_khoa, text)

\* No course has a longer name around s.
Top(s, text) == \A d \in DOMAIN kb.courses : \A o \in Own(d, text) : ~Within(s, o)

Stands(needle, words, first, last) ==
    /\ needle # <<>>
    /\ first \in 1..(Len(words) - Len(needle) + 1)
    /\ SubSeq(words, first, first + Len(needle) - 1) = needle
    /\ last = first + Len(needle) - 1

\* A span is a place where the words of the needle stand.
LEMMA SpanIs ==
    ASSUME NEW needle, NEW text, NEW i, NEW a, NEW b
    PROVE  <<i, a, b>> \in spans(needle, text) <=>
              i \in DOMAIN text /\ Stands(needle, text[i].words, a, b)
  <1>. DEFINE Starts(s) == {x \in 1..(Len(text[s].words) - Len(needle) + 1) :
                              SubSeq(text[s].words, x, x + Len(needle) - 1) = needle}
  <1>1. <<i, a, b>> \in spans(needle, text) <=>
           needle # <<>> /\ \E s \in DOMAIN text : \E x \in Starts(s) :
                               <<i, a, b>> = <<s, x, x + Len(needle) - 1>>
    <2>1. CASE needle = <<>>
      BY Zenon, <2>1 DEF spans
    <2>2. CASE needle # <<>>
      <3>1. spans(needle, text) =
               UNION {{<<s, x, x + Len(needle) - 1>> : x \in Starts(s)} : s \in DOMAIN text}
        BY Zenon, <2>2 DEF spans
      <3>2. \A S : \A r : r \in UNION S <=> \E T \in S : r \in T
        BY Zenon
      <3>3. <<i, a, b>> \in spans(needle, text) <=>
               \E s \in DOMAIN text :
                  <<i, a, b>> \in {<<s, x, x + Len(needle) - 1>> : x \in Starts(s)}
        <4>. HIDE DEF Starts
        <4>. QED
          BY <3>1
      <3>4. \A s : <<i, a, b>> \in {<<s, x, x + Len(needle) - 1>> : x \in Starts(s)} <=>
                   \E x \in Starts(s) : <<i, a, b>> = <<s, x, x + Len(needle) - 1>>
        <4>. HIDE DEF Starts
        <4>. QED
          BY Zenon
      <3>. QED
        BY Zenon, <2>2, <3>3, <3>4
    <2>. QED
      BY <2>1, <2>2
  <1>2. \A s, x, y : <<i, a, b>> = <<s, x, y>> <=> (i = s /\ a = x /\ b = y)
    OBVIOUS
  <1>. QED
    BY Zenon, <1>1, <1>2 DEF Stands

\* A span lies inside its sentence and is not empty.
LEMMA SpanShape ==
    ASSUME NEW needle, IsASequence(needle), NEW text, IsADraft(text),
           NEW s \in spans(needle, text)
    PROVE  /\ s \in Nat \X Nat \X Nat /\ s[1] \in DOMAIN text
           /\ 1 <= s[2] /\ s[2] <= s[3] /\ s[3] <= Len(text[s[1]].words)
           /\ Len(text[s[1]].words) \in Nat
  <1>1. PICK i, a, b : s = <<i, a, b>>
    BY SMT DEF spans
  <1>2. /\ needle # <<>> /\ i \in DOMAIN text
        /\ a \in 1..(Len(text[i].words) - Len(needle) + 1)
        /\ b = a + Len(needle) - 1
    BY Zenon, <1>1, SpanIs DEF Stands
  <1>3. Len(needle) \in Nat \ {0}
    BY Zenon, <1>2, EmptySeq DEF IsASequence
  <1>4. text \in Seq(ToSet(text)) /\ text[i].words \in Seq(ToSet(text[i].words))
    BY Zenon, <1>2 DEF IsADraft, IsASequence
  <1>5. i \in Nat /\ Len(text[i].words) \in Nat
    BY <1>2, <1>4
  <1>. QED
    BY <1>1, <1>2, <1>3, <1>5

\* A sentence read alone has the spans it has in the text.
LEMMA SpanInSentence ==
    ASSUME NEW needle, NEW text, NEW i \in DOMAIN text, NEW a, NEW b
    PROVE  <<i, a, b>> \in spans(needle, text) <=> <<1, a, b>> \in spans(needle, <<text[i]>>)
  <1>1. DOMAIN <<text[i]>> = {1} /\ <<text[i]>>[1] = text[i]
    OBVIOUS
  <1>2. <<text[i]>>[1].words = text[i].words /\ 1 \in DOMAIN <<text[i]>>
    BY Zenon, <1>1
  <1>. QED
    BY Zenon, <1>1, <1>2, SpanIs

\* A span around a span around a third lies around the third, and each of
\* them is longer than the one inside.
LEMMA WithinIsAnOrder ==
    ASSUME NEW r \in Nat \X Nat \X Nat, NEW s \in Nat \X Nat \X Nat,
           NEW u \in Nat \X Nat \X Nat
    PROVE  /\ Within(r, s) /\ Within(s, u) => Within(r, u)
           /\ Within(r, s) => r[3] - r[2] < s[3] - s[2]
  <1>1. /\ r = <<r[1], r[2], r[3]>> /\ s = <<s[1], s[2], s[3]>> /\ u = <<u[1], u[2], u[3]>>
        /\ {r[2], r[3], s[2], s[3], u[2], u[3]} \subseteq Nat
    OBVIOUS
  <1>2. Within(r, s) => r[3] - r[2] < s[3] - s[2]
    BY <1>1 DEF Within
  <1>3. ASSUME Within(r, s), Within(s, u)
        PROVE  Within(r, u)
    <2>1. r[3] - r[2] < s[3] - s[2] /\ s[3] - s[2] < u[3] - u[2]
      BY <1>1, <1>3 DEF Within
    <2>2. r # u
      BY <1>1, <2>1
    <2>. QED
      BY <1>1, <1>3, <2>2 DEF Within
  <1>. QED
    BY <1>2, <1>3

\* Around every span there is one that lies in no other.
LEMMA LongestSpan ==
    ASSUME IsACatalog(kb.courses), NEW text, IsADraft(text),
           NEW c \in DOMAIN kb.courses, NEW s \in Own(c, text)
    PROVE  \E d \in DOMAIN kb.courses : \E o \in Own(d, text) :
              (o = s \/ Within(s, o)) /\ Top(o, text)
  <1>. DEFINE Triples == Nat \X Nat \X Nat
              All == UNION {Own(d, text) : d \in DOMAIN kb.courses}
              Around == {o \in All : o = s \/ Within(s, o)}
              n == Len(text[s[1]].words)
              Lengths == {o[3] - o[2] + 1 : o \in Around}
  <1>1. \A o \in All : /\ o \in Triples /\ 1 <= o[2] /\ o[2] <= o[3]
                       /\ o[3] <= Len(text[o[1]].words) /\ Len(text[o[1]].words) \in Nat
    BY SpanShape DEF IsACatalog, Own
  <1>2. s \in Around /\ n \in Nat
    BY <1>1
  <1>3. \A o \in Around : o \in All /\ o[1] = s[1]
    BY DEF Within
  <1>4. Lengths \in SUBSET (1..n) /\ Lengths # {}
    <2>1. ASSUME NEW o \in Around
          PROVE  o[3] - o[2] + 1 \in 1..n
      <3>1. /\ o[2] \in Nat /\ o[3] \in Nat /\ 1 <= o[2] /\ o[2] <= o[3] /\ o[3] <= n
        BY <1>1, <1>3
      <3>. QED
        BY <1>2, <3>1
    <2>. QED
      BY <1>2, <2>1
  <1>5. PICK o \in Around : \A u \in Around : u[3] - u[2] + 1 <= o[3] - o[2] + 1
    <2>. HIDE DEF n, Lengths
    <2>1. Max(Lengths) \in Lengths /\ \A k \in Lengths : k <= Max(Lengths)
      BY <1>2, <1>4, MaxIsGreatest
    <2>2. PICK o \in Around : Max(Lengths) = o[3] - o[2] + 1
      BY Zenon, <2>1 DEF Lengths
    <2>. QED
      BY Zenon, <2>1, <2>2 DEF Lengths
  <1>6. Top(o, text)
    <2>1. SUFFICES ASSUME NEW d \in DOMAIN kb.courses, NEW u \in Own(d, text), Within(o, u)
                   PROVE  FALSE
      BY DEF Top
    <2>2. u \in All /\ o \in Triples /\ u \in Triples /\ s \in Triples
      BY <1>1, <1>2, <1>3
    <2>3. o[3] - o[2] < u[3] - u[2] /\ (Within(s, o) => Within(s, u))
      BY Zenon, <2>1, <2>2, WithinIsAnOrder
    <2>4. u \in Around
      BY Zenon, <2>1, <2>2, <2>3
    <2>5. u[3] - u[2] + 1 <= o[3] - o[2] + 1
      BY Zenon, <1>5, <2>4
    <2>6. u[2] \in Nat /\ u[3] \in Nat /\ o[2] \in Nat /\ o[3] \in Nat
      BY <2>2
    <2>. QED
      BY <2>3, <2>5, <2>6
  <1>. QED
    BY Zenon, <1>6

-----------------------------------------------------------------------------
(* Whose course a text is about *)

Certain(text) == certain(kb.courses, text)
Kept(text) == drop_shadowed(kb.courses, Certain(text), text)
Guessed(text) == fuzzy(kb.courses, text)
Resolved(text) == resolve_named(kb.courses, text)

\* How what the matcher looks for and what a reader finds hang together.
LEMMA CalledIsCertain ==
    ASSUME NEW text
    PROVE  /\ Called(text) \subseteq Certain(text)
           /\ Certain(text) \subseteq DOMAIN kb.courses
           /\ \A c \in DOMAIN kb.courses : Own(c, text) # {} => c \in Certain(text)
           /\ \A c \in Certain(text) : Own(c, text) = {} => c \in Called(text)
           /\ \A c \in DOMAIN kb.courses : \A s \in Own(c, text) :
                 Top(s, text) => c \in Called(text)
  BY Zenon DEF Called, Certain, certain, Own, Top

\* What drop_shadowed keeps, in the words of Own.
LEMMA KeptIs ==
    ASSUME NEW text, NEW c
    PROVE  c \in Kept(text) <=>
              /\ c \in Certain(text)
              /\ \/ Own(c, text) = {}
                 \/ \E s \in Own(c, text) :
                       \A d \in Certain(text) : \A o \in Own(d, text) : ~Within(s, o)
  <1>. DEFINE covered == {s \in Own(c, text) :
                            \E d \in Certain(text) : \E o \in Own(d, text) : Within(s, o)}
  <1>1. c \in Kept(text) <=>
           c \in Certain(text) /\ (Own(c, text) = {} \/ covered # Own(c, text))
    BY Zenon DEF Kept, drop_shadowed, Own
  <1>2. covered # Own(c, text) <=>
           \E s \in Own(c, text) :
              \A d \in Certain(text) : \A o \in Own(d, text) : ~Within(s, o)
    OBVIOUS
  <1>. QED
    BY Zenon, <1>1, <1>2

\* Only courses with a span are around one, and they are hits.
LEMMA TopAmongHits ==
    ASSUME NEW text, NEW s
    PROVE  (\A d \in Certain(text) : \A o \in Own(d, text) : ~Within(s, o)) <=> Top(s, text)
  BY Zenon, CalledIsCertain DEF Top

\* What the matcher keeps a reader finds too.
LEMMA KeptIsCalled ==
    ASSUME NEW text
    PROVE  Kept(text) \subseteq Called(text)
  BY Zenon, KeptIs, TopAmongHits, CalledIsCertain

\* A name that lies in no longer one is kept.
LEMMA TopIsKept ==
    ASSUME NEW text, NEW c \in DOMAIN kb.courses, NEW s \in Own(c, text), Top(s, text)
    PROVE  c \in Kept(text)
  BY Zenon, KeptIs, TopAmongHits, CalledIsCertain

\* What the matcher drops although a reader finds it is a forgotten call.
LEMMA CalledIsKept ==
    ASSUME IsACatalog(kb.courses), NEW text, IsADraft(text)
    PROVE  Called(text) \ Kept(text) \subseteq Forgotten(text)
  <1>1. SUFFICES ASSUME NEW c \in Called(text), c \notin Kept(text)
                 PROVE  c \in Forgotten(text)
    OBVIOUS
  <1>2. c \in Certain(text) /\ Own(c, text) # {}
        /\ \A s \in Own(c, text) : ~Top(s, text)
    BY Zenon, <1>1, CalledIsCertain, KeptIs, TopAmongHits
  <1>3. ASSUME NEW s \in Own(c, text)
        PROVE  \E d \in Called(text) : \E o \in Own(d, text) : Within(s, o)
    <2>1. c \in DOMAIN kb.courses
      BY Zenon, <1>2, CalledIsCertain
    <2>2. PICK d \in DOMAIN kb.courses : \E o \in Own(d, text) :
             (o = s \/ Within(s, o)) /\ Top(o, text)
      BY Zenon, <2>1, LongestSpan
    <2>. QED
      BY Zenon, <1>2, <2>2, CalledIsCertain
  <1>. QED
    BY Zenon, <1>2, <1>3 DEF Forgotten, Own

\* Where the matcher is certain of a course, a reader finds one.
LEMMA CertainIsCalled ==
    ASSUME IsACatalog(kb.courses), NEW text, IsADraft(text), Certain(text) # {}
    PROVE  Called(text) # {}
  <1>1. PICK c \in Certain(text) : c \in DOMAIN kb.courses
    BY Zenon, CalledIsCertain
  <1>2. CASE Own(c, text) = {}
    BY Zenon, <1>2, CalledIsCertain
  <1>3. CASE Own(c, text) # {}
    BY Zenon, <1>1, <1>3, LongestSpan, CalledIsCertain
  <1>. QED
    BY <1>2, <1>3

\* A paraphrase fits finitely many courses.
LEMMA GuessedIsFinite ==
    ASSUME IsACatalog(kb.courses), NEW text
    PROVE  IsFiniteSet(Guessed(text)) /\ Cardinality(Guessed(text)) \in Nat
  BY FS_Subset, FS_CardinalityType DEF IsACatalog, Guessed, fuzzy

\* What resolve_named returns where it forgets no course.
LEMMA ResolvedIs ==
    ASSUME IsACatalog(kb.courses), NEW text, IsADraft(text), Forgotten(text) = {}
    PROVE  /\ Called(text) # {} =>
                 Resolved(text) = [named |-> Called(text), ambiguous |-> FALSE]
           /\ Called(text) = {} =>
                 Resolved(text) =
                    [named |-> IF Cardinality(Guessed(text)) = 1 THEN Guessed(text) ELSE {},
                     ambiguous |-> Cardinality(Guessed(text)) > 1]
  <1>1. Kept(text) = Called(text)
    BY Zenon, KeptIsCalled, CalledIsKept
  <1>2. Certain(text) = {} <=> Called(text) = {}
    BY Zenon, CertainIsCalled, CalledIsCertain
  <1>3. Resolved(text) =
           IF Certain(text) # {}
           THEN [named |-> Kept(text), ambiguous |-> FALSE]
           ELSE [named |-> IF Cardinality(Guessed(text)) = 1 THEN Guessed(text) ELSE {},
                 ambiguous |-> Cardinality(Guessed(text)) > 1]
    BY Zenon DEF Resolved, resolve_named, Kept, Certain, Guessed
  <1>. QED
    BY Zenon, <1>1, <1>2, <1>3

\* What one sentence paraphrases, the reply as a whole paraphrases too.
LEMMA GuessedGrows ==
    ASSUME IsACatalog(kb.courses), NEW text, NEW s \in DOMAIN text
    PROVE  Guessed(<<text[s]>>) \subseteq Guessed(text)
  <1>1. DraftWords(<<text[s]>>) \subseteq DraftWords(text)
    <2>1. DOMAIN <<text[s]>> = {1} /\ <<text[s]>>[1] = text[s]
      OBVIOUS
    <2>2. UNION {without_numeric_tokens(<<text[s]>>[k]) : k \in DOMAIN <<text[s]>>}
             \subseteq UNION {without_numeric_tokens(text[k]) : k \in DOMAIN text}
      BY Zenon, <2>1
    <2>. QED
      BY Zenon, <2>2 DEF DraftWords, significant_words
  <1>2. ASSUME NEW c \in DOMAIN kb.courses, Overlaps(kb.courses[c].ten_khoa, DraftWords(<<text[s]>>))
        PROVE  Overlaps(kb.courses[c].ten_khoa, DraftWords(text))
    <2>. DEFINE name == kb.courses[c].ten_khoa
                own == significant_words(ToSet(name))
                few == own \cap DraftWords(<<text[s]>>)
                many == own \cap DraftWords(text)
    <2>1. IsFiniteSet(own)
      <3>1. name \in Seq(ToSet(name))
        BY Zenon DEF IsACatalog, IsASequence
      <3>2. name \in Surjection(DOMAIN name, ToSet(name)) /\ IsFiniteSet(DOMAIN name)
        <4>1. Len(name) \in Nat /\ DOMAIN name = 1..Len(name) /\ name \in [1..Len(name) -> ToSet(name)]
          BY <3>1
        <4>2. ToSet(name) = {name[i] : i \in DOMAIN name}
          BY Zenon DEF ToSet
        <4>. HIDE DEF name
        <4>3. \A e \in ToSet(name) : \E i \in DOMAIN name : name[i] = e
          BY Zenon, <4>2
        <4>4. name \in Surjection(DOMAIN name, ToSet(name))
          BY Zenon, <4>1, <4>3 DEF Surjection
        <4>5. IsFiniteSet(DOMAIN name)
          BY <4>1, FS_Interval
        <4>. QED
          BY <4>4, <4>5
      <3>3. IsFiniteSet(ToSet(name))
        <4>. HIDE DEF name
        <4>. QED
          BY <3>2, FS_Surjection
      <3>. QED
        BY <3>3, FS_Difference DEF significant_words
    <2>. HIDE DEF own
    <2>2. few \in SUBSET many /\ many \in SUBSET own
      BY Zenon, <1>1
    <2>. HIDE DEF few, many
    <2>3. Cardinality(few) \in Nat /\ Cardinality(many) \in Nat
          /\ Cardinality(own) \in Nat /\ Cardinality(few) <= Cardinality(many)
      BY <2>1, <2>2, FS_Subset, FS_CardinalityType
    <2>4. Cardinality(own) >= MinFuzzyWords /\ 5 * Cardinality(few) >= 4 * Cardinality(own)
      BY Zenon, <1>2 DEF Overlaps, own, few
    <2>5. 5 * Cardinality(many) >= 4 * Cardinality(own)
      BY <2>3, <2>4
    <2>. QED
      BY Zenon, <2>4, <2>5 DEF Overlaps, own, many
  <1>. QED
    BY Zenon, <1>2 DEF Guessed, fuzzy

-----------------------------------------------------------------------------
(* The checks of one sentence *)

\* An amount that is not misread gives one token, its value.
LEMMA TokenOfPrice ==
    ASSUME NEW c, WellWritten(c), c.form \notin {"pct", "free", "phone"}, ~Misread(c)
    PROVE  iter_money_tokens(c) = {[kind |-> "money", value |-> Meant(c)]}
  BY AmountIsRead DEF Tokens

\* Only an amount of money gives a token of that kind.
LEMMA MoneyIsPriced ==
    ASSUME NEW c, WellWritten(c), NEW v, [kind |-> "money", value |-> v] \in iter_money_tokens(c)
    PROVE  c.form \notin {"pct", "free", "phone"}
  <1>1. c.form = "pct" => iter_money_tokens(c) = Tokens("percent", {percent_value(c)})
    BY DEF iter_money_tokens
  <1>2. c.form = "free" => iter_money_tokens(c) = Tokens("free_claim", {0})
    BY DEF iter_money_tokens
  <1>3. c.form = "phone" => iter_money_tokens(c) = {}
    BY DEF iter_money_tokens
  <1>. QED
    BY <1>1, <1>2, <1>3 DEF Tokens

\* A text is about finitely many courses of the catalog.
LEMMA ResolvedIsFinite ==
    ASSUME IsACatalog(kb.courses), NEW text
    PROVE  IsFiniteSet(Resolved(text).named) /\ Resolved(text).named \subseteq DOMAIN kb.courses
  <1>1. /\ Kept(text) \subseteq DOMAIN kb.courses
        /\ Guessed(text) \subseteq DOMAIN kb.courses
    BY Zenon, KeptIs, CalledIsCertain DEF Guessed, fuzzy
  <1>2. \/ Resolved(text) = [named |-> Kept(text), ambiguous |-> FALSE]
        \/ Resolved(text) =
              [named |-> IF Cardinality(Guessed(text)) = 1 THEN Guessed(text) ELSE {},
               ambiguous |-> Cardinality(Guessed(text)) > 1]
    BY Zenon DEF Resolved, resolve_named, Kept, Certain, Guessed
  <1>3. \/ Resolved(text).named = Kept(text)
        \/ Resolved(text).named = Guessed(text)
        \/ Resolved(text).named = {}
    BY <1>2
  <1>4. Resolved(text).named \in SUBSET DOMAIN kb.courses
    BY Zenon, <1>1, <1>3
  <1>. QED
    BY <1>4, FS_Subset DEF IsACatalog

\* A sentence that names no course is about the one the reply is about.
Inherits(segment, context) ==
    /\ Resolved(<<segment>>).named = {}
    /\ Cardinality(context.named) = 1 /\ ~context.ambiguous

Bound(segment, context) ==
    IF Inherits(segment, context) THEN context.named ELSE Resolved(<<segment>>).named

\* check_segment in these words.
LEMMA SegmentIs ==
    ASSUME NEW segment, NEW context
    PROVE  LET named == Bound(segment, context)
               facts == kb.courses[CHOOSE d \in named : TRUE].facts
           IN  check_segment(kb.courses, segment, context) =
                  CASE named = {} ->
                         IF ~has_money(segment) THEN {}
                         ELSE IF Resolved(<<segment>>).ambiguous \/ context.ambiguous
                              THEN {"ambiguous"} ELSE {"no_course"}
                    [] Cardinality(named) > 1 ->
                         IF has_money(segment) THEN {"ambiguous"} ELSE {}
                    [] Cardinality(named) = 1 ->
                         check_money(segment, facts)
                         \cup IF Inherits(segment, context) THEN {}
                              ELSE check_schedule(segment, facts)
  BY Zenon DEF check_segment, Bound, Inherits, Resolved

\* A sentence bound to one course is checked against the cells of that course.
LEMMA CheckedAgainst ==
    ASSUME NEW segment, NEW context, NEW c, Bound(segment, context) = {c}
    PROVE  check_segment(kb.courses, segment, context) =
              check_money(segment, kb.courses[c].facts)
              \cup IF Inherits(segment, context) THEN {}
                   ELSE check_schedule(segment, kb.courses[c].facts)
  <1>1. Cardinality({c}) = 1 /\ ~(Cardinality({c}) > 1) /\ {c} # {}
    BY FS_Singleton
  <1>2. (CHOOSE d \in {c} : TRUE) = c
    OBVIOUS
  <1>. QED
    BY Zenon, <1>1, <1>2, SegmentIs

\* Bound to none or to several, it passes if it states no amount.
LEMMA CheckedAlone ==
    ASSUME NEW segment, NEW context,
           IsFiniteSet(Bound(segment, context)),
           \A c : Bound(segment, context) # {c}
    PROVE  (check_segment(kb.courses, segment, context) = {}) <=> ~has_money(segment)
  <1>. DEFINE named == Bound(segment, context)
  <1>1. CASE named = {}
    <2>1. ~(Cardinality({}) > 1) /\ Cardinality({}) # 1
      BY FS_EmptySet
    <2>. QED
      BY Zenon, <1>1, <2>1, SegmentIs
  <1>2. CASE named # {}
    <2>. HIDE DEF named
    <2>1. Cardinality(named) \in Nat /\ Cardinality(named) # 0 /\ Cardinality(named) # 1
      BY <1>2, FS_CardinalityType, FS_EmptySet, FS_Singleton DEF named
    <2>2. Cardinality(named) > 1
      BY <2>1
    <2>. QED
      BY Zenon, <1>2, <2>1, <2>2, SegmentIs DEF named
  <1>. QED
    BY <1>1, <1>2

\* A price that passes check_money stands in the cells, as it was meant.
LEMMA PricesCheck ==
    ASSUME NEW segment, WellSaid(segment), NEW facts, WellSaid(facts),
           check_money(segment, facts) = {}, \A f \in facts.money : ~Misread(f),
           NEW p \in Priced(segment.money), ~Misread(p)
    PROVE  \E f \in Priced(facts.money) : Meant(f) = Meant(p)
  <1>. DEFINE t == [kind |-> "money", value |-> Meant(p)]
  <1>1. p \in segment.money /\ p.form \notin {"pct", "free", "phone"} /\ WellWritten(p)
    BY Zenon DEF Priced, WellSaid
  <1>2. t \in MoneyTokens(segment.money)
    <2>1. t \in iter_money_tokens(p)
      BY Zenon, <1>1, TokenOfPrice
    <2>. QED
      BY Zenon, <1>1, <2>1 DEF MoneyTokens
  <1>3. t \in MoneyTokens(facts.money)
    BY Zenon, <1>2 DEF check_money
  <1>4. PICK f \in facts.money : t \in iter_money_tokens(f)
    BY Zenon, <1>3 DEF MoneyTokens
  <1>5. WellWritten(f) /\ ~Misread(f)
    BY Zenon, <1>4 DEF WellSaid
  <1>6. f.form \notin {"pct", "free", "phone"}
    BY Zenon, <1>4, <1>5, MoneyIsPriced
  <1>7. t \in {[kind |-> "money", value |-> Meant(f)]}
    BY Zenon, <1>4, <1>5, <1>6, TokenOfPrice
  <1>8. Meant(f) = Meant(p)
    BY <1>7
  <1>. QED
    BY Zenon, <1>6, <1>8 DEF Priced

\* A sentence with a price has money.
LEMMA PricesAreMoney ==
    ASSUME NEW segment, WellSaid(segment), NEW p \in Priced(segment.money), ~Misread(p)
    PROVE  has_money(segment)
  <1>. DEFINE t == [kind |-> "money", value |-> Meant(p)]
  <1>1. p \in segment.money /\ p.form \notin {"pct", "free", "phone"} /\ WellWritten(p)
    BY Zenon DEF Priced, WellSaid
  <1>2. t \in iter_money_tokens(p) /\ t.kind = "money"
    BY <1>1, TokenOfPrice
  <1>3. t \in MoneyTokens(segment.money)
    BY Zenon, <1>1, <1>2 DEF MoneyTokens
  <1>. QED
    BY <1>2, <1>3 DEF has_money

\* A sentence is a text of its own.
LEMMA OneSentenceIsADraft ==
    ASSUME NEW text, IsADraft(text), NEW s \in DOMAIN text
    PROVE  IsADraft(<<text[s]>>)
  <1>1. DOMAIN <<text[s]>> = {1} /\ <<text[s]>>[1] = text[s]
    OBVIOUS
  <1>2. text[s] \in ToSet(<<text[s]>>)
    BY Zenon, <1>1 DEF ToSet
  <1>3. <<text[s]>> \in Seq(ToSet(<<text[s]>>))
    BY <1>2
  <1>4. IsASequence(text[s].words) /\ WellSaid(text[s])
    BY Zenon DEF IsADraft
  <1>. QED
    BY Zenon, <1>1, <1>3, <1>4 DEF IsADraft, IsASequence

\* The sentence is bound to the course a reader takes it to be about, or, when
\* it paraphrases several, to the one that another sentence mentions.
LEMMA SentenceIsBound ==
    ASSUME IsACatalog(kb.courses), IsADraft(draft), NEW s \in DOMAIN draft,
           Forgotten(<<draft[s]>>) = {}, Forgotten(draft) = {},
           ~Borrows(<<draft[s]>>), ~Borrows(draft),
           NEW c, Bound(draft[s], Resolved(draft)) = {c}
    PROVE  \/ About(s) = {c}
           \/ Cardinality(About(s)) > 1 /\ Mentioned(<<draft[s]>>) = {} /\ Mentioned(draft) = {c}
  <1>. DEFINE own == <<draft[s]>>
  <1>1. IsADraft(own) /\ Called(own) = Mentioned(own) /\ Called(draft) = Mentioned(draft)
    BY OneSentenceIsADraft DEF Borrows
  <1>2. About(s) = IF Mentioned(own) # {} THEN Mentioned(own)
                   ELSE IF Guessed(own) # {} THEN Guessed(own)
                   ELSE IF Mentioned(draft) # {} THEN Mentioned(draft) ELSE Guessed(draft)
    BY Zenon DEF About, Guessed
  <1>3. /\ Mentioned(own) # {} => Resolved(own).named = Mentioned(own)
        /\ Mentioned(own) = {} =>
              Resolved(own).named = IF Cardinality(Guessed(own)) = 1 THEN Guessed(own) ELSE {}
    <2>1. /\ Mentioned(own) # {} =>
                Resolved(own) = [named |-> Mentioned(own), ambiguous |-> FALSE]
          /\ Mentioned(own) = {} =>
                Resolved(own) =
                   [named |-> IF Cardinality(Guessed(own)) = 1 THEN Guessed(own) ELSE {},
                    ambiguous |-> Cardinality(Guessed(own)) > 1]
      BY Zenon, <1>1, ResolvedIs
    <2>. QED
      BY <2>1
  <1>4. /\ Mentioned(draft) # {} => Resolved(draft).named = Mentioned(draft)
        /\ Mentioned(draft) = {} =>
              Resolved(draft).named = IF Cardinality(Guessed(draft)) = 1
                                      THEN Guessed(draft) ELSE {}
    <2>1. /\ Mentioned(draft) # {} =>
                Resolved(draft) = [named |-> Mentioned(draft), ambiguous |-> FALSE]
          /\ Mentioned(draft) = {} =>
                Resolved(draft) =
                   [named |-> IF Cardinality(Guessed(draft)) = 1 THEN Guessed(draft) ELSE {},
                    ambiguous |-> Cardinality(Guessed(draft)) > 1]
      BY Zenon, <1>1, ResolvedIs
    <2>. QED
      BY <2>1
  <1>5. CASE ~Inherits(draft[s], Resolved(draft))
    <2>1. Resolved(own).named = {c}
      BY Zenon, <1>5 DEF Bound
    <2>. QED
      BY Zenon, <1>2, <1>3, <2>1
  <1>6. CASE Inherits(draft[s], Resolved(draft))
    <2>1. Resolved(own).named = {} /\ Resolved(draft).named = {c}
      BY Zenon, <1>6 DEF Bound, Inherits
    <2>2. Mentioned(own) = {} /\ Cardinality(Guessed(own)) # 1
      BY Zenon, <1>3, <2>1, FS_EmptySet, FS_Singleton
    <2>3. CASE Guessed(own) = {}
      BY Zenon, <1>2, <1>4, <2>1, <2>2, <2>3
    <2>4. CASE Guessed(own) # {}
      <3>1. Cardinality(Guessed(own)) > 1
        <4>1. Cardinality(Guessed(own)) # 0 /\ Cardinality(Guessed(own)) \in Nat
          BY Zenon, <2>4, GuessedIsFinite, FS_EmptySet
        <4>. QED
          BY <2>2, <4>1
      <3>2. About(s) = Guessed(own)
        BY Zenon, <1>2, <2>2, <2>4
      <3>3. Mentioned(draft) = {c}
        <4>1. CASE Mentioned(draft) # {}
          BY Zenon, <1>4, <2>1, <4>1
        <4>2. CASE Mentioned(draft) = {}
          <5>1. Guessed(draft) = {c}
            BY Zenon, <1>4, <2>1, <4>2
          <5>2. Guessed(own) = {c}
            <6>1. Guessed(own) \subseteq Guessed(draft)
              BY GuessedGrows
            <6>. QED
              BY <2>4, <5>1, <6>1
          <5>. QED
            BY Zenon, <2>2, <5>2, FS_Singleton
        <4>. QED
          BY <4>1, <4>2
      <3>. QED
        BY Zenon, <2>2, <3>1, <3>2, <3>3
    <2>. QED
      BY <2>3, <2>4
  <1>. QED
    BY <1>5, <1>6

-----------------------------------------------------------------------------
(* What the guard approves *)

\* kb holds a catalog, and a verdict is that of the draft it stands by.
GuardInv ==
    /\ IsACatalog(kb.courses)
    /\ ~synced => draft = <<>>
    /\ draft # <<>> => IsADraft(draft) /\ verdict = evaluate_draft(kb.courses, draft)

\* No sentence of an approved draft failed its check.
LEMMA ApprovedIsChecked ==
    ASSUME GuardInv, Approved, NEW s \in DOMAIN draft
    PROVE  check_segment(kb.courses, draft[s], Resolved(draft)) = {}
  <1>1. verdict = evaluate_draft(kb.courses, draft) /\ verdict.violations = {}
    BY Zenon DEF Approved, GuardInv
  <1>2. check_segment(kb.courses, draft[s], Resolved(draft))
           \subseteq evaluate_draft(kb.courses, draft).violations
    BY DEF evaluate_draft, Resolved
  <1>. QED
    BY <1>1, <1>2

\* A sentence is bound to finitely many courses of the catalog.
LEMMA BoundIsFinite ==
    ASSUME IsACatalog(kb.courses), NEW segment, NEW text
    PROVE  /\ IsFiniteSet(Bound(segment, Resolved(text)))
           /\ Bound(segment, Resolved(text)) \subseteq DOMAIN kb.courses
  BY Zenon, ResolvedIsFinite DEF Bound

\* The prices of an approved draft, sentence by sentence.
LEMMA PricesAreOfTheCourse ==
    ASSUME GuardInv
    PROVE  QuotesTheNamedCourse
  <1>1. SUFFICES ASSUME Approved, NEW s \in DOMAIN draft, Priced(draft[s].money) # {},
                        \A p \in Priced(draft[s].money) : ~Misread(p),
                        Forgotten(<<draft[s]>>) = {}, Forgotten(draft) = {},
                        ~Borrows(<<draft[s]>>), ~Borrows(draft)
                 PROVE  \E c \in DOMAIN kb.courses :
                          LET facts == kb.courses[c].facts.money
                          IN  /\ \/ About(s) = {c}
                                 \/ Cardinality(About(s)) > 1 /\ Mentioned(<<draft[s]>>) = {}
                                    /\ Mentioned(draft) = {c}
                              /\ \/ \E f \in facts : Misread(f)
                                 \/ {Meant(p) : p \in Priced(draft[s].money)}
                                       \subseteq {Meant(f) : f \in Priced(facts)}
    BY Zenon DEF QuotesTheNamedCourse
  <1>. DEFINE bound == Bound(draft[s], Resolved(draft))
  <1>2. check_segment(kb.courses, draft[s], Resolved(draft)) = {}
    BY Zenon, <1>1, ApprovedIsChecked
  <1>3. /\ IsACatalog(kb.courses) /\ IsADraft(draft) /\ WellSaid(draft[s])
    BY Zenon, <1>1 DEF GuardInv, Approved, IsADraft
  <1>4. has_money(draft[s])
    BY Zenon, <1>1, <1>3, PricesAreMoney
  <1>5. PICK c : bound = {c}
    BY Zenon, <1>2, <1>3, <1>4, BoundIsFinite, CheckedAlone
  <1>6. c \in DOMAIN kb.courses
    BY Zenon, <1>3, <1>5, BoundIsFinite
  <1>7. /\ WellSaid(kb.courses[c].facts)
        /\ check_money(draft[s], kb.courses[c].facts) = {}
    <2>1. WellSaid(kb.courses[c].facts)
      BY Zenon, <1>3, <1>6 DEF IsACatalog
    <2>2. check_money(draft[s], kb.courses[c].facts)
             \subseteq check_segment(kb.courses, draft[s], Resolved(draft))
      <3>. DEFINE dated == IF Inherits(draft[s], Resolved(draft)) THEN {}
                           ELSE check_schedule(draft[s], kb.courses[c].facts)
      <3>1. check_segment(kb.courses, draft[s], Resolved(draft)) =
               check_money(draft[s], kb.courses[c].facts) \cup dated
        BY <1>5, CheckedAgainst
      <3>. HIDE DEF dated
      <3>. QED
        BY <3>1
    <2>. QED
      BY Zenon, <1>2, <2>1, <2>2
  <1>8. \/ About(s) = {c}
        \/ Cardinality(About(s)) > 1 /\ Mentioned(<<draft[s]>>) = {} /\ Mentioned(draft) = {c}
    BY Zenon, <1>1, <1>3, <1>5, SentenceIsBound
  <1>9. (\A f \in kb.courses[c].facts.money : ~Misread(f)) =>
           {Meant(p) : p \in Priced(draft[s].money)}
              \subseteq {Meant(f) : f \in Priced(kb.courses[c].facts.money)}
    <2>1. ASSUME \A f \in kb.courses[c].facts.money : ~Misread(f),
                 NEW p \in Priced(draft[s].money)
          PROVE  \E f \in Priced(kb.courses[c].facts.money) : Meant(f) = Meant(p)
      BY Zenon, <1>1, <1>3, <1>7, <2>1, PricesCheck
    <2>. QED
      BY Zenon, <2>1
  <1>. QED
    BY Zenon, <1>6, <1>8, <1>9

-----------------------------------------------------------------------------
(* What the guard lets pass *)

\* What a sentence says that repeats a cell.
Repeats(segment, facts) ==
    /\ Priced(segment.money) = segment.money
    /\ \A p \in segment.money :
          /\ ~Misread(p)
          /\ \E f \in Priced(facts.money) : ~Misread(f) /\ Meant(f) = Meant(p)
    /\ segment.dates \subseteq facts.dates \cup {[d EXCEPT !.year = 0] : d \in facts.dates}
    /\ segment.offers \subseteq facts.offers

Calls(segment, c) ==
    Called(<<segment>>) = {c} /\ Own(c, <<segment>>) # {}

Silent(segment) ==
    segment.money = {} /\ segment.dates = {} /\ segment.offers = {}

\* Without an amount there is no token.
LEMMA SilentHasNoMoney ==
    ASSUME NEW segment, segment.money = {}
    PROVE  MoneyTokens(segment.money) = {} /\ ~has_money(segment)
  BY DEF MoneyTokens, has_money

\* Amounts that repeat a cell pass check_money, in any form not misread.
LEMMA RepeatedMoneyPasses ==
    ASSUME NEW segment, WellSaid(segment), NEW facts, WellSaid(facts),
           Repeats(segment, facts)
    PROVE  check_money(segment, facts) = {}
  <1>1. ASSUME NEW t \in MoneyTokens(segment.money)
        PROVE  t \in MoneyTokens(facts.money)
    <2>1. PICK p \in segment.money : t \in iter_money_tokens(p)
      BY Zenon DEF MoneyTokens
    <2>2. /\ WellWritten(p) /\ ~Misread(p) /\ p.form \notin {"pct", "free", "phone"}
      BY Zenon DEF Repeats, Priced, WellSaid
    <2>3. PICK f \in Priced(facts.money) : ~Misread(f) /\ Meant(f) = Meant(p)
      BY Zenon DEF Repeats
    <2>4. /\ f \in facts.money /\ WellWritten(f) /\ f.form \notin {"pct", "free", "phone"}
      BY Zenon DEF Priced, WellSaid
    <2>5. t \in {[kind |-> "money", value |-> Meant(p)]}
      BY Zenon, <2>1, <2>2, TokenOfPrice
    <2>6. t \in iter_money_tokens(f)
      BY Zenon, <2>3, <2>4, <2>5, TokenOfPrice
    <2>. QED
      BY Zenon, <2>4, <2>6 DEF MoneyTokens
  <1>2. MoneyTokens(segment.money) \ MoneyTokens(facts.money) = {}
    BY <1>1
  <1>. QED
    BY <1>2 DEF check_money

\* A date stands for itself, with its year or without.
LEMMA DateStands ==
    ASSUME NEW e, WellDated(e), NEW d \in {e, [e EXCEPT !.year = 0]},
           NEW t \in iter_date_tokens(d)
    PROVE  token_allowed(t, iter_date_tokens(e))
  <1>1. CASE d = e
    <2>1. t \in iter_date_tokens(e)
      BY <1>1
    <2>. QED
      BY <2>1 DEF token_allowed
  <1>2. CASE d # e
    <2>1. d = [e EXCEPT !.year = 0]
      BY <1>2
    <2>2. e.kind = "date"
      <3>1. e \in [kind : {"date", "time"}, day : Nat, month : Nat, year : Nat,
                   hour : Nat, minute : Nat \cup {-1}]
        BY DEF WellDated
      <3>2. e.kind = "time" => e.year = 0
        BY DEF WellDated
      <3>3. e.kind = "time" => [e EXCEPT !.year = 0] = e
        BY <3>1, <3>2
      <3>. QED
        BY <1>2, <2>1, <3>1, <3>3
    <2>3. /\ d.kind = "date" /\ d.day = e.day /\ d.month = e.month /\ d.year = 0
          /\ d = [kind |-> "date", day |-> e.day, month |-> e.month, year |-> 0,
                  hour |-> e.hour, minute |-> e.minute]
          /\ e = [kind |-> "date", day |-> e.day, month |-> e.month, year |-> e.year,
                  hour |-> e.hour, minute |-> e.minute]
      BY <2>1, <2>2 DEF WellDated
    <2>4. /\ e.day \in 1..31 /\ e.month \in 0..12
          /\ t = [d EXCEPT !.year = normalize_year(@)]
      BY <2>3 DEF iter_date_tokens
    <2>5. iter_date_tokens(e) = {[e EXCEPT !.year = normalize_year(@)]}
      BY <2>2, <2>4 DEF iter_date_tokens
    <2>6. normalize_year(0) = 0
      BY DEF normalize_year
    <2>7. t.kind = "date" /\ t.day = e.day /\ t.month = e.month /\ t.year = 0
      BY <2>3, <2>4, <2>6
    <2>. DEFINE o == [e EXCEPT !.year = normalize_year(@)]
    <2>8. o.kind = "date" /\ o.day = e.day /\ o.month = e.month
      BY <2>3
    <2>. HIDE DEF o
    <2>9. o \in iter_date_tokens(e)
      BY <2>5 DEF o
    <2>. QED
      BY <2>7, <2>8, <2>9 DEF token_allowed
  <1>. QED
    BY <1>1, <1>2

\* Dates that repeat a cell pass check_schedule.
LEMMA RepeatedDatesPass ==
    ASSUME NEW segment, NEW facts, WellSaid(facts), Repeats(segment, facts)
    PROVE  check_schedule(segment, facts) = {}
  <1>1. ASSUME NEW t \in DateTokens(segment.dates)
        PROVE  token_allowed(t, DateTokens(facts.dates))
    <2>1. PICK d \in segment.dates : t \in iter_date_tokens(d)
      BY Zenon DEF DateTokens
    <2>2. PICK e \in facts.dates : d \in {e, [e EXCEPT !.year = 0]}
      <3>1. d \in facts.dates \cup {[x EXCEPT !.year = 0] : x \in facts.dates}
        BY Zenon DEF Repeats
      <3>. QED
        BY <3>1
    <2>3. WellDated(e)
      BY Zenon DEF WellSaid
    <2>4. \A o \in iter_date_tokens(e) : o \in DateTokens(facts.dates)
      BY Zenon DEF DateTokens
    <2>5. token_allowed(t, iter_date_tokens(e))
      BY Zenon, <2>1, <2>2, <2>3, DateStands
    <2>. QED
      BY Zenon, <2>4, <2>5 DEF token_allowed
  <1>. QED
    BY Zenon, <1>1 DEF check_schedule

\* A sentence that calls one course by its name holds that name, and no other
\* around it.
LEMMA CalledOnTop ==
    ASSUME IsACatalog(kb.courses), NEW segment, IsADraft(<<segment>>), NEW c, Calls(segment, c)
    PROVE  c \in DOMAIN kb.courses /\ \E o \in Own(c, <<segment>>) : Top(o, <<segment>>)
  <1>1. c \in DOMAIN kb.courses
    BY Zenon, CalledIsCertain DEF Calls
  <1>2. PICK s : s \in Own(c, <<segment>>)
    BY Zenon DEF Calls
  <1>3. PICK d \in DOMAIN kb.courses :
           \E o \in Own(d, <<segment>>) : (o = s \/ Within(s, o)) /\ Top(o, <<segment>>)
    BY Zenon, <1>1, <1>2, LongestSpan
  <1>4. d \in Called(<<segment>>)
    BY Zenon, <1>3, CalledIsCertain
  <1>5. d = c
    BY <1>4 DEF Calls
  <1>. QED
    BY Zenon, <1>1, <1>3, <1>5

\* With a hit, resolve_named returns what drop_shadowed leaves.
LEMMA CertainResolves ==
    ASSUME NEW text, Certain(text) # {}
    PROVE  Resolved(text).named = Kept(text) /\ ~Resolved(text).ambiguous
  <1>1. Resolved(text) = [named |-> Kept(text), ambiguous |-> FALSE]
    BY Zenon DEF Resolved, resolve_named, Kept, Certain
  <1>. QED
    BY <1>1

\* A sentence is bound to the one course it calls by its name.
LEMMA CalledIsBound ==
    ASSUME IsACatalog(kb.courses), NEW segment, IsADraft(<<segment>>), NEW c, Calls(segment, c),
           NEW context
    PROVE  Bound(segment, context) = {c}
  <1>1. c \in Kept(<<segment>>)
    BY Zenon, CalledOnTop, TopIsKept
  <1>2. Kept(<<segment>>) \subseteq {c}
    BY Zenon, KeptIsCalled DEF Calls
  <1>3. Certain(<<segment>>) # {}
    BY Zenon, <1>1, KeptIs
  <1>4. Resolved(<<segment>>).named = {c}
    <2>1. Resolved(<<segment>>).named = Kept(<<segment>>)
      BY Zenon, <1>3, CertainResolves
    <2>. QED
      BY <1>1, <1>2, <2>1
  <1>5. {c} # {}
    OBVIOUS
  <1>. QED
    BY Zenon, <1>4, <1>5 DEF Bound, Inherits

\* The reply as a whole is about every course that a sentence calls.
LEMMA CalledInTheReply ==
    ASSUME IsACatalog(kb.courses), NEW text, IsADraft(text), NEW s \in DOMAIN text,
           NEW c, Calls(text[s], c)
    PROVE  c \in Resolved(text).named
  <1>1. PICK o \in Own(c, <<text[s]>>) : Top(o, <<text[s]>>)
    BY Zenon, OneSentenceIsADraft, CalledOnTop
  <1>2. c \in DOMAIN kb.courses
    BY Zenon, OneSentenceIsADraft, CalledOnTop
  <1>3. PICK i, a, b : o = <<i, a, b>>
    BY SMT, <1>1 DEF Own, spans
  <1>4. i = 1
    <2>1. i \in DOMAIN <<text[s]>>
      BY Zenon, <1>1, <1>3, SpanIs DEF Own
    <2>. QED
      BY <2>1
  <1>5. <<s, a, b>> \in Own(c, text)
    BY Zenon, <1>1, <1>3, <1>4, SpanInSentence DEF Own
  <1>6. Top(<<s, a, b>>, text)
    <2>1. SUFFICES ASSUME NEW d \in DOMAIN kb.courses, NEW u \in Own(d, text),
                          Within(<<s, a, b>>, u)
                   PROVE  FALSE
      BY DEF Top
    <2>2. PICK j, x, y : u = <<j, x, y>>
      BY SMT, <2>1 DEF Own, spans
    <2>3. j = s /\ x <= a /\ b <= y /\ <<s, a, b>> # u
      BY <2>1, <2>2 DEF Within
    <2>4. <<1, x, y>> \in Own(d, <<text[s]>>)
      BY Zenon, <2>1, <2>2, <2>3, SpanInSentence DEF Own
    <2>5. Within(<<1, a, b>>, <<1, x, y>>)
      BY <2>2, <2>3 DEF Within
    <2>. QED
      BY Zenon, <1>1, <1>3, <1>4, <2>4, <2>5 DEF Top
  <1>7. c \in Kept(text)
    BY Zenon, <1>2, <1>5, <1>6, TopIsKept
  <1>. QED
    BY Zenon, <1>7, KeptIs, CertainResolves

\* Every check of a draft that repeats the cells of what it calls is passed.
LEMMA HonestyPasses ==
    ASSUME GuardInv
    PROVE  HonestReplyPasses
  <1>1. SUFFICES ASSUME draft # <<>>,
                        \A s \in DOMAIN draft :
                           \/ Silent(draft[s])
                           \/ \E c \in DOMAIN kb.courses :
                                 Calls(draft[s], c) /\ Repeats(draft[s], kb.courses[c].facts)
                 PROVE  verdict.violations = {}
    BY Zenon DEF HonestReplyPasses, Silent, Calls, Repeats, Own, Borrows
  <1>. DEFINE context == Resolved(draft)
  <1>2. /\ IsACatalog(kb.courses) /\ IsADraft(draft)
        /\ verdict = evaluate_draft(kb.courses, draft)
    BY Zenon, <1>1 DEF GuardInv
  <1>3. ASSUME NEW s \in DOMAIN draft
        PROVE  check_segment(kb.courses, draft[s], context) = {}
    <2>1. CASE Silent(draft[s])
      <3>1. CASE \E c : Bound(draft[s], context) = {c}
        <4>1. PICK c : Bound(draft[s], context) = {c}
          BY <3>1
        <4>2. check_money(draft[s], kb.courses[c].facts) = {}
          <5>1. MoneyTokens(draft[s].money) = {}
            BY Zenon, <2>1, SilentHasNoMoney DEF Silent
          <5>. QED
            BY <5>1 DEF check_money
        <4>3. check_schedule(draft[s], kb.courses[c].facts) = {}
          <5>1. DateTokens(draft[s].dates) = {}
            BY <2>1 DEF Silent, DateTokens
          <5>. QED
            BY Zenon, <5>1 DEF check_schedule
        <4>4. {} \cup {} = {}
          OBVIOUS
        <4>. QED
          BY Zenon, <4>1, <4>2, <4>3, <4>4, CheckedAgainst
      <3>2. CASE \A c : Bound(draft[s], context) # {c}
        <4>1. ~has_money(draft[s])
          BY Zenon, <2>1, SilentHasNoMoney DEF Silent
        <4>2. IsFiniteSet(Bound(draft[s], context))
          BY Zenon, <1>2, BoundIsFinite
        <4>. HIDE DEF context
        <4>. QED
          BY Zenon, <3>2, <4>1, <4>2, CheckedAlone
      <3>. QED
        BY Zenon, <3>1, <3>2
    <2>2. ASSUME NEW c \in DOMAIN kb.courses, Calls(draft[s], c),
                 Repeats(draft[s], kb.courses[c].facts)
          PROVE  check_segment(kb.courses, draft[s], context) = {}
      <3>1. /\ WellSaid(draft[s]) /\ WellSaid(kb.courses[c].facts)
        BY Zenon, <1>2 DEF IsADraft, IsACatalog
      <3>2. Bound(draft[s], context) = {c}
        BY Zenon, <1>2, <2>2, OneSentenceIsADraft, CalledIsBound
      <3>3. /\ check_money(draft[s], kb.courses[c].facts) = {}
            /\ check_schedule(draft[s], kb.courses[c].facts) = {}
        BY Zenon, <2>2, <3>1, RepeatedMoneyPasses, RepeatedDatesPass
      <3>4. {} \cup {} = {}
        OBVIOUS
      <3>. QED
        BY Zenon, <3>2, <3>3, <3>4, CheckedAgainst
    <2>. QED
      BY Zenon, <1>1, <2>1, <2>2
  <1>4. ASSUME NEW s \in DOMAIN draft, NEW o \in draft[s].offers
        PROVE  o \in UNION {f.offers : f \in {kb.courses[c].facts : c \in context.named}}
    <2>1. ~Silent(draft[s])
      BY <1>4 DEF Silent
    <2>2. PICK c \in DOMAIN kb.courses :
             Calls(draft[s], c) /\ Repeats(draft[s], kb.courses[c].facts)
      BY Zenon, <1>1, <2>1
    <2>3. c \in context.named
      BY Zenon, <1>2, <2>2, CalledInTheReply
    <2>4. o \in kb.courses[c].facts.offers
      BY <1>4, <2>2 DEF Repeats
    <2>. QED
      BY Zenon, <2>3, <2>4
  <1>5. check_concession(draft, {kb.courses[c].facts : c \in context.named}) = {}
    <2>1. UNION {draft[s].offers : s \in DOMAIN draft}
             \subseteq UNION {f.offers : f \in {kb.courses[c].facts : c \in context.named}}
      BY Zenon, <1>4
    <2>. QED
      BY Zenon, <2>1 DEF check_concession
  <1>6. UNION {check_segment(kb.courses, draft[s], context) : s \in DOMAIN draft} = {}
    BY <1>3
  <1>7. evaluate_draft(kb.courses, draft).violations =
           UNION {check_segment(kb.courses, draft[s], context) : s \in DOMAIN draft}
           \cup check_concession(draft, {kb.courses[c].facts : c \in context.named})
    BY DEF evaluate_draft, Resolved
  <1>8. {} \cup {} = {}
    OBVIOUS
  <1>. QED
    BY Zenon, <1>2, <1>5, <1>6, <1>7, <1>8

-----------------------------------------------------------------------------
(* The rows of a tab, one after the other *)

Positioned(rows) == [i \in DOMAIN rows |-> i]

CoursesWalk(rows, f) ==
    f = [s \in SUBSET DOMAIN Positioned(rows) |->
           IF s = {} THEN Empty
           ELSE parse_course(f[s \ {Max(s)}], Positioned(rows)[Max(s)],
                             rows[Positioned(rows)[Max(s)]])]

CenterWalk(rows, parsed, f) ==
    f = [s \in SUBSET DOMAIN Positioned(rows) |->
           IF s = {} THEN parsed
           ELSE parse_center_row(f[s \ {Max(s)}], Positioned(rows)[Max(s)],
                                 rows[Positioned(rows)[Max(s)]])]

FaqWalk(rows, parsed, f) ==
    f = [s \in SUBSET DOMAIN Positioned(rows) |->
           IF s = {} THEN parsed
           ELSE parse_faq_row(f[s \ {Max(s)}], Positioned(rows)[Max(s)],
                              rows[Positioned(rows)[Max(s)]])]

\* What parse_center_faq makes of the rows of either tab.
CenterOf(rows, parsed) == (CHOOSE f : CenterWalk(rows, parsed, f))[DOMAIN Positioned(rows)]
FaqOf(rows, parsed) == (CHOOSE f : FaqWalk(rows, parsed, f))[DOMAIN Positioned(rows)]

\* Parse in the words of CenterOf and FaqOf.
LEMMA ParseIs ==
    ASSUME NEW tabs
    PROVE  LET courses == parse_courses(tabs.courses)
               center == IF tabs.center # <<>> /\ tabs.center_lacks
                         THEN Alert(courses, "Center", 0)
                         ELSE CenterOf(tabs.center, courses)
               faq == IF tabs.faq # <<>> /\ tabs.faq_lacks
                      THEN Alert(center, "FAQ", 0)
                      ELSE FaqOf(tabs.faq, center)
           IN  Parse(tabs) = warn_missing_topics(faq)
  BY Zenon DEF Parse, parse_center_faq, FoldLeftDomain, FoldLeft, MapThenFoldSet,
               CenterOf, FaqOf, CenterWalk, FaqWalk, Positioned

\* parse_courses is the fold over the rows.
LEMMA CoursesWalkIs ==
    ASSUME NEW rows
    PROVE  parse_courses(rows) = (CHOOSE f : CoursesWalk(rows, f))[DOMAIN Positioned(rows)]
  BY Zenon DEF parse_courses, FoldLeftDomain, FoldLeft, MapThenFoldSet, CoursesWalk, Positioned

\* The positions of a sequence, as FoldLeftDomain counts them.
LEMMA PositionedIs ==
    ASSUME NEW rows, IsASequence(rows)
    PROVE  /\ Len(rows) \in Nat
           /\ DOMAIN rows = 1..Len(rows)
           /\ DOMAIN Positioned(rows) = 1..Len(rows)
           /\ \A s \in SUBSET (1..Len(rows)) : s # {} => Positioned(rows)[Max(s)] = Max(s)
  <1>1. Len(rows) \in Nat /\ DOMAIN rows = 1..Len(rows)
    <2>1. rows \in Seq(ToSet(rows))
      BY Zenon DEF IsASequence
    <2>. QED
      BY <2>1
  <1>2. DOMAIN Positioned(rows) = 1..Len(rows)
    BY Zenon, <1>1 DEF Positioned
  <1>3. ASSUME NEW s \in SUBSET (1..Len(rows)), s # {}
        PROVE  Positioned(rows)[Max(s)] = Max(s)
    <2>1. Max(s) \in 1..Len(rows)
      BY <1>1, <1>3, MaxIsGreatest
    <2>. QED
      BY Zenon, <1>1, <2>1 DEF Positioned
  <1>. QED
    BY <1>1, <1>2, <1>3

\* parse_courses handles the rows in their order.
LEMMA CoursesByRow ==
    ASSUME NEW rows, IsASequence(rows)
    PROVE  \E at : /\ RunsThrough(Fold("Courses", rows), Empty, Len(rows), at)
                   /\ at[Len(rows)] = parse_courses(rows)
  <1>. DEFINE n == Len(rows)
              fold == Fold("Courses", rows)
  <1>1. \A p, i : Apply(fold, p, i) = parse_course(p, i, rows[i])
    BY DEF Apply, Fold
  <1>2. /\ n \in Nat /\ DOMAIN Positioned(rows) = 1..n
        /\ \A s \in SUBSET (1..n) : s # {} => Positioned(rows)[Max(s)] = Max(s)
    BY Zenon, PositionedIs
  <1>. HIDE DEF n, fold
  <1>3. \A f : Folds(fold, Empty, 1..n, f) <=> CoursesWalk(rows, f)
    <2>1. \A f : \A s \in SUBSET (1..n) :
             (IF s = {} THEN Empty ELSE Apply(fold, f[s \ {Max(s)}], Max(s))) =
             (IF s = {} THEN Empty
              ELSE parse_course(f[s \ {Max(s)}], Positioned(rows)[Max(s)],
                                rows[Positioned(rows)[Max(s)]]))
      BY Zenon, <1>1, <1>2
    <2>. QED
      BY Zenon, <1>2, <2>1 DEF Folds, CoursesWalk
  <1>4. PICK f : f = (CHOOSE g : CoursesWalk(rows, g)) /\ CoursesWalk(rows, f)
    BY Zenon, <1>2, <1>3, FoldExists
  <1>5. parse_courses(rows) = f[1..n]
    BY Zenon, <1>2, <1>4, CoursesWalkIs
  <1>6. Folds(fold, Empty, 1..n, f)
    BY Zenon, <1>3, <1>4
  <1>7. \E at : RunsThrough(fold, Empty, n, at) /\ at[n] = f[1..n]
    BY <1>2, <1>6, FoldsByPrefix
  <1>. QED
    BY Zenon, <1>5, <1>7 DEF fold, n

\* So does parse_center_faq with the rows of the Center tab,
LEMMA CenterByRow ==
    ASSUME NEW rows, IsASequence(rows), NEW parsed
    PROVE  \E at : /\ RunsThrough(Fold("Center", rows), parsed, Len(rows), at)
                   /\ at[Len(rows)] = CenterOf(rows, parsed)
  <1>. DEFINE n == Len(rows)
              fold == Fold("Center", rows)
  <1>1. \A p, i : Apply(fold, p, i) = parse_center_row(p, i, rows[i])
    BY DEF Apply, Fold
  <1>2. /\ n \in Nat /\ DOMAIN Positioned(rows) = 1..n
        /\ \A s \in SUBSET (1..n) : s # {} => Positioned(rows)[Max(s)] = Max(s)
    BY Zenon, PositionedIs
  <1>. HIDE DEF n, fold
  <1>3. \A f : Folds(fold, parsed, 1..n, f) <=> CenterWalk(rows, parsed, f)
    <2>1. \A f : \A s \in SUBSET (1..n) :
             (IF s = {} THEN parsed ELSE Apply(fold, f[s \ {Max(s)}], Max(s))) =
             (IF s = {} THEN parsed
              ELSE parse_center_row(f[s \ {Max(s)}], Positioned(rows)[Max(s)],
                                    rows[Positioned(rows)[Max(s)]]))
      BY Zenon, <1>1, <1>2
    <2>. QED
      BY Zenon, <1>2, <2>1 DEF Folds, CenterWalk
  <1>4. PICK f : f = (CHOOSE g : CenterWalk(rows, parsed, g)) /\ CenterWalk(rows, parsed, f)
    BY Zenon, <1>2, <1>3, FoldExists
  <1>5. CenterOf(rows, parsed) = f[1..n]
    BY Zenon, <1>2, <1>4 DEF CenterOf
  <1>6. Folds(fold, parsed, 1..n, f)
    BY Zenon, <1>3, <1>4
  <1>7. \E at : RunsThrough(fold, parsed, n, at) /\ at[n] = f[1..n]
    BY <1>2, <1>6, FoldsByPrefix
  <1>. QED
    BY Zenon, <1>5, <1>7 DEF fold, n

\* and with the rows of the FAQ tab.
LEMMA FaqByRow ==
    ASSUME NEW rows, IsASequence(rows), NEW parsed
    PROVE  \E at : /\ RunsThrough(Fold("FAQ", rows), parsed, Len(rows), at)
                   /\ at[Len(rows)] = FaqOf(rows, parsed)
  <1>. DEFINE n == Len(rows)
              fold == Fold("FAQ", rows)
  <1>1. \A p, i : Apply(fold, p, i) = parse_faq_row(p, i, rows[i])
    BY DEF Apply, Fold
  <1>2. /\ n \in Nat /\ DOMAIN Positioned(rows) = 1..n
        /\ \A s \in SUBSET (1..n) : s # {} => Positioned(rows)[Max(s)] = Max(s)
    BY Zenon, PositionedIs
  <1>. HIDE DEF n, fold
  <1>3. \A f : Folds(fold, parsed, 1..n, f) <=> FaqWalk(rows, parsed, f)
    <2>1. \A f : \A s \in SUBSET (1..n) :
             (IF s = {} THEN parsed ELSE Apply(fold, f[s \ {Max(s)}], Max(s))) =
             (IF s = {} THEN parsed
              ELSE parse_faq_row(f[s \ {Max(s)}], Positioned(rows)[Max(s)],
                                 rows[Positioned(rows)[Max(s)]]))
      BY Zenon, <1>1, <1>2
    <2>. QED
      BY Zenon, <1>2, <2>1 DEF Folds, FaqWalk
  <1>4. PICK f : f = (CHOOSE g : FaqWalk(rows, parsed, g)) /\ FaqWalk(rows, parsed, f)
    BY Zenon, <1>2, <1>3, FoldExists
  <1>5. FaqOf(rows, parsed) = f[1..n]
    BY Zenon, <1>2, <1>4 DEF FaqOf
  <1>6. Folds(fold, parsed, 1..n, f)
    BY Zenon, <1>3, <1>4
  <1>7. \E at : RunsThrough(fold, parsed, n, at) /\ at[n] = f[1..n]
    BY <1>2, <1>6, FoldsByPrefix
  <1>. QED
    BY Zenon, <1>5, <1>7 DEF fold, n

-----------------------------------------------------------------------------
(* What one row does to what was parsed before it *)

IsParsed(p) ==
    p = [courses |-> p.courses, seen |-> p.seen, errors |-> p.errors,
         always |-> p.always, verbatim |-> p.verbatim, docs |-> p.docs]

\* An error is added to the list of errors, nothing else changes.
LEMMA AlertIs ==
    ASSUME NEW p, IsParsed(p), NEW tab, NEW i
    PROVE  Alert(p, tab, i) =
              [courses |-> p.courses, seen |-> p.seen, errors |-> p.errors \cup {<<tab, i>>},
               always |-> p.always, verbatim |-> p.verbatim, docs |-> p.docs]
  BY DEF Alert, IsParsed

Served(row, courses) ==
    \/ row.blank
    \/ /\ row.id \in DOMAIN courses
       /\ courses[row.id].ten_khoa = row.name
       /\ courses[row.id].facts = Says({cell(row, k) : k \in VerbatimFields})
       /\ {k \in VerbatimFields \cup ProseFields : ~cell(row, k).blank}
            \subseteq courses[row.id].block

\* A row with nothing dropped is published with all that its cells say.
LEMMA WholeCourse ==
    ASSUME NEW row, \A k \in VerbatimFields : IsACell(cell(row, k)), Dropped(row) = {}
    PROVE  /\ Course(row).facts = Says({cell(row, k) : k \in VerbatimFields})
           /\ {k \in VerbatimFields \cup ProseFields : ~cell(row, k).blank}
                 \subseteq Course(row).block
  <1>. DEFINE some == {cell(row, k) : k \in collect_verbatim(row)}
              all == {cell(row, k) : k \in VerbatimFields}
  <1>1. Course(row).facts = Says(some)
        /\ Course(row).block = collect_verbatim(row) \cup collect_prose(row)
    BY DEF Course
  <1>2. \A k \in VerbatimFields \cup ProseFields :
           ~cell(row, k).blank => k \in collect_verbatim(row) \cup collect_prose(row)
    BY Zenon DEF Dropped
  <1>3. ASSUME NEW k \in VerbatimFields, ~cell(row, k).blank
        PROVE  k \in collect_verbatim(row)
    <2>1. k \notin ProseFields
      BY DEF VerbatimFields, ProseFields
    <2>. QED
      BY Zenon, <1>2, <1>3, <2>1 DEF collect_prose
  <1>4. /\ some \subseteq all
        /\ \A c \in all : c \in some \/ (c.money = {} /\ c.dates = {} /\ c.offers = {})
    <2>1. collect_verbatim(row) \subseteq VerbatimFields
      BY Zenon DEF collect_verbatim
    <2>. QED
      BY Zenon, <1>3, <2>1 DEF IsACell
  <1>. HIDE DEF some, all
  <1>5. /\ UNION {c.money : c \in some} = UNION {c.money : c \in all}
        /\ UNION {c.dates : c \in some} = UNION {c.dates : c \in all}
        /\ UNION {c.offers : c \in some} = UNION {c.offers : c \in all}
    <2>1. UNION {c.money : c \in some} = UNION {c.money : c \in all}
      BY <1>4
    <2>2. UNION {c.dates : c \in some} = UNION {c.dates : c \in all}
      BY <1>4
    <2>3. UNION {c.offers : c \in some} = UNION {c.offers : c \in all}
      BY <1>4
    <2>. QED
      BY <2>1, <2>2, <2>3
  <1>6. Says(some) = Says(all)
    BY Zenon, <1>5 DEF Says
  <1>. QED
    BY Zenon, <1>1, <1>2, <1>6 DEF all

\* What is published of a course is well said.
LEMMA CourseIsWellSaid ==
    ASSUME NEW row, IsASequence(row.name), \A k \in VerbatimFields : IsACell(cell(row, k))
    PROVE  IsASequence(Course(row).ten_khoa) /\ WellSaid(Course(row).facts)
  <1>. DEFINE some == {cell(row, k) : k \in collect_verbatim(row)}
  <1>1. Course(row).ten_khoa = row.name /\ Course(row).facts = Says(some)
    BY DEF Course
  <1>2. \A c \in some : WellSaid(c)
    BY Zenon DEF collect_verbatim, IsACell
  <1>. HIDE DEF some
  <1>3. /\ Says(some).money = UNION {c.money : c \in some}
        /\ Says(some).dates = UNION {c.dates : c \in some}
    BY DEF Says
  <1>4. /\ \A m \in UNION {c.money : c \in some} : WellWritten(m)
        /\ \A d \in UNION {c.dates : c \in some} : WellDated(d)
    BY Zenon, <1>2 DEF WellSaid
  <1>. QED
    BY Zenon, <1>1, <1>3, <1>4 DEF WellSaid

\* A row of the Courses tab: nothing is taken back, an id is given once, and
\* the row is served or an error names it.
CourseStep(p, q, i, row) ==
    /\ IsParsed(q)
    /\ p.seen \subseteq q.seen /\ p.errors \subseteq q.errors
    /\ \/ q.courses = p.courses /\ (row.blank \/ <<"Courses", i>> \in q.errors)
       \/ /\ row.id \notin p.seen /\ row.id \in q.seen
          /\ q.courses = Put(p.courses, row.id, Course(row))
          /\ Dropped(row) = {} \/ <<"Courses", i>> \in q.errors

\* parse_course is such a step, whatever stands in the row.
LEMMA CourseRow ==
    ASSUME NEW p, IsParsed(p), NEW i, NEW row
    PROVE  CourseStep(p, parse_course(p, i, row), i, row)
  <1>. DEFINE q == parse_course(p, i, row)
              fresh == [p EXCEPT !.seen = @ \cup {row.id}]
              warned == IF Dropped(row) = {} THEN fresh ELSE Alert(fresh, "Courses", i)
  <1>1. /\ IsParsed(fresh) /\ fresh.seen = p.seen \cup {row.id} /\ fresh.errors = p.errors
        /\ fresh.courses = p.courses
    <2>1. fresh = [courses |-> p.courses, seen |-> p.seen \cup {row.id}, errors |-> p.errors,
                   always |-> p.always, verbatim |-> p.verbatim, docs |-> p.docs]
      BY DEF IsParsed
    <2>. HIDE DEF fresh
    <2>. QED
      BY <2>1 DEF IsParsed
  <1>2. \/ row.blank /\ q = p
        \/ q = Alert(p, "Courses", i)
        \/ q = Alert(fresh, "Courses", i)
        \/ row.id \notin p.seen /\ q = Serve(warned, row)
    <2>1. CASE row.blank
      BY Zenon, <2>1 DEF parse_course
    <2>2. CASE ~row.blank /\ (row.id = NoId \/ row.id \in p.seen)
      BY Zenon, <2>2 DEF parse_course
    <2>3. CASE ~row.blank /\ ~(row.id = NoId \/ row.id \in p.seen)
      BY Zenon, <2>3 DEF parse_course
    <2>. QED
      BY Zenon, <2>1, <2>2, <2>3
  <1>. HIDE DEF q, fresh
  <1>3. CASE row.blank /\ q = p
    BY Zenon, <1>3 DEF CourseStep, q
  <1>4. CASE q = Alert(p, "Courses", i)
    <2>1. /\ IsParsed(q) /\ q.courses = p.courses /\ q.seen = p.seen
          /\ q.errors = p.errors \cup {<<"Courses", i>>}
      BY <1>4, AlertIs DEF IsParsed
    <2>. QED
      BY <2>1 DEF CourseStep, q
  <1>5. CASE q = Alert(fresh, "Courses", i)
    <2>1. /\ IsParsed(q) /\ q.courses = p.courses /\ q.seen = p.seen \cup {row.id}
          /\ q.errors = p.errors \cup {<<"Courses", i>>}
      BY <1>1, <1>5, AlertIs DEF IsParsed
    <2>. QED
      BY <2>1 DEF CourseStep, q
  <1>6. CASE row.id \notin p.seen /\ q = Serve(warned, row)
    <2>1. /\ IsParsed(warned) /\ warned.courses = p.courses
          /\ warned.seen = p.seen \cup {row.id} /\ p.errors \subseteq warned.errors
          /\ Dropped(row) = {} \/ <<"Courses", i>> \in warned.errors
      <3>1. CASE Dropped(row) = {}
        BY <1>1, <3>1
      <3>2. CASE Dropped(row) # {}
        <4>1. warned = Alert(fresh, "Courses", i)
          BY <3>2
        <4>2. /\ IsParsed(warned) /\ warned.courses = p.courses
              /\ warned.seen = p.seen \cup {row.id}
              /\ warned.errors = p.errors \cup {<<"Courses", i>>}
          BY <1>1, <4>1, AlertIs DEF IsParsed
        <4>. QED
          BY <4>2
      <3>. QED
        BY <3>1, <3>2
    <2>. HIDE DEF warned
    <2>2. q = [courses |-> Put(warned.courses, row.id, Course(row)),
               seen |-> warned.seen, errors |-> warned.errors,
               always |-> warned.always, verbatim |-> warned.verbatim, docs |-> warned.docs]
      BY <1>6, <2>1 DEF Serve, IsParsed
    <2>3. /\ IsParsed(q) /\ q.courses = Put(p.courses, row.id, Course(row))
          /\ q.seen = p.seen \cup {row.id} /\ q.errors = warned.errors
      BY <2>1, <2>2 DEF IsParsed
    <2>. QED
      BY <1>6, <2>1, <2>3 DEF CourseStep, q
  <1>. QED
    BY Zenon, <1>2, <1>3, <1>4, <1>5, <1>6

-----------------------------------------------------------------------------
(* The Courses tab *)

IsARow(row) ==
    IsASequence(row.name) /\ \A k \in VerbatimFields : IsACell(cell(row, k))

CoursesDone(p, rows, k) ==
    /\ IsParsed(p)
    /\ DOMAIN p.courses \subseteq p.seen
    /\ IsACatalog(p.courses)
    /\ \A i \in 1..k : Served(rows[i], p.courses) \/ <<"Courses", i>> \in p.errors

\* One more row of the Courses tab.
LEMMA CoursesGrow ==
    ASSUME NEW rows, NEW k \in Nat, NEW p, CoursesDone(p, rows, k - 1),
           k \in 1..k, IsARow(rows[k])
    PROVE  CoursesDone(parse_course(p, k, rows[k]), rows, k)
  <1>. DEFINE q == parse_course(p, k, rows[k])
              row == rows[k]
  <1>1. /\ IsParsed(p) /\ DOMAIN p.courses \subseteq p.seen /\ IsACatalog(p.courses)
        /\ \A i \in 1..(k - 1) : Served(rows[i], p.courses) \/ <<"Courses", i>> \in p.errors
    BY Zenon DEF CoursesDone
  <1>2. CourseStep(p, q, k, row)
    BY Zenon, <1>1, CourseRow
  <1>3. \A i \in 1..k : i = k \/ i \in 1..(k - 1)
    OBVIOUS
  <1>. HIDE DEF q, row
  <1>4. IsParsed(q) /\ p.seen \subseteq q.seen /\ p.errors \subseteq q.errors
    BY Zenon, <1>2 DEF CourseStep
  <1>5. CASE q.courses = p.courses /\ (row.blank \/ <<"Courses", k>> \in q.errors)
    <2>1. DOMAIN q.courses \subseteq q.seen /\ IsACatalog(q.courses)
      BY <1>1, <1>4, <1>5
    <2>2. \A i \in 1..k : Served(rows[i], q.courses) \/ <<"Courses", i>> \in q.errors
      <3>1. ASSUME NEW i \in 1..(k - 1)
            PROVE  Served(rows[i], q.courses) \/ <<"Courses", i>> \in q.errors
        BY Zenon, <1>1, <1>4, <1>5
      <3>2. Served(rows[k], q.courses) \/ <<"Courses", k>> \in q.errors
        BY Zenon, <1>5 DEF Served, row
      <3>. QED
        BY Zenon, <1>3, <3>1, <3>2
    <2>. QED
      BY Zenon, <1>4, <2>1, <2>2 DEF CoursesDone, q, row
  <1>6. CASE /\ row.id \notin p.seen /\ row.id \in q.seen
             /\ q.courses = Put(p.courses, row.id, Course(row))
             /\ Dropped(row) = {} \/ <<"Courses", k>> \in q.errors
    <2>1. /\ DOMAIN q.courses = DOMAIN p.courses \cup {row.id}
          /\ q.courses[row.id] = Course(row)
          /\ \A c \in DOMAIN p.courses : q.courses[c] = p.courses[c]
      <3>1. \A c \in DOMAIN p.courses : c # row.id
        BY <1>1, <1>6
      <3>. DEFINE put == Put(p.courses, row.id, Course(row))
      <3>2. /\ DOMAIN put = DOMAIN p.courses \cup {row.id}
            /\ put[row.id] = Course(row)
            /\ \A c \in DOMAIN p.courses : put[c] = p.courses[c]
        BY <3>1 DEF Put
      <3>3. q.courses = put
        BY <1>6
      <3>. HIDE DEF put
      <3>. QED
        BY Zenon, <3>2, <3>3
    <2>2. DOMAIN q.courses \subseteq q.seen
      BY <1>1, <1>4, <1>6, <2>1
    <2>3. IsACatalog(q.courses)
      <3>1. IsFiniteSet(DOMAIN q.courses)
        BY <1>1, <2>1, FS_AddElement DEF IsACatalog
      <3>2. IsASequence(Course(row).ten_khoa) /\ WellSaid(Course(row).facts)
        BY Zenon, CourseIsWellSaid DEF IsARow, row
      <3>3. ASSUME NEW c \in DOMAIN q.courses
            PROVE  IsASequence(q.courses[c].ten_khoa) /\ WellSaid(q.courses[c].facts)
        <4>1. CASE c \in DOMAIN p.courses
          BY Zenon, <1>1, <2>1, <4>1 DEF IsACatalog
        <4>2. CASE c = row.id
          BY Zenon, <2>1, <3>2, <4>2
        <4>. QED
          BY Zenon, <2>1, <4>1, <4>2
      <3>. QED
        BY Zenon, <3>1, <3>3 DEF IsACatalog
    <2>4. ASSUME NEW i \in 1..(k - 1)
          PROVE  Served(rows[i], q.courses) \/ <<"Courses", i>> \in q.errors
      <3>1. CASE <<"Courses", i>> \in p.errors
        BY Zenon, <1>4, <3>1
      <3>2. CASE Served(rows[i], p.courses)
        <4>1. \/ rows[i].blank
              \/ rows[i].id \in DOMAIN q.courses /\ q.courses[rows[i].id] = p.courses[rows[i].id]
          BY Zenon, <2>1, <3>2 DEF Served
        <4>. QED
          BY Zenon, <3>2, <4>1 DEF Served
      <3>. QED
        BY Zenon, <1>1, <3>1, <3>2
    <2>5. Served(rows[k], q.courses) \/ <<"Courses", k>> \in q.errors
      <3>1. CASE Dropped(row) = {}
        <4>1. /\ Course(row).ten_khoa = row.name
              /\ Course(row).facts = Says({cell(row, f) : f \in VerbatimFields})
              /\ {f \in VerbatimFields \cup ProseFields : ~cell(row, f).blank}
                    \subseteq Course(row).block
          <5>1. Course(row).ten_khoa = row.name
            BY DEF Course
          <5>2. \A f \in VerbatimFields : IsACell(cell(row, f))
            BY Zenon DEF IsARow, row
          <5>. QED
            BY Zenon, <3>1, <5>1, <5>2, WholeCourse
        <4>2. row.id \in DOMAIN q.courses
          BY Zenon, <2>1
        <4>. QED
          BY Zenon, <2>1, <4>1, <4>2 DEF Served, row
      <3>. QED
        BY Zenon, <1>6, <3>1
    <2>6. \A i \in 1..k : Served(rows[i], q.courses) \/ <<"Courses", i>> \in q.errors
      BY Zenon, <1>3, <2>4, <2>5
    <2>. QED
      BY Zenon, <1>4, <2>2, <2>3, <2>6 DEF CoursesDone, q, row
  <1>. QED
    BY Zenon, <1>2, <1>5, <1>6 DEF CourseStep

\* All rows of the Courses tab.
LEMMA CoursesParse ==
    ASSUME NEW rows, IsASequence(rows), \A i \in DOMAIN rows : IsARow(rows[i])
    PROVE  CoursesDone(parse_courses(rows), rows, Len(rows))
  <1>. DEFINE n == Len(rows)
  <1>1. PICK at : RunsThrough(Fold("Courses", rows), Empty, n, at) /\ at[n] = parse_courses(rows)
    BY Zenon, CoursesByRow
  <1>2. n \in Nat /\ DOMAIN rows = 1..n
    BY Zenon, PositionedIs
  <1>3. at[0] = Empty /\ \A k \in 1..n : at[k] = parse_course(at[k - 1], k, rows[k])
    BY <1>1 DEF RunsThrough, Apply, Fold
  <1>. DEFINE S == {k \in 0..n : CoursesDone(at[k], rows, k)}
  <1>4. 0 \in S
    <2>1. 0 \in 0..n /\ 1..0 = {}
      BY <1>2
    <2>2. IsParsed(Empty) /\ Empty.courses = <<>> /\ Empty.seen = {}
      BY DEF IsParsed, Empty, NoCourses
    <2>3. DOMAIN Empty.courses = {}
      BY <2>2
    <2>4. CoursesDone(Empty, rows, 0)
      BY Zenon, <2>1, <2>2, <2>3, FS_EmptySet DEF CoursesDone, IsACatalog
    <2>. QED
      BY Zenon, <1>3, <2>1, <2>4
  <1>5. ASSUME NEW k \in 1..n, k - 1 \in S
        PROVE  k \in S
    <2>1. k \in Nat /\ k \in 0..n /\ k \in 1..k /\ k \in DOMAIN rows
      BY <1>2
    <2>2. CoursesDone(at[k - 1], rows, k - 1)
      BY Zenon, <1>5
    <2>3. CoursesDone(at[k], rows, k)
      BY Zenon, <1>3, <2>1, <2>2, CoursesGrow
    <2>. QED
      BY Zenon, <2>1, <2>3
  <1>. HIDE DEF S, n
  <1>6. 0..n \subseteq S
    BY <1>2, <1>4, <1>5, Positions
  <1>7. n \in S
    BY <1>2, <1>6
  <1>. QED
    BY Zenon, <1>1, <1>7 DEF S, n

-----------------------------------------------------------------------------
(* The Center and FAQ tabs *)

\* Whether the row at i of the Center tab is served once the first k are read.
CenterServed(rows, i, k, p) ==
    LET row == rows[i]
    IN  \/ row.topic = NoText /\ row.text = NoText
        \/ <<row.topic, row.text>> \in p.always
        \/ <<"center", row.topic, row.text>> \in p.docs
        \/ /\ row.kind = "verbatim" /\ row.topic \in DOMAIN p.verbatim
           /\ \/ p.verbatim[row.topic] = row.text
              \/ \E j \in 1..k :
                    /\ j > i /\ rows[j].topic = row.topic
                    /\ p.verbatim[row.topic] = rows[j].text

\* Nothing is taken back, except that a later text replaces one on its topic.
CenterStep(p, q, i, row) ==
    /\ IsParsed(q) /\ q.courses = p.courses
    /\ p.errors \subseteq q.errors /\ p.always \subseteq q.always /\ p.docs \subseteq q.docs
    /\ \/ /\ q.verbatim = p.verbatim
          /\ \/ row.topic = NoText /\ row.text = NoText
             \/ <<row.topic, row.text>> \in q.always
             \/ <<"center", row.topic, row.text>> \in q.docs
             \/ <<"Center", i>> \in q.errors
       \/ row.kind = "verbatim" /\ q.verbatim = Put(p.verbatim, row.topic, row.text)

\* parse_center_row is such a step, whatever stands in the row.
LEMMA CenterRow ==
    ASSUME NEW p, IsParsed(p), NEW i, NEW row
    PROVE  CenterStep(p, parse_center_row(p, i, row), i, row)
  <1>. DEFINE q == parse_center_row(p, i, row)
              kept == [p EXCEPT !.always = @ \cup {<<row.topic, row.text>>}]
              quoted == [p EXCEPT !.verbatim = Put(@, row.topic, row.text)]
              embedded == [p EXCEPT !.docs = @ \cup {<<"center", row.topic, row.text>>}]
  <1>1. \/ row.topic = NoText /\ row.text = NoText /\ q = p
        \/ q = kept
        \/ row.kind = "verbatim" /\ q = quoted
        \/ q = embedded
        \/ q = Alert(p, "Center", i)
    <2>. DEFINE nothing == row.topic = NoText /\ row.text = NoText
                always == row.kind = "always" /\ row.text # NoText /\ is_prose_cell_safe(row)
                verbatim == row.kind = "verbatim" /\ row.text # NoText
                            /\ is_verbatim_cell_safe(row)
                embed == row.kind = "embed" /\ row.text # NoText
    <2>1. q = CASE nothing -> p [] always -> kept [] verbatim -> quoted [] embed -> embedded
                [] OTHER -> Alert(p, "Center", i)
      BY DEF parse_center_row
    <2>2. /\ ~(nothing /\ always) /\ ~(nothing /\ verbatim) /\ ~(nothing /\ embed)
          /\ ~(always /\ verbatim) /\ ~(always /\ embed) /\ ~(verbatim /\ embed)
      OBVIOUS
    <2>3. verbatim => row.kind = "verbatim"
      OBVIOUS
    <2>4. nothing => row.topic = NoText /\ row.text = NoText
      OBVIOUS
    <2>. HIDE DEF q, nothing, always, verbatim, embed, kept, quoted, embedded
    <2>. QED
      BY <2>1, <2>2, <2>3, <2>4
  <1>. HIDE DEF q
  <1>2. CASE row.topic = NoText /\ row.text = NoText /\ q = p
    BY Zenon, <1>2 DEF CenterStep, q
  <1>3. CASE q = kept
    <2>1. q = [courses |-> p.courses, seen |-> p.seen, errors |-> p.errors,
               always |-> p.always \cup {<<row.topic, row.text>>},
               verbatim |-> p.verbatim, docs |-> p.docs]
      BY <1>3 DEF IsParsed
    <2>2. /\ IsParsed(q) /\ q.courses = p.courses /\ q.errors = p.errors
          /\ q.always = p.always \cup {<<row.topic, row.text>>}
          /\ q.docs = p.docs /\ q.verbatim = p.verbatim
      BY <2>1 DEF IsParsed
    <2>. QED
      BY <2>2 DEF CenterStep, q
  <1>4. CASE row.kind = "verbatim" /\ q = quoted
    <2>1. q = [courses |-> p.courses, seen |-> p.seen, errors |-> p.errors,
               always |-> p.always,
               verbatim |-> Put(p.verbatim, row.topic, row.text), docs |-> p.docs]
      BY <1>4 DEF IsParsed
    <2>2. /\ IsParsed(q) /\ q.courses = p.courses /\ q.errors = p.errors
          /\ q.always = p.always /\ q.docs = p.docs
          /\ q.verbatim = Put(p.verbatim, row.topic, row.text)
      BY <2>1 DEF IsParsed
    <2>. QED
      BY <1>4, <2>2 DEF CenterStep, q
  <1>5. CASE q = embedded
    <2>1. q = [courses |-> p.courses, seen |-> p.seen, errors |-> p.errors,
               always |-> p.always, verbatim |-> p.verbatim,
               docs |-> p.docs \cup {<<"center", row.topic, row.text>>}]
      BY <1>5 DEF IsParsed
    <2>2. /\ IsParsed(q) /\ q.courses = p.courses /\ q.errors = p.errors
          /\ q.always = p.always /\ q.verbatim = p.verbatim
          /\ q.docs = p.docs \cup {<<"center", row.topic, row.text>>}
      BY <2>1 DEF IsParsed
    <2>. QED
      BY <2>2 DEF CenterStep, q
  <1>6. CASE q = Alert(p, "Center", i)
    <2>1. /\ IsParsed(q) /\ q.courses = p.courses /\ q.always = p.always
          /\ q.docs = p.docs /\ q.verbatim = p.verbatim
          /\ q.errors = p.errors \cup {<<"Center", i>>}
      BY <1>6, AlertIs DEF IsParsed
    <2>. QED
      BY <2>1 DEF CenterStep, q
  <1>. QED
    BY Zenon, <1>1, <1>2, <1>3, <1>4, <1>5, <1>6

CenterDone(p, start, rows, k) ==
    /\ IsParsed(p) /\ p.courses = start.courses /\ start.errors \subseteq p.errors
    /\ \A i \in 1..k : CenterServed(rows, i, k, p) \/ <<"Center", i>> \in p.errors

\* One more row of the Center tab; a text it replaces is that of an earlier row.
LEMMA CenterGrows ==
    ASSUME NEW start, NEW rows, NEW k \in Nat, k \in 1..k, NEW p,
           CenterDone(p, start, rows, k - 1)
    PROVE  CenterDone(parse_center_row(p, k, rows[k]), start, rows, k)
  <1>. DEFINE q == parse_center_row(p, k, rows[k])
              row == rows[k]
  <1>1. /\ IsParsed(p) /\ p.courses = start.courses /\ start.errors \subseteq p.errors
        /\ \A i \in 1..(k - 1) : CenterServed(rows, i, k - 1, p) \/ <<"Center", i>> \in p.errors
    BY Zenon DEF CenterDone
  <1>2. CenterStep(p, q, k, row)
    BY Zenon, <1>1, CenterRow
  <1>3. /\ \A i \in 1..k : i = k \/ i \in 1..(k - 1)
        /\ \A i \in 1..(k - 1) : i \in 1..k /\ k > i
    OBVIOUS
  <1>. HIDE DEF q
  <1>4. /\ IsParsed(q) /\ q.courses = start.courses /\ start.errors \subseteq q.errors
        /\ p.errors \subseteq q.errors /\ p.always \subseteq q.always /\ p.docs \subseteq q.docs
    BY Zenon, <1>1, <1>2 DEF CenterStep
  <1>5. \/ q.verbatim = p.verbatim
        \/ row.kind = "verbatim" /\ q.verbatim = Put(p.verbatim, row.topic, row.text)
    BY Zenon, <1>2 DEF CenterStep
  <1>6. ASSUME NEW i \in 1..(k - 1)
        PROVE  CenterServed(rows, i, k, q) \/ <<"Center", i>> \in q.errors
    <2>1. CASE <<"Center", i>> \in p.errors
      BY Zenon, <1>4, <2>1
    <2>2. CASE CenterServed(rows, i, k - 1, p)
      <3>. DEFINE old == rows[i]
      <3>1. CASE \/ old.topic = NoText /\ old.text = NoText
                 \/ <<old.topic, old.text>> \in p.always
                 \/ <<"center", old.topic, old.text>> \in p.docs
        BY Zenon, <1>4, <3>1 DEF CenterServed
      <3>2. CASE /\ old.kind = "verbatim" /\ old.topic \in DOMAIN p.verbatim
                 /\ \/ p.verbatim[old.topic] = old.text
                    \/ \E j \in 1..(k - 1) :
                          /\ j > i /\ rows[j].topic = old.topic
                          /\ p.verbatim[old.topic] = rows[j].text
        <4>1. CASE q.verbatim = p.verbatim
          <5>1. CASE p.verbatim[old.topic] = old.text
            BY Zenon, <3>2, <4>1, <5>1 DEF CenterServed
          <5>2. CASE \E j \in 1..(k - 1) :
                        /\ j > i /\ rows[j].topic = old.topic
                        /\ p.verbatim[old.topic] = rows[j].text
            BY Zenon, <1>3, <3>2, <4>1, <5>2 DEF CenterServed
          <5>. QED
            BY Zenon, <3>2, <5>1, <5>2
        <4>2. CASE q.verbatim = Put(p.verbatim, row.topic, row.text)
          <5>1. CASE old.topic = row.topic
            <6>1. old.topic \in DOMAIN q.verbatim /\ q.verbatim[old.topic] = row.text
              BY <4>2, <5>1 DEF Put
            <6>2. k \in 1..k /\ k > i /\ rows[k].topic = old.topic
              BY Zenon, <1>3, <5>1
            <6>. QED
              BY Zenon, <3>2, <6>1, <6>2 DEF CenterServed
          <5>2. CASE old.topic # row.topic
            <6>1. old.topic \in DOMAIN q.verbatim
                  /\ q.verbatim[old.topic] = p.verbatim[old.topic]
              BY <3>2, <4>2, <5>2 DEF Put
            <6>2. CASE p.verbatim[old.topic] = old.text
              BY Zenon, <3>2, <6>1, <6>2 DEF CenterServed
            <6>3. CASE \E j \in 1..(k - 1) :
                          /\ j > i /\ rows[j].topic = old.topic
                          /\ p.verbatim[old.topic] = rows[j].text
              BY Zenon, <1>3, <3>2, <6>1, <6>3 DEF CenterServed
            <6>. QED
              BY Zenon, <3>2, <6>2, <6>3
          <5>. QED
            BY Zenon, <5>1, <5>2
        <4>. QED
          BY Zenon, <1>5, <4>1, <4>2
      <3>. QED
        BY Zenon, <2>2, <3>1, <3>2 DEF CenterServed
    <2>. QED
      BY Zenon, <1>1, <2>1, <2>2
  <1>7. CenterServed(rows, k, k, q) \/ <<"Center", k>> \in q.errors
    <2>1. CASE \/ row.topic = NoText /\ row.text = NoText
               \/ <<row.topic, row.text>> \in q.always
               \/ <<"center", row.topic, row.text>> \in q.docs
      BY Zenon, <2>1 DEF CenterServed
    <2>2. CASE row.kind = "verbatim" /\ q.verbatim = Put(p.verbatim, row.topic, row.text)
      <3>1. row.topic \in DOMAIN q.verbatim /\ q.verbatim[row.topic] = row.text
        BY <2>2 DEF Put
      <3>. QED
        BY Zenon, <2>2, <3>1 DEF CenterServed
    <2>. QED
      BY Zenon, <1>2, <2>1, <2>2 DEF CenterStep
  <1>8. \A i \in 1..k : CenterServed(rows, i, k, q) \/ <<"Center", i>> \in q.errors
    BY Zenon, <1>3, <1>6, <1>7
  <1>. QED
    BY Zenon, <1>4, <1>8 DEF CenterDone, q

\* All rows of the Center tab.
LEMMA CenterParses ==
    ASSUME NEW rows, IsASequence(rows), NEW start, IsParsed(start)
    PROVE  CenterDone(CenterOf(rows, start), start, rows, Len(rows))
  <1>. DEFINE n == Len(rows)
  <1>1. PICK at : RunsThrough(Fold("Center", rows), start, n, at) /\ at[n] = CenterOf(rows, start)
    BY Zenon, CenterByRow
  <1>2. n \in Nat
    BY Zenon, PositionedIs
  <1>3. at[0] = start /\ \A k \in 1..n : at[k] = parse_center_row(at[k - 1], k, rows[k])
    BY <1>1 DEF RunsThrough, Apply, Fold
  <1>. DEFINE S == {k \in 0..n : CenterDone(at[k], start, rows, k)}
  <1>4. 0 \in S
    <2>1. 0 \in 0..n /\ 1..0 = {}
      BY <1>2
    <2>2. CenterDone(start, start, rows, 0)
      BY Zenon, <2>1 DEF CenterDone
    <2>. QED
      BY Zenon, <1>3, <2>1, <2>2
  <1>5. ASSUME NEW k \in 1..n, k - 1 \in S
        PROVE  k \in S
    <2>1. k \in Nat /\ k \in 0..n /\ k \in 1..k
      BY <1>2
    <2>2. CenterDone(at[k - 1], start, rows, k - 1)
      BY Zenon, <1>5
    <2>3. CenterDone(at[k], start, rows, k)
      BY Zenon, <1>3, <2>1, <2>2, CenterGrows
    <2>. QED
      BY Zenon, <2>1, <2>3
  <1>. HIDE DEF S, n
  <1>6. 0..n \subseteq S
    BY <1>2, <1>4, <1>5, Positions
  <1>7. n \in S
    BY <1>2, <1>6
  <1>. QED
    BY Zenon, <1>1, <1>7 DEF S, n

FaqServed(row, docs) ==
    \/ row.cau_hoi = NoText /\ row.tra_loi = NoText
    \/ <<"faq", row.cau_hoi, row.tra_loi>> \in docs

FaqDone(p, start, rows, k) ==
    /\ IsParsed(p) /\ p.courses = start.courses /\ p.verbatim = start.verbatim
    /\ start.errors \subseteq p.errors /\ start.always = p.always /\ start.docs \subseteq p.docs
    /\ \A i \in 1..k : FaqServed(rows[i], p.docs) \/ <<"FAQ", i>> \in p.errors

\* A row of the FAQ tab: nothing is taken back, and the row is served or an
\* error names it.
LEMMA FaqRow ==
    ASSUME NEW p, IsParsed(p), NEW i, NEW row
    PROVE  LET q == parse_faq_row(p, i, row)
           IN  /\ IsParsed(q) /\ q.courses = p.courses /\ q.verbatim = p.verbatim
               /\ p.errors \subseteq q.errors /\ p.always = q.always /\ p.docs \subseteq q.docs
               /\ FaqServed(row, q.docs) \/ <<"FAQ", i>> \in q.errors
  <1>. DEFINE q == parse_faq_row(p, i, row)
              embedded == [p EXCEPT !.docs = @ \cup {<<"faq", row.cau_hoi, row.tra_loi>>}]
  <1>1. \/ row.cau_hoi = NoText /\ row.tra_loi = NoText /\ q = p
        \/ q = embedded
        \/ q = Alert(p, "FAQ", i)
    BY DEF parse_faq_row
  <1>. HIDE DEF q
  <1>2. CASE row.cau_hoi = NoText /\ row.tra_loi = NoText /\ q = p
    BY Zenon, <1>2 DEF FaqServed, q
  <1>3. CASE q = embedded
    <2>1. q = [courses |-> p.courses, seen |-> p.seen, errors |-> p.errors,
               always |-> p.always, verbatim |-> p.verbatim,
               docs |-> p.docs \cup {<<"faq", row.cau_hoi, row.tra_loi>>}]
      BY <1>3 DEF IsParsed
    <2>2. /\ IsParsed(q) /\ q.courses = p.courses /\ q.errors = p.errors
          /\ q.always = p.always /\ q.verbatim = p.verbatim
          /\ q.docs = p.docs \cup {<<"faq", row.cau_hoi, row.tra_loi>>}
      BY <2>1 DEF IsParsed
    <2>. QED
      BY <2>2 DEF FaqServed, q
  <1>4. CASE q = Alert(p, "FAQ", i)
    <2>1. /\ IsParsed(q) /\ q.courses = p.courses /\ q.always = p.always
          /\ q.docs = p.docs /\ q.verbatim = p.verbatim
          /\ q.errors = p.errors \cup {<<"FAQ", i>>}
      BY <1>4, AlertIs DEF IsParsed
    <2>. QED
      BY <2>1 DEF q
  <1>. QED
    BY Zenon, <1>1, <1>2, <1>3, <1>4

\* All rows of the FAQ tab.
LEMMA FaqParses ==
    ASSUME NEW rows, IsASequence(rows), NEW start, IsParsed(start)
    PROVE  FaqDone(FaqOf(rows, start), start, rows, Len(rows))
  <1>. DEFINE n == Len(rows)
  <1>1. PICK at : RunsThrough(Fold("FAQ", rows), start, n, at) /\ at[n] = FaqOf(rows, start)
    BY Zenon, FaqByRow
  <1>2. n \in Nat
    BY Zenon, PositionedIs
  <1>3. at[0] = start /\ \A k \in 1..n : at[k] = parse_faq_row(at[k - 1], k, rows[k])
    BY <1>1 DEF RunsThrough, Apply, Fold
  <1>. DEFINE S == {k \in 0..n : FaqDone(at[k], start, rows, k)}
  <1>4. 0 \in S
    <2>1. 0 \in 0..n /\ 1..0 = {}
      BY <1>2
    <2>2. FaqDone(start, start, rows, 0)
      BY Zenon, <2>1 DEF FaqDone
    <2>. QED
      BY Zenon, <1>3, <2>1, <2>2
  <1>5. ASSUME NEW k \in 1..n, k - 1 \in S
        PROVE  k \in S
    <2>1. k \in 0..n /\ \A i \in 1..k : i = k \/ i \in 1..(k - 1)
      BY <1>2
    <2>. DEFINE p == at[k - 1]
                q == at[k]
    <2>2. FaqDone(p, start, rows, k - 1)
      BY Zenon, <1>5
    <2>3. q = parse_faq_row(p, k, rows[k]) /\ IsParsed(p)
      BY Zenon, <1>3, <2>2 DEF FaqDone
    <2>. HIDE DEF p, q
    <2>4. /\ IsParsed(q) /\ q.courses = p.courses /\ q.verbatim = p.verbatim
          /\ p.errors \subseteq q.errors /\ p.always = q.always /\ p.docs \subseteq q.docs
          /\ FaqServed(rows[k], q.docs) \/ <<"FAQ", k>> \in q.errors
      BY <2>3, FaqRow
    <2>5. ASSUME NEW i \in 1..k
          PROVE  FaqServed(rows[i], q.docs) \/ <<"FAQ", i>> \in q.errors
      <3>1. CASE i \in 1..(k - 1)
        BY Zenon, <2>2, <2>4, <3>1 DEF FaqDone, FaqServed
      <3>. QED
        BY Zenon, <2>1, <2>4, <3>1
    <2>6. FaqDone(q, start, rows, k)
      BY Zenon, <2>2, <2>4, <2>5 DEF FaqDone
    <2>. QED
      BY Zenon, <2>1, <2>6 DEF q
  <1>. HIDE DEF S, n
  <1>6. 0..n \subseteq S
    BY <1>2, <1>4, <1>5, Positions
  <1>7. n \in S
    BY <1>2, <1>6
  <1>. QED
    BY Zenon, <1>1, <1>7 DEF S, n

-----------------------------------------------------------------------------
(* The whole sheet *)

SheetServed(tabs, p) ==
    /\ \A i \in DOMAIN tabs.courses :
          Served(tabs.courses[i], p.courses) \/ <<"Courses", i>> \in p.errors
    /\ \A i \in DOMAIN tabs.center :
          \/ CenterServed(tabs.center, i, Len(tabs.center), p)
          \/ {<<"Center", i>>, <<"Center", 0>>} \cap p.errors # {}
    /\ \A i \in DOMAIN tabs.faq :
          \/ FaqServed(tabs.faq[i], p.docs)
          \/ {<<"FAQ", i>>, <<"FAQ", 0>>} \cap p.errors # {}

\* The parser makes a catalog of any sheet, and drops no row without an error.
LEMMA SheetParses ==
    ASSUME NEW tabs, IsASheet(tabs)
    PROVE  IsACatalog(Parse(tabs).courses) /\ SheetServed(tabs, Parse(tabs))
  <1>. DEFINE courses == parse_courses(tabs.courses)
              lacking == tabs.center # <<>> /\ tabs.center_lacks
              center == IF lacking THEN Alert(courses, "Center", 0)
                        ELSE CenterOf(tabs.center, courses)
              unread == tabs.faq # <<>> /\ tabs.faq_lacks
              faq == IF unread THEN Alert(center, "FAQ", 0) ELSE FaqOf(tabs.faq, center)
              p == Parse(tabs)
  <1>1. /\ IsASequence(tabs.courses) /\ IsASequence(tabs.center) /\ IsASequence(tabs.faq)
        /\ \A i \in DOMAIN tabs.courses : IsARow(tabs.courses[i])
    BY Zenon DEF IsASheet, IsARow
  <1>2. p = warn_missing_topics(faq)
    BY Zenon, ParseIs
  <1>3. CoursesDone(courses, tabs.courses, Len(tabs.courses))
    BY Zenon, <1>1, CoursesParse
  <1>4. /\ IsParsed(center) /\ center.courses = courses.courses
        /\ courses.errors \subseteq center.errors
        /\ \/ <<"Center", 0>> \in center.errors
           \/ \A i \in 1..Len(tabs.center) :
                 \/ CenterServed(tabs.center, i, Len(tabs.center), center)
                 \/ <<"Center", i>> \in center.errors
    <2>0. IsParsed(courses)
      BY Zenon, <1>3 DEF CoursesDone
    <2>1. CASE lacking
      <3>1. center = Alert(courses, "Center", 0)
        BY <2>1
      <3>. HIDE DEF center, courses
      <3>2. /\ IsParsed(center) /\ center.courses = courses.courses
            /\ center.errors = courses.errors \cup {<<"Center", 0>>}
        BY <2>0, <3>1, AlertIs DEF IsParsed
      <3>. QED
        BY <3>2
    <2>2. CASE ~lacking
      <3>1. center = CenterOf(tabs.center, courses)
        BY <2>2
      <3>2. CenterDone(center, courses, tabs.center, Len(tabs.center))
        BY Zenon, <1>1, <2>0, <3>1, CenterParses
      <3>. QED
        BY Zenon, <3>2 DEF CenterDone
    <2>. QED
      BY <2>1, <2>2
  <1>. HIDE DEF center, courses
  <1>6. /\ IsParsed(faq) /\ faq.courses = center.courses /\ faq.verbatim = center.verbatim
        /\ center.errors \subseteq faq.errors /\ center.always = faq.always
        /\ center.docs \subseteq faq.docs
        /\ \/ <<"FAQ", 0>> \in faq.errors
           \/ \A i \in 1..Len(tabs.faq) :
                 FaqServed(tabs.faq[i], faq.docs) \/ <<"FAQ", i>> \in faq.errors
    <2>1. CASE unread
      <3>1. faq = Alert(center, "FAQ", 0)
        BY <2>1
      <3>. HIDE DEF faq
      <3>2. /\ IsParsed(faq) /\ faq.courses = center.courses /\ faq.verbatim = center.verbatim
            /\ faq.always = center.always /\ faq.docs = center.docs
            /\ faq.errors = center.errors \cup {<<"FAQ", 0>>}
        BY <1>4, <3>1, AlertIs DEF IsParsed
      <3>. QED
        BY <3>2
    <2>2. CASE ~unread
      <3>1. faq = FaqOf(tabs.faq, center)
        BY <2>2
      <3>2. FaqDone(faq, center, tabs.faq, Len(tabs.faq))
        BY Zenon, <1>1, <1>4, <3>1, FaqParses
      <3>. QED
        BY Zenon, <3>2 DEF FaqDone
    <2>. QED
      BY <2>1, <2>2
  <1>. HIDE DEF faq, p
  <1>7. /\ p.courses = faq.courses /\ p.always = faq.always /\ p.verbatim = faq.verbatim
        /\ p.docs = faq.docs /\ faq.errors \subseteq p.errors
    <2>1. p = faq \/ p = Alert(faq, "topics", 0)
      BY Zenon, <1>2 DEF warn_missing_topics
    <2>2. CASE p = Alert(faq, "topics", 0)
      BY <1>6, <2>2, AlertIs
    <2>. QED
      BY <2>1, <2>2
  <1>8. /\ DOMAIN tabs.courses = 1..Len(tabs.courses)
        /\ DOMAIN tabs.center = 1..Len(tabs.center)
        /\ DOMAIN tabs.faq = 1..Len(tabs.faq)
    BY Zenon, <1>1, PositionedIs
  <1>9. p.courses = courses.courses /\ courses.errors \subseteq p.errors
    BY Zenon, <1>4, <1>6, <1>7
  <1>10. IsACatalog(p.courses)
    BY Zenon, <1>3, <1>9 DEF CoursesDone
  <1>11. ASSUME NEW i \in DOMAIN tabs.courses
         PROVE  Served(tabs.courses[i], p.courses) \/ <<"Courses", i>> \in p.errors
    BY Zenon, <1>3, <1>8, <1>9 DEF CoursesDone
  <1>12. ASSUME NEW i \in DOMAIN tabs.center
         PROVE  \/ CenterServed(tabs.center, i, Len(tabs.center), p)
                \/ {<<"Center", i>>, <<"Center", 0>>} \cap p.errors # {}
    <2>1. center.errors \subseteq p.errors /\ center.docs \subseteq p.docs
          /\ center.always = p.always /\ center.verbatim = p.verbatim
      BY Zenon, <1>6, <1>7
    <2>2. CASE <<"Center", 0>> \in center.errors \/ <<"Center", i>> \in center.errors
      BY Zenon, <2>1, <2>2
    <2>3. CASE CenterServed(tabs.center, i, Len(tabs.center), center)
      BY Zenon, <2>1, <2>3 DEF CenterServed
    <2>. QED
      BY Zenon, <1>4, <1>8, <2>2, <2>3
  <1>13. ASSUME NEW i \in DOMAIN tabs.faq
         PROVE  \/ FaqServed(tabs.faq[i], p.docs)
                \/ {<<"FAQ", i>>, <<"FAQ", 0>>} \cap p.errors # {}
    BY Zenon, <1>6, <1>7, <1>8
  <1>. QED
    BY Zenon, <1>10, <1>11, <1>12, <1>13 DEF SheetServed, p

-----------------------------------------------------------------------------
(* The specification *)

\* The sheet is one the staff may write, and what a sync published of it is
\* what is served.
SheetInv ==
    /\ sheet \in Sheets
    /\ ~synced => kb = Empty
    /\ synced => kb = IF SchemaError(sheet) THEN Empty ELSE Parse(sheet)

Inv == SheetInv /\ GuardInv

\* Nothing is served and nothing judged at the start.
LEMMA InitInv ==
    Init => Inv
  <1>1. SUFFICES ASSUME Init PROVE Inv
    OBVIOUS
  <1>2. Empty.courses = <<>>
    BY DEF Empty, NoCourses
  <1>3. DOMAIN Empty.courses = {}
    BY <1>2
  <1>4. IsACatalog(Empty.courses)
    BY Zenon, <1>3, FS_EmptySet DEF IsACatalog
  <1>. QED
    BY Zenon, <1>1, <1>4 DEF Init, Inv, SheetInv, GuardInv

\* Every sync, verdict and turn keeps the invariant.
LEMMA NextInv ==
    Inv /\ [Next]_vars => Inv'
  <1>1. SUFFICES ASSUME Inv, [Next]_vars PROVE Inv'
    OBVIOUS
  <1>2. /\ sheet \in Sheets
        /\ ~synced => kb = Empty
        /\ synced => kb = IF SchemaError(sheet) THEN Empty ELSE Parse(sheet)
        /\ IsACatalog(kb.courses)
        /\ ~synced => draft = <<>>
        /\ draft # <<>> => IsADraft(draft) /\ verdict = evaluate_draft(kb.courses, draft)
    BY Zenon, <1>1 DEF Inv, SheetInv, GuardInv
  <1>3. CASE Publish
    <2>1. /\ ~synced /\ ~SchemaError(sheet) /\ kb' = Parse(sheet) /\ synced' = TRUE
          /\ sheet' = sheet /\ draft' = draft /\ verdict' = verdict
      BY Zenon, <1>3 DEF Publish
    <2>2. IsACatalog(Parse(sheet).courses)
      BY Zenon, <1>2, GuardAssumption, SheetParses
    <2>. QED
      BY Zenon, <1>2, <2>1, <2>2 DEF Inv, SheetInv, GuardInv
  <1>4. CASE SyncFails
    <2>1. /\ ~synced /\ SchemaError(sheet) /\ synced' = TRUE
          /\ sheet' = sheet /\ kb' = kb /\ draft' = draft /\ verdict' = verdict
      BY Zenon, <1>4 DEF SyncFails
    <2>. QED
      BY Zenon, <1>2, <2>1 DEF Inv, SheetInv, GuardInv
  <1>5. ASSUME NEW d \in Drafts, Judge(d) PROVE Inv'
    <2>1. /\ synced /\ draft' = d /\ verdict' = evaluate_draft(kb.courses, d)
          /\ sheet' = sheet /\ kb' = kb /\ synced' = synced
      BY Zenon, <1>5 DEF Judge
    <2>2. IsADraft(d)
      BY Zenon, GuardAssumption
    <2>. QED
      BY Zenon, <1>2, <2>1, <2>2 DEF Inv, SheetInv, GuardInv
  <1>6. CASE TurnOver
    <2>1. draft' = <<>> /\ sheet' = sheet /\ kb' = kb /\ synced' = synced
      BY Zenon, <1>6 DEF TurnOver
    <2>. QED
      BY Zenon, <1>2, <2>1 DEF Inv, SheetInv, GuardInv
  <1>7. CASE UNCHANGED vars
    <2>1. /\ sheet' = sheet /\ kb' = kb /\ synced' = synced
          /\ draft' = draft /\ verdict' = verdict
      BY <1>7 DEF vars
    <2>. QED
      BY Zenon, <1>2, <2>1 DEF Inv, SheetInv, GuardInv
  <1>. QED
    BY Zenon, <1>1, <1>3, <1>4, <1>5, <1>6, <1>7 DEF Next

\* What is served is what the sheet says, and every verdict is that of the
\* draft beside it (evaluate_draft on the published courses).
THEOREM InvHolds ==
    Spec => []Inv
  BY InitInv, NextInv, PTL DEF Spec

\* Every price in an approved reply is a price of the course its sentence is
\* about (pricing_guard.evaluate_draft), unless an amount has one of the forms
\* that are misread, the matcher forgets a course, or an amount or a date
\* completes a course's name.
THEOREM PricesAreTheCourses ==
    Spec => []QuotesTheNamedCourse
  <1>1. Inv => QuotesTheNamedCourse
    BY Zenon, PricesAreOfTheCourse DEF Inv
  <1>. QED
    BY <1>1, InvHolds, PTL

\* The guard blocks no reply that names its courses and repeats their cells, as
\* long as its amounts have none of the misread forms and complete no name.
THEOREM HonestyIsNotBlocked ==
    Spec => []HonestReplyPasses
  <1>1. Inv => HonestReplyPasses
    BY Zenon, HonestyPasses DEF Inv
  <1>. QED
    BY <1>1, InvHolds, PTL

\* Every row of the three tabs is published, or an error that the sync records
\* names it or its tab (parse_courses, parse_center_faq); of what becomes of the
\* errors afterwards nothing is said.
THEOREM RowsAreOnRecord ==
    Spec => []RowsAreServedOrRecorded
  <1>1. ASSUME Inv PROVE RowsAreServedOrRecorded
    <2>1. SUFFICES ASSUME synced, ~SchemaError(sheet)
                   PROVE  /\ \A i \in DOMAIN sheet.courses :
                                CourseIsServed(i) \/ <<"Courses", i>> \in kb.errors
                          /\ \A i \in DOMAIN sheet.center :
                                \/ CenterIsServed(i)
                                \/ {<<"Center", i>>, <<"Center", 0>>} \cap kb.errors # {}
                          /\ \A i \in DOMAIN sheet.faq :
                                \/ FaqIsServed(i)
                                \/ {<<"FAQ", i>>, <<"FAQ", 0>>} \cap kb.errors # {}
      BY Zenon DEF RowsAreServedOrRecorded
    <2>2. SheetServed(sheet, kb)
      <3>1. sheet \in Sheets /\ kb = Parse(sheet)
        BY Zenon, <1>1, <2>1 DEF Inv, SheetInv
      <3>2. IsASheet(sheet)
        BY Zenon, <3>1, GuardAssumption
      <3>. QED
        BY Zenon, <3>1, <3>2, SheetParses
    <2>3. DOMAIN sheet.center = 1..Len(sheet.center)
      <3>1. IsASequence(sheet.center)
        BY Zenon, <1>1, GuardAssumption DEF Inv, SheetInv, IsASheet
      <3>. QED
        BY Zenon, <3>1, PositionedIs
    <2>4. \A i : Served(sheet.courses[i], kb.courses) <=> CourseIsServed(i)
      BY Zenon DEF Served, CourseIsServed
    <2>5. \A i : CenterServed(sheet.center, i, Len(sheet.center), kb) => CenterIsServed(i)
      BY Zenon, <2>3 DEF CenterServed, CenterIsServed
    <2>6. \A i : FaqServed(sheet.faq[i], kb.docs) <=> FaqIsServed(i)
      BY Zenon DEF FaqServed, FaqIsServed
    <2>. QED
      BY Zenon, <2>2, <2>4, <2>5, <2>6 DEF SheetServed
  <1>2. Inv => RowsAreServedOrRecorded
    BY <1>1
  <1>. QED
    BY <1>2, InvHolds, PTL
=============================================================================
