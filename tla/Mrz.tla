----------------------------------- MODULE Mrz -----------------------------------
(***************************************************************************)
(* The second line of a passport's machine-readable zone, read with        *)
(* misread characters: by checked_prefix, which repairs look-alikes, by    *)
(* parse_td3, which repairs nothing, and the issue date, which the line    *)
(* does not hold and _recover_date_of_issue finds among printed dates.     *)
(*                                                                         *)
(* A character is its value in a check digit, 0-9 and A-Z = 10-35, and 36  *)
(* for the filler '<', whose value is 0.  A date is the number yyyymmdd.   *)
(***************************************************************************)
EXTENDS Integers, Sequences, FiniteSets, FiniteSetsExt, Functions

CONSTANTS
    Passport,    \* the passports considered, as their MRZ states them
    Today,
    Stray,       \* other dates: of visas and stamps, or misread ones
    Glyph,       \* what a character may be misread as
    MaxMisreads, \* bound on misread characters of one line
    MaxDates     \* bound on the dates seen in one text

Filler == 36
Char == 0..36
IsDigit(c) == c \in 0..9
IsLetter(c) == c \in 10..35
Letter == [B |-> 11, F |-> 15, I |-> 18, M |-> 22, O |-> 24, S |-> 28,
           X |-> 33, Z |-> 35]
IND == <<18, 23, 13>>
NoDate == 0
NoReading == [number |-> <<>>, dob |-> NoDate, expiry |-> NoDate]

(********************************* Dates ***********************************)

Year(date) == date \div 10000
Leap(y) == y % 4 = 0 /\ (y % 100 # 0 \/ y % 400 = 0)
DaysIn(y, m) ==
    CASE m = 2 -> IF Leap(y) THEN 29 ELSE 28
      [] m \in {4, 6, 9, 11} -> 30
      [] OTHER -> 31
IsDate(date) ==
    LET m == (date \div 100) % 100 IN
    m \in 1..12 /\ date % 100 \in 1..DaysIn(Year(date), m)

\* The six digits yymmdd as a date: a birth is not later than this year, an
\* expiry is in this century.
Number(digits) ==
    SumFunction([i \in 1..6 |-> digits[i] * 10 ^ (6 - i)])
Completed_ThisYear(digits, birth) ==
    LET year == 2000 + (Number(digits) \div 10000) IN
    IF birth /\ year >= Year(Today) THEN year - 100 ELSE year
Completed(digits, birth) ==
    LET year == 2000 + (Number(digits) \div 10000) IN
    IF birth /\ year > Year(Today) THEN year - 100 ELSE year
DateValue(digits, birth) ==
    LET date == Completed(digits, birth) * 10000 + (Number(digits) % 10000) IN
    IF (\A i \in 1..6 : IsDigit(digits[i])) /\ IsDate(date) THEN date ELSE NoDate

(****************************** Check digits *******************************)

Weight_Even(i) == <<7, 3, 2>>[((i - 1) % 3) + 1]
Weight(i) == <<7, 3, 1>>[((i - 1) % 3) + 1]
Digit(text) ==
    SumFunction([i \in DOMAIN text |-> (text[i] % Filler) * Weight(i)]) % 10

(******************************** The line *********************************)

Positions == 1..44
Digits(date) == [i \in 1..6 |-> (date \div 10 ^ (6 - i)) % 10]
Fillers(n) == [i \in 1..n |-> Filler]

\* What the issuing state printed; the optional data are left empty.
Printed(p) ==
    LET number == p.number \o Fillers(9 - Len(p.number))
        dob == Digits(p.dob)  end == Digits(p.expiry)
        head == number \o <<Digit(number)>>
        birth == dob \o <<Digit(dob)>>
        rest == end \o <<Digit(end)>> \o Fillers(15) IN
    head \o p.country \o birth \o <<p.sex>> \o rest
         \o <<Digit(head \o birth \o rest)>>

Number9(line) == SubSeq(line, 1, 9)
Birth(line) == SubSeq(line, 14, 19)
Expiry(line) == SubSeq(line, 22, 27)

(**************************** checked_prefix *******************************)

\* Look-alikes, where only a digit can stand.
Numeric(c) ==
    CASE c = Letter.O -> 0 [] c = Letter.I -> 1 [] c = Letter.S -> 5
      [] c = Letter.B -> 8 [] c = Letter.Z -> 2 [] OTHER -> c
\* And where only a letter can.
Lead(c) ==
    CASE c = 8 -> Letter.B [] c = 0 -> Letter.O [] c = 5 -> Letter.S
      [] c = 2 -> Letter.Z [] c = 1 -> Letter.I [] OTHER -> c
AllNumeric(text) == [i \in DOMAIN text |-> Numeric(text[i])]

Indian(line) == SubSeq(line, 11, 13) = IND /\ line[9] = Filler
Repaired(line) ==
    IF Indian(line)
    THEN <<Lead(line[1])>> \o AllNumeric(SubSeq(line, 2, 8)) \o <<Filler>>
    ELSE Number9(line)

\* One or two letters and digits up to the filler.
IndianForm(number) ==
    /\ IsLetter(number[1]) /\ (IsLetter(number[2]) \/ IsDigit(number[2]))
    /\ \A i \in 3..8 : IsDigit(number[i])

\* The number without the fillers behind it.
Stripped(number) ==
    SubSeq(number, 1, Max({0} \cup {i \in 1..9 : number[i] # Filler}))

CheckedPrefix(line) ==
    LET number == Repaired(line)
        birth == AllNumeric(Birth(line))  end == AllNumeric(Expiry(line))
        dob == DateValue(birth, TRUE)  expiry == DateValue(end, FALSE) IN
    IF /\ \A i \in 11..13 : IsLetter(line[i])
       /\ Indian(line) => IndianForm(number)
       /\ Digit(number) = Numeric(line[10])
       /\ Digit(birth) = Numeric(line[20]) /\ Digit(end) = Numeric(line[28])
       /\ dob # NoDate /\ expiry # NoDate /\ dob < expiry
       /\ line[21] \in {Letter.M, Letter.F, Letter.X, Filler}
    THEN [number |-> Stripped(number), dob |-> dob, expiry |-> expiry]
    ELSE NoReading

(******************************* parse_td3 *********************************)

\* Unlike checked_prefix it returns what it read when a check digit fails, marked as
\* not valid, without a date that is none.  ocr.py:509-518 then puts those values over
\* the printed ones, with warnings; whether they are trusted is reconcile's decision.

WithoutFillers(text) ==
    LET kept[i \in 0..Len(text)] ==
            IF i = 0 THEN <<>>
            ELSE IF text[i] = Filler THEN kept[i - 1] ELSE Append(kept[i - 1], text[i]) IN
    kept[Len(text)]

ParseTd3(line) ==
    LET head == SubSeq(line, 1, 10)
        dated == SubSeq(line, 14, 20) \o SubSeq(line, 22, 43) IN
    [number |-> WithoutFillers(Number9(line)),
     dob |-> DateValue(Birth(line), TRUE), expiry |-> DateValue(Expiry(line), FALSE),
     valid |-> /\ Digit(Number9(line)) = line[10]
               /\ Digit(Birth(line)) = line[20] /\ Digit(Expiry(line)) = line[28]
               /\ Digit(head \o dated) = line[44]
               /\ line[43] # Filler => Digit(SubSeq(line, 29, 42)) = line[43]]

(*********************** _recover_date_of_issue ****************************)

Plausible_NoExpiry(date, dob, expiry) ==
    date <= Today /\ (dob # NoDate => date > dob)
Plausible(date, dob, expiry) ==
    /\ date <= Today
    /\ dob # NoDate => date > dob
    /\ expiry # NoDate => date < expiry

RecoveredIssue(dates, dob, expiry) ==
    Max({NoDate} \cup {d \in dates \ {dob, expiry} : Plausible(d, dob, expiry)})

(***************************************************************************)

\* A passport as states print it: a birth less than a hundred years ago, an expiry
\* in this century, a number of nine characters or of eight in the form India
\* uses, whose second character is no letter that looks like a digit.
IsPassport(p) ==
    /\ p.number \in Seq(0..35) /\ Len(p.number) \in 1..9
    /\ p.country \in Seq(10..35) /\ Len(p.country) = 3
    /\ p.country = IND =>
        Len(p.number) = 8 /\ IndianForm(p.number) /\ Numeric(p.number[2]) = p.number[2]
    /\ p.sex \in {Letter.M, Letter.F, Letter.X, Filler}
    /\ \A date \in {p.dob, p.issued, p.expiry} : date \in Nat
    /\ IsDate(p.dob) /\ Year(p.dob) \in Year(Today) - 99..Year(Today)
    /\ IsDate(p.expiry) /\ Year(p.expiry) \in 2000..2099
    /\ p.dob < p.issued /\ p.issued <= Today /\ p.issued < p.expiry

ASSUME PassportAssumption ==
    /\ Today \in Nat /\ Year(Today) \in 2000..2099
    /\ MaxMisreads \in Nat /\ MaxDates \in Nat
    /\ Stray \subseteq Nat \ {NoDate} /\ Glyph \subseteq Char
    /\ \A p \in Passport : IsPassport(p)

VARIABLES
    passport,   \* the passport
    line,       \* its second line as OCR reads it
    misread,    \* the positions read wrong
    prefix,     \* what checked_prefix makes of the line
    formal,     \* what parse_td3 does
    seen,       \* dates found in the text around it
    labels,     \* the birth and the expiry that labels in the text gave
    issue       \* the issue date recovered from them

mrzVars == <<passport, line, misread, prefix, formal, seen, labels, issue>>

Unread == [number |-> <<Filler>>, dob |-> NoDate, expiry |-> NoDate]
NotParsed == [number |-> <<>>, dob |-> NoDate, expiry |-> NoDate, valid |-> FALSE]
NoLabels == [dob |-> NoDate, expiry |-> NoDate]

MrzInit ==
    /\ passport \in Passport /\ line = Printed(passport) /\ misread = {}
    /\ prefix = Unread /\ formal = NotParsed
    /\ seen = {} /\ labels = NoLabels /\ issue = NoDate

Misread(i, c) ==
    /\ prefix = Unread /\ Cardinality(misread) < MaxMisreads
    /\ i \notin misread /\ line[i] # c
    /\ line' = [line EXCEPT ![i] = c] /\ misread' = misread \cup {i}
    /\ UNCHANGED <<passport, prefix, formal, seen, labels, issue>>

ReadLine ==
    /\ prefix = Unread
    /\ prefix' = CheckedPrefix(line) /\ formal' = ParseTd3(line)
    /\ UNCHANGED <<passport, line, misread, seen, labels, issue>>

\* What is known of the other dates: the line's, else what labels gave.
Known(checked, labelled) == IF checked # NoDate THEN checked ELSE labelled

\* What a text may show.
Dates == {passport.dob, passport.issued, passport.expiry} \cup Stray

\* Where no label gave the date of issue itself; a label may stand before any date.
RecoverIssue ==
    /\ prefix # Unread /\ seen = {}
    /\ \E dates \in SUBSET Dates :
          /\ Cardinality(dates) \in 1..MaxDates
          /\ \E d \in dates \cup {NoDate}, x \in dates \cup {NoDate} :
                /\ seen' = dates /\ labels' = [dob |-> d, expiry |-> x]
                /\ issue' = RecoveredIssue(dates, Known(prefix.dob, d),
                                           Known(prefix.expiry, x))
    /\ UNCHANGED <<passport, line, misread, prefix, formal>>

MrzNext ==
    \/ \E i \in Positions, c \in Glyph : Misread(i, c)
    \/ ReadLine
    \/ RecoverIssue

MrzSpec == MrzInit /\ [][MrzNext]_mrzVars

(**************************** Properties ***********************************)

Accepted == prefix \notin {Unread, NoReading}
OwnDates(reading) == reading.dob = passport.dob /\ reading.expiry = passport.expiry
Is(reading) == reading.number = passport.number /\ OwnDates(reading)

\* Characters a check digit tells apart; others (0 and K, A and U, the filler
\* and 0) no reader of it can.
Distinct(c, d) == (c % Filler) % 10 # (d % Filler) % 10

OneMisread ==
    /\ Cardinality(misread) <= 1
    /\ \A i \in misread : Distinct(line[i], Printed(passport)[i])

\* The repairs make the number another one that its check digit does not tell from it:
\* of the misread character (P read as 2 is repaired to Z), or of a whole number whose
\* country is misread as India, whose numbers alone are repaired.
RepairMisleads ==
    \/ \E i \in misread \cap 1..9 :
           /\ Repaired(line)[i] \notin {line[i], Printed(passport)[i]}
           /\ ~Distinct(Repaired(line)[i], Printed(passport)[i])
    \/ Indian(line) /\ passport.country # IND

\* What one misread character can do: in a line that checked_prefix accepts the dates
\* are the passport's own, and another number comes of a misleading repair alone; a
\* line that passes all check digits of parse_td3 is the passport's own
\* (ocr_recovery.py 179-208, mrz.py 4-23).
MisreadIsRefused ==
    /\ Accepted /\ OneMisread => OwnDates(prefix) /\ (Is(prefix) \/ RepairMisleads)
    /\ formal.valid /\ OneMisread => Is(formal)

\* Digits and the letters they look like.
Looks == {<<0, Letter.O>>, <<1, Letter.I>>, <<5, Letter.S>>, <<8, Letter.B>>,
          <<2, Letter.Z>>}

\* A clean line is read by both, with the right century for every birth less
\* than a hundred years ago; one digit of the dates, or of an Indian number,
\* read as the letter it looks like is repaired (ocr_recovery.py 8, 166-200).
LineIsRead ==
    prefix # Unread =>
        /\ misread = {} => Is(prefix) /\ Is(formal) /\ formal.valid
        /\ \A i \in misread :
            /\ misread = {i} /\ \E x \in Looks : line[i] = x[2] /\ Printed(passport)[i] = x[1]
            /\ i \in (IF Indian(line) THEN 2..8 ELSE {}) \cup {10} \cup 14..20 \cup 22..28
            => Is(prefix)

\* Birth and expiry are known rightly, of the checked line or of labels, if at all.
RightlyKnown ==
    \/ Accepted /\ OneMisread
    \/ ~Accepted /\ labels.dob \in {NoDate, passport.dob}
                 /\ labels.expiry \in {NoDate, passport.expiry}

\* Where the text shows the date of issue and the others are known rightly, no earlier
\* date is recovered in its place, and a later one only if the text shows it, it is
\* not to come and not from the expiry on, where that is known: a visa or a stamp, but
\* no expiry (ocr_recovery.py 13-84, called with what 304-311 know).
IssueIsRecovered ==
    passport.issued \in seen /\ RightlyKnown =>
        /\ issue >= passport.issued
        /\ issue # passport.issued =>
            /\ issue \in seen /\ issue <= Today
            /\ Known(prefix.expiry, labels.expiry) # NoDate => issue < passport.expiry
=============================================================================
