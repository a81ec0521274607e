------------------------------- MODULE MCOcrJob -------------------------------
(* A small instance of OcrJob for TLC: passports of one or two pages. *)
EXTENDS OcrJob, TLC

\* Who reads which value of a field: Tesseract and EasyOCR on the first page,
\* Tesseract on the second.
t1 == <<1, "tesseract">>
e1 == <<1, "easyocr">>
t2 == <<2, "tesseract">>
Reads(a, b) == 1 :> a @@ 2 :> b
Nobody == Reads({}, {})
Both == Reads({t1, e1}, {})
Tied == Reads({t1}, {e1})
Readings == {Nobody, Reads({t1}, {}), Both, Reads({t1, t2}, {e1}), Tied}

MCVoter == (1..3) \X Engine

Checks(n, d, g) == [passport_number |-> n, dob |-> d, date_of_expiry |-> 1, gender |-> g]

\* The lines of the two pages: none, one, only on the second page, of two
\* numbers, of two dates of birth.
Lines == {<<{}, {}>>, <<{Checks(1, 1, 1)}, {}>>, <<{}, {Checks(1, 2, 2)}>>,
          <<{Checks(1, 1, 1)}, {Checks(2, 1, 1)}>>,
          <<{Checks(1, 1, 1)}, {Checks(1, 2, 1)}>>}

\* What else is on the pages: nothing; a noisy line, dates and marks; a zone
\* that says otherwise; the zones of two passports.
Zone(m, v) == [mrz |-> m, fields |-> [f \in Critical |-> IF f \in Checked THEN v ELSE Blank]]
Mark(g, w) == [gender |-> g, weight |-> w]
Extras ==
    {[like |-> NoFields, formal |-> <<{}, {}>>, dates |-> {}, marks |-> <<>>],
     [like |-> [NoFields EXCEPT !["dob"] = 2], formal |-> <<{}, {Zone("z", 2)}>>,
      dates |-> {1, 2}, marks |-> <<Mark(2, 1), Mark(1, 2)>>],
     [like |-> NoFields, formal |-> <<{Zone("y", 1)}, {Zone("z", 2)}>>,
      dates |-> {1}, marks |-> <<Mark(2, 1)>>]}

FoundOn(reads, i, eng) ==
    [f \in Critical |-> {v \in Value : <<i, eng>> \in reads[f][v]}]
Labelled(found) ==
    [f \in Critical |-> IF found[f] = {} THEN Blank ELSE CHOOSE v \in found[f] : TRUE]
PageOf(reads, lines, x, i) ==
    [text |-> [eng \in Engine |->
        [label |-> Labelled(FoundOn(reads, i, eng)), found |-> FoundOn(reads, i, eng),
         lines |-> {}]],
     zone |-> lines[i], like |-> x.like, formal |-> x.formal[i], dates |-> x.dates,
     marks |-> x.marks, sized |-> TRUE]

Pdf(ps) == [kind |-> "pdf", readable |-> TRUE, pages |-> ps]
Image(pg) == [kind |-> "image", readable |-> TRUE, pages |-> <<pg>>]

Passport(n, d, g, i, l, x) ==
    [reads |-> ("passport_number" :> n @@ "dob" :> d @@ "gender" :> g
                @@ "date_of_issue" :> i @@ "date_of_expiry" :> Both),
     lines |-> l, extra |-> x]

\* The readings of the number with all lines, of the other fields with none.
Passports ==
    {Passport(n, Both, g, i, l, x) :
        n \in Readings, g \in {Nobody, Both}, i \in {Nobody, Both},
        l \in Lines, x \in Extras}
    \cup {Passport(Both, d, g, i, <<{}, {}>>, x) :
        d \in {Both, Tied}, g \in {Nobody, Both}, i \in {Nobody, Both, Tied},
        x \in Extras}
PageI(p, i) == PageOf(p.reads, p.lines, p.extra, i)

\* Both pages as images, or one page; and what is refused.
Some == CHOOSE p \in Passports : p.lines[1] # {}
MCUploads ==
    {<<Image(PageI(p, 1)), Image(PageI(p, 2))>> : p \in Passports}
    \cup {<<Pdf(<<PageI(Some, 1), PageI(Some, 2)>>)>>,
          <<Image(PageI(Some, 1))>>,
          <<[Image(PageI(Some, 1)) EXCEPT !.readable = FALSE]>>,
          <<Image(PageI(Some, 1)), [Image(PageI(Some, 2)) EXCEPT !.readable = FALSE]>>,
          <<Pdf(<<>>)>>,
          <<Pdf(<<[PageI(Some, 1) EXCEPT !.sized = FALSE]>>)>>,
          <<Pdf(<<PageI(Some, 1), PageI(Some, 2), PageI(Some, 1)>>)>>,
          <<Pdf(<<PageI(Some, 1), PageI(Some, 2)>>), Image(PageI(Some, 1))>>}
MCEvidence == {Reference(u) : u \in MCUploads}

\* A page of one passport, read by both engines and in a checked line, and one of
\* which only a zone is read, with another number and check digits that fail.
Whole ==
    PageOf([f \in Critical |-> [v \in Value |-> IF v = 1 THEN {<<1, e>> : e \in Engine} ELSE {}]],
           <<{Checks(1, 1, 1)}, {}>>,
           [like |-> NoFields, formal |-> <<{Zone("y", 1)}, {}>>, dates |-> {}, marks |-> <<>>],
           1)
OnlyZone ==
    PageOf([f \in Critical |-> [v \in Value |-> {}]], <<{}, {}>>,
           [like |-> NoFields, formal |-> <<{}, {Zone("z", 2)}>>, dates |-> {},
            marks |-> <<>>], 2)
MCSplitUploads == {<<Image(Whole)>>, <<Image(Whole), Image(OnlyZone)>>}
MCSplitEvidence == {Reference(u) : u \in MCSplitUploads}

\* Workbooks: a full row, two of them, one with empty cells, one that differs,
\* one of another number, one column not mapped.
Full == [f \in Critical |-> 1]
At(i, cells) == [at |-> i, cells |-> cells]
Book(rows) == [mapped |-> Critical, rows |-> rows]
MCSheet ==
    {Book({At(1, Full)}), Book({At(1, Full), At(2, Full)}),
     Book({At(1, [Full EXCEPT !["dob"] = Blank, !["gender"] = Invalid])}),
     Book({At(1, [Full EXCEPT !["date_of_issue"] = 2])}),
     Book({At(1, [Full EXCEPT !["passport_number"] = 2])}),
     [mapped |-> Critical \ {"gender"}, rows |-> {At(1, Full)}]}
=============================================================================
