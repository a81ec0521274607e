------------------------------ MODULE Extraction ------------------------------
(***************************************************************************)
(* What the OCR child does with the sources of one record                  *)
(* (ocr._extract_raw and the first half of ocr_recovery.reconcile): it     *)
(* opens every source, reads every page with EasyOCR and Tesseract, keeps  *)
(* for each field the first value found, lets the only machine-readable    *)
(* zone overrule it, and counts who read what.                             *)
(*                                                                         *)
(* A page is what the engines and the text patterns find on it.  EasyOCR   *)
(* that cannot be loaded, or fails on a page, is a page it finds nothing   *)
(* on.  Tesseract that takes too long, or a library that raises, ends the  *)
(* extraction.                                                             *)
(***************************************************************************)
EXTENDS Verification, SequencesExt

CONSTANTS
    Uploads,    \* the sources of the records considered
    MrzText,    \* texts of machine-readable zones
    MaxPages    \* ocr.MAX_PAGES

Engine == {"tesseract", "easyocr"}
\* Per field: the first value under its label, the values under any form of it.
Fields == [Critical -> Value \cup {Blank}]
Found == [Critical -> SUBSET Value]
NoFields == [f \in Critical |-> Blank]

Line == [passport_number: Value, dob: Value, date_of_expiry: Value, gender: Value]

\* What is shown, what is voted on, and the lines whose check digits hold.
Text == [label: Fields, found: Found, lines: SUBSET Line]

\* Besides the texts of the page and of its lower part, read again by
\* Tesseract: what looks like a noisy machine-readable line, zones of the form
\* of TD3 whether or not their check digits hold, dates that may be of issue,
\* and marks of a gender in order.
Page == [text: [Engine -> Text], zone: SUBSET Line, like: Fields,
         formal: SUBSET [mrz: MrzText, fields: Fields],
         dates: SUBSET Value, marks: Seq([gender: Value, weight: {1, 2}]),
         sized: BOOLEAN]
Source == [kind: {"pdf", "image"}, readable: BOOLEAN, pages: Seq(Page)]

ASSUME UploadsAssumption ==
    /\ Value \subseteq Nat /\ MaxPages \in Nat \ {0}
    /\ (1..MaxPages) \X Engine \subseteq Voter
    /\ Uploads \subseteq Seq(Source)

VARIABLES
    upload,     \* the sources
    source,     \* the one being read
    page,       \* the next page of it
    pages,      \* the pages read
    fields,     \* the first value found for each field
    zones,      \* the machine-readable zones found
    outcome,    \* "running", "ok" or "refused"
    result      \* what the child sends if the outcome is "ok"

evars == <<upload, source, page, pages, fields, zones, outcome, result>>

(****************************** Votes **************************************)

\* The second half of a page's name is the engine: the pass over the zone
\* votes as Tesseract, so it confirms nothing Tesseract alone has read.
LinesBy(pg, eng) ==
    pg.text[eng].lines \cup (IF eng = "tesseract" THEN pg.zone ELSE {})

VotersOf(ps, f, v) ==
    {w \in (DOMAIN ps) \X Engine : v \in ps[w[1]].text[w[2]].found[f]}

PrefixesOf(ps) ==
    UNION {{[passport_number |-> l.passport_number, dob |-> l.dob,
             date_of_expiry |-> l.date_of_expiry, gender |-> l.gender, voter |-> w] :
                l \in LinesBy(ps[w[1]], w[2])} : w \in (DOMAIN ps) \X Engine}

\* The latest of the dates, and the gender with the most marks: the first
\* one marked if several have as many.
LatestDate(ps) ==
    LET dates == UNION {ps[i].dates : i \in DOMAIN ps} IN
    IF dates = {} THEN Blank ELSE Max(dates)
MostMarked(ps) ==
    LET marks == FlattenSeq([i \in DOMAIN ps |-> ps[i].marks])
        Score(g) == FoldSeq(LAMBDA m, n : IF m.gender = g THEN n + m.weight ELSE n,
                            0, marks)
        best == {i \in DOMAIN marks : \A j \in DOMAIN marks :
                    Score(marks[j].gender) <= Score(marks[i].gender)} IN
    IF best = {} THEN Blank ELSE marks[Min(best)].gender

Scanned(ps) == [NoFields EXCEPT !["date_of_issue"] = LatestDate(ps),
                                !["gender"] = MostMarked(ps)]

EvidenceOf(ps, kept) ==
    [prefixes |-> PrefixesOf(ps),
     printed |-> [f \in Critical |-> [v \in Value |-> VotersOf(ps, f, v)]],
     scanned |-> Scanned(ps), kept |-> kept]

(***************************** The fields **********************************)

FirstOf(a, b) == [f \in Critical |-> IF a[f] # Blank THEN a[f] ELSE b[f]]

\* EasyOCR before Tesseract before the pattern for noisy lines.
PageFields(pg) ==
    FirstOf(FirstOf(pg.text["easyocr"].label, pg.text["tesseract"].label), pg.like)

\* The zone overrules what is printed, unless the record has several.
Overruled(zs, printed) ==
    IF Cardinality(zs) = 1 THEN FirstOf((CHOOSE z \in zs : TRUE).fields, printed)
    ELSE printed

(***************************** The loop ************************************)

ExtractionInit ==
    /\ upload \in Uploads
    /\ source = 1 /\ page = 1 /\ pages = <<>>
    /\ fields = NoFields /\ zones = {} /\ outcome = "running"
    /\ result = NoRecord

Current == upload[source]
Reading == outcome = "running" /\ source <= Len(upload)
OnPage == Reading /\ page <= Len(Current.pages)

\* A source that cannot be opened, or a PDF of too many pages, is refused
\* before its first page; the total is found out page by page.
CannotOpen ==
    /\ page = 1
    /\ \/ ~Current.readable
       \/ Current.kind = "pdf" /\ Len(Current.pages) > MaxPages
NoSize == ~Current.pages[page].sized
BadPage_NoTotal == OnPage /\ NoSize
BadPage == OnPage /\ (NoSize \/ Len(pages) >= MaxPages)

Refuse == outcome' = "refused"
          /\ UNCHANGED <<upload, source, page, pages, fields, zones, result>>

RefuseSource == Reading /\ (CannotOpen \/ BadPage) /\ Refuse
PageFails == OnPage /\ ~CannotOpen /\ ~BadPage /\ Refuse

ReadPage_LastWins ==
    /\ OnPage /\ ~CannotOpen /\ ~BadPage
    /\ LET pg == Current.pages[page] IN
       /\ pages' = Append(pages, pg)
       /\ fields' = FirstOf(PageFields(pg), fields)
       /\ zones' = zones \cup pg.formal
    /\ page' = page + 1
    /\ UNCHANGED <<upload, source, outcome, result>>
ReadPage ==
    /\ OnPage /\ ~CannotOpen /\ ~BadPage
    /\ LET pg == Current.pages[page] IN
       /\ pages' = Append(pages, pg)
       /\ fields' = FirstOf(fields, PageFields(pg))
       /\ zones' = zones \cup pg.formal
    /\ page' = page + 1
    /\ UNCHANGED <<upload, source, outcome, result>>

NextSource ==
    /\ Reading /\ ~CannotOpen /\ page > Len(Current.pages)
    /\ source' = source + 1 /\ page' = 1
    /\ UNCHANGED <<upload, pages, fields, zones, outcome, result>>

\* All pages are read: the fields are resolved from all of them.
Finish ==
    /\ outcome = "running" /\ source > Len(upload)
    /\ IF pages = <<>> THEN outcome' = "refused" /\ UNCHANGED result
       ELSE /\ outcome' = "ok"
            /\ result' = Reconcile(EvidenceOf(pages, Overruled(zones, fields)))
    /\ UNCHANGED <<upload, source, page, pages, fields, zones>>

ExtractionStep == RefuseSource \/ PageFails \/ ReadPage \/ NextSource \/ Finish

(*************************** The reference *********************************)

\* All pages of the upload, in order; of each field, the first page that has
\* it, overruled by the only zone of the record.
AllPages(u) == FlattenSeq([i \in DOMAIN u |-> u[i].pages])
FirstFound(ps, f) ==
    LET having == {i \in DOMAIN ps : PageFields(ps[i])[f] # Blank} IN
    IF having = {} THEN Blank ELSE PageFields(ps[Min(having)])[f]
Reference(u) ==
    LET ps == AllPages(u) IN
    EvidenceOf(ps, Overruled(UNION {ps[i].formal : i \in DOMAIN ps},
                             [f \in Critical |-> FirstFound(ps, f)]))
=============================================================================
