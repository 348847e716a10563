---------------------------- MODULE PdfExtraction ----------------------------
(***************************************************************************)
(* pdf_extraction.py: one extraction of a PDF manual.  Up to three readers *)
(* look at it: pdftotext for the layout of the text and for its            *)
(* coordinates, and a worker process for the drawn tables.  Each may fail, *)
(* time out or overflow, and what the others found is then used as far as  *)
(* it goes.  A manual too large for one pass is read in chunks, against a  *)
(* deadline.                                                               *)
(*                                                                         *)
(* The readers are external: what one answers is any of a set of answers.  *)
(***************************************************************************)
EXTENDS RowReconciliation

CONSTANTS
    Documents,          \* what the pages show: header, rows, index, tail or blank
    Ranges,             \* the pages asked for, None for the whole document
    LayoutAnswers,      \* what each reader may find: [rows, rejected]
    CoordinateAnswers,
    GridAnswers,        \* [rows, quarantined]
    Span,               \* _MAX_PAGE_SPAN
    ScanPages,          \* _MAX_CHUNK_SCAN_PAGES
    MaxGridPages,       \* _MAX_GRID_PAGES
    MaxRecords          \* _MAX_CHUNK_RECORDS

ASSUME ExtractionAssumption ==
    /\ Documents \subseteq Seq({"header", "rows", "index", "tail", "blank"})
    /\ \A d \in Documents : \A pages \in SUBSET (DOMAIN d) : pages # None
    /\ Span \in Nat \ {0} /\ ScanPages \in Nat \ {0}
    /\ \A r \in Ranges \ {None} : r # {} /\ Cardinality(r) <= Span
    /\ MaxGridPages \in Nat /\ MaxRecords \in Nat

Elements(s) == {s[i] : i \in DOMAIN s}

\* parse_layout_rows, parse_bbox_rows: a reader lists places of its own, each as a row
\* or as a rejection; a rejection found later replaces the row of its place.
RowFields == Fields \cup {"other", "mark", "marks", "code"}
Lists(reader, one, two) ==
    LET rows == Elements(one) \cup Elements(two)
    IN /\ one \in Seq(Elements(one)) /\ two \in Seq(Elements(two))
       /\ \A r \in rows : /\ r = [f \in RowFields |-> r[f]]
                          /\ r.mark[1] = reader /\ r.marks = {r.mark}
       /\ \A r, q \in rows : r.mark = q.mark => r = q
ASSUME ReaderAssumption ==
    /\ \A a \in LayoutAnswers : Lists("strict", a.rows, a.rejected)
    /\ \A a \in CoordinateAnswers : Lists("coordinate", a.rows, a.rejected)
    /\ \A a \in GridAnswers : Lists("grid", a.rows, a.quarantined)
\* A row of the grid has a code when it is set aside, and only then.
ASSUME GridAssumption ==
    \A a \in GridAnswers : \A r \in Elements(a.rows) : r.code = None

VARIABLES
    document, range,    \* the job
    phase,              \* the call that comes next
    first,              \* the first page of the chunk, 0 outside chunks
    found,              \* register pages of this pass
    strict,             \* rows of the layout reader, of this pass
    text,               \* strict and coordinate rows reconciled, of this pass
    total,              \* records, quarantined rows and conflicts of all passes
    rejected, detected, \* rejected rows and register pages of all passes
    holds,              \* hold codes so far
    result,             \* the artifact, or None
    seen                \* history: every row and rejection that was read
vars == <<document, range, phase, first, found, strict, text, total, rejected,
          detected, holds, result, seen>>

Nothing == [records |-> <<>>, quarantined |-> <<>>, conflicts |-> 0]
Pages == DOMAIN document
Asked == IF range = None THEN Pages ELSE Pages \cap range

\* discover_register_pages, of one text: a tail page goes on with a table that
\* the page before it has.
Discovered(pages) ==
    LET register[p \in Pages \cup {0}] ==
            /\ p \in pages
            /\ \/ document[p] \in {"header", "rows"}
               \/ document[p] = "tail" /\ register[p - 1]
    IN {p \in pages : register[p]}

\* _run_grid_worker and the worker it runs: "rows" is exit 0 with evidence of the
\* right form, "budget" exit 3 with a budget error, and "error" all the others,
\* a worker killed at its time limit among them.
Failed(why) == [failed |-> why, records |-> <<>>, quarantined |-> <<>>]
GridEvidence(exit, answer, pages) ==
    LET rows == On(answer.rows, IF pages = None THEN Pages ELSE pages)
        aside == On(answer.quarantined, IF pages = None THEN Pages ELSE pages)
        asked == IF pages = None THEN Len(document) ELSE Cardinality(pages)
    IN CASE exit # "rows" -> Failed(exit)
         [] asked > MaxGridPages \/ rows \o aside = <<>> -> Failed("error")
         [] OTHER -> [failed |-> None, records |-> rows, quarantined |-> aside]
GridExits == {"rows", "budget", "error"}
GridPages(g) == PagesOf(g.records) \cup PagesOf(g.quarantined)
Budget(g) == IF g.failed = "budget" THEN {"budget"} ELSE {}

Init ==
    /\ document \in Documents /\ range \in Ranges
    /\ phase = "preflight" /\ first = 0 /\ found = {} /\ strict = <<>>
    /\ text = Nothing /\ total = Nothing /\ rejected = <<>> /\ detected = {}
    /\ holds = {} /\ result = None /\ seen = {}

Job == <<document, range>>
Pass == <<found, strict, text>>
Totals == <<total, rejected, detected>>
Finish(artifact) ==
    /\ result' = artifact /\ phase' = "done"
    /\ UNCHANGED <<Job, first, Pass, Totals, holds>>

-----------------------------------------------------------------------------
(* extract_pdf: OCR evidence, which is never taken without a human. *)

Ocr(answer, supplied) ==
    /\ phase = "preflight" /\ range # None
    /\ LET rows == On(answer.rows, supplied)
           refused == On(answer.rejected, supplied)
       IN IF supplied # range
          THEN Finish(None) /\ UNCHANGED seen      \* PdfExtractionError
          ELSE /\ Finish(Envelope(rows, refused, <<>>, {"ocr"}, range, TRUE))
               /\ seen' = Elements(rows \o refused)

-----------------------------------------------------------------------------
(* extract_pdf: one pass over the pages asked for. *)

Preflight ==
    /\ phase = "preflight"
    /\ phase' = "layout"
    /\ UNCHANGED <<Job, first, Pass, Totals, holds, result, seen>>

\* pdftotext is missing or too old, or its call times out, fails, or finds no text.
TextFails ==
    /\ phase \in {"preflight", "layout"}
    /\ phase' = "recover" /\ holds' = {"text"}
    /\ UNCHANGED <<Job, first, Pass, Totals, result, seen>>

\* Too much output for one pass: read in chunks, unless pages were asked for.
LayoutOverflows ==
    /\ phase = "layout"
    /\ IF range = None THEN phase' = "chunk" /\ first' = 1 /\ UNCHANGED holds
       ELSE phase' = "recover" /\ holds' = {"text"} /\ UNCHANGED first
    /\ UNCHANGED <<Job, Pass, Totals, result, seen>>

\* Rows of another protocol and samples of a display are rejected on every page that
\* is read, register page or not.
Anywhere == {"excluded", "display"}
Refused(answer, pages, given) ==
    At(answer.rejected,
       {i \in DOMAIN answer.rejected :
            LET r == answer.rejected[i]
            IN PageOf(r) \in IF r.code \in Anywhere THEN pages \cup given ELSE pages})
Layout(answer) ==
    /\ phase = "layout"
    /\ LET pages == IF range = None THEN Discovered(Pages) ELSE range
       IN /\ found' = pages /\ detected' = pages
          /\ strict' = On(answer.rows, pages)
          /\ rejected' = Refused(answer, pages, Asked)
          /\ phase' = IF pages = {} THEN "alone" ELSE "coordinate"
    /\ seen' = Elements(strict' \o rejected')
    /\ UNCHANGED <<Job, first, text, total, holds, result>>

\* The coordinate reader is given the span of the pages: what it rejects between
\* them counts, what it accepts there does not.
Between(pages) ==
    LET lo == CHOOSE p \in pages : \A q \in pages : p <= q
        hi == CHOOSE p \in pages : \A q \in pages : q <= p
    IN lo..hi
\* A reader that fails after page p has no rows, but what it rejected until then stays
\* rejected.  A call that fails has not read a page: p = 0.
Broken(answer, p) == [rows |-> <<>>, rejected |-> On(answer.rejected, 1..p)]
CoordinateFails(answer) ==
    /\ phase = "coordinate"
    /\ phase' = "recover" /\ holds' = {"text"}
    /\ LET refused == On(answer.rejected, Between(found))
       IN rejected' = rejected \o refused /\ seen' = seen \cup Elements(refused)
    /\ UNCHANGED <<Job, first, Pass, total, detected, result>>

Coordinates(answer) ==
    LET rows == On(answer.rows, found)
        refused == On(answer.rejected, Between(found))
    IN /\ rejected' = rejected \o refused
       /\ text' = Reconciled(strict, rows, <<>>)
       /\ seen' = seen \cup Elements(rows \o refused)
Coordinate(answer) ==
    /\ phase = "coordinate"
    /\ Coordinates(answer)
    /\ phase' = "grid"
    /\ UNCHANGED <<Job, first, found, strict, total, detected, holds, result>>

Read(t) == t.records # <<>> \/ t.quarantined # <<>>
\* The grid rows join what the text readers agreed on, and what they did not.
WithGrid(g) ==
    LET all == text.quarantined \o g.quarantined
        r == Reconciled(text.records, g.records, all)
    IN IF g.records = <<>> THEN [text EXCEPT !.quarantined = all]
       ELSE [r EXCEPT !.conflicts = @ + text.conflicts]
Conflicting(t) == IF t.conflicts > 0 THEN {"conflict"} ELSE {}
Unavailable(g) == IF g.failed = None THEN {} ELSE {"unavailable"}

\* No text reader found a row: the grid alone.
GridForNoText(g) ==
    /\ ~Read(text)
    /\ Finish(Envelope(g.records, rejected, g.quarantined,
                       IF g.failed = "budget" THEN {"budget"} ELSE Unavailable(g),
                       found, g.failed # "budget"))
GridForText(g) ==
    /\ Read(text)
    /\ LET t == WithGrid(g)
       IN Finish(Envelope(t.records, rejected, t.quarantined,
                          Budget(g) \cup Conflicting(t), found, g.failed # "budget"))
Grid(exit, answer) ==
    /\ phase = "grid"
    /\ LET g == GridEvidence(exit, answer, found)
       IN /\ seen' = seen \cup Elements(g.records \o g.quarantined)
          /\ GridForNoText(g) \/ GridForText(g)

\* No page looks like one with registers: the grid reader, over all pages.
GridAlone(exit, answer) ==
    /\ phase = "alone"
    /\ LET g == GridEvidence(exit, answer, None)
       IN /\ seen' = seen \cup Elements(g.records \o g.quarantined)
          /\ Finish(Envelope(g.records, rejected, g.quarantined, Unavailable(g),
                             GridPages(g), TRUE))

\* _recover_grid_or: the grid, else the layout rows, else the failure.  Faulty variant:
\* a grid of nothing but quarantined rows takes the place of the layout rows.
GridFirstLoose(g) == g.failed = None
GridFirst(g) == g.records # <<>> \/ (strict = <<>> /\ g.failed = None)
Recover(exit, answer) ==
    /\ phase = "recover"
    /\ LET g == GridEvidence(exit, answer, range)
           kept == PagesOf(strict)
       IN /\ seen' = seen \cup Elements(g.records \o g.quarantined)
          /\ Finish(
                IF GridFirst(g)
                THEN Envelope(g.records, <<>>, g.quarantined, {}, GridPages(g), TRUE)
                ELSE IF strict # <<>>
                THEN Envelope(strict, rejected, g.quarantined, Budget(g), kept,
                              g.failed # "budget")
                ELSE Envelope(<<>>, <<>>, <<>>, holds \cup Budget(g), {},
                              g.failed # "budget"))

-----------------------------------------------------------------------------
(* _extract_large_pdf_in_chunks. *)

Chunk == (first..(first + Span - 1)) \cap Pages
ChunkArtifact(t, refused, pages, hs, scanned) ==
    Envelope(t.records, refused, t.quarantined,
             hs \cup Conflicting(t)
                \cup (IF scanned THEN {} ELSE {"scan-limit"})
                \cup (IF t.records = <<>> THEN {"unavailable"} ELSE {}),
             pages, scanned /\ "budget" \notin hs)

\* A short chunk is the last.  Faulty variant: so is a full one.
LastChunkLoose(pages) == Cardinality(pages) <= Span
LastChunk(pages) == Cardinality(pages) < Span
\* No chunk is read beyond the scan limit.
ChunkEnd(t, refused, pages, hs) ==
    LET scanned == LastChunk(Chunk)
        over == scanned \/ first + Span > ScanPages
    IN /\ found' = {} /\ strict' = <<>> /\ text' = Nothing
       /\ total' = t /\ rejected' = refused /\ detected' = pages /\ holds' = hs
       /\ IF over THEN /\ phase' = "done" /\ UNCHANGED first
                       /\ result' = ChunkArtifact(t, refused, pages, hs, scanned)
          ELSE phase' = "chunk" /\ first' = first + Span /\ UNCHANGED result

\* The deadline passes, or a call fails: what this chunk read so far is dropped.
ChunkStops ==
    /\ phase \in {"chunk", "chunk-coordinate", "chunk-grid"}
    /\ Finish(ChunkArtifact(total, rejected, detected, holds, FALSE))
    /\ UNCHANGED seen

ChunkLayout(answer) ==
    /\ phase = "chunk" /\ Chunk # {}
    /\ LET pages == Discovered(Chunk)
           refused == Refused(answer, pages, Chunk)
           all == detected \cup pages
       IN IF pages = {}
          THEN ChunkEnd(total, rejected, all, holds) /\ UNCHANGED seen
          ELSE /\ found' = pages /\ detected' = all
               /\ strict' = On(answer.rows, pages)
               /\ rejected' = rejected \o refused
               /\ phase' = "chunk-coordinate"
               /\ seen' = seen \cup Elements(strict' \o refused)
               /\ UNCHANGED <<first, text, total, holds, result>>
    /\ UNCHANGED Job

\* A failure leaves the layout rows alone.
ChunkCoordinate(answer) ==
    /\ phase = "chunk-coordinate"
    /\ Coordinates(answer)
    /\ phase' = "chunk-grid"
    /\ UNCHANGED <<Job, first, found, strict, total, detected, holds, result>>

Cut(s, room) == SubSeq(s, 1, IF Len(s) < room THEN Len(s) ELSE room)
\* The rows so far and those of this chunk, t.
Together(t) ==
    [records |-> total.records \o t.records, quarantined |-> total.quarantined \o t.quarantined,
     conflicts |-> total.conflicts + t.conflicts]
Entries(all) ==
    Len(all.records) + Len(rejected) + Len(all.quarantined) + all.conflicts
\* More than MaxRecords: what fits is kept, accepted rows first.
Overflow(all, hs) ==
    LET some == Cut(all.records, MaxRecords)
        refused == Cut(rejected, MaxRecords - Len(some))
        aside == Cut(all.quarantined, MaxRecords - Len(some) - Len(refused))
        room == MaxRecords - Len(some) - Len(refused) - Len(aside)
    IN /\ phase' = "done" /\ rejected' = refused /\ holds' = hs
       /\ total' = [records |-> some, quarantined |-> aside,
                    conflicts |-> IF all.conflicts < room THEN all.conflicts ELSE room]
       /\ result' = ChunkArtifact(total', rejected', detected, hs, FALSE)
       /\ UNCHANGED <<first, Pass, detected>>
Account(all, hs) ==
    IF Entries(all) > MaxRecords THEN Overflow(all, hs)
    ELSE ChunkEnd(all, rejected, detected, hs)
ChunkGrid(exit, answer) ==
    /\ phase = "chunk-grid"
    /\ LET g == GridEvidence(exit, answer, found)
       IN /\ seen' = seen \cup Elements(g.records \o g.quarantined)
          /\ Account(Together(WithGrid(g)), holds \cup Budget(g))
    /\ UNCHANGED Job

Next ==
    \/ Preflight \/ TextFails \/ LayoutOverflows \/ ChunkStops
    \/ \E a \in LayoutAnswers :
        Layout(a) \/ ChunkLayout(a) \/ \E p \in Ranges \ {None} : Ocr(a, p)
    \/ \E a \in CoordinateAnswers : Coordinate(a) \/ ChunkCoordinate(a)
    \/ \E a \in CoordinateAnswers, p \in Pages \cup {0} :
        CoordinateFails(Broken(a, p)) \/ ChunkCoordinate(Broken(a, p))
    \/ \E x \in GridExits, a \in GridAnswers :
        Grid(x, a) \/ GridAlone(x, a) \/ Recover(x, a) \/ ChunkGrid(x, a)

Spec == Init /\ [][Next]_vars

-----------------------------------------------------------------------------
(* Properties. *)

Marks(rows) == UNION {r.marks : r \in rows}
\* The coordinate reader failed after the layout reader had listed rows or rejections,
\* and they gave way: to the records of the grid, if it has any, else, where all of them
\* were rejections, to whatever the grid answers, its failure included.
Replaced ==
    /\ holds = {"text"} /\ strict \o rejected # <<>>
    /\ strict = <<>> \/ \E r \in seen : r.mark[1] = "grid" /\ r.code = None
Artifact == phase = "done" /\ result # None

\* What any reader accepted, rejected or quarantined is in the artifact, whatever
\* the other readers made of it and whichever of them failed: layout rows also when the
\* coordinate reader fails and the grid has nothing or only quarantined rows.  Rows are
\* dropped by a scan that stopped early, which says so, and, without a word, when the
\* grid replaces the layout after a failure.  _reconcile, _envelope, _recover_grid_or.
NothingDropped ==
    Artifact /\ ~Replaced /\ "scan-limit" \notin result.holds =>
        Marks(seen) \subseteq
            MarksOf(result.records) \cup MarksOf(result.rejected)
                \cup MarksOf(result.quarantined)

\* Rows merged into one record agree with each other wherever they say something of a
\* material field: there a reader is never overruled in silence, not by two others
\* either.  In other fields the row on the left has its way.  _reconcile.
RecordsAgree ==
    Artifact => \A i \in DOMAIN result.records : \A a, b \in seen :
        a.marks \cup b.marks \subseteq result.records[i].marks => ~Conflicts(a, b)

\* Complete coverage is claimed only when every row read is an accepted record, the
\* grid reader did not run out of budget, and every page asked for with a register
\* header or row was read.  Two claims are not earned so: where the grid replaced the
\* layout, rows that were read are missing; and where a text reader failed, the pages
\* of the rows that are left count as all of them.  _source_coverage and its callers.
CompleteIsEarned ==
    Artifact /\ ~Replaced /\ result.complete =>
        /\ Marks(seen) \subseteq MarksOf(result.records)
        /\ "budget" \notin result.holds
        /\ holds # {"text"} =>
             \A p \in Asked : document[p] \in {"header", "rows"} => p \in result.detected

=============================================================================
