------------------------------- MODULE Palette ------------------------------
(***************************************************************************)
(* The command palette (GitnaCommandPalette.tsx): the rows of the typed       *)
(* query, the pages of a search for commits, the repeated search for files    *)
(* while the folder is being indexed, and what Enter does.                    *)
(*                                                                         *)
(* A query stands for its mode, its text and its switches; an answer to a     *)
(* search that was replaced is dropped (LatestReads has the store's part).    *)
(***************************************************************************)
EXTENDS Naturals, Sequences, FiniteSets

CONSTANTS
  CommitQueries,   \* queries for commits
  FileQueries,     \* queries for files
  Hits,            \* Hits[q]: how many commits or files match q
  HitsPerPage,     \* rows of one page of commits
  MaxPaletteActs,  \* bound on what the user does
  MaxPaletteFaults \* bound on answers that fail

NothingTyped == "nothing"
NoAnswer == [query |-> NothingTyped]

ASSUME PaletteAssumption ==
  /\ CommitQueries \intersect FileQueries = {} /\ NothingTyped \notin CommitQueries \union FileQueries
  /\ Hits \in [CommitQueries \union FileQueries -> Nat] /\ HitsPerPage \in Nat \ {0}

VARIABLES
  served,    \* the generation of the server, and whether the index is complete
  box,       \* the palette: open, its query, the active row, a refusal
  commits,   \* commitPage, commitSkip, commitLoading, commitError
  finds,     \* the store's search for files
  asked,     \* the request of the commit search, and of the file search
  operation, \* what Enter has started
  paletteActs \* bounds

paletteVars == <<served, box, commits, finds, asked, operation, paletteActs>>

(***************************************************************************)
(* Rows                                                                    *)
(***************************************************************************)

CommitRows(c, q) == IF c.page.query = q THEN Len(c.page.rows) + (IF c.page.more THEN 1 ELSE 0) ELSE 0
Rows(b, c, f) == CASE b.query \in CommitQueries -> CommitRows(c, b.query)
                   [] b.query \in FileQueries -> f.count
                   [] OTHER -> 0
\* The active row is kept inside the list.
Clamp(b, c, f) == [b EXCEPT !.row = IF Rows(b, c, f) = 0 THEN 1 ELSE IF @ > Rows(b, c, f) THEN Rows(b, c, f) ELSE @]

(***************************************************************************)
(* What the user does                                                      *)
(***************************************************************************)

MayUse == paletteActs.acts < MaxPaletteActs /\ paletteActs' = [paletteActs EXCEPT !.acts = @ + 1]

NoCommits == [page |-> NoAnswer, skip |-> 0, loading |-> FALSE, error |-> FALSE]

\* A new query: the commits found before are forgotten, their request aborted.
Query(b) ==
  /\ commits' = [NoCommits EXCEPT !.loading = b.open /\ b.query \in CommitQueries]
  /\ asked' = [asked EXCEPT !.commits = IF b.open /\ b.query \in CommitQueries
                                        THEN [query |-> b.query, skip |-> 0] ELSE NoAnswer]
  /\ box' = Clamp(b, commits', finds)

OpenPalette ==
  /\ ~box.open /\ MayUse
  /\ Query([open |-> TRUE, query |-> NothingTyped, row |-> 1, sought |-> NothingTyped])
  /\ UNCHANGED <<served, finds, operation>>

ClosePalette ==
  /\ box.open /\ MayUse /\ Query([box EXCEPT !.open = FALSE])
  /\ UNCHANGED <<served, finds, operation>>

TypeQuery(q) ==
  /\ box.open /\ q # box.query /\ MayUse /\ Query([box EXCEPT !.query = q, !.row = 1])
  /\ UNCHANGED <<served, finds, operation>>

MoveRow ==
  /\ box.open /\ Rows(box, commits, finds) > 1 /\ MayUse
  /\ box' = [box EXCEPT !.row = IF @ = Rows(box, commits, finds) THEN 1 ELSE @ + 1]
  /\ UNCHANGED <<served, commits, finds, asked, operation>>

\* As many commits further as are shown; asking again for the same place does nothing.
LoadMore ==
  /\ LET n == Len(commits.page.rows)
     IN  commits' = [commits EXCEPT !.skip = n, !.loading = @ \/ commits.skip # n,
                                    !.error = @ /\ commits.skip = n]
  /\ asked' = IF commits'.skip = commits.skip THEN asked
              ELSE [asked EXCEPT !.commits = [query |-> box.query, skip |-> commits'.skip]]
  /\ UNCHANGED <<operation, box>>

\* Rows that are not of the typed query cannot be executed.
Enter ==
  /\ box.open /\ box.row <= Rows(box, commits, finds) /\ MayUse
  /\ CASE box.query \in CommitQueries /\ commits.page.more /\ box.row = CommitRows(commits, box.query) ->
            ~commits.loading /\ LoadMore
       [] box.query \in FileQueries /\ finds.query # box.query -> FALSE
       [] OTHER -> /\ operation' = [query |-> box.query,
                        at |-> IF box.query \in CommitQueries THEN commits.page.rows[box.row]
                               ELSE box.row]
                   /\ UNCHANGED <<commits, asked, box>>
  /\ UNCHANGED <<served, finds>>

\* The palette closes when what Enter started has been done.
OperationEnds(ok) ==
  /\ operation # NoAnswer /\ operation' = NoAnswer
  /\ IF ok /\ box.open THEN Query([box EXCEPT !.open = FALSE]) ELSE UNCHANGED <<box, commits, asked>>
  /\ UNCHANGED <<served, finds, paletteActs>>

(***************************************************************************)
(* Searches                                                                *)
(***************************************************************************)

ServedChanges ==
  /\ \/ served.gen < 2 /\ served' = [served EXCEPT !.gen = @ + 1]
     \/ ~served.indexed /\ served' = [served EXCEPT !.indexed = TRUE]
  /\ UNCHANGED <<box, commits, finds, asked, operation, paletteActs>>

\* The commits that match, from one on, by their places in the history.
Page(q, skip) ==
  LET last == IF skip + HitsPerPage < Hits[q] THEN skip + HitsPerPage ELSE Hits[q]
  IN  [rows |-> [i \in 1..(last - skip) |-> skip + i], more |-> last < Hits[q]]

\* A page extends what is shown when both are of one generation, else it is all
\* that is shown.
CommitsArrive ==
  /\ asked.commits # NoAnswer
  /\ LET request == asked.commits
         extends == request.skip > 0 /\ commits.page.query = request.query /\ commits.page.gen = served.gen
         page == Page(request.query, request.skip)
     IN  commits' = [commits EXCEPT !.loading = FALSE,
           !.page = [query |-> request.query, gen |-> served.gen, more |-> page.more,
                     rows |-> IF extends THEN commits.page.rows \o page.rows ELSE page.rows]]
  /\ asked' = [asked EXCEPT !.commits = NoAnswer]
  /\ box' = Clamp(box, commits', finds)
  /\ UNCHANGED <<served, finds, operation, paletteActs>>

MayFail == paletteActs.faults < MaxPaletteFaults /\ paletteActs' = [paletteActs EXCEPT !.faults = @ + 1]

CommitsFail ==
  /\ asked.commits # NoAnswer /\ MayFail
  /\ commits' = [commits EXCEPT !.loading = FALSE, !.error = TRUE]
  /\ asked' = [asked EXCEPT !.commits = NoAnswer]
  /\ UNCHANGED <<served, box, finds, operation>>

\* The timer of the file search: the typed query has not been asked for, or its
\* answer was incomplete and no search is under way.
FilesAreDue ==
  /\ box.open /\ box.query \in FileQueries
  /\ \/ box.sought # box.query
     \/ ~finds.loading /\ ~finds.error /\ ~(finds.query = box.query /\ finds.complete)

SearchFiles ==
  /\ FilesAreDue
  /\ box' = [box EXCEPT !.sought = box.query]
  /\ finds' = [finds EXCEPT !.loading = TRUE, !.error = FALSE]
  /\ asked' = [asked EXCEPT !.files = [query |-> box.query, gen |-> served.gen]]
  /\ UNCHANGED <<served, commits, operation, paletteActs>>

\* An answer older than the generation that the client knows by now counts for
\* nothing: it is the query's, empty and incomplete, so that it is asked for again.
FilesArrive ==
  /\ asked.files # NoAnswer
  /\ \E old \in BOOLEAN :
       /\ old => asked.files.gen < served.gen
       /\ finds' = [query |-> asked.files.query, count |-> IF old THEN 0 ELSE Hits[asked.files.query],
                    complete |-> ~old /\ served.indexed, loading |-> FALSE, error |-> FALSE]
  /\ asked' = [asked EXCEPT !.files = NoAnswer]
  /\ box' = Clamp(box, commits, finds')
  /\ UNCHANGED <<served, commits, operation, paletteActs>>

FilesFail ==
  /\ asked.files # NoAnswer /\ MayFail
  /\ finds' = [finds EXCEPT !.loading = FALSE, !.error = TRUE]
  /\ asked' = [asked EXCEPT !.files = NoAnswer]
  /\ UNCHANGED <<served, box, commits, operation>>

(***************************************************************************)
(* The specification                                                       *)
(***************************************************************************)

PaletteInit ==
  /\ served \in [gen : {1}, indexed : BOOLEAN]
  /\ box = [open |-> FALSE, query |-> NothingTyped, row |-> 1, sought |-> NothingTyped]
  /\ commits = NoCommits
  /\ finds = [query |-> NothingTyped, count |-> 0, complete |-> FALSE, loading |-> FALSE, error |-> FALSE]
  /\ asked = [commits |-> NoAnswer, files |-> NoAnswer]
  /\ operation = NoAnswer
  /\ paletteActs = [acts |-> 0, faults |-> 0]

PaletteNext ==
  \/ OpenPalette \/ ClosePalette \/ MoveRow \/ Enter
  \/ \E q \in CommitQueries \union FileQueries : TypeQuery(q)
  \/ \E ok \in BOOLEAN : OperationEnds(ok)
  \/ ServedChanges \/ CommitsArrive \/ CommitsFail \/ SearchFiles \/ FilesArrive \/ FilesFail

(***************************************************************************)
(* What must hold                                                          *)
(***************************************************************************)

\* The rows are answers to what is in the box, the commits from the newest on
\* without a gap as long as the repository stands still; the active row is one of
\* them; what the palette says is loading is under way, for the query in the box.
PaletteIsTruthful ==
  /\ box.row \in 1..Rows(box, commits, finds) \/ box.row = 1
  /\ box.open /\ box.query \in CommitQueries /\ ~commits.loading /\ ~commits.error =>
       /\ commits.page.query = box.query
       /\ served.gen = 1 => \A i \in DOMAIN commits.page.rows : commits.page.rows[i] = i
  /\ commits.loading => asked.commits.query = box.query /\ box.open
  /\ box.open /\ box.query \in FileQueries /\ ~FilesAreDue /\ ~finds.loading /\ ~finds.error =>
       finds.query = box.query /\ finds.count = Hits[box.query]
  /\ finds.loading => asked.files # NoAnswer

=============================================================================
