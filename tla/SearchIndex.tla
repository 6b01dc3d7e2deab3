----------------------------- MODULE SearchIndex -----------------------------
(***************************************************************************)
(* The index of a folder's file names (internal/app/folder_search.go): a       *)
(* builder that walks the folder and writes a temporary file, searches by name  *)
(* and by content (content_search.go) that read it meanwhile, invalidations     *)
(* that drop it, and the removal of files that nobody reads any more.          *)
(*                                                                         *)
(* A step is a section under the index's lock, or what is done without it.     *)
(* The folder's files are Chunks pieces; which of them a walk finds, the        *)
(* ranking and what git ignores are left out.                                 *)
(***************************************************************************)
EXTENDS Naturals, FiniteSets, TLC

CONSTANTS
  Builds,            \* builders, each with the temporary file of its number
  Lookups,           \* searches
  Chunks,            \* pieces in which a walk publishes
  MaxInvalidations,  \* bound on invalidations
  MaxIndexFaults     \* bound on what the disk refuses

NoFile == 0

VARIABLES
  searchIndex,   \* folderSearchIndex
  builders,      \* the builders
  indexFiles,    \* the temporary files there are, and those about to be removed
  lookups,       \* the searches
  indexActs      \* bounds; the session's end

indexVars == <<searchIndex, builders, indexFiles, lookups, indexActs>>

NoIndex == [path |-> NoFile, size |-> 0, complete |-> FALSE, building |-> FALSE, err |-> FALSE,
            cancel |-> NoFile]

\* The lock protects these; readers and retired survive an invalidation.
Dropped(i) == NoIndex @@ i

Removing(paths) == indexFiles' = [indexFiles EXCEPT !.removing = @ \union (paths \ {NoFile})]

Cancelled(b) == builders[b].cancelled \/ indexActs.stopped

\* retirePathLocked: the files to be removed now, and the index.
RetiredNow(i, path) == IF i.readers > 0 \/ path \in i.retired THEN {} ELSE {path}
Retired(i, path) ==
  IF i.readers > 0 /\ path # NoFile THEN [i EXCEPT !.retired = @ \union {path}] ELSE i

(***************************************************************************)
(* The builder                                                             *)
(***************************************************************************)

Unused == {b \in Builds : builders[b].at = "none"}

\* startFileSearchIndex: an index that is complete or on its way is kept.
Started ==
  IF searchIndex.building \/ searchIndex.complete
  THEN UNCHANGED <<searchIndex, builders, indexFiles, indexActs>>
  ELSE LET i == Retired(searchIndex, searchIndex.path)
           now == RetiredNow(searchIndex, searchIndex.path)
       IN  \/ /\ Unused # {}
              /\ LET b == CHOOSE c \in Unused : TRUE
                 IN  /\ searchIndex' = [NoIndex EXCEPT !.path = b, !.building = TRUE, !.cancel = b] @@ i
                     /\ builders' = [builders EXCEPT ![b] =
                          [at |-> "walk", cancelled |-> FALSE, written |-> 0, since |-> indexActs.seen]]
                     /\ indexFiles' = [there |-> indexFiles.there \union {b},
                                       removing |-> indexFiles.removing \union (now \ {NoFile})]
              /\ UNCHANGED indexActs
           \/ /\ indexActs.faults < MaxIndexFaults
              /\ indexActs' = [indexActs EXCEPT !.faults = @ + 1]
              /\ searchIndex' = [NoIndex EXCEPT !.err = TRUE] @@ i
              /\ Removing(now) /\ UNCHANGED builders

\* A piece of the walk is written to the file and flushed.
Writes(b) ==
  /\ builders[b].at = "walk" /\ builders[b].written < Chunks
  /\ builders' = [builders EXCEPT ![b].at = "publish", ![b].written = @ + 1]
  /\ UNCHANGED <<searchIndex, indexFiles, lookups, indexActs>>

Publishes(b) ==
  /\ builders[b].at = "publish"
  /\ builders' = [builders EXCEPT ![b].at = "walk"]
  /\ searchIndex' = IF searchIndex.path = b /\ ~Cancelled(b)
                    THEN [searchIndex EXCEPT !.size = builders[b].written] ELSE searchIndex
  /\ UNCHANGED <<indexFiles, lookups, indexActs>>

\* The walk has ended, by itself, by an error or because it was cancelled.
Ends(b, ok) ==
  /\ builders[b].at = "walk" /\ (ok => builders[b].written = Chunks)
  /\ builders' = [builders EXCEPT ![b].at = "done", ![b].cancelled = FALSE]
  /\ LET stale == searchIndex.path # b
         ended == [searchIndex EXCEPT !.building = FALSE, !.cancel = NoFile,
                                      !.complete = ok /\ ~Cancelled(b), !.err = ~ok]
         i == IF stale THEN searchIndex ELSE ended
     IN  IF stale \/ Cancelled(b)
         THEN searchIndex' = Retired(i, b) /\ Removing(RetiredNow(i, b))
         ELSE searchIndex' = i /\ UNCHANGED indexFiles
  /\ UNCHANGED lookups

WalkEnds(b) == Ends(b, TRUE) /\ UNCHANGED indexActs
WalkStops(b) == Cancelled(b) /\ Ends(b, FALSE) /\ UNCHANGED indexActs
WalkFails(b) ==
  /\ indexActs.faults < MaxIndexFaults /\ indexActs' = [indexActs EXCEPT !.faults = @ + 1]
  /\ Ends(b, FALSE)

(***************************************************************************)
(* Invalidation                                                            *)
(***************************************************************************)

\* invalidateFileSearch: a builder removes its own file when it ends.
DropIndex ==
  /\ builders' = IF searchIndex.cancel = NoFile THEN builders
                 ELSE [builders EXCEPT ![searchIndex.cancel].cancelled = TRUE]
  /\ IF searchIndex.building THEN searchIndex' = Dropped(searchIndex) /\ UNCHANGED indexFiles
     ELSE /\ searchIndex' = Dropped(Retired(searchIndex, searchIndex.path))
          /\ Removing(IF searchIndex.readers = 0 THEN {searchIndex.path} ELSE {})
  /\ UNCHANGED lookups

\* An event of the watcher, a creation, a renaming, a search that asks for it.
Invalidate ==
  /\ indexActs.seen < MaxInvalidations /\ indexActs' = [indexActs EXCEPT !.seen = @ + 1]
  /\ DropIndex

\* The session stops: its context ends, and the index is dropped.
SessionEnds ==
  /\ ~indexActs.stopped /\ indexActs' = [indexActs EXCEPT !.stopped = TRUE]
  /\ UNCHANGED <<searchIndex, builders, indexFiles, lookups>>

SessionDrops ==
  /\ indexActs.stopped /\ ~indexActs.dropped /\ indexActs' = [indexActs EXCEPT !.dropped = TRUE]
  /\ DropIndex

\* os.Remove, after the lock was released.
Remove(path) ==
  /\ path \in indexFiles.removing
  /\ indexFiles' = [there |-> indexFiles.there \ {path}, removing |-> indexFiles.removing \ {path}]
  /\ UNCHANGED <<searchIndex, builders, lookups, indexActs>>

(***************************************************************************)
(* Searches                                                                *)
(***************************************************************************)

NewLookup(byName) ==
  [at |-> "none", byName |-> byName, path |-> NoFile, size |-> 0, complete |-> FALSE, since |-> 0]

LookupStarts(q) ==
  /\ lookups[q].at = "none" /\ Started
  /\ lookups' = [lookups EXCEPT ![q].at = "started"]

\* A search by name stops at the index's error; a search by content does not look.
Takes(q) ==
  /\ lookups[q].at = "started"
  /\ IF searchIndex.err /\ lookups[q].byName
     THEN lookups' = [lookups EXCEPT ![q].at = "done"] /\ UNCHANGED searchIndex
     ELSE /\ searchIndex' = [searchIndex EXCEPT !.readers = @ + 1]
          /\ lookups' = [lookups EXCEPT ![q] =
               [@ EXCEPT !.at = "scan", !.path = searchIndex.path, !.size = searchIndex.size,
                         !.complete = searchIndex.complete, !.since = indexActs.seen]]
  /\ UNCHANGED <<builders, indexFiles, indexActs>>

\* The file is read, or what is in memory of it; then the reader is released and the
\* last one takes what was retired with it.
Released(q) ==
  /\ lookups[q].at = "scan"
  /\ lookups' = [lookups EXCEPT ![q] = [NewLookup(@.byName) EXCEPT !.at = "done"]]
  /\ IF searchIndex.readers = 1
     THEN /\ Removing(searchIndex.retired)
          /\ searchIndex' = [searchIndex EXCEPT !.readers = 0, !.retired = {}]
     ELSE searchIndex' = [searchIndex EXCEPT !.readers = @ - 1] /\ UNCHANGED indexFiles
  /\ UNCHANGED <<builders, indexActs>>

(***************************************************************************)
(* The specification                                                       *)
(***************************************************************************)

IndexInit ==
  /\ searchIndex = NoIndex @@ [readers |-> 0, retired |-> {}]
  /\ builders = [b \in Builds |-> [at |-> "none", cancelled |-> FALSE, written |-> 0, since |-> 0]]
  /\ indexFiles = [there |-> {}, removing |-> {}]
  /\ \E byName \in BOOLEAN : lookups = [q \in Lookups |-> NewLookup(byName)]
  /\ indexActs = [seen |-> 0, faults |-> 0, stopped |-> FALSE, dropped |-> FALSE]

IndexNext ==
  \/ \E b \in Builds : Writes(b) \/ Publishes(b) \/ WalkEnds(b) \/ WalkStops(b) \/ WalkFails(b)
  \/ Invalidate \/ SessionEnds \/ SessionDrops
  \/ \E path \in indexFiles.removing : Remove(path)
  \/ \E q \in Lookups : LookupStarts(q) \/ Takes(q) \/ Released(q)

(***************************************************************************)
(* What must hold                                                          *)
(***************************************************************************)

\* A search reads only what has been written, in a file that is there as long as the
\* session is; an answer that says it is complete is of a walk that was not cut
\* short and began after the last invalidation before the search; and when nothing
\* is under way, no file is there but the index's own.
SearchReadsOneIndex ==
  /\ \A q \in Lookups : lookups[q].at = "scan" /\ lookups[q].size > 0 =>
       /\ indexActs.stopped \/ lookups[q].path \in indexFiles.there
       /\ lookups[q].size <= builders[lookups[q].path].written
       /\ lookups[q].complete =>
            lookups[q].size = Chunks /\ builders[lookups[q].path].since >= lookups[q].since
  /\ (\A b \in Builds : builders[b].at \in {"none", "done"})
       /\ (\A q \in Lookups : lookups[q].at # "scan") /\ indexFiles.removing = {}
     => indexFiles.there \subseteq IF indexActs.dropped THEN {} ELSE {searchIndex.path}

=============================================================================
