---------------------------- MODULE ContentSearch ---------------------------
(***************************************************************************)
(* Find in Files: the search that every change of the query or of an option   *)
(* starts after a pause, the stream of its answer, the batches it paints, and *)
(* the repeated search while the folder is being indexed                      *)
(* (FindInFilesPanel.tsx, contentSearchStream.ts).                            *)
(*                                                                         *)
(* A query stands for the text with its options.  A frame holds one file.     *)
(***************************************************************************)
EXTENDS Naturals, Sequences, FiniteSets, SequencesExt

CONSTANTS
  Matches,         \* Matches[q][g]: the files that match query q at generation g
  FrameLimit,      \* the server stops after so many files
  MaxSearchActs,   \* bound on what the user does
  MaxSearchFaults  \* bound on answers that fail

\* Files are numbers; every query has an answer at every generation.
ASSUME SearchAssumption ==
  /\ Matches \in Seq(Seq(Seq(Nat))) /\ Matches # <<>> /\ FrameLimit \in Nat
  /\ Matches[1] # <<>> /\ \A q \in DOMAIN Matches : Len(Matches[q]) = Len(Matches[1])

Queries == DOMAIN Matches
NoQuery == 0
NoStream == [query |-> NoQuery]

VARIABLES
  folder,     \* its generation, and whether its index is complete
  panel,      \* the query, whether the panel is active, the files, loading, ...
  answer,     \* the answer being read
  searchTimers, \* the search that will start, and the batch that will be painted
  dropped,    \* answers still coming to a search that was aborted
  searchActs  \* bounds

searchVars == <<folder, panel, answer, searchTimers, dropped, searchActs>>

Found(q) == Matches[q][folder.gen]

(***************************************************************************)
(* The server                                                              *)
(***************************************************************************)

FolderChanges ==
  /\ \/ folder.gen < Len(Matches[1]) /\ folder' = [folder EXCEPT !.gen = @ + 1]
     \/ ~folder.indexed /\ folder' = [folder EXCEPT !.indexed = TRUE]
  /\ UNCHANGED <<panel, answer, searchTimers, dropped, searchActs>>

\* The next frame of an answer; a change of the folder shows as its generation.
Frame(s) ==
  LET found == Found(s.query)
      limit == Min({FrameLimit, Len(found)})
  IN  [gen |-> folder.gen, results |-> IF s.at < limit THEN <<found[s.at + 1]>> ELSE <<>>,
       done |-> s.at + 1 > limit, complete |-> folder.indexed, truncated |-> Len(found) > FrameLimit]

(***************************************************************************)
(* The panel                                                               *)
(***************************************************************************)

\* The effect of the query, the options, the panel's activity and Refresh: what
\* is under way is aborted, the list is emptied, a search is due.
SearchEffect(p) ==
  IF ~p.active
  THEN panel' = p /\ answer' = NoStream /\ searchTimers' = [search |-> FALSE, paint |-> FALSE]
  ELSE /\ panel' = [p EXCEPT !.files = <<>>, !.error = FALSE, !.truncated = FALSE,
                             !.loading = p.query # NoQuery]
       /\ answer' = NoStream
       /\ searchTimers' = [search |-> p.query # NoQuery, paint |-> FALSE]

Dropped == dropped' = IF answer = NoStream THEN dropped ELSE Append(dropped, answer)

Change(p) ==
  /\ searchActs.acts < MaxSearchActs /\ searchActs' = [searchActs EXCEPT !.acts = @ + 1]
  /\ SearchEffect(p) /\ Dropped
  /\ UNCHANGED folder

TypeText == panel.active /\ \E q \in Queries \union {NoQuery} :
              q # panel.query /\ Change([panel EXCEPT !.query = q])
RefreshSearch == panel.active /\ Change(panel)
ShowPanel(active) == active # panel.active /\ Change([panel EXCEPT !.active = active])

SearchStarts ==
  /\ searchTimers.search
  /\ answer' = [query |-> panel.query, at |-> 0, gen |-> 0, results |-> <<>>, painted |-> FALSE]
  /\ searchTimers' = [searchTimers EXCEPT !.search = FALSE]
  /\ UNCHANGED <<folder, panel, dropped, searchActs>>

\* readContentSearchStream throws: nothing is shown, or what had been read.
Fails(keep) ==
  /\ panel' = [panel EXCEPT !.error = TRUE, !.loading = FALSE,
                            !.files = IF keep THEN answer.results ELSE <<>>]
  /\ answer' = NoStream
  /\ searchTimers' = [searchTimers EXCEPT !.paint = FALSE]

\* The first batch is painted at once, the later ones after a pause.
BatchArrives(frame, results) ==
  /\ answer' = [answer EXCEPT !.at = @ + 1, !.gen = frame.gen, !.results = results, !.painted = TRUE]
  /\ IF answer.painted
     THEN searchTimers' = [searchTimers EXCEPT !.paint = TRUE] /\ UNCHANGED panel
     ELSE panel' = [panel EXCEPT !.files = results] /\ UNCHANGED searchTimers

\* The last frame: an incomplete index is searched again.
SearchEnds(frame, results) ==
  LET again == ~frame.complete /\ ~frame.truncated
  IN  /\ panel' = [panel EXCEPT !.files = results, !.truncated = frame.truncated, !.loading = again]
      /\ searchTimers' = [search |-> again, paint |-> FALSE]
      /\ answer' = NoStream

\* As it would be if frames of two generations were put together.
AnyFrameArrives ==
  /\ answer # NoStream
  /\ LET frame   == Frame(answer)
         results == answer.results \o frame.results
     IN  IF frame.done THEN SearchEnds(frame, results) ELSE BatchArrives(frame, results)
  /\ UNCHANGED <<folder, dropped, searchActs>>

FrameArrives ==
  /\ answer # NoStream
  /\ LET frame   == Frame(answer)
         results == answer.results \o frame.results
     IN  IF answer.gen \notin {0, frame.gen} THEN Fails(FALSE)
         ELSE IF frame.done THEN SearchEnds(frame, results) ELSE BatchArrives(frame, results)
  /\ UNCHANGED <<folder, dropped, searchActs>>

\* A timeout of the server keeps what was read; any other failure does not.
StreamFails(timeout) ==
  /\ answer # NoStream /\ searchActs.faults < MaxSearchFaults
  /\ searchActs' = [searchActs EXCEPT !.faults = @ + 1]
  /\ Fails(timeout) /\ UNCHANGED <<folder, dropped>>

Paint ==
  /\ searchTimers.paint
  /\ panel' = [panel EXCEPT !.files = answer.results]
  /\ searchTimers' = [searchTimers EXCEPT !.paint = FALSE]
  /\ UNCHANGED <<folder, answer, dropped, searchActs>>

\* What an aborted search still receives.
DroppedArrives ==
  /\ dropped # <<>> /\ dropped' = Tail(dropped)
  /\ UNCHANGED <<folder, panel, answer, searchTimers, searchActs>>

(***************************************************************************)
(* The specification                                                       *)
(***************************************************************************)

SearchInit ==
  /\ folder \in [gen : {1}, indexed : BOOLEAN]
  /\ panel = [query |-> NoQuery, active |-> TRUE, files |-> <<>>, loading |-> FALSE,
              error |-> FALSE, truncated |-> FALSE]
  /\ answer = NoStream
  /\ searchTimers = [search |-> FALSE, paint |-> FALSE]
  /\ dropped = <<>>
  /\ searchActs = [acts |-> 0, faults |-> 0]

SearchNext ==
  \/ FolderChanges \/ TypeText \/ RefreshSearch \/ (\E active \in BOOLEAN : ShowPanel(active))
  \/ SearchStarts \/ FrameArrives \/ (\E timeout \in BOOLEAN : StreamFails(timeout))
  \/ Paint \/ DroppedArrives

(***************************************************************************)
(* What must hold                                                          *)
(***************************************************************************)

\* The files in the list are those of the query in the box, in the order of one
\* generation; when the panel says neither that it is loading nor that it failed,
\* the list is whole or says that it is not; and when it says that it is loading,
\* something is under way.
FilesAreOfQuery ==
  /\ panel.files # <<>> => \E g \in 1..folder.gen : IsPrefix(panel.files, Matches[panel.query][g])
  /\ panel.active /\ panel.query # NoQuery /\ ~panel.loading /\ ~panel.error =>
       \E g \in 1..folder.gen :
         LET all == Matches[panel.query][g]
         IN  panel.files = IF panel.truncated THEN SubSeq(all, 1, FrameLimit) ELSE all
  /\ panel.active /\ panel.loading => searchTimers.search \/ answer # NoStream

=============================================================================
