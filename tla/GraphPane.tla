----------------------------- MODULE GraphPane ------------------------------
(***************************************************************************)
(* The graph section (web/src/diffshub/gitna/SourceControlWorkflow.tsx,    *)
(* GraphSection and GraphCommitRow) over the store's commit graph: the one  *)
(* row that has the tab stop, the rows that stay mounted while a menu or a  *)
(* tooltip of theirs is open, the page that scrolling asks for, and the     *)
(* commit that the search reveals.                                         *)
(***************************************************************************)
EXTENDS History

CONSTANT MaxPaneActs

VARIABLES
  pane,       \* the section's state
  openings,   \* openCommit calls under way
  paneActs

paneVars == <<historyVars, pane, openings, paneActs>>

PaneActs == paneActs < MaxPaneActs /\ paneActs' = paneActs + 1
RowOf(rows, oid) == CHOOSE i \in DOMAIN rows : rows[i] = oid
Holds(rows, oid) == oid \in ToSet(rows)

\* As it would be if the tab stop kept its place in the list.
FollowedByPlace(p, rows) ==
  IF rows = <<>> THEN 1 ELSE IF p.active > Len(rows) THEN Len(rows) ELSE p.active

\* The layout effect of new rows: the tab stop goes with its commit.
Followed(p, rows) ==
  IF p.active \in DOMAIN p.rows
  THEN LET was == p.rows[p.active]
       IN  IF Holds(rows, was) THEN RowOf(rows, was) ELSE 1
  ELSE IF p.active > Len(rows) THEN IF rows = <<>> THEN 1 ELSE Len(rows) ELSE p.active

\* The effect of a reveal: its row gets the tab stop and the focus, once.
Shows(p, g) == p.mounted /\ p.open /\ p.reveal.oid # 0 /\ p.reveal.id > p.revealed /\ ~g.loading
Revealing(p, g) ==
  IF Shows(p, g) /\ Holds(g.commits, p.reveal.oid)
  THEN [p EXCEPT !.revealed = p.reveal.id, !.armed = FALSE,
                 !.active = RowOf(g.commits, p.reveal.oid)]
  ELSE p

\* What a rendering of the store's graph does to the section.
Rendered(p, g) ==
  IF ~p.mounted THEN p
  ELSE Revealing(IF g.commits = p.rows THEN p
                 ELSE [p EXCEPT !.active = Followed(p, g.commits), !.rows = g.commits], g)

Renders == pane' = Rendered(pane, graph')

\* The rows in the document: those in view and those that are held.
RowsMounted ==
  {i \in DOMAIN pane.rows : i <= pane.lastVisible \/ i = pane.active \/ pane.rows[i] \in pane.pins}

(***************************************************************************)
(* Loading                                                                 *)
(***************************************************************************)

\* Expanding commits moves no row; only the reads of the graph do.
StoreMoves == GraphReads /\ Renders /\ UNCHANGED <<openings, paneActs>>

\* A folder that is no repository any more has nothing to reveal.
StoreClears ==
  /\ ClearGitState
  /\ pane' = Rendered([pane EXCEPT !.reveal.oid = 0], graph')
  /\ UNCHANGED <<openings, paneActs>>

\* Scrolling or a key arms one continuation; near the end it asks for a page.
Arm ==
  /\ PaneActs /\ pane.open
  /\ \E last \in DOMAIN pane.rows :
       pane' = [pane EXCEPT !.armed = TRUE, !.lastVisible = last]
  /\ UNCHANGED <<historyVars, openings>>

ContinueLoads ==
  /\ pane.mounted /\ pane.open /\ pane.armed /\ ~graph.error
  /\ pane.rows # <<>> /\ pane.lastVisible >= Len(pane.rows) - 1
  /\ LoadMoreGraph
  /\ pane' = [Rendered(pane, graph') EXCEPT !.armed = FALSE]
  /\ UNCHANGED <<openings, paneActs>>

\* A commit that is not on the loaded pages is looked for page by page.
RevealLoads ==
  /\ Shows(pane, graph) /\ ~Holds(graph.commits, pane.reveal.oid) /\ ~graph.error
  /\ LoadMoreGraph /\ Renders
  /\ UNCHANGED <<openings, paneActs>>

\* openCommit: the files first, then the diff, the expansion and the reveal.
OpenCommit(oid) ==
  /\ PaneActs
  /\ openings' = openings \union {[oid |-> oid, epoch |-> details.epoch]}
  /\ UNCHANGED <<historyVars, pane>>

CommitOpens(o) ==
  /\ o \in openings
  /\ openings' = openings \ {o}
  /\ IF o.epoch # details.epoch THEN UNCHANGED <<graph, pane, details>>
     ELSE /\ graph' = [graph EXCEPT !.expanded = @ \union {o.oid}, !.diff = o.oid, !.fromSearch = TRUE]
          /\ details' = [details EXCEPT !.loaded = @ \union {o.oid}]
          /\ pane' = Rendered([pane EXCEPT !.reveal = [id |-> @.id + 1, oid |-> o.oid],
                                           !.open = pane.mounted], graph')
  /\ UNCHANGED <<remote, fetches, paneActs>>

CommitIsNotFound(o) ==
  /\ o \in openings
  /\ openings' = openings \ {o}
  /\ UNCHANGED <<historyVars, pane, paneActs>>

(***************************************************************************)
(* The section and its rows                                                *)
(***************************************************************************)

ToggleGraph ==
  /\ PaneActs /\ pane.mounted
  /\ pane' = Rendered([pane EXCEPT !.open = ~@], graph)
  /\ UNCHANGED <<historyVars, openings>>

\* The sidebar's other mode unmounts the section; a reveal that is still in
\* the store is followed again by the new one.
Remount ==
  /\ PaneActs
  /\ pane' = IF pane.mounted THEN [pane EXCEPT !.mounted = FALSE, !.open = FALSE, !.pins = {}]
             ELSE Rendered([pane EXCEPT !.mounted = TRUE, !.open = pane.reveal.oid # 0,
                                        !.rows = <<>>, !.active = 1, !.armed = FALSE,
                                        !.lastVisible = 0, !.revealed = 0], graph)
  /\ UNCHANGED <<historyVars, openings>>

\* Arrow keys, Home and End move the tab stop; a menu takes it along.
FocusRow(i) ==
  /\ PaneActs /\ pane.open /\ i \in DOMAIN pane.rows /\ i # pane.active
  /\ i \in {pane.active - 1, pane.active + 1, 1, Len(pane.rows)}
  /\ pane' = [pane EXCEPT !.active = i]
  /\ UNCHANGED <<historyVars, openings>>

\* A menu or a tooltip opens (LoadCommitDetails is what the tooltip reads).
OpenRow(i, menu) ==
  /\ PaneActs /\ pane.open /\ i \in RowsMounted
  /\ pane' = [pane EXCEPT !.pins = @ \union {pane.rows[i]}, !.active = IF menu THEN i ELSE @]
  /\ UNCHANGED <<historyVars, openings>>

\* It closes (the menu's operations are SourceControl's).  A row that is gone
\* closes nothing: its pin stays, and holds it when it comes back.
CloseRow(oid) ==
  /\ pane.open /\ oid \in pane.pins /\ Holds(pane.rows, oid)
  /\ pane' = [pane EXCEPT !.pins = @ \ {oid}]
  /\ UNCHANGED <<historyVars, openings, paneActs>>

PaneInit ==
  /\ HistoryInit
  /\ pane = [mounted |-> TRUE, open |-> FALSE, rows |-> <<>>, active |-> 1, armed |-> FALSE,
             lastVisible |-> 0, pins |-> {}, reveal |-> [id |-> 0, oid |-> 0], revealed |-> 0]
  /\ openings = {}
  /\ paneActs = 0

PaneNext ==
  \/ StoreMoves \/ StoreClears \/ Arm \/ ContinueLoads \/ RevealLoads \/ ToggleGraph \/ Remount
  \/ \E oid \in Opened : OpenCommit(oid)
  \/ \E o \in openings : CommitOpens(o) \/ CommitIsNotFound(o)
  \/ \E i \in DOMAIN pane.rows : FocusRow(i) \/ \E menu \in BOOLEAN : OpenRow(i, menu)
  \/ \E oid \in pane.pins : CloseRow(oid)

(***************************************************************************)
(* What must hold                                                          *)
(***************************************************************************)

\* The rows are the store's, and the row that Tab goes to is one of them.
HeldAreShown ==
  pane.mounted =>
    /\ pane.rows = graph.commits
    /\ pane.active \in 1..(IF pane.rows = <<>> THEN 1 ELSE Len(pane.rows))

\* A commit that is to be revealed is revealed once the graph has it and rests.
RevealedOnce ==
  pane.mounted /\ pane.open /\ ~graph.loading /\ ~graph.error /\ ~graph.hasMore
    /\ Holds(graph.commits, pane.reveal.oid) => pane.revealed = pane.reveal.id

\* Rows that come or go around it leave the tab stop on its commit.
ActiveIsKept ==
  /\ pane.mounted /\ pane'.mounted /\ pane'.rows # pane.rows /\ pane'.revealed = pane.revealed
  /\ pane.active \in DOMAIN pane.rows /\ pane.rows[pane.active] \in ToSet(pane'.rows)
  => pane'.rows[pane'.active] = pane.rows[pane.active]

=============================================================================
