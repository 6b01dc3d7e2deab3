--------------------------- MODULE SourceSections ---------------------------
(***************************************************************************)
(* The sections of the sidebar                                             *)
(* (web/src/diffshub/gitna/SourceControlWorkflow.tsx): which are open and   *)
(* how the space is divided between them, the repository's rows under       *)
(* filters and in two views, the menus of rows and headers, drag and drop,  *)
(* and what a selection, a reveal or a key opens.                           *)
(*                                                                         *)
(* A path is a pair of a folder and a name.  In the list view a row shows   *)
(* another name than its path.                                              *)
(***************************************************************************)
EXTENDS Naturals, Integers, FiniteSets

CONSTANTS
  Paths,        \* <<folder, name>>, with folder \in Folders
  Folders,      \* the root and the folders below it
  HiddenPaths,  \* paths with a segment that starts with a dot
  MinPane,      \* the least share of a pane
  PaneShares,   \* the shares of the three panes at first
  MaxSectionActs

VARIABLES
  worktree,   \* the store: paths, kinds of change, ignored paths, counts, selection
  sections,   \* the mounted component's state
  menuAt,     \* the open menu or the drag under way
  shares,     \* the panes' shares and the drag of a handle
  request,    \* the last operation asked of the store, and the view it was asked in
  sectionActs

sectionVars == <<worktree, sections, menuAt, shares, request, sectionActs>>

Nowhere == <<"no", "path">>
NoMenu == [kind |-> "none"]
NoRequest == [kind |-> "none", source |-> Nowhere, to |-> Nowhere, view |-> "tree"]
ChangeKinds == {"modified", "untracked"}

Acts == sectionActs < MaxSectionActs /\ sectionActs' = sectionActs + 1
AtUse == sections.mounted /\ menuAt = NoMenu

(***************************************************************************)
(* What the sections show                                                  *)
(***************************************************************************)

\* A new component: the repository and the graph are closed, nothing is filtered.
Fresh == [mounted |-> TRUE, open |-> {"workflow", "changes", "staged"}, filters |-> {},
          view |-> "tree", showHidden |-> TRUE, showIgnored |-> TRUE, revealed |-> Nowhere]

Visible(s) == {p \in worktree.paths : /\ s.showHidden \/ p \notin HiddenPaths
                                      /\ s.showIgnored \/ p \notin worktree.ignored}

Filtered(s) == {p \in Visible(s) : s.filters # {} => worktree.kind[p] \in s.filters}

\* createRepositoryListSource: a row of the list is no path; the row knows its path.
RowOf(s, p) == IF s.view = "list" THEN <<"row", p>> ELSE p
PathOf(s, row) == IF s.view = "list" THEN row[2] ELSE row
RowsShown(s) == {RowOf(s, p) : p \in Filtered(s)}

VisibilityFiltered(s) == ~s.showHidden \/ ~s.showIgnored

\* The number beside the title: the exact total, the last one that is known
\* with a label that says so, or the loaded rows, with a plus if there are more.
CountText(s) ==
  LET settled == worktree.total # -1
      exact == settled /\ worktree.totalGen = worktree.gen
      incomplete == worktree.paths # worktree.onDisk
      plain == s.filters = {} /\ ~VisibilityFiltered(s)
  IN  [n |-> IF ~plain THEN Cardinality(Filtered(s))
             ELSE IF settled THEN worktree.total ELSE Cardinality(worktree.paths),
       plus |-> incomplete /\ (~plain \/ ~settled),
       outdated |-> settled /\ ~exact]

\* An open pane has its share of the height; a closed one only its header.
PaneRows(s) ==
  [p \in 1..3 |-> IF <<"workflow", "repository", "graph">>[p] \notin s.open THEN 0
                  ELSE IF p = 1 /\ \A q \in Paths : worktree.kind[q] = "none" THEN 0
                  ELSE shares.sizes[p]]

(***************************************************************************)
(* The store moves                                                         *)
(***************************************************************************)

\* A snapshot of a changed folder; rows of folders that were not opened are missing.
SnapshotMoves ==
  /\ Acts
  /\ \E disk \in SUBSET Paths, p \in Paths, k \in ChangeKinds \union {"none"} :
       \E loaded \in {disk, disk \ {q \in disk : q[1] # ""}} :
         worktree' = [worktree EXCEPT !.onDisk = disk, !.paths = loaded, !.gen = @ + 1,
                        !.kind[p] = k, !.picked = @ \intersect loaded]
  /\ sections' = [sections EXCEPT !.revealed = IF @ \in worktree'.paths THEN @ ELSE Nowhere]
  /\ UNCHANGED <<menuAt, shares, request>>

CountSettles ==
  /\ worktree.totalGen # worktree.gen
  /\ worktree' = [worktree EXCEPT !.total = Cardinality(worktree.onDisk), !.totalGen = worktree.gen]
  /\ UNCHANGED <<sections, menuAt, shares, request, sectionActs>>

\* As it would be if a reveal kept what is filtered out.
RevealedUnderFilters(s, p) == [s EXCEPT !.open = @ \union {"repository"}, !.revealed = p]

\* The effect of a reveal opens the section and drops every filter; it runs
\* again when the component is mounted again.
Revealed(s, p) ==
  [s EXCEPT !.open = @ \union {"repository"}, !.filters = {}, !.showHidden = TRUE,
            !.showIgnored = TRUE, !.revealed = p]

\* selectRepositoryFile(path, true), from the search, the palette or a change's menu.
RevealFile(p) ==
  /\ Acts /\ p \in worktree.paths
  /\ worktree' = [worktree EXCEPT !.reveal = @ + 1, !.selected = p, !.picked = {p}]
  /\ sections' = IF sections.mounted THEN Revealed(sections, p) ELSE sections
  /\ UNCHANGED <<menuAt, shares, request>>

\* The selection of a change opens its section.
SelectChange(scope) ==
  /\ Acts
  /\ \E p \in Paths : worktree.kind[p] # "none" /\ worktree' = [worktree EXCEPT !.selected = p]
  /\ sections' = [sections EXCEPT !.open = @ \union {"workflow", scope}]
  /\ UNCHANGED <<menuAt, shares, request>>

\* The sidebar shows the search, or the sections again: their state is not kept.
Unmount ==
  /\ Acts /\ sections.mounted
  /\ sections' = [Fresh EXCEPT !.mounted = FALSE]
  /\ menuAt' = NoMenu
  /\ shares' = [shares EXCEPT !.drag = 0]
  /\ UNCHANGED <<worktree, request>>

MountAgain ==
  /\ Acts /\ ~sections.mounted
  /\ sections' = IF worktree.reveal > 0
                 THEN Revealed(Fresh, IF worktree.selected \in worktree.paths
                                      THEN worktree.selected ELSE Nowhere)
                 ELSE Fresh
  /\ UNCHANGED <<worktree, menuAt, shares, request>>

(***************************************************************************)
(* Sections and panes                                                      *)
(***************************************************************************)

ToggleSection(name) ==
  /\ Acts /\ AtUse
  /\ sections' = [sections EXCEPT !.open = IF name \in @ THEN @ \ {name} ELSE @ \union {name}]
  /\ UNCHANGED <<worktree, menuAt, shares, request>>

\* F6, Shift+F6 and Ctrl+Shift+C open what they put the focus on.
FocusKey(names) ==
  /\ Acts /\ sections.mounted
  /\ sections' = [sections EXCEPT !.open = @ \union names]
  /\ UNCHANGED <<worktree, menuAt, shares, request>>

Least(a, b) == IF a < b THEN a ELSE b
Most(a, b) == IF a < b THEN b ELSE a

\* What one pane gains its neighbour loses, and neither goes below the minimum.
Resized(sizes, i, delta) ==
  LET bounded == Most(MinPane - sizes[i], Least(delta, sizes[i + 1] - MinPane))
  IN  [sizes EXCEPT ![i] = @ + bounded, ![i + 1] = @ - bounded]

ResizeByKey(i) ==
  /\ Acts /\ AtUse
  /\ \E delta \in {-2, 2} : shares' = [shares EXCEPT !.sizes = Resized(@, i, delta)]
  /\ UNCHANGED <<worktree, sections, menuAt, request>>

StartResize(i) ==
  /\ Acts /\ AtUse /\ shares.drag = 0
  /\ shares' = [shares EXCEPT !.drag = i, !.start = shares.sizes]
  /\ UNCHANGED <<worktree, sections, menuAt, request>>

\* A move counts from where the drag began, whatever the keys did since.
MoveHandle ==
  /\ Acts /\ shares.drag # 0
  /\ \E delta \in {-60, -3, 5, 60} :
       shares' = [shares EXCEPT !.sizes = Resized(shares.start, shares.drag, delta)]
  /\ UNCHANGED <<worktree, sections, menuAt, request>>

StopResize ==
  /\ shares.drag # 0
  /\ shares' = [shares EXCEPT !.drag = 0]
  /\ UNCHANGED <<worktree, sections, menuAt, request, sectionActs>>

(***************************************************************************)
(* Filters and views                                                       *)
(***************************************************************************)

Refilter(s) == sections' = [s EXCEPT !.revealed = Nowhere]

\* A status is toggled, or with Alt shown alone; the menu stays open.
FilterStatus(k) ==
  /\ Acts /\ AtUse /\ \E p \in worktree.paths : worktree.kind[p] = k
  /\ \E next \in {{k}, IF k \in sections.filters THEN sections.filters \ {k}
                       ELSE sections.filters \union {k}} :
       Refilter([sections EXCEPT !.filters = next])
  /\ UNCHANGED <<worktree, menuAt, shares, request>>

ClearFilters ==
  /\ Acts /\ AtUse /\ sections.filters # {}
  /\ Refilter([sections EXCEPT !.filters = {}])
  /\ UNCHANGED <<worktree, menuAt, shares, request>>

ExplorerOption(s) ==
  /\ Acts /\ AtUse
  /\ Refilter(s)
  /\ UNCHANGED <<worktree, menuAt, shares, request>>

\* A change of the rows' names deselects nothing: the selection is kept as paths.
SelectRows ==
  /\ Acts /\ AtUse /\ "repository" \in sections.open
  /\ \E rows \in SUBSET RowsShown(sections) :
       /\ rows # {}
       /\ worktree' = [worktree EXCEPT !.picked = {PathOf(sections, r) : r \in rows},
            !.selected = IF Cardinality(rows) = 1 THEN CHOOSE p \in {PathOf(sections, r) : r \in rows} : TRUE
                         ELSE @]
  /\ UNCHANGED <<sections, menuAt, shares, request>>

(***************************************************************************)
(* Menus                                                                   *)
(***************************************************************************)

\* The tree hands the menu the path of the row, and selects the row unless it
\* is one of those selected.
OpenRowMenu(row) ==
  /\ Acts /\ AtUse /\ "repository" \in sections.open /\ row \in RowsShown(sections)
  /\ LET p == PathOf(sections, row)
     IN  /\ menuAt' = [kind |-> "row", path |-> p]
         /\ worktree' = [worktree EXCEPT !.picked = IF p \in @ THEN @ ELSE {p}]
  /\ UNCHANGED <<sections, shares, request>>

Asks(kind, source, to) ==
  /\ request' = [kind |-> kind, source |-> source, to |-> to, view |-> sections.view]
  /\ menuAt' = NoMenu

ChooseInRowMenu ==
  /\ menuAt.kind = "row" /\ sections.mounted
  /\ LET p == menuAt.path
     IN  \/ \E kind \in {"reveal", "rename", "copy"} : Asks(kind, p, Nowhere)
         \/ Asks("create", Nowhere, <<p[1], "new">>)
         \/ /\ Cardinality(worktree.picked) = 2 /\ worktree.picked \subseteq worktree.paths
            /\ Asks("compare", p, Nowhere)
  /\ UNCHANGED <<worktree, sections, shares, sectionActs>>

OpenFromMenu ==
  /\ menuAt.kind = "row"
  /\ menuAt' = NoMenu
  /\ worktree' = IF menuAt.path \in worktree.paths
                 THEN [worktree EXCEPT !.selected = menuAt.path, !.picked = {menuAt.path}]
                 ELSE worktree
  /\ UNCHANGED <<sections, shares, request, sectionActs>>

CloseMenu ==
  /\ menuAt.kind = "row"
  /\ menuAt' = NoMenu
  /\ UNCHANGED <<worktree, sections, shares, request, sectionActs>>

\* The header's menu takes the tree's first selected row as it is shown: in
\* the list view that is no path (renameTarget, repositoryCreationParent).
HeaderMenu ==
  /\ Acts /\ AtUse
  /\ \E p \in worktree.picked \intersect Filtered(sections) :
       \/ Asks("headerRename", RowOf(sections, p), Nowhere)
       \/ Asks("create", Nowhere, <<IF sections.view = "tree" THEN p[1] ELSE "", "new">>)
  /\ UNCHANGED <<worktree, sections, shares>>

(***************************************************************************)
(* Drag and drop                                                           *)
(***************************************************************************)

WholeTree == sections.view = "tree" /\ sections.filters = {} /\ ~VisibilityFiltered(sections)

StartDrag(p) ==
  /\ Acts /\ AtUse /\ WholeTree /\ "repository" \in sections.open /\ p \in worktree.paths
  /\ menuAt' = [kind |-> "drag", path |-> p]
  /\ UNCHANGED <<worktree, sections, shares, request>>

\* canDrop: not where it is, and nothing of that name is listed there.
CanDrop(p, d) == WholeTree /\ d # p[1] /\ <<d, p[2]>> \notin worktree.paths

Drop(d) ==
  /\ menuAt.kind = "drag" /\ sections.mounted
  /\ IF CanDrop(menuAt.path, d) /\ menuAt.path \in worktree.paths
     THEN Asks("move", menuAt.path, <<d, menuAt.path[2]>>)
     ELSE menuAt' = NoMenu /\ UNCHANGED request
  /\ UNCHANGED <<worktree, sections, shares, sectionActs>>

\* What was asked is carried out or refused.
RequestEnds ==
  /\ request # NoRequest
  /\ request' = NoRequest
  /\ UNCHANGED <<worktree, sections, menuAt, shares, sectionActs>>

SectionsInit ==
  /\ worktree = [onDisk |-> Paths, paths |-> Paths, ignored |-> {CHOOSE p \in Paths : p \notin HiddenPaths},
                 kind |-> [p \in Paths |-> "none"], gen |-> 1, total |-> -1, totalGen |-> 0,
                 reveal |-> 0, selected |-> Nowhere, picked |-> {}]
  /\ sections = Fresh
  /\ menuAt = NoMenu
  /\ shares = [sizes |-> PaneShares, drag |-> 0, start |-> PaneShares]
  /\ request = NoRequest
  /\ sectionActs = 0

SectionsNext ==
  \/ SnapshotMoves \/ CountSettles \/ Unmount \/ MountAgain
  \/ \E p \in Paths : RevealFile(p) \/ StartDrag(p)
  \/ \E scope \in {"changes", "staged"} : SelectChange(scope)
  \/ \E name \in {"workflow", "repository", "graph"} : ToggleSection(name)
  \/ \E names \in {{"graph"}, {"workflow", "changes"}, {"workflow"}} : FocusKey(names)
  \/ \E i \in {1, 2} : ResizeByKey(i) \/ StartResize(i)
  \/ MoveHandle \/ StopResize
  \/ \E k \in ChangeKinds : FilterStatus(k)
  \/ ClearFilters
  \/ \E shown \in BOOLEAN : \/ ExplorerOption([sections EXCEPT !.showHidden = shown])
                            \/ ExplorerOption([sections EXCEPT !.showIgnored = shown])
  \/ \E view \in {"tree", "list"} : ExplorerOption([sections EXCEPT !.view = view])
  \/ SelectRows
  \/ \E row \in RowsShown(sections) : OpenRowMenu(row)
  \/ ChooseInRowMenu \/ OpenFromMenu \/ CloseMenu \/ HeaderMenu
  \/ \E d \in Folders : Drop(d)
  \/ RequestEnds

(***************************************************************************)
(* What must hold                                                          *)
(***************************************************************************)

\* Whatever filters, views and mounts came before, the operations of a row's
\* menu and of a drag name a path of the folder, never the name of a row; the
\* header's does in the tree view only (SourceControlWorkflow.tsx:1849).
RequestsNamePaths ==
  /\ request.kind \in {"reveal", "rename", "copy", "compare", "move"} => request.source \in Paths
  /\ request.kind = "headerRename" /\ request.view = "tree" => request.source \in Paths

\* The file that was last revealed is among the rows until it goes or a filter is set.
RevealedIsShown == sections.revealed # Nowhere => sections.revealed \in Filtered(sections)

\* Where the title's number has neither a plus nor "outdated", it is the truth.
CountIsHonest ==
  LET c == CountText(sections)
  IN  sections.filters = {} /\ ~VisibilityFiltered(sections) /\ ~c.plus /\ ~c.outdated =>
        c.n = Cardinality(worktree.onDisk)

=============================================================================
