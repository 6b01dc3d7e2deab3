---------------------------- MODULE FolderSwitch ----------------------------
(***************************************************************************)
(* Moving between folders in one browser tab: the session history and the    *)
(* popstate handler of main.tsx, the workbench mounted for one folder URL,   *)
(* Home, and the folder switch of GitnaReviewUI.tsx with its loading screen, *)
(* its question about drafts and its call to the server.                     *)
(*                                                                         *)
(* A route is a folder, or the Home URL, which serves the default folder.  A *)
(* path leads to a folder and is the spelling of its root, or an alias.      *)
(* React commits what a handler set before anything else happens.  Entries   *)
(* made by a change of the fragment, and leaving the document, are left out. *)
(***************************************************************************)
EXTENDS Integers, Sequences, SequencesExt

CONSTANTS
  Folders,        \* folders, positive numbers
  Default,        \* the folder that the Home URL serves
  FirstRoutes,    \* the routes a tab may be opened at
  MaxMoves        \* bound on what the user does

HomeRoute == 0
Routes == Folders \union {HomeRoute}

\* The Home URL is the route of no folder, and a tab is opened at a route.
ASSUME SwitchAssumption ==
  Folders \subseteq Nat \ {HomeRoute} /\ Default \in Folders /\ FirstRoutes \subseteq Routes

Served(route) == IF route = HomeRoute THEN Default ELSE route
FolderPaths == [to : Folders, alias : BOOLEAN]
NoPath == [to |-> 0, alias |-> FALSE]
NoSwitch == [id |-> 0]
Titled(is, of) == [is |-> is, of |-> of]

VARIABLES
  browser,   \* the session history, the current entry, the moves in it to come; and
             \* whether a refused move met another one while it was taken back
  page,      \* App: activeFolderURL, homeOpen, historyIndex, restoringHistory
  bench,     \* the mounted workbench
  opening,   \* calls of openFolder, and switches waiting for a frame
  title,     \* document.title
  tab,       \* the tab opened by openFolderInNewTab
  moves      \* what the user did, and whether losing the drafts was agreed to

switchVars == <<browser, page, bench, opening, title, tab, moves>>

Location == browser.entries[browser.pos]
Moved1 == [moves EXCEPT !.count = @ + 1]
FreshBench == [root |-> 0, drafts |-> FALSE, busy |-> FALSE, ask |-> NoPath,
               op |-> NoSwitch, screen |-> NoPath]

\* The workbench takes input: there is no loading screen and no question, so a
\* switch that is under way is never superseded.
Usable == /\ moves.count < MaxMoves /\ bench.root # 0
          /\ bench.ask = NoPath /\ bench.screen = NoPath

(***************************************************************************)
(* The history and App                                                      *)
(***************************************************************************)

Pushed(url, folder) ==
  [browser EXCEPT !.entries = Append(SubSeq(@, 1, browser.pos),
                                [url |-> url, folder |-> folder, index |-> page.index + 1]),
                  !.pos = @ + 1, !.crossed = @ \/ page.restoring]

\* The title effect of a workbench whose Home opens or closes.
TitleOf(home, root, before) ==
  IF home THEN Titled("home", 0) ELSE IF root # 0 THEN Titled("folder", root) ELSE before

\* The calls of the mounted workbench's own switch, among those still under way.
Aborted(calls) == {c \in calls : c.kind = "switch" /\ c.at = "sent"}

\* The provider is keyed by the folder URL: another URL mounts another workbench,
\* and the one that goes aborts its switch, whose refusal puts the old title back.
Mount(route, home, calls) ==
  IF route = page.folder
  THEN /\ UNCHANGED <<bench, moves>> /\ opening' = calls
       /\ title' = IF home # page.home THEN TitleOf(home, bench.root, title) ELSE title
  ELSE /\ bench' = FreshBench /\ opening' = calls \ Aborted(calls)
       /\ moves' = [moves EXCEPT !.agreed = FALSE]
       /\ title' = IF \E c \in Aborted(calls) : c.id = bench.op.id
                   THEN bench.op.title ELSE TitleOf(home, 0, title)

\* As it would be if Home stayed open in front of the new folder.
NavigateFolderBehindHome(f, calls) ==
  /\ browser' = Pushed(f, f)
  /\ page' = [page EXCEPT !.folder = f, !.index = @ + 1]
  /\ Mount(f, page.home, calls)

NavigateFolder(f, calls) ==
  /\ browser' = Pushed(f, f)
  /\ page' = [page EXCEPT !.folder = f, !.home = FALSE, !.index = @ + 1]
  /\ Mount(f, FALSE, calls)

\* navigateHome, from a handler that also sets the title to t.
NavigateHome(open, t) ==
  LET target == IF open THEN HomeRoute ELSE page.folder
  IN  IF target = Location.url THEN UNCHANGED <<browser, page>> /\ title' = t
      ELSE /\ browser' = Pushed(target, page.folder)
           /\ page' = [page EXCEPT !.home = open, !.index = @ + 1]
           /\ title' = IF open # page.home THEN TitleOf(open, bench.root, t) ELSE t

\* The user moves in the history; the browser carries the moves out in order.
Traverse(d) ==
  /\ moves.count < MaxMoves
  /\ browser.pos + d \in 1..Len(browser.entries)
  /\ browser' = [browser EXCEPT !.pops = Append(@, d)]
  /\ moves' = Moved1
  /\ UNCHANGED <<page, bench, opening, title, tab>>

\* The navigation guard refuses while the workbench is busy, and asks about drafts.
GuardAllows == ~bench.busy
GuardRefuses == bench.busy \/ bench.drafts

\* A popstate of another folder that the guard lets through mounts that folder;
\* one it refuses is taken back by a move of its own, whose popstate is ignored.
PopState ==
  LET there == browser.pos + Head(browser.pops)
      entry == browser.entries[there]
      moved == [browser EXCEPT !.pos = there, !.pops = Tail(@)]
      home == entry.url = HomeRoute
  IN  /\ browser.pops # <<>> /\ UNCHANGED tab
      /\ \/ /\ there \notin 1..Len(browser.entries)
            /\ browser' = [browser EXCEPT !.pops = Tail(@)]
            /\ UNCHANGED <<page, bench, opening, title, moves>>
         \/ /\ there \in 1..Len(browser.entries) /\ page.restoring
            /\ browser' = moved /\ page' = [page EXCEPT !.restoring = FALSE]
            /\ UNCHANGED <<bench, opening, title, moves>>
         \/ /\ there \in 1..Len(browser.entries) /\ ~page.restoring
            /\ entry.folder = page.folder \/ GuardAllows
            /\ browser' = moved
            /\ page' = [page EXCEPT !.folder = entry.folder, !.home = home, !.index = entry.index]
            /\ Mount(entry.folder, home, opening)
         \/ /\ there \in 1..Len(browser.entries) /\ ~page.restoring
            /\ entry.folder # page.folder /\ GuardRefuses
            /\ browser' = [moved EXCEPT !.pops = Append(@, page.index - entry.index),
                                        !.crossed = @ \/ moved.pops # <<>>]
            /\ page' = [page EXCEPT !.restoring = TRUE]
            /\ UNCHANGED <<bench, opening, title, moves>>

(***************************************************************************)
(* The workbench                                                           *)
(***************************************************************************)

SnapshotArrives ==
  /\ bench.root = 0
  /\ bench' = [bench EXCEPT !.root = Served(page.folder)]
  /\ title' = TitleOf(page.home, Served(page.folder), title)
  /\ UNCHANGED <<browser, page, opening, tab, moves>>

\* A draft appears, or is saved or discarded.
Edits ==
  /\ Usable /\ ~page.home /\ bench' = [bench EXCEPT !.drafts = ~@]
  /\ moves' = Moved1
  /\ UNCHANGED <<browser, page, opening, title, tab>>

\* A mutation or a save begins or ends.
Works ==
  /\ bench.busy \/ (Usable /\ ~page.home)
  /\ bench' = [bench EXCEPT !.busy = ~@]
  /\ moves' = IF bench.busy THEN moves ELSE Moved1
  /\ UNCHANGED <<browser, page, opening, title, tab>>

OpenHome ==
  /\ Usable /\ ~page.home
  /\ NavigateHome(TRUE, title)
  /\ moves' = Moved1
  /\ UNCHANGED <<bench, opening, tab>>

\* At the Home URL the way back is the route of the folder, which is asked for.
ReturnFromHome ==
  IF page.folder = HomeRoute
  THEN /\ opening' = opening \union
            (IF bench.busy THEN {} ELSE {[kind |-> "close", id |-> 0, at |-> "sent", to |-> bench.root]})
       /\ UNCHANGED <<browser, page, title>>
  ELSE NavigateHome(FALSE, title) /\ UNCHANGED opening

CloseHome ==
  /\ Usable /\ page.home
  /\ ReturnFromHome
  /\ moves' = Moved1
  /\ UNCHANGED <<bench, tab>>

\* performFolderSwitch up to its first await.
Begin(path, b) ==
  LET id == moves.count + 1
  IN  /\ bench' = [b EXCEPT !.op = [id |-> id, title |-> title], !.screen = path]
      /\ opening' = opening \union
           {[kind |-> "switch", id |-> id, at |-> "frame", to |-> path.to, title |-> title]}
      /\ title' = Titled("opening", path.to)

RequestFolderSwitch(path) ==
  /\ Usable /\ ~bench.busy
  /\ moves' = Moved1 /\ UNCHANGED tab
  /\ \/ /\ path = [to |-> bench.root, alias |-> FALSE]
        /\ UNCHANGED bench
        /\ IF page.home THEN ReturnFromHome ELSE UNCHANGED <<browser, page, opening, title>>
     \/ /\ path # [to |-> bench.root, alias |-> FALSE] /\ bench.drafts
        /\ bench' = [bench EXCEPT !.ask = path]
        /\ UNCHANGED <<browser, page, opening, title>>
     \/ /\ path # [to |-> bench.root, alias |-> FALSE] /\ ~bench.drafts
        /\ Begin(path, bench) /\ UNCHANGED <<browser, page>>

\* The answer to "Discard unsaved changes and switch folder?".
AnswerAsk(yes) ==
  /\ bench.ask # NoPath /\ UNCHANGED <<browser, page, tab>>
  /\ IF yes /\ ~bench.busy
     THEN /\ Begin(bench.ask, [bench EXCEPT !.ask = NoPath])
          /\ moves' = [Moved1 EXCEPT !.agreed = TRUE]
     ELSE /\ bench' = [bench EXCEPT !.ask = NoPath]
          /\ UNCHANGED <<opening, title, moves>>

\* The catch of performFolderSwitch; a workbench that is gone has only its title.
SwitchFails(c) ==
  /\ opening' = opening \ {c}
  /\ title' = c.title
  /\ bench' = IF c.id = bench.op.id
              THEN [bench EXCEPT !.op = NoSwitch, !.screen = NoPath] ELSE bench
  /\ UNCHANGED <<browser, page, tab>>
  /\ moves' = IF c.id = bench.op.id THEN [moves EXCEPT !.agreed = FALSE] ELSE moves

\* The frame has run: the call is made, unless an operation has begun or the
\* workbench is gone.
FrameRuns(c) ==
  /\ c.kind = "switch" /\ c.at = "frame"
  /\ IF c.id = bench.op.id /\ ~bench.busy
     THEN /\ opening' = (opening \ {c}) \union {[c EXCEPT !.at = "sent"]}
          /\ UNCHANGED <<browser, page, bench, title, tab, moves>>
     ELSE SwitchFails(c)

SameRoute(c) == c.to = Location.url

\* The server answered: the folder that is shown already is shown again,
\* another is navigated to.
SwitchArrives(c) ==
  /\ c.kind = "switch" /\ c.at = "sent"
  /\ \/ SwitchFails(c)
     \/ /\ SameRoute(c)
        /\ bench' = [bench EXCEPT !.op = NoSwitch, !.screen = NoPath]
        /\ NavigateHome(FALSE, c.title)
        /\ opening' = opening \ {c}
        /\ moves' = [moves EXCEPT !.agreed = FALSE]
        /\ UNCHANGED tab
     \/ /\ ~SameRoute(c)
        /\ NavigateFolder(c.to, opening \ {c})
        /\ UNCHANGED tab

\* closeHome's own answer is not tied to the workbench that asked.
CloseArrives(c) ==
  /\ c.kind = "close"
  /\ \/ opening' = opening \ {c} /\ UNCHANGED <<browser, page, bench, title, moves>>
     \/ NavigateFolder(c.to, opening \ {c})
  /\ UNCHANGED tab

\* A new tab shows the loading document until the answer replaces or closes it.
OpenFolderInNewTab(path) ==
  /\ Usable /\ ~bench.busy /\ tab = "none"
  /\ tab' = "loading"
  /\ opening' = opening \union {[kind |-> "tab", id |-> 0, at |-> "sent", to |-> path.to]}
  /\ moves' = Moved1
  /\ UNCHANGED <<browser, page, bench, title>>

TabArrives(c) ==
  /\ c.kind = "tab"
  /\ opening' = opening \ {c}
  /\ tab' \in IF tab = "loading" THEN {"folder", "closed"} ELSE {tab}
  /\ UNCHANGED <<browser, page, bench, title, moves>>

CloseTab ==
  /\ tab = "loading" /\ tab' = "closed"
  /\ UNCHANGED <<browser, page, bench, opening, title, moves>>

(***************************************************************************)
(* The specification                                                       *)
(***************************************************************************)

SwitchInit ==
  /\ \E r \in FirstRoutes :
       /\ browser = [entries |-> <<[url |-> r, folder |-> r, index |-> 0]>>, pos |-> 1, pops |-> <<>>,
                      crossed |-> FALSE]
       /\ page = [folder |-> r, home |-> r = HomeRoute, index |-> 0, restoring |-> FALSE]
       /\ title = Titled(IF r = HomeRoute THEN "home" ELSE "start", 0)
  /\ bench = FreshBench
  /\ opening = {} /\ tab = "none"
  /\ moves = [count |-> 0, agreed |-> FALSE]

SwitchNext ==
  \/ \E d \in {-1, 1} : Traverse(d)
  \/ PopState
  \/ SnapshotArrives \/ Edits \/ Works \/ OpenHome \/ CloseHome
  \/ \E path \in FolderPaths : RequestFolderSwitch(path) \/ OpenFolderInNewTab(path)
  \/ \E yes \in BOOLEAN : AnswerAsk(yes)
  \/ \E c \in opening : FrameRuns(c) \/ SwitchArrives(c) \/ CloseArrives(c) \/ TabArrives(c)
  \/ CloseTab

(***************************************************************************)
(* What must hold                                                          *)
(***************************************************************************)

\* The address bar, the entry of the session history and the workbench that is
\* mounted are of the same folder, and Home is open at the Home URL and nowhere
\* else, except while a traverse that the guard refused is taken back, which comes
\* to an end: a switch or an answer that comes meanwhile does not leave them apart
\* (main.tsx).  Excepted are pages where it did: the handler knows a move that
\* takes back by a flag, so a navigation of the page or another traverse between
\* the refusal and its popstate makes it take the wrong one, a listed hazard.
AddressMatchesBench ==
  ~browser.crossed =>
     /\ page.restoring => browser.pops # <<>>
     /\ ~page.restoring => /\ Location.folder = page.folder /\ Location.index = page.index
                           /\ page.home <=> Location.url = HomeRoute

=============================================================================
