---------------------------- MODULE EditingProofs ---------------------------
(***************************************************************************)
(* What the user types and where the page is, for any files, texts, folders *)
(* and bounds: FolderSwitch keeps the address, the history's entry and the  *)
(* workbench on one folder; DraftBackups keeps what is typed into documents *)
(* without a file on its way to the journal, and never takes a backup back; *)
(* Documents keeps what is typed into files in their drafts until it has    *)
(* been in the file; FolderPicker offers no folder that was removed;        *)
(* GraphPane leaves the tab stop on its commit.  Each part has its          *)
(* inductive invariant, one lemma per action, and its theorems at the end.  *)
(***************************************************************************)
EXTENDS Documents, DraftBackups, FolderSwitch, FolderPicker, GraphPane, FiniteSetTheorems,
        SequenceTheorems, TLAPS

(***************************************************************************)
(* FolderSwitch                                                            *)
(***************************************************************************)

\* What the title of the page may say, and of which folder.
TitleStates == [is : {"home", "folder", "opening", "start"}, of : Routes]

\* The switch that the workbench waits for, or none.
RunningSwitch == [id : {0}] \union [id : Nat \ {0}, title : TitleStates]

\* Requests to open a folder, and those to close or list one.
OpenCalls == [kind : {"switch"}, id : Nat \ {0}, at : {"frame", "sent"}, to : Folders,
             title : TitleStates]
         \union [kind : {"close", "tab"}, id : {0}, at : {"sent"}, to : Folders]

\* An entry of the browser's history.
HistoryEntries == [url : Routes, folder : Routes, index : Nat]

\* The browser: its entries, where it is, and the moves it was asked for.
BrowserTyped(b) == /\ b \in [entries : Seq(HistoryEntries), pos : Nat, pops : Seq(Int),
                      crossed : BOOLEAN]
                   /\ b.pos \in 1..Len(b.entries)

\* The page: its folder and where it thinks it is in the history.
PageTyped(p) == p \in [folder : Routes, home : BOOLEAN, index : Nat, restoring : BOOLEAN]

\* The workbench and its dialogs.
BenchTyped(b) == b \in [root : Routes, drafts : BOOLEAN, busy : BOOLEAN,
                 ask : FolderPaths \union {NoPath},
                        op : RunningSwitch, screen : FolderPaths \union {NoPath}]

\* The type of each part of FolderSwitch.
SwitchTypeInv ==
  /\ BrowserTyped(browser) /\ PageTyped(page) /\ BenchTyped(bench) /\ opening \subseteq OpenCalls
  /\ title \in TitleStates /\ tab \in {"none", "loading", "folder", "closed"}
  /\ moves \in [count : Nat, agreed : BOOLEAN]

\* The entries are numbered, and the one without a folder has the home's address.
EntriesOK(b) == \A i \in 1..Len(b.entries) :
  b.entries[i].index = i - 1 /\ (b.entries[i].folder = HomeRoute => b.entries[i].url = HomeRoute)

\* The page shows the entry it thinks it is at.
PageIsOf(b, p) ==
  /\ p.index + 1 \in 1..Len(b.entries)
  /\ b.entries[p.index + 1].folder = p.folder
  /\ p.home <=> b.entries[p.index + 1].url = HomeRoute

\* The browser is at that entry, or the move that takes it back is the next one.
PositionOK(b, p) ==
  /\ ~p.restoring => b.pos = p.index + 1
  /\ p.restoring => b.pops # <<>> /\ Head(b.pops) = p.index + 1 - b.pos

\* All three, as long as no navigation crossed a move of the history.
AddressOK(b, p) == ~b.crossed => EntriesOK(b) /\ PageIsOf(b, p) /\ PositionOK(b, p)

\* The inductive invariant of the folder switch.
SwitchInv == SwitchTypeInv /\ AddressOK(browser, page)

\* The first of a queue of one.
LEMMA HeadOfOne ==
  ASSUME NEW x \in Int
  PROVE  Append(<<>>, x) # <<>> /\ Head(Append(<<>>, x)) = x
<1>1. <<>> \in Seq(Int) /\ Len(<<>>) = 0
  OBVIOUS
<1>2. Len(Append(<<>>, x)) = 1 /\ Append(<<>>, x)[1] = x
  BY <1>1
<1> QED BY <1>2

\* A push of the page (pushState in main.tsx) keeps the page and the history together.
LEMMA PushKeeps ==
  ASSUME BrowserTyped(browser), PageTyped(page), AddressOK(browser, page),
         NEW url \in Routes, NEW f \in Routes, NEW home \in BOOLEAN,
         ~browser.crossed /\ ~page.restoring =>
           (home <=> url = HomeRoute) /\ (f = HomeRoute => url = HomeRoute),
         NEW p, p = [page EXCEPT !.folder = f, !.home = home, !.index = @ + 1]
  PROVE  /\ BrowserTyped(Pushed(url, f)) /\ PageTyped(p) /\ AddressOK(Pushed(url, f), p)
<1> DEFINE e == [url |-> url, folder |-> f, index |-> page.index + 1]
           b == Pushed(url, f)
           kept == SubSeq(browser.entries, 1, browser.pos)
<1>1. /\ browser.entries \in Seq(HistoryEntries) /\ browser.pos \in 1..Len(browser.entries)
      /\ browser.pops \in Seq(Int) /\ browser.crossed \in BOOLEAN
      /\ page.restoring \in BOOLEAN /\ page.index \in Nat /\ e \in HistoryEntries
  BY DEF BrowserTyped, PageTyped, HistoryEntries
<1>2. /\ kept \in Seq(HistoryEntries) /\ Len(kept) = browser.pos
      /\ \A i \in 1..browser.pos : kept[i] = browser.entries[i]
  BY <1>1
<1>3. PICK crossed \in BOOLEAN : crossed = (browser.crossed \/ page.restoring)
  OBVIOUS
<1>a. b = [browser EXCEPT !.entries = Append(kept, e), !.pos = browser.pos + 1, !.crossed = crossed]
  BY <1>3 DEF Pushed
<1>b. /\ Append(kept, e) \in Seq(HistoryEntries) /\ Len(Append(kept, e)) = browser.pos + 1
      /\ Append(kept, e)[browser.pos + 1] = e
      /\ \A i \in 1..browser.pos : Append(kept, e)[i] = browser.entries[i]
  <2> HIDE DEF kept, e
  <2> QED BY <1>1, <1>2
<1> HIDE DEF b, e, kept
<1>e. browser.pos + 1 \in Nat
  BY <1>1
<1>c. /\ b.entries = Append(kept, e) /\ b.pos = browser.pos + 1 /\ b.pops = browser.pops
      /\ b.crossed = crossed
      /\ b \in [entries : Seq(HistoryEntries), pos : Nat, pops : Seq(Int), crossed : BOOLEAN]
  BY <1>1, <1>3, <1>a, <1>b, <1>e DEF BrowserTyped
<1>d. page.index + 1 \in Nat
  BY <1>1
<1>4. /\ p.folder = f /\ p.home = home /\ p.index = page.index + 1
      /\ p.restoring = page.restoring /\ PageTyped(p)
  BY <1>d DEF PageTyped
<1>5. /\ Len(b.entries) = browser.pos + 1 /\ b.entries[browser.pos + 1] = e
      /\ \A i \in 1..browser.pos : b.entries[i] = browser.entries[i]
  BY <1>b, <1>c
<1>6. BrowserTyped(b)
  BY <1>1, <1>5, <1>c DEF BrowserTyped
<1>7. AddressOK(b, p)
  <2> SUFFICES ASSUME ~b.crossed PROVE EntriesOK(b) /\ PageIsOf(b, p) /\ PositionOK(b, p)
    BY DEF AddressOK
  <2>1. /\ ~page.restoring /\ EntriesOK(browser) /\ browser.pos = page.index + 1
        /\ home <=> url = HomeRoute
        /\ f = HomeRoute => url = HomeRoute
    BY <1>1, <1>3, <1>c DEF AddressOK, PositionOK
  <2>2. e.url = url /\ e.folder = f /\ e.index = page.index + 1
    BY DEF e
  <2>3. EntriesOK(b)
    <3> SUFFICES ASSUME NEW i \in 1..Len(b.entries)
                 PROVE  /\ b.entries[i].index = i - 1
                        /\ b.entries[i].folder = HomeRoute => b.entries[i].url = HomeRoute
      BY DEF EntriesOK
    <3>1. CASE i = browser.pos + 1
      BY <1>1, <1>5, <2>1, <2>2, <3>1
    <3>2. CASE i \in 1..browser.pos
      <4>1. i \in 1..Len(browser.entries) /\ b.entries[i] = browser.entries[i]
        BY <1>1, <1>5, <3>2
      <4> QED BY <2>1, <4>1 DEF EntriesOK
    <3> QED BY <1>1, <1>5, <3>1, <3>2
  <2>4. PageIsOf(b, p) /\ PositionOK(b, p)
    BY <1>1, <1>4, <1>5, <1>c, <2>1, <2>2 DEF PageIsOf, PositionOK
  <2> QED BY <2>3, <2>4
<1> QED BY <1>4, <1>6, <1>7 DEF b

\* PopState.
LEMMA PopKeeps ==
  ASSUME SwitchInv, PopState
  PROVE  BrowserTyped(browser)' /\ PageTyped(page)' /\ AddressOK(browser, page)'
<1> DEFINE there == browser.pos + Head(browser.pops)
           entry == browser.entries[there]
           moved == [browser EXCEPT !.pos = there, !.pops = Tail(@)]
<1>1. /\ browser.entries \in Seq(HistoryEntries) /\ browser.pos \in 1..Len(browser.entries)
      /\ browser.pops \in Seq(Int) /\ browser.crossed \in BOOLEAN
      /\ page.restoring \in BOOLEAN /\ page.index \in Nat
      /\ BrowserTyped(browser) /\ PageTyped(page) /\ AddressOK(browser, page)
  BY DEF SwitchInv, SwitchTypeInv, BrowserTyped, PageTyped
<1>2. browser.pops # <<>> /\ Head(browser.pops) \in Int /\ Tail(browser.pops) \in Seq(Int)
      /\ there \in Int /\ there = browser.pos + Head(browser.pops)
  BY <1>1 DEF PopState
<1>a. there \in 1..Len(browser.entries) => there \in Nat /\ entry \in HistoryEntries
  BY <1>1
<1>b. entry \in HistoryEntries => entry.index \in Nat /\ page.index - entry.index \in Int
  BY <1>1 DEF HistoryEntries
<1>c. entry = browser.entries[there] /\ moved = [browser EXCEPT !.pos = there, !.pops = Tail(@)]
  OBVIOUS
<1> HIDE DEF there, entry, moved
<1>3. CASE /\ there \notin 1..Len(browser.entries)
           /\ browser' = [browser EXCEPT !.pops = Tail(@)] /\ page' = page
  <2>1. /\ browser'.entries = browser.entries /\ browser'.pos = browser.pos
        /\ browser'.pops = Tail(browser.pops) /\ browser'.crossed = browser.crossed
        /\ BrowserTyped(browser')
    BY <1>1, <1>2, <1>3 DEF BrowserTyped
  <2>2. ~browser.crossed => ~page.restoring
    BY <1>1, <1>2, <1>3 DEF AddressOK, PositionOK, PageIsOf
  <2>3. AddressOK(browser', page')
    BY <1>1, <1>3, <2>1, <2>2 DEF AddressOK, PositionOK, PageIsOf, EntriesOK
  <2> QED BY <1>1, <1>3, <2>1, <2>3
<1>4. CASE /\ there \in 1..Len(browser.entries) /\ page.restoring
           /\ browser' = moved /\ page' = [page EXCEPT !.restoring = FALSE]
  <2>1. /\ browser'.entries = browser.entries /\ browser'.pos = there
        /\ browser'.pops = Tail(browser.pops) /\ browser'.crossed = browser.crossed
        /\ BrowserTyped(browser')
    BY <1>1, <1>2, <1>a, <1>c, <1>4 DEF BrowserTyped
  <2>2. /\ page'.folder = page.folder /\ page'.home = page.home /\ page'.index = page.index
        /\ page'.restoring = FALSE /\ PageTyped(page')
    BY <1>1, <1>4 DEF PageTyped
  <2>3. ASSUME ~browser.crossed
        PROVE  there = page.index + 1 /\ EntriesOK(browser) /\ PageIsOf(browser, page)
    BY <1>1, <1>2, <1>4, <2>3 DEF AddressOK, PositionOK
  <2>4. AddressOK(browser', page')
    BY <2>1, <2>2, <2>3 DEF AddressOK, PositionOK, PageIsOf, EntriesOK
  <2> QED BY <2>1, <2>2, <2>4
<1>5. CASE /\ there \in 1..Len(browser.entries) /\ ~page.restoring /\ browser' = moved
           /\ page' = [page EXCEPT !.folder = entry.folder, !.home = (entry.url = HomeRoute),
                                   !.index = entry.index]
  <2>0. entry \in HistoryEntries
    BY <1>a, <1>5
  <2>1. /\ browser'.entries = browser.entries /\ browser'.pos = there
        /\ browser'.pops = Tail(browser.pops) /\ browser'.crossed = browser.crossed
        /\ BrowserTyped(browser')
    BY <1>1, <1>2, <1>a, <1>c, <1>5 DEF BrowserTyped
  <2>2. /\ page'.folder = entry.folder /\ (page'.home <=> entry.url = HomeRoute)
        /\ page'.index = entry.index /\ page'.restoring = FALSE /\ PageTyped(page')
    BY <1>1, <1>5, <2>0 DEF PageTyped, HistoryEntries
  <2>3. ASSUME ~browser.crossed PROVE EntriesOK(browser) /\ entry.index = there - 1
    BY <1>1, <1>c, <1>5, <2>3 DEF AddressOK, EntriesOK
  <2>4. AddressOK(browser', page')
    BY <1>c, <1>5, <1>a, <2>1, <2>2, <2>3 DEF AddressOK, PositionOK, PageIsOf, EntriesOK
  <2> QED BY <2>1, <2>2, <2>4
<1>6. CASE /\ there \in 1..Len(browser.entries) /\ ~page.restoring
           /\ browser' = [moved EXCEPT !.pops = Append(@, page.index - entry.index),
                                        !.crossed = @ \/ moved.pops # <<>>]
           /\ page' = [page EXCEPT !.restoring = TRUE]
  <2>0. there \in Nat /\ entry.index \in Nat /\ page.index - entry.index \in Int
    BY <1>a, <1>b, <1>6
  <2>a. PICK crossed \in BOOLEAN : crossed = (browser.crossed \/ Tail(browser.pops) # <<>>)
    OBVIOUS
  <2>b. Append(Tail(browser.pops), page.index - entry.index) \in Seq(Int)
    BY <1>2, <2>0
  <2>c. moved.crossed = browser.crossed /\ moved.pops = Tail(browser.pops)
    BY <1>c, <1>1 DEF BrowserTyped
  <2>d. browser' = [browser EXCEPT !.pos = there, !.crossed = crossed,
                      !.pops = Append(Tail(browser.pops), page.index - entry.index)]
    BY <1>c, <1>1, <1>6, <2>a, <2>c DEF BrowserTyped
  <2>1. /\ browser'.entries = browser.entries /\ browser'.pos = there
        /\ browser'.pops = Append(Tail(browser.pops), page.index - entry.index)
        /\ browser'.crossed = crossed
        /\ BrowserTyped(browser')
    BY <1>1, <1>2, <1>6, <2>0, <2>b, <2>d DEF BrowserTyped
  <2>2. /\ page'.folder = page.folder /\ page'.home = page.home /\ page'.index = page.index
        /\ page'.restoring = TRUE /\ PageTyped(page')
    BY <1>1, <1>6 DEF PageTyped
  <2>3. Tail(browser.pops) = <<>> => browser'.pops # <<>>
        /\ Head(browser'.pops) = page.index - entry.index
    BY <2>0, <2>1, HeadOfOne
  <2>4. ASSUME ~browser'.crossed
        PROVE  /\ Tail(browser.pops) = <<>> /\ EntriesOK(browser) /\ PageIsOf(browser, page)
               /\ entry.index = there - 1
    BY <1>1, <1>c, <1>6, <2>a, <2>1, <2>4 DEF AddressOK, EntriesOK
  <2>5. AddressOK(browser', page')
    <3> SUFFICES ASSUME ~browser'.crossed
                 PROVE  EntriesOK(browser') /\ PageIsOf(browser', page')
                        /\ PositionOK(browser', page')
      BY DEF AddressOK
    <3>1. EntriesOK(browser') /\ PageIsOf(browser', page')
      BY <2>1, <2>2, <2>4 DEF PageIsOf, EntriesOK
    <3>2. page.index - entry.index = page'.index + 1 - browser'.pos
      BY <1>1, <2>0, <2>1, <2>2, <2>4
    <3> QED BY <2>2, <2>3, <2>4, <3>1, <3>2 DEF PositionOK
  <2> QED BY <2>1, <2>2, <2>5
<1> QED BY <1>3, <1>4, <1>5, <1>6 DEF PopState, there, entry, moved

\* So does a move that was only asked for (history.go).
LEMMA PopsKeep ==
  ASSUME SwitchInv, NEW d \in Int, browser' = [browser EXCEPT !.pops = Append(@, d)], page' = page
  PROVE  BrowserTyped(browser)' /\ PageTyped(page)' /\ AddressOK(browser, page)'
<1>1. /\ browser.pops \in Seq(Int) /\ BrowserTyped(browser) /\ PageTyped(page)
         /\ AddressOK(browser, page)
  BY DEF SwitchInv, SwitchTypeInv, BrowserTyped
<1>2. /\ Append(browser.pops, d) \in Seq(Int) /\ Append(browser.pops, d) # <<>>
      /\ browser.pops # <<>> => Head(Append(browser.pops, d)) = Head(browser.pops)
  <2> DEFINE s == browser.pops
  <2>1. s \in Seq(Int) /\ Len(s) \in Nat /\ (s # <<>> => Len(s) > 0)
    BY <1>1
  <2> HIDE DEF s
  <2>2. /\ Append(s, d) \in Seq(Int) /\ Len(Append(s, d)) = Len(s) + 1
        /\ \A i \in 1..Len(s) : Append(s, d)[i] = s[i]
    BY <2>1, AppendProperties
  <2>3. Append(s, d) # <<>>
    BY <2>1, AppendProperties
  <2>4. s # <<>> => Head(Append(s, d)) = Head(s)
    BY <2>1, <2>2
  <2> QED BY <2>2, <2>3, <2>4 DEF s
<1>3. /\ browser'.entries = browser.entries /\ browser'.pos = browser.pos
      /\ browser'.pops = Append(browser.pops, d) /\ browser'.crossed = browser.crossed
      /\ BrowserTyped(browser')
  BY <1>1, <1>2 DEF BrowserTyped
<1>4. AddressOK(browser', page')
  BY <1>1, <1>2, <1>3 DEF AddressOK, PositionOK, PageIsOf, EntriesOK
<1> QED BY <1>1, <1>3, <1>4

\* The title after a navigation is one of the titles.
LEMMA TitleTyped ==
  ASSUME SwitchAssumption, NEW home \in BOOLEAN, NEW root \in Routes, NEW before \in TitleStates
  PROVE  TitleOf(home, root, before) \in TitleStates
<1>1. Titled("home", 0) \in TitleStates
  BY DEF Titled, TitleStates, Routes, HomeRoute
<1>2. Titled("folder", root) \in TitleStates
  BY DEF Titled, TitleStates
<1> QED BY <1>1, <1>2 DEF TitleOf

\* A workbench that has just been mounted is well typed.
LEMMA FreshTyped == BenchTyped(FreshBench)
BY DEF BenchTyped, FreshBench, Routes, HomeRoute, NoSwitch, RunningSwitch

\* Mounting the workbench of a route keeps the types, whichever requests it aborts.
LEMMA MountTyped ==
  ASSUME SwitchAssumption, SwitchTypeInv, NEW route, NEW home \in BOOLEAN,
         NEW calls \in SUBSET OpenCalls,
         Mount(route, home, calls)
  PROVE  /\ BenchTyped(bench') /\ opening' \subseteq OpenCalls /\ title' \in TitleStates
         /\ moves' \in [count : Nat, agreed : BOOLEAN]
<1>1. /\ bench.root \in Routes /\ bench.op \in RunningSwitch /\ title \in TitleStates
         /\ BenchTyped(bench)
      /\ moves \in [count : Nat, agreed : BOOLEAN]
  BY DEF SwitchTypeInv, BenchTyped
<1>2. CASE route = page.folder
  <2>1. bench' = bench /\ moves' = moves /\ opening' = calls /\ title' \in TitleStates
    BY <1>1, <1>2, TitleTyped DEF Mount
  <2> QED BY <1>1, <2>1
<1>3. CASE route # page.folder
  <2>1. bench' = FreshBench /\ opening' \subseteq OpenCalls
        /\ moves' = [moves EXCEPT !.agreed = FALSE]
    BY <1>3 DEF Mount
  <2>2. title' \in TitleStates
    <3>1. CASE \E c \in Aborted(calls) : c.id = bench.op.id
      <4>1. PICK c \in Aborted(calls) : c.id = bench.op.id
        BY <3>1
      <4>2. c.id \in Nat \ {0}
        BY DEF Aborted, OpenCalls
      <4>3. bench.op.title \in TitleStates
        BY <1>1, <4>1, <4>2 DEF RunningSwitch
      <4> QED BY <1>3, <3>1, <4>3 DEF Mount
    <3>2. CASE ~ \E c \in Aborted(calls) : c.id = bench.op.id
      <4>1. HomeRoute \in Routes /\ HomeRoute = 0
        BY DEF Routes, HomeRoute
      <4>2. TitleOf(home, 0, title) \in TitleStates
        BY <1>1, <4>1, TitleTyped
      <4> QED BY <1>3, <3>2, <4>2 DEF Mount
    <3> QED BY <3>1, <3>2
  <2> QED BY <1>1, <2>1, <2>2, FreshTyped
<1> QED BY <1>2, <1>3

\* Opening a folder's address keeps the invariant.
LEMMA NavigateFolderKeeps ==
  ASSUME SwitchAssumption, SwitchInv, NEW f \in Folders, NEW calls \in SUBSET OpenCalls,
         NavigateFolder(f, calls), tab' = tab
  PROVE  SwitchInv'
<1>1. /\ BrowserTyped(browser) /\ PageTyped(page) /\ AddressOK(browser, page) /\ SwitchTypeInv
      /\ tab \in {"none", "loading", "folder", "closed"} /\ f \in Routes /\ f # HomeRoute
  BY DEF SwitchInv, SwitchTypeInv, Routes, SwitchAssumption
<1>2. BrowserTyped(browser)' /\ PageTyped(page)' /\ AddressOK(browser, page)'
  BY <1>1, PushKeeps DEF NavigateFolder
<1>3. /\ BenchTyped(bench') /\ opening' \subseteq OpenCalls /\ title' \in TitleStates
      /\ moves' \in [count : Nat, agreed : BOOLEAN]
  BY <1>1, MountTyped DEF NavigateFolder
<1> QED BY <1>1, <1>2, <1>3 DEF SwitchInv, SwitchTypeInv

\* Showing or leaving the start screen keeps the page and the history together.
LEMMA NavigateHomeKeeps ==
  ASSUME SwitchAssumption, SwitchInv, NEW open \in BOOLEAN, NEW t \in TitleStates,
         NavigateHome(open, t),
         ~browser.crossed /\ ~page.restoring /\ ~open => page.folder # HomeRoute
  PROVE  BrowserTyped(browser)' /\ PageTyped(page)' /\ AddressOK(browser, page)'
         /\ title' \in TitleStates
<1> DEFINE target == IF open THEN HomeRoute ELSE page.folder
           p == [page EXCEPT !.folder = page.folder, !.home = open, !.index = @ + 1]
<1>1. /\ BrowserTyped(browser) /\ PageTyped(page) /\ AddressOK(browser, page)
      /\ page.folder \in Routes /\ bench.root \in Routes /\ page.index + 1 \in Nat
  BY DEF SwitchInv, SwitchTypeInv, PageTyped, BenchTyped
<1>2. CASE target = Location.url
  <2>1. browser' = browser /\ page' = page /\ title' = t
    BY <1>2 DEF NavigateHome
  <2> QED BY <1>1, <2>1
<1>3. CASE target # Location.url
  <2>1. /\ browser' = Pushed(target, page.folder)
        /\ page' = [page EXCEPT !.home = open, !.index = @ + 1]
    BY <1>3 DEF NavigateHome
  <2>2. page' = p
    BY <1>1, <2>1 DEF PageTyped
  <2>3. title' \in TitleStates
    BY <1>1, <1>3, TitleTyped DEF NavigateHome
  <2>4. /\ target \in Routes
        /\ ~browser.crossed /\ ~page.restoring =>
             (open <=> target = HomeRoute) /\ (page.folder = HomeRoute => target = HomeRoute)
    BY <1>1 DEF Routes
  <2> HIDE DEF target
  <2>5. BrowserTyped(Pushed(target, page.folder)) /\ PageTyped(p)
        /\ AddressOK(Pushed(target, page.folder), p)
    BY <1>1, <2>4, PushKeeps
  <2> QED BY <2>1, <2>2, <2>3, <2>5
<1> QED BY <1>2, <1>3

\* The tab of the folder in the picker.
TabStates == {"none", "loading", "folder", "closed"}

\* The bound on moves, and whether the user agreed to leave.
MoveCounts == [count : Nat, agreed : BOOLEAN]

\* The parts of the invariant, and the types of the fields the actions read.
LEMMA SwitchParts ==
  ASSUME SwitchInv
  PROVE  /\ BrowserTyped(browser) /\ PageTyped(page) /\ AddressOK(browser, page)
         /\ BenchTyped(bench) /\ opening \subseteq OpenCalls /\ title \in TitleStates
            /\ tab \in TabStates
         /\ moves \in MoveCounts /\ Moved1 \in MoveCounts
         /\ [Moved1 EXCEPT !.agreed = TRUE] \in MoveCounts
            /\ [moves EXCEPT !.agreed = FALSE] \in MoveCounts
         /\ page.folder \in Routes /\ page.home \in BOOLEAN
         /\ bench.root \in Routes /\ bench.ask \in FolderPaths \union {NoPath}
            /\ bench.op \in RunningSwitch
         /\ bench.screen \in FolderPaths \union {NoPath}
<1>1. moves \in MoveCounts /\ moves.count + 1 \in Nat
  BY DEF SwitchInv, SwitchTypeInv, MoveCounts
<1>2. Moved1 \in MoveCounts
  BY <1>1 DEF Moved1, MoveCounts
<1>3. [Moved1 EXCEPT !.agreed = TRUE] \in MoveCounts /\ [moves EXCEPT !.agreed = FALSE] \in MoveCounts
  BY <1>1, <1>2 DEF MoveCounts
<1> QED BY <1>1, <1>2, <1>3 DEF SwitchInv, SwitchTypeInv, PageTyped, BenchTyped, TabStates

\* The invariant from its parts, when the history stands still.
LEMMA SwitchWhole ==
  ASSUME BrowserTyped(browser'), PageTyped(page'), AddressOK(browser', page'), BenchTyped(bench'),
         opening' \subseteq OpenCalls, title' \in TitleStates, tab' \in TabStates,
         moves' \in MoveCounts
  PROVE  SwitchInv'
BY DEF SwitchInv, SwitchTypeInv, TabStates, MoveCounts

\* A step that leaves browser and page alone needs only the types.
LEMMA StaysPut ==
  ASSUME SwitchInv, browser' = browser, page' = page
  PROVE  BrowserTyped(browser') /\ PageTyped(page') /\ AddressOK(browser', page')
BY DEF SwitchInv, SwitchTypeInv

\* The changes the handlers make to the workbench keep its type.
LEMMA BenchUpdates ==
  ASSUME NEW b, BenchTyped(b), NEW root \in Routes, NEW flag \in BOOLEAN,
         NEW path \in FolderPaths \union {NoPath}, NEW switch \in RunningSwitch
  PROVE  /\ BenchTyped([b EXCEPT !.root = root])
         /\ BenchTyped([b EXCEPT !.drafts = flag])
         /\ BenchTyped([b EXCEPT !.busy = flag])
         /\ BenchTyped([b EXCEPT !.ask = path])
         /\ BenchTyped([b EXCEPT !.op = switch, !.screen = path])
         /\ b.drafts \in BOOLEAN /\ b.busy \in BOOLEAN
BY DEF BenchTyped

\* The invariant holds at first: one entry, and the page is at it.
LEMMA SwitchInits == SwitchAssumption /\ SwitchInit => SwitchInv
<1> SUFFICES ASSUME SwitchAssumption, SwitchInit PROVE SwitchInv
  OBVIOUS
<1>1. PICK r \in FirstRoutes :
        /\ browser = [entries |-> <<[url |-> r, folder |-> r, index |-> 0]>>, pos |-> 1,
           pops |-> <<>>,
                      crossed |-> FALSE]
        /\ page = [folder |-> r, home |-> r = HomeRoute, index |-> 0, restoring |-> FALSE]
        /\ title = Titled(IF r = HomeRoute THEN "home" ELSE "start", 0)
  BY DEF SwitchInit
<1>2. r \in Routes /\ 0 \in Routes
  BY DEF SwitchAssumption, Routes, HomeRoute
<1>3. PICK home \in BOOLEAN : home = (r = HomeRoute)
  OBVIOUS
<1> DEFINE e == [url |-> r, folder |-> r, index |-> 0]
<1>4. e \in HistoryEntries /\ e.index = 0 /\ e.url = r /\ e.folder = r
  BY <1>2 DEF HistoryEntries
<1>5. browser.entries = <<e>> /\ browser.pos = 1 /\ browser.pops = <<>> /\ browser.crossed = FALSE
  BY <1>1
<1> HIDE DEF e
<1>6. <<e>> \in Seq(HistoryEntries) /\ Len(<<e>>) = 1 /\ <<e>>[1] = e /\ <<>> \in Seq(Int)
  BY <1>4
<1>7. BrowserTyped(browser)
  BY <1>1, <1>5, <1>6 DEF BrowserTyped, e
<1>8. /\ page.folder = r /\ (page.home <=> r = HomeRoute) /\ page.index = 0 /\ page.restoring = FALSE
      /\ PageTyped(page)
  BY <1>1, <1>2, <1>3 DEF PageTyped
<1>9. AddressOK(browser, page)
  BY <1>4, <1>5, <1>6, <1>8 DEF AddressOK, EntriesOK, PageIsOf, PositionOK
<1>10. title \in TitleStates /\ BenchTyped(bench) /\ opening \subseteq OpenCalls
  BY <1>1, <1>2, FreshTyped DEF SwitchInit, Titled, TitleStates
<1>11. moves \in MoveCounts /\ tab \in TabStates
  BY DEF SwitchInit, MoveCounts, TabStates
<1> QED BY <1>7, <1>8, <1>9, <1>10, <1>11 DEF SwitchInv, SwitchTypeInv, MoveCounts, TabStates

\* The popstate handler (main.tsx:85) keeps the invariant: it goes there, or back.
LEMMA PopStateKeeps ==
  ASSUME SwitchAssumption, SwitchInv, PopState
  PROVE  SwitchInv'
<1>1. BrowserTyped(browser') /\ PageTyped(page') /\ AddressOK(browser', page')
  BY PopKeeps
<1>2. /\ tab' = tab
      /\ \/ UNCHANGED <<bench, opening, title, moves>>
         \/ \E route, home : home \in BOOLEAN /\ Mount(route, home, opening)
  BY DEF PopState
<1>3. CASE UNCHANGED <<bench, opening, title, moves>>
  BY <1>1, <1>2, <1>3, SwitchParts, SwitchWhole
<1>4. ASSUME NEW route, NEW home \in BOOLEAN, Mount(route, home, opening) PROVE SwitchInv'
  <2>1. /\ BenchTyped(bench') /\ opening' \subseteq OpenCalls /\ title' \in TitleStates
        /\ moves' \in [count : Nat, agreed : BOOLEAN]
    BY <1>4, SwitchParts, MountTyped DEF SwitchInv
  <2> QED BY <1>1, <1>2, <2>1, SwitchParts, SwitchWhole DEF MoveCounts
<1> QED BY <1>2, <1>3, <1>4

\* The request that opens a folder, and the switch that waits for it, are well typed.
LEMMA BeginTyped ==
  ASSUME SwitchInv, NEW path \in FolderPaths, NEW b, BenchTyped(b), Begin(path, b)
  PROVE  BenchTyped(bench') /\ opening' \subseteq OpenCalls /\ title' \in TitleStates
<1> DEFINE id == moves.count + 1
           c == [kind |-> "switch", id |-> id, at |-> "frame", to |-> path.to, title |-> title]
<1>1. id \in Nat \ {0} /\ path.to \in Folders /\ title \in TitleStates /\ opening \subseteq OpenCalls
  BY SwitchParts DEF MoveCounts, FolderPaths
<1>2. c \in OpenCalls /\ [id |-> id, title |-> title] \in RunningSwitch
  BY <1>1 DEF OpenCalls, RunningSwitch
<1>3. Titled("opening", path.to) \in TitleStates
  BY <1>1 DEF Titled, TitleStates, Routes
<1> DEFINE s == [id |-> id, title |-> title]
<1>4. s \in RunningSwitch /\ path \in FolderPaths \union {NoPath} /\ bench.root \in Routes
  BY <1>2, SwitchParts
<1> HIDE DEF id, s
<1>5. BenchTyped([b EXCEPT !.op = s, !.screen = path])
  BY <1>4, BenchUpdates
<1> QED BY <1>1, <1>2, <1>3, <1>5 DEF Begin, id, s

\* Going back to the folder when a switch did not come about keeps the invariant.
LEMMA ReturnKeeps ==
  ASSUME SwitchAssumption, SwitchInv, ReturnFromHome, bench.root # 0
  PROVE  /\ BrowserTyped(browser') /\ PageTyped(page') /\ AddressOK(browser', page')
         /\ opening' \subseteq OpenCalls /\ title' \in TitleStates
<1>1. CASE page.folder = HomeRoute
  <2>1. bench.root \in Folders
    BY SwitchParts DEF Routes, HomeRoute
  <2>2. [kind |-> "close", id |-> 0, at |-> "sent", to |-> bench.root] \in OpenCalls
    BY <2>1 DEF OpenCalls
  <2>3. opening' \subseteq OpenCalls
    BY <1>1, <2>2, SwitchParts DEF ReturnFromHome
  <2>4. browser' = browser /\ page' = page /\ title' = title
    BY <1>1 DEF ReturnFromHome
  <2> QED BY <2>3, <2>4, StaysPut, SwitchParts
<1>2. CASE page.folder # HomeRoute
  <2>1. NavigateHome(FALSE, title) /\ opening' = opening
    BY <1>2 DEF ReturnFromHome
  <2> QED BY <1>2, <2>1, NavigateHomeKeeps, SwitchParts
<1> QED BY <1>1, <1>2

\* A folder that could not be opened keeps the invariant.
LEMMA FailsKeeps ==
  ASSUME SwitchInv, NEW c \in opening, c.kind = "switch", SwitchFails(c)
  PROVE  SwitchInv'
<1>1. c \in OpenCalls /\ c.title \in TitleStates
  BY SwitchParts DEF OpenCalls
<1>2. /\ browser' = browser /\ page' = page /\ tab' = tab /\ title' \in TitleStates
      /\ opening' \subseteq OpenCalls /\ moves' \in MoveCounts
  BY <1>1, SwitchParts DEF SwitchFails
<1>3. NoSwitch \in RunningSwitch /\ NoPath \in FolderPaths \union {NoPath}
  BY DEF NoSwitch, RunningSwitch
<1>4. BenchTyped(bench')
  BY <1>3, SwitchParts, BenchUpdates DEF SwitchFails
<1> QED BY <1>2, <1>4, StaysPut, SwitchParts, SwitchWhole

\* A folder that was opened keeps the invariant, whatever was begun meanwhile.
LEMMA ArrivesKeeps ==
  ASSUME SwitchAssumption, SwitchInv, NEW c \in opening, SwitchArrives(c)
  PROVE  SwitchInv'
<1>1. c \in OpenCalls /\ c.title \in TitleStates /\ c.to \in Folders /\ c.kind = "switch"
  BY SwitchParts DEF OpenCalls, SwitchArrives
<1>2. CASE SwitchFails(c)
  BY <1>1, <1>2, FailsKeeps
<1>3. CASE /\ SameRoute(c)
           /\ bench' = [bench EXCEPT !.op = NoSwitch, !.screen = NoPath]
           /\ NavigateHome(FALSE, c.title)
           /\ opening' = opening \ {c}
           /\ moves' = [moves EXCEPT !.agreed = FALSE]
           /\ UNCHANGED tab
  <2>1. NoSwitch \in RunningSwitch /\ NoPath \in FolderPaths \union {NoPath}
    BY DEF NoSwitch, RunningSwitch
  <2>2. BenchTyped(bench')
    BY <1>3, <2>1, SwitchParts, BenchUpdates
  <2>3. Location.url # HomeRoute
    BY <1>1, <1>3 DEF SameRoute, SwitchAssumption
  <2>4. ASSUME ~browser.crossed, ~page.restoring PROVE page.folder # HomeRoute
    <3>1. EntriesOK(browser) /\ PageIsOf(browser, page) /\ browser.pos = page.index + 1
      BY <2>4, SwitchParts DEF AddressOK, PositionOK
    <3> QED BY <2>3, <3>1 DEF EntriesOK, PageIsOf, Location
  <2>5. BrowserTyped(browser') /\ PageTyped(page') /\ AddressOK(browser', page')
        /\ title' \in TitleStates
    BY <1>1, <1>3, <2>4, NavigateHomeKeeps
  <2> QED BY <1>3, <2>2, <2>5, SwitchParts, SwitchWhole
<1>4. CASE NavigateFolder(c.to, opening \ {c}) /\ tab' = tab
  <2>1. opening \ {c} \in SUBSET OpenCalls
    BY SwitchParts
  <2> QED BY <1>1, <1>4, <2>1, NavigateFolderKeeps
<1> QED BY <1>2, <1>3, <1>4 DEF SwitchArrives

\* The steps of a request keep the invariant.
LEMMA CallsKeep ==
  ASSUME SwitchAssumption, SwitchInv, NEW c \in opening,
         FrameRuns(c) \/ SwitchArrives(c) \/ CloseArrives(c) \/ TabArrives(c)
  PROVE  SwitchInv'
<1>1. c \in OpenCalls /\ c.to \in Folders /\ opening \ {c} \in SUBSET OpenCalls
  BY SwitchParts DEF OpenCalls
<1>2. CASE FrameRuns(c)
  <2>1. CASE c.id = bench.op.id /\ ~bench.busy
    <3>1. [c EXCEPT !.at = "sent"] \in OpenCalls
      BY <1>1, <1>2 DEF FrameRuns, OpenCalls
    <3>2. /\ opening' = (opening \ {c}) \union {[c EXCEPT !.at = "sent"]}
          /\ UNCHANGED <<browser, page, bench, title, tab, moves>>
      BY <1>2, <2>1 DEF FrameRuns
    <3> QED BY <1>1, <3>1, <3>2, StaysPut, SwitchParts, SwitchWhole
  <2>2. CASE ~(c.id = bench.op.id /\ ~bench.busy)
    BY <1>2, <2>2, FailsKeeps DEF FrameRuns
  <2> QED BY <2>1, <2>2
<1>3. CASE SwitchArrives(c)
  BY <1>3, ArrivesKeeps
<1>4. CASE CloseArrives(c)
  <2>1. CASE opening' = opening \ {c} /\ UNCHANGED <<browser, page, bench, title, moves>>
    <3>1. tab' = tab
      BY <1>4 DEF CloseArrives
    <3> QED BY <1>1, <2>1, <3>1, StaysPut, SwitchParts, SwitchWhole
  <2>2. CASE NavigateFolder(c.to, opening \ {c})
    BY <1>1, <1>4, <2>2, NavigateFolderKeeps DEF CloseArrives
  <2> QED BY <1>4, <2>1, <2>2 DEF CloseArrives
<1>5. CASE TabArrives(c)
  <2>1. /\ opening' = opening \ {c} /\ UNCHANGED <<browser, page, bench, title, moves>>
        /\ tab' \in TabStates
    BY <1>5, SwitchParts DEF TabArrives, TabStates
  <2> QED BY <1>1, <2>1, StaysPut, SwitchParts, SwitchWhole
<1> QED BY <1>2, <1>3, <1>4, <1>5

\* The user's requests for another folder keep it, whether or not they ask first.
LEMMA RequestKeeps ==
  ASSUME SwitchAssumption, SwitchInv, NEW path \in FolderPaths, RequestFolderSwitch(path)
  PROVE  SwitchInv'
<1>1. bench.root # 0 /\ moves' = Moved1 /\ tab' = tab
  BY DEF RequestFolderSwitch, Usable
<1>2. CASE bench' = bench /\ ReturnFromHome
  BY <1>1, <1>2, ReturnKeeps, SwitchParts, SwitchWhole
<1>3. CASE bench' = bench /\ UNCHANGED <<browser, page, opening, title>>
  BY <1>1, <1>3, StaysPut, SwitchParts, SwitchWhole
<1>4. CASE bench' = [bench EXCEPT !.ask = path] /\ UNCHANGED <<browser, page, opening, title>>
  <2>1. path \in FolderPaths \union {NoPath}
    OBVIOUS
  <2>2. BenchTyped(bench')
    BY <1>4, <2>1, SwitchParts, BenchUpdates
  <2> QED BY <1>1, <1>4, <2>2, StaysPut, SwitchParts, SwitchWhole
<1>5. CASE Begin(path, bench) /\ UNCHANGED <<browser, page>>
  BY <1>1, <1>5, BeginTyped, StaysPut, SwitchParts, SwitchWhole
<1> QED BY <1>2, <1>3, <1>4, <1>5 DEF RequestFolderSwitch

\* The answers to the question about unsaved documents keep it.
LEMMA AnswerKeeps ==
  ASSUME SwitchInv, NEW yes \in BOOLEAN, AnswerAsk(yes)
  PROVE  SwitchInv'
<1>1. NoPath \in FolderPaths \union {NoPath} /\ bench.ask \in FolderPaths
  BY SwitchParts DEF AnswerAsk
<1>2. BenchTyped([bench EXCEPT !.ask = NoPath])
  BY <1>1, SwitchParts, BenchUpdates
<1>3. browser' = browser /\ page' = page /\ tab' = tab
  BY DEF AnswerAsk
<1>4. CASE yes /\ ~bench.busy
  <2>1. Begin(bench.ask, [bench EXCEPT !.ask = NoPath]) /\ moves' = [Moved1 EXCEPT !.agreed = TRUE]
    BY <1>4 DEF AnswerAsk
  <2>2. BenchTyped(bench') /\ opening' \subseteq OpenCalls /\ title' \in TitleStates
    BY <1>1, <1>2, <2>1, BeginTyped
  <2> QED BY <1>3, <2>1, <2>2, StaysPut, SwitchParts, SwitchWhole
<1>5. CASE ~(yes /\ ~bench.busy)
  <2>1. bench' = [bench EXCEPT !.ask = NoPath] /\ UNCHANGED <<opening, title, moves>>
    BY <1>5 DEF AnswerAsk
  <2> QED BY <1>2, <1>3, <2>1, StaysPut, SwitchParts, SwitchWhole
<1> QED BY <1>4, <1>5

\* Every step of the folder switch keeps the invariant.
LEMMA SwitchSteps == SwitchAssumption /\ SwitchInv /\ [SwitchNext]_switchVars => SwitchInv'
<1> SUFFICES ASSUME SwitchAssumption, SwitchInv, [SwitchNext]_switchVars PROVE SwitchInv'
  OBVIOUS
<1>1. ASSUME NEW d \in {-1, 1}, Traverse(d) PROVE SwitchInv'
  <2>1. /\ browser' = [browser EXCEPT !.pops = Append(@, d)] /\ moves' = Moved1
        /\ UNCHANGED <<page, bench, opening, title, tab>>
    BY <1>1 DEF Traverse
  <2> d \in Int
    BY <1>1
  <2>2. BrowserTyped(browser') /\ PageTyped(page') /\ AddressOK(browser', page')
    BY <1>1, <2>1, PopsKeep
  <2> QED BY <2>1, <2>2, SwitchParts, SwitchWhole
<1>2. CASE PopState
  BY <1>2, PopStateKeeps
<1>3. CASE SnapshotArrives
  <2>1. Served(page.folder) \in Routes
    BY SwitchParts DEF Served, Routes, SwitchAssumption
  <2>2. BenchTyped(bench') /\ title' \in TitleStates
    BY <1>3, <2>1, SwitchParts, BenchUpdates, TitleTyped DEF SnapshotArrives
  <2> QED BY <1>3, <2>2, StaysPut, SwitchParts, SwitchWhole DEF SnapshotArrives
<1>4. CASE Edits
  <2>1. PICK flag \in BOOLEAN : flag = ~bench.drafts
    OBVIOUS
  <2>2. BenchTyped(bench')
    BY <1>4, <2>1, SwitchParts, BenchUpdates DEF Edits
  <2> QED BY <1>4, <2>2, StaysPut, SwitchParts, SwitchWhole DEF Edits
<1>5. CASE Works
  <2>1. PICK flag \in BOOLEAN : flag = ~bench.busy
    OBVIOUS
  <2>2. BenchTyped(bench') /\ moves' \in MoveCounts
    BY <1>5, <2>1, SwitchParts, BenchUpdates DEF Works
  <2> QED BY <1>5, <2>2, StaysPut, SwitchParts, SwitchWhole DEF Works
<1>6. CASE OpenHome
  <2>1. NavigateHome(TRUE, title) /\ moves' = Moved1 /\ UNCHANGED <<bench, opening, tab>>
    BY <1>6 DEF OpenHome
  <2>2. BrowserTyped(browser') /\ PageTyped(page') /\ AddressOK(browser', page')
        /\ title' \in TitleStates
    BY <2>1, SwitchParts, NavigateHomeKeeps
  <2> QED BY <2>1, <2>2, SwitchParts, SwitchWhole
<1>7. CASE CloseHome
  <2>1. ReturnFromHome /\ bench.root # 0 /\ moves' = Moved1 /\ UNCHANGED <<bench, tab>>
    BY <1>7 DEF CloseHome, Usable
  <2> QED BY <2>1, ReturnKeeps, SwitchParts, SwitchWhole
<1>8. ASSUME NEW path \in FolderPaths, RequestFolderSwitch(path) PROVE SwitchInv'
  BY <1>8, RequestKeeps
<1>9. ASSUME NEW path \in FolderPaths, OpenFolderInNewTab(path) PROVE SwitchInv'
  <2>1. [kind |-> "tab", id |-> 0, at |-> "sent", to |-> path.to] \in OpenCalls
    BY DEF FolderPaths, OpenCalls
  <2>2. opening' \subseteq OpenCalls /\ tab' \in TabStates /\ moves' = Moved1
        /\ UNCHANGED <<browser, page, bench, title>>
    BY <1>9, <2>1, SwitchParts DEF OpenFolderInNewTab, TabStates
  <2> QED BY <2>2, StaysPut, SwitchParts, SwitchWhole
<1>10. ASSUME NEW yes \in BOOLEAN, AnswerAsk(yes) PROVE SwitchInv'
  BY <1>10, AnswerKeeps
<1>11. ASSUME NEW c \in opening, FrameRuns(c) \/ SwitchArrives(c) \/ CloseArrives(c) \/ TabArrives(c)
       PROVE  SwitchInv'
  BY <1>11, CallsKeep
<1>12. CASE CloseTab
  <2>1. tab' \in TabStates /\ UNCHANGED <<browser, page, bench, opening, title, moves>>
    BY <1>12 DEF CloseTab, TabStates
  <2> QED BY <2>1, StaysPut, SwitchParts, SwitchWhole
<1>13. CASE UNCHANGED switchVars
  BY <1>13, StaysPut, SwitchParts, SwitchWhole DEF switchVars
<1> QED BY <1>1, <1>2, <1>3, <1>4, <1>5, <1>6, <1>7, <1>8, <1>9, <1>10, <1>11, <1>12, <1>13
        DEF SwitchNext

\* The invariant implies that the address, the entry and the workbench are of one folder.
LEMMA SwitchImplies == SwitchInv => AddressMatchesBench
<1> SUFFICES ASSUME SwitchInv, ~browser.crossed
             PROVE  /\ page.restoring => browser.pops # <<>>
                    /\ ~page.restoring => /\ Location.folder = page.folder
                                             /\ Location.index = page.index
                                          /\ page.home <=> Location.url = HomeRoute
  BY DEF AddressMatchesBench
<1>1. EntriesOK(browser) /\ PageIsOf(browser, page) /\ PositionOK(browser, page) /\ page.index \in Nat
  BY DEF SwitchInv, AddressOK, SwitchTypeInv, PageTyped
<1> QED BY <1>1 DEF EntriesOK, PageIsOf, PositionOK, Location

(***************************************************************************)
(* DraftBackups                                                            *)
(***************************************************************************)

\* A text, or none.
DraftContents == DraftTexts \union {0}

\* A document of the page.
DraftDocument == [rev : Nat, text : DraftContents, saved : DraftContents, source : Docs \union {0},
                 sourceRev : Nat,
             open : BOOLEAN]

\* A backup in the journal, with its revision.
DraftRecord == [rev : Nat, text : DraftContents, kept : BOOLEAN]

\* The requests to the journal: a backup, the removal of one whose document is discarded,
PutRequest == [kind : {"put"}, id : Docs, rev : Nat, text : DraftContents]
DiscardRequest == [kind : {"discard", "again"}, id : Docs, rev : Nat, text : Docs]
RemovalRequest == [kind : {"saved", "drop"}, id : Docs, rev : Nat, text : Docs \union {0}]
DraftRequests == PutRequest \union DiscardRequest \union RemovalRequest

\* The kinds that discard are told from the others wherever they are named.
USE DEF Discards

\* The type of each part of DraftBackups.
DraftsTypeInv ==
  /\ documents \in [Docs -> DraftDocument] /\ timers \in [Docs -> DraftRecord]
  /\ journal \in [Docs -> DraftRecord] /\ recovery \in [Docs -> DraftRecord]
  /\ requests \subseteq DraftRequests
  /\ used \in [ids : Nat, edits : Nat, pages : Nat, told : [Docs -> BOOLEAN]]

\* An identity that was not used yet is nowhere.
Unused == \A i \in Docs : i > used.ids =>
  /\ ~documents[i].open /\ ~journal[i].kept /\ ~recovery[i].kept
  /\ \A r \in requests : r.id # i /\ (Discards(r) => r.text # i)
  /\ \A j \in Docs : documents[j].source # i

\* A timer is the document's, as it is.
TimersAreCurrent == \A i \in Docs : timers[i].kept =>
  IsDirty(documents[i]) /\ timers[i].rev = documents[i].rev /\ timers[i].text = documents[i].text

\* A revision of document d, or an older one.
NotNewer(rev, text, d) == rev <= d.rev /\ (rev = d.rev => text = d.text)

\* What the journal has of an open document, and what is on its way there, is of
\* that document and not newer than it; nothing but the document owns its identity.
OpenIsOwned == \A i \in Docs : documents[i].open =>
  /\ ~recovery[i].kept
  /\ \A r \in requests : r.id = i =>
       \/ r.kind = "put" /\ NotNewer(r.rev, r.text, documents[i])
       \/ Discards(r) /\ r.text = i
  /\ journal[i].kept => NotNewer(journal[i].rev, journal[i].text, documents[i])
  /\ \A j \in Docs : documents[j].source # i

\* What was typed is timed, on its way to the journal or there, unless the user was told.
DirtyIsOnItsWay == \A i \in Docs : IsDirty(documents[i]) /\ ~timers[i].kept /\ ~used.told[i] =>
  \/ \E r \in requests : /\ r.kind = "put" /\ r.id = i
                         /\ r.rev = documents[i].rev /\ r.text = documents[i].text
  \/ journal[i].kept /\ journal[i].rev = documents[i].rev /\ journal[i].text = documents[i].text

\* The inductive invariant of the draft backups.
DraftsInv == DraftsTypeInv /\ Unused /\ TimersAreCurrent /\ OpenIsOwned /\ DirtyIsOnItsWay

\* The absent document and the absent backup are well typed.
LEMMA AbsentTyped ==
  /\ Absent \in DraftDocument /\ NoRecord \in DraftRecord /\ ~Absent.open /\ Absent.source = 0
     /\ ~NoRecord.kept
BY DEF Absent, NoRecord, DraftDocument, DraftRecord, DraftContents

\* The timer of a dirty document is of its revision and text; a clean one has none.
LEMMA TimedFields ==
  ASSUME NEW ds \in [Docs -> DraftDocument], NEW i \in Docs
  PROVE  /\ Timed(ds)[i] \in DraftRecord
         /\ Timed(ds)[i].kept <=> IsDirty(ds[i])
         /\ IsDirty(ds[i]) => Timed(ds)[i].rev = ds[i].rev /\ Timed(ds)[i].text = ds[i].text
<1> DEFINE t == [rev |-> ds[i].rev, text |-> ds[i].text, kept |-> TRUE]
<1>1. ds[i].rev \in Nat /\ ds[i].text \in DraftContents
  BY DEF DraftDocument
<1>2. t \in DraftRecord /\ t.kept = TRUE /\ t.rev = ds[i].rev /\ t.text = ds[i].text
  BY <1>1 DEF DraftRecord
<1>3. Timed(ds)[i] = IF IsDirty(ds[i]) THEN t ELSE NoRecord
  BY DEF Timed
<1> HIDE DEF t
<1>4. CASE IsDirty(ds[i])
  BY <1>2, <1>3, <1>4
<1>5. CASE ~IsDirty(ds[i])
  BY <1>3, <1>5, AbsentTyped
<1> QED BY <1>4, <1>5

\* After a change of the documents the timers are current and all that is dirty is timed.
LEMMA BecomeGives ==
  ASSUME NEW ds \in [Docs -> DraftDocument], Become(ds)
  PROVE  /\ documents' = ds /\ documents' \in [Docs -> DraftDocument]
            /\ timers' \in [Docs -> DraftRecord]
         /\ TimersAreCurrent' /\ DirtyIsOnItsWay'
<1>1. documents' = ds /\ timers' = Timed(ds) /\ timers' \in [Docs -> DraftRecord]
  BY TimedFields DEF Become, Timed
<1>2. TimersAreCurrent'
  BY <1>1, TimedFields DEF TimersAreCurrent
<1>3. DirtyIsOnItsWay'
  BY <1>1, TimedFields DEF DirtyIsOnItsWay
<1> QED BY <1>1, <1>2, <1>3

\* The fields of a document, its timer and its backups are well typed.
LEMMA DocumentFields ==
  ASSUME DraftsTypeInv, NEW i \in Docs
  PROVE  /\ documents[i] \in DraftDocument /\ timers[i] \in DraftRecord /\ journal[i] \in DraftRecord
            /\ recovery[i] \in DraftRecord
         /\ documents[i].rev \in Nat /\ documents[i].text \in DraftContents
            /\ documents[i].open \in BOOLEAN
         /\ documents[i].source \in Docs \union {0} /\ documents[i].sourceRev \in Nat
         /\ documents[i].saved \in DraftContents
         /\ timers[i].rev \in Nat /\ timers[i].text \in DraftContents /\ timers[i].kept \in BOOLEAN
         /\ journal[i].rev \in Nat /\ journal[i].text \in DraftContents /\ journal[i].kept \in BOOLEAN
         /\ recovery[i].rev \in Nat /\ recovery[i].text \in DraftContents
            /\ recovery[i].kept \in BOOLEAN
         /\ used.told[i] \in BOOLEAN
BY DEF DraftsTypeInv, DraftDocument, DraftRecord

\* The counters are well typed.
LEMMA UsedFields ==
  ASSUME DraftsTypeInv
  PROVE  /\ used.ids \in Nat /\ used.edits \in Nat /\ used.pages \in Nat
            /\ used.told \in [Docs -> BOOLEAN]
BY DEF DraftsTypeInv

\* The fields of a request are well typed, by its kind.
LEMMA RequestFields ==
  ASSUME NEW r \in DraftRequests
  PROVE  /\ r.id \in Docs /\ r.rev \in Nat /\ r.kind \in {"put", "discard", "again", "saved", "drop"}
         /\ r.kind = "put" => r.text \in DraftContents /\ r \in PutRequest
         /\ Discards(r) => r.text \in Docs
BY DEF DraftRequests, PutRequest, DiscardRequest, RemovalRequest

\* A document under an identity that was not used yet is owned by nobody else.
LEMMA FreshIdentity ==
  ASSUME DocsAssumption, DraftsInv, NEW n \in Docs, n = used.ids + 1, NEW d \in DraftDocument, d.open,
         d.source # 0 => d.source <= used.ids /\ ~documents[d.source].open,
         documents' = [documents EXCEPT ![n] = d], used'.ids = n,
         requests' = requests, journal' = journal,
         \A j \in Docs : recovery'[j].kept => recovery[j].kept
  PROVE  Unused' /\ OpenIsOwned'
<1>1. /\ DraftsTypeInv /\ Unused /\ OpenIsOwned /\ used.ids \in Nat /\ Docs \subseteq Nat \ {0}
      /\ documents \in [Docs -> DraftDocument] /\ d.source \in Docs \union {0}
  BY UsedFields DEF DraftsInv, DraftsTypeInv, DocsAssumption, DraftDocument
<1>2. \A j \in Docs : documents'[j] = IF j = n THEN d ELSE documents[j]
  BY <1>1
<1>3. /\ ~documents[n].open /\ ~journal[n].kept /\ ~recovery[n].kept
      /\ \A r \in requests : r.id # n /\ (Discards(r) => r.text # n)
      /\ \A j \in Docs : documents[j].source # n
  BY <1>1 DEF Unused
<1>4. Unused'
  <2> SUFFICES ASSUME NEW i \in Docs, i > used'.ids
               PROVE  /\ ~documents'[i].open /\ ~journal'[i].kept /\ ~recovery'[i].kept
                      /\ \A r \in requests' : r.id # i /\ (Discards(r) => r.text # i)
                      /\ \A j \in Docs : documents'[j].source # i
    BY DEF Unused
  <2>1. i > used.ids /\ i # n /\ d.source # i
    BY <1>1
  <2> QED BY <1>1, <1>2, <2>1 DEF Unused
<1>5. OpenIsOwned'
  <2> SUFFICES ASSUME NEW i \in Docs, documents'[i].open
               PROVE  /\ ~recovery'[i].kept
                      /\ \A r \in requests' : r.id = i =>
                           \/ r.kind = "put" /\ NotNewer(r.rev, r.text, documents'[i])
                           \/ Discards(r) /\ r.text = i
                      /\ journal'[i].kept => NotNewer(journal'[i].rev, journal'[i].text,
                         documents'[i])
                      /\ \A j \in Docs : documents'[j].source # i
    BY DEF OpenIsOwned
  <2>1. CASE i = n
    BY <1>1, <1>2, <1>3, <2>1
  <2>2. CASE i # n
    <3>1. documents'[i] = documents[i] /\ documents[i].open /\ d.source # i
      BY <1>1, <1>2, <2>2
    <3> QED BY <1>1, <1>2, <3>1 DEF OpenIsOwned
  <2> QED BY <2>1, <2>2
<1> QED BY <1>4, <1>5

\* Ownership survives when documents, backups and requests only go away.
LEMMA LessRemains ==
  ASSUME DocsAssumption, DraftsInv, used'.ids = used.ids, documents' \in [Docs -> DraftDocument],
         \A j \in Docs : documents'[j] = documents[j] \/ documents'[j] = Absent,
         \A j \in Docs : journal'[j] = journal[j] \/ ~journal'[j].kept,
         \A j \in Docs : recovery'[j].kept =>
           recovery[j].kept \/ (journal[j].kept /\ ~documents'[j].open),
         \A r \in requests' : r \in requests \/
           /\ r.id \in Docs /\ r.id <= used.ids /\ (Discards(r) => r.text <= used.ids)
           /\ ~documents'[r.id].open \/ (Discards(r) /\ r.text = r.id)
  PROVE  Unused' /\ OpenIsOwned'
<1>1. /\ DraftsTypeInv /\ Unused /\ OpenIsOwned /\ used.ids \in Nat /\ Docs \subseteq Nat \ {0}
  BY UsedFields DEF DraftsInv, DraftsTypeInv, DocsAssumption
<1>2. \A j \in Docs : documents'[j].source = documents[j].source \/ documents'[j].source = 0
  BY AbsentTyped
<1>3. \A j \in Docs : documents'[j].open => documents'[j] = documents[j]
  BY AbsentTyped
<1>4. Unused'
  <2> SUFFICES ASSUME NEW i \in Docs, i > used'.ids
               PROVE  /\ ~documents'[i].open /\ ~journal'[i].kept /\ ~recovery'[i].kept
                      /\ \A r \in requests' : r.id # i /\ (Discards(r) => r.text # i)
                      /\ \A j \in Docs : documents'[j].source # i
    BY DEF Unused
  <2>1. /\ ~documents[i].open /\ ~journal[i].kept /\ ~recovery[i].kept
        /\ \A r \in requests : r.id # i /\ (Discards(r) => r.text # i)
        /\ \A j \in Docs : documents[j].source # i
    BY <1>1 DEF Unused
  <2>2. \A r \in requests' : r.id # i /\ (Discards(r) => r.text # i)
    BY <1>1, <2>1
  <2>3. \A j \in Docs : documents'[j].source # i
    BY <1>1, <1>2, <2>1
  <2>4. ~documents'[i].open /\ ~journal'[i].kept
    BY <1>3, <2>1
  <2> QED BY <2>1, <2>2, <2>3, <2>4
<1>5. OpenIsOwned'
  <2> SUFFICES ASSUME NEW i \in Docs, documents'[i].open
               PROVE  /\ ~recovery'[i].kept
                      /\ \A r \in requests' : r.id = i =>
                           \/ r.kind = "put" /\ NotNewer(r.rev, r.text, documents'[i])
                           \/ Discards(r) /\ r.text = i
                      /\ journal'[i].kept => NotNewer(journal'[i].rev, journal'[i].text,
                         documents'[i])
                      /\ \A j \in Docs : documents'[j].source # i
    BY DEF OpenIsOwned
  <2>1. documents'[i] = documents[i] /\ documents[i].open
    BY <1>3
  <2>2. /\ ~recovery[i].kept
        /\ \A r \in requests : r.id = i =>
             \/ r.kind = "put" /\ NotNewer(r.rev, r.text, documents[i])
             \/ Discards(r) /\ r.text = i
        /\ journal[i].kept => NotNewer(journal[i].rev, journal[i].text, documents[i])
        /\ \A j \in Docs : documents[j].source # i
    BY <1>1, <2>1 DEF OpenIsOwned
  <2>3. \A j \in Docs : documents'[j].source # i
    BY <1>1, <1>2, <2>2
  <2>4. \A r \in requests' : r.id = i =>
          \/ r.kind = "put" /\ NotNewer(r.rev, r.text, documents'[i])
          \/ Discards(r) /\ r.text = i
    BY <2>1, <2>2
  <2>5. journal'[i].kept => NotNewer(journal'[i].rev, journal'[i].text, documents'[i])
    BY <2>1, <2>2
  <2> QED BY <2>2, <2>3, <2>4, <2>5
<1> QED BY <1>4, <1>5

\* The counters of identities, edits and pages, and who was told of a failed backup.
UsedIdentities == [ids : Nat, edits : Nat, pages : Nat, told : [Docs -> BOOLEAN]]

\* The parts of the invariant and the types of the variables.
LEMMA DraftParts ==
  ASSUME DocsAssumption, DraftsInv
  PROVE  /\ DraftsTypeInv /\ Unused /\ TimersAreCurrent /\ OpenIsOwned /\ DirtyIsOnItsWay
         /\ documents \in [Docs -> DraftDocument] /\ timers \in [Docs -> DraftRecord]
            /\ journal \in [Docs -> DraftRecord]
         /\ recovery \in [Docs -> DraftRecord] /\ requests \subseteq DraftRequests
            /\ used \in UsedIdentities
         /\ used.ids \in Nat /\ used.told \in [Docs -> BOOLEAN]
         /\ Docs \subseteq Nat \ {0}
BY UsedFields DEF DraftsInv, DraftsTypeInv, UsedIdentities, DocsAssumption

\* A new document keeps the invariant: its identity is a fresh one.
LEMMA NewDocumentKeeps ==
  ASSUME DocsAssumption, DraftsInv, NewDocument
  PROVE  DraftsInv'
<1> DEFINE n == used.ids + 1
           d == [Absent EXCEPT !.open = TRUE]
<1>1. n \in Docs /\ n = used.ids + 1 /\ used' = [used EXCEPT !.ids = @ + 1]
      /\ Become([documents EXCEPT ![n] = d]) /\ requests' = requests /\ journal' = journal
      /\ recovery' = recovery
  BY DEF NewDocument
<1>2. d \in DraftDocument /\ d.open /\ d.source = 0
  BY DEF Absent, DraftDocument, DraftContents
<1>3. n \in Nat
  BY <1>1, DraftParts
<1>4. used' \in UsedIdentities /\ used'.ids = n
  BY <1>1, <1>3, DraftParts DEF UsedIdentities
<1> HIDE DEF n, d
<1>5. [documents EXCEPT ![n] = d] \in [Docs -> DraftDocument]
  BY <1>1, <1>2, DraftParts
<1>6. /\ documents' = [documents EXCEPT ![n] = d] /\ documents' \in [Docs -> DraftDocument]
      /\ timers' \in [Docs -> DraftRecord] /\ TimersAreCurrent' /\ DirtyIsOnItsWay'
  BY <1>1, <1>5, BecomeGives
<1>7. Unused' /\ OpenIsOwned'
  BY <1>1, <1>2, <1>4, <1>6, FreshIdentity
<1> QED BY <1>1, <1>4, <1>6, <1>7, DraftParts DEF DraftsInv, DraftsTypeInv, UsedIdentities

\* A draft restored from the journal keeps it: the document has a fresh identity, and
\* its source is a backup that no open document owns.
LEMMA RestoreDraftKeeps ==
  ASSUME DocsAssumption, DraftsInv, NEW i \in Docs, RestoreDraft(i)
  PROVE  DraftsInv'
<1> DEFINE n == used.ids + 1
           d == [rev |-> 0, text |-> recovery[i].text, saved |-> recovery[i].text,
                 source |-> i, sourceRev |-> recovery[i].rev, open |-> TRUE]
<1>1. n \in Docs /\ n = used.ids + 1 /\ used' = [used EXCEPT !.ids = @ + 1]
      /\ Become([documents EXCEPT ![n] = d]) /\ requests' = requests /\ journal' = journal
      /\ recovery' = [recovery EXCEPT ![i] = NoRecord] /\ recovery[i].kept
  BY DEF RestoreDraft
<1>2. d \in DraftDocument /\ d.open /\ d.source = i
  BY DraftParts, DocumentFields DEF DraftDocument
<1>3. n \in Nat /\ i <= used.ids /\ ~documents[i].open
  BY <1>1, DraftParts DEF Unused, OpenIsOwned
<1>4. used' \in UsedIdentities /\ used'.ids = n
  BY <1>1, <1>3, DraftParts DEF UsedIdentities
<1>5. recovery' \in [Docs -> DraftRecord] /\ \A j \in Docs : recovery'[j].kept => recovery[j].kept
  BY <1>1, DraftParts, AbsentTyped
<1> HIDE DEF n, d
<1>6. [documents EXCEPT ![n] = d] \in [Docs -> DraftDocument]
  BY <1>1, <1>2, DraftParts
<1>7. /\ documents' = [documents EXCEPT ![n] = d] /\ documents' \in [Docs -> DraftDocument]
      /\ timers' \in [Docs -> DraftRecord] /\ TimersAreCurrent' /\ DirtyIsOnItsWay'
  BY <1>1, <1>6, BecomeGives
<1>8. Unused' /\ OpenIsOwned'
  BY <1>1, <1>2, <1>3, <1>4, <1>5, <1>7, FreshIdentity
<1> QED BY <1>1, <1>4, <1>5, <1>7, <1>8, DraftParts DEF DraftsInv, DraftsTypeInv, UsedIdentities

\* An edit keeps it: the revision grows and the timer is set again.
LEMMA EditDocumentKeeps ==
  ASSUME DocsAssumption, DraftsInv, NEW i \in Docs, NEW text \in DraftTexts, EditDocument(i, text)
  PROVE  DraftsInv'
<1> DEFINE d == [documents[i] EXCEPT !.text = text, !.rev = @ + 1]
<1>1. /\ documents[i].open /\ documents[i].rev \in Nat /\ documents[i] \in DraftDocument
         /\ text \in DraftContents
      /\ used.edits + 1 \in Nat /\ [used.told EXCEPT ![i] = FALSE] \in [Docs -> BOOLEAN]
      /\ documents[i].rev + 1 \in Nat
  BY DraftParts, DocumentFields, UsedFields DEF EditDocument, DraftContents
<1>2. /\ used' = [used EXCEPT !.edits = @ + 1, !.told = [used.told EXCEPT ![i] = FALSE]]
      /\ Become([documents EXCEPT ![i].text = text, ![i].rev = @ + 1])
      /\ requests' = requests /\ journal' = journal /\ recovery' = recovery
  BY DraftParts DEF EditDocument, UsedIdentities
<1>3. d \in DraftDocument /\ d.open /\ d.source = documents[i].source /\ d.rev = documents[i].rev + 1
  BY <1>1 DEF DraftDocument
<1>4. used' \in UsedIdentities /\ used'.ids = used.ids
  BY <1>1, <1>2, DraftParts DEF UsedIdentities
<1>5. [documents EXCEPT ![i].text = text, ![i].rev = @ + 1] = [documents EXCEPT ![i] = d]
  BY <1>1, DraftParts
<1> HIDE DEF d
<1>6. [documents EXCEPT ![i] = d] \in [Docs -> DraftDocument]
  BY <1>3, DraftParts
<1>7. /\ documents' = [documents EXCEPT ![i] = d] /\ documents' \in [Docs -> DraftDocument]
      /\ timers' \in [Docs -> DraftRecord] /\ TimersAreCurrent' /\ DirtyIsOnItsWay'
  BY <1>2, <1>5, <1>6, BecomeGives
<1>8. /\ \A j \in Docs : documents'[j] = IF j = i THEN d ELSE documents[j]
      /\ \A j \in Docs : documents'[j].source = documents[j].source
         /\ (documents'[j].open <=> documents[j].open)
  BY <1>1, <1>3, <1>7, DraftParts
<1>9. Unused'
  BY <1>2, <1>4, <1>8, DraftParts DEF Unused
<1>10. OpenIsOwned'
  <2> SUFFICES ASSUME NEW j \in Docs, documents'[j].open
               PROVE  /\ ~recovery'[j].kept
                      /\ \A r \in requests' : r.id = j =>
                           \/ r.kind = "put" /\ NotNewer(r.rev, r.text, documents'[j])
                           \/ Discards(r) /\ r.text = j
                      /\ journal'[j].kept => NotNewer(journal'[j].rev, journal'[j].text,
                         documents'[j])
                      /\ \A k \in Docs : documents'[k].source # j
    BY DEF OpenIsOwned
  <2>1. /\ ~recovery[j].kept
        /\ \A r \in requests : r.id = j =>
             \/ r.kind = "put" /\ NotNewer(r.rev, r.text, documents[j])
             \/ Discards(r) /\ r.text = j
        /\ journal[j].kept => NotNewer(journal[j].rev, journal[j].text, documents[j])
        /\ \A k \in Docs : documents[k].source # j
    BY <1>8, DraftParts DEF OpenIsOwned
  <2>2. ASSUME NEW rev \in Nat, NEW t,
        NotNewer(rev, t, documents[j]) PROVE NotNewer(rev, t, documents'[j])
    BY <1>1, <1>3, <1>8, <2>2 DEF NotNewer
  <2>3. \A r \in requests : r.rev \in Nat
    BY DraftParts, RequestFields
  <2>4. journal[j].rev \in Nat
    BY DraftParts, DocumentFields
  <2> QED BY <1>2, <1>8, <2>1, <2>2, <2>3, <2>4
<1> QED BY <1>2, <1>4, <1>7, <1>9, <1>10, DraftParts DEF DraftsInv, DraftsTypeInv, UsedIdentities

\* Every document, backup and request has an identity that was used.
LEMMA KnownIdentities ==
  ASSUME DocsAssumption, DraftsInv
  PROVE  /\ \A i \in Docs : documents[i].open \/ journal[i].kept \/ recovery[i].kept => i <= used.ids
         /\ \A r \in requests : r.id <= used.ids /\ (Discards(r) => r.text <= used.ids)
<1>1. /\ Unused /\ used.ids \in Nat /\ Docs \subseteq Nat \ {0}
      /\ \A r \in requests : r.id \in Docs /\ (Discards(r) => r.text \in Docs)
  BY DraftParts, RequestFields
<1>2. \A i \in Docs : ~(i > used.ids) => i <= used.ids
  BY <1>1
<1>3. \A i \in Docs : documents[i].open \/ journal[i].kept \/ recovery[i].kept => ~(i > used.ids)
  BY <1>1 DEF Unused
<1>4. \A r \in requests : ~(r.id > used.ids) /\ (Discards(r) => ~(r.text > used.ids))
  BY <1>1 DEF Unused
<1> QED BY <1>1, <1>2, <1>3, <1>4

\* The user is told about document i.
LEMMA ToldRecord ==
  ASSUME NEW u \in UsedIdentities, NEW told \in [Docs -> BOOLEAN], NEW w, w = [u EXCEPT !.told = told]
  PROVE  w \in UsedIdentities /\ w.ids = u.ids /\ w.told = told
BY DEF UsedIdentities

\* A timer that fires keeps it: the revision is on its way to the journal.
LEMMA TimerFiresKeeps ==
  ASSUME DocsAssumption, DraftsInv, NEW i \in Docs, TimerFires(i)
  PROVE  DraftsInv'
<1> DEFINE p == [kind |-> "put", id |-> i, rev |-> timers[i].rev, text |-> timers[i].text]
<1>1. /\ requests' = requests \union {p} /\ timers' = [timers EXCEPT ![i] = NoRecord]
      /\ documents' = documents /\ journal' = journal /\ recovery' = recovery /\ used' = used
      /\ timers[i].kept
  BY DEF TimerFires
<1>2. /\ p \in DraftRequests /\ p.kind = "put" /\ p.id = i
      /\ p.rev = documents[i].rev /\ p.text = documents[i].text /\ documents[i].open
  BY <1>1, DraftParts, DocumentFields DEF TimersAreCurrent, DraftRequests, PutRequest, IsDirty
<1> HIDE DEF p
<1>3. timers' \in [Docs -> DraftRecord]
      /\ \A j \in Docs : timers'[j] = IF j = i THEN NoRecord ELSE timers[j]
  BY <1>1, DraftParts, AbsentTyped
<1>4. TimersAreCurrent'
  <2> SUFFICES ASSUME NEW j \in Docs, timers'[j].kept
               PROVE  /\ IsDirty(documents[j]) /\ timers'[j].rev = documents[j].rev
                      /\ timers'[j].text = documents[j].text
    BY <1>1 DEF TimersAreCurrent
  <2>1. timers'[j] = timers[j] /\ timers[j].kept
    BY <1>3, AbsentTyped
  <2> QED BY <2>1, DraftParts DEF TimersAreCurrent
<1>5. i <= used.ids
  BY <1>2, KnownIdentities
<1>6. Unused'
  BY <1>1, <1>2, <1>5, DraftParts DEF Unused
<1>7. NotNewer(p.rev, p.text, documents[i])
  BY <1>2, DraftParts, DocumentFields DEF NotNewer
<1>8. OpenIsOwned'
  BY <1>1, <1>2, <1>7, DraftParts DEF OpenIsOwned
<1>9. DirtyIsOnItsWay'
  <2> SUFFICES ASSUME NEW j \in Docs, IsDirty(documents[j]), ~timers'[j].kept, ~used.told[j]
               PROVE  \/ \E r \in requests' : /\ r.kind = "put" /\ r.id = j
                                              /\ r.rev = documents[j].rev
                                                 /\ r.text = documents[j].text
                      \/ /\ journal[j].kept /\ journal[j].rev = documents[j].rev
                         /\ journal[j].text = documents[j].text
    BY <1>1 DEF DirtyIsOnItsWay
  <2>1. CASE j = i
    BY <1>1, <1>2, <2>1
  <2>2. CASE j # i
    BY <1>1, <1>3, <2>2, DraftParts DEF DirtyIsOnItsWay
  <2> QED BY <2>1, <2>2
<1> QED BY <1>1, <1>2, <1>3, <1>4, <1>6, <1>8, <1>9, DraftParts DEF DraftsInv, DraftsTypeInv

\* A put that is refused or lost.
LEMMA RefusedKeeps ==
  ASSUME DocsAssumption, DraftsInv, NEW r \in requests, r.kind = "put",
         requests' = requests \ {r}, used' = [used EXCEPT !.told[r.id] = TRUE],
         UNCHANGED <<documents, timers, journal, recovery>>
  PROVE  DraftsInv'
<1> DEFINE told == [used.told EXCEPT ![r.id] = TRUE]
<1>1. r.id \in Docs /\ requests' \subseteq DraftRequests
  BY DraftParts, RequestFields
<1>a. told \in [Docs -> BOOLEAN] /\ \A j \in Docs : told[j] <=> j = r.id \/ used.told[j]
  BY <1>1, DraftParts
<1>2. /\ [used.told EXCEPT ![r.id] = TRUE] \in [Docs -> BOOLEAN]
      /\ used' = [used EXCEPT !.told = told]
  BY <1>1, DraftParts DEF UsedIdentities
<1>b. used \in UsedIdentities
  BY DraftParts
<1> HIDE DEF told
<1>3. /\ used' \in UsedIdentities /\ used'.ids = used.ids
      /\ \A j \in Docs : used'.told[j] <=> j = r.id \/ used.told[j]
  <2>1. used' \in UsedIdentities /\ used'.ids = used.ids /\ used'.told = told
    BY ONLY <1>a, <1>b, <1>2, ToldRecord
  <2> QED BY <1>a, <2>1
<1>4. documents' = documents /\ journal' = journal /\ recovery' = recovery /\ timers' = timers
  OBVIOUS
<1>5. Unused' /\ OpenIsOwned'
  BY <1>3, <1>4, DraftParts, LessRemains
<1>6. TimersAreCurrent'
  BY <1>4, DraftParts DEF TimersAreCurrent
<1>7. DirtyIsOnItsWay'
  BY <1>3, <1>4, DraftParts DEF DirtyIsOnItsWay
<1> QED BY <1>1, <1>3, <1>4, <1>5, <1>6, <1>7, DraftParts DEF DraftsInv, DraftsTypeInv, UsedIdentities

\* A put that becomes the record.
LEMMA AcceptedKeeps ==
  ASSUME DocsAssumption, DraftsInv, NEW r \in requests, r.kind = "put", ~Stale(journal[r.id], r),
         requests' = requests \ {r},
         journal' = [journal EXCEPT ![r.id] = [rev |-> r.rev, text |-> r.text, kept |-> TRUE]],
         UNCHANGED <<documents, timers, recovery, used>>
  PROVE  DraftsInv'
<1> DEFINE i == r.id
           record == [rev |-> r.rev, text |-> r.text, kept |-> TRUE]
<1>1. i \in Docs /\ r.rev \in Nat /\ r.text \in DraftContents /\ requests' \subseteq DraftRequests
  BY DraftParts, RequestFields
<1>a. i <= used.ids
  BY KnownIdentities DEF i
<1>2. record \in DraftRecord /\ record.rev = r.rev /\ record.text = r.text /\ record.kept
  BY <1>1 DEF DraftRecord
<1>3. documents' = documents /\ recovery' = recovery /\ timers' = timers /\ used' = used
  OBVIOUS
<1> HIDE DEF i, record
<1>4. /\ journal' \in [Docs -> DraftRecord]
      /\ \A j \in Docs : journal'[j] = IF j = i THEN record ELSE journal[j]
  BY <1>1, <1>2, DraftParts DEF i, record
<1>5. Unused'
  BY <1>1, <1>a, <1>3, <1>4, DraftParts DEF Unused
<1>6. TimersAreCurrent'
  BY <1>3, DraftParts DEF TimersAreCurrent
<1>7. OpenIsOwned'
  <2> SUFFICES ASSUME NEW j \in Docs, documents[j].open
               PROVE  /\ ~recovery[j].kept
                      /\ \A q \in requests' : q.id = j =>
                           \/ q.kind = "put" /\ NotNewer(q.rev, q.text, documents[j])
                           \/ Discards(q) /\ q.text = j
                      /\ journal'[j].kept => NotNewer(journal'[j].rev, journal'[j].text, documents[j])
                      /\ \A k \in Docs : documents[k].source # j
    BY <1>3 DEF OpenIsOwned
  <2>1. CASE j = i
    <3>1. NotNewer(r.rev, r.text, documents[i])
      BY <2>1, DraftParts DEF OpenIsOwned, i
    <3> QED BY <1>1, <1>2, <1>4, <2>1, <3>1, DraftParts DEF OpenIsOwned
  <2>2. CASE j # i
    BY <1>1, <1>4, <2>2, DraftParts DEF OpenIsOwned
  <2> QED BY <2>1, <2>2
<1>8. DirtyIsOnItsWay'
  <2> SUFFICES ASSUME NEW j \in Docs, IsDirty(documents[j]), ~timers[j].kept, ~used.told[j]
               PROVE  \/ \E q \in requests' : /\ q.kind = "put" /\ q.id = j
                                              /\ q.rev = documents[j].rev
                                                 /\ q.text = documents[j].text
                      \/ /\ journal'[j].kept /\ journal'[j].rev = documents[j].rev
                         /\ journal'[j].text = documents[j].text
    BY <1>3 DEF DirtyIsOnItsWay
  <2>1. CASE \E q \in requests : /\ q.kind = "put" /\ q.id = j
                                 /\ q.rev = documents[j].rev /\ q.text = documents[j].text
    <3>1. PICK q \in requests : /\ q.kind = "put" /\ q.id = j
                                /\ q.rev = documents[j].rev /\ q.text = documents[j].text
      BY <2>1
    <3>2. CASE q = r
      BY <1>1, <1>2, <1>4, <3>1, <3>2 DEF i
    <3>3. CASE q # r
      BY <3>1, <3>3
    <3> QED BY <3>2, <3>3
  <2>2. CASE /\ journal[j].kept /\ journal[j].rev = documents[j].rev
             /\ journal[j].text = documents[j].text
    <3>1. CASE j = i
      <4>1. NotNewer(r.rev, r.text, documents[i]) /\ documents[i].rev \in Nat
        BY <1>1, <3>1, DraftParts, DocumentFields DEF OpenIsOwned, i, IsDirty
      <4>2. r.rev = documents[i].rev /\ r.text = documents[i].text
        BY <1>1, <2>2, <3>1, <4>1 DEF NotNewer, Stale, i
      <4> QED BY <1>2, <1>4, <3>1, <4>2
    <3>2. CASE j # i
      BY <1>4, <2>2, <3>2
    <3> QED BY <3>1, <3>2
  <2> QED BY <2>1, <2>2, DraftParts DEF DirtyIsOnItsWay
<1> QED BY <1>1, <1>3, <1>4, <1>5, <1>6, <1>7, <1>8, DraftParts DEF DraftsInv, DraftsTypeInv

\* What the steps that only close documents and remove records have in common.
LEMMA ClosingKeeps ==
  ASSUME DocsAssumption, DraftsInv, NEW ds \in [Docs -> DraftDocument], Become(ds),
         \A j \in Docs : ds[j] = documents[j] \/ ds[j] = Absent,
         used' \in UsedIdentities, used'.ids = used.ids,
         requests' \subseteq DraftRequests, journal' \in [Docs -> DraftRecord],
         recovery' \in [Docs -> DraftRecord],
         \A j \in Docs : journal'[j] = journal[j] \/ ~journal'[j].kept,
         \A j \in Docs : recovery'[j].kept =>
           recovery[j].kept \/ (journal[j].kept /\ ~ds[j].open),
         \A r \in requests' : r \in requests \/
           /\ r.id \in Docs /\ r.id <= used.ids /\ (Discards(r) => r.text <= used.ids)
           /\ ~ds[r.id].open \/ (Discards(r) /\ r.text = r.id)
  PROVE  DraftsInv'
<1>1. /\ documents' = ds /\ documents' \in [Docs -> DraftDocument]
         /\ timers' \in [Docs -> DraftRecord]
      /\ TimersAreCurrent' /\ DirtyIsOnItsWay'
  BY BecomeGives
<1>2. Unused' /\ OpenIsOwned'
  BY <1>1, LessRemains
<1> QED BY <1>1, <1>2 DEF DraftsInv, DraftsTypeInv, UsedIdentities

\* The documents without one of them.
LEMMA ClosedOne ==
  ASSUME DocsAssumption, DraftsInv, NEW i \in Docs
  PROVE  /\ [documents EXCEPT ![i] = Absent] \in [Docs -> DraftDocument]
         /\ \A j \in Docs : [documents EXCEPT ![i] = Absent][j] = IF j = i THEN Absent ELSE documents[j]
BY DraftParts, AbsentTyped

\* The backup a document's discarding or saving begins with is of no open document but itself.
LEMMA BackupIsOwn ==
  ASSUME DocsAssumption, DraftsInv, NEW i \in Docs, documents[i].open
  PROVE  /\ BackupOf(i).id \in Docs /\ BackupOf(i).rev \in Nat
         /\ BackupOf(i).id <= used.ids /\ i <= used.ids
         /\ BackupOf(i).id # i => ~documents[BackupOf(i).id].open
         /\ documents[i].source # 0 => BackupOf(i).id # i
<1>1. /\ documents[i].source \in Docs \union {0} /\ documents[i].rev \in Nat
      /\ documents[i].sourceRev \in Nat /\ i <= used.ids /\ Docs \subseteq Nat \ {0}
      /\ used.ids \in Nat
  BY DraftParts, DocumentFields, KnownIdentities
<1>2. CASE documents[i].source = 0
  BY <1>1, <1>2 DEF BackupOf
<1>3. CASE documents[i].source # 0
  <2>1. BackupOf(i).id = documents[i].source /\ BackupOf(i).rev = documents[i].sourceRev
    BY <1>3 DEF BackupOf
  <2>2. documents[i].source \in Docs
    BY <1>1, <1>3
  <2>3. ~(documents[i].source > used.ids)
    BY <2>2, DraftParts DEF Unused
  <2>4. documents[i].source <= used.ids
    <3> DEFINE k == documents[i].source
    <3>1. k \in Nat
      BY <1>1, <2>2
    <3>2. ~(k > used.ids)
      BY <2>3
    <3> HIDE DEF k
    <3>3. k <= used.ids
      BY <1>1, <3>1, <3>2
    <3> QED BY <3>3 DEF k
  <2>5. \A j \in Docs : documents[j].open => documents[i].source # j
    BY DraftParts DEF OpenIsOwned
  <2> QED BY <1>1, <2>1, <2>2, <2>4, <2>5
<1> QED BY <1>2, <1>3

\* Closing a clean document keeps it.
LEMMA CloseCleanKeeps ==
  ASSUME DocsAssumption, DraftsInv, NEW i \in Docs, CloseClean(i)
  PROVE  DraftsInv'
<1>1. /\ Become([documents EXCEPT ![i] = Absent])
      /\ requests' = requests /\ journal' = journal /\ recovery' = recovery /\ used' = used
  BY DEF CloseClean
<1> QED BY <1>1, ClosedOne, ClosingKeeps, DraftParts

\* Saving under a name keeps it: the backup goes and the document too, unless there is
\* newer text.
LEMMA SaveDocumentKeeps ==
  ASSUME DocsAssumption, DraftsInv, NEW i \in Docs, NEW newer \in BOOLEAN, SaveDocument(i, newer)
  PROVE  DraftsInv'
<1> DEFINE b == BackupOf(i)
           first == Delete("saved", b.id, b.rev, i)
           second == Delete("saved", i, documents[i].rev, i)
           ds == [documents EXCEPT ![i] = Absent]
<1>1. /\ documents[i].open /\ Become(ds) /\ journal' = journal /\ recovery' = recovery /\ used' = used
      /\ \A r \in requests' : r \in requests \/ r = first \/ r = second
  BY DEF SaveDocument
<1>2. /\ b.id \in Docs /\ b.rev \in Nat /\ b.id <= used.ids /\ i <= used.ids
      /\ b.id # i => ~documents[b.id].open
  BY <1>1, BackupIsOwn
<1>3. documents[i].rev \in Nat
  BY DraftParts, DocumentFields
<1>4. /\ first \in DraftRequests /\ second \in DraftRequests /\ first.id = b.id /\ second.id = i
      /\ first.kind = "saved" /\ second.kind = "saved"
  <2>1. first \in DraftRequests /\ first.id = b.id /\ first.kind = "saved"
    BY <1>2 DEF Delete, DraftRequests, RemovalRequest
  <2>2. second \in DraftRequests /\ second.id = i /\ second.kind = "saved"
    BY <1>3 DEF Delete, DraftRequests, RemovalRequest
  <2> QED BY <2>1, <2>2
<1> HIDE DEF first, second
<1>5. ds \in [Docs -> DraftDocument] /\ \A j \in Docs : ds[j] = IF j = i THEN Absent ELSE documents[j]
  BY ClosedOne
<1>6. ~ds[b.id].open /\ ~ds[i].open
  BY <1>2, <1>5, AbsentTyped
<1> HIDE DEF ds
<1>7. \A r \in requests' : r \in requests \/
           /\ r.id \in Docs /\ r.id <= used.ids /\ (Discards(r) => r.text <= used.ids)
           /\ ~ds[r.id].open \/ (Discards(r) /\ r.text = r.id)
  BY <1>1, <1>2, <1>4, <1>6
<1>8. requests' \subseteq DraftRequests
  BY <1>1, <1>4, DraftParts
<1> QED BY <1>1, <1>5, <1>7, <1>8, ClosingKeeps, DraftParts

\* A reload of the page keeps it: the documents go, the journal is offered again.
LEMMA NewPageKeeps ==
  ASSUME DocsAssumption, DraftsInv, NewPage
  PROVE  DraftsInv'
<1> DEFINE ds == [i \in Docs |-> Absent]
           told == [i \in Docs |-> FALSE]
<1>1. /\ Become(ds) /\ journal' = journal /\ recovery' = journal
      /\ used' = [used EXCEPT !.pages = @ + 1, !.told = told]
      /\ requests' \subseteq requests
  BY DEF NewPage
<1>2. ds \in [Docs -> DraftDocument] /\ \A j \in Docs : ds[j] = Absent
  BY AbsentTyped
<1>3. told \in [Docs -> BOOLEAN] /\ used.pages + 1 \in Nat
  BY DraftParts, UsedFields
<1> HIDE DEF told, ds
<1>4. used' \in UsedIdentities /\ used'.ids = used.ids
  BY <1>1, <1>3, DraftParts DEF UsedIdentities
<1>5. \A j \in Docs : recovery'[j].kept => journal[j].kept /\ ~ds[j].open
  BY <1>1, <1>2, AbsentTyped
<1> QED BY <1>1, <1>2, <1>4, <1>5, ClosingKeeps, DraftParts

\* What a delete leaves.
LEMMA DeletedFields ==
  ASSUME DocsAssumption, DraftsInv, NEW r \in requests
  PROVE  /\ Deleted(r) \in [Docs -> DraftRecord] /\ r.id \in Docs
         /\ \A j \in Docs : Deleted(r)[j] = IF j = r.id THEN NoRecord ELSE journal[j]
BY DraftParts, RequestFields, AbsentTyped DEF Deleted

\* A discard that was answered keeps it: the backup has gone before the document goes.
LEMMA DiscardDoneKeeps ==
  ASSUME DocsAssumption, DraftsInv, NEW r \in requests, Discards(r), journal' = Deleted(r),
         Become([documents EXCEPT ![r.text] = Absent]), used' = used,
         requests' = requests \ {r}, recovery' = recovery
  PROVE  DraftsInv'
<1>1. r.text \in Docs
  BY DraftParts, RequestFields
<1>2. journal' \in [Docs -> DraftRecord]
      /\ \A j \in Docs : journal'[j] = journal[j] \/ ~journal'[j].kept
  BY DeletedFields, DraftParts, AbsentTyped
<1> QED BY <1>1, <1>2, ClosedOne, ClosingKeeps, DraftParts

\* What the steps that leave the documents and their timers have in common.
LEMMA StandingKeeps ==
  ASSUME DocsAssumption, DraftsInv, UNCHANGED <<documents, timers>>,
         used' \in UsedIdentities, used'.ids = used.ids,
         requests' \subseteq DraftRequests, journal' \in [Docs -> DraftRecord],
         recovery' \in [Docs -> DraftRecord],
         \A j \in Docs : journal'[j] = journal[j] \/ ~journal'[j].kept,
         \A j \in Docs : recovery'[j].kept => recovery[j].kept,
         \A r \in requests' : r \in requests \/
           /\ r.id \in Docs /\ r.id <= used.ids /\ (Discards(r) => r.text <= used.ids)
           /\ ~documents[r.id].open \/ (Discards(r) /\ r.text = r.id),
         \A r \in requests : r.kind = "put" => r \in requests',
         \A j \in Docs : documents[j].open /\ ~used'.told[j] => journal'[j] = journal[j]
         /\ ~used.told[j]
  PROVE  DraftsInv'
<1>1. documents' = documents /\ timers' = timers /\ documents' \in [Docs -> DraftDocument]
  BY DraftParts
<1>2. Unused' /\ OpenIsOwned'
  BY <1>1, LessRemains
<1>3. TimersAreCurrent'
  BY <1>1, DraftParts DEF TimersAreCurrent
<1>4. DirtyIsOnItsWay'
  <2> SUFFICES ASSUME NEW j \in Docs, IsDirty(documents[j]), ~timers[j].kept, ~used'.told[j]
               PROVE  \/ \E q \in requests' : /\ q.kind = "put" /\ q.id = j
                                              /\ q.rev = documents[j].rev
                                                 /\ q.text = documents[j].text
                      \/ /\ journal'[j].kept /\ journal'[j].rev = documents[j].rev
                         /\ journal'[j].text = documents[j].text
    BY <1>1 DEF DirtyIsOnItsWay
  <2>1. journal'[j] = journal[j] /\ ~used.told[j]
    BY DEF IsDirty
  <2> QED BY <2>1, DraftParts DEF DirtyIsOnItsWay
<1> QED BY <1>1, <1>2, <1>3, <1>4, DraftParts DEF DraftsInv, DraftsTypeInv, UsedIdentities

\* A discard that failed keeps it: the user is told, whether or not the backup went.
LEMMA DiscardFailsKeeps ==
  ASSUME DocsAssumption, DraftsInv, NEW r \in requests, Discards(r),
         journal' \in {journal, IF Deletable(r) THEN Deleted(r) ELSE journal},
         used' = [used EXCEPT !.told = [@ EXCEPT ![r.id] = TRUE, ![r.text] = TRUE]],
         UNCHANGED <<documents, timers>>, requests' = requests \ {r}, recovery' = recovery
  PROVE  DraftsInv'
<1> DEFINE told == [used.told EXCEPT ![r.id] = TRUE, ![r.text] = TRUE]
<1>1. /\ told \in [Docs -> BOOLEAN] /\ r.id \in Docs
      /\ \A j \in Docs : told[j] <=> j = r.id \/ j = r.text \/ used.told[j]
  BY DraftParts, RequestFields
<1>2. used' = [used EXCEPT !.told = told]
  BY DraftParts DEF UsedIdentities
<1> HIDE DEF told
<1>3. used' \in UsedIdentities /\ used'.ids = used.ids /\ used'.told = told
  <2>1. used \in UsedIdentities
    BY DraftParts
  <2> QED BY ONLY <1>1, <1>2, <2>1, ToldRecord
<1>4. journal' = Deleted(r) \/ journal' = journal
  OBVIOUS
<1>5. /\ journal' \in [Docs -> DraftRecord]
         /\ \A j \in Docs : journal'[j] = journal[j] \/ ~journal'[j].kept
      /\ \A j \in Docs : j # r.id => journal'[j] = journal[j]
  BY <1>4, DeletedFields, DraftParts, AbsentTyped
<1>6. \A j \in Docs : documents[j].open /\ ~used'.told[j] => journal'[j] = journal[j] /\ ~used.told[j]
  BY <1>1, <1>3, <1>5
<1>7. \A q \in requests : q.kind = "put" => q \in requests'
  OBVIOUS
<1> QED BY <1>3, <1>5, <1>6, <1>7, StandingKeeps, DraftParts

\* The removal of a saved or dropped backup keeps it.
LEMMA SavedDeletesKeeps ==
  ASSUME DocsAssumption, DraftsInv, NEW r \in requests, SavedDeletes(r)
  PROVE  DraftsInv'
<1>1. /\ r.kind \in {"saved", "drop"} /\ requests' = requests \ {r}
      /\ documents' = documents /\ timers' = timers /\ used' = used
      /\ journal' = Deleted(r) \/ journal' = journal
      /\ recovery' = [recovery EXCEPT ![r.id] = NoRecord] \/ recovery' = recovery
  BY DEF SavedDeletes
<1>2. /\ journal' \in [Docs -> DraftRecord]
         /\ \A j \in Docs : journal'[j] = journal[j] \/ ~journal'[j].kept
      /\ \A j \in Docs : j # r.id => journal'[j] = journal[j]
  BY <1>1, DeletedFields, DraftParts, AbsentTyped
<1>3. recovery' \in [Docs -> DraftRecord] /\ \A j \in Docs : recovery'[j].kept => recovery[j].kept
  BY <1>1, DraftParts, AbsentTyped
<1>4. ~documents[r.id].open
  BY <1>1, DraftParts, DeletedFields DEF OpenIsOwned
<1> QED BY <1>1, <1>2, <1>3, <1>4, StandingKeeps, DraftParts

\* Asking for a discard keeps it.
LEMMA DiscardDocumentKeeps ==
  ASSUME DocsAssumption, DraftsInv, NEW i \in Docs, DiscardDocument(i)
  PROVE  DraftsInv'
<1> DEFINE b == BackupOf(i)
           new == Delete("discard", b.id, b.rev, i)
<1>1. /\ documents[i].open /\ requests' = requests \union {new}
      /\ documents' = documents /\ timers' = timers /\ used' = used /\ journal' = journal
      /\ recovery' = recovery
  BY DEF DiscardDocument
<1>2. /\ b.id \in Docs /\ b.rev \in Nat /\ b.id <= used.ids /\ i <= used.ids
      /\ b.id # i => ~documents[b.id].open
  BY <1>1, BackupIsOwn
<1>3. new \in DraftRequests /\ new.id = b.id /\ new.kind = "discard" /\ new.text = i
  BY <1>2 DEF Delete, DraftRequests, DiscardRequest
<1> HIDE DEF new
<1>4. requests' \subseteq DraftRequests
  BY <1>1, <1>3, DraftParts
<1>5. \A r \in requests' : r \in requests \/
           /\ r.id \in Docs /\ r.id <= used.ids /\ (Discards(r) => r.text <= used.ids)
           /\ ~documents[r.id].open \/ (Discards(r) /\ r.text = r.id)
  BY <1>1, <1>2, <1>3
<1> QED BY <1>1, <1>4, <1>5, StandingKeeps, DraftParts

\* Looking a backup up keeps it: the second delete is for the document of the first.
LEMMA DiscardLooksKeeps ==
  ASSUME DocsAssumption, DraftsInv, NEW r \in requests, DiscardLooks(r)
  PROVE  DraftsInv'
<1> DEFINE new == Delete("again", r.id, journal[r.id].rev, r.text)
<1>1. /\ Discards(r) /\ r.kind = "discard" /\ requests' = (requests \ {r}) \union {new}
      /\ documents' = documents /\ timers' = timers /\ used' = used /\ journal' = journal
      /\ recovery' = recovery
  BY DEF DiscardLooks
<1>2. /\ r.id \in Docs /\ r.text \in Docs /\ journal[r.id].rev \in Nat
      /\ r.id <= used.ids /\ r.text <= used.ids
  BY <1>1, DraftParts, RequestFields, DocumentFields, KnownIdentities
<1>3. new \in DraftRequests /\ new.id = r.id /\ Discards(new) /\ new.text = r.text
  BY <1>2 DEF Delete, DraftRequests, DiscardRequest
<1>4. ~documents[r.id].open \/ r.text = r.id
  BY <1>1, <1>2, DraftParts DEF OpenIsOwned
<1> HIDE DEF new
<1>5. requests' \subseteq DraftRequests
  BY <1>1, <1>3, DraftParts
<1>6. \A q \in requests' : q \in requests \/
           /\ q.id \in Docs /\ q.id <= used.ids /\ (Discards(q) => q.text <= used.ids)
           /\ ~documents[q.id].open \/ (Discards(q) /\ q.text = q.id)
  BY <1>1, <1>2, <1>3, <1>4
<1>7. \A q \in requests : q.kind = "put" => q \in requests'
  BY <1>1
<1> QED BY <1>1, <1>5, <1>6, <1>7, StandingKeeps, DraftParts

\* Dropping an offered backup keeps it: no open document owns it.
LEMMA DropBackupKeeps ==
  ASSUME DocsAssumption, DraftsInv, NEW i \in Docs, DropBackup(i)
  PROVE  DraftsInv'
<1> DEFINE new == Delete("drop", i, recovery[i].rev, 0)
<1>1. /\ recovery[i].kept /\ requests' = requests \union {new}
      /\ documents' = documents /\ timers' = timers /\ used' = used /\ journal' = journal
      /\ recovery' = recovery
  BY DEF DropBackup
<1>2. i <= used.ids /\ ~documents[i].open /\ recovery[i].rev \in Nat
  BY <1>1, KnownIdentities, DraftParts, DocumentFields DEF OpenIsOwned
<1>3. new \in DraftRequests /\ new.id = i /\ new.kind = "drop"
  BY <1>2 DEF Delete, DraftRequests, RemovalRequest
<1> HIDE DEF new
<1>4. requests' \subseteq DraftRequests
  BY <1>1, <1>3, DraftParts
<1>5. \A r \in requests' : r \in requests \/
           /\ r.id \in Docs /\ r.id <= used.ids /\ (Discards(r) => r.text <= used.ids)
           /\ ~documents[r.id].open \/ (Discards(r) /\ r.text = r.id)
  BY <1>1, <1>2, <1>3
<1> QED BY <1>1, <1>4, <1>5, StandingKeeps, DraftParts

\* Every answer of the journal keeps the invariant.
LEMMA RequestsAnswered ==
  ASSUME DocsAssumption, DraftsInv, NEW r \in requests,
         PutArrives(r) \/ PutLost(r) \/ DiscardAnswered(r) \/ DiscardLooks(r)
           \/ SavedDeletes(r)
  PROVE  DraftsInv'
<1>1. CASE PutArrives(r)
  <2>1. CASE Stale(journal[r.id], r) \/ (Full /\ ~journal[r.id].kept)
    BY <1>1, <2>1, RefusedKeeps DEF PutArrives
  <2>2. CASE ~(Stale(journal[r.id], r) \/ (Full /\ ~journal[r.id].kept))
    BY <1>1, <2>2, AcceptedKeeps DEF PutArrives
  <2> QED BY <2>1, <2>2
<1>2. CASE PutLost(r)
  BY <1>2, RefusedKeeps DEF PutLost
<1>3. CASE DiscardAnswered(r)
  <2>1. /\ Discards(r) /\ requests' = requests \ {r} /\ recovery' = recovery
    BY <1>3 DEF DiscardAnswered
  <2>2. CASE /\ journal' = Deleted(r)
             /\ Become([documents EXCEPT ![r.text] = Absent])
             /\ UNCHANGED used
    BY <2>1, <2>2, DiscardDoneKeeps
  <2>3. CASE /\ journal' \in {journal, IF Deletable(r) THEN Deleted(r) ELSE journal}
             /\ used' = [used EXCEPT !.told = [@ EXCEPT ![r.id] = TRUE, ![r.text] = TRUE]]
             /\ UNCHANGED <<documents, timers>>
    BY <2>1, <2>3, DiscardFailsKeeps
  <2> QED BY <1>3, <2>2, <2>3 DEF DiscardAnswered
<1>4. CASE DiscardLooks(r)
  BY <1>4, DiscardLooksKeeps
<1>5. CASE SavedDeletes(r)
  BY <1>5, SavedDeletesKeeps
<1> QED BY <1>1, <1>2, <1>3, <1>4, <1>5

\* The invariant holds at first.
LEMMA DraftsInits ==
  ASSUME DocsAssumption, DraftsInit
  PROVE  DraftsInv
<1> DEFINE told == [i \in Docs |-> FALSE]
<1>1. /\ documents = [i \in Docs |-> Absent] /\ timers = [i \in Docs |-> NoRecord]
      /\ requests = {} /\ journal = [i \in Docs |-> NoRecord] /\ recovery = [i \in Docs |-> NoRecord]
      /\ used = [ids |-> 0, edits |-> 0, pages |-> 0, told |-> told] /\ told \in [Docs -> BOOLEAN]
  BY DEF DraftsInit
<1> HIDE DEF told
<1>2. DraftsTypeInv
  BY <1>1, AbsentTyped DEF DraftsTypeInv
<1>3. \A i \in Docs : /\ ~documents[i].open /\ ~journal[i].kept /\ ~recovery[i].kept
                         /\ ~timers[i].kept
                      /\ documents[i].source = 0
  BY <1>1, AbsentTyped
<1>4. Unused /\ TimersAreCurrent /\ OpenIsOwned /\ DirtyIsOnItsWay
  BY <1>1, <1>3 DEF DocsAssumption, Unused, TimersAreCurrent, OpenIsOwned, DirtyIsOnItsWay, IsDirty
<1> QED BY <1>2, <1>4 DEF DraftsInv

\* Every step of the draft backups keeps the invariant.
LEMMA DraftsSteps ==
  ASSUME DocsAssumption, DraftsInv, [DraftsNext]_draftVars
  PROVE  DraftsInv'
<1>1. CASE NewDocument
  BY <1>1, NewDocumentKeeps
<1>2. CASE NewPage
  BY <1>2, NewPageKeeps
<1>3. ASSUME NEW i \in Docs, TimerFires(i) \/ DiscardDocument(i) \/ CloseClean(i) \/ RestoreDraft(i)
                             \/ DropBackup(i)
      PROVE  DraftsInv'
  BY <1>3, TimerFiresKeeps, DiscardDocumentKeeps, CloseCleanKeeps, RestoreDraftKeeps, DropBackupKeeps
<1>4. ASSUME NEW i \in Docs, NEW t \in DraftTexts, EditDocument(i, t)
      PROVE  DraftsInv'
  BY <1>4, EditDocumentKeeps
<1>5. ASSUME NEW i \in Docs, NEW newer \in BOOLEAN, SaveDocument(i, newer)
      PROVE  DraftsInv'
  BY <1>5, SaveDocumentKeeps
<1>6. ASSUME NEW r \in requests, PutArrives(r) \/ PutLost(r) \/ DiscardAnswered(r) \/ DiscardLooks(r)
                              \/ SavedDeletes(r)
      PROVE  DraftsInv'
  BY <1>6, RequestsAnswered
<1>7. CASE UNCHANGED draftVars
  BY <1>7 DEF draftVars, DraftsInv, DraftsTypeInv, Unused, TimersAreCurrent, OpenIsOwned,
    DirtyIsOnItsWay
<1> QED BY <1>1, <1>2, <1>3, <1>4, <1>5, <1>6, <1>7 DEF DraftsNext

\* The invariant implies that what was typed is in the journal once its backup arrived.
LEMMA DraftsImply ==
  ASSUME DraftsInv
  PROVE  DirtyIsBackedUp
BY DEF DraftsInv, DirtyIsOnItsWay, DirtyIsBackedUp

\* No step takes a backup back to an older revision, or changes the text of one: the
\* journal refuses what is stale (draft_journal.go).
LEMMA BackupsAdvance ==
  ASSUME DocsAssumption, DraftsInv, [DraftsNext]_draftVars
  PROVE  BackupAdvances
<1> SUFFICES ASSUME NEW i \in Docs, journal[i].kept, journal'[i].kept
             PROVE  /\ journal'[i].rev >= journal[i].rev
                    /\ journal'[i].rev = journal[i].rev => journal'[i] = journal[i]
  BY DEF BackupAdvances
<1>1. journal[i].rev \in Nat /\ journal[i] \in DraftRecord /\ journal[i].kept \in BOOLEAN
  BY DraftParts, DocumentFields
<1>2. CASE journal'[i] = journal[i]
  BY <1>1, <1>2
<1>3. ASSUME NEW r \in requests, DiscardAnswered(r) \/ DiscardLooks(r) \/ SavedDeletes(r)
      PROVE  journal'[i] = journal[i]
  <2>1. journal' = journal \/ journal' = Deleted(r)
    BY <1>3 DEF DiscardAnswered, DiscardLooks, SavedDeletes
  <2> QED BY <2>1, DeletedFields, AbsentTyped
<1>4. ASSUME NEW r \in requests, PutArrives(r), journal'[i] # journal[i]
      PROVE  journal'[i].rev >= journal[i].rev /\ journal'[i].rev # journal[i].rev
  <2>1. /\ ~Stale(journal[r.id], r)
        /\ journal' = [journal EXCEPT ![r.id] = [rev |-> r.rev, text |-> r.text, kept |-> TRUE]]
    BY <1>4 DEF PutArrives
  <2>2. r.id = i /\ journal'[i] = [rev |-> r.rev, text |-> r.text, kept |-> TRUE] /\ r.rev \in Nat
    BY <1>4, <2>1, DraftParts, RequestFields
  <2>3. ~(r.rev < journal[i].rev) /\ ~(r.rev = journal[i].rev /\ r.text # journal[i].text)
    BY <2>1, <2>2 DEF Stale
  <2>4. journal[i] = [rev |-> journal[i].rev, text |-> journal[i].text, kept |-> TRUE]
    BY <1>1 DEF DraftRecord
  <2>5. r.rev # journal[i].rev
    BY <1>4, <2>2, <2>3, <2>4
  <2> QED BY <1>1, <2>2, <2>3, <2>5
<1>5. CASE NewDocument \/ NewPage
  BY <1>2, <1>5 DEF NewDocument, NewPage
<1>6. ASSUME NEW j \in Docs, TimerFires(j) \/ DiscardDocument(j) \/ CloseClean(j) \/ RestoreDraft(j)
                             \/ DropBackup(j)
      PROVE  journal'[i] = journal[i]
  BY <1>6 DEF TimerFires, DiscardDocument, CloseClean, RestoreDraft, DropBackup
<1>7. ASSUME NEW j \in Docs, NEW t \in DraftTexts, EditDocument(j, t)
      PROVE  journal'[i] = journal[i]
  BY <1>7 DEF EditDocument
<1>8. ASSUME NEW j \in Docs, NEW newer \in BOOLEAN, SaveDocument(j, newer)
      PROVE  journal'[i] = journal[i]
  BY <1>8 DEF SaveDocument
<1>9. ASSUME NEW r \in requests, PutLost(r)
      PROVE  journal'[i] = journal[i]
  BY <1>9 DEF PutLost
<1>10. CASE UNCHANGED draftVars
  BY <1>2, <1>10 DEF draftVars
<1> QED BY <1>2, <1>3, <1>4, <1>5, <1>6, <1>7, <1>8, <1>9, <1>10 DEF DraftsNext

(***************************************************************************)
(* Documents                                                               *)
(***************************************************************************)

\* A rename has been done, and its answer is on its way.
FileRenamed == op # NoOp /\ op.kind = "rename" /\ op.state = "done"

\* What has been in each file, also when the rename that brought it there is not known yet.
HeldBy == [p \in Files |->
  ghost.held[p] \union (IF FileRenamed /\ op.to = p THEN ghost.held[op.path] ELSE {})]

\* Every text in f has been in that file.
TextsIn(f, held) == \A p \in Files : f[p] # No => f[p] \in held[p]

\* Nothing that has been in a file is forgotten.
Grows(held, later) == \A p \in Files : held[p] \subseteq later[p]

\* The fields of the records of Documents; a field is a map from paths.
EditsRec(e) ==
  /\ e = [base |-> e.base, draft |-> e.draft, doc |-> e.doc, shown |-> e.shown]
  /\ e.base = [p \in Paths |-> e.base[p]]
  /\ e.draft = [p \in Paths |-> e.draft[p]]

GhostRec(g) ==
  /\ g = [typed |-> g.typed, held |-> g.held, acts |-> g.acts,
          created |-> g.created, dismissed |-> g.dismissed, met |-> g.met]
  /\ g.typed = [p \in Paths |-> g.typed[p]]
  /\ g.held = [p \in Files |-> g.held[p]]
  /\ g.dismissed \in BOOLEAN /\ g.met \in BOOLEAN
  /\ \A p \in Paths : No \notin g.typed[p]

DialogRec(d) ==
  d = [prompt |-> d.prompt, saveAs |-> d.saveAs, saver |-> d.saver, of |-> d.of,
       discards |-> d.discards]

\* The operation under way: a save that was done is in the file; Save As writes the
\* untitled document whole, unless its dialog was dismissed; a rename is of two files.
SaveOp(o, held) ==
  /\ o.kind = "save"
  /\ o = [state |-> o.state, kind |-> "save", path |-> o.path, to |-> o.to,
          text |-> o.text, hash |-> o.hash]
  /\ o.state = "done" => o.path \in Files /\ o.text \in held[o.path]

CreateOp(o, held, typed, dismissed, saveAs) ==
  /\ o.kind = "create"
  /\ o = [state |-> o.state, kind |-> "create", path |-> Untitled, to |-> o.to,
          text |-> o.text, closing |-> o.closing]
  /\ o.to \in Files
  /\ o.state = "done" => o.text \in held[o.to]
  /\ ~dismissed => saveAs = Untitled /\ typed[Untitled] \subseteq {o.text}

RenameOp(o) ==
  /\ o.kind = "rename"
  /\ o = [state |-> o.state, kind |-> "rename", path |-> o.path, to |-> o.to]
  /\ o.path \in Files /\ o.to \in Files /\ o.path # o.to

OpIsSound == op # NoOp =>
  \/ SaveOp(op, ghost.held)
  \/ CreateOp(op, ghost.held, ghost.typed, ghost.dismissed, dialog.saveAs)
  \/ RenameOp(op)

\* The text that a read brings has been in its file.
LoadOK(l, held) ==
  l # NoLoad =>
    /\ l = [path |-> l.path, state |-> l.state, text |-> l.text]
    /\ l.state = "served" /\ l.path \in Files /\ l.text # No => l.text \in held[l.path]

\* What is on disk, in the baselines and in the reads has been in the file.
DiskHeld == disk = [p \in Files |-> disk[p]] /\ TextsIn(disk, HeldBy)
BaseHeld == TextsIn(edits.base, HeldBy)
LoadsHeld == /\ loads = <<loads[1], loads[2]>>
             /\ LoadOK(loads[1], HeldBy) /\ LoadOK(loads[2], HeldBy)

\* What was typed into the untitled document is its text.
DocTyped == edits.doc # No => ghost.typed[Untitled] \subseteq {edits.doc}

\* The shapes of the records.
DocsRecs == EditsRec(edits) /\ GhostRec(ghost) /\ DialogRec(dialog)

\* The inductive invariant of the documents.
DocsInv == DocsRecs /\ OpIsSound /\ DiskHeld /\ BaseHeld /\ LoadsHeld /\ DocTyped /\ TypedIsKept

\* The editor's record after a change of what is shown, or of the untitled document.
LEMMA EditsFields ==
  ASSUME NEW e, EditsRec(e), NEW x
  PROVE  /\ EditsRec([e EXCEPT !.shown = x]) /\ EditsRec([e EXCEPT !.doc = x])
         /\ [e EXCEPT !.shown = x].base = e.base /\ [e EXCEPT !.doc = x].base = e.base
         /\ [e EXCEPT !.shown = x].draft = e.draft /\ [e EXCEPT !.doc = x].draft = e.draft
         /\ [e EXCEPT !.shown = x].doc = e.doc /\ [e EXCEPT !.doc = x].doc = x
<1> DEFINE b == e.base
           d == e.draft
           o == e.doc
           s == e.shown
<1>1. /\ e = [base |-> b, draft |-> d, doc |-> o, shown |-> s]
      /\ b = [p \in Paths |-> b[p]] /\ d = [p \in Paths |-> d[p]]
  BY DEF EditsRec
<1> HIDE DEF b, d, o, s
<1>2. /\ [e EXCEPT !.shown = x] = [base |-> b, draft |-> d, doc |-> o, shown |-> x]
      /\ [e EXCEPT !.doc = x] = [base |-> b, draft |-> d, doc |-> x, shown |-> s]
  BY <1>1
<1> QED BY <1>1, <1>2 DEF EditsRec, b, d, o

\* The editor's record after a new baseline.
LEMMA BaseSet ==
  ASSUME NEW e, EditsRec(e), NEW q, NEW x
  PROVE  /\ EditsRec([e EXCEPT !.base[q] = x])
         /\ [e EXCEPT !.base[q] = x].draft = e.draft /\ [e EXCEPT !.base[q] = x].doc = e.doc
         /\ \A p \in Paths : [e EXCEPT !.base[q] = x].base[p] = IF p = q THEN x ELSE e.base[p]
<1> DEFINE b == e.base
           d == e.draft
           o == e.doc
           s == e.shown
           c == [b EXCEPT ![q] = x]
<1>1. /\ e = [base |-> b, draft |-> d, doc |-> o, shown |-> s]
      /\ b = [p \in Paths |-> b[p]] /\ d = [p \in Paths |-> d[p]]
  BY DEF EditsRec
<1>2. [e EXCEPT !.base[q] = x] = [e EXCEPT !.base = c]
  OBVIOUS
<1>3. c = [p \in Paths |-> c[p]] /\ \A p \in Paths : c[p] = IF p = q THEN x ELSE b[p]
  BY <1>1
<1> HIDE DEF b, d, o, s, c
<1>4. [e EXCEPT !.base = c] = [base |-> c, draft |-> d, doc |-> o, shown |-> s]
  BY <1>1
<1> QED BY <1>1, <1>2, <1>3, <1>4 DEF EditsRec, b, d, o

\* What has been in a file has been there later on, too.
LEMMA Grown ==
  ASSUME NEW h, NEW k, Grows(h, k)
  PROVE  /\ \A f : TextsIn(f, h) => TextsIn(f, k)
         /\ \A l : LoadOK(l, h) => LoadOK(l, k)
BY DEF Grows, TextsIn, LoadOK

\* A read that begins brings nothing yet.
LEMMA BegunOK ==
  ASSUME NEW h, LoadOK(loads[1], h), LoadOK(loads[2], h), NEW p
  PROVE  /\ Begun(p) = <<Begun(p)[1], Begun(p)[2]>>
         /\ LoadOK(Begun(p)[1], h) /\ LoadOK(Begun(p)[2], h)
<1> DEFINE l == [path |-> p, state |-> "sent", text |-> No]
           m == IF loads[1] # NoLoad /\ loads[1].state # "ended" THEN loads[1] ELSE loads[2]
<1>1. LoadOK(NoLoad, h)
  BY DEF LoadOK
<1>2. l = [path |-> l.path, state |-> l.state, text |-> l.text] /\ l.state = "sent"
  OBVIOUS
<1>3. LoadOK(l, h)
  BY <1>2 DEF LoadOK
<1>4. LoadOK(m, h)
  OBVIOUS
<1>5. Begun(p) = IF p = No THEN <<NoLoad, loads[1]>> ELSE <<l, m>>
  BY DEF Begun
<1> HIDE DEF l, m
<1> QED BY <1>1, <1>3, <1>4, <1>5

\* The reads stay sound when they stand, or when one begins.
LEMMA LoadsKeep ==
  ASSUME LoadsHeld, Grows(HeldBy, HeldBy'), NEW p, loads' = loads \/ loads' = Begun(p)
  PROVE  LoadsHeld'
<1>1. LoadOK(loads[1], HeldBy') /\ LoadOK(loads[2], HeldBy')
  BY Grown DEF LoadsHeld
<1>2. CASE loads' = loads
  BY <1>1, <1>2 DEF LoadsHeld
<1>3. CASE loads' = Begun(p)
  BY <1>1, <1>3, BegunOK DEF LoadsHeld
<1> QED BY <1>2, <1>3

\* Counting an act changes nothing that was typed or held.
LEMMA ActedFields ==
  ASSUME GhostRec(ghost)
  PROVE  /\ GhostRec(Acted) /\ Acted.typed = ghost.typed /\ Acted.held = ghost.held
         /\ Acted.dismissed = ghost.dismissed /\ Acted.met = ghost.met
<1> DEFINE t == ghost.typed
           h == ghost.held
           a == ghost.acts
           c == ghost.created
           d == ghost.dismissed
           m == ghost.met
<1>1. /\ ghost = [typed |-> t, held |-> h, acts |-> a, created |-> c, dismissed |-> d, met |-> m]
      /\ t = [p \in Paths |-> t[p]] /\ h = [p \in Files |-> h[p]] /\ d \in BOOLEAN /\ m \in BOOLEAN
  BY DEF GhostRec
<1> DEFINE n == a + 1
<1>2. Acted = [ghost EXCEPT !.acts = n]
  BY DEF Acted
<1> HIDE DEF t, h, a, c, d, m, n
<1>3. Acted = [typed |-> t, held |-> h, acts |-> n, created |-> c, dismissed |-> d, met |-> m]
  BY <1>1, <1>2
<1> QED BY <1>1, <1>3 DEF GhostRec, t, h, d, m

\* Closing tabs forgets the untitled document at most.
LEMMA Tidied ==
  ASSUME NEW e, EditsRec(e), NEW ps
  PROVE  /\ EditsRec(Emptied(Forget(e, ps))) /\ Emptied(Forget(e, ps)).base = e.base
         /\ Emptied(Forget(e, ps)).draft = e.draft /\ Emptied(Forget(e, ps)).doc \in {e.doc, No}
<1> DEFINE f == Forget(e, ps)
<1>1. EditsRec(f) /\ f.base = e.base /\ f.draft = e.draft /\ f.doc \in {e.doc, No}
  BY EditsFields DEF Forget
<1> HIDE DEF f
<1> DEFINE nothing == [path |-> No, text |-> No]
<1>2. Emptied(f) = f \/ Emptied(f) = [f EXCEPT !.shown = nothing]
  BY DEF Emptied
<1> HIDE DEF nothing
<1>3. EditsRec(Emptied(f)) /\ Emptied(f).base = f.base /\ Emptied(f).draft = f.draft
      /\ Emptied(f).doc = f.doc
  <2> DEFINE z == [f EXCEPT !.shown = nothing]
  <2>1. EditsRec(z) /\ z.base = f.base /\ z.draft = f.draft /\ z.doc = f.doc
    BY <1>1, EditsFields
  <2> HIDE DEF z
  <2> QED BY <1>1, <1>2, <2>1 DEF z
<1>4. /\ EditsRec(Emptied(f)) /\ Emptied(f).base = e.base /\ Emptied(f).draft = e.draft
      /\ Emptied(f).doc \in {e.doc, No}
  BY <1>1, <1>3
<1> QED BY <1>4 DEF f

\* What has been in each file stands when neither the operation nor the disk moves.
LEMMA HeldStays ==
  ASSUME op' = op, ghost'.held = ghost.held
  PROVE  HeldBy' = HeldBy /\ Grows(HeldBy, HeldBy')
BY DEF HeldBy, FileRenamed, Grows

\* The steps that change neither drafts, nor the disk, nor what was typed.
LEMMA StandingKeep ==
  ASSUME DocumentsAssumption, DocsInv, GhostRec(ghost'), ghost'.typed = ghost.typed,
         ghost'.held = ghost.held, ghost'.dismissed = ghost.dismissed, ghost'.met = ghost.met,
         op' = op, disk' = disk, EditsRec(edits'), TextsIn(edits'.base, HeldBy),
         edits'.draft = edits.draft, edits'.doc \in {edits.doc, No}, LoadsHeld',
         DialogRec(dialog'), dialog'.saveAs = dialog.saveAs \/ dialog.saveAs = No
  PROVE  DocsInv'
<1>1. HeldBy' = HeldBy
  BY HeldStays
<1>2. DocsRecs'
  BY DEF DocsRecs
<1>3. OpIsSound'
  <2> SUFFICES ASSUME op # NoOp
               PROVE  \/ SaveOp(op, ghost.held)
                      \/ CreateOp(op, ghost.held, ghost.typed, ghost.dismissed, dialog'.saveAs)
                      \/ RenameOp(op)
    BY DEF OpIsSound
  <2>1. ASSUME CreateOp(op, ghost.held, ghost.typed, ghost.dismissed, dialog.saveAs)
        PROVE  CreateOp(op, ghost.held, ghost.typed, ghost.dismissed, dialog'.saveAs)
    BY <2>1 DEF CreateOp, DocumentsAssumption
  <2> QED BY <2>1 DEF DocsInv, OpIsSound
<1>4. DiskHeld' /\ BaseHeld'
  BY <1>1 DEF DocsInv, DiskHeld, BaseHeld
<1>5. DocTyped' /\ TypedIsKept'
  BY DEF DocsInv, DocTyped, TypedIsKept
<1> QED BY <1>2, <1>3, <1>4, <1>5 DEF DocsInv

\* The parts of the invariant.
LEMMA DocsParts ==
  ASSUME DocsInv
  PROVE  /\ EditsRec(edits) /\ GhostRec(ghost) /\ DialogRec(dialog) /\ OpIsSound /\ DiskHeld
         /\ BaseHeld /\ LoadsHeld /\ DocTyped /\ TypedIsKept
         /\ TextsIn(edits.base, HeldBy) /\ TextsIn(disk, HeldBy)
BY DEF DocsInv, DocsRecs, BaseHeld, DiskHeld

\* The dialogs' record after a change of one field,
LEMMA DialogFields ==
  ASSUME NEW d, DialogRec(d), NEW x
  PROVE  /\ DialogRec([d EXCEPT !.prompt = x]) /\ [d EXCEPT !.prompt = x].saveAs = d.saveAs
         /\ DialogRec([d EXCEPT !.saver = x]) /\ [d EXCEPT !.saver = x].saveAs = d.saveAs
         /\ DialogRec([d EXCEPT !.of = x]) /\ [d EXCEPT !.of = x].saveAs = d.saveAs
         /\ DialogRec([d EXCEPT !.discards = x]) /\ [d EXCEPT !.discards = x].saveAs = d.saveAs
         /\ DialogRec([d EXCEPT !.saveAs = x]) /\ [d EXCEPT !.saveAs = x].saveAs = x
<1> DEFINE p == d.prompt
           a == d.saveAs
           s == d.saver
           o == d.of
           c == d.discards
<1>1. d = [prompt |-> p, saveAs |-> a, saver |-> s, of |-> o, discards |-> c]
  BY DEF DialogRec
<1> HIDE DEF p, a, s, o, c
<1>2. /\ [d EXCEPT !.prompt = x] = [prompt |-> x, saveAs |-> a, saver |-> s, of |-> o, discards |-> c]
      /\ [d EXCEPT !.saver = x] = [prompt |-> p, saveAs |-> a, saver |-> x, of |-> o, discards |-> c]
      /\ [d EXCEPT !.of = x] = [prompt |-> p, saveAs |-> a, saver |-> s, of |-> x, discards |-> c]
      /\ [d EXCEPT !.discards = x] = [prompt |-> p, saveAs |-> a, saver |-> s, of |-> o,
         discards |-> x]
      /\ [d EXCEPT !.saveAs = x] = [prompt |-> p, saveAs |-> x, saver |-> s, of |-> o, discards |-> c]
  BY <1>1
<1> QED BY <1>1, <1>2 DEF DialogRec, a

\* of the loop that saves and what it saves for,
LEMMA LoopEnds ==
  ASSUME DialogRec(dialog), NEW x, NEW y, dialog' = [dialog EXCEPT !.saver = x, !.of = y]
  PROVE  DialogRec(dialog') /\ dialog'.saveAs = dialog.saveAs
<1> DEFINE p == dialog.prompt
           a == dialog.saveAs
           s == dialog.saver
           o == dialog.of
           c == dialog.discards
           f == [dialog EXCEPT !.saver = x]
<1>1. dialog = [prompt |-> p, saveAs |-> a, saver |-> s, of |-> o, discards |-> c]
  BY DEF DialogRec
<1>2. dialog' = [f EXCEPT !.of = y]
  OBVIOUS
<1> HIDE DEF p, a, s, o, c
<1>3. f = [prompt |-> p, saveAs |-> a, saver |-> x, of |-> o, discards |-> c]
  BY <1>1
<1> HIDE DEF f
<1>4. dialog' = [prompt |-> p, saveAs |-> a, saver |-> x, of |-> y, discards |-> c]
  BY <1>2, <1>3
<1> QED BY <1>4 DEF DialogRec, a

\* of the prompt after that loop,
LEMMA PromptAfterLoop ==
  ASSUME DialogRec(dialog), NEW x, NEW y, dialog' = [dialog EXCEPT !.of = x, !.prompt = y]
  PROVE  DialogRec(dialog') /\ dialog'.saveAs = dialog.saveAs
<1> DEFINE p == dialog.prompt
           a == dialog.saveAs
           s == dialog.saver
           o == dialog.of
           c == dialog.discards
           f == [dialog EXCEPT !.of = x]
<1>1. dialog = [prompt |-> p, saveAs |-> a, saver |-> s, of |-> o, discards |-> c]
  BY DEF DialogRec
<1>2. dialog' = [f EXCEPT !.prompt = y]
  OBVIOUS
<1> HIDE DEF p, a, s, o, c
<1>3. f = [prompt |-> p, saveAs |-> a, saver |-> s, of |-> x, discards |-> c]
  BY <1>1
<1> HIDE DEF f
<1>4. dialog' = [prompt |-> y, saveAs |-> a, saver |-> s, of |-> x, discards |-> c]
  BY <1>2, <1>3
<1> QED BY <1>4 DEF DialogRec, a

\* after a discard,
LEMMA PromptAfterDiscard ==
  ASSUME DialogRec(dialog), NEW x, NEW y, dialog' = [dialog EXCEPT !.discards = x, !.prompt = y]
  PROVE  DialogRec(dialog') /\ dialog'.saveAs = dialog.saveAs
<1> DEFINE p == dialog.prompt
           a == dialog.saveAs
           s == dialog.saver
           o == dialog.of
           c == dialog.discards
           f == [dialog EXCEPT !.discards = x]
<1>1. dialog = [prompt |-> p, saveAs |-> a, saver |-> s, of |-> o, discards |-> c]
  BY DEF DialogRec
<1>2. dialog' = [f EXCEPT !.prompt = y]
  OBVIOUS
<1> HIDE DEF p, a, s, o, c
<1>3. f = [prompt |-> p, saveAs |-> a, saver |-> s, of |-> o, discards |-> x]
  BY <1>1
<1> HIDE DEF f
<1>4. dialog' = [prompt |-> y, saveAs |-> a, saver |-> s, of |-> o, discards |-> x]
  BY <1>2, <1>3
<1> QED BY <1>4 DEF DialogRec, a

\* and after a Save As.
LEMMA PromptAfterSaveAs ==
  ASSUME DialogRec(dialog), NEW x, NEW y, dialog' = [dialog EXCEPT !.saveAs = x, !.prompt = y]
  PROVE  DialogRec(dialog') /\ dialog'.saveAs = x
<1> DEFINE p == dialog.prompt
           a == dialog.saveAs
           s == dialog.saver
           o == dialog.of
           c == dialog.discards
           f == [dialog EXCEPT !.saveAs = x]
<1>1. dialog = [prompt |-> p, saveAs |-> a, saver |-> s, of |-> o, discards |-> c]
  BY DEF DialogRec
<1>2. dialog' = [f EXCEPT !.prompt = y]
  OBVIOUS
<1> HIDE DEF p, a, s, o, c
<1>3. f = [prompt |-> p, saveAs |-> x, saver |-> s, of |-> o, discards |-> c]
  BY <1>1
<1> HIDE DEF f
<1>4. dialog' = [prompt |-> y, saveAs |-> x, saver |-> s, of |-> o, discards |-> c]
  BY <1>2, <1>3
<1> QED BY <1>4 DEF DialogRec, a

\* Opening a file and reloading keep the invariant: they only begin a read.
LEMMA ReadsKeep ==
  ASSUME DocumentsAssumption, DocsInv, NEW p, Reload \/ SelectRepositoryFile(p)
  PROVE  DocsInv'
<1>1. /\ \E q : loads' = Begun(q)
      /\ ghost' = Acted /\ disk' = disk /\ edits' = edits /\ op' = op /\ dialog' = dialog
  BY DEF Reload, SelectRepositoryFile
<1>2. /\ GhostRec(ghost') /\ ghost'.typed = ghost.typed /\ ghost'.held = ghost.held
      /\ ghost'.dismissed = ghost.dismissed /\ ghost'.met = ghost.met
  BY <1>1, ActedFields, DocsParts
<1>3. LoadsHeld'
  BY <1>1, <1>2, HeldStays, LoadsKeep, DocsParts
<1> QED BY <1>1, <1>2, <1>3, StandingKeep, DocsParts

\* The reads stay sound when one of them becomes sound.
LEMMA LoadChanged ==
  ASSUME DocsInv, NEW i \in {1, 2}, NEW x, loads' = [loads EXCEPT ![i] = x], LoadOK(x, HeldBy),
         op' = op, ghost' = ghost
  PROVE  LoadsHeld'
<1>1. /\ loads = <<loads[1], loads[2]>> /\ LoadOK(loads[1], HeldBy) /\ LoadOK(loads[2], HeldBy)
  BY DocsParts DEF LoadsHeld
<1> DEFINE a == loads[1]
           b == loads[2]
<1> HIDE DEF a, b
<1>2. loads = <<a, b>>
  BY <1>1 DEF a, b
<1>3. CASE i = 1
  <2>1. loads' = <<x, b>>
    BY <1>2, <1>3
  <2> QED BY <1>1, <2>1, HeldStays DEF LoadsHeld, b
<1>4. CASE i = 2
  <2>1. loads' = <<a, x>>
    BY <1>2, <1>4
  <2> QED BY <1>1, <2>1, HeldStays DEF LoadsHeld, a
<1> QED BY <1>3, <1>4

\* Whether or not an act was counted, what was typed and held stands.
LEMMA GhostStands ==
  ASSUME DocsInv, ghost' = ghost \/ ghost' = Acted
  PROVE  /\ GhostRec(ghost') /\ ghost'.typed = ghost.typed /\ ghost'.held = ghost.held
         /\ ghost'.dismissed = ghost.dismissed /\ ghost'.met = ghost.met
BY ActedFields, DocsParts

\* A read has its fields, and what it brings has been in the file.
LEMMA LoadFields ==
  ASSUME DocsInv, NEW i \in {1, 2}
  PROVE  /\ LoadOK(loads[i], HeldBy)
         /\ loads[i] # NoLoad =>
              loads[i] = [path |-> loads[i].path, state |-> loads[i].state, text |-> loads[i].text]
BY DocsParts DEF LoadsHeld, LoadOK

\* The server's answer keeps the invariant: it is what the file holds now.
LEMMA ReadFileKeeps ==
  ASSUME DocumentsAssumption, DocsInv, NEW i \in {1, 2}, ReadFile(i)
  PROVE  DocsInv'
<1> DEFINE p == loads[i].path
           text == IF p = Untitled THEN edits.doc ELSE disk[p]
           x == [path |-> p, state |-> "served", text |-> text]
<1>1. /\ loads' = [loads EXCEPT ![i] = x]
      /\ disk' = disk /\ edits' = edits /\ op' = op /\ dialog' = dialog /\ ghost' = ghost
  BY DEF ReadFile
<1>2. p \in Files /\ text # No => text \in HeldBy[p]
  BY DocsParts DEF TextsIn, DocumentsAssumption
<1> HIDE DEF p, text
<1>3. /\ x = [path |-> x.path, state |-> x.state, text |-> x.text]
      /\ x.path = p /\ x.text = text
  OBVIOUS
<1>4. LoadOK(x, HeldBy)
  BY <1>2, <1>3 DEF LoadOK
<1> HIDE DEF x
<1>5. LoadsHeld'
  BY <1>1, <1>4, LoadChanged
<1> QED BY <1>1, <1>5, GhostStands, StandingKeep, DocsParts

\* The load that ended, or is forgotten.
LEMMA LoadOver ==
  ASSUME DocsInv, NEW i \in {1, 2}, loads[i] # NoLoad, op' = op, ghost' = ghost,
         loads' = [loads EXCEPT ![i] = IF i = 1 THEN [@ EXCEPT !.state = "ended"] ELSE NoLoad]
  PROVE  LoadsHeld'
<1> DEFINE x == IF i = 1 THEN [loads[i] EXCEPT !.state = "ended"] ELSE NoLoad
           p == loads[i].path
           s == loads[i].state
           t == loads[i].text
           e == [path |-> p, state |-> "ended", text |-> t]
<1>1. loads' = [loads EXCEPT ![i] = x]
  OBVIOUS
<1>2. loads[i] = [path |-> p, state |-> s, text |-> t]
  BY LoadFields
<1> HIDE DEF p, s, t
<1>3. [loads[i] EXCEPT !.state = "ended"] = e
  BY <1>2
<1>4. e = [path |-> e.path, state |-> e.state, text |-> e.text] /\ e.state = "ended"
  OBVIOUS
<1>5. LoadOK(e, HeldBy) /\ LoadOK(NoLoad, HeldBy)
  BY <1>4 DEF LoadOK
<1>6. LoadOK(x, HeldBy)
  BY <1>3, <1>5
<1> HIDE DEF x
<1> QED BY <1>1, <1>6, LoadChanged

\* Mounting the editor changes neither baselines nor drafts.
LEMMA MountedOnly ==
  ASSUME NEW e, EditsRec(e), NEW p
  PROVE  /\ EditsRec(Mounted(e, p)) /\ Mounted(e, p).base = e.base /\ Mounted(e, p).draft = e.draft
         /\ Mounted(e, p).doc = e.doc
<1> DEFINE x == [path |-> p, text |-> Adapted(e, p)]
           z == [e EXCEPT !.shown = x]
<1>1. Mounted(e, p) = e \/ Mounted(e, p) = z
  BY DEF Mounted
<1> HIDE DEF x
<1>2. EditsRec(z) /\ z.base = e.base /\ z.draft = e.draft /\ z.doc = e.doc
  BY EditsFields
<1> HIDE DEF z
<1> QED BY <1>1, <1>2

\* An answer keeps it, an old one too: its text has been in the file, so the baseline is
\* one of the file's texts (the effect on the review target, GitnaReviewUI.tsx).
LEMMA LoadArrivesKeeps ==
  ASSUME DocumentsAssumption, DocsInv, NEW i \in {1, 2}, LoadArrives(i)
  PROVE  DocsInv'
<1> DEFINE l == loads[i]
           set == [edits EXCEPT !.base[l.path] = l.text]
           known == IF l.path = Untitled \/ edits.draft[l.path] = No THEN set ELSE edits
<1>1. /\ l # NoLoad /\ l.state = "served" /\ l.text # No
      /\ edits' = (IF i = 1 THEN Mounted(known, l.path) ELSE known)
      /\ disk' = disk /\ op' = op /\ dialog' = dialog /\ ghost' = ghost
  BY DEF LoadArrives
<1>2. loads' = [loads EXCEPT ![i] = IF i = 1 THEN [@ EXCEPT !.state = "ended"] ELSE NoLoad]
  BY DEF LoadArrives
<1>3. LoadsHeld'
  BY <1>1, <1>2, LoadOver
<1>4. l.path \in Files => l.text \in HeldBy[l.path]
  BY <1>1, LoadFields DEF LoadOK
<1>5. /\ EditsRec(set) /\ set.draft = edits.draft /\ set.doc = edits.doc
      /\ \A p \in Paths : set.base[p] = IF p = l.path THEN l.text ELSE edits.base[p]
  <2>1. EditsRec(edits)
    BY DocsParts
  <2> HIDE DEF l
  <2> QED BY <2>1, BaseSet
<1> HIDE DEF set
<1>6. TextsIn(set.base, HeldBy)
  BY <1>4, <1>5, DocsParts DEF TextsIn, Paths
<1>7. /\ EditsRec(known) /\ known.draft = edits.draft /\ known.doc = edits.doc
      /\ TextsIn(known.base, HeldBy)
  BY <1>5, <1>6, DocsParts
<1> HIDE DEF known
<1>8. /\ EditsRec(edits') /\ edits'.draft = edits.draft /\ edits'.doc = edits.doc
      /\ edits'.base = known.base
  BY <1>1, <1>7, MountedOnly
<1> QED BY <1>1, <1>3, <1>7, <1>8, GhostStands, StandingKeep, DocsParts

\* A failed read keeps it.
LEMMA LoadFailsKeeps ==
  ASSUME DocumentsAssumption, DocsInv, NEW i \in {1, 2}, LoadFails(i)
  PROVE  DocsInv'
<1> DEFINE l == loads[i]
           nothing == [path |-> No, text |-> No]
           z == [edits EXCEPT !.shown = nothing]
<1>1. /\ l # NoLoad
      /\ disk' = disk /\ op' = op /\ dialog' = dialog /\ ghost' = ghost
  BY DEF LoadFails
<1>2. edits' = edits \/ edits' = Mounted(edits, l.path) \/ edits' = z
  BY DEF LoadFails
<1>3. loads' = [loads EXCEPT ![i] = IF i = 1 THEN [@ EXCEPT !.state = "ended"] ELSE NoLoad]
  BY DEF LoadFails
<1>4. LoadsHeld'
  BY <1>1, <1>3, LoadOver
<1> HIDE DEF nothing
<1>5. EditsRec(z) /\ z.base = edits.base /\ z.draft = edits.draft /\ z.doc = edits.doc
  BY EditsFields, DocsParts
<1> HIDE DEF z
<1>6. /\ EditsRec(edits') /\ edits'.draft = edits.draft /\ edits'.doc = edits.doc
      /\ edits'.base = edits.base
  BY <1>2, <1>5, MountedOnly, DocsParts
<1> QED BY <1>1, <1>4, <1>6, GhostStands, StandingKeep, DocsParts

\* Tabs that close without a draft being dropped.
LEMMA ClosedKeeps ==
  ASSUME DocumentsAssumption, DocsInv, NEW ps, Closed(ps), edits' = Emptied(Forget(edits, ps)),
         op' = op, disk' = disk, ghost' = ghost \/ ghost' = Acted,
         DialogRec(dialog'), dialog'.saveAs = dialog.saveAs
  PROVE  DocsInv'
<1>1. loads' = loads \/ loads' = Begun(tabs'.current)
  BY DEF Closed
<1>2. LoadsHeld'
  BY <1>1, GhostStands, HeldStays, LoadsKeep, DocsParts
<1>3. EditsRec(edits') /\ edits'.base = edits.base /\ edits'.draft = edits.draft
      /\ edits'.doc \in {edits.doc, No}
  BY Tidied, DocsParts
<1> QED BY <1>2, <1>3, GhostStands, StandingKeep, DocsParts

\* Only the dialogs change.
LEMMA DialogKeeps ==
  ASSUME DocumentsAssumption, DocsInv, op' = op, disk' = disk, ghost' = ghost \/ ghost' = Acted,
         edits' = edits, loads' = loads, DialogRec(dialog'),
         dialog'.saveAs = dialog.saveAs \/ dialog.saveAs = No
  PROVE  DocsInv'
<1>1. LoadsHeld'
  BY GhostStands, HeldStays, LoadsKeep, DocsParts
<1> QED BY <1>1, GhostStands, StandingKeep, DocsParts

\* Closing tabs keeps it: no draft goes without a question.
LEMMA CloseTabsKeeps ==
  ASSUME DocumentsAssumption, DocsInv, NEW ps, CloseTabs(ps)
  PROVE  DocsInv'
<1>1. op' = op /\ disk' = disk /\ ghost' = Acted
  BY DEF CloseTabs
<1>2. \/ \E x : dialog' = [dialog EXCEPT !.prompt = x] /\ edits' = edits /\ loads' = loads
      \/ Closed(ps) /\ edits' = Emptied(Forget(edits, ps)) /\ dialog' = dialog
  BY DEF CloseTabs
<1>3. CASE \E x : dialog' = [dialog EXCEPT !.prompt = x] /\ edits' = edits /\ loads' = loads
  <2>1. DialogRec(dialog)
    BY DocsParts
  <2>2. PICK x : dialog' = [dialog EXCEPT !.prompt = x]
    BY <1>3
  <2>3. DialogRec(dialog') /\ dialog'.saveAs = dialog.saveAs
    BY <2>1, <2>2, DialogFields
  <2> QED BY <1>1, <1>3, <2>3, DialogKeeps
<1>4. CASE Closed(ps) /\ edits' = Emptied(Forget(edits, ps)) /\ dialog' = dialog
  BY <1>1, <1>4, ClosedKeeps, DocsParts
<1> QED BY <1>2, <1>3, <1>4

\* The dialog that closes dirty tabs keeps it, as far as it only starts its work or
\* closes what has no draft.
LEMMA DialogStepsKeep ==
  ASSUME DocumentsAssumption, DocsInv, SavePendingTabs \/ SavedPendingTabs \/ DiscardPendingTabs
  PROVE  DocsInv'
<1>1. CASE SavePendingTabs
  <2>1. /\ op' = op /\ disk' = disk /\ ghost' = ghost /\ edits' = edits /\ loads' = loads
        /\ dialog.saveAs = No
        /\ \/ dialog' = [dialog EXCEPT !.saveAs = Untitled]
           \/ dialog' = [dialog EXCEPT !.saver = dialog.prompt.paths, !.of = dialog.prompt]
    BY <1>1 DEF SavePendingTabs
  <2>2. DialogRec(dialog)
    BY DocsParts
  <2>3. CASE dialog' = [dialog EXCEPT !.saveAs = Untitled]
    <3>1. DialogRec(dialog')
      BY <2>2, <2>3, DialogFields
    <3> QED BY <2>1, <3>1, DialogKeeps
  <2>4. CASE dialog' = [dialog EXCEPT !.saver = dialog.prompt.paths, !.of = dialog.prompt]
    <3>1. DialogRec(dialog')
      BY <2>2, <2>4, LoopEnds
    <3> QED BY <2>1, <3>1, DialogKeeps
  <2> QED BY <2>1, <2>3, <2>4
<1>2. CASE SavedPendingTabs
  <2> DEFINE ps == ToSet(dialog.of.paths)
  <2>1. /\ op' = op /\ disk' = disk /\ ghost' = ghost
        /\ \E x : dialog' = [dialog EXCEPT !.of = NoPrompt, !.prompt = x]
        /\ \/ edits' = edits /\ loads' = loads
           \/ Closed(ps) /\ edits' = Emptied(Forget(edits, ps))
    BY <1>2 DEF SavedPendingTabs
  <2>2. DialogRec(dialog') /\ dialog'.saveAs = dialog.saveAs
    <3>1. PICK x : dialog' = [dialog EXCEPT !.of = NoPrompt, !.prompt = x]
      BY <2>1
    <3>2. DialogRec(dialog)
      BY DocsParts
    <3> QED BY <3>1, <3>2, PromptAfterLoop
  <2> HIDE DEF ps
  <2> QED BY <2>1, <2>2, DialogKeeps, ClosedKeeps
<1>3. CASE DiscardPendingTabs
  <2>1. /\ op' = op /\ disk' = disk /\ ghost' = ghost /\ edits' = edits /\ loads' = loads
        /\ dialog' = [dialog EXCEPT !.discards = dialog.prompt]
    BY <1>3 DEF DiscardPendingTabs
  <2> QED BY <2>1, DialogFields, DialogKeeps, DocsParts
<1> QED BY <1>1, <1>2, <1>3

\* An operation that starts keeps it.
LEMMA OpStarts ==
  ASSUME DocumentsAssumption, DocsInv, op = NoOp, op'.state = "sent",
         \/ SaveOp(op', ghost.held)
         \/ CreateOp(op', ghost.held, ghost.typed, ghost.dismissed, dialog.saveAs)
         \/ RenameOp(op'),
         ghost' = ghost \/ ghost' = Acted, UNCHANGED <<disk, edits, loads, dialog>>
  PROVE  DocsInv'
<1>1. /\ GhostRec(ghost') /\ ghost'.typed = ghost.typed /\ ghost'.held = ghost.held
      /\ ghost'.dismissed = ghost.dismissed /\ ghost'.met = ghost.met
  BY GhostStands
<1>2. HeldBy' = HeldBy /\ Grows(HeldBy, HeldBy')
  BY <1>1 DEF HeldBy, FileRenamed, Grows
<1>3. OpIsSound'
  BY <1>1 DEF OpIsSound
<1>4. LoadsHeld'
  BY <1>2, LoadsKeep, DocsParts
<1> QED BY <1>1, <1>2, <1>3, <1>4
        DEF DocsInv, DocsRecs, DiskHeld, BaseHeld, DocTyped, TypedIsKept

\* A save starts with the draft and the baseline.
LEMMA SaveStarts ==
  ASSUME NEW p, NEW held
  PROVE  SaveOp(SaveOf(p), held) /\ SaveOf(p).state = "sent"
<1> DEFINE o == SaveOf(p)
           t == edits.draft[p]
           h == edits.base[p]
<1>1. o = [state |-> "sent", kind |-> "save", path |-> p, to |-> p, text |-> t, hash |-> h]
  BY DEF SaveOf
<1> HIDE DEF o, t, h
<1>2. SaveOp(o, held) /\ o.state = "sent"
  BY <1>1 DEF SaveOp
<1> QED BY <1>2 DEF o

\* requestSave keeps the invariant.
LEMMA RequestSaveKeeps ==
  ASSUME DocumentsAssumption, DocsInv, NEW p, RequestSave(p)
  PROVE  DocsInv'
<1>1. disk' = disk /\ edits' = edits /\ loads' = loads /\ ghost' = Acted /\ dialog.saveAs = No
  BY DEF RequestSave, Idle
<1>2. CASE p = Untitled
  <2>1. dialog' = [dialog EXCEPT !.saveAs = p] /\ op' = op
    BY <1>2 DEF RequestSave
  <2>2. DialogRec(dialog')
    BY <2>1, DialogFields, DocsParts
  <2> QED BY <1>1, <2>1, <2>2, DialogKeeps
<1>3. CASE p # Untitled
  <2>1. op = NoOp /\ op' = SaveOf(p) /\ dialog' = dialog
    BY <1>3 DEF RequestSave, CanSave
  <2> QED BY <1>1, <2>1, SaveStarts, OpStarts
<1> QED BY <1>2, <1>3

\* So does a turn of the loop that saves the tabs to be closed.
LEMMA SaveNextKeeps ==
  ASSUME DocumentsAssumption, DocsInv, SaveNext
  PROVE  DocsInv'
<1> DEFINE p == Head(dialog.saver)
<1>1. disk' = disk /\ edits' = edits /\ loads' = loads /\ ghost' = ghost
  BY DEF SaveNext
<1>2. \/ dialog' = [dialog EXCEPT !.saver = Tail(@)] /\ op' = op
      \/ op = NoOp /\ op' = SaveOf(p) /\ dialog' = dialog
      \/ dialog' = [dialog EXCEPT !.saver = <<>>, !.of = NoPrompt] /\ op' = op
  BY DEF SaveNext, CanSave
<1>3. CASE dialog' = [dialog EXCEPT !.saver = Tail(@)] /\ op' = op
  <2> DEFINE x == Tail(dialog.saver)
  <2>1. dialog' = [dialog EXCEPT !.saver = x] /\ DialogRec(dialog)
    BY <1>3, DocsParts
  <2> HIDE DEF x
  <2>2. DialogRec(dialog') /\ dialog'.saveAs = dialog.saveAs
    BY <2>1, DialogFields
  <2> QED BY <1>1, <1>3, <2>2, DialogKeeps
<1>4. CASE op = NoOp /\ op' = SaveOf(p) /\ dialog' = dialog
  <2> HIDE DEF p
  <2> QED BY <1>1, <1>4, SaveStarts, OpStarts
<1>5. CASE dialog' = [dialog EXCEPT !.saver = <<>>, !.of = NoPrompt] /\ op' = op
  <2>1. DialogRec(dialog)
    BY DocsParts
  <2>2. DialogRec(dialog') /\ dialog'.saveAs = dialog.saveAs
    BY <1>5, <2>1, LoopEnds
  <2> QED BY <1>1, <1>5, <2>2, DialogKeeps
<1> QED BY <1>2, <1>3, <1>4, <1>5

\* So does submitting Save As: the request has the whole text of the document.
LEMMA SubmitSaveAsKeeps ==
  ASSUME DocumentsAssumption, DocsInv, NEW to \in Files, SubmitSaveAs(to)
  PROVE  DocsInv'
<1> DEFINE t == edits.doc
           c == dialog.prompt
<1>1. /\ op = NoOp /\ dialog.saveAs = Untitled /\ t # No
      /\ disk' = disk /\ edits' = edits /\ loads' = loads /\ ghost' = ghost /\ dialog' = dialog
      /\ op' = [state |-> "sent", kind |-> "create", path |-> Untitled, to |-> to,
                text |-> t, closing |-> c]
  BY DEF SubmitSaveAs
<1>2. ghost.typed[Untitled] \subseteq {t}
  BY <1>1, DocsParts DEF DocTyped
<1> HIDE DEF t, c
<1>3. CreateOp(op', ghost.held, ghost.typed, ghost.dismissed, dialog.saveAs) /\ op'.state = "sent"
  BY <1>1, <1>2 DEF CreateOp
<1> QED BY <1>1, <1>3, OpStarts

\* So does asking for a rename.
LEMMA RenameKeeps ==
  ASSUME DocumentsAssumption, DocsInv, NEW from \in Files, NEW to \in Files, Rename(from, to)
  PROVE  DocsInv'
<1>1. /\ op = NoOp /\ from # to
      /\ disk' = disk /\ edits' = edits /\ loads' = loads /\ ghost' = Acted /\ dialog' = dialog
      /\ op' = [state |-> "sent", kind |-> "rename", path |-> from, to |-> to]
  BY DEF Rename
<1>2. RenameOp(op') /\ op'.state = "sent"
  BY <1>1 DEF RenameOp
<1> QED BY <1>1, <1>2, OpStarts

\* What was typed, after a change of one path.
TypedPut(g, q, x) == [g EXCEPT !.typed[q] = x]

\* Its record.
LEMMA TypedSet ==
  ASSUME NEW g, GhostRec(g), NEW q, NEW x, No \notin x
  PROVE  /\ GhostRec(TypedPut(g, q, x)) /\ TypedPut(g, q, x).held = g.held
         /\ TypedPut(g, q, x).dismissed = g.dismissed /\ TypedPut(g, q, x).met = g.met
         /\ \A p \in Paths : TypedPut(g, q, x).typed[p] = IF p = q THEN x ELSE g.typed[p]
<1> DEFINE e == TypedPut(g, q, x)
<1> DEFINE t == g.typed
           h == g.held
           a == g.acts
           c == g.created
           d == g.dismissed
           m == g.met
           u == [t EXCEPT ![q] = x]
<1>1. /\ g = [typed |-> t, held |-> h, acts |-> a, created |-> c, dismissed |-> d, met |-> m]
      /\ t = [p \in Paths |-> t[p]] /\ h = [p \in Files |-> h[p]] /\ d \in BOOLEAN /\ m \in BOOLEAN
      /\ \A p \in Paths : No \notin t[p]
  BY DEF GhostRec
<1>2. u = [p \in Paths |-> u[p]] /\ \A p \in Paths : u[p] = IF p = q THEN x ELSE t[p]
  BY <1>1
<1>3. e = [g EXCEPT !.typed = u]
  BY DEF TypedPut
<1> HIDE DEF e, t, h, a, c, d, m, u
<1>4. e = [typed |-> u, held |-> h, acts |-> a, created |-> c, dismissed |-> d, met |-> m]
  BY <1>1, <1>3
<1>5. /\ e.typed = u /\ e.held = h /\ e.dismissed = d /\ e.met = m /\ e.acts = a
      /\ e.created = c
  BY <1>4
<1>6. GhostRec(e)
  BY <1>1, <1>2, <1>4, <1>5 DEF GhostRec
<1>7. /\ GhostRec(e) /\ e.held = g.held /\ e.dismissed = g.dismissed /\ e.met = g.met
      /\ \A p \in Paths : e.typed[p] = IF p = q THEN x ELSE g.typed[p]
  BY <1>2, <1>5, <1>6 DEF t, h, d, m
<1> QED BY <1>7 DEF e

\* What has been in the files, after a change of one.
HeldPut(g, q, x) == [g EXCEPT !.held[q] = x]

\* Its record.
LEMMA HeldSet ==
  ASSUME NEW g, GhostRec(g), NEW q, NEW x
  PROVE  /\ GhostRec(HeldPut(g, q, x)) /\ HeldPut(g, q, x).typed = g.typed
         /\ HeldPut(g, q, x).dismissed = g.dismissed /\ HeldPut(g, q, x).met = g.met
         /\ \A p \in Files : HeldPut(g, q, x).held[p] = IF p = q THEN x ELSE g.held[p]
<1> DEFINE e == HeldPut(g, q, x)
<1> DEFINE t == g.typed
           h == g.held
           a == g.acts
           c == g.created
           d == g.dismissed
           m == g.met
           u == [h EXCEPT ![q] = x]
<1>1. /\ g = [typed |-> t, held |-> h, acts |-> a, created |-> c, dismissed |-> d, met |-> m]
      /\ t = [p \in Paths |-> t[p]] /\ h = [p \in Files |-> h[p]] /\ d \in BOOLEAN /\ m \in BOOLEAN
      /\ \A p \in Paths : No \notin t[p]
  BY DEF GhostRec
<1>2. u = [p \in Files |-> u[p]] /\ \A p \in Files : u[p] = IF p = q THEN x ELSE h[p]
  BY <1>1
<1>3. e = [g EXCEPT !.held = u]
  BY DEF HeldPut
<1> HIDE DEF e, t, h, a, c, d, m, u
<1>4. e = [typed |-> t, held |-> u, acts |-> a, created |-> c, dismissed |-> d, met |-> m]
  BY <1>1, <1>3
<1>5. /\ e.typed = t /\ e.held = u /\ e.dismissed = d /\ e.met = m /\ e.acts = a
      /\ e.created = c
  BY <1>4
<1>6. GhostRec(e)
  BY <1>1, <1>2, <1>4, <1>5 DEF GhostRec
<1>7. /\ GhostRec(e) /\ e.typed = g.typed /\ e.dismissed = g.dismissed /\ e.met = g.met
      /\ \A p \in Files : e.held[p] = IF p = q THEN x ELSE g.held[p]
  BY <1>2, <1>5, <1>6 DEF t, h, d, m
<1> QED BY <1>7 DEF e

\* The ghost's record after a change of one of its flags.
LEMMA CreatedSet ==
  ASSUME NEW g, GhostRec(g), NEW x \in BOOLEAN, NEW e, e = [g EXCEPT !.created = x]
  PROVE  /\ GhostRec(e) /\ e.typed = g.typed /\ e.held = g.held /\ e.dismissed = g.dismissed
            /\ e.met = g.met
<1> DEFINE t == g.typed
           h == g.held
           a == g.acts
           c == g.created
           d == g.dismissed
           m == g.met
<1>1. /\ g = [typed |-> t, held |-> h, acts |-> a, created |-> c, dismissed |-> d, met |-> m]
      /\ t = [p \in Paths |-> t[p]] /\ h = [p \in Files |-> h[p]] /\ d \in BOOLEAN /\ m \in BOOLEAN
  BY DEF GhostRec
<1> HIDE DEF t, h, a, c, d, m
<1>2. e = [typed |-> t, held |-> h, acts |-> a, created |-> x, dismissed |-> d, met |-> m]
  BY <1>1
<1> QED BY <1>1, <1>2 DEF GhostRec, t, h, d, m

\* As before, for the next record.
LEMMA DismissedSet ==
  ASSUME NEW g, GhostRec(g), NEW x \in BOOLEAN, NEW e, e = [g EXCEPT !.dismissed = x]
  PROVE  /\ GhostRec(e) /\ e.typed = g.typed /\ e.held = g.held /\ e.met = g.met /\ e.dismissed = x
<1> DEFINE t == g.typed
           h == g.held
           a == g.acts
           c == g.created
           d == g.dismissed
           m == g.met
<1>1. /\ g = [typed |-> t, held |-> h, acts |-> a, created |-> c, dismissed |-> d, met |-> m]
      /\ t = [p \in Paths |-> t[p]] /\ h = [p \in Files |-> h[p]] /\ d \in BOOLEAN /\ m \in BOOLEAN
  BY DEF GhostRec
<1> HIDE DEF t, h, a, c, d, m
<1>2. e = [typed |-> t, held |-> h, acts |-> a, created |-> c, dismissed |-> x, met |-> m]
  BY <1>1
<1> QED BY <1>1, <1>2 DEF GhostRec, t, h, d, m

\* As before, for the next record.
LEMMA MetSet ==
  ASSUME NEW g, GhostRec(g), NEW x \in BOOLEAN, NEW e, e = [g EXCEPT !.met = x]
  PROVE  /\ GhostRec(e) /\ e.typed = g.typed /\ e.held = g.held /\ e.dismissed = g.dismissed
            /\ e.met = x
<1> DEFINE t == g.typed
           h == g.held
           a == g.acts
           c == g.created
           d == g.dismissed
           m == g.met
<1>1. /\ g = [typed |-> t, held |-> h, acts |-> a, created |-> c, dismissed |-> d, met |-> m]
      /\ t = [p \in Paths |-> t[p]] /\ h = [p \in Files |-> h[p]] /\ d \in BOOLEAN /\ m \in BOOLEAN
  BY DEF GhostRec
<1> HIDE DEF t, h, a, c, d, m
<1>2. e = [typed |-> t, held |-> h, acts |-> a, created |-> c, dismissed |-> d, met |-> x]
  BY <1>1
<1> QED BY <1>1, <1>2 DEF GhostRec, t, h, d, m

\* How the parts make the whole.
LEMMA DocsWhole ==
  ASSUME DocsInv, Grows(HeldBy, HeldBy'), EditsRec(edits'), GhostRec(ghost'), DialogRec(dialog'),
         OpIsSound', disk' = [p \in Files |-> disk'[p]], TextsIn(disk', HeldBy'),
         TextsIn(edits'.base, HeldBy'), \E p : loads' = loads \/ loads' = Begun(p),
         DocTyped', TypedIsKept'
  PROVE  DocsInv'
<1>1. LoadsHeld'
  BY LoadsKeep, DocsParts
<1> QED BY <1>1 DEF DocsInv, DocsRecs, DiskHeld, BaseHeld

\* The disk maps files.
LEMMA DiskIsFunction == ASSUME DocsInv PROVE disk = [p \in Files |-> disk[p]]
BY DEF DocsInv, DiskHeld

\* What typing does to the records.
LEMMA TypeEffects ==
  ASSUME DocsInv, NEW text \in Texts, Type(text)
  PROVE  \E p, doc, draft :
           /\ EditsRec(edits') /\ edits'.base = edits.base /\ edits'.doc = doc
           /\ \A q \in Paths : edits'.draft[q] = IF q = p THEN draft ELSE edits.draft[q]
           /\ draft \in {text, No} /\ (p = Untitled /\ edits.doc # No => doc = text)
           /\ (~(p = Untitled /\ edits.doc # No) => doc = edits.doc)
           /\ GhostRec(ghost') /\ ghost'.held = ghost.held
           /\ ghost'.dismissed = ghost.dismissed /\ ghost'.met = ghost.met
           /\ \A q \in Paths :
                ghost'.typed[q] = IF q = p THEN {edits'.draft[p]} \ {No} ELSE ghost.typed[q]
<1> DEFINE p == edits.shown.path
           doc == IF p = Untitled /\ edits.doc # No THEN text ELSE edits.doc
           draft == IF ~Saving(p) /\ edits.base[p] = text THEN No ELSE text
           x == {edits'.draft[p]} \ {No}
<1>1. /\ edits' = [edits EXCEPT !.shown.text = text, !.doc = doc, !.draft[p] = draft]
      /\ ghost' = [Acted EXCEPT !.typed[p] = x]
  BY DEF Type
<1>2. /\ draft \in {text, No} /\ (p = Untitled /\ edits.doc # No => doc = text)
      /\ (~(p = Untitled /\ edits.doc # No) => doc = edits.doc)
  OBVIOUS
<1> HIDE DEF p, doc, draft
<1>3. /\ EditsRec(edits') /\ edits'.base = edits.base /\ edits'.doc = doc
      /\ \A q \in Paths : edits'.draft[q] = IF q = p THEN draft ELSE edits.draft[q]
  <2> DEFINE b == edits.base
             d == edits.draft
             o == edits.doc
             s == edits.shown
             t == [s EXCEPT !.text = text]
             c == [d EXCEPT ![p] = draft]
             f == [edits EXCEPT !.shown = t]
             g == [f EXCEPT !.doc = doc]
  <2>1. /\ edits = [base |-> b, draft |-> d, doc |-> o, shown |-> s]
        /\ b = [q \in Paths |-> b[q]] /\ d = [q \in Paths |-> d[q]]
    BY DocsParts DEF EditsRec
  <2>2. c = [q \in Paths |-> c[q]] /\ \A q \in Paths : c[q] = IF q = p THEN draft ELSE d[q]
    BY <2>1
  <2>3. f = [base |-> b, draft |-> d, doc |-> o, shown |-> t]
    <3> HIDE DEF b, d, o, s, t
    <3> QED BY <2>1
  <2>4. g = [base |-> b, draft |-> d, doc |-> doc, shown |-> t]
    <3> HIDE DEF b, d, o, s, t, f
    <3> QED BY <2>3
  <2>5. edits' = [g EXCEPT !.draft = c]
    <3>1. edits' = [[[edits EXCEPT !.shown.text = text] EXCEPT !.doc = doc] EXCEPT !.draft[p] = draft]
      BY <1>1
    <3>2. [edits EXCEPT !.shown.text = text] = f
      OBVIOUS
    <3>3. edits' = [g EXCEPT !.draft[p] = draft]
      BY <3>1, <3>2
    <3>4. g.draft = d
      <4> HIDE DEF b, d, o, s, t, g
      <4> QED BY <2>4
    <3> HIDE DEF g, d
    <3> QED BY <3>3, <3>4
  <2> HIDE DEF b, d, o, s, t, c, f, g
  <2>6. edits' = [base |-> b, draft |-> c, doc |-> doc, shown |-> t]
    BY <2>4, <2>5
  <2> QED BY <2>1, <2>2, <2>6 DEF EditsRec, b, d
<1>4. /\ GhostRec(ghost') /\ ghost'.held = ghost.held /\ ghost'.dismissed = ghost.dismissed
      /\ ghost'.met = ghost.met
      /\ \A q \in Paths : ghost'.typed[q] = IF q = p THEN x ELSE ghost.typed[q]
  <2> DEFINE z == Acted
             t == z.typed
             h == z.held
             a == z.acts
             c == z.created
             d == z.dismissed
             m == z.met
             u == [t EXCEPT ![p] = x]
  <2>1. /\ GhostRec(z) /\ t = ghost.typed /\ h = ghost.held /\ d = ghost.dismissed /\ m = ghost.met
    BY ActedFields, DocsParts
  <2>2. /\ z = [typed |-> t, held |-> h, acts |-> a, created |-> c, dismissed |-> d, met |-> m]
        /\ t = [q \in Paths |-> t[q]] /\ h = [q \in Files |-> h[q]] /\ d \in BOOLEAN /\ m \in BOOLEAN
        /\ \A q \in Paths : No \notin t[q]
    BY <2>1 DEF GhostRec
  <2>7. No \notin x
    OBVIOUS
  <2> HIDE DEF x
  <2>3. u = [q \in Paths |-> u[q]] /\ \A q \in Paths : u[q] = IF q = p THEN x ELSE t[q]
    BY <2>2
  <2>4. ghost' = [z EXCEPT !.typed = u]
    BY <1>1
  <2> HIDE DEF z, t, h, a, c, d, m, u
  <2>5. ghost' = [typed |-> u, held |-> h, acts |-> a, created |-> c, dismissed |-> d, met |-> m]
    BY <2>2, <2>4
  <2>8. ghost'.typed = u /\ ghost'.held = h /\ ghost'.dismissed = d /\ ghost'.met = m
        /\ ghost'.acts = a /\ ghost'.created = c
    BY <2>5
  <2>6. GhostRec(ghost') /\ ghost'.typed = u /\ ghost'.held = h /\ ghost'.dismissed = d
        /\ ghost'.met = m
    BY <2>2, <2>3, <2>5, <2>7, <2>8 DEF GhostRec
  <2> QED BY <2>1, <2>3, <2>6
<1>5. \A q \in Paths :
        ghost'.typed[q] = IF q = p THEN {edits'.draft[p]} \ {No} ELSE ghost.typed[q]
  BY <1>4
<1> HIDE DEF x
<1>6. GhostRec(ghost') /\ ghost'.held = ghost.held /\ ghost'.dismissed = ghost.dismissed
      /\ ghost'.met = ghost.met
  BY <1>4
<1> WITNESS p, doc, draft
<1> QED BY <1>2, <1>3, <1>5, <1>6

\* Typing keeps the invariant (handleWorktreeEditChange): what was typed is the draft, or
\* the baseline again, which has been in the file.
LEMMA TypeKeeps ==
  ASSUME DocumentsAssumption, DocsInv, NEW text \in Texts, Type(text)
  PROVE  DocsInv'
<1>1. /\ dialog.saveAs = No
      /\ disk' = disk /\ loads' = loads /\ op' = op /\ dialog' = dialog
  BY DEF Type, Idle
<1>2. PICK p, doc, draft :
        /\ EditsRec(edits') /\ edits'.base = edits.base /\ edits'.doc = doc
        /\ \A q \in Paths : edits'.draft[q] = IF q = p THEN draft ELSE edits.draft[q]
        /\ draft \in {text, No} /\ (p = Untitled /\ edits.doc # No => doc = text)
        /\ (~(p = Untitled /\ edits.doc # No) => doc = edits.doc)
        /\ GhostRec(ghost') /\ ghost'.held = ghost.held
        /\ ghost'.dismissed = ghost.dismissed /\ ghost'.met = ghost.met
        /\ \A q \in Paths :
             ghost'.typed[q] = IF q = p THEN {edits'.draft[p]} \ {No} ELSE ghost.typed[q]
  BY TypeEffects
<1> DEFINE x == {edits'.draft[p]} \ {No}
<1>3. /\ EditsRec(edits') /\ edits'.base = edits.base /\ edits'.doc = doc
      /\ \A q \in Paths : edits'.draft[q] = IF q = p THEN draft ELSE edits.draft[q]
  BY <1>2
<1>5. p \in Paths => x = {draft} \ {No}
  BY <1>2, <1>3
<1>6. /\ GhostRec(ghost') /\ ghost'.held = ghost.held /\ ghost'.dismissed = ghost.dismissed
      /\ ghost'.met = ghost.met
      /\ \A q \in Paths : ghost'.typed[q] = IF q = p THEN x ELSE ghost.typed[q]
  BY <1>2
<1> HIDE DEF x
<1>7. HeldBy' = HeldBy /\ Grows(HeldBy, HeldBy')
  BY <1>1, <1>6, HeldStays
<1>8. OpIsSound'
  <2> SUFFICES ASSUME op # NoOp
               PROVE  \/ SaveOp(op, ghost.held)
                      \/ CreateOp(op, ghost.held, ghost'.typed, ghost.dismissed, dialog.saveAs)
                      \/ RenameOp(op)
    BY <1>1, <1>6 DEF OpIsSound
  <2>1. ASSUME CreateOp(op, ghost.held, ghost.typed, ghost.dismissed, dialog.saveAs)
        PROVE  CreateOp(op, ghost.held, ghost'.typed, ghost.dismissed, dialog.saveAs)
    BY <1>1, <2>1 DEF CreateOp, DocumentsAssumption
  <2> QED BY <2>1, DocsParts DEF OpIsSound
<1>9. Untitled \in Paths /\ Files \subseteq Paths
  BY DEF Paths
<1>10. DocTyped'
  <2>1. CASE p = Untitled
    BY <1>2, <1>3, <1>5, <1>6, <1>9, <2>1, DocsParts DEF DocTyped
  <2>2. CASE p # Untitled
    BY <1>2, <1>3, <1>6, <1>9, <2>2, DocsParts DEF DocTyped
  <2> QED BY <2>1, <2>2
<1>11. TypedIsKept'
  <2> SUFFICES ASSUME NEW q \in Files, ~ghost.dismissed, ~ghost.met, NEW t \in ghost'.typed[q]
               PROVE  t \in ghost.held[q] \/ edits'.draft[q] = t
    BY <1>6 DEF TypedIsKept
  <2>1. CASE q = p
    BY <1>3, <1>5, <1>6, <1>9, <2>1
  <2>2. CASE q # p
    BY <1>3, <1>6, <1>9, <2>2, DocsParts DEF TypedIsKept
  <2> QED BY <2>1, <2>2
<1> QED BY <1>1, <1>3, <1>6, <1>7, <1>8, <1>10, <1>11, DocsParts, DocsWhole, DiskIsFunction

\* A new untitled document keeps it: nothing was typed into it.
LEMMA NewUntitledKeeps ==
  ASSUME DocumentsAssumption, DocsInv, NewUntitled
  PROVE  DocsInv'
<1> DEFINE a == [Acted EXCEPT !.created = TRUE]
<1>1. /\ dialog.saveAs = No
      /\ edits' = [edits EXCEPT !.doc = Empty] /\ loads' = Begun(Untitled)
      /\ ghost' = [a EXCEPT !.typed[Untitled] = {}]
      /\ disk' = disk /\ op' = op /\ dialog' = dialog
  BY DEF NewUntitled, Idle
<1>2. EditsRec(edits') /\ edits'.base = edits.base /\ edits'.draft = edits.draft
  BY <1>1, EditsFields, DocsParts
<1>3. /\ GhostRec(Acted) /\ Acted.typed = ghost.typed /\ Acted.held = ghost.held
      /\ Acted.dismissed = ghost.dismissed /\ Acted.met = ghost.met
  BY ActedFields, DocsParts
<1>4. /\ GhostRec(a) /\ a.typed = ghost.typed /\ a.held = ghost.held
      /\ a.dismissed = ghost.dismissed /\ a.met = ghost.met
  BY <1>3, CreatedSet
<1> HIDE DEF a
<1>5. /\ GhostRec(ghost') /\ ghost'.held = ghost.held /\ ghost'.dismissed = ghost.dismissed
      /\ ghost'.met = ghost.met
      /\ \A q \in Paths : ghost'.typed[q] = IF q = Untitled THEN {} ELSE ghost.typed[q]
  <2>1. /\ GhostRec(ghost') /\ ghost'.held = a.held /\ ghost'.dismissed = a.dismissed
        /\ ghost'.met = a.met
        /\ \A q \in Paths : ghost'.typed[q] = IF q = Untitled THEN {} ELSE a.typed[q]
    <3>1. ghost' = TypedPut(a, Untitled, {}) /\ No \notin {}
      BY <1>1 DEF TypedPut
    <3> QED BY <1>4, <3>1, TypedSet
  <2> QED BY <1>4, <2>1
<1>6. HeldBy' = HeldBy /\ Grows(HeldBy, HeldBy')
  BY <1>1, <1>5, HeldStays
<1>7. Untitled \in Paths /\ Files \subseteq Paths
  BY DEF Paths
<1>8. OpIsSound'
  <2> SUFFICES ASSUME op # NoOp
               PROVE  \/ SaveOp(op, ghost.held)
                      \/ CreateOp(op, ghost.held, ghost'.typed, ghost.dismissed, dialog.saveAs)
                      \/ RenameOp(op)
    BY <1>1, <1>5 DEF OpIsSound
  <2>1. ASSUME CreateOp(op, ghost.held, ghost.typed, ghost.dismissed, dialog.saveAs)
        PROVE  CreateOp(op, ghost.held, ghost'.typed, ghost.dismissed, dialog.saveAs)
    BY <1>1, <2>1 DEF CreateOp, DocumentsAssumption
  <2> QED BY <2>1, DocsParts DEF OpIsSound
<1>9. DocTyped'
  BY <1>5, <1>7 DEF DocTyped
<1>10. TypedIsKept'
  BY <1>2, <1>5, <1>7, DocsParts DEF TypedIsKept, DocumentsAssumption
<1> QED BY <1>1, <1>2, <1>5, <1>6, <1>8, <1>9, <1>10, DocsParts, DocsWhole, DiskIsFunction

\* What a write does to the disk and to what it has held.
LEMMA WrittenFields ==
  ASSUME DocsInv, NEW p, NEW text, Written(p, text)
  PROVE  /\ GhostRec(ghost') /\ ghost'.typed = ghost.typed /\ ghost'.dismissed = ghost.dismissed
         /\ ghost'.met = ghost.met
         /\ \A q \in Files :
              ghost'.held[q] = IF q = p THEN ghost.held[q] \union {text} ELSE ghost.held[q]
         /\ disk' = [q \in Files |-> disk'[q]]
         /\ \A q \in Files : disk'[q] = IF q = p THEN text ELSE disk[q]
<1> DEFINE t == ghost.typed
           h == ghost.held
           a == ghost.acts
           c == ghost.created
           d == ghost.dismissed
           m == ghost.met
           u == [h EXCEPT ![p] = h[p] \union {text}]
<1>1. /\ ghost = [typed |-> t, held |-> h, acts |-> a, created |-> c, dismissed |-> d, met |-> m]
      /\ t = [q \in Paths |-> t[q]] /\ h = [q \in Files |-> h[q]] /\ d \in BOOLEAN /\ m \in BOOLEAN
      /\ \A q \in Paths : No \notin t[q]
  BY DocsParts DEF GhostRec
<1>2. /\ u = [q \in Files |-> u[q]]
      /\ \A q \in Files : u[q] = IF q = p THEN h[q] \union {text} ELSE h[q]
  BY <1>1
<1>3. ghost' = [ghost EXCEPT !.held = u] /\ disk' = [disk EXCEPT ![p] = text]
  BY DEF Written
<1>4. /\ disk' = [q \in Files |-> disk'[q]]
      /\ \A q \in Files : disk'[q] = IF q = p THEN text ELSE disk[q]
  BY <1>3, DiskIsFunction
<1> HIDE DEF t, h, a, c, d, m, u
<1>5. ghost' = [typed |-> t, held |-> u, acts |-> a, created |-> c, dismissed |-> d, met |-> m]
  BY <1>1, <1>3
<1>8. /\ ghost'.typed = t /\ ghost'.held = u /\ ghost'.dismissed = d /\ ghost'.met = m
      /\ ghost'.acts = a /\ ghost'.created = c
  BY <1>5
<1>6. /\ GhostRec(ghost') /\ ghost'.typed = t /\ ghost'.held = u /\ ghost'.dismissed = d
      /\ ghost'.met = m
  BY <1>1, <1>2, <1>5, <1>8 DEF GhostRec
<1>7. /\ t = ghost.typed /\ h = ghost.held /\ d = ghost.dismissed /\ m = ghost.met
  BY DEF t, h, d, m
<1> QED BY <1>2, <1>4, <1>6, <1>7

\* An operation that was answered is the one that was sent.
LEMMA OpAnswered ==
  ASSUME op # NoOp, OpIsSound,
         op' = [op EXCEPT !.state = "done"] \/ op' = [op EXCEPT !.state = "refused"]
  PROVE  /\ op'.kind = op.kind /\ op'.path = op.path /\ op'.to = op.to
            /\ op'.state \in {"done", "refused"}
         /\ op.kind # "rename" => op'.text = op.text
         /\ op' = [op EXCEPT !.state = "refused"] => op'.state = "refused"
         /\ op.kind = "save" =>
              op' = [state |-> op'.state, kind |-> "save", path |-> op'.path, to |-> op'.to,
                     text |-> op'.text, hash |-> op'.hash]
         /\ op.kind = "create" =>
              op' = [state |-> op'.state, kind |-> "create", path |-> Untitled, to |-> op'.to,
                     text |-> op'.text, closing |-> op'.closing]
         /\ op.kind = "rename" =>
              op' = [state |-> op'.state, kind |-> "rename", path |-> op'.path, to |-> op'.to]
<1> DEFINE s == op.state
           p == op.path
           o == op.to
           t == op.text
           h == op.hash
           c == op.closing
<1>1. CASE op = [state |-> s, kind |-> "save", path |-> p, to |-> o, text |-> t, hash |-> h]
  <2> HIDE DEF s, p, o, t, h
  <2>1. CASE op' = [op EXCEPT !.state = "done"]
    <3>1. op' = [state |-> "done", kind |-> "save", path |-> p, to |-> o, text |-> t, hash |-> h]
      BY <1>1, <2>1
    <3> QED BY <1>1, <3>1
  <2>2. CASE op' = [op EXCEPT !.state = "refused"]
    <3>1. op' = [state |-> "refused", kind |-> "save", path |-> p, to |-> o, text |-> t, hash |-> h]
      BY <1>1, <2>2
    <3> QED BY <1>1, <3>1
  <2> QED BY <2>1, <2>2
<1>2. CASE op = [state |-> s, kind |-> "create", path |-> Untitled, to |-> o, text |-> t,
      closing |-> c]
  <2> HIDE DEF s, o, t, c
  <2>1. CASE op' = [op EXCEPT !.state = "done"]
    <3>1. op' = [state |-> "done", kind |-> "create", path |-> Untitled, to |-> o, text |-> t,
                 closing |-> c]
      BY <1>2, <2>1
    <3> QED BY <1>2, <3>1
  <2>2. CASE op' = [op EXCEPT !.state = "refused"]
    <3>1. op' = [state |-> "refused", kind |-> "create", path |-> Untitled, to |-> o, text |-> t,
                 closing |-> c]
      BY <1>2, <2>2
    <3> QED BY <1>2, <3>1
  <2> QED BY <2>1, <2>2
<1>3. CASE op = [state |-> s, kind |-> "rename", path |-> p, to |-> o]
  <2> HIDE DEF s, p, o
  <2>1. CASE op' = [op EXCEPT !.state = "done"]
    <3>1. op' = [state |-> "done", kind |-> "rename", path |-> p, to |-> o]
      BY <1>3, <2>1
    <3> QED BY <1>3, <3>1
  <2>2. CASE op' = [op EXCEPT !.state = "refused"]
    <3>1. op' = [state |-> "refused", kind |-> "rename", path |-> p, to |-> o]
      BY <1>3, <2>2
    <3> QED BY <1>3, <3>1
  <2> QED BY <2>1, <2>2
<1> QED BY <1>1, <1>2, <1>3 DEF OpIsSound, SaveOp, CreateOp, RenameOp

\* A write of the server keeps the invariant: what is written has been in the file.
LEMMA ServeWrites ==
  ASSUME DocumentsAssumption, DocsInv, op # NoOp, op.state = "sent", op.kind \in {"save", "create"},
         NEW p \in Files, p = (IF op.kind = "save" THEN op.path ELSE op.to),
         Written(p, op.text), op' = [op EXCEPT !.state = "done"],
         UNCHANGED <<tabs, edits, loads, dialog>>
  PROVE  DocsInv'
<1>1. /\ GhostRec(ghost') /\ ghost'.typed = ghost.typed /\ ghost'.dismissed = ghost.dismissed
      /\ ghost'.met = ghost.met
      /\ \A q \in Files :
           ghost'.held[q] = IF q = p THEN ghost.held[q] \union {op.text} ELSE ghost.held[q]
      /\ disk' = [q \in Files |-> disk'[q]]
      /\ \A q \in Files : disk'[q] = IF q = p THEN op.text ELSE disk[q]
  BY WrittenFields
<1>2. ~FileRenamed /\ ~FileRenamed'
  BY DocsParts, OpAnswered DEF FileRenamed
<1>3. /\ \A q \in Files : HeldBy[q] = ghost.held[q]
      /\ \A q \in Files : HeldBy'[q] = ghost'.held[q]
  BY <1>2 DEF HeldBy
<1>4. Grows(HeldBy, HeldBy')
  BY <1>1, <1>3 DEF Grows
<1>5. TextsIn(disk', HeldBy') /\ TextsIn(edits'.base, HeldBy')
  <2>1. TextsIn(edits'.base, HeldBy') /\ TextsIn(disk, HeldBy')
    BY <1>4, Grown, DocsParts
  <2> QED BY <1>1, <1>3, <2>1 DEF TextsIn
<1>6. OpIsSound'
  <2>1. CASE SaveOp(op, ghost.held)
    <3>1. op.kind = "save" /\ op.path = p
      BY <2>1 DEF SaveOp
    <3>2. /\ op'.kind = "save" /\ op'.path = p /\ op'.text = op.text
          /\ op' = [state |-> op'.state, kind |-> "save", path |-> op'.path, to |-> op'.to,
                    text |-> op'.text, hash |-> op'.hash]
      BY <3>1, DocsParts, OpAnswered
    <3>3. op'.path \in Files /\ op'.text \in ghost'.held[op'.path]
      BY <1>1, <3>2
    <3>4. SaveOp(op', ghost'.held)
      BY <3>2, <3>3 DEF SaveOp
    <3> QED BY <3>4 DEF OpIsSound
  <2>2. CASE CreateOp(op, ghost.held, ghost.typed, ghost.dismissed, dialog.saveAs)
    <3>1. op.kind = "create" /\ op.to = p
      BY <2>2 DEF CreateOp
    <3>2. /\ op'.kind = "create" /\ op'.to = p /\ op'.text = op.text
          /\ op' = [state |-> op'.state, kind |-> "create", path |-> Untitled, to |-> op'.to,
                    text |-> op'.text, closing |-> op'.closing]
      BY <3>1, DocsParts, OpAnswered
    <3>3. op'.to \in Files /\ op'.text \in ghost'.held[op'.to]
      BY <1>1, <3>2
    <3>4. ~ghost'.dismissed => dialog'.saveAs = Untitled
          /\ ghost'.typed[Untitled] \subseteq {op'.text}
      BY <1>1, <2>2, <3>2 DEF CreateOp
    <3>5. CreateOp(op', ghost'.held, ghost'.typed, ghost'.dismissed, dialog'.saveAs)
      BY <3>2, <3>3, <3>4 DEF CreateOp
    <3> QED BY <3>5 DEF OpIsSound
  <2>3. CASE RenameOp(op)
    BY <2>3 DEF RenameOp
  <2> QED BY <2>1, <2>2, <2>3, DocsParts DEF OpIsSound
<1>7. DocTyped'
  BY <1>1, DocsParts DEF DocTyped
<1>8. TypedIsKept'
  <2> SUFFICES ASSUME NEW q \in Files, ~ghost.dismissed, ~ghost.met, NEW t \in ghost.typed[q]
               PROVE  t \in ghost'.held[q] \/ edits.draft[q] = t
    BY <1>1 DEF TypedIsKept
  <2> QED BY <1>1, DocsParts DEF TypedIsKept
<1> QED BY <1>1, <1>4, <1>5, <1>6, <1>7, <1>8, DocsParts, DocsWhole

\* A refusal keeps it.
LEMMA ServeRefuses ==
  ASSUME DocumentsAssumption, DocsInv, op # NoOp, op.state = "sent",
         op' = [op EXCEPT !.state = "refused"], UNCHANGED <<disk, tabs, edits, loads, dialog, ghost>>
  PROVE  DocsInv'
<1>1. op'.state = "refused" /\ ~FileRenamed /\ ~FileRenamed'
  BY DocsParts, OpAnswered DEF FileRenamed
<1>2. HeldBy' = HeldBy /\ Grows(HeldBy, HeldBy')
  BY <1>1 DEF HeldBy, Grows
<1>3. OpIsSound'
  <2>1. CASE SaveOp(op, ghost.held)
    <3>1. SaveOp(op', ghost.held)
      BY <1>1, <2>1, DocsParts, OpAnswered DEF SaveOp
    <3> QED BY <3>1 DEF OpIsSound
  <2>2. CASE CreateOp(op, ghost.held, ghost.typed, ghost.dismissed, dialog.saveAs)
    <3>1. op.kind = "create"
      BY <2>2 DEF CreateOp
    <3>2. /\ op'.kind = "create" /\ op'.to = op.to /\ op'.text = op.text
          /\ op' = [state |-> op'.state, kind |-> "create", path |-> Untitled, to |-> op'.to,
                    text |-> op'.text, closing |-> op'.closing]
      BY <3>1, DocsParts, OpAnswered
    <3>3. CreateOp(op', ghost.held, ghost.typed, ghost.dismissed, dialog.saveAs)
      BY <1>1, <2>2, <3>2 DEF CreateOp
    <3> QED BY <3>3 DEF OpIsSound
  <2>3. CASE RenameOp(op)
    <3>1. RenameOp(op')
      BY <2>3, DocsParts, OpAnswered DEF RenameOp
    <3> QED BY <3>1 DEF OpIsSound
  <2> QED BY <2>1, <2>2, <2>3, DocsParts DEF OpIsSound
<1> QED BY <1>2, <1>3 DEF DocsInv, DocsRecs, DiskHeld, BaseHeld, LoadsHeld, DocTyped, TypedIsKept

\* A rename of the server keeps it: what the file has held goes with it.
LEMMA ServeRenames ==
  ASSUME DocumentsAssumption, DocsInv, op # NoOp, op.state = "sent", op.kind = "rename",
         disk[op.path] # No, disk[op.to] = No,
         disk' = [disk EXCEPT ![op.to] = disk[op.path], ![op.path] = No],
         op' = [op EXCEPT !.state = "done"], UNCHANGED <<tabs, edits, loads, dialog, ghost>>
  PROVE  DocsInv'
<1>1. RenameOp(op)
  BY DocsParts DEF OpIsSound, SaveOp, CreateOp
<1>2. /\ op.path \in Files /\ op.to \in Files /\ op.path # op.to
      /\ op'.kind = "rename" /\ op'.path = op.path /\ op'.to = op.to
      /\ op' = [state |-> op'.state, kind |-> "rename", path |-> op'.path, to |-> op'.to]
  BY <1>1, DocsParts, OpAnswered DEF RenameOp
<1>3. ~FileRenamed
  BY DEF FileRenamed
<1>4. Grows(HeldBy, HeldBy')
  BY <1>3 DEF HeldBy, Grows
<1>5. OpIsSound'
  BY <1>2 DEF OpIsSound, RenameOp
<1>6. op'.state = "done" /\ op' # NoOp
  <2> DEFINE s == op.state
             p == op.path
             o == op.to
  <2>1. op = [state |-> s, kind |-> "rename", path |-> p, to |-> o]
    BY <1>1 DEF RenameOp
  <2> HIDE DEF s, p, o
  <2>2. op' = [state |-> "done", kind |-> "rename", path |-> p, to |-> o]
    BY <2>1
  <2> QED BY <2>2 DEF NoOp
<1>7. HeldBy'[op.to] = ghost.held[op.to] \union ghost.held[op.path]
  BY <1>2, <1>6 DEF HeldBy, FileRenamed
<1>8. TextsIn(disk', HeldBy')
  <2> SUFFICES ASSUME NEW q \in Files, disk'[q] # No PROVE disk'[q] \in HeldBy'[q]
    BY DEF TextsIn
  <2>1. CASE q = op.to
    <3>1. disk'[q] = disk[op.path]
      BY <1>2, <2>1, DiskIsFunction
    <3>2. disk[op.path] \in ghost.held[op.path]
      BY <1>2, <1>3, DocsParts DEF TextsIn, HeldBy
    <3> QED BY <1>7, <2>1, <3>1, <3>2
  <2>2. CASE q # op.to
    <3>1. disk'[q] = disk[q] /\ q # op.path
      BY <1>2, <2>2, DiskIsFunction
    <3> QED BY <1>4, <3>1, DocsParts DEF TextsIn, Grows
  <2> QED BY <2>1, <2>2
<1>9. disk' = [q \in Files |-> disk'[q]]
  BY DiskIsFunction
<1>10. TextsIn(edits'.base, HeldBy')
  BY <1>4, Grown, DocsParts
<1>11. DocTyped' /\ TypedIsKept'
  BY DocsParts DEF DocTyped, TypedIsKept
<1> QED BY <1>4, <1>5, <1>8, <1>9, <1>10, <1>11, DocsParts, DocsWhole

\* Whatever the server answers keeps it.
LEMMA ServeKeeps ==
  ASSUME DocumentsAssumption, DocsInv, Serve
  PROVE  DocsInv'
<1>1. op # NoOp /\ op.state = "sent" /\ UNCHANGED <<tabs, edits, loads, dialog>>
  BY DEF Serve
<1>2. CASE /\ op.kind = "save" /\ op.path \in Files /\ disk[op.path] = op.hash
           /\ Written(op.path, op.text)
           /\ op' = [op EXCEPT !.state = "done"]
  BY <1>1, <1>2, ServeWrites
<1>3. CASE /\ op.kind = "create" /\ disk[op.to] = No
           /\ Written(op.to, op.text)
           /\ op' = [op EXCEPT !.state = "done"]
  <2>1. op.to \in Files
    BY <1>1, <1>3, DocsParts DEF OpIsSound, SaveOp, CreateOp, RenameOp
  <2> QED BY <1>1, <1>3, <2>1, ServeWrites
<1>4. CASE /\ op.kind = "rename" /\ disk[op.path] # No /\ disk[op.to] = No /\ UNCHANGED ghost
           /\ disk' = [disk EXCEPT ![op.to] = disk[op.path], ![op.path] = No]
           /\ op' = [op EXCEPT !.state = "done"]
  BY <1>1, <1>4, ServeRenames
<1>5. CASE op' = [op EXCEPT !.state = "refused"] /\ UNCHANGED <<disk, ghost>>
  BY <1>1, <1>5, ServeRefuses
<1> QED BY <1>2, <1>3, <1>4, <1>5 DEF Serve

\* The operation is over, and no rename was done.
LEMMA OpOver ==
  ASSUME op' = NoOp, ~FileRenamed, ghost'.held = ghost.held
  PROVE  /\ HeldBy' = HeldBy /\ Grows(HeldBy, HeldBy') /\ OpIsSound'
         /\ \A q \in Files : HeldBy[q] = ghost.held[q]
BY DEF HeldBy, FileRenamed, Grows, OpIsSound

\* The refusal of a Save As or a rename keeps it.
LEMMA OpRefusedKeeps ==
  ASSUME DocumentsAssumption, DocsInv, OpRefused
  PROVE  DocsInv'
<1>1. /\ ~FileRenamed /\ op' = NoOp /\ ghost' = ghost /\ disk' = disk /\ edits' = edits
      /\ loads' = loads /\ dialog' = dialog
  BY DEF OpRefused, FileRenamed
<1>2. HeldBy' = HeldBy /\ OpIsSound'
  BY <1>1, OpOver
<1> QED BY <1>1, <1>2 DEF DocsInv, DocsRecs, DiskHeld, BaseHeld, LoadsHeld, DocTyped, TypedIsKept

\* What the answer of a save does to the records.
LEMMA AcknowledgedFields ==
  ASSUME EditsRec(edits), NEW p, NEW text
  PROVE  /\ EditsRec(Acknowledged(p, text)) /\ Acknowledged(p, text).doc = edits.doc
         /\ \A q \in Paths : Acknowledged(p, text).base[q] = IF q = p THEN text ELSE edits.base[q]
         /\ \A q \in Paths : Acknowledged(p, text).draft[q] =
              IF q = p /\ edits.draft[p] = text THEN No ELSE edits.draft[q]
<1> DEFINE b == edits.base
           d == edits.draft
           o == edits.doc
           s == edits.shown
           c == [b EXCEPT ![p] = text]
           k == [d EXCEPT ![p] = IF @ = text THEN No ELSE @]
           f == [edits EXCEPT !.base = c]
           g == [f EXCEPT !.draft = k]
<1>1. /\ edits = [base |-> b, draft |-> d, doc |-> o, shown |-> s]
      /\ b = [q \in Paths |-> b[q]] /\ d = [q \in Paths |-> d[q]]
  BY DEF EditsRec
<1>2. /\ c = [q \in Paths |-> c[q]] /\ \A q \in Paths : c[q] = IF q = p THEN text ELSE b[q]
      /\ k = [q \in Paths |-> k[q]]
      /\ \A q \in Paths : k[q] = IF q = p /\ d[p] = text THEN No ELSE d[q]
  BY <1>1
<1>3. f = [base |-> c, draft |-> d, doc |-> o, shown |-> s]
  <2> HIDE DEF b, d, o, s, c
  <2> QED BY <1>1
<1>4. g = [base |-> c, draft |-> k, doc |-> o, shown |-> s]
  <2> HIDE DEF b, d, o, s, c, k, f
  <2> QED BY <1>3
<1>5. Acknowledged(p, text) = g
  <2>1. Acknowledged(p, text)
          = [[edits EXCEPT !.base[p] = text] EXCEPT !.draft[p] = IF @ = text THEN No ELSE @]
    BY DEF Acknowledged
  <2>2. [edits EXCEPT !.base[p] = text] = f
    OBVIOUS
  <2>3. f.draft = d
    <3> HIDE DEF b, d, o, s, c, f
    <3> QED BY <1>3
  <2>4. Acknowledged(p, text) = [f EXCEPT !.draft[p] = IF @ = text THEN No ELSE @]
    BY <2>1, <2>2
  <2>5. [f EXCEPT !.draft[p] = IF @ = text THEN No ELSE @]
          = [f EXCEPT !.draft = [f.draft EXCEPT ![p] = IF @ = text THEN No ELSE @]]
    <3> HIDE DEF f
    <3> QED OBVIOUS
  <2> HIDE DEF f, d
  <2> QED BY <2>3, <2>4, <2>5
<1> HIDE DEF b, d, o, s, c, k, f, g
<1>6. /\ EditsRec(g) /\ g.doc = o /\ g.base = c /\ g.draft = k
  BY <1>2, <1>4 DEF EditsRec
<1> QED BY <1>2, <1>5, <1>6 DEF b, d, o

\* The editor's record after a refused save.
LEMMA RefusedFields ==
  ASSUME EditsRec(edits), NEW p
  PROVE  /\ EditsRec(Refused(p)) /\ Refused(p).doc = edits.doc /\ Refused(p).base = edits.base
         /\ \A q \in Paths : Refused(p).draft[q] =
              IF q = p /\ edits.draft[p] = edits.base[p] THEN No ELSE edits.draft[q]
<1> DEFINE b == edits.base
           d == edits.draft
           o == edits.doc
           s == edits.shown
           k == [d EXCEPT ![p] = IF @ = b[p] THEN No ELSE @]
<1>1. /\ edits = [base |-> b, draft |-> d, doc |-> o, shown |-> s]
      /\ b = [q \in Paths |-> b[q]] /\ d = [q \in Paths |-> d[q]]
  BY DEF EditsRec
<1>2. /\ k = [q \in Paths |-> k[q]]
      /\ \A q \in Paths : k[q] = IF q = p /\ d[p] = b[p] THEN No ELSE d[q]
  BY <1>1
<1>3. Refused(p) = [edits EXCEPT !.draft = k]
  BY DEF Refused
<1> HIDE DEF b, d, o, s, k
<1>4. Refused(p) = [base |-> b, draft |-> k, doc |-> o, shown |-> s]
  BY <1>1, <1>3
<1> QED BY <1>1, <1>2, <1>4 DEF EditsRec, b, d, o

\* The answer of a save keeps it: a draft goes only if it is what was written, or is the
\* baseline (requestSave).
LEMMA SaveEndsKeeps ==
  ASSUME DocumentsAssumption, DocsInv, SaveEnds
  PROVE  DocsInv'
<1> DEFINE p == op.path
           text == op.text
<1>1. /\ op # NoOp /\ op.kind = "save" /\ op' = NoOp /\ ~FileRenamed
      /\ \/ op.state = "done" /\ edits' = Acknowledged(p, text)
         \/ edits' = Refused(p)
      /\ disk' = disk /\ loads' = loads /\ ghost' = ghost
      /\ \/ dialog' = dialog \/ dialog' = [dialog EXCEPT !.saver = <<>>, !.of = NoPrompt]
         \/ dialog' = [dialog EXCEPT !.saver = Tail(@)]
  BY DEF SaveEnds, FileRenamed
<1>2. op.state = "done" => p \in Files /\ text \in ghost.held[p]
  BY <1>1, DocsParts DEF OpIsSound, SaveOp, CreateOp, RenameOp
<1> HIDE DEF p, text
<1>3. DialogRec(dialog') /\ dialog'.saveAs = dialog.saveAs
  <2>0. DialogRec(dialog)
    BY DocsParts
  <2>1. CASE dialog' = dialog
    BY <2>0, <2>1
  <2>2. CASE dialog' = [dialog EXCEPT !.saver = <<>>, !.of = NoPrompt]
    BY <2>0, <2>2, LoopEnds
  <2>3. CASE dialog' = [dialog EXCEPT !.saver = Tail(@)]
    <3> DEFINE x == Tail(dialog.saver)
    <3>1. dialog' = [dialog EXCEPT !.saver = x]
      BY <2>3
    <3> HIDE DEF x
    <3> QED BY <2>0, <3>1, DialogFields
  <2> QED BY <1>1, <2>1, <2>2, <2>3
<1>4. /\ HeldBy' = HeldBy /\ Grows(HeldBy, HeldBy') /\ OpIsSound'
      /\ \A q \in Files : HeldBy[q] = ghost.held[q]
  BY <1>1, OpOver
<1>5. Files \subseteq Paths
  BY DEF Paths
<1>6. /\ EditsRec(edits') /\ edits'.doc = edits.doc /\ TextsIn(edits'.base, HeldBy)
      /\ \A q \in Files : \/ edits'.draft[q] = edits.draft[q]
                          \/ edits'.draft[q] = No /\ edits.draft[q] \in ghost.held[q] \union {No}
  <2>1. EditsRec(edits) /\ TextsIn(edits.base, HeldBy)
    BY DocsParts
  <2>2. CASE op.state = "done" /\ edits' = Acknowledged(p, text)
    <3>1. /\ EditsRec(edits') /\ edits'.doc = edits.doc
          /\ \A q \in Paths : edits'.base[q] = IF q = p THEN text ELSE edits.base[q]
          /\ \A q \in Paths : edits'.draft[q] =
               IF q = p /\ edits.draft[p] = text THEN No ELSE edits.draft[q]
      BY <2>1, <2>2, AcknowledgedFields
    <3>2. p \in Files /\ text \in ghost.held[p]
      BY <1>2, <2>2
    <3> QED BY <1>4, <1>5, <2>1, <3>1, <3>2 DEF TextsIn
  <2>3. CASE edits' = Refused(p)
    <3>1. /\ EditsRec(edits') /\ edits'.doc = edits.doc /\ edits'.base = edits.base
          /\ \A q \in Paths : edits'.draft[q] =
               IF q = p /\ edits.draft[p] = edits.base[p] THEN No ELSE edits.draft[q]
      BY <2>1, <2>3, RefusedFields
    <3> QED BY <1>4, <1>5, <2>1, <3>1 DEF TextsIn
  <2> QED BY <1>1, <2>2, <2>3
<1>7. DocTyped'
  BY <1>1, <1>6, DocsParts DEF DocTyped
<1>8. TypedIsKept'
  <2> SUFFICES ASSUME NEW q \in Files, ~ghost.dismissed, ~ghost.met, NEW t \in ghost.typed[q]
               PROVE  t \in ghost.held[q] \/ edits'.draft[q] = t
    BY <1>1 DEF TypedIsKept
  <2> QED BY <1>6, DocsParts DEF TypedIsKept
<1> QED BY <1>1, <1>3, <1>4, <1>6, <1>7, <1>8, DocsParts, DocsWhole, DiskIsFunction

\* Dismissing a dialog keeps it; work that goes on is remembered.
LEMMA CancelKeeps ==
  ASSUME DocumentsAssumption, DocsInv, Cancel
  PROVE  DocsInv'
<1>1. PICK b \in BOOLEAN : b = (ghost.dismissed \/ op # NoOp \/ dialog.discards # NoPrompt)
  OBVIOUS
<1>2. /\ ghost' = [ghost EXCEPT !.dismissed = b]
      /\ dialog' = [dialog EXCEPT !.saveAs = No] \/ dialog' = [dialog EXCEPT !.prompt = NoPrompt]
      /\ disk' = disk /\ edits' = edits /\ loads' = loads /\ op' = op
  BY <1>1 DEF Cancel
<1>3. DialogRec(dialog')
  <2>1. DialogRec(dialog)
    BY DocsParts
  <2>2. CASE dialog' = [dialog EXCEPT !.saveAs = No]
    BY <2>1, <2>2, DialogFields
  <2>3. CASE dialog' = [dialog EXCEPT !.prompt = NoPrompt]
    <3> DEFINE nothing == NoPrompt
    <3>1. dialog' = [dialog EXCEPT !.prompt = nothing]
      BY <2>3
    <3> HIDE DEF nothing
    <3> QED BY <2>1, <3>1, DialogFields
  <2> QED BY <1>2, <2>2, <2>3
<1>4. /\ GhostRec(ghost') /\ ghost'.typed = ghost.typed /\ ghost'.held = ghost.held
      /\ ghost'.dismissed = b /\ ghost'.met = ghost.met
  BY <1>2, DismissedSet, DocsParts
<1>5. HeldBy' = HeldBy /\ Grows(HeldBy, HeldBy')
  BY <1>2, <1>4, HeldStays
<1>6. (op # NoOp => ghost'.dismissed) /\ (ghost.dismissed => ghost'.dismissed)
  BY <1>1, <1>4
<1>7. OpIsSound'
  <2> SUFFICES ASSUME op # NoOp
               PROVE  \/ SaveOp(op, ghost.held)
                      \/ CreateOp(op, ghost.held, ghost.typed, ghost'.dismissed, dialog'.saveAs)
                      \/ RenameOp(op)
    BY <1>2, <1>4 DEF OpIsSound
  <2>1. ASSUME CreateOp(op, ghost.held, ghost.typed, ghost.dismissed, dialog.saveAs)
        PROVE  CreateOp(op, ghost.held, ghost.typed, ghost'.dismissed, dialog'.saveAs)
    BY <1>6, <2>1 DEF CreateOp
  <2> QED BY <2>1, DocsParts DEF OpIsSound
<1>8. DocTyped' /\ TypedIsKept'
  BY <1>2, <1>4, <1>6, DocsParts DEF DocTyped, TypedIsKept
<1> QED BY <1>2, <1>3, <1>4, <1>5, <1>7, <1>8, DocsParts, DocsWhole, DiskIsFunction

\* The drafts of the paths ps go.
LEMMA DraftsGone ==
  ASSUME EditsRec(edits), NEW ps, NEW e,
         e = [edits EXCEPT !.draft = [p \in Paths |-> IF p \in ps THEN No ELSE edits.draft[p]]]
  PROVE  /\ EditsRec(e) /\ e.base = edits.base /\ e.doc = edits.doc
         /\ \A p \in Paths : e.draft[p] = IF p \in ps THEN No ELSE edits.draft[p]
<1> DEFINE b == edits.base
           d == edits.draft
           o == edits.doc
           s == edits.shown
           c == [p \in Paths |-> IF p \in ps THEN No ELSE d[p]]
<1>1. /\ edits = [base |-> b, draft |-> d, doc |-> o, shown |-> s]
      /\ b = [p \in Paths |-> b[p]]
  BY DEF EditsRec
<1>2. e = [edits EXCEPT !.draft = c]
  OBVIOUS
<1>3. c = [p \in Paths |-> c[p]] /\ \A p \in Paths : c[p] = IF p \in ps THEN No ELSE d[p]
  OBVIOUS
<1> HIDE DEF b, d, o, s, c
<1>4. e = [base |-> b, draft |-> c, doc |-> o, shown |-> s]
  BY <1>1, <1>2
<1> QED BY <1>1, <1>3, <1>4 DEF EditsRec, b, d, o

\* What was typed into the discarded paths is given up.
LEMMA TypedGone ==
  ASSUME GhostRec(ghost), NEW ps,
         ghost' = [ghost EXCEPT !.typed = [p \in Paths |-> IF p \in ps THEN {} ELSE ghost.typed[p]]]
  PROVE  /\ GhostRec(ghost') /\ ghost'.held = ghost.held /\ ghost'.dismissed = ghost.dismissed
         /\ ghost'.met = ghost.met
         /\ \A p \in Paths : ghost'.typed[p] = IF p \in ps THEN {} ELSE ghost.typed[p]
<1> DEFINE t == ghost.typed
           h == ghost.held
           a == ghost.acts
           c == ghost.created
           d == ghost.dismissed
           m == ghost.met
           x == [p \in Paths |-> IF p \in ps THEN {} ELSE t[p]]
<1>1. /\ ghost = [typed |-> t, held |-> h, acts |-> a, created |-> c, dismissed |-> d, met |-> m]
      /\ h = [p \in Files |-> h[p]] /\ d \in BOOLEAN /\ m \in BOOLEAN
  BY DEF GhostRec
<1>2. ghost' = [ghost EXCEPT !.typed = x]
  OBVIOUS
<1>3. x = [p \in Paths |-> x[p]] /\ \A p \in Paths : x[p] = IF p \in ps THEN {} ELSE t[p]
  OBVIOUS
<1> HIDE DEF t, h, a, c, d, m, x
<1>4. ghost' = [typed |-> x, held |-> h, acts |-> a, created |-> c, dismissed |-> d, met |-> m]
  BY <1>1, <1>2
<1>5. /\ ghost'.typed = x /\ ghost'.held = h /\ ghost'.dismissed = d /\ ghost'.met = m
      /\ ghost'.acts = a /\ ghost'.created = c
  BY <1>4
<1>6. GhostRec(ghost')
  BY <1>1, <1>3, <1>4, <1>5 DEF GhostRec
<1> QED BY <1>3, <1>5, <1>6 DEF t, h, d, m

\* A discard that ends keeps the invariant: only the drafts of the paths it asked about go.
LEMMA DiscardEndsKeeps ==
  ASSUME DocumentsAssumption, DocsInv, DiscardEnds
  PROVE  DocsInv'
<1> DEFINE d == dialog.discards
           ps == ToSet(d.paths)
           nothing == NoPrompt
<1>1. CASE /\ dialog' = [dialog EXCEPT !.discards = nothing]
           /\ UNCHANGED <<tabs, loads, edits, ghost, disk, op>>
  <2>1. DialogRec(dialog)
    BY DocsParts
  <2> HIDE DEF nothing
  <2>2. DialogRec(dialog') /\ dialog'.saveAs = dialog.saveAs
    BY <1>1, <2>1, DialogFields
  <2> QED BY <1>1, <2>2, DialogKeeps
<1>2. CASE /\ dialog' = [dialog EXCEPT !.discards = nothing, !.prompt = nothing]
           /\ Closed(ps)
           /\ edits' = Emptied(Forget([edits EXCEPT !.draft =
                [p \in Paths |-> IF p \in d.dirty THEN No ELSE edits.draft[p]]], ps))
           /\ ghost' = [ghost EXCEPT !.typed =
                [p \in Paths |-> IF p \in d.dirty THEN {} ELSE ghost.typed[p]]]
           /\ UNCHANGED <<disk, op>>
  <2> DEFINE gone == d.dirty
             e == [edits EXCEPT !.draft =
                     [p \in Paths |-> IF p \in gone THEN No ELSE edits.draft[p]]]
  <2>1. /\ dialog' = [dialog EXCEPT !.discards = nothing, !.prompt = nothing]
        /\ Closed(ps) /\ edits' = Emptied(Forget(e, ps))
        /\ ghost' = [ghost EXCEPT !.typed =
             [p \in Paths |-> IF p \in gone THEN {} ELSE ghost.typed[p]]]
        /\ disk' = disk /\ op' = op
    BY <1>2
  <2>2. DialogRec(dialog) /\ EditsRec(edits) /\ GhostRec(ghost)
    BY DocsParts
  <2> HIDE DEF ps, nothing, gone
  <2>3. DialogRec(dialog') /\ dialog'.saveAs = dialog.saveAs
    BY <2>1, <2>2, PromptAfterDiscard
  <2>4. /\ EditsRec(e) /\ e.base = edits.base /\ e.doc = edits.doc
        /\ \A p \in Paths : e.draft[p] = IF p \in gone THEN No ELSE edits.draft[p]
    BY <2>2, DraftsGone
  <2> HIDE DEF e
  <2>5. /\ EditsRec(edits') /\ edits'.base = e.base /\ edits'.draft = e.draft
        /\ edits'.doc \in {e.doc, No}
    BY <2>1, <2>4, Tidied
  <2>6. /\ GhostRec(ghost') /\ ghost'.held = ghost.held /\ ghost'.dismissed = ghost.dismissed
        /\ ghost'.met = ghost.met
        /\ \A p \in Paths : ghost'.typed[p] = IF p \in gone THEN {} ELSE ghost.typed[p]
    BY <2>1, <2>2, TypedGone
  <2>7. HeldBy' = HeldBy /\ Grows(HeldBy, HeldBy')
    BY <2>1, <2>6, HeldStays
  <2>8. ghost'.typed[Untitled] \subseteq ghost.typed[Untitled]
    BY <2>6 DEF Paths
  <2>9. OpIsSound'
    <3> SUFFICES ASSUME op # NoOp
                 PROVE  \/ SaveOp(op, ghost.held)
                        \/ CreateOp(op, ghost.held, ghost'.typed, ghost'.dismissed, dialog'.saveAs)
                        \/ RenameOp(op)
      BY <2>1, <2>6 DEF OpIsSound
    <3>1. ASSUME CreateOp(op, ghost.held, ghost.typed, ghost.dismissed, dialog.saveAs)
          PROVE  CreateOp(op, ghost.held, ghost'.typed, ghost'.dismissed, dialog'.saveAs)
      BY <2>3, <2>6, <2>8, <3>1 DEF CreateOp
    <3> QED BY <3>1, DocsParts DEF OpIsSound
  <2>10. DocTyped'
    BY <2>4, <2>5, <2>8, DocsParts DEF DocTyped
  <2>11. TypedIsKept'
    <3> SUFFICES ASSUME NEW q \in Files, ~ghost.dismissed, ~ghost.met, NEW t \in ghost'.typed[q]
                 PROVE  t \in ghost'.held[q] \/ edits'.draft[q] = t
      BY <2>6 DEF TypedIsKept
    <3>1. q \in Paths
      BY DEF Paths
    <3>2. q \notin gone /\ t \in ghost.typed[q] /\ edits'.draft[q] = edits.draft[q]
      BY <2>4, <2>5, <2>6, <3>1
    <3> QED BY <2>6, <3>2, DocsParts DEF TypedIsKept
  <2>12. \E p : loads' = loads \/ loads' = Begun(p)
    BY <2>1 DEF Closed
  <2>13. TextsIn(edits'.base, HeldBy')
    BY <2>4, <2>5, <2>7, DocsParts
  <2>14. disk' = [p \in Files |-> disk'[p]] /\ TextsIn(disk', HeldBy')
    BY <2>1, <2>7, DocsParts, DiskIsFunction
  <2> QED BY <2>3, <2>5, <2>6, <2>7, <2>9, <2>10, <2>11, <2>12, <2>13, <2>14, DocsWhole
<1> QED BY <1>1, <1>2 DEF DiscardEnds

\* The editor's record after a Save As.
SavedAs(to, text) ==
  [edits EXCEPT !.base = [@ EXCEPT ![Untitled] = No, ![to] = text], !.draft[Untitled] = No,
     !.doc = No]

\* The records after a Save As.
LEMMA SavedAsFields ==
  ASSUME EditsRec(edits), NEW to, NEW text, NEW e, e = SavedAs(to, text)
  PROVE  /\ EditsRec(e) /\ e.doc = No
         /\ \A p \in Paths : e.base[p] = IF p = to THEN text ELSE IF p = Untitled THEN No
                                         ELSE edits.base[p]
         /\ \A p \in Paths : e.draft[p] = IF p = Untitled THEN No ELSE edits.draft[p]
<1> DEFINE b == edits.base
           d == edits.draft
           o == edits.doc
           s == edits.shown
           b2 == [[b EXCEPT ![Untitled] = No] EXCEPT ![to] = text]
           d2 == [d EXCEPT ![Untitled] = No]
<1>1. /\ edits = [base |-> b, draft |-> d, doc |-> o, shown |-> s]
      /\ b = [p \in Paths |-> b[p]] /\ d = [p \in Paths |-> d[p]]
  BY DEF EditsRec
<1> DEFINE e1 == [edits EXCEPT !.base = b2]
           e2 == [e1 EXCEPT !.draft = d2]
<1>2. e = [[[edits EXCEPT !.base = b2] EXCEPT !.draft[Untitled] = No] EXCEPT !.doc = No]
  BY DEF SavedAs
<1>3. /\ b2 = [p \in Paths |-> b2[p]] /\ d2 = [p \in Paths |-> d2[p]]
      /\ \A p \in Paths : b2[p] = IF p = to THEN text ELSE IF p = Untitled THEN No ELSE b[p]
      /\ \A p \in Paths : d2[p] = IF p = Untitled THEN No ELSE d[p]
  <2>1. b2 = [p \in Paths |-> IF p = to THEN text ELSE IF p = Untitled THEN No ELSE b[p]]
    BY <1>1
  <2>2. d2 = [p \in Paths |-> IF p = Untitled THEN No ELSE d[p]]
    BY <1>1
  <2> HIDE DEF b2, d2
  <2> QED BY <2>1, <2>2
<1>4. e1.draft = d
  <2> HIDE DEF b, d, o, s, b2
  <2> QED BY <1>1
<1>5. e = [e2 EXCEPT !.doc = No]
  BY <1>2, <1>4
<1> HIDE DEF b, d, o, s, b2, d2
<1>6. e1 = [base |-> b2, draft |-> d, doc |-> o, shown |-> s]
  BY <1>1
<1> HIDE DEF e1
<1>7. e2 = [base |-> b2, draft |-> d2, doc |-> o, shown |-> s]
  BY <1>6
<1> HIDE DEF e2
<1>8. e = [base |-> b2, draft |-> d2, doc |-> No, shown |-> s]
  BY <1>5, <1>7
<1> DEFINE z == [base |-> b2, draft |-> d2, doc |-> No, shown |-> s]
<1>9. z.base = b2 /\ z.draft = d2 /\ z.doc = No /\ z.shown = s
  OBVIOUS
<1>10. EditsRec(z)
  BY <1>3, <1>9 DEF EditsRec
<1>11. e = z
  BY <1>8
<1> HIDE DEF z
<1>12. EditsRec(e) /\ e.base = b2 /\ e.draft = d2 /\ e.doc = No
  BY <1>9, <1>10, <1>11
<1> QED BY <1>3, <1>12 DEF b, d

\* What was typed into one path counts for another.
TypedMoved(g, from, to) ==
  [g EXCEPT !.typed[to] = @ \union ghost.typed[from], !.typed[from] = {}]

\* What was typed into one path is now of another.
LEMMA TypedMoves ==
  ASSUME NEW g, GhostRec(g), g.typed = ghost.typed, NEW from \in Paths, NEW to \in Paths
  PROVE  /\ GhostRec(TypedMoved(g, from, to)) /\ TypedMoved(g, from, to).held = g.held
         /\ TypedMoved(g, from, to).dismissed = g.dismissed
         /\ TypedMoved(g, from, to).met = g.met
         /\ \A p \in Paths : \A t : t \in TypedMoved(g, from, to).typed[p] <=>
              p # from /\ (t \in g.typed[p] \/ (p = to /\ t \in ghost.typed[from]))
<1> DEFINE e == TypedMoved(g, from, to)
<1> DEFINE x == g.typed[to] \union ghost.typed[from]
           f == TypedPut(g, to, x)
<1>1. e = TypedPut(f, from, {})
  BY DEF TypedPut, TypedMoved
<1>8. No \notin x /\ No \notin {}
  BY DEF GhostRec
<1> HIDE DEF x
<1>2. /\ GhostRec(f) /\ f.held = g.held /\ f.dismissed = g.dismissed /\ f.met = g.met
      /\ \A p \in Paths : f.typed[p] = IF p = to THEN x ELSE g.typed[p]
  BY <1>8, TypedSet
<1> HIDE DEF f
<1> DEFINE k == TypedPut(f, from, {})
<1>3. /\ GhostRec(k) /\ k.held = f.held /\ k.dismissed = f.dismissed /\ k.met = f.met
      /\ \A p \in Paths : k.typed[p] = IF p = from THEN {} ELSE f.typed[p]
  BY <1>2, <1>8, TypedSet
<1> HIDE DEF k
<1>4. /\ GhostRec(k) /\ k.held = g.held /\ k.dismissed = g.dismissed /\ k.met = g.met
      /\ \A p \in Paths : k.typed[p] = IF p = from THEN {} ELSE IF p = to THEN x ELSE g.typed[p]
  BY <1>2, <1>3
<1>5. e = k
  BY <1>1 DEF k
<1> QED BY <1>4, <1>5 DEF x

\* The answer of Save As keeps the invariant: unless its dialog was dismissed, the file
\* has all that was typed into the document (onSaved).
LEMMA SaveAsEndsKeeps ==
  ASSUME DocumentsAssumption, DocsInv, SaveAsEnds
  PROVE  DocsInv'
<1> DEFINE to == op.to
           text == op.text
<1>1. /\ op # NoOp /\ op.kind = "create" /\ op.state = "done" /\ op' = NoOp
      /\ disk' = disk /\ (loads' = loads \/ loads' = Begun(tabs'.current))
      /\ ghost' = [ghost EXCEPT !.typed[to] = @ \union ghost.typed[Untitled],
                      !.typed[Untitled] = {}]
  BY DEF SaveAsEnds
<1>2. \E x, y : dialog' = [dialog EXCEPT !.saveAs = x, !.prompt = y]
  <2> DEFINE y == IF op.closing = NoPrompt THEN dialog.prompt
                  ELSE IF op.closing.dirty \ {Untitled} = {} THEN NoPrompt
                  ELSE [paths |-> SelectSeq(op.closing.paths, LAMBDA p : p # Untitled),
                        dirty |-> op.closing.dirty \ {Untitled}]
  <2>1. dialog' = [dialog EXCEPT !.saveAs = No, !.prompt = y]
    BY DEF SaveAsEnds
  <2> HIDE DEF y
  <2> WITNESS No, y
  <2> QED BY <2>1
<1>3. DialogRec(dialog) /\ EditsRec(edits) /\ GhostRec(ghost)
  BY DocsParts
<1>4. DialogRec(dialog')
  <2>1. PICK x, y : dialog' = [dialog EXCEPT !.saveAs = x, !.prompt = y]
    BY <1>2
  <2> QED BY <1>3, <2>1, PromptAfterSaveAs
<1>5. ~FileRenamed /\ HeldBy = [p \in Files |-> ghost.held[p]]
  BY <1>1 DEF FileRenamed, HeldBy
<1>6. to \in Files /\ text \in ghost.held[to]
      /\ (~ghost.dismissed => ghost.typed[Untitled] \subseteq {text})
  BY <1>1, DocsParts DEF OpIsSound, SaveOp, CreateOp, RenameOp
<1> DEFINE e == SavedAs(to, text)
<1>7. edits' = Emptied(Forget(e, {}))
  BY DEF SaveAsEnds, Forget, SavedAs
<1> HIDE DEF to, text
<1>8. /\ EditsRec(e) /\ e.doc = No
      /\ \A p \in Paths : e.base[p] = IF p = to THEN text ELSE IF p = Untitled THEN No
                                       ELSE edits.base[p]
      /\ \A p \in Paths : e.draft[p] = IF p = Untitled THEN No ELSE edits.draft[p]
  BY <1>3, SavedAsFields
<1> HIDE DEF e
<1>9. /\ EditsRec(edits') /\ edits'.base = e.base /\ edits'.draft = e.draft /\ edits'.doc = No
  BY <1>7, <1>8, Tidied
<1>10. /\ GhostRec(ghost') /\ ghost'.held = ghost.held /\ ghost'.dismissed = ghost.dismissed
       /\ ghost'.met = ghost.met
       /\ \A p \in Paths : \A t : t \in ghost'.typed[p] <=>
            p # Untitled /\ (t \in ghost.typed[p] \/ (p = to /\ t \in ghost.typed[Untitled]))
  <2> DEFINE g == TypedMoved(ghost, Untitled, to)
  <2>1. ghost' = g
    BY <1>1 DEF TypedMoved
  <2>2. /\ GhostRec(g) /\ g.held = ghost.held /\ g.dismissed = ghost.dismissed
        /\ g.met = ghost.met
        /\ \A p \in Paths : \A t : t \in g.typed[p] <=>
             p # Untitled /\ (t \in ghost.typed[p] \/ (p = to /\ t \in ghost.typed[Untitled]))
    BY <1>3, <1>6, TypedMoves DEF Paths
  <2> HIDE DEF g
  <2> QED BY <2>1, <2>2
<1>11. HeldBy' = HeldBy /\ Grows(HeldBy, HeldBy') /\ OpIsSound'
  BY <1>1, <1>5, <1>10, OpOver
<1>12. DocTyped'
  BY <1>9 DEF DocTyped
<1>13. TextsIn(edits'.base, HeldBy')
  <2> SUFFICES ASSUME NEW q \in Files, edits'.base[q] # No
               PROVE  edits'.base[q] \in HeldBy[q]
    BY <1>11 DEF TextsIn
  <2>1. q \in Paths /\ q # Untitled
    BY DEF Paths, DocumentsAssumption
  <2> QED BY <1>5, <1>6, <1>8, <1>9, <2>1, DocsParts DEF TextsIn
<1>14. TypedIsKept'
  <2> SUFFICES ASSUME NEW q \in Files, ~ghost.dismissed, ~ghost.met, NEW t \in ghost'.typed[q]
               PROVE  t \in ghost.held[q] \/ edits'.draft[q] = t
    BY <1>10 DEF TypedIsKept
  <2>1. q \in Paths /\ q # Untitled
    BY DEF Paths, DocumentsAssumption
  <2>2. edits'.draft[q] = edits.draft[q]
    BY <1>8, <1>9, <2>1
  <2>3. t \in ghost.typed[q] \/ (q = to /\ t \in ghost.typed[Untitled])
    BY <1>10, <2>1
  <2>4. CASE t \in ghost.typed[q]
    BY <2>2, <2>4, DocsParts DEF TypedIsKept
  <2>5. CASE q = to /\ t \in ghost.typed[Untitled]
    BY <1>6, <2>5
  <2> QED BY <2>3, <2>4, <2>5
<1>15. disk' = [p \in Files |-> disk'[p]] /\ TextsIn(disk', HeldBy')
  BY <1>1, <1>11, DocsParts, DiskIsFunction
<1>16. \E p : loads' = loads \/ loads' = Begun(p)
  BY <1>1
<1> QED BY <1>4, <1>9, <1>10, <1>11, <1>12, <1>13, <1>14, <1>15, <1>16, DocsWhole

\* The records after a rename.
OnPaths(f) == f = [p \in Paths |-> f[p]]

\* What a rename makes of a map from paths.
LEMMA MovedFunctions ==
  ASSUME NEW f, OnPaths(f), NEW from, NEW to, from # to, NEW g \in Moved(f, from, to)
  PROVE  /\ OnPaths(g)
         /\ \A p \in Paths : \/ g[p] = f[p]
                             \/ p = from /\ g[p] = No
                             \/ p = to /\ g[p] = f[from]
         /\ to \in Paths => \/ f[from] # No /\ g[to] = f[from]
                            \/ f[from] = No /\ g[to] = f[to]
                            \/ f[from] # No /\ f[to] # No /\ g[to] = f[to]
<1>0. f = [p \in Paths |-> f[p]]
  BY DEF OnPaths
<1>1. CASE f[from] = No
  <2>1. g = f
    BY <1>1 DEF Moved
  <2>2. \A p \in Paths : g[p] = f[p]
    BY <2>1
  <2>3. to \in Paths => f[from] = No /\ g[to] = f[to]
    BY <1>1, <2>1
  <2>4. OnPaths(g)
    BY <2>1
  <2> QED BY <2>2, <2>3, <2>4
<1>2. CASE f[from] # No
  <2>1. PICK kept \in {f[from], f[to]} \ {No} : g = [f EXCEPT ![to] = kept, ![from] = No]
    BY <1>2 DEF Moved
  <2>2. g = [p \in Paths |-> IF p = from THEN No ELSE IF p = to THEN kept ELSE f[p]]
    BY <1>0, <2>1
  <2>3. \A p \in Paths : g[p] = IF p = from THEN No ELSE IF p = to THEN kept ELSE f[p]
    BY <2>2
  <2>4. OnPaths(g)
    BY <2>2 DEF OnPaths
  <2>5. kept = f[from] \/ (kept = f[to] /\ f[to] # No)
    BY <2>1
  <2>6. to \in Paths => g[to] = kept
    BY <2>3
  <2>7. \A p \in Paths : \/ g[p] = f[p]
                         \/ p = from /\ g[p] = No
                         \/ p = to /\ g[p] = f[from]
    BY <2>3, <2>5
  <2>8. to \in Paths => \/ f[from] # No /\ g[to] = f[from]
                        \/ f[from] = No /\ g[to] = f[to]
                        \/ f[from] # No /\ f[to] # No /\ g[to] = f[to]
    BY <1>2, <2>5, <2>6
  <2> QED BY <2>4, <2>7, <2>8
<1> QED BY <1>1, <1>2

\* The editor's record after a rename.
MovedEdits(bases, drafts) == [edits EXCEPT !.base = bases, !.draft = drafts]

\* As before, for the next record.
LEMMA MovedFields ==
  ASSUME EditsRec(edits), NEW bases, NEW drafts, OnPaths(bases), OnPaths(drafts)
  PROVE  /\ EditsRec(MovedEdits(bases, drafts)) /\ MovedEdits(bases, drafts).doc = edits.doc
         /\ MovedEdits(bases, drafts).base = bases /\ MovedEdits(bases, drafts).draft = drafts
<1> DEFINE e == MovedEdits(bases, drafts)
<1> DEFINE b == edits.base
           d == edits.draft
           o == edits.doc
           s == edits.shown
           f == [edits EXCEPT !.base = bases]
           z == [base |-> bases, draft |-> drafts, doc |-> o, shown |-> s]
<1>1. edits = [base |-> b, draft |-> d, doc |-> o, shown |-> s]
  BY DEF EditsRec
<1>2. e = [f EXCEPT !.draft = drafts]
  BY DEF MovedEdits
<1> HIDE DEF e, b, d, o, s
<1>3. f = [base |-> bases, draft |-> d, doc |-> o, shown |-> s]
  BY <1>1
<1> HIDE DEF f
<1>4. e = z
  BY <1>2, <1>3
<1>5. z.base = bases /\ z.draft = drafts /\ z.doc = o /\ z.shown = s
  OBVIOUS
<1>6. EditsRec(z)
  BY <1>1, <1>5 DEF EditsRec, OnPaths
<1> HIDE DEF z
<1>7. EditsRec(e) /\ e.base = bases /\ e.draft = drafts /\ e.doc = o
  BY <1>4, <1>5, <1>6
<1> QED BY <1>7 DEF e, o

\* The ghost's record after two drafts met.
MetPut(g, x) == [g EXCEPT !.met = x]

\* As before, for the next record.
LEMMA MetPutFields ==
  ASSUME NEW g, GhostRec(g), NEW x \in BOOLEAN
  PROVE  /\ GhostRec(MetPut(g, x)) /\ MetPut(g, x).typed = g.typed
         /\ MetPut(g, x).held = g.held /\ MetPut(g, x).dismissed = g.dismissed
         /\ MetPut(g, x).met = x
<1> DEFINE e == MetPut(g, x)
<1>1. e = [g EXCEPT !.met = x]
  BY DEF MetPut
<1> HIDE DEF e
<1>2. /\ GhostRec(e) /\ e.typed = g.typed /\ e.held = g.held /\ e.dismissed = g.dismissed
      /\ e.met = x
  BY <1>1, MetSet
<1> QED BY <1>2 DEF e

\* The answer of a rename keeps the invariant: the draft moves with the file, unless the
\* other path has a draft too (the effect on worktreeRename, GitnaReviewUI.tsx:650).
LEMMA RenameEndsKeeps ==
  ASSUME DocumentsAssumption, DocsInv, RenameEnds
  PROVE  DocsInv'
<1> DEFINE from == op.path
           to == op.to
<1>1. PICK m \in BOOLEAN :
        m <=> (ghost.met \/ (edits.draft[from] # No /\ edits.draft[to] # No))
  OBVIOUS
<1>2. PICK bases \in Moved(edits.base, from, to), drafts \in Moved(edits.draft, from, to) :
        edits' = [edits EXCEPT !.base = bases, !.draft = drafts]
  BY DEF RenameEnds
<1>3. /\ FileRenamed /\ op # NoOp /\ op' = NoOp /\ disk' = disk /\ dialog' = dialog
      /\ (loads' = loads \/ loads' = Begun(tabs'.current))
  BY DEF RenameEnds, FileRenamed
<1>4. EditsRec(edits) /\ GhostRec(ghost) /\ DialogRec(dialog)
  BY DocsParts
<1>5. from \in Files /\ to \in Files /\ from # to /\ from \in Paths /\ to \in Paths
  BY <1>3, DocsParts DEF OpIsSound, SaveOp, CreateOp, RenameOp, FileRenamed, Paths
<1> DEFINE g == TypedMoved(ghost, from, to)
           h == HeldPut(g, to, g.held[to] \union ghost.held[from])
<1>6. ghost' = MetPut(h, m)
  <2>1. GhostRec(g) /\ g.met = ghost.met
    BY <1>4, <1>5, TypedMoves
  <2>2. h.met = ghost.met
    BY <2>1, HeldSet
  <2>3. ghost' = [ghost EXCEPT !.typed[to] = @ \union ghost.typed[from], !.typed[from] = {},
                    !.held[to] = @ \union ghost.held[from],
                    !.met = @ \/ (edits.draft[from] # No /\ edits.draft[to] # No)]
    BY DEF RenameEnds
  <2>4. ghost' = [h EXCEPT !.met = h.met \/ (edits.draft[from] # No /\ edits.draft[to] # No)]
    BY <2>3 DEF HeldPut, TypedMoved
  <2>5. (h.met \/ (edits.draft[from] # No /\ edits.draft[to] # No)) = m
    BY <1>1, <1>4, <2>2 DEF GhostRec
  <2> QED BY <2>4, <2>5 DEF MetPut
<1> HIDE DEF from, to
<1>7. /\ GhostRec(g) /\ g.held = ghost.held /\ g.dismissed = ghost.dismissed
      /\ \A p \in Paths : \A t : t \in g.typed[p] <=>
           p # from /\ (t \in ghost.typed[p] \/ (p = to /\ t \in ghost.typed[from]))
  BY <1>4, <1>5, TypedMoves
<1> HIDE DEF g
<1>8. /\ GhostRec(h) /\ h.typed = g.typed /\ h.dismissed = ghost.dismissed
      /\ \A p \in Files : h.held[p] = IF p = to THEN ghost.held[to] \union ghost.held[from]
                                      ELSE ghost.held[p]
  BY <1>7, HeldSet
<1> HIDE DEF h
<1>9. /\ GhostRec(ghost') /\ ghost'.typed = h.typed /\ ghost'.held = h.held
      /\ ghost'.dismissed = h.dismissed /\ ghost'.met = m
  BY <1>6, <1>8, MetPutFields
<1>10. /\ EditsRec(edits') /\ edits'.doc = edits.doc /\ edits'.base = bases
       /\ edits'.draft = drafts
  <2>1. OnPaths(edits.base) /\ OnPaths(edits.draft)
    BY <1>4 DEF EditsRec, OnPaths
  <2>3. OnPaths(bases) /\ OnPaths(drafts)
    BY <1>2, <1>5, <2>1, MovedFunctions
  <2>4. edits' = MovedEdits(bases, drafts)
    BY <1>2 DEF MovedEdits
  <2> QED BY <1>4, <2>3, <2>4, MovedFields
<1>11. /\ \A p \in Paths : \/ bases[p] = edits.base[p]
                           \/ p = from /\ bases[p] = No
                           \/ p = to /\ bases[p] = edits.base[from]
       /\ \A p \in Paths : p \notin {from, to} => drafts[p] = edits.draft[p]
       /\ \/ edits.draft[from] # No /\ drafts[to] = edits.draft[from]
          \/ edits.draft[from] = No /\ drafts[to] = edits.draft[to]
          \/ edits.draft[from] # No /\ edits.draft[to] # No
  <2>1. OnPaths(edits.base) /\ OnPaths(edits.draft)
    BY <1>4 DEF EditsRec, OnPaths
  <2>2. \A p \in Paths : \/ bases[p] = edits.base[p]
                         \/ p = from /\ bases[p] = No
                         \/ p = to /\ bases[p] = edits.base[from]
    BY <1>2, <1>5, <2>1, MovedFunctions
  <2>3. /\ \A p \in Paths : \/ drafts[p] = edits.draft[p]
                            \/ p = from /\ drafts[p] = No
                            \/ p = to /\ drafts[p] = edits.draft[from]
        /\ \/ edits.draft[from] # No /\ drafts[to] = edits.draft[from]
           \/ edits.draft[from] = No /\ drafts[to] = edits.draft[to]
           \/ edits.draft[from] # No /\ edits.draft[to] # No
    BY <1>2, <1>5, <2>1, MovedFunctions
  <2> QED BY <2>2, <2>3
<1>12. \A p \in Files : HeldBy'[p] = HeldBy[p]
  <2> SUFFICES ASSUME NEW p \in Files PROVE HeldBy'[p] = HeldBy[p]
    OBVIOUS
  <2>1. HeldBy'[p] = ghost'.held[p]
    BY <1>3 DEF HeldBy, FileRenamed
  <2>2. HeldBy[p] = ghost.held[p] \union (IF to = p THEN ghost.held[from] ELSE {})
    BY <1>3 DEF HeldBy, from, to
  <2> QED BY <1>8, <1>9, <2>1, <2>2
<1>13. HeldBy' = HeldBy /\ Grows(HeldBy, HeldBy')
  BY <1>12 DEF HeldBy, Grows
<1>14. OpIsSound'
  BY <1>3 DEF OpIsSound
<1>15. TextsIn(edits'.base, HeldBy')
  <2> SUFFICES ASSUME NEW q \in Files, bases[q] # No
               PROVE  bases[q] \in HeldBy[q]
    BY <1>10, <1>13 DEF TextsIn
  <2>1. q \in Paths /\ \A p \in Files : edits.base[p] # No => edits.base[p] \in HeldBy[p]
    BY DocsParts DEF Paths, TextsIn
  <2>2. HeldBy[from] \subseteq HeldBy[to]
    BY <1>3, <1>5 DEF HeldBy, from, to
  <2> QED BY <1>5, <1>11, <2>1, <2>2
<1>16. DocTyped'
  <2>1. Untitled \in Paths /\ Untitled # to /\ Untitled # from
    BY <1>5 DEF Paths, DocumentsAssumption
  <2>2. \A t : t \in ghost'.typed[Untitled] => t \in ghost.typed[Untitled]
    BY <1>7, <1>8, <1>9, <2>1
  <2> QED BY <1>10, <2>2, DocsParts DEF DocTyped
<1>17. TypedIsKept'
  <2> SUFFICES ASSUME NEW q \in Files, ~ghost.dismissed, ~m, NEW t \in ghost'.typed[q]
               PROVE  t \in ghost'.held[q] \/ drafts[q] = t
    BY <1>8, <1>9, <1>10 DEF TypedIsKept
  <2>1. q \in Paths /\ ~ghost.met /\ (edits.draft[from] = No \/ edits.draft[to] = No)
    BY <1>1 DEF Paths, from, to
  <2>2. q # from /\ (t \in ghost.typed[q] \/ (q = to /\ t \in ghost.typed[from]))
    BY <1>7, <1>8, <1>9, <2>1
  <2>3. \A p \in Files : \A u \in ghost.typed[p] :
          /\ u # No
          /\ u \in ghost.held[p] \/ edits.draft[p] = u
    BY <1>4, <2>1, DocsParts DEF TypedIsKept, GhostRec, Paths
  <2>4. CASE q # to
    BY <1>8, <1>9, <1>11, <2>1, <2>2, <2>3, <2>4
  <2>5. CASE q = to /\ t \in ghost.typed[to]
    <3>1. t # No /\ (t \in ghost.held[to] \/ edits.draft[to] = t)
      BY <1>5, <2>3, <2>5
    <3> QED BY <1>5, <1>8, <1>9, <1>11, <2>1, <2>5, <3>1
  <2>6. CASE q = to /\ t \in ghost.typed[from]
    <3>1. t # No /\ (t \in ghost.held[from] \/ edits.draft[from] = t)
      BY <1>5, <2>3, <2>6
    <3> QED BY <1>5, <1>8, <1>9, <1>11, <2>1, <2>6, <3>1
  <2> QED BY <2>2, <2>4, <2>5, <2>6
<1>18. disk' = [p \in Files |-> disk'[p]] /\ TextsIn(disk', HeldBy')
  BY <1>3, <1>13, DocsParts, DiskIsFunction
<1>19. \E p : loads' = loads \/ loads' = Begun(p)
  BY <1>3
<1>20. DialogRec(dialog')
  BY <1>3, <1>4
<1> QED BY <1>9, <1>10, <1>13, <1>14, <1>15, <1>16, <1>17, <1>18, <1>19, <1>20, DocsWhole

\* A change by another program keeps it.
LEMMA OutsideChangeKeeps ==
  ASSUME DocumentsAssumption, DocsInv, NEW p \in Files, NEW text \in Texts \union {No},
         OutsideChange(p, text)
  PROVE  DocsInv'
<1> DEFINE new == IF text = No THEN {} ELSE {text}
           x == Acted.held[p] \union new
<1>1. /\ disk' = [disk EXCEPT ![p] = text] /\ ghost' = HeldPut(Acted, p, x)
      /\ edits' = edits /\ loads' = loads /\ op' = op /\ dialog' = dialog
  BY DEF OutsideChange, HeldPut
<1>2. /\ GhostRec(Acted) /\ Acted.typed = ghost.typed /\ Acted.held = ghost.held
      /\ Acted.dismissed = ghost.dismissed /\ Acted.met = ghost.met
  BY ActedFields, DocsParts
<1>3. text # No => text \in x
  OBVIOUS
<1>4. ghost.held[p] \subseteq x
  BY <1>2
<1> HIDE DEF x
<1>5. /\ GhostRec(ghost') /\ ghost'.typed = ghost.typed /\ ghost'.dismissed = ghost.dismissed
      /\ ghost'.met = ghost.met
      /\ \A q \in Files : ghost'.held[q] = IF q = p THEN x ELSE ghost.held[q]
  BY <1>1, <1>2, HeldSet
<1>6. Grows(ghost.held, ghost'.held)
  BY <1>4, <1>5 DEF Grows
<1>7. Grows(HeldBy, HeldBy') /\ \A q \in Files : ghost'.held[q] \subseteq HeldBy'[q]
  <2>1. op # NoOp /\ op.kind = "rename" => op.path \in Files
    BY DocsParts DEF OpIsSound, SaveOp, CreateOp, RenameOp
  <2>2. FileRenamed' = FileRenamed
    BY <1>1 DEF FileRenamed
  <2> QED BY <1>1, <1>6, <2>1, <2>2 DEF HeldBy, Grows, FileRenamed
<1>8. OpIsSound'
  <2> SUFFICES ASSUME op # NoOp
               PROVE  \/ SaveOp(op, ghost'.held)
                      \/ CreateOp(op, ghost'.held, ghost.typed, ghost.dismissed, dialog.saveAs)
                      \/ RenameOp(op)
    BY <1>1, <1>5 DEF OpIsSound
  <2>1. ASSUME SaveOp(op, ghost.held) PROVE SaveOp(op, ghost'.held)
    BY <1>6, <2>1 DEF SaveOp, Grows
  <2>2. ASSUME CreateOp(op, ghost.held, ghost.typed, ghost.dismissed, dialog.saveAs)
        PROVE  CreateOp(op, ghost'.held, ghost.typed, ghost.dismissed, dialog.saveAs)
    BY <1>6, <2>2 DEF CreateOp, Grows
  <2> QED BY <2>1, <2>2, DocsParts DEF OpIsSound
<1>9. /\ disk' = [q \in Files |-> disk'[q]]
      /\ \A q \in Files : disk'[q] = IF q = p THEN text ELSE disk[q]
  BY <1>1, DiskIsFunction
<1>10. TextsIn(disk', HeldBy')
  <2> SUFFICES ASSUME NEW q \in Files, disk'[q] # No PROVE disk'[q] \in HeldBy'[q]
    BY DEF TextsIn
  <2>1. CASE q = p
    BY <1>3, <1>5, <1>7, <1>9, <2>1
  <2>2. CASE q # p
    BY <1>7, <1>9, <2>2, DocsParts DEF TextsIn, Grows
  <2> QED BY <2>1, <2>2
<1>11. TextsIn(edits'.base, HeldBy')
  BY <1>1, <1>7, DocsParts DEF TextsIn, Grows
<1>12. DocTyped'
  BY <1>1, <1>5, DocsParts DEF DocTyped
<1>13. TypedIsKept'
  BY <1>1, <1>5, <1>6, DocsParts DEF TypedIsKept, Grows
<1>14. EditsRec(edits') /\ DialogRec(dialog')
  BY <1>1, DocsParts
<1> QED BY <1>1, <1>5, <1>7, <1>8, <1>9, <1>10, <1>11, <1>12, <1>13, <1>14, DocsWhole

\* The invariant holds at first: nothing is open and nothing was typed.
THEOREM DocsInits ==
  ASSUME DocumentsAssumption, DocumentsInit
  PROVE  DocsInv
<1>1. op = NoOp /\ ~FileRenamed /\ OpIsSound
  BY DEF DocumentsInit, FileRenamed, OpIsSound
<1>2. EditsRec(edits) /\ edits.doc = No /\ \A p \in Paths : edits.base[p] = No
  BY DEF DocumentsInit, EditsRec
<1>3. DialogRec(dialog)
  BY DEF DocumentsInit, DialogRec
<1>4. /\ GhostRec(ghost) /\ \A p \in Paths : ghost.typed[p] = {}
      /\ \A p \in Files : ghost.held[p] = IF p \in OnDisk THEN {Empty} ELSE {}
  BY DEF DocumentsInit, GhostRec
<1>5. HeldBy = [p \in Files |-> ghost.held[p]]
  BY <1>1 DEF HeldBy
<1>6. DiskHeld
  BY <1>4, <1>5 DEF DocumentsInit, DiskHeld, TextsIn
<1>7. BaseHeld
  BY <1>2 DEF BaseHeld, TextsIn, Paths
<1>8. LoadsHeld
  BY DEF DocumentsInit, LoadsHeld, LoadOK
<1>9. DocTyped /\ TypedIsKept
  BY <1>2, <1>4 DEF DocTyped, TypedIsKept, Paths
<1> QED BY <1>1, <1>2, <1>3, <1>4, <1>6, <1>7, <1>8, <1>9 DEF DocsInv, DocsRecs

\* Every step of the documents keeps the invariant.
THEOREM DocsSteps ==
  ASSUME DocumentsAssumption, DocsInv, [DocumentsNext]_docVars
  PROVE  DocsInv'
<1>1. CASE SaveNext \/ SavedPendingTabs
  BY <1>1, SaveNextKeeps, DialogStepsKeep
<1>2. CASE \/ Reload \/ NewUntitled \/ Serve \/ SaveEnds \/ SavePendingTabs
           \/ DiscardPendingTabs \/ DiscardEnds \/ Cancel \/ SaveAsEnds \/ OpRefused
           \/ RenameEnds
  BY <1>2, ReadsKeep, NewUntitledKeeps, ServeKeeps, SaveEndsKeeps, DialogStepsKeep,
     DiscardEndsKeeps, CancelKeeps, SaveAsEndsKeeps, OpRefusedKeeps, RenameEndsKeeps
<1>3. ASSUME NEW i \in {1, 2}, ReadFile(i) \/ LoadArrives(i) \/ LoadFails(i)
      PROVE  DocsInv'
  BY <1>3, ReadFileKeeps, LoadArrivesKeeps, LoadFailsKeeps
<1>4. ASSUME NEW p \in Paths, SelectRepositoryFile(p) \/ RequestSave(p)
      PROVE  DocsInv'
  BY <1>4, ReadsKeep, RequestSaveKeeps
<1>5. ASSUME NEW i \in DOMAIN tabs.open, NEW ps \in MenuCloses(i), CloseTabs(ps)
      PROVE  DocsInv'
  BY <1>5, CloseTabsKeeps
<1>6. ASSUME NEW t \in Texts, Type(t)
      PROVE  DocsInv'
  BY <1>6, TypeKeeps
<1>7. ASSUME NEW p \in Files, SubmitSaveAs(p) \/ \E q \in Files : Rename(p, q)
      PROVE  DocsInv'
  BY <1>7, SubmitSaveAsKeeps, RenameKeeps
<1>8. ASSUME NEW p \in Files, NEW t \in Texts \union {No}, OutsideChange(p, t)
      PROVE  DocsInv'
  BY <1>8, OutsideChangeKeeps
<1>9. CASE UNCHANGED docVars
  <2>1. HeldBy' = HeldBy
    BY <1>9 DEF docVars, HeldBy, FileRenamed
  <2> QED BY <1>9, <2>1 DEF docVars, DocsInv, DocsRecs, OpIsSound, DiskHeld, BaseHeld,
            LoadsHeld, DocTyped, TypedIsKept
<1> QED BY <1>1, <1>2, <1>3, <1>4, <1>5, <1>6, <1>7, <1>8, <1>9
        DEF DocumentsNext, HandlerOrAnswer

\* The invariant implies that nothing typed is lost.
THEOREM DocsImply == DocsInv => TypedIsKept
BY DEF DocsInv

(***************************************************************************)
(* FolderPicker                                                            *)
(***************************************************************************)

(***************************************************************************)
(* Lists                                                                   *)
(***************************************************************************)

\* What comes before a place of a sequence.
LEMMA BeforePlace ==
  ASSUME NEW S, NEW s \in Seq(S), NEW i \in 1..Len(s)
  PROVE  /\ SubSeq(s, 1, i - 1) \in Seq(S) /\ Len(SubSeq(s, 1, i - 1)) = i - 1
         /\ \A j \in 1..(i - 1) : SubSeq(s, 1, i - 1)[j] = s[j]
<1>0. Len(s) \in Nat /\ i \in Nat /\ 1 <= i /\ i <= Len(s)
  OBVIOUS
<1> QED BY <1>0

\* What comes after it.
LEMMA AfterPlace ==
  ASSUME NEW S, NEW s \in Seq(S), NEW i \in 1..Len(s)
  PROVE  /\ SubSeq(s, i + 1, Len(s)) \in Seq(S) /\ Len(SubSeq(s, i + 1, Len(s))) = Len(s) - i
         /\ \A j \in 1..(Len(s) - i) : SubSeq(s, i + 1, Len(s))[j] = s[j + i]
<1>0. Len(s) \in Nat /\ i \in Nat /\ 1 <= i /\ i <= Len(s)
  OBVIOUS
<1> QED BY <1>0

\* A list without a folder has the others, each once.
LEMMA WithoutFolder ==
  ASSUME NEW s \in RecentLists, NEW f
  PROVE  Without(s, f) \in RecentLists /\ ToSet(Without(s, f)) = ToSet(s) \ {f}
<1>1. /\ s \in Seq(RecentFolders) /\ Len(s) \in Nat /\ DOMAIN s = 1..Len(s)
      /\ \A i, j \in 1..Len(s) : s[i] = s[j] => i = j
  BY DEF RecentLists
<1>2. CASE ~\E i \in DOMAIN s : s[i] = f
  BY <1>2 DEF Without, ToSet
<1>3. CASE \E i \in DOMAIN s : s[i] = f
  <2> DEFINE i == CHOOSE i \in DOMAIN s : s[i] = f
             front == SubSeq(s, 1, i - 1)
             back == SubSeq(s, i + 1, Len(s))
             w == front \o back
  <2>1. i \in 1..Len(s) /\ s[i] = f
    BY <1>1, <1>3
  <2>2. Without(s, f) = w
    BY <1>3 DEF Without, RemoveAt
  <2> HIDE DEF i
  <2>0. front = SubSeq(s, 1, i - 1) /\ back = SubSeq(s, i + 1, Len(s))
    OBVIOUS
  <2> HIDE DEF front, back
  <2>3. front \in Seq(RecentFolders) /\ Len(front) = i - 1 /\ \A j \in 1..Len(front) : front[j] = s[j]
    BY <1>1, <2>0, <2>1, BeforePlace
  <2>4. back \in Seq(RecentFolders) /\ Len(back) = Len(s) - i /\ \A j \in 1..Len(back) : back[j] = s[j + i]
    <3>1. /\ SubSeq(s, i + 1, Len(s)) \in Seq(RecentFolders) /\ Len(SubSeq(s, i + 1, Len(s))) = Len(s) - i
          /\ \A j \in 1..(Len(s) - i) : SubSeq(s, i + 1, Len(s))[j] = s[j + i]
      BY <1>1, <2>1, AfterPlace
    <3> QED BY <2>0, <3>1
  <2>5. w \in Seq(RecentFolders) /\ Len(w) = Len(s) - 1
    <3>1. w \in Seq(RecentFolders) /\ Len(w) = Len(front) + Len(back)
      BY <2>3, <2>4, ConcatProperties
    <3> QED BY <1>1, <2>1, <2>3, <2>4, <3>1
  <2>6. \A j \in 1..Len(w) : w[j] = IF j < i THEN s[j] ELSE s[j + 1]
    <3>1. \A j \in 1..Len(w) : w[j] = IF j < i THEN front[j] ELSE back[j - (i - 1)]
      BY <1>1, <2>1, <2>3, <2>4, <2>5
    <3> TAKE j \in 1..Len(w)
    <3>2. CASE j < i
      BY <1>1, <2>1, <2>3, <3>1, <3>2
    <3>3. CASE ~(j < i)
      <4>1. j - (i - 1) \in 1..Len(back) /\ (j - (i - 1)) + i = j + 1
        BY <1>1, <2>1, <2>4, <2>5, <3>3
      <4> QED BY <2>4, <3>1, <3>3, <4>1
    <3> QED BY <3>2, <3>3
  <2> HIDE DEF w
  <2>7. \A j \in 1..Len(w) : /\ w[j] # f /\ w[j] \in ToSet(s)
                             /\ \A k \in 1..Len(w) : w[j] = w[k] => j = k
    <3> SUFFICES ASSUME NEW j \in 1..Len(w)
                 PROVE  w[j] # f /\ w[j] \in ToSet(s) /\ \A k \in 1..Len(w) : w[j] = w[k] => j = k
      OBVIOUS
    <3> DEFINE At(k) == IF k < i THEN k ELSE k + 1
    <3>1. \A k \in 1..Len(w) : At(k) \in 1..Len(s) /\ At(k) # i /\ w[k] = s[At(k)]
      BY <1>1, <2>1, <2>5, <2>6
    <3>2. \A k \in 1..Len(w) : At(j) = At(k) => j = k
      BY <1>1, <2>1, <2>5
    <3> HIDE DEF At
    <3> QED BY <1>1, <2>1, <3>1, <3>2 DEF ToSet
  <2>8. DOMAIN w = 1..Len(w)
    BY <2>5
  <2>9. w \in RecentLists
    BY <2>5, <2>7, <2>8 DEF RecentLists
  <2>10. ASSUME NEW x \in ToSet(s) \ {f} PROVE x \in ToSet(w)
    <3>1. PICK j \in 1..Len(s) : s[j] = x
      BY <1>1, <2>10 DEF ToSet
    <3>2. CASE j < i
      <4>1. j \in 1..Len(w) /\ w[j] = x
        BY <1>1, <2>1, <2>5, <2>6, <3>1, <3>2
      <4> QED BY <2>8, <4>1 DEF ToSet
    <3>3. CASE j > i
      <4>1. j - 1 \in 1..Len(w) /\ w[j - 1] = x
        BY <1>1, <2>1, <2>5, <2>6, <3>1, <3>3
      <4> QED BY <2>8, <4>1 DEF ToSet
    <3>4. j # i
      BY <2>1, <2>10, <3>1
    <3> QED BY <1>1, <2>1, <3>1, <3>2, <3>3, <3>4
  <2>11. ToSet(w) \subseteq ToSet(s) \ {f}
    BY <2>7, <2>8 DEF ToSet
  <2> QED BY <2>2, <2>9, <2>10, <2>11
<1> QED BY <1>2, <1>3

\* A folder that comes first has left its place.
LEMMA RecordedList ==
  ASSUME NEW s \in RecentLists, NEW f \in RecentFolders
  PROVE  /\ <<f>> \o Without(s, f) \in RecentLists
         /\ ToSet(<<f>> \o Without(s, f)) = ToSet(s) \union {f}
<1> DEFINE w == Without(s, f)
           t == <<f>> \o w
<1>1. w \in RecentLists /\ ToSet(w) = ToSet(s) \ {f}
  BY WithoutFolder
<1> HIDE DEF w
<1>2. /\ w \in Seq(RecentFolders) /\ Len(w) \in Nat /\ DOMAIN w = 1..Len(w)
      /\ \A i, j \in 1..Len(w) : w[i] = w[j] => i = j
  BY <1>1 DEF RecentLists
<1>3. t \in Seq(RecentFolders) /\ Len(t) = Len(w) + 1 /\ DOMAIN t = 1..Len(t)
  <2>1. <<f>> \in Seq(RecentFolders) /\ Len(<<f>>) = 1
    OBVIOUS
  <2> QED BY <1>2, <2>1, ConcatProperties
<1>4. t[1] = f /\ \A i \in 1..Len(w) : t[i + 1] = w[i]
  BY <1>2
<1> HIDE DEF t
<1>5. \A i \in 1..Len(t) : i # 1 => i - 1 \in 1..Len(w) /\ t[i] = w[i - 1]
  <2> SUFFICES ASSUME NEW i \in 1..Len(t), i # 1 PROVE i - 1 \in 1..Len(w) /\ t[i] = w[i - 1]
    OBVIOUS
  <2>1. i - 1 \in 1..Len(w) /\ (i - 1) + 1 = i
    BY <1>2, <1>3
  <2> QED BY <1>4, <2>1
<1>6. \A i \in 1..Len(w) : w[i] # f
  BY <1>1, <1>2 DEF ToSet
<1>7. \A i, j \in 1..Len(t) : t[i] = t[j] => i = j
  <2> SUFFICES ASSUME NEW i \in 1..Len(t), NEW j \in 1..Len(t), t[i] = t[j] PROVE i = j
    OBVIOUS
  <2>1. CASE i = 1 \/ j = 1
    BY <1>4, <1>5, <1>6, <2>1
  <2>2. CASE i # 1 /\ j # 1
    <3>1. i - 1 = j - 1
      BY <1>2, <1>5, <2>2
    <3> QED BY <1>2, <1>3, <3>1
  <2> QED BY <2>1, <2>2
<1>8. t \in RecentLists
  BY <1>3, <1>7 DEF RecentLists
<1>9. ToSet(t) = ToSet(w) \union {f}
  <2>1. ToSet(t) \subseteq ToSet(w) \union {f}
    BY <1>2, <1>3, <1>4, <1>5 DEF ToSet
  <2>2. ASSUME NEW i \in 1..Len(w) PROVE w[i] \in ToSet(t)
    <3>1. i + 1 \in 1..Len(t) /\ t[i + 1] = w[i]
      BY <1>2, <1>3, <1>4
    <3> QED BY <1>3, <3>1 DEF ToSet
  <2>3. f \in ToSet(t)
    <3>1. 1 \in 1..Len(t)
      BY <1>2, <1>3
    <3> QED BY <1>3, <1>4, <3>1 DEF ToSet
  <2> QED BY <1>2, <2>1, <2>2, <2>3 DEF ToSet
<1>10. ToSet(t) = ToSet(s) \union {f}
  BY <1>1, <1>9
<1> QED BY <1>8, <1>10 DEF t, w

\* The rows of a list are counted.
LEMMA OfferedRowsCounted ==
  ASSUME NEW s, s.list \in RecentLists, NEW f
  PROVE  OfferedRows(s, f) \in Nat
<1>1. DOMAIN s.list = 1..Len(s.list) /\ Len(s.list) \in Nat
  BY DEF RecentLists
<1>2. IsFiniteSet(1..Len(s.list))
  BY <1>1, FS_Interval
<1>3. Offered(s, f) \subseteq 1..Len(s.list)
  BY <1>1 DEF Offered
<1> QED BY <1>2, <1>3, FS_Subset, FS_CardinalityType DEF OfferedRows

(***************************************************************************)
(* The invariant                                                           *)
(***************************************************************************)

\* What is read of the catalog, and whether a removal waits for it.
ReadOfList(r) ==
  /\ r = [at |-> r.at, list |-> r.list, removal |-> r.removal] /\ r.removal \in BOOLEAN
  /\ r.at \in {"none", "sent", "served"}
  /\ r.at = "none" => r = NoListing
  /\ r.at = "served" => r.list \in RecentLists

\* The variables: what is switched to may be anything.
PickerTyped ==
  /\ recents \in RecentLists
  /\ shown = [list |-> shown.list, failed |-> shown.failed, loading |-> shown.loading]
  /\ shown.list \in RecentLists
  /\ listings = [now |-> listings.now, old |-> listings.old]
  /\ ReadOfList(listings.now) /\ ReadOfList(listings.old)
  /\ form = [open |-> form.open, all |-> form.all, query |-> form.query, active |-> form.active,
             error |-> form.error]
  /\ pick = [to |-> pick.to, action |-> pick.action]
  /\ pick.action = NoFolder
     \/ (/\ pick.action = [kind |-> pick.action.kind, folder |-> pick.action.folder, row |-> pick.action.row]
         /\ pick.action.kind \in {"new-tab", "remove", "removed", "refreshing"})
  /\ picks = [count |-> picks.count, gone |-> picks.gone]

\* The folder whose removal was answered and which is still on screen.
Leaving(f) == pick.action.kind = "removed" /\ pick.action.folder = f

\* A folder that is gone is in no list that may still be shown.
GoneIsGone ==
  \A f \in picks.gone :
    /\ f \notin ToSet(recents)
    /\ ~Leaving(f) => /\ f \notin ToSet(shown.list)
                      /\ listings.now.at = "served" => f \notin ToSet(listings.now.list)

\* One read at most is a removal's, whose row waits for it.
RemovalsRead ==
  /\ ~(listings.now.removal /\ listings.old.removal)
  /\ listings.now.removal \/ listings.old.removal => pick.action.kind = "refreshing"

\* The inductive invariant of the picker.
PickerInv ==
  /\ PickerTyped /\ GoneIsGone /\ RemovalsRead
  /\ form.active \in 0..OfferedRows(shown, form) /\ (form.open \/ form.active = 0)

\* The active row stays in the list.
LEMMA ClampedIsRow ==
  ASSUME NEW s, s.list \in RecentLists, NEW f, NEW n \in Nat, f.active \in 0..n, f.open \/ f.active = 0,
         f = [open |-> f.open, all |-> f.all, query |-> f.query, active |-> f.active, error |-> f.error],
         NEW c, c = Clamped(s, f)
  PROVE  /\ c = [open |-> c.open, all |-> c.all, query |-> c.query, active |-> c.active, error |-> c.error]
         /\ c.active \in 0..OfferedRows(s, c) /\ (c.open \/ c.active = 0)
<1> DEFINE m == OfferedRows(s, f)
           a == IF f.active > m THEN m ELSE f.active
<1>1. m \in Nat
  BY OfferedRowsCounted
<1>2. a \in 0..m /\ (f.active = 0 => a = 0)
  BY <1>1
<1>3. c = [f EXCEPT !.active = a]
  BY DEF Clamped
<1> HIDE DEF a
<1>4. c = [open |-> f.open, all |-> f.all, query |-> f.query, active |-> a, error |-> f.error]
  BY <1>3
<1>5. OfferedRows(s, c) = m
  BY <1>4 DEF OfferedRows, Offered
<1> QED BY <1>2, <1>4, <1>5

(***************************************************************************)
(* The steps                                                               *)
(***************************************************************************)

\* A folder comes first, and is not gone any more.
LEMMA RecordedKeeps ==
  ASSUME PickerInv, NEW f \in RecentFolders, Recorded(f)
  PROVE  PickerInv'
<1>1. UNCHANGED <<shown, listings, place, form, pick, rowFocus>> /\ recents' = <<f>> \o Without(recents, f)
  BY DEF Recorded
<1>2. recents' \in RecentLists /\ ToSet(recents') = ToSet(recents) \union {f}
  BY <1>1, RecordedList DEF PickerInv, PickerTyped
<1>3. picks' = [count |-> picks'.count, gone |-> picks'.gone] /\ picks'.gone = picks.gone \ {f}
  BY DEF Recorded, Counted1, PickerInv, PickerTyped
<1>4. GoneIsGone'
  BY <1>1, <1>2, <1>3 DEF PickerInv, GoneIsGone, Leaving
<1> QED BY <1>1, <1>2, <1>3, <1>4 DEF PickerInv, PickerTyped, RemovalsRead

\* A read that is started takes the place of the one before.
LEMMA SupersedingReads ==
  ASSUME PickerInv, NEW removal \in BOOLEAN, Superseding(removal)
  PROVE  /\ listings' = [now |-> listings'.now, old |-> listings'.old]
         /\ ReadOfList(listings'.now) /\ ReadOfList(listings'.old)
         /\ listings'.now.at = "sent" /\ listings'.now.removal = removal
         /\ listings'.old.removal => listings.now.removal \/ listings.old.removal
         /\ listings'.old \in {listings.now, listings.old}
<1> DEFINE now == [at |-> "sent", list |-> <<>>, removal |-> removal]
           old == IF listings.now = NoListing THEN listings.old ELSE listings.now
<1>1. listings' = [now |-> now, old |-> old] /\ old \in {listings.now, listings.old}
  BY DEF Superseding
<1>2. ReadOfList(now) /\ now.at = "sent" /\ now.removal = removal
  BY DEF ReadOfList
<1>3. ReadOfList(listings.now) /\ ReadOfList(listings.old)
  BY DEF PickerInv, PickerTyped
<1> HIDE DEF now, old
<1> QED BY <1>1, <1>2, <1>3

\* The list is read again.
LEMMA RefreshKeeps ==
  ASSUME PickerInv, RefreshFolders
  PROVE  PickerInv'
<1>1. UNCHANGED <<recents, place, form, pick, rowFocus>> /\ Superseding(FALSE)
  BY DEF RefreshFolders
<1>2. /\ listings' = [now |-> listings'.now, old |-> listings'.old]
      /\ ReadOfList(listings'.now) /\ ReadOfList(listings'.old)
      /\ listings'.now.at = "sent" /\ listings'.now.removal = FALSE
      /\ listings'.old.removal => listings.now.removal \/ listings.old.removal
  BY <1>1, SupersedingReads
<1>3. /\ shown' = [list |-> shown.list, failed |-> shown'.failed, loading |-> shown'.loading]
      /\ picks' = [count |-> picks'.count, gone |-> picks.gone]
  BY DEF RefreshFolders, Counted1, PickerInv, PickerTyped
<1>4. OfferedRows(shown, form)' = OfferedRows(shown, form)
  BY <1>1, <1>3 DEF OfferedRows, Offered
<1>5. PickerTyped'
  BY <1>1, <1>2, <1>3 DEF PickerInv, PickerTyped
<1>6. GoneIsGone' /\ RemovalsRead'
  BY <1>1, <1>2, <1>3 DEF PickerInv, GoneIsGone, RemovalsRead, Leaving
<1> QED BY <1>1, <1>4, <1>5, <1>6 DEF PickerInv

\* A read is served.
LEMMA ListReadKeeps ==
  ASSUME PickerInv, NEW i \in {"now", "old"}, ListIsRead(i)
  PROVE  PickerInv'
<1>1. UNCHANGED <<recents, shown, place, form, pick, rowFocus, picks>> /\ listings[i].at = "sent"
  BY DEF ListIsRead
<1>2. PickerTyped /\ GoneIsGone /\ RemovalsRead
  BY DEF PickerInv
<1> DEFINE r == [at |-> "served", list |-> recents, removal |-> listings[i].removal]
<1>3. listings[i] = [at |-> listings[i].at, list |-> listings[i].list, removal |-> listings[i].removal]
  BY <1>2 DEF PickerTyped, ReadOfList
<1>4. ReadOfList(r) /\ r.at = "served" /\ r.list = recents /\ r.removal = listings[i].removal
  BY <1>2 DEF PickerTyped, ReadOfList
<1> HIDE DEF r
<1>5. CASE i = "now"
  <2>1. listings' = [now |-> r, old |-> listings.old]
    BY <1>2, <1>3, <1>5 DEF ListIsRead, PickerTyped, r
  <2>2. PickerTyped'
    BY <1>1, <1>2, <1>4, <2>1 DEF PickerTyped
  <2>3. GoneIsGone' /\ RemovalsRead'
    BY <1>1, <1>2, <1>4, <1>5, <2>1 DEF GoneIsGone, RemovalsRead, Leaving
  <2> QED BY <1>1, <2>2, <2>3 DEF PickerInv
<1>6. CASE i = "old"
  <2>1. listings' = [now |-> listings.now, old |-> r]
    BY <1>2, <1>3, <1>6 DEF ListIsRead, PickerTyped, r
  <2>2. PickerTyped'
    BY <1>1, <1>2, <1>4, <2>1 DEF PickerTyped
  <2>3. GoneIsGone' /\ RemovalsRead'
    BY <1>1, <1>2, <1>4, <1>6, <2>1 DEF GoneIsGone, RemovalsRead, Leaving
  <2> QED BY <1>1, <2>2, <2>3 DEF PickerInv
<1> QED BY <1>5, <1>6

\* A removal's read ends its action.
LEMMA AfterRemovalPick ==
  ASSUME PickerInv, NEW read, read.removal \in BOOLEAN, NEW s, AfterRemoval(read, s)
  PROVE  /\ read.removal => pick' = [to |-> pick.to, action |-> NoFolder]
         /\ ~read.removal => pick' = pick
<1>1. pick = [to |-> pick.to, action |-> pick.action]
  BY DEF PickerInv, PickerTyped
<1> QED BY <1>1 DEF AfterRemoval

\* The newest read arrives, or fails.
LEMMA ListArrivesKeeps ==
  ASSUME PickerInv, NEW ok \in BOOLEAN, ListArrives(ok)
  PROVE  PickerInv'
<1> DEFINE s == IF ok THEN [list |-> listings.now.list, failed |-> FALSE, loading |-> FALSE]
                ELSE [shown EXCEPT !.failed = TRUE, !.loading = FALSE]
<1>1. UNCHANGED <<recents, place, picks>> /\ shown' = s /\ form' = Clamped(s, form)
      /\ listings.now.at = "served" /\ AfterRemoval(listings.now, s)
  BY DEF ListArrives, Lists
<1>2. PickerTyped /\ GoneIsGone /\ RemovalsRead /\ ReadOfList(listings.now)
  BY DEF PickerInv, PickerTyped
<1>3. /\ s = [list |-> s.list, failed |-> s.failed, loading |-> s.loading]
      /\ s.list = IF ok THEN listings.now.list ELSE shown.list
  BY <1>2 DEF PickerTyped
<1>4. listings' = [now |-> NoListing, old |-> listings.old]
  BY <1>2 DEF ListArrives, PickerTyped
<1> HIDE DEF s
<1>5. s.list \in RecentLists
  BY <1>1, <1>2, <1>3 DEF PickerTyped, ReadOfList
<1>6. /\ form' = [open |-> form'.open, all |-> form'.all, query |-> form'.query, active |-> form'.active,
                  error |-> form'.error]
      /\ form'.active \in 0..OfferedRows(s, form') /\ (form'.open \/ form'.active = 0)
  <2>1. OfferedRows(shown, form) \in Nat
    BY <1>2, OfferedRowsCounted DEF PickerTyped
  <2> QED BY <1>1, <1>2, <1>5, <2>1, ClampedIsRow DEF PickerInv, PickerTyped
<1>7. /\ listings.now.removal => pick' = [to |-> pick.to, action |-> NoFolder]
      /\ ~listings.now.removal => pick' = pick
  BY <1>1, <1>2, AfterRemovalPick DEF ReadOfList
<1>8. ReadOfList(NoListing) /\ NoListing.at = "none" /\ ~NoListing.removal
  BY DEF NoListing, ReadOfList
<1>9. PickerTyped'
  <2>1. pick' = [to |-> pick'.to, action |-> pick'.action] /\ (pick'.action = NoFolder \/ pick' = pick)
    BY <1>2, <1>7 DEF PickerTyped
  <2>2. \/ pick'.action = NoFolder
        \/ /\ pick'.action = [kind |-> pick'.action.kind, folder |-> pick'.action.folder, row |-> pick'.action.row]
           /\ pick'.action.kind \in {"new-tab", "remove", "removed", "refreshing"}
    BY <1>2, <2>1 DEF PickerTyped
  <2> QED BY <1>1, <1>2, <1>3, <1>4, <1>5, <1>6, <1>8, <2>1, <2>2 DEF PickerTyped
<1>10. \A f : Leaving(f) => Leaving(f)'
  BY <1>2, <1>7 DEF Leaving, RemovalsRead
<1>11. GoneIsGone'
  BY <1>1, <1>2, <1>3, <1>4, <1>7, <1>8, <1>10 DEF GoneIsGone, Leaving, RemovalsRead
<1>12. RemovalsRead'
  BY <1>2, <1>4, <1>7, <1>8 DEF RemovalsRead
<1> QED BY <1>1, <1>6, <1>9, <1>11, <1>12 DEF PickerInv

\* A read that was superseded arrives: it may be a removal's.
LEMMA SupersededArrivesKeeps ==
  ASSUME PickerInv, SupersededListArrives
  PROVE  PickerInv'
<1>1. UNCHANGED <<recents, shown, place, form, picks>> /\ AfterRemoval(listings.old, shown)
  BY DEF SupersededListArrives
<1>2. PickerTyped /\ GoneIsGone /\ RemovalsRead /\ ReadOfList(listings.old)
  BY DEF PickerInv, PickerTyped
<1>3. listings' = [now |-> listings.now, old |-> NoListing]
  BY <1>2 DEF SupersededListArrives, PickerTyped
<1>4. /\ listings.old.removal => pick' = [to |-> pick.to, action |-> NoFolder]
      /\ ~listings.old.removal => pick' = pick
  BY <1>1, <1>2, AfterRemovalPick DEF ReadOfList
<1>5. ReadOfList(NoListing) /\ NoListing.at = "none" /\ ~NoListing.removal
  BY DEF NoListing, ReadOfList
<1>6. PickerTyped'
  <2>1. pick' = [to |-> pick'.to, action |-> pick'.action] /\ (pick'.action = NoFolder \/ pick' = pick)
    BY <1>2, <1>4 DEF PickerTyped
  <2>2. \/ pick'.action = NoFolder
        \/ /\ pick'.action = [kind |-> pick'.action.kind, folder |-> pick'.action.folder, row |-> pick'.action.row]
           /\ pick'.action.kind \in {"new-tab", "remove", "removed", "refreshing"}
    BY <1>2, <2>1 DEF PickerTyped
  <2> QED BY <1>1, <1>2, <1>3, <1>5, <2>1, <2>2 DEF PickerTyped
<1>7. \A f : Leaving(f) => Leaving(f)'
  BY <1>2, <1>4 DEF Leaving, RemovalsRead
<1>8. GoneIsGone'
  BY <1>1, <1>2, <1>3, <1>7 DEF GoneIsGone
<1>9. RemovalsRead'
  BY <1>2, <1>3, <1>4, <1>5 DEF RemovalsRead
<1> QED BY <1>1, <1>6, <1>8, <1>9 DEF PickerInv

\* What the forms do leaves the lists and their reads alone.
FormsOnly == UNCHANGED <<recents, shown, listings>> /\ picks' = [count |-> picks'.count, gone |-> picks.gone]

\* A form that is as it must be.
FormStands(f) ==
  /\ f = [open |-> f.open, all |-> f.all, query |-> f.query, active |-> f.active, error |-> f.error]
  /\ f.active \in 0..OfferedRows(shown, f) /\ (f.open \/ f.active = 0)

\* A step of the forms keeps the invariant when it leaves such a form.
LEMMA FormsStand ==
  ASSUME PickerInv, FormsOnly, FormStands(form'), UNCHANGED pick
  PROVE  PickerInv'
<1>1. PickerTyped'
  BY DEF PickerInv, PickerTyped, FormsOnly, FormStands
<1>2. GoneIsGone' /\ RemovalsRead'
  BY DEF PickerInv, GoneIsGone, RemovalsRead, Leaving, FormsOnly
<1>3. form'.active \in 0..OfferedRows(shown', form') /\ (form'.open \/ form'.active = 0)
  BY DEF FormsOnly, FormStands
<1> QED BY <1>1, <1>2, <1>3 DEF PickerInv

\* So does one that changes what is switched to, or the action of a row, unless
\* the action is that of a removal that was answered.
LEMMA PicksStand ==
  ASSUME PickerInv, FormsOnly, FormStands(form'), pick' = [to |-> pick'.to, action |-> pick'.action],
         pick'.action = pick.action \/
         (/\ pick.action.kind \notin {"removed", "refreshing"}
          /\ pick'.action = NoFolder
             \/ (/\ pick'.action = [kind |-> pick'.action.kind, folder |-> pick'.action.folder,
                                    row |-> pick'.action.row]
                 /\ pick'.action.kind \in {"new-tab", "remove"}))
  PROVE  PickerInv'
<1>1. PickerTyped'
  BY DEF PickerInv, PickerTyped, FormsOnly, FormStands
<1>2. \A f : Leaving(f) => Leaving(f)'
  BY DEF Leaving
<1>3. GoneIsGone'
  BY <1>2 DEF PickerInv, GoneIsGone, FormsOnly
<1>4. RemovalsRead'
  BY DEF PickerInv, RemovalsRead, FormsOnly
<1>5. form'.active \in 0..OfferedRows(shown', form') /\ (form'.open \/ form'.active = 0)
  BY DEF FormsOnly, FormStands
<1> QED BY <1>1, <1>3, <1>4, <1>5 DEF PickerInv

\* The counts of a step.
LEMMA CountsOnly ==
  ASSUME PickerInv, UNCHANGED <<recents, shown, listings>>, picks' = Counted1 \/ picks' = picks
  PROVE  FormsOnly
BY DEF FormsOnly, Counted1, PickerInv, PickerTyped

\* No row is highlighted in a form that is left.
LEMMA NoActiveRow ==
  ASSUME PickerInv, NEW f, f.active = 0,
         f = [open |-> f.open, all |-> f.all, query |-> f.query, active |-> f.active, error |-> f.error]
  PROVE  FormStands(f)
<1>1. OfferedRows(shown, f) \in Nat
  BY OfferedRowsCounted DEF PickerInv, PickerTyped
<1> QED BY <1>1 DEF FormStands

\* The other list is mounted.
LEMMA GoToKeeps ==
  ASSUME PickerInv, NEW p, GoTo(p)
  PROVE  PickerInv'
<1>1. FormsOnly /\ UNCHANGED pick /\ form' = Quiet
  BY CountsOnly DEF GoTo
<1>2. FormStands(form')
  BY <1>1, NoActiveRow DEF Quiet
<1> QED BY <1>1, <1>2, FormsStand

\* The form is focused: no row is highlighted yet.
LEMMA FocusKeeps ==
  ASSUME PickerInv, FocusForm
  PROVE  PickerInv'
<1>1. FormsOnly /\ UNCHANGED pick
  BY CountsOnly DEF FocusForm
<1>2. form.active = 0 /\ form' = [form EXCEPT !.open = TRUE, !.all = form.query = {}]
  BY DEF FocusForm, PickerInv
<1>3. form' = [open |-> TRUE, all |-> (form.query = {}), query |-> form.query, active |-> form.active,
               error |-> form.error]
  BY <1>2 DEF PickerInv, PickerTyped
<1>4. FormStands(form')
  BY <1>2, <1>3, NoActiveRow
<1> QED BY <1>1, <1>4, FormsStand

\* A query is typed.
LEMMA TypeFolderKeeps ==
  ASSUME PickerInv, NEW q, TypeFolder(q)
  PROVE  PickerInv'
<1>1. FormsOnly /\ UNCHANGED pick
  BY CountsOnly DEF TypeFolder
<1>2. form' = [open |-> TRUE, all |-> FALSE, query |-> q, active |-> 0, error |-> FALSE]
  BY DEF TypeFolder
<1>3. FormStands(form')
  BY <1>2, NoActiveRow
<1> QED BY <1>1, <1>3, FormsStand

\* The remainder of a division is less than the divisor.
LEMMA RemainderIsLess ==
  ASSUME NEW a \in Nat, NEW n \in Nat, n > 0
  PROVE  (a % n) + 1 \in 1..n
OBVIOUS

\* An arrow key highlights a row of the list.
LEMMA ArrowKeeps ==
  ASSUME PickerInv, NEW d \in {-1, 1}, Arrow(d)
  PROVE  PickerInv'
<1> DEFINE n == OfferedRows(shown, form)
           a == IF form.active = 0 THEN (IF d = 1 THEN 1 ELSE n)
                ELSE ((form.active - 1 + d + n) % n) + 1
<1>1. FormsOnly /\ UNCHANGED pick
  BY CountsOnly DEF Arrow
<1>2. n \in Nat /\ n > 0 /\ form.active \in 0..n
  BY OfferedRowsCounted DEF PickerInv, PickerTyped, Arrow
<1>3. a \in 1..n
  <2>1. CASE form.active = 0
    BY <1>2, <2>1
  <2>2. CASE form.active # 0
    <3>1. form.active - 1 + d + n \in Nat
      BY <1>2, <2>2
    <3>2. ((form.active - 1 + d + n) % n) + 1 \in 1..n
      BY <1>2, <3>1, RemainderIsLess
    <3> QED BY <2>2, <3>2
  <2> QED BY <2>1, <2>2
<1>4. form' = [form EXCEPT !.open = TRUE, !.active = a]
  BY DEF Arrow
<1> HIDE DEF a
<1>5. form' = [open |-> TRUE, all |-> form.all, query |-> form.query, active |-> a, error |-> form.error]
  BY <1>4 DEF PickerInv, PickerTyped
<1>6. OfferedRows(shown, form') = n
  BY <1>5 DEF OfferedRows, Offered
<1> HIDE DEF n
<1>7. FormStands(form')
  BY <1>2, <1>3, <1>5, <1>6 DEF FormStands
<1> QED BY <1>1, <1>7, FormsStand

\* The form is left.
LEMMA LeaveKeeps ==
  ASSUME PickerInv, LeaveForm
  PROVE  PickerInv'
<1>1. FormsOnly /\ UNCHANGED pick /\ form' = Quiet
  BY CountsOnly DEF LeaveForm
<1>2. FormStands(form')
  BY <1>1, NoActiveRow DEF Quiet
<1> QED BY <1>1, <1>2, FormsStand

\* A folder is switched to.
LEMMA SwitchKeeps ==
  ASSUME PickerInv, NEW i, SwitchFolder(i)
  PROVE  PickerInv'
<1>1. FormsOnly /\ form' = [form EXCEPT !.error = FALSE, !.open = FALSE, !.active = 0]
  BY CountsOnly DEF SwitchFolder
<1>2. form' = [open |-> FALSE, all |-> form.all, query |-> form.query, active |-> 0, error |-> FALSE]
  BY <1>1 DEF PickerInv, PickerTyped
<1>3. FormStands(form')
  BY <1>2, NoActiveRow
<1>4. pick' = [to |-> pick'.to, action |-> pick'.action] /\ pick'.action = pick.action
  BY DEF SwitchFolder, PickerInv, PickerTyped
<1> QED BY <1>1, <1>3, <1>4, PicksStand

\* The switch ends, or fails.
LEMMA SwitchEndsKeeps ==
  ASSUME PickerInv, NEW ok, SwitchEnds(ok)
  PROVE  PickerInv'
<1>1. FormsOnly /\ form' = [form EXCEPT !.error = ~ok]
  BY CountsOnly DEF SwitchEnds
<1>2. form' = [open |-> form.open, all |-> form.all, query |-> form.query, active |-> form.active,
               error |-> ~ok]
  BY <1>1 DEF PickerInv, PickerTyped
<1>3. OfferedRows(shown, form') = OfferedRows(shown, form)
  BY <1>2 DEF OfferedRows, Offered
<1>4. FormStands(form')
  BY <1>2, <1>3 DEF FormStands, PickerInv
<1>5. pick' = [to |-> pick'.to, action |-> pick'.action] /\ pick'.action = pick.action
  BY DEF SwitchEnds, PickerInv, PickerTyped
<1> QED BY <1>1, <1>4, <1>5, PicksStand

\* The form stands as it is.
LEMMA FormAsItIs ==
  ASSUME PickerInv, UNCHANGED form
  PROVE  FormStands(form')
BY DEF PickerInv, PickerTyped, FormStands

\* An action of a row is started.
LEMMA RunActionKeeps ==
  ASSUME PickerInv, NEW kind \in {"remove", "new-tab"}, NEW i, RunFolderAction(kind, i)
  PROVE  PickerInv'
<1>1. FormsOnly /\ FormStands(form')
  BY CountsOnly, FormAsItIs DEF RunFolderAction
<1>2. pick.action.kind \notin {"removed", "refreshing"}
  BY DEF RunFolderAction, NoFolder
<1> DEFINE a == [kind |-> kind, folder |-> FolderAt(shown, form, i), row |-> i]
<1>3. pick' = [to |-> pick.to, action |-> a]
  BY DEF RunFolderAction, PickerInv, PickerTyped
<1>4. a = [kind |-> a.kind, folder |-> a.folder, row |-> a.row] /\ a.kind \in {"new-tab", "remove"}
  OBVIOUS
<1> HIDE DEF a
<1> QED BY <1>1, <1>2, <1>3, <1>4, PicksStand

\* An action fails, or a new tab opens.
LEMMA ActionEndsKeeps ==
  ASSUME PickerInv, FolderActionFails \/ NewTabOpens
  PROVE  PickerInv'
<1>1. FormsOnly /\ pick.action.kind \in {"remove", "new-tab"}
  BY CountsOnly DEF FolderActionFails, NewTabOpens
<1>2. FormStands(form')
  <2>1. CASE FolderActionFails
    <3>1. form' = [open |-> form.open, all |-> form.all, query |-> form.query, active |-> form.active,
                   error |-> TRUE]
      BY <2>1 DEF FolderActionFails, PickerInv, PickerTyped
    <3>2. OfferedRows(shown, form') = OfferedRows(shown, form)
      BY <3>1 DEF OfferedRows, Offered
    <3> QED BY <3>1, <3>2 DEF FormStands, PickerInv
  <2>2. CASE NewTabOpens
    BY <2>2, FormAsItIs DEF NewTabOpens
  <2> QED BY <2>1, <2>2
<1>3. pick' = [to |-> pick.to, action |-> NoFolder]
  BY DEF FolderActionFails, NewTabOpens, PickerInv, PickerTyped
<1> QED BY <1>1, <1>2, <1>3, PicksStand

\* A removal is served: its folder is gone, and is on screen until the answer.
LEMMA RemovalServedKeeps ==
  ASSUME PickerInv, RemovalIsServed
  PROVE  PickerInv'
<1>1. UNCHANGED <<shown, listings, place, form, rowFocus>> /\ pick.action.kind = "remove"
      /\ recents' = Without(recents, pick.action.folder)
  BY DEF RemovalIsServed
<1>2. PickerTyped /\ GoneIsGone /\ RemovalsRead
  BY DEF PickerInv
<1>3. pick.action = [kind |-> "remove", folder |-> pick.action.folder, row |-> pick.action.row]
  BY <1>1, <1>2 DEF PickerTyped, NoFolder
<1>4. recents' \in RecentLists /\ ToSet(recents') = ToSet(recents) \ {pick.action.folder}
  BY <1>1, <1>2, WithoutFolder DEF PickerTyped
<1> DEFINE a == [kind |-> "removed", folder |-> pick.action.folder, row |-> pick.action.row]
<1>5. pick' = [to |-> pick.to, action |-> a]
  <2>1. pick' = [pick EXCEPT !.action = [pick.action EXCEPT !.kind = "removed"]]
    BY DEF RemovalIsServed
  <2>2. [pick.action EXCEPT !.kind = "removed"] = a
    BY <1>3
  <2> HIDE DEF a
  <2> QED BY <1>2, <2>1, <2>2 DEF PickerTyped
<1>6. /\ a = [kind |-> a.kind, folder |-> a.folder, row |-> a.row]
      /\ a.kind = "removed" /\ a.folder = pick.action.folder
  OBVIOUS
<1> HIDE DEF a
<1>7. picks' = [count |-> picks.count, gone |-> picks.gone \union {pick.action.folder}]
  BY <1>2 DEF RemovalIsServed, PickerTyped
<1>8. PickerTyped'
  BY <1>1, <1>2, <1>4, <1>5, <1>6, <1>7 DEF PickerTyped
<1>9. GoneIsGone'
  <2> SUFFICES ASSUME NEW f \in picks'.gone
               PROVE  /\ f \notin ToSet(recents')
                      /\ ~Leaving(f)' => /\ f \notin ToSet(shown.list)
                                         /\ listings.now.at = "served" => f \notin ToSet(listings.now.list)
    BY <1>1 DEF GoneIsGone
  <2>1. CASE f = pick.action.folder
    BY <1>4, <1>5, <1>6, <2>1 DEF Leaving
  <2>2. CASE f # pick.action.folder
    BY <1>1, <1>2, <1>4, <1>7, <2>2 DEF GoneIsGone, Leaving
  <2> QED BY <2>1, <2>2
<1>10. RemovalsRead'
  BY <1>1, <1>2 DEF RemovalsRead
<1> QED BY <1>1, <1>8, <1>9, <1>10 DEF PickerInv

\* The answer to a removal arrives: the folder leaves the list, which is read again.
LEMMA RemovalArrivesKeeps ==
  ASSUME PickerInv, RemovalArrives
  PROVE  PickerInv'
<1> DEFINE s == [list |-> Without(shown.list, pick.action.folder), failed |-> FALSE, loading |-> TRUE]
<1>1. UNCHANGED <<recents, place, rowFocus, picks>> /\ pick.action.kind = "removed"
      /\ shown' = s /\ form' = Clamped(s, form) /\ Superseding(TRUE)
  BY DEF RemovalArrives, Lists
<1>2. PickerTyped /\ GoneIsGone /\ RemovalsRead
  BY DEF PickerInv
<1>3. pick.action = [kind |-> "removed", folder |-> pick.action.folder, row |-> pick.action.row]
  BY <1>1, <1>2 DEF PickerTyped, NoFolder
<1>4. s.list \in RecentLists /\ ToSet(s.list) = ToSet(shown.list) \ {pick.action.folder}
  BY <1>2, WithoutFolder DEF PickerTyped
<1>5. s = [list |-> s.list, failed |-> s.failed, loading |-> s.loading]
  OBVIOUS
<1> HIDE DEF s
<1>6. /\ form' = [open |-> form'.open, all |-> form'.all, query |-> form'.query, active |-> form'.active,
                  error |-> form'.error]
      /\ form'.active \in 0..OfferedRows(s, form') /\ (form'.open \/ form'.active = 0)
  <2>1. OfferedRows(shown, form) \in Nat
    BY <1>2, OfferedRowsCounted DEF PickerTyped
  <2> QED BY <1>1, <1>2, <1>4, <2>1, ClampedIsRow DEF PickerInv, PickerTyped
<1> DEFINE a == [kind |-> "refreshing", folder |-> pick.action.folder, row |-> pick.action.row]
<1>7. pick' = [to |-> pick.to, action |-> a]
  <2>1. pick' = [pick EXCEPT !.action = [pick.action EXCEPT !.kind = "refreshing"]]
    BY DEF RemovalArrives
  <2>2. [pick.action EXCEPT !.kind = "refreshing"] = a
    BY <1>3
  <2> HIDE DEF a
  <2> QED BY <1>2, <2>1, <2>2 DEF PickerTyped
<1>8. /\ a = [kind |-> a.kind, folder |-> a.folder, row |-> a.row]
      /\ a.kind = "refreshing" /\ a.folder = pick.action.folder
  OBVIOUS
<1> HIDE DEF a
<1>9. /\ listings' = [now |-> listings'.now, old |-> listings'.old]
      /\ ReadOfList(listings'.now) /\ ReadOfList(listings'.old)
      /\ listings'.now.at = "sent"
      /\ listings'.old.removal => listings.now.removal \/ listings.old.removal
  BY <1>1, SupersedingReads
<1>10. PickerTyped'
  BY <1>1, <1>2, <1>4, <1>5, <1>6, <1>7, <1>8, <1>9 DEF PickerTyped
<1>11. GoneIsGone'
  <2> SUFFICES ASSUME NEW f \in picks.gone
               PROVE  f \notin ToSet(recents) /\ f \notin ToSet(s.list)
    BY <1>1, <1>9 DEF GoneIsGone
  <2>1. CASE f = pick.action.folder
    BY <1>2, <1>4, <2>1 DEF GoneIsGone
  <2>2. CASE f # pick.action.folder
    BY <1>2, <1>4, <2>2 DEF GoneIsGone, Leaving
  <2> QED BY <2>1, <2>2
<1>12. RemovalsRead'
  BY <1>1, <1>2, <1>7, <1>8, <1>9 DEF RemovalsRead
<1> QED BY <1>1, <1>6, <1>10, <1>11, <1>12 DEF PickerInv

\* The list is on its way at first.
LEMMA PickerInits ==
  ASSUME PickerInit
  PROVE  PickerInv
<1>1. FirstRecents \in RecentLists /\ <<>> \in RecentLists
  BY PickerAssumption DEF RecentLists
<1>2. /\ shown = [list |-> <<>>, failed |-> FALSE, loading |-> TRUE]
      /\ listings = [now |-> [at |-> "sent", list |-> <<>>, removal |-> FALSE], old |-> NoListing]
      /\ pick = [to |-> NoFolder, action |-> NoFolder] /\ picks = [count |-> 0, gone |-> {}]
      /\ recents = FirstRecents /\ form = Quiet
  BY DEF PickerInit, NoListing
<1>3. OfferedRows(shown, form) \in Nat
  BY <1>1, <1>2, OfferedRowsCounted
<1>4. PickerTyped
  BY <1>1, <1>2 DEF PickerTyped, ReadOfList, NoListing, Quiet
<1>5. GoneIsGone /\ RemovalsRead
  BY <1>2 DEF GoneIsGone, RemovalsRead, NoListing
<1>6. form.active = 0
  BY <1>2 DEF Quiet
<1> QED BY <1>3, <1>4, <1>5, <1>6 DEF PickerInv

\* Every step of the picker keeps its invariant.
LEMMA PickerSteps ==
  ASSUME PickerInv, [PickerNext]_pickerVars
  PROVE  PickerInv'
<1>1. CASE RefreshFolders
  BY <1>1, RefreshKeeps
<1>2. CASE SupersededListArrives
  BY <1>2, SupersededArrivesKeeps
<1>3. CASE FocusForm
  BY <1>3, FocusKeeps
<1>4. CASE LeaveForm
  BY <1>4, LeaveKeeps
<1>5. CASE RemovalIsServed
  BY <1>5, RemovalServedKeeps
<1>6. CASE RemovalArrives
  BY <1>6, RemovalArrivesKeeps
<1>7. CASE FolderActionFails \/ NewTabOpens
  BY <1>7, ActionEndsKeeps
<1>8. CASE \E f \in RecentFolders : Recorded(f)
  BY <1>8, RecordedKeeps
<1>9. CASE \E i \in {"now", "old"} : ListIsRead(i)
  BY <1>9, ListReadKeeps
<1>10. CASE \E ok \in BOOLEAN : ListArrives(ok)
  BY <1>10, ListArrivesKeeps
<1>11. CASE \E ok \in BOOLEAN : SwitchEnds(ok)
  BY <1>11, SwitchEndsKeeps
<1>12. CASE \E p \in {"home", "header"} : GoTo(p)
  BY <1>12, GoToKeeps
<1>13. CASE \E q \in SUBSET RecentFolders : TypeFolder(q)
  BY <1>13, TypeFolderKeeps
<1>14. CASE \E d \in {-1, 1} : Arrow(d)
  BY <1>14, ArrowKeeps
<1>15. CASE \E i \in 1..Cardinality(RecentFolders) : SwitchFolder(i)
  BY <1>15, SwitchKeeps
<1>16. CASE \E i \in 1..Cardinality(RecentFolders) : \E kind \in {"remove", "new-tab"} : RunFolderAction(kind, i)
  BY <1>16, RunActionKeeps
<1>17. CASE UNCHANGED pickerVars
  BY <1>17 DEF pickerVars, PickerInv, PickerTyped, GoneIsGone, RemovalsRead, Leaving, OfferedRows, Offered
<1> QED BY <1>1, <1>2, <1>3, <1>4, <1>5, <1>6, <1>7, <1>8, <1>9, <1>10, <1>11, <1>12, <1>13, <1>14, <1>15,
           <1>16, <1>17 DEF PickerNext

\* A folder that was removed is not listed again, and the highlighted row is one
\* of the list's.
LEMMA PickerImplies ==
  ASSUME PickerInv
  PROVE  RemovedIsNotListed
BY DEF PickerInv, GoneIsGone, Leaving, RemovedIsNotListed

(***************************************************************************)
(* GraphPane                                                               *)
(***************************************************************************)

\* The section's record; reveals are numbered.
PaneTyped(p) ==
  /\ p = [mounted |-> p.mounted, open |-> p.open, rows |-> p.rows, active |-> p.active,
          armed |-> p.armed, lastVisible |-> p.lastVisible, pins |-> p.pins,
          reveal |-> p.reveal, revealed |-> p.revealed]
  /\ p.reveal = [id |-> p.reveal.id, oid |-> p.reveal.oid]
  /\ p.reveal.id \in Nat /\ p.revealed \in Nat

\* The invariant of the section.
PaneInv == PaneTyped(pane)

\* From p to q the tab stop stays on its commit, unless its row is gone or another
\* commit is revealed.
Keeps(p, q) ==
  /\ p.mounted /\ q.mounted /\ q.rows # p.rows /\ q.revealed = p.revealed
  /\ p.active \in DOMAIN p.rows /\ p.rows[p.active] \in ToSet(q.rows)
  => q.rows[q.active] = p.rows[p.active]

\* A commit that is held is in its row.
LEMMA RowOfHeld ==
  ASSUME NEW rows, NEW oid, Holds(rows, oid)
  PROVE  rows[RowOf(rows, oid)] = oid
BY DEF Holds, RowOf, ToSet

\* New rows leave the tab stop on its commit.
LEMMA FollowedKeeps ==
  ASSUME NEW p, NEW rows, p.active \in DOMAIN p.rows, p.rows[p.active] \in ToSet(rows)
  PROVE  rows[Followed(p, rows)] = p.rows[p.active]
BY RowOfHeld DEF Followed, Holds

\* A reveal is followed, or nothing is done: one that is followed was not before.
LEMMA Reveals ==
  ASSUME NEW p, PaneTyped(p), NEW g, NEW q, q = Revealing(p, g)
  PROVE  /\ PaneTyped(q) /\ q.mounted = p.mounted /\ q.rows = p.rows
         /\ q = p \/ q.revealed # p.revealed
<1>1. CASE Shows(p, g) /\ Holds(g.commits, p.reveal.oid)
  <2> DEFINE i == RowOf(g.commits, p.reveal.oid)
  <2>1. q = [p EXCEPT !.revealed = p.reveal.id, !.armed = FALSE, !.active = i]
    BY <1>1 DEF Revealing
  <2> HIDE DEF i
  <2>2. q = [mounted |-> p.mounted, open |-> p.open, rows |-> p.rows, active |-> i,
             armed |-> FALSE, lastVisible |-> p.lastVisible, pins |-> p.pins,
             reveal |-> p.reveal, revealed |-> p.reveal.id]
    BY <2>1 DEF PaneTyped
  <2>3. p.reveal.id # p.revealed
    BY <1>1 DEF Shows, PaneTyped
  <2> QED BY <2>2, <2>3 DEF PaneTyped
<1>2. CASE ~(Shows(p, g) /\ Holds(g.commits, p.reveal.oid))
  BY <1>2 DEF Revealing
<1> QED BY <1>1, <1>2

\* A rendering keeps the tab stop on its commit.
LEMMA RenderedKeeps ==
  ASSUME NEW p, PaneTyped(p), NEW g, NEW q, q = Rendered(p, g)
  PROVE  PaneTyped(q) /\ Keeps(p, q)
<1>1. CASE ~p.mounted
  BY <1>1 DEF Rendered, Keeps
<1>2. CASE p.mounted
  <2> DEFINE a == Followed(p, g.commits)
             r == IF g.commits = p.rows THEN p ELSE [p EXCEPT !.active = a, !.rows = g.commits]
  <2>1. q = Revealing(r, g)
    BY <1>2 DEF Rendered
  <2>2. PaneTyped(r) /\ r.revealed = p.revealed /\ Keeps(p, r)
    <3>1. CASE g.commits = p.rows
      BY <3>1 DEF Keeps
    <3>2. CASE g.commits # p.rows
      <4>1. r = [p EXCEPT !.active = a, !.rows = g.commits]
        BY <3>2
      <4>2. p.active \in DOMAIN p.rows /\ p.rows[p.active] \in ToSet(g.commits)
            => g.commits[a] = p.rows[p.active]
        BY FollowedKeeps
      <4> HIDE DEF a, r
      <4>3. r = [mounted |-> p.mounted, open |-> p.open, rows |-> g.commits, active |-> a,
                 armed |-> p.armed, lastVisible |-> p.lastVisible, pins |-> p.pins,
                 reveal |-> p.reveal, revealed |-> p.revealed]
        BY <4>1 DEF PaneTyped
      <4>4. PaneTyped(r) /\ r.revealed = p.revealed /\ r.rows = g.commits /\ r.active = a
        BY <4>3 DEF PaneTyped
      <4> QED BY <4>2, <4>4 DEF Keeps
    <3> QED BY <3>1, <3>2
  <2> HIDE DEF r
  <2>3. PaneTyped(q) /\ q.mounted = r.mounted /\ q.rows = r.rows /\ (q = r \/ q.revealed # r.revealed)
    BY <2>1, <2>2, Reveals
  <2> QED BY <2>2, <2>3 DEF Keeps
<1> QED BY <1>1, <1>2

\* So does a rendering of a section that differs from p in nothing that matters here,
\* and a change after it to what does not.
LEMMA LikeKeeps ==
  ASSUME NEW p, NEW like, PaneTyped(like), NEW g, NEW q, NEW after, PaneTyped(after),
         like.mounted = p.mounted, like.rows = p.rows, like.active = p.active,
         like.revealed = p.revealed, q = Rendered(like, g),
         after.mounted = q.mounted, after.rows = q.rows, after.active = q.active,
         after.revealed = q.revealed
  PROVE  Keeps(p, after)
<1>1. Keeps(like, q)
  BY RenderedKeeps
<1> QED BY <1>1 DEF Keeps

\* Nothing moves when no row does.
LEMMA SameRowsKeep ==
  ASSUME NEW p, NEW q, q.rows = p.rows
  PROVE  Keeps(p, q)
BY DEF Keeps

\* The store's graph moves, or the repository is gone.
LEMMA StoreKeeps ==
  ASSUME PaneInv, StoreMoves \/ StoreClears \/ RevealLoads \/ ContinueLoads
  PROVE  PaneInv' /\ Keeps(pane, pane')
<1>1. CASE StoreMoves \/ RevealLoads
  BY <1>1, RenderedKeeps DEF StoreMoves, RevealLoads, Renders, PaneInv
<1>2. CASE StoreClears
  <2> DEFINE like == [mounted |-> pane.mounted, open |-> pane.open, rows |-> pane.rows,
                      active |-> pane.active, armed |-> pane.armed,
                      lastVisible |-> pane.lastVisible, pins |-> pane.pins,
                      reveal |-> [id |-> pane.reveal.id, oid |-> 0], revealed |-> pane.revealed]
  <2>1. [pane EXCEPT !.reveal.oid = 0] = like
    BY DEF PaneInv, PaneTyped
  <2>2. pane' = Rendered(like, graph')
    BY <1>2, <2>1 DEF StoreClears
  <2>3. PaneTyped(like)
    BY DEF PaneInv, PaneTyped
  <2>4. /\ like.mounted = pane.mounted /\ like.rows = pane.rows /\ like.active = pane.active
        /\ like.revealed = pane.revealed
    OBVIOUS
  <2> HIDE DEF like
  <2>5. PaneTyped(pane')
    BY <2>2, <2>3, RenderedKeeps
  <2> QED BY <2>2, <2>3, <2>4, <2>5, LikeKeeps DEF PaneInv
<1>3. CASE ContinueLoads
  <2> DEFINE q == Rendered(pane, graph')
  <2>1. pane' = [q EXCEPT !.armed = FALSE]
    BY <1>3 DEF ContinueLoads
  <2>2. PaneTyped(q)
    BY RenderedKeeps DEF PaneInv
  <2>3. q = Rendered(pane, graph')
    OBVIOUS
  <2> HIDE DEF q
  <2>4. pane' = [mounted |-> q.mounted, open |-> q.open, rows |-> q.rows, active |-> q.active,
                 armed |-> FALSE, lastVisible |-> q.lastVisible, pins |-> q.pins,
                 reveal |-> q.reveal, revealed |-> q.revealed]
    BY <2>1, <2>2 DEF PaneTyped
  <2>5. PaneTyped(pane') /\ pane'.mounted = q.mounted /\ pane'.rows = q.rows
        /\ pane'.active = q.active /\ pane'.revealed = q.revealed
    BY <2>2, <2>4 DEF PaneTyped
  <2> QED BY <2>3, <2>5, LikeKeeps DEF PaneInv
<1> QED BY <1>1, <1>2, <1>3

\* A commit of the search opens and is to be revealed.
LEMMA CommitOpensKeeps ==
  ASSUME PaneInv, NEW o, CommitOpens(o)
  PROVE  PaneInv' /\ Keeps(pane, pane')
<1>1. CASE o.epoch # details.epoch
  BY <1>1, SameRowsKeep DEF CommitOpens, PaneInv
<1>2. CASE o.epoch = details.epoch
  <2> DEFINE asked == [id |-> pane.reveal.id + 1, oid |-> o.oid]
             like == [mounted |-> pane.mounted, open |-> pane.mounted, rows |-> pane.rows,
                      active |-> pane.active, armed |-> pane.armed,
                      lastVisible |-> pane.lastVisible, pins |-> pane.pins,
                      reveal |-> asked, revealed |-> pane.revealed]
  <2>0. asked = [id |-> asked.id, oid |-> asked.oid] /\ asked.id \in Nat
    BY DEF PaneInv, PaneTyped
  <2>1. pane' = Rendered([pane EXCEPT !.reveal = asked, !.open = pane.mounted], graph')
    BY <1>2 DEF CommitOpens
  <2> HIDE DEF asked
  <2>2. [pane EXCEPT !.reveal = asked, !.open = pane.mounted] = like
    <3> DEFINE first == [pane EXCEPT !.reveal = asked]
    <3>1. first = [mounted |-> pane.mounted, open |-> pane.open, rows |-> pane.rows,
                   active |-> pane.active, armed |-> pane.armed,
                   lastVisible |-> pane.lastVisible, pins |-> pane.pins,
                   reveal |-> asked, revealed |-> pane.revealed]
      BY DEF PaneInv, PaneTyped
    <3>2. [pane EXCEPT !.reveal = asked, !.open = pane.mounted] = [first EXCEPT !.open = pane.mounted]
      OBVIOUS
    <3> HIDE DEF first
    <3> QED BY <3>1, <3>2
  <2>3. PaneTyped(like)
    BY <2>0 DEF PaneInv, PaneTyped
  <2>4. /\ like.mounted = pane.mounted /\ like.rows = pane.rows /\ like.active = pane.active
        /\ like.revealed = pane.revealed
    OBVIOUS
  <2> HIDE DEF like
  <2>5. pane' = Rendered(like, graph')
    BY <2>1, <2>2
  <2>6. PaneTyped(pane')
    BY <2>3, <2>5, RenderedKeeps
  <2> QED BY <2>3, <2>4, <2>5, <2>6, LikeKeeps DEF PaneInv
<1> QED BY <1>1, <1>2

\* The section is opened or closed: its rows are drawn.
LEMMA ToggleKeeps ==
  ASSUME PaneInv, ToggleGraph
  PROVE  PaneInv' /\ Keeps(pane, pane')
<1> DEFINE like == [mounted |-> pane.mounted, open |-> ~pane.open, rows |-> pane.rows,
                    active |-> pane.active, armed |-> pane.armed,
                    lastVisible |-> pane.lastVisible, pins |-> pane.pins,
                    reveal |-> pane.reveal,
                    revealed |-> pane.revealed]
<1>1. [pane EXCEPT !.open = ~@] = like
  BY DEF PaneInv, PaneTyped
<1>2. pane' = Rendered(like, graph)
  BY <1>1 DEF ToggleGraph
<1>3. PaneTyped(like)
  BY DEF PaneInv, PaneTyped
<1>4. /\ like.mounted = pane.mounted /\ like.rows = pane.rows /\ like.active = pane.active
      /\ like.revealed = pane.revealed
  OBVIOUS
<1> HIDE DEF like
<1>5. PaneTyped(pane')
  BY <1>2, <1>3, RenderedKeeps
<1> QED BY <1>2, <1>3, <1>4, <1>5, LikeKeeps DEF PaneInv

\* The section leaves, or a new one comes, which has no tab stop to keep.
LEMMA RemountKeeps ==
  ASSUME PaneInv, Remount
  PROVE  PaneInv' /\ Keeps(pane, pane')
<1>1. CASE pane.mounted
  <2>1. pane' = [mounted |-> FALSE, open |-> FALSE, rows |-> pane.rows, active |-> pane.active,
                 armed |-> pane.armed, lastVisible |-> pane.lastVisible, pins |-> {},
                 reveal |-> pane.reveal,
                 revealed |-> pane.revealed]
    BY <1>1 DEF Remount, PaneInv, PaneTyped
  <2> QED BY <2>1 DEF PaneInv, PaneTyped, Keeps
<1>2. CASE ~pane.mounted
  <2>1. PICK shows : pane' = Rendered([pane EXCEPT !.mounted = TRUE, !.open = shows, !.rows = <<>>,
                                         !.active = 1, !.armed = FALSE, !.lastVisible = 0,
                                         !.revealed = 0], graph)
    BY <1>2 DEF Remount
  <2> DEFINE like == [pane EXCEPT !.mounted = TRUE, !.open = shows, !.rows = <<>>, !.active = 1,
                                  !.armed = FALSE, !.lastVisible = 0, !.revealed = 0]
  <2>2. pane' = Rendered(like, graph)
    BY <2>1
  <2>0. like = [pane EXCEPT !.mounted = TRUE, !.open = shows, !.rows = <<>>, !.active = 1,
                            !.armed = FALSE, !.lastVisible = 0, !.revealed = 0]
    OBVIOUS
  <2> HIDE DEF like
  <2>4. like = [mounted |-> TRUE, open |-> shows, rows |-> <<>>, active |-> 1, armed |-> FALSE,
                lastVisible |-> 0, pins |-> pane.pins, reveal |-> pane.reveal, revealed |-> 0]
    BY <2>0 DEF PaneInv, PaneTyped
  <2>3. PaneTyped(like)
    BY <2>4 DEF PaneInv, PaneTyped
  <2>5. PaneTyped(pane')
    BY <2>2, <2>3, RenderedKeeps
  <2> QED BY <1>2, <2>5 DEF PaneInv, Keeps
<1> QED BY <1>1, <1>2

\* What the user does with the rows leaves them as they are.
LEMMA RowStepKeeps ==
  ASSUME PaneInv,
         \/ Arm \/ (\E oid \in Opened : OpenCommit(oid)) \/ (\E o \in openings : CommitIsNotFound(o))
         \/ (\E i \in DOMAIN pane.rows : FocusRow(i) \/ \E menu \in BOOLEAN : OpenRow(i, menu))
         \/ (\E oid \in pane.pins : CloseRow(oid))
         \/ UNCHANGED paneVars
  PROVE  PaneInv' /\ Keeps(pane, pane')
<1>1. \/ pane' = pane
      \/ \E last : pane' = [pane EXCEPT !.armed = TRUE, !.lastVisible = last]
      \/ \E i, pins : pane' = [pane EXCEPT !.active = i, !.pins = pins]
  <2>1. CASE Arm
    BY <2>1 DEF Arm
  <2>2. CASE (\E oid \in Opened : OpenCommit(oid)) \/ (\E o \in openings : CommitIsNotFound(o))
             \/ UNCHANGED paneVars
    BY <2>2 DEF OpenCommit, CommitIsNotFound, paneVars, historyVars
  <2>3. ASSUME NEW i, FocusRow(i) PROVE \E j, pins : pane' = [pane EXCEPT !.active = j, !.pins = pins]
    <3>1. pane' = [pane EXCEPT !.active = i, !.pins = pane.pins]
      BY <2>3 DEF FocusRow, PaneInv, PaneTyped
    <3> QED BY <3>1
  <2>4. ASSUME NEW i, NEW menu, OpenRow(i, menu)
        PROVE  \E j, pins : pane' = [pane EXCEPT !.active = j, !.pins = pins]
    <3>1. pane' = [pane EXCEPT !.active = (IF menu THEN i ELSE pane.active),
                               !.pins = pane.pins \union {pane.rows[i]}]
      BY <2>4 DEF OpenRow, PaneInv, PaneTyped
    <3> QED BY <3>1
  <2>5. ASSUME NEW oid, CloseRow(oid) PROVE \E j, pins : pane' = [pane EXCEPT !.active = j, !.pins = pins]
    <3>1. pane' = [pane EXCEPT !.active = pane.active, !.pins = pane.pins \ {oid}]
      BY <2>5 DEF CloseRow, PaneInv, PaneTyped
    <3> QED BY <3>1
  <2> QED BY <2>1, <2>2, <2>3, <2>4, <2>5
<1>2. ASSUME NEW last, pane' = [pane EXCEPT !.armed = TRUE, !.lastVisible = last]
      PROVE  PaneInv' /\ pane'.rows = pane.rows
  <2>1. pane' = [mounted |-> pane.mounted, open |-> pane.open, rows |-> pane.rows,
                 active |-> pane.active, armed |-> TRUE, lastVisible |-> last, pins |-> pane.pins,
                 reveal |-> pane.reveal,
                 revealed |-> pane.revealed]
    BY <1>2 DEF PaneInv, PaneTyped
  <2> QED BY <2>1 DEF PaneInv, PaneTyped
<1>3. ASSUME NEW i, NEW pins, pane' = [pane EXCEPT !.active = i, !.pins = pins]
      PROVE  PaneInv' /\ pane'.rows = pane.rows
  <2>1. pane' = [mounted |-> pane.mounted, open |-> pane.open, rows |-> pane.rows, active |-> i,
                 armed |-> pane.armed, lastVisible |-> pane.lastVisible, pins |-> pins,
                 reveal |-> pane.reveal,
                 revealed |-> pane.revealed]
    BY <1>3 DEF PaneInv, PaneTyped
  <2> QED BY <2>1 DEF PaneInv, PaneTyped
<1>4. PaneInv' /\ pane'.rows = pane.rows
  <2>1. CASE pane' = pane
    BY <2>1 DEF PaneInv
  <2> QED BY <1>1, <1>2, <1>3, <2>1
<1> QED BY <1>4, SameRowsKeep

\* At first nothing is to be revealed.
LEMMA PaneInits ==
  ASSUME PaneInit
  PROVE  PaneInv
BY DEF PaneInit, PaneInv, PaneTyped

\* Every step of the section leaves the tab stop on its commit.
LEMMA PaneSteps ==
  ASSUME PaneInv, [PaneNext]_paneVars
  PROVE  PaneInv' /\ ActiveIsKept
<1>1. PaneInv' /\ Keeps(pane, pane')
  <2>1. CASE StoreMoves \/ StoreClears \/ RevealLoads \/ ContinueLoads
    BY <2>1, StoreKeeps
  <2>2. CASE \E o \in openings : CommitOpens(o)
    BY <2>2, CommitOpensKeeps
  <2>3. CASE ToggleGraph
    BY <2>3, ToggleKeeps
  <2>4. CASE Remount
    BY <2>4, RemountKeeps
  <2>5. CASE \/ Arm \/ (\E oid \in Opened : OpenCommit(oid)) \/ (\E o \in openings : CommitIsNotFound(o))
             \/ (\E i \in DOMAIN pane.rows : FocusRow(i) \/ \E menu \in BOOLEAN : OpenRow(i, menu))
             \/ (\E oid \in pane.pins : CloseRow(oid))
             \/ UNCHANGED paneVars
    BY <2>5, RowStepKeeps
  <2> QED BY <2>1, <2>2, <2>3, <2>4, <2>5 DEF PaneNext
<1> QED BY <1>1 DEF Keeps, ActiveIsKept

(***************************************************************************)
(* The theorems                                                            *)
(***************************************************************************)

\* The parts as specifications of their own.
SwitchSpec == SwitchInit /\ [][SwitchNext]_switchVars
DraftsSpec == DraftsInit /\ [][DraftsNext]_draftVars
DocumentsSpec == DocumentsInit /\ [][DocumentsNext]_docVars

\* The address, the entry of the history and the workbench are of one folder, for
\* any folders and any moves, unless a navigation crossed a move of the history
\* (navigateFolder and the popstate handler, main.tsx).
THEOREM AddressMatches == SwitchSpec => []AddressMatchesBench
<1>1. SwitchInit => SwitchInv
  BY SwitchInits, SwitchAssumption
<1>2. SwitchInv /\ [SwitchNext]_switchVars => SwitchInv'
  BY SwitchSteps, SwitchAssumption
<1> QED BY <1>1, <1>2, SwitchImplies, PTL DEF SwitchSpec

\* What was typed into a document without a file is in the journal once its backup
\* has arrived, or the user was told, for any documents, edits, reloads and failures
\* (useUntitledDocuments, draft_journal.go).
THEOREM TypedIsBackedUp == DraftsSpec => []DirtyIsBackedUp
<1>1. DraftsInit => DraftsInv
  BY DraftsInits, DocsAssumption
<1>2. DraftsInv /\ [DraftsNext]_draftVars => DraftsInv'
  BY DraftsSteps, DocsAssumption
<1> QED BY <1>1, <1>2, DraftsImply, PTL DEF DraftsSpec

\* A backup never goes back to an older revision, nor changes under its revision.
THEOREM BackupsOnlyAdvance == DraftsSpec => [][BackupAdvances]_draftVars
<1>1. DraftsInit => DraftsInv
  BY DraftsInits, DocsAssumption
<1>2. DraftsInv /\ [DraftsNext]_draftVars => DraftsInv'
  BY DraftsSteps, DocsAssumption
<1>3. DraftsInv /\ [DraftsNext]_draftVars => BackupAdvances
  BY BackupsAdvance, DocsAssumption
<1> QED BY <1>1, <1>2, <1>3, PTL DEF DraftsSpec

\* What was typed into a file is in its draft or has been in the file, for any files,
\* texts and acts of the user and of other programs (GitnaReviewUI.tsx).
THEOREM TypedStays == DocumentsSpec => []TypedIsKept
<1>1. DocumentsInit => DocsInv
  BY DocsInits, DocumentsAssumption
<1>2. DocsInv /\ [DocumentsNext]_docVars => DocsInv'
  BY DocsSteps, DocumentsAssumption
<1> QED BY <1>1, <1>2, DocsImply, PTL DEF DocumentsSpec

\* More parts as specifications of their own.
PickerSpec == PickerInit /\ [][PickerNext]_pickerVars
PaneSpec == PaneInit /\ [][PaneNext]_paneVars

\* A folder whose removal was answered is not offered again unless it was recorded since, and
\* the highlighted row is a row of the list, for any folders (DiffsHubHeader.tsx, GitnaHome.tsx).
THEOREM RemovedIsGone == PickerSpec => []RemovedIsNotListed
<1>1. PickerInit => PickerInv
  BY PickerInits
<1>2. PickerInv /\ [PickerNext]_pickerVars => PickerInv'
  BY PickerSteps
<1> QED BY <1>1, <1>2, PickerImplies, PTL DEF PickerSpec

\* New rows of the graph leave its tab stop on its commit, for any histories and pages
\* (SourceControlWorkflow.tsx, GraphSection).
THEOREM TabStopIsKept == PaneSpec => [][ActiveIsKept]_paneVars
<1>1. PaneInit => PaneInv
  BY PaneInits
<1>2. PaneInv /\ [PaneNext]_paneVars => PaneInv' /\ ActiveIsKept
  BY PaneSteps
<1> QED BY <1>1, <1>2, PTL DEF PaneSpec

=============================================================================
