------------------------------ MODULE History -------------------------------
(***************************************************************************)
(* The commit graph of the store (web/src/diffshub/gitna/repository.tsx):   *)
(* the first page and the pages that follow it, the exact count that is     *)
(* read beside them, the details of expanded commits, and the server that   *)
(* pins a page to a tip (internal/server/routes_read.go).                   *)
(*                                                                         *)
(* A request that was given up may still be answered: what keeps its answer *)
(* out is the store's request numbers, never the cancellation.              *)
(***************************************************************************)
EXTENDS Naturals, Sequences, FiniteSets, SequencesExt

CONSTANTS
  Opened,      \* commits the user opens
  Histories,   \* the branch's histories in time, newest commit first
  Fetches,     \* numbers of the graph's requests under way at once
  GraphPage,   \* commits of a page
  MaxRequests, \* bound on graph reads
  MaxBreaks    \* bound on lost connections

VARIABLES
  remote,     \* the server: which history is current, and its generation
  graph,      \* the store's fields about the graph
  fetches,    \* requests under way
  details     \* filesLoading, commitFiles and their requests

historyVars == <<remote, graph, fetches, details>>

NoFetch == [state |-> "none", kind |-> "none"]
\* A request takes the first number that is free: which one does not matter.
Idling == {f \in Fetches : fetches[f] = NoFetch /\ \A e \in Fetches : e < f => fetches[e] # NoFetch}
Current == Histories[remote.head]
TipOf(h) == IF h = <<>> THEN 0 ELSE h[1]
Unknown == 1000    \* a total that is not known

(***************************************************************************)
(* The server                                                              *)
(***************************************************************************)

\* HEAD moves; the generation follows with the watcher's event.
HeadMoves ==
  /\ remote.head < Len(Histories)
  /\ remote' = [remote EXCEPT !.head = @ + 1]
  /\ UNCHANGED <<graph, fetches, details>>

HeadIsNoticed ==
  /\ remote.known < remote.head
  /\ remote' = [remote EXCEPT !.known = remote.head, !.gen = @ + 1]
  /\ UNCHANGED <<graph, fetches, details>>

\* A page of the tip that was asked for, or a conflict when it is HEAD no more.
PageAnswer(r) ==
  LET tip == IF r.kind = "first" THEN TipOf(Current) ELSE r.tip
      page == SubSeq(Current, r.skip + 1, Min({r.skip + GraphPage, Len(Current)}))
  IN  IF tip # TipOf(Current) THEN [r EXCEPT !.state = "conflict"]
      ELSE [r EXCEPT !.state = "served", !.page = page, !.tip = tip, !.gen = remote.gen,
                     !.more = r.skip + GraphPage < Len(Current)]

CountAnswer(r) ==
  IF r.tip # TipOf(Current) \/ r.gen # remote.gen THEN [r EXCEPT !.state = "conflict"]
  ELSE [r EXCEPT !.state = "served", !.total = Len(Current)]

GraphReply(f) ==
  LET r == fetches[f]
  IN  /\ r.state = "sent"
      /\ \E answer \in {IF r.kind = "count" THEN CountAnswer(r) ELSE PageAnswer(r),
                        [r EXCEPT !.state = "conflict"], [r EXCEPT !.state = "failed"]} :
           fetches' = [fetches EXCEPT ![f] = answer]
      /\ UNCHANGED <<remote, graph, details>>

(***************************************************************************)
(* The store                                                               *)
(***************************************************************************)

GraphRequest(kind, g, skip, tip, gen, recovery) ==
  [state |-> "sent", kind |-> kind, skip |-> skip, tip |-> tip, gen |-> gen,
   request |-> IF kind = "count" THEN g.countRequest ELSE g.request,
   countRequest |-> g.countRequest, epoch |-> g.epoch,
   attempt |-> 0, recovery |-> recovery, page |-> <<>>, more |-> FALSE, total |-> 0]

\* readGraph: a new number for the graph and for the count supersedes both.
Restarted(g) == [g EXCEPT !.request = @ + 1, !.countRequest = @ + 1, !.countLoading = FALSE,
                          !.loading = TRUE, !.error = FALSE]

\* loadMoreGraph, if a page follows and nothing is loading.
Extending(g) == [g EXCEPT !.request = @ + 1, !.loading = TRUE]

ReadGraph ==
  /\ graph.request < MaxRequests
  /\ \E f \in Idling :
       /\ graph' = Restarted(graph)
       /\ fetches' = [fetches EXCEPT ![f] = GraphRequest("first", graph', 0, 0, 0, 0)]
  /\ UNCHANGED <<remote, details>>

LoadMoreGraph ==
  /\ ~graph.loading /\ graph.hasMore /\ graph.tip # 0
  /\ graph.request < MaxRequests
  /\ \E f \in Idling :
       /\ graph' = Extending(graph)
       /\ fetches' = [fetches EXCEPT ![f] =
                        GraphRequest("more", graph', Len(graph.commits), graph.tip, graph.gen, 0)]
  /\ UNCHANGED <<remote, details>>

IsLatest(r) ==
  /\ r.request = (IF r.kind = "count" THEN graph.countRequest ELSE graph.request)
  /\ r.epoch = graph.epoch

\* The count kept for a tip and a generation (graphCountCache).
Counted(g, tip, gen) ==
  LET known == {c \in g.counted : c.tip = tip /\ c.gen = gen}
  IN  IF known = {} THEN Unknown ELSE (CHOOSE c \in known : TRUE).total

\* The first page replaces the graph; what is not on it is closed.
Replaced(g, r) ==
  LET present == ToSet(r.page)
  IN  [g EXCEPT !.commits = r.page, !.hasMore = r.more, !.tip = r.tip, !.gen = r.gen,
                !.total = IF r.tip = 0 THEN 0 ELSE Counted(g, r.tip, r.gen),
                !.expanded = @ \intersect present,
                !.diff = IF @ \in present \/ g.fromSearch THEN @ ELSE 0,
                !.loading = FALSE]

FirstPageArrives(f) ==
  LET r == fetches[f]
      g == Replaced(graph, r)
      counts == r.tip # 0 /\ g.total = Unknown
  IN  /\ r.kind = "first" /\ r.state = "served" /\ IsLatest(r)
      /\ graph' = [g EXCEPT !.countLoading = counts]
      /\ fetches' = [fetches EXCEPT ![f] =
           IF counts THEN GraphRequest("count", g, 0, r.tip, r.gen, r.recovery) ELSE NoFetch]
      /\ details' = [details EXCEPT !.loaded = @ \intersect ToSet(r.page)]
      /\ UNCHANGED remote

\* Three attempts while the graph keeps changing; then the error is shown.
FirstPageFails(f) ==
  LET r == fetches[f]
  IN  /\ r.kind = "first" /\ r.state \in {"conflict", "failed"} /\ IsLatest(r)
      /\ IF r.state = "conflict" /\ r.attempt < 2
         THEN /\ fetches' = [fetches EXCEPT ![f] = [@ EXCEPT !.state = "sent", !.attempt = @ + 1]]
              /\ UNCHANGED graph
         ELSE /\ fetches' = [fetches EXCEPT ![f] = NoFetch]
              /\ graph' = [graph EXCEPT !.error = TRUE, !.loading = FALSE]
      /\ UNCHANGED <<remote, details>>

\* Another page of the same tip and generation extends the graph; anything
\* else starts it again.
MoreArrives(f) ==
  LET r == fetches[f]
      same == r.state = "served" /\ r.tip = graph.tip /\ r.gen = graph.gen
      again == r.state = "conflict" \/ (r.state = "served" /\ ~same)
  IN  /\ r.kind = "more" /\ r.state \in {"served", "conflict", "failed"} /\ IsLatest(r)
      /\ IF again
         THEN /\ graph' = Restarted(graph)
              /\ fetches' = [fetches EXCEPT ![f] = GraphRequest("first", graph', 0, 0, 0, 0)]
         ELSE /\ graph' = [graph EXCEPT !.loading = FALSE,
                   !.error = r.state = "failed",
                   !.hasMore = IF same THEN r.more ELSE @,
                   !.commits = IF same
                               THEN @ \o SelectSeq(r.page, LAMBDA c : c \notin ToSet(graph.commits))
                               ELSE @]
              /\ fetches' = [fetches EXCEPT ![f] = NoFetch]
      /\ UNCHANGED <<remote, details>>

\* loadGraphCount: an exact count of the tip that is shown; a conflict reads
\* the graph again, twice at most.
CountArrives(f) ==
  LET r == fetches[f]
      ours == IsLatest(r) /\ r.tip = graph.tip /\ r.gen = graph.gen
      again == r.state = "conflict" /\ r.recovery < 2 /\ ours
  IN  /\ r.kind = "count" /\ r.state \in {"served", "conflict", "failed"} /\ IsLatest(r)
      /\ IF again
         THEN /\ graph' = Restarted(graph)
              /\ fetches' = [fetches EXCEPT ![f] = GraphRequest("first", graph', 0, 0, 0, r.recovery + 1)]
         ELSE /\ graph' = [graph EXCEPT !.countLoading = FALSE,
                   !.total = IF r.state = "served" /\ ours THEN r.total ELSE @,
                   !.counted = IF r.state = "served" /\ ours
                               THEN @ \union {[tip |-> r.tip, gen |-> r.gen, total |-> r.total]}
                               ELSE @]
              /\ fetches' = [fetches EXCEPT ![f] = NoFetch]
      /\ UNCHANGED <<remote, details>>

\* The answer to a request that was superseded changes nothing.
SupersededArrives(f) ==
  /\ fetches[f].state \in {"served", "conflict", "failed"} /\ ~IsLatest(fetches[f])
  /\ fetches' = [fetches EXCEPT ![f] = NoFetch]
  /\ UNCHANGED <<remote, graph, details>>

\* invalidateReadWork: the stream broke.
ConnectionBreaks ==
  /\ graph.epoch < MaxBreaks
  /\ graph' = [graph EXCEPT !.epoch = @ + 1, !.request = @ + 1, !.countRequest = @ + 1,
                            !.loading = FALSE, !.countLoading = FALSE, !.error = FALSE]
  /\ details' = [details EXCEPT !.epoch = @ + 1, !.loading = {}]
  /\ UNCHANGED <<remote, fetches>>

\* clearGitState: a snapshot says that the folder is no repository.
ClearGitState ==
  /\ graph.commits # <<>> /\ graph.request < MaxRequests
  /\ graph' = [graph EXCEPT !.request = @ + 1, !.countRequest = @ + 1, !.loading = FALSE,
       !.countLoading = FALSE, !.error = FALSE, !.commits = <<>>, !.tip = 0, !.gen = 0,
       !.hasMore = FALSE, !.total = Unknown, !.counted = {}, !.expanded = {}, !.diff = 0]
  /\ details' = [details EXCEPT !.epoch = @ + 1, !.loading = {}, !.loaded = {}]
  /\ UNCHANGED <<remote, fetches>>

(***************************************************************************)
(* Commits                                                                 *)
(***************************************************************************)

Detailed(oid) == [details EXCEPT !.loading = @ \union {oid},
                                 !.pending = @ \union {<<oid, details.epoch>>}]
Undetailed(oid) == oid \notin details.loaded \union details.loading

\* loadCommitDetails: a row that is mounted open or shows its tooltip.
LoadCommitDetails(oid) ==
  /\ oid \in ToSet(graph.commits) /\ Undetailed(oid)
  /\ details' = Detailed(oid)
  /\ UNCHANGED <<remote, graph, fetches>>

\* toggleCommit.
ToggleCommit(oid) ==
  LET opens == oid \notin graph.expanded
  IN  /\ oid \in ToSet(graph.commits)
      /\ graph' = [graph EXCEPT !.expanded = IF opens THEN @ \union {oid} ELSE @ \ {oid}]
      /\ details' = IF opens /\ Undetailed(oid) THEN Detailed(oid) ELSE details
      /\ UNCHANGED <<remote, fetches>>

ExpandLoaded ==
  /\ graph.expanded # ToSet(graph.commits)
  /\ graph' = [graph EXCEPT !.expanded = ToSet(graph.commits)]
  /\ UNCHANGED <<remote, fetches, details>>

CollapseAll ==
  /\ graph.expanded # {}
  /\ graph' = [graph EXCEPT !.expanded = {}]
  /\ UNCHANGED <<remote, fetches, details>>

DetailsArrive(p) ==
  /\ p \in details.pending
  /\ \E succeeds \in BOOLEAN :
       details' = [details EXCEPT
         !.pending = @ \ {p},
         !.loading = IF p[2] = details.epoch THEN @ \ {p[1]} ELSE @,
         !.loaded = IF succeeds /\ p[2] = details.epoch THEN @ \union {p[1]} ELSE @]
  /\ UNCHANGED <<remote, graph, fetches>>

\* selectCommitFile and openCommit: a diff of a commit, from the graph or the search.
OpenDiff(oid, found) ==
  /\ found \/ oid \in ToSet(graph.commits)
  /\ graph' = [graph EXCEPT !.diff = oid, !.fromSearch = found]
  /\ UNCHANGED <<remote, fetches, details>>

HistoryInit ==
  /\ remote = [head |-> 1, known |-> 1, gen |-> 1]
  /\ graph = [request |-> 0, countRequest |-> 0, epoch |-> 0, loading |-> FALSE,
              countLoading |-> FALSE, error |-> FALSE, commits |-> <<>>, tip |-> 0, gen |-> 0,
              hasMore |-> FALSE, total |-> Unknown, counted |-> {}, expanded |-> {},
              diff |-> 0, fromSearch |-> FALSE]
  /\ fetches = [f \in Fetches |-> NoFetch]
  /\ details = [epoch |-> 0, loading |-> {}, loaded |-> {}, pending |-> {}]

\* The reads of the graph, and what the user does with its commits.
GraphReads ==
  \/ HeadMoves \/ HeadIsNoticed \/ ReadGraph \/ LoadMoreGraph \/ ConnectionBreaks
  \/ \E f \in Fetches : \/ GraphReply(f) \/ FirstPageArrives(f) \/ FirstPageFails(f)
                        \/ MoreArrives(f) \/ CountArrives(f) \/ SupersededArrives(f)

CommitSteps ==
  \/ \E oid \in Opened : \/ ToggleCommit(oid) \/ LoadCommitDetails(oid)
                         \/ \E found \in BOOLEAN : OpenDiff(oid, found)
  \/ ExpandLoaded \/ CollapseAll
  \/ \E p \in details.pending : DetailsArrive(p)

HistoryNext == GraphReads \/ ClearGitState \/ CommitSteps

(***************************************************************************)
(* What must hold                                                          *)
(***************************************************************************)

\* The pages of the graph are one history: whatever was superseded, refused or
\* refreshed between them, the rows are a prefix of the history of the tip they
\* are pinned to, and "more" is said when there is more (readGraph, loadMoreGraph).
PrefixOfOneTip ==
  graph.tip # 0 =>
    \E i \in DOMAIN Histories :
      /\ TipOf(Histories[i]) = graph.tip /\ IsPrefix(graph.commits, Histories[i])
      /\ graph.hasMore = (Len(graph.commits) < Len(Histories[i]))

\* The count shown beside the graph is the one of the tip that the graph shows.
TotalOfTip ==
  graph.total # Unknown /\ graph.tip # 0 =>
    \E i \in DOMAIN Histories : TipOf(Histories[i]) = graph.tip /\ graph.total = Len(Histories[i])

=============================================================================
