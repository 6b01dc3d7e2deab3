----------------------------- MODULE ReviewView -----------------------------
(***************************************************************************)
(* The review of a target (the working tree, a commit, a comparison): the     *)
(* load that every new target and generation starts, its further pages, and   *)
(* the CodeView that shows its items (GitnaReviewUI.tsx, reviewAdapter.ts).   *)
(*                                                                         *)
(* A page holds one file.  A file's content is the generation it was read at. *)
(* Files that are open in an editor are in Documents.                         *)
(***************************************************************************)
EXTENDS Naturals, Sequences, FiniteSets, SequencesExt

CONSTANTS
  Reviews,         \* Reviews[t][g]: the paths of review t at generation g
  MaxViewActs,     \* bound on what the user does
  MaxViewLosses    \* bound on lost answers

Targets == DOMAIN Reviews
NoPath == 0
None == [target |-> 0]

VARIABLES
  generations,    \* the generation of the server and the one the client knows
  target,    \* the target and its selected path
  loading,   \* the loads under way, the newest last; only that one is active
  paging,    \* reviewPagingRef: where the next page starts, and its request
  review,    \* reviewData, renderedTargetKeyRef, loadState
  viewer,    \* the items of the CodeView, and the version last given to a load
  viewActs   \* bounds

viewVars == <<generations, target, loading, paging, review, viewer, viewActs>>

Full(t, g) == Reviews[t][g]

(***************************************************************************)
(* The server                                                              *)
(***************************************************************************)

\* handleReview: a page of the stable generation; a cursor of another is refused.
PageAt(t, cursor) ==
  IF cursor.gen \notin {0, generations.server} THEN [ok |-> FALSE]
  ELSE LET paths == Full(t, generations.server)
       IN  [ok |-> TRUE, gen |-> generations.server,
            paths |-> SubSeq(paths, cursor.at, Min({cursor.at, Len(paths)})),
            next |-> IF cursor.at < Len(paths) THEN cursor.at + 1 ELSE 0]

\* A change that the server has noticed.
RepositoryChanges ==
  /\ generations.server < Len(Reviews[1])
  /\ generations' = [generations EXCEPT !.server = @ + 1]
  /\ UNCHANGED <<target, loading, paging, review, viewer, viewActs>>

(***************************************************************************)
(* The CodeView, as the code uses it                                        *)
(***************************************************************************)

\* It ignores new content for matching ids and versions.
Taken(items, old) ==
  [i \in DOMAIN items |->
     IF \E k \in DOMAIN old : old[k].path = items[i].path /\ old[k].version = items[i].version
     THEN CHOOSE x \in ToSet(old) : x.path = items[i].path
     ELSE items[i]]

\* updateViewerItems: one item at a time, or all when their list is another one.
Display(items) == viewer' = [viewer EXCEPT !.items = Taken(items, @)]

Items(paths, gen, version) == [i \in DOMAIN paths |-> [path |-> paths[i], content |-> gen, version |-> version]]
Paths(items) == {items[i].path : i \in DOMAIN items}

(***************************************************************************)
(* Loads                                                                   *)
(***************************************************************************)

\* A page that ends the search for a path, or that a scroll asked for.
Wanted(p, path, items) ==
  p # None /\ ~p.busy /\ p.cursor # 0 /\ path # NoPath /\ path \notin Paths(items)

\* The effect of the selected path: pages are read until it is there.
Sought(p, path, items) ==
  IF Wanted(p, path, items) THEN [p EXCEPT !.busy = TRUE, !.until = path] ELSE p

\* The effect of a new target, generation or attempt.
Load(t, g, rev) ==
  LET refreshing == rev.rendered = t /\ Len(rev.items) > 0
      pages == IF paging # None /\ paging.target = t THEN paging.pages ELSE 1
  IN  /\ loading' = Append([i \in DOMAIN loading |-> [loading[i] EXCEPT !.active = FALSE]],
                            [active |-> TRUE, target |-> t, gen |-> 0, items |-> <<>>, cursor |-> 1,
                                     pages |-> 0, limit |-> IF refreshing THEN pages ELSE 1,
                                     refreshing |-> refreshing, version |-> 0])
      /\ paging' = None
      /\ review' = [rev EXCEPT !.error = FALSE, !.notice = FALSE,
                       !.state = IF ~refreshing /\ Len(rev.items) = 0 THEN "fetching" ELSE @,
                       !.rendered = IF ~refreshing /\ Len(rev.items) = 0 THEN 0 ELSE @]

MayAct == viewActs.acts < MaxViewActs /\ viewActs' = [viewActs EXCEPT !.acts = @ + 1]

Navigate(t, path) ==
  /\ MayAct /\ [name |-> t, path |-> path] # target
  /\ path # NoPath => \E g \in DOMAIN Reviews[t] : path \in ToSet(Full(t, g))
  /\ target' = [name |-> t, path |-> path]
  /\ IF t # target.name THEN Load(t, generations.client, review)
     ELSE /\ paging' = Sought(paging, path, review.items)
          /\ UNCHANGED <<loading, review>>
  /\ UNCHANGED <<generations, viewer>>

Notice ==
  /\ generations.client # generations.server
  /\ generations' = [generations EXCEPT !.client = generations.server]
  /\ Load(target.name, generations.server, review)
  /\ UNCHANGED <<target, viewer, viewActs>>

Retry ==
  /\ review.error /\ MayAct /\ Load(target.name, generations.client, review)
  /\ UNCHANGED <<generations, target, viewer>>

\* As it would be if a refresh that fails said nothing.
LoadFailedSilently(load) ==
  /\ loading' = Front(loading)
  /\ review' = IF load.refreshing THEN [review EXCEPT !.state = "ready"]
               ELSE [review EXCEPT !.error = TRUE, !.state = "error"]
  /\ UNCHANGED <<paging, viewer>>

\* What an answer leaves of a load: an error, the next request, or the review.
LoadFailed(load) ==
  /\ loading' = Front(loading)
  /\ review' = IF load.refreshing THEN [review EXCEPT !.notice = TRUE, !.state = "ready"]
               ELSE [review EXCEPT !.error = TRUE, !.state = "error"]
  /\ UNCHANGED <<paging, viewer>>

LoadGoesOn(load, page) ==
  LET version == IF load.pages = 0 THEN viewer.version + 1 ELSE load.version
      gen     == IF load.pages = 0 THEN page.gen ELSE load.gen
      items   == load.items \o Items(page.paths, page.gen, version)
      next    == [load EXCEPT !.gen = gen, !.items = items, !.cursor = page.next,
                              !.pages = @ + 1, !.version = version]
      more    == [target |-> load.target, gen |-> gen, items |-> items, cursor |-> page.next,
                  pages |-> next.pages, version |-> version, busy |-> FALSE, until |-> NoPath]
  IN  IF load.refreshing /\ page.next # 0 /\ next.pages < load.limit
      THEN /\ loading' = Append(Front(loading), next)
           /\ viewer' = [viewer EXCEPT !.version = version]
           /\ UNCHANGED <<paging, review>>
      ELSE /\ loading' = Front(loading)
           /\ review' = [items |-> items, rendered |-> load.target, state |-> "ready",
                         error |-> FALSE, notice |-> review.notice, gen |-> gen]
           /\ paging' = Sought(more, target.path, items)
           /\ viewer' = [items |-> Taken(items, viewer.items), version |-> version]

\* appendGitnaReviewPage: a page of another generation is an error.
Fits(page, gen) == page.ok /\ gen \in {0, page.gen}

Active == loading # <<>> /\ Last(loading).active

LoadArrives ==
  /\ Active
  /\ LET load == Last(loading)
         page == PageAt(load.target, [gen |-> load.gen, at |-> load.cursor])
     IN  IF Fits(page, load.gen) THEN LoadGoesOn(load, page) ELSE LoadFailed(load)
  /\ UNCHANGED <<generations, target, viewActs>>

\* The answer to a load that another took the place of.
OldLoadArrives ==
  /\ loading # <<>> /\ ~Head(loading).active /\ loading' = Tail(loading)
  /\ UNCHANGED <<generations, target, paging, review, viewer, viewActs>>

MayLose == viewActs.losses < MaxViewLosses /\ viewActs' = [viewActs EXCEPT !.losses = @ + 1]

LoadIsLost ==
  /\ Active /\ MayLose /\ LoadFailed(Last(loading)) /\ UNCHANGED <<generations, target>>

(***************************************************************************)
(* Further pages                                                            *)
(***************************************************************************)

\* The end of the review comes into view.
Scroll ==
  /\ paging # None /\ ~paging.busy /\ paging.cursor # 0 /\ MayAct
  /\ paging' = [paging EXCEPT !.busy = TRUE, !.until = NoPath]
  /\ UNCHANGED <<generations, target, loading, review, viewer>>

\* A page of a review that is no longer the current one is dropped with it.
MoreArrives ==
  /\ paging # None /\ paging.busy
  /\ LET page  == PageAt(paging.target, [gen |-> paging.gen, at |-> paging.cursor])
         items == paging.items \o Items(page.paths, page.gen, paging.version)
         more  == [paging EXCEPT !.items = items, !.cursor = page.next, !.pages = @ + 1,
                     !.busy = page.next # 0 /\ paging.until \notin {NoPath} \union Paths(items)]
     IN  IF Fits(page, paging.gen)
         THEN /\ paging' = Sought(more, target.path, items)
              /\ review' = [review EXCEPT !.items = items]
              /\ Display(items)
         ELSE paging' = [paging EXCEPT !.busy = FALSE] /\ UNCHANGED <<review, viewer>>
  /\ UNCHANGED <<generations, target, loading, viewActs>>

MoreIsLost ==
  /\ paging # None /\ paging.busy /\ MayLose
  /\ paging' = [paging EXCEPT !.busy = FALSE]
  /\ review' = [review EXCEPT !.notice = TRUE]
  /\ UNCHANGED <<generations, target, loading, viewer>>

\* A file is collapsed or expanded, or is given its image: the item that is
\* shown, which the review and its pages hold too, gets the next version.
Redraw(i) ==
  /\ i \in DOMAIN viewer.items /\ MayAct
  /\ LET same(items) == [k \in DOMAIN items |->
           IF items[k] = viewer.items[i] THEN [items[k] EXCEPT !.version = @ + 1] ELSE items[k]]
     IN  /\ viewer' = [viewer EXCEPT !.items = same(@)]
         /\ review' = [review EXCEPT !.items = same(@)]
         /\ paging' = IF paging = None THEN None ELSE [paging EXCEPT !.items = same(@)]
  /\ UNCHANGED <<generations, target, loading>>

(***************************************************************************)
(* The specification                                                       *)
(***************************************************************************)

ViewInit ==
  /\ generations = [server |-> 1, client |-> 1]
  /\ target = [name |-> 1, path |-> NoPath]
  /\ loading = <<[active |-> TRUE, target |-> 1, gen |-> 0, items |-> <<>>, cursor |-> 1, pages |-> 0, limit |-> 1,
                  refreshing |-> FALSE, version |-> 0]>>
  /\ paging = None
  /\ review = [items |-> <<>>, rendered |-> 0, state |-> "fetching", error |-> FALSE,
               notice |-> FALSE, gen |-> 0]
  /\ viewer = [items |-> <<>>, version |-> 0]
  /\ viewActs = [acts |-> 0, losses |-> 0]

ViewNext ==
  \/ RepositoryChanges \/ Notice \/ Retry \/ Scroll
  \/ \E t \in Targets, path \in 0..3 : Navigate(t, path)
  \/ LoadArrives \/ OldLoadArrives \/ LoadIsLost \/ MoreArrives \/ MoreIsLost
  \/ \E i \in DOMAIN viewer.items : Redraw(i)

(***************************************************************************)
(* What must hold                                                          *)
(***************************************************************************)

\* What the review holds is the beginning of one review at one generation, and
\* the viewer has the same files: pages of two generations never meet.
ReviewIsCoherent ==
  /\ review.gen # 0 =>
       LET full == Full(review.rendered, review.gen)
       IN  /\ [i \in DOMAIN review.items |-> review.items[i].path]
                = SubSeq(full, 1, Len(review.items))
           /\ \A i \in DOMAIN review.items : review.items[i].content = review.gen
  /\ Paths(viewer.items) = Paths(review.items)

\* When no load is under way and none has failed, the review is the one of the
\* target at the newest generation, and the selected path, if the review has
\* it, is loaded or on its way.
ReviewSettles ==
  ~Active /\ review.state = "ready" /\ ~review.notice /\ generations.client = generations.server =>
    /\ review.rendered = target.name /\ review.gen = generations.server
    /\ target.path \in ToSet(Full(target.name, review.gen)) =>
         target.path \in Paths(review.items) \/ paging.busy

=============================================================================
