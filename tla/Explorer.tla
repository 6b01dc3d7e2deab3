------------------------------ MODULE Explorer ------------------------------
(***************************************************************************)
(* The Explorer's lazily loaded tree, as the store keeps it                 *)
(* (web/src/diffshub/gitna/repository.tsx): listings of directories read    *)
(* page by page, refreshes of everything that is loaded, the walk that      *)
(* loads a path before it is opened, and the server that answers them       *)
(* (internal/server/routes_read.go).                                        *)
(*                                                                         *)
(* A name is a natural number, its rank in the order of names; a directory  *)
(* is a name too, and Root is 0.  A step of the client is a piece of code   *)
(* between two awaits; what a settled promise makes run comes before the    *)
(* next answer or event (Idle).                                             *)
(***************************************************************************)
EXTENDS Naturals, Sequences, FiniteSets, FiniteSetsExt

CONSTANTS
  Dirs,       \* the directories there may be, Root among them
  ParentOf,   \* the directory a directory is in
  Trees,      \* the states of the disk in time: Trees[v][d] are d's entries
  Calls,      \* numbers of the listings under way at once
  PageSize,   \* entries of one answer (directoryEntryLimit)
  Workers,    \* listings a refresh keeps under way (4)
  Path,       \* a file to open: the directories to it and its name
  MaxEpoch    \* bound on lost connections

VARIABLES
  server,     \* the disk's state, the one its generation knows, the generation
  tree,       \* the store's fields about the tree
  calls,      \* the requests under way or not yet awaited to the end
  refresh,    \* refreshOrdinaryDirectories
  walker,     \* ensureOrdinaryPathLoaded
  listed      \* for the properties: the oldest disk a listing's pages show

explorerVars == <<server, tree, calls, refresh, walker, listed>>

Root == 0
NoCall == [state |-> "none"]
None == 0            \* no request

Depth[d \in Dirs] == IF d = Root THEN 0 ELSE 1 + Depth[ParentOf[d]]

Settled == {"value", "null", "error"}

\* A request takes the first number that is free: which one does not matter.
Free == {c \in Calls : calls[c] = NoCall /\ \A e \in Calls : e < c => calls[e] # NoCall}

(***************************************************************************)
(* The server                                                              *)
(***************************************************************************)

\* The entries of d after a name in version v of the disk, one page of them.
Page(v, d, after) ==
  LET rest == {n \in Trees[v][d] : n > after}
  IN  {n \in rest : Cardinality({m \in rest : m < n}) < PageSize}

\* The cursor that follows a page: its last name, or 0 when nothing follows.
NextCursor(v, d, page) ==
  IF page = {} \/ \A n \in Trees[v][d] : n <= Max(page) THEN 0 ELSE Max(page)

\* An answer: the listing is not older than what the generation knows, and the
\* generation has not changed while it was read.  Or an error.
Serve(c) ==
  /\ calls[c].state = "sent" /\ ~calls[c].aborted
  /\ \/ \E v \in server.known .. server.disk :
          LET d == calls[c].dir
              page == Page(v, d, calls[c].after)
          IN  /\ d \in DOMAIN Trees[v]
              /\ calls' = [calls EXCEPT ![c] =
                   [@ EXCEPT !.state = "served", !.page = page, !.gen = server.gen,
                             !.next = NextCursor(v, d, page), !.version = v]]
     \/ calls' = [calls EXCEPT ![c].state = "refused"]
  /\ UNCHANGED <<server, tree, refresh, walker, listed>>

\* Another program changes the folder.
DiskChanges ==
  /\ server.disk < Len(Trees)
  /\ server' = [server EXCEPT !.disk = @ + 1]
  /\ UNCHANGED <<tree, calls, refresh, walker, listed>>

\* The watcher notices: the generation advances and knows the disk.
ServerInvalidates ==
  /\ server.known < server.disk
  /\ server' = [server EXCEPT !.known = server.disk, !.gen = @ + 1]
  /\ UNCHANGED <<tree, calls, refresh, walker, listed>>

(***************************************************************************)
(* The tree                                                                *)
(***************************************************************************)

\* Directories whose promise nobody waits for are forgotten with it.
Awaited(rf, wk) == {rf.active[d].call : d \in DOMAIN rf.active} \union {wk.wait}

Collected(cs, rf, wk) ==
  [c \in Calls |-> IF cs[c].state \in Settled /\ c \notin Awaited(rf, wk)
                   THEN NoCall ELSE cs[c]]

\* A request for a page of d, by call c.
Sent(cs, t, c, d, after) ==
  [cs EXCEPT ![c] = [state |-> "sent", dir |-> d, after |-> after, epoch |-> t.epoch,
                     aborted |-> FALSE, page |-> {}, gen |-> 0, next |-> 0, version |-> 0]]

Requested(t, c, d) ==
  [t EXCEPT !.req[d] = c, !.ctl[d] = c, !.loading = TRUE, !.failed = @ \ {d}]

\* The loaded directories that a loaded parent still lists, transitively.
Rooted(t) ==
  LET Ancestors[d \in Dirs] ==
        IF d = Root THEN {Root} ELSE {d} \union Ancestors[ParentOf[d]]
      Listed(d) == d = Root \/ (ParentOf[d] \in t.loaded /\ d \in t.children[ParentOf[d]])
  IN  {d \in t.loaded : \A a \in Ancestors[d] : a \in t.loaded /\ Listed(a)}

\* rebuildOrdinaryTreePaths: what is no longer listed is dropped with its requests.
Rebuilt(t) ==
  LET gone == t.loaded \ Rooted(t)
      drop(f, v) == [d \in Dirs |-> IF d \in gone THEN v ELSE f[d]]
  IN  [t EXCEPT !.loaded = @ \ gone, !.children = drop(@, {}), !.cursor = drop(@, 0),
                !.dirGen = drop(@, 0), !.req = drop(@, None), !.ctl = drop(@, None),
                !.failed = @ \ gone]

\* A page accepted: the first page replaces the listing, another one extends it.
Accepted(t, r) ==
  Rebuilt([t EXCEPT
    !.gen = r.gen, !.dirGen[r.dir] = r.gen, !.loaded = @ \union {r.dir},
    !.children[r.dir] = (IF r.after = 0 THEN {} ELSE @) \union r.page,
    !.cursor[r.dir] = r.next])

\* The paths the Explorer draws, and the directories it draws as not loaded.
Paths(t) == UNION {t.children[d] : d \in t.loaded}
Unloaded(t) == (Paths(t) \intersect Dirs) \ t.loaded

\* The request leaves the maps if it is still the directory's own; the spinner
\* follows what is left, unless the connection was lost since.
Finished(t, c, r) ==
  IF t.ctl[r.dir] # c THEN t
  ELSE LET left == [t EXCEPT !.req[r.dir] = None, !.ctl[r.dir] = None]
       IN  IF r.epoch = t.epoch
           THEN [left EXCEPT !.loading = \E d \in Dirs : left.req[d] # None]
           ELSE left

\* An answer reaches fetchOrdinaryDirectoryPage.
Outcome(c, r) ==
  IF r.aborted \/ tree.ctl[r.dir] # c THEN "null"
  ELSE IF r.state = "refused" THEN "error"
  ELSE IF r.gen < tree.gen THEN "null"
  ELSE IF r.after # 0 /\ tree.dirGen[r.dir] # 0 /\ r.gen # tree.dirGen[r.dir] THEN "error"
  ELSE "value"

\* Requests of dropped directories are cancelled with them.
Aborts(cs, before, after) ==
  [c \in Calls |-> IF \E d \in Dirs : before.ctl[d] = c /\ d \in before.loaded \ after.loaded
                   THEN IF cs[c].state \in Settled \union {"none"} THEN cs[c]
                        ELSE [cs[c] EXCEPT !.aborted = TRUE]
                   ELSE cs[c]]

Arrive(c) ==
  LET r == calls[c]
      outcome == Outcome(c, r)
      accepted == IF outcome = "value" THEN Accepted(tree, r) ELSE tree
      noted == IF outcome = "error" THEN [accepted EXCEPT !.failed = @ \union {r.dir}]
                                    ELSE accepted
  IN  /\ \/ r.state \in {"served", "refused"}
         \/ r.state = "sent" /\ r.aborted
      /\ tree' = Finished(noted, c, r)
      /\ calls' = Collected(Aborts([calls EXCEPT ![c].state = outcome],
                                   [tree EXCEPT !.loaded = @ \union {r.dir}], accepted),
                            refresh, walker)
      /\ listed' = IF outcome # "value" THEN listed
                   ELSE [listed EXCEPT ![r.dir] =
                           IF r.after = 0 \/ r.version < @ THEN r.version ELSE @]
      /\ UNCHANGED <<server, refresh, walker>>

\* What must run before anything else can happen.
Cancelled == {c \in Calls : calls[c].state \in {"sent", "served", "refused"} /\ calls[c].aborted}

Idle ==
  /\ Cancelled = {}
  /\ \A d \in DOMAIN refresh.active : calls[refresh.active[d].call].state \notin Settled
  /\ refresh.on => Cardinality(DOMAIN refresh.active) = Workers \/ DOMAIN refresh.active # {}
  /\ walker.state = "walking" => walker.wait # None /\ calls[walker.wait].state \notin Settled

Answer(c) == Idle /\ calls[c].state \in {"served", "refused"} /\ ~calls[c].aborted /\ Arrive(c)
Cancel(c) == c \in Cancelled /\ Arrive(c)

\* A directory is expanded, or more of it is asked for.
Expand(d) ==
  /\ Idle /\ d \in Unloaded(tree) /\ tree.req[d] = None
  /\ \E c \in Free : /\ calls' = Sent(calls, tree, c, d, 0)
                     /\ tree' = Requested(tree, c, d)
  /\ UNCHANGED <<server, refresh, walker, listed>>

LoadMore(d) ==
  /\ Idle /\ tree.cursor[d] # 0 /\ tree.req[d] = None
  /\ \E c \in Free : /\ calls' = Sent(calls, tree, c, d, tree.cursor[d])
                     /\ tree' = Requested(tree, c, d)
  /\ UNCHANGED <<server, refresh, walker, listed>>

\* invalidateReadWork, when the stream breaks.
LoseConnection ==
  /\ Idle /\ tree.epoch < MaxEpoch
  /\ tree' = [tree EXCEPT !.epoch = @ + 1, !.loading = FALSE, !.failed = {}]
  /\ calls' = [c \in Calls |-> IF \E d \in Dirs : tree.ctl[d] = c
                               THEN [calls[c] EXCEPT !.aborted = TRUE] ELSE calls[c]]
  /\ walker' = [walker EXCEPT !.disturbed = TRUE]
  /\ UNCHANGED <<server, refresh, listed>>

(***************************************************************************)
(* A refresh of every loaded directory, parents before their children.      *)
(***************************************************************************)

NoRefresh == [on |-> FALSE, epoch |-> 0, plan |-> {}, left |-> {}, active |-> <<>>,
              outcome |-> "none", since |-> 0]

StartRefresh ==
  LET plan == IF tree.loaded = {} THEN {Root} ELSE tree.loaded
  IN  /\ Idle /\ ~refresh.on
      /\ refresh' = [on |-> TRUE, epoch |-> tree.epoch, plan |-> plan, left |-> plan,
                     active |-> <<>>, outcome |-> "succeeded", since |-> server.known]
      /\ walker' = [walker EXCEPT !.disturbed = TRUE]
      /\ UNCHANGED <<server, tree, calls, listed>>

Without(f, d) == [x \in DOMAIN f \ {d} |-> f[x]]
With(f, d, v) == [x \in DOMAIN f \union {d} |-> IF x = d THEN v ELSE f[x]]

\* A worker waits for the directory's own request, or lists it anew.
Lists(rf, d) ==
  \E c \in Free :
    /\ calls' = Collected(Sent(calls, tree, c, d, 0), [rf EXCEPT !.active =
                            With(@, d, [call |-> c, own |-> TRUE])], walker)
    /\ tree' = Requested(tree, c, d)
    /\ refresh' = [rf EXCEPT !.active = With(@, d, [call |-> c, own |-> TRUE])]

AwaitsOther(rf, d, own) ==
  /\ refresh' = [rf EXCEPT !.active = With(@, d, [call |-> tree.req[d], own |-> own])]
  /\ calls' = Collected(calls, refresh', walker)
  /\ UNCHANGED tree

TakeDirectory(d) ==
  LET rf == [refresh EXCEPT !.left = @ \ {d}]
  IN  /\ refresh.on /\ d \in refresh.left /\ Cancelled = {}
      /\ refresh.epoch = tree.epoch
      /\ Cardinality(DOMAIN refresh.active) < Workers
      /\ \A e \in refresh.left \union DOMAIN refresh.active : Depth[d] <= Depth[e]
      /\ \A e \in DOMAIN refresh.active : Depth[e] = Depth[d]
      /\ IF d # Root /\ d \notin tree.loaded
         THEN refresh' = rf /\ UNCHANGED <<tree, calls>>
         ELSE IF tree.req[d] # None THEN AwaitsOther(rf, d, FALSE) ELSE Lists(rf, d)
      /\ UNCHANGED <<server, walker, listed>>

\* A worker resumes when the request it waits for has settled.
Resume(d) ==
  LET done == calls[refresh.active[d].call].state
      rf == [refresh EXCEPT !.active = Without(@, d)]
      ends(o) == /\ refresh' = [rf EXCEPT !.outcome = o]
                 /\ calls' = Collected(calls, refresh', walker)
                 /\ UNCHANGED tree
  IN  /\ d \in DOMAIN refresh.active /\ done \in Settled
      /\ IF refresh.epoch # tree.epoch THEN ends(refresh.outcome)
         ELSE IF ~refresh.active[d].own
         THEN IF tree.req[d] # None THEN AwaitsOther(rf, d, TRUE) ELSE Lists(rf, d)
         ELSE ends(CASE done = "error" -> "failed"
                     [] done = "null" /\ (d = Root \/ d \in tree.loaded)
                          /\ refresh.outcome # "failed" -> "obsolete"
                     [] OTHER -> refresh.outcome)
      /\ UNCHANGED <<server, walker, listed>>

EndRefresh ==
  /\ refresh.on /\ DOMAIN refresh.active = {}
  /\ refresh.left = {} \/ refresh.epoch # tree.epoch
  /\ refresh' = [refresh EXCEPT !.on = FALSE, !.left = {},
                   !.outcome = IF refresh.epoch # tree.epoch THEN "obsolete" ELSE @]
  /\ UNCHANGED <<server, tree, calls, walker, listed>>

(***************************************************************************)
(* ensureOrdinaryPathLoaded: the listings on the way to a file.             *)
(***************************************************************************)

NoWalk == [state |-> "idle", at |-> 1, wait |-> None, disturbed |-> FALSE]

ParentAt(i) == IF i = 1 THEN Root ELSE Path[i - 1]

StartWalk ==
  /\ Idle /\ walker.state # "walking"
  /\ walker' = [state |-> "walking", at |-> 1, wait |-> None, disturbed |-> refresh.on]
  /\ UNCHANGED <<server, tree, calls, refresh, listed>>

\* ensureDirectoryContains, up to its next await; a page that is not shown or
\* has no successor ends the walk.
Walk ==
  LET d == ParentAt(walker.at)
      goes(w) == /\ walker' = w
                 /\ calls' = Collected(calls, refresh, w)
                 /\ UNCHANGED tree
      awaits(after) ==
        IF tree.req[d] # None
        THEN goes([walker EXCEPT !.wait = tree.req[d]])
        ELSE \E c \in Free :
               /\ walker' = [walker EXCEPT !.wait = c]
               /\ tree' = Requested(tree, c, d)
               /\ calls' = Collected(Sent(calls, tree, c, d, after), refresh, walker')
      failed == walker.wait # None /\ calls[walker.wait].state # "value"
  IN  /\ walker.state = "walking" /\ Cancelled = {}
      /\ walker.wait # None => calls[walker.wait].state \in Settled
      /\ IF failed
         THEN goes([walker EXCEPT !.state = "unavailable", !.wait = None, !.disturbed = TRUE])
         ELSE IF d \notin tree.loaded
              THEN awaits(0)
              ELSE IF Path[walker.at] \in tree.children[d]
              THEN goes(IF walker.at = Len(Path)
                        THEN [walker EXCEPT !.state = "open", !.wait = None]
                        ELSE [walker EXCEPT !.at = @ + 1, !.wait = None])
              ELSE IF tree.cursor[d] = 0
              THEN goes([walker EXCEPT !.state = "unavailable", !.wait = None])
              ELSE awaits(tree.cursor[d])
      /\ UNCHANGED <<server, refresh, listed>>

ExplorerInit ==
  /\ server = [disk |-> 1, known |-> 1, gen |-> 1]
  /\ tree = [epoch |-> 0, loaded |-> {}, children |-> [d \in Dirs |-> {}],
             cursor |-> [d \in Dirs |-> 0], dirGen |-> [d \in Dirs |-> 0], gen |-> 0,
             req |-> [d \in Dirs |-> None], ctl |-> [d \in Dirs |-> None],
             loading |-> FALSE, failed |-> {}]
  /\ calls = [c \in Calls |-> NoCall]
  /\ refresh = NoRefresh
  /\ walker = NoWalk
  /\ listed = [d \in Dirs |-> 0]

ExplorerNext ==
  \/ \E c \in Calls : Serve(c) \/ Answer(c) \/ Cancel(c)
  \/ DiskChanges \/ ServerInvalidates \/ LoseConnection
  \/ \E d \in Dirs : Expand(d) \/ LoadMore(d) \/ TakeDirectory(d) \/ Resume(d)
  \/ StartRefresh \/ EndRefresh
  \/ StartWalk \/ Walk

(***************************************************************************)
(* What must hold                                                          *)
(***************************************************************************)

\* A refresh that says it succeeded read, of every directory it set out to
\* refresh and that is still loaded, nothing older than what the server knew
\* when it began: neither a listing that was already under way nor a page of the
\* old listing may stand in for the new one (refreshOrdinaryDirectories).
RefreshIsAuthoritative ==
  ~refresh.on /\ refresh.outcome = "succeeded" =>
     \A d \in refresh.plan \intersect tree.loaded : listed[d] >= refresh.since

\* "No longer available" is said of a file only when the folder has changed: the
\* walk that nothing disturbed reads as many pages as it takes
\* (ensureOrdinaryPathLoaded).
UnavailableIsTrue ==
  walker.state = "unavailable" /\ ~walker.disturbed => server.disk > 1

=============================================================================
