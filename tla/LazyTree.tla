------------------------------ MODULE LazyTree ------------------------------
(***************************************************************************)
(* The Explorer's tree (DiffsHubFileTree.tsx): the effect that brings the     *)
(* tree's model to the listings of the store (Explorer), the load that an     *)
(* expanded directory starts, and its answer, which may come before or after  *)
(* the effect of the same listing, or after the directory is gone.            *)
(*                                                                         *)
(* The tree's model (@pierre/trees) is external: an attempt to load the       *)
(* children of a directory is void once another has begun or the directory    *)
(* was marked as unloaded or removed.                                         *)
(***************************************************************************)
EXTENDS Naturals, FiniteSets, Sequences, FiniteSetsExt

CONSTANTS
  TreeDirs,       \* directories; 0 is the folder itself
  Within,         \* Within[p]: the directory that holds path p
  DiskTrees,      \* DiskTrees[v]: the paths there are in version v of the disk
  MaxTreeActs,    \* bound on what the user does
  MaxTreeFaults   \* bound on loads that fail or are cancelled

Root == 0
NoListing == {Root}

VARIABLES
  fs,        \* the version of the disk
  store,     \* the store's listings: of a directory, or NoListing
  rendered,  \* whether the effect has run since the store's listings changed
  tree,      \* the model: items, load state, attempt, expanded directories
  applied,   \* appliedPathsRef
  watched,   \* the expanded directories that the subscription has seen
  treeLoads, \* loads under way: directory, attempt, answer
  treeActs   \* bounds; the directories that an effect has seen go, or come back unlisted

treeVars == <<fs, store, rendered, tree, applied, watched, treeLoads, treeActs>>

Children(v, d) == {p \in DiskTrees[v] : Within[p] = d}
Beneath(d, paths) == {p \in paths : Within[p] = d \/ (Within[p] # Root /\ Within[Within[p]] = d)}
IsDir(p) == p \in TreeDirs

\* What the store shows: the paths, the directories without a listing, and the empty ones.
Shown(listing) == UNION {listing[d] : d \in {d \in TreeDirs \union {Root} : listing[d] # NoListing}}
Lazy(listing) == {d \in TreeDirs \intersect Shown(listing) : listing[d] = NoListing}
KnownEmpty(listing) == {d \in TreeDirs \intersect Shown(listing) : listing[d] = {}}

(***************************************************************************)
(* The tree's model                                                         *)
(***************************************************************************)

Add(t, paths) == [t EXCEPT !.items = @ \union paths,
                    !.state = [d \in TreeDirs |-> IF d \in paths \ t.items THEN "loaded" ELSE @[d]]]
Remove(t, paths) ==
  LET gone == paths \union UNION {Beneath(d, t.items) : d \in paths}
  IN  [t EXCEPT !.items = @ \ gone, !.expanded = @ \ gone,
                !.attempt = [d \in TreeDirs |-> IF d \in gone THEN @[d] + 1 ELSE @[d]]]
Begin(t, d) == [t EXCEPT !.state[d] = "loading", !.attempt[d] = @ + 1]
Unload(t, D) == [t EXCEPT !.state = [d \in TreeDirs |-> IF d \in D /\ d \in t.items /\ @[d] = "loaded"
                                                        THEN "unloaded" ELSE @[d]]]

\* The subscription: a directory seen expanded for the first time is loaded,
\* unless it is loaded or loading already.
Watch(t) ==
  LET open  == {d \in TreeDirs \intersect applied' \intersect t.items : d \in t.expanded}
      begun == {d \in open \ watched : t.state[d] \in {"unloaded", "error"}}
  IN  /\ watched' = open
      /\ tree' = FoldSet(LAMBDA d, acc : Begin(acc, d), t, begun)
      /\ treeLoads' = treeLoads \union {[dir |-> d, attempt |-> t.attempt[d] + 1, at |-> "asked",
                                         children |-> {}] : d \in begun}

\* The promises of loads that were answered are handled before the page does
\* anything else, but for the effect of the same answer.
Quiet == \A load \in treeLoads : load.at = "asked"

(***************************************************************************)
(* The user and the disk                                                    *)
(***************************************************************************)

Toggle(d) ==
  /\ Quiet /\ d \in tree.items /\ treeActs.acts < MaxTreeActs
  /\ treeActs' = [treeActs EXCEPT !.acts = @ + 1]
  /\ applied' = applied
  /\ Watch([tree EXCEPT !.expanded = IF d \in @ THEN @ \ {d} ELSE @ \union {d}])
  /\ UNCHANGED <<fs, store, rendered>>

DiskMoves ==
  /\ fs < Len(DiskTrees) /\ fs' = fs + 1
  /\ UNCHANGED <<store, rendered, tree, applied, watched, treeLoads, treeActs>>

\* The store lists its directories again; one that is gone has no listing.
StoreRefreshes ==
  /\ Quiet
  /\ store' = [d \in TreeDirs \union {Root} |->
                 IF store[d] # NoListing /\ (d = Root \/ d \in DiskTrees[fs]) THEN Children(fs, d) ELSE NoListing]
  /\ store' # store /\ rendered' = FALSE
  /\ UNCHANGED <<fs, tree, applied, watched, treeLoads, treeActs>>

(***************************************************************************)
(* The effect                                                              *)
(***************************************************************************)

Settle(t, d) == IF d \in t.items /\ t.state[d] # "loaded"
                THEN [t EXCEPT !.state[d] = "loaded", !.attempt[d] = @ + 1] ELSE t

Effect ==
  /\ ~rendered /\ rendered' = TRUE
  /\ LET next == Shown(store)
         reconciled == Add(Remove(tree, (applied \ next) \intersect tree.items), next \ applied)
         settled == FoldSet(LAMBDA d, acc : Settle(acc, d), reconciled, KnownEmpty(store))
         back == {d \in tree.items \intersect applied \intersect Lazy(store) : tree.state[d] = "loaded"}
     IN  /\ applied' = next
         /\ Watch(Unload(settled, Lazy(store)))
         /\ treeActs' = [treeActs EXCEPT !.returned = @ \union back \union ((applied \ next) \intersect TreeDirs)]
  /\ UNCHANGED <<fs, store>>

(***************************************************************************)
(* Loads                                                                   *)
(***************************************************************************)

Asked(d) == {load \in treeLoads : load.dir = d /\ load.at = "asked"}

\* The loads of one directory share one request of the store.
Answer(d, answer) == treeLoads' = (treeLoads \ Asked(d)) \union
  {[load EXCEPT !.at = answer.at, !.children = answer.children] : load \in Asked(d)}

\* The store has the listing, or lists the directory: it resolves with the
\* children, and keeps them if the directory is still part of the tree.
StoreLoads(d) ==
  /\ Quiet /\ Asked(d) # {} /\ (store[d] # NoListing \/ d \in DiskTrees[fs])
  /\ LET children == IF store[d] # NoListing THEN store[d] ELSE Children(fs, d)
     IN  /\ store' = IF d \in Shown(store) THEN [store EXCEPT ![d] = children] ELSE store
         /\ rendered' = (rendered /\ store' = store)
         /\ Answer(d, [at |-> "children", children |-> children])
  /\ UNCHANGED <<fs, tree, applied, watched, treeActs>>

\* It fails, or another read cancels it.
StoreFails(d) ==
  /\ Quiet /\ Asked(d) # {} /\ store[d] = NoListing
  /\ IF d \in Shown(store) \intersect DiskTrees[fs]
     THEN treeActs.faults < MaxTreeFaults /\ treeActs' = [treeActs EXCEPT !.faults = @ + 1]
     ELSE UNCHANGED treeActs
  /\ Answer(d, [at |-> "failed", children |-> {}])
  /\ UNCHANGED <<fs, store, rendered, tree, applied, watched>>

Current(load) == load.dir \in tree.items /\ tree.attempt[load.dir] = load.attempt
                 /\ tree.state[load.dir] = "loading"

\* applyLazyDirectoryChildren, then the directories among them are unloaded.
Patched(load) ==
  LET old  == {p \in applied : Within[p] = load.dir}
      done == Add(Remove(tree, (old \ load.children) \intersect tree.items), load.children \ applied)
  IN  Unload([done EXCEPT !.state[load.dir] = "loaded"], load.children \intersect Lazy(store))

ChildrenArrive(load) ==
  /\ load.at = "children"
  /\ LET gone == {p \in applied : Within[p] = load.dir} \ load.children
     IN  IF Current(load)
         THEN /\ applied' = (applied \ (gone \union UNION {Beneath(p, applied) : p \in gone})) \union load.children
              /\ LET t == Patched(load)
                 IN  /\ tree' = t /\ watched' = TreeDirs \intersect applied' \intersect t.items \intersect t.expanded
         ELSE UNCHANGED <<applied, tree, watched>>
  /\ treeLoads' = treeLoads \ {load}
  /\ UNCHANGED <<fs, store, rendered, treeActs>>

FailureArrives(load) ==
  /\ load.at = "failed" /\ treeLoads' = treeLoads \ {load}
  /\ tree' = IF Current(load) THEN [tree EXCEPT !.state[load.dir] = "error"] ELSE tree
  /\ UNCHANGED <<fs, store, rendered, applied, watched, treeActs>>

(***************************************************************************)
(* The specification                                                       *)
(***************************************************************************)

TreeInit ==
  /\ fs = 1
  /\ store = [d \in TreeDirs \union {Root} |-> IF d = Root THEN Children(1, Root) ELSE NoListing]
  /\ rendered = TRUE
  /\ applied = Shown(store)
  /\ tree = [items |-> applied, state |-> [d \in TreeDirs |-> "unloaded"],
             attempt |-> [d \in TreeDirs |-> 0], expanded |-> {}]
  /\ watched = {} /\ treeLoads = {} /\ treeActs = [acts |-> 0, faults |-> 0, returned |-> {}]

TreeNext ==
  \/ DiskMoves \/ StoreRefreshes \/ Effect
  \/ \E d \in TreeDirs : Toggle(d) \/ StoreLoads(d) \/ StoreFails(d)
  \/ \E load \in treeLoads : ChildrenArrive(load) \/ FailureArrives(load)

(***************************************************************************)
(* What must hold                                                          *)
(***************************************************************************)

\* A directory that shows a spinner has a load of its own under way. When the
\* component has caught up with the store, a directory drawn as loaded has its
\* listing in the store; and a directory that was there all the time is drawn as
\* loaded if the store has its listing, and when it is open it is loaded or shows
\* its error. One that was deleted and made again is excepted: the subscription
\* that has seen it open does not load it again, and a load of the directory it
\* replaced may list it in the store.
ListingsAreDrawn ==
  /\ \A d \in TreeDirs \intersect tree.items : tree.state[d] = "loading" =>
        \E l \in treeLoads : l.dir = d /\ l.attempt = tree.attempt[d]
  /\ rendered /\ treeLoads = {} =>
       \A d \in TreeDirs \intersect tree.items :
         /\ tree.state[d] = "loaded" => store[d] # NoListing
         /\ d \notin treeActs.returned =>
              /\ store[d] # NoListing => tree.state[d] = "loaded"
              /\ d \in tree.expanded => tree.state[d] \in {"loaded", "error"}

=============================================================================
