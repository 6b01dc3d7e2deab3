---------------------------- MODULE ReviewItems -----------------------------
(***************************************************************************)
(* The items of a review as its pages arrive: the id of each, unique though a  *)
(* file may come twice (a change of its type is a deletion and an addition),   *)
(* and the item that a path of the navigation leads to                        *)
(* (diffsHubDataAccumulator.ts, reviewAdapter.ts).                             *)
(*                                                                         *)
(* A path and an id are sequences: a path's own parts, then what the ids add,  *)
(* which may be part of a file's name too.  The statistics and the status are  *)
(* left out: nothing of Gitna reads them from here.                           *)
(***************************************************************************)
EXTENDS Integers, Sequences, FiniteSets, SequencesExt

CONSTANT PageLists   \* reviews: pages of files [path, type]; a file is on one page

Deleted  == <<101>>  \* "?deleted"
Previous == <<102>>  \* "?previous"
Second   == <<103>>  \* "?2"

VARIABLES
  pages,     \* the pages still to come
  index,     \* the accumulator
  codeView   \* the items given to the CodeView: by the id they had, their place

itemVars == <<pages, index, codeView>>

EmptyIndex ==
  [items |-> <<>>, pending |-> <<>>, fileOrder |-> <<>>, pathToItemId |-> <<>>,
   current |-> <<>>, suffix |-> <<>>]

(***************************************************************************)
(* Ids                                                                     *)
(***************************************************************************)

Used(x, id) == id \in DOMAIN x.fileOrder
Numbered(base, n) == Append(base, -n)

\* createUniqueItemId: the suffixes of a base are not tried twice.
Suffix(x, base) ==
  LET from == IF base \in DOMAIN x.suffix THEN x.suffix[base] ELSE 2
  IN  CHOOSE n \in from..(from + Cardinality(DOMAIN x.fileOrder)) :
        /\ ~Used(x, Numbered(base, n))
        /\ \A m \in from..(n - 1) : Used(x, Numbered(base, m))

UniqueId(x, base) == IF Used(x, base) THEN Numbered(base, Suffix(x, base)) ELSE base
Tried(x, base) == IF Used(x, base) THEN (base :> Suffix(x, base) + 1) @@ x.suffix ELSE x.suffix

Without(f, a) == [b \in DOMAIN f \ {a} |-> f[b]]

\* The item that a path has makes room for another.
RenameCurrent(x, path) ==
  LET was  == x.current[path]
      base == path \o (IF was.type = "deleted" THEN Deleted ELSE Previous)
      id   == UniqueId(x, base)
  IN  [x EXCEPT !.suffix = Tried(x, base),
                !.items[was.item].id = id,
                !.fileOrder = (id :> x.fileOrder[was.id]) @@ Without(@, was.id),
                !.current[path].id = id]

\* appendFileDiffToDiffsHubData
AppendFile(x, file) ==
  LET y     == IF file.path \in DOMAIN x.current THEN RenameCurrent(x, file.path) ELSE x
      base  == file.path \o Second
      id    == IF Used(y, file.path) THEN UniqueId(y, base) ELSE file.path
      place == Len(y.items) + 1
  IN  [y EXCEPT !.suffix = IF Used(y, file.path) THEN Tried(y, base) ELSE @,
                !.items = Append(@, [id |-> id, path |-> file.path]),
                !.pending = Append(@, place),
                !.fileOrder = (id :> place) @@ @,
                !.pathToItemId = (file.path :> id) @@ @,
                !.current = (file.path :> [item |-> place, id |-> id, type |-> file.type]) @@ @]

(***************************************************************************)
(* Pages                                                                   *)
(***************************************************************************)

\* appendGitnaReviewPage: the files of the patch and the supplements, then the
\* items that are new go to the CodeView.
PageArrives ==
  /\ pages # <<>> /\ pages' = Tail(pages)
  /\ LET x == FoldLeft(AppendFile, index, Head(pages))
     IN  /\ index' = [x EXCEPT !.pending = <<>>]
         /\ codeView' = [id \in {x.items[i].id : i \in ToSet(x.pending)} |->
                          CHOOSE i \in ToSet(x.pending) : x.items[i].id = id] @@ codeView

ItemsInit == pages \in PageLists /\ index = EmptyIndex /\ codeView = <<>>
ItemsNext == PageArrives

(***************************************************************************)
(* What must hold                                                          *)
(***************************************************************************)

\* Every item of the review is in the CodeView under an id of its own, and a path
\* leads to the last item of its file, whatever the files are called.
PathsLeadToItems ==
  /\ Cardinality(DOMAIN codeView) = Len(index.items)
  /\ \A id \in DOMAIN codeView : index.items[codeView[id]].id = id /\ index.fileOrder[id] = codeView[id]
  /\ \A path \in DOMAIN index.pathToItemId :
       codeView[index.pathToItemId[path]] =
         Max({i \in DOMAIN index.items : index.items[i].path = path})

=============================================================================
