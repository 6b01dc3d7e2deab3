----------------------------- MODULE GraphLanes -----------------------------
(***************************************************************************)
(* The lanes of the commit graph (web/src/lib/graph-lanes.ts): the rows of a  *)
(* page computed from its commits, and a further page from the last row alone. *)
(*                                                                         *)
(* Commits are numbered in the order of the history, newest first; columns    *)
(* count from 1.                                                            *)
(***************************************************************************)
EXTENDS Integers, Sequences, FiniteSets, SequencesExt

CONSTANTS
  LaneHistories,   \* the histories: of every commit its parents, in order
  Loaded           \* commits that are loaded; the others are only parents

None == 0        \* no commit waits in a column
Hole == -1       \* an element that was never assigned: not null for the code

VARIABLES
  parents,   \* the history: the parents of every commit
  rows       \* graphRows

lanesVars == <<parents, rows>>

(***************************************************************************)
(* Columns                                                                 *)
(***************************************************************************)

\* lanes[column] = oid, which lengthens the array when it must.
Put(lanes, column, oid) ==
  [i \in 1..Max({Len(lanes), column}) |->
     IF i = column THEN oid ELSE IF i <= Len(lanes) THEN lanes[i] ELSE Hole]

\* The columns at the end that nothing waits in are dropped.
Trimmed(lanes) == SubSeq(lanes, 1, Max({0} \union {i \in DOMAIN lanes : lanes[i] # None}))

Waiting(lanes, oid) == {i \in DOMAIN lanes : lanes[i] = oid}

ClaimColumn(s) == IF s.freed = {} THEN Len(s.lanes) + 1 ELSE Min(s.freed)

\* A parent after the first claims a column.
Claimed(s, parent) ==
  LET column == ClaimColumn(s)
  IN  [s EXCEPT !.lanes = Put(@, column, parent), !.freed = @ \ {column},
                !.outgoing = Append(@, column)]

(***************************************************************************)
(* Rows                                                                    *)
(***************************************************************************)

\* computeGraphFrom, one commit.
WithRow(s, oid) ==
  LET waiting  == Waiting(s.lanes, oid)
      node     == IF waiting # {} THEN Min(waiting) ELSE ClaimColumn(s)
      incoming == {[column |-> i, next |-> s.lanes[i]] : i \in {j \in DOMAIN s.lanes : s.lanes[j] # None}}
      bent     == [i \in DOMAIN s.lanes |-> IF i \in waiting \ {node} THEN None ELSE s.lanes[i]]
      first    == IF parents[oid] = <<>> THEN None ELSE Head(parents[oid])
      below    == [lanes    |-> Put(bent, node, first),
                   freed    |-> ((s.freed \union waiting) \ {node}) \union (IF first = None THEN {node} ELSE {}),
                   outgoing |-> IF first = None THEN <<>> ELSE <<node>>]
      after    == FoldLeft(Claimed, below, IF first = None THEN <<>> ELSE Tail(parents[oid]))
      lanes    == Trimmed(after.lanes)
  IN  [lanes |-> lanes, freed |-> after.freed,
       rows  |-> Append(s.rows, [oid |-> oid, column |-> node, lanes |-> incoming,
                                 outgoing |-> after.outgoing,
                                 total |-> Max({node, Len(lanes)} \union {l.column : l \in incoming})])]

ComputeGraphFrom(oids, lanes) ==
  FoldLeft(WithRow, [lanes |-> lanes, freed |-> Waiting(lanes, None), rows |-> <<>>], oids).rows

ComputeGraph(oids) == ComputeGraphFrom(oids, <<>>)

\* What the last row leaves below it, as appendGraph finds out.
LanesBelow(last) ==
  LET width == Max({last.total, last.column} \union {l.column : l \in last.lanes} \union ToSet(last.outgoing))
      above == [i \in 1..width |->
                  IF \E l \in last.lanes : l.column = i /\ (l.next # last.oid \/ i = last.column)
                  THEN (CHOOSE l \in last.lanes : l.column = i).next ELSE None]
      first == IF parents[last.oid] = <<>> THEN None ELSE Head(parents[last.oid])
      Parent(lanes, parent) ==
        Put(lanes, IF Waiting(lanes, None) = {} THEN Len(lanes) + 1 ELSE Min(Waiting(lanes, None)), parent)
  IN  Trimmed(FoldLeft(Parent, Put(above, last.column, first),
                       IF first = None THEN <<>> ELSE Tail(parents[last.oid])))

AppendGraph(existing, oids) ==
  IF existing = <<>> THEN ComputeGraph(oids)
  ELSE existing \o ComputeGraphFrom(oids, LanesBelow(Last(existing)))

(***************************************************************************)
(* Pages                                                                   *)
(***************************************************************************)

Page(from, size) == [i \in 1..size |-> from + i]

ReadGraph == \E size \in 1..Loaded : rows' = ComputeGraph(Page(0, size)) /\ UNCHANGED parents
LoadMore ==
  /\ rows # <<>>
  /\ \E size \in 1..(Loaded - Len(rows)) : rows' = AppendGraph(rows, Page(Len(rows), size))
  /\ UNCHANGED parents

LanesInit == parents \in LaneHistories /\ rows = <<>>

LanesNext == ReadGraph \/ LoadMore

(***************************************************************************)
(* What must hold                                                          *)
(***************************************************************************)

\* However the pages were cut, the rows are those of the whole; the lanes that
\* enter a row are of the parents still to come; and the line from a commit to each
\* of its parents is drawn in one column through every row between them.
EdgesAreDrawn ==
  /\ rows = ComputeGraph(Page(0, Len(rows)))
  /\ \A k \in DOMAIN rows :
       /\ {l.next : l \in rows[k].lanes} = UNION {ToSet(parents[i]) : i \in 1..(k - 1)} \ (1..(k - 1))
       /\ \A l \in rows[k].lanes : l.column <= rows[k].total
       /\ \A p \in ToSet(parents[k]) : \E c \in ToSet(rows[k].outgoing) :
            \A m \in (k + 1)..Min({p, Len(rows)}) : [column |-> c, next |-> p] \in rows[m].lanes

=============================================================================
