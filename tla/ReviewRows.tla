----------------------------- MODULE ReviewRows -----------------------------
(***************************************************************************)
(* The rows of the review grid as values: how a landing scan folds into    *)
(* them (frontend/src/rowmerge.js, evidence.js) and how a duplicate        *)
(* cluster is merged, split and reverted (applyGroupAction of              *)
(* ReviewPage.jsx).                                                        *)
(*                                                                         *)
(* A row is the source columns it carries, its term, its category, the     *)
(* definition and the evidence a scan saw; numbers stand for the texts.    *)
(* A term is a sequence: <<t>> is a plain name and the later members are   *)
(* what a disambiguation appended to it.                                   *)
(***************************************************************************)
EXTENDS Naturals, Sequences, FiniteSets, SequencesExt

CONSTANTS
  TableOf,  \* the table of every source column
  Cat       \* the categories steward and model use

Col == DOMAIN TableOf

ASSUME RowsAssumption == TableOf \in [Col -> Nat] /\ Cat \subseteq Nat

None    == 0
NoGroup == << >>
NoTerm  == << >>

Name == Seq(Nat) \ {NoTerm}
Row  == [cols : Seq(Col), term : Name, cat : Cat, def : 0 .. 2,
         ev : [shape : Nat, values : Nat], keep : BOOLEAN, key : BOOLEAN, sure : BOOLEAN,
         sug : Seq(Nat), grp : Seq(Nat)]

(* The subsequence of s at the positions in I, in their order.             *)
Picked(s, I) ==
  LET pick[n \in 0 .. Len(s)] ==
        IF n = 0 THEN << >>
        ELSE IF n \in I THEN Append(pick[n - 1], s[n]) ELSE pick[n - 1]
  IN  pick[Len(s)]

ColsOf(rows)    == UNION {ToSet(rows[i].cols) : i \in DOMAIN rows}
Columns(rows)   == [i \in DOMAIN rows |-> rows[i].cols]
TermsOf(rows)   == {rows[i].term : i \in DOMAIN rows}
KeptRows(rows)  == {i \in DOMAIN rows : rows[i].keep}

(* The member a merge starts from: the first of those with most definition.*)
Richest(g) == CHOOSE i \in DOMAIN g : \A j \in DOMAIN g :
                /\ g[j].def <= g[i].def
                /\ g[j].def = g[i].def => i <= j

(* A table-level term has no source column and is always kept.             *)
TableTerm(r) == r.cols = << >>

-----------------------------------------------------------------------------
(* evidence.js and rowmerge.js.                                            *)

(* A scan that saw a shape brings it; when the steward asked for the fresh *)
(* reading, a scan that saw anything replaces both halves, blanks too.     *)
Observed(e) == e.shape # None \/ e.values # None

MergedEvidence(old, new, fresh) ==
  LET Pick(a, b) == IF b # None \/ (fresh /\ Observed(new)) THEN b ELSE a
  IN  [shape |-> Pick(old.shape, new.shape), values |-> Pick(old.values, new.values)]

AppendedCols(old, new) == old \o Picked(new, {k \in DOMAIN new : ~Contains(old, new[k])})

FoldedReplacing(base, new, fresh) ==  \* mutant: the scan's own columns replace the row's
  [base EXCEPT !.cols = new.cols, !.ev = MergedEvidence(@, new.ev, fresh)]

(* The owner's edits and Keep stand; columns and evidence are absorbed.    *)
Folded(base, new, fresh) ==
  [base EXCEPT !.cols = AppendedCols(@, new.cols),
               !.ev = MergedEvidence(@, new.ev, fresh)]

(* The walk knows a row by the columns it had when it was indexed: those   *)
(* that it absorbs later are not looked up.                                *)
OwnerByColumn(known, r) ==
  LET hit(c) == {i \in DOMAIN known : Contains(known[i].cols, c)}
      found  == {k \in DOMAIN r.cols : hit(r.cols[k]) # {}}
  IN  IF found = {} THEN None ELSE Min(hit(r.cols[Min(found)]))

OwnerByTerm(known, r) ==
  LET hit == {i \in DOMAIN known : TableTerm(known[i]) /\ known[i].term = r.term}
  IN  IF hit = {} THEN None ELSE Min(hit)

OwnerIn(known, r) == IF TableTerm(r) THEN OwnerByTerm(known, r) ELSE OwnerByColumn(known, r)

Walked(w, r, fresh) ==
  LET o == OwnerIn(w.known, r)
  IN  IF o # None
        THEN [w EXCEPT !.rows[o] = Folded(@, r, fresh), !.dup = @ + 1]
        ELSE [w EXCEPT !.rows = Append(@, r), !.known = Append(@, r)]

FoldWalk(acc, incoming, fresh) ==
  LET walk[n \in 0 .. Len(incoming)] ==
        IF n = 0 THEN [rows |-> acc, known |-> acc, dup |-> 0]
        ELSE Walked(walk[n - 1], incoming[n], fresh)
  IN  walk[Len(incoming)]

MergeBySource(existing, incoming, fresh) == FoldWalk(existing, incoming, fresh).rows

(* No two rows carry one column, no two sourceless rows one name.          *)
Healthy(rows) ==
  \A i, j \in DOMAIN rows : i < j =>
    IF TableTerm(rows[j]) THEN TableTerm(rows[i]) => rows[i].term # rows[j].term
    ELSE ToSet(rows[i].cols) \cap ToSet(rows[j].cols) = {}

SameSourceCount(rows) == IF Healthy(rows) THEN 0 ELSE FoldWalk(<< >>, rows, FALSE).dup
SelfFold(rows)        == FoldWalk(<< >>, rows, FALSE).rows

-----------------------------------------------------------------------------
(* Duplicate clusters: rows sharing their current name.  Table terms and   *)
(* structural keys the scan pruned never cluster.                          *)
Clusters(r)     == ~TableTerm(r) /\ ~(r.key /\ ~r.keep)
InCluster(r, n) == Clusters(r) /\ r.term = n
IsMember(r, n)  == InCluster(r, n) \/ r.grp = n
ClusterOf(rows, n)  == {i \in DOMAIN rows : InCluster(rows[i], n)}
DuplicateNames(rows) == {n \in TermsOf(rows) : Cardinality(ClusterOf(rows, n)) > 1}

(* One term linked to all the columns: the best definition represents it.  *)
AllCols(g) ==
  LET cols[n \in 0 .. Len(g)] ==
        IF n = 0 THEN << >> ELSE AppendedCols(cols[n - 1], g[n].cols)
  IN  cols[Len(g)]

Merged(g) == [g[Richest(g)] EXCEPT !.cols = AllCols(g), !.keep = TRUE]

(* A member gets its table, then its category, then the first counter that *)
(* makes a name nobody has: of more counters than names one is free.       *)
OwnTable(r) == IF TableTerm(r) THEN r.cat ELSE TableOf[Head(r.cols)]

FreeCounters(stem, taken) ==
  {k \in 2 .. Cardinality(taken) + 2 : Append(stem, k) \notin taken}

SplitName(t, r, taken) ==
  LET byTable == Append(t, OwnTable(r))
      byCat   == Append(t, r.cat)
  IN  IF byTable \notin taken THEN byTable
      ELSE IF byCat \notin taken THEN byCat
      ELSE Append(byTable, Min(FreeCounters(byTable, taken)))

SplitUntaken(g, taken) ==  \* mutant: two members of one table get one name
  [i \in DOMAIN g |-> [g[i] EXCEPT !.term = SplitName(Head(g).term, g[i], {})]]

Split(g, taken) ==
  LET made[n \in 0 .. Len(g)] ==
        IF n = 0 THEN << >>
        ELSE LET now == taken \cup TermsOf(made[n - 1])
             IN  Append(made[n - 1], [g[n] EXCEPT !.term = SplitName(Head(g).term, g[n], now)])
  IN  made[Len(g)]

Stamped(g, n) == [i \in DOMAIN g |-> [g[i] EXCEPT !.grp = n]]

Mine(rows, n)    == {i \in DOMAIN rows : IsMember(rows[i], n)}
Members(rows, n) == Picked(rows, Mine(rows, n))
Others(rows, n)  == Picked(rows, DOMAIN rows \ Mine(rows, n))

(* The rows that take the members' place, at the first member's place.     *)
Ahead(rows, n) == {i \in DOMAIN rows : \A j \in Mine(rows, n) : i < j}

Replaced(rows, n, derived) ==
  Picked(rows, Ahead(rows, n)) \o derived
    \o Picked(rows, DOMAIN rows \ (Mine(rows, n) \cup Ahead(rows, n)))

(* merge and split snapshot the members as they are now; "separate"        *)
(* restores that snapshot and forgets the group.                           *)
Without(grp, n) == [m \in DOMAIN grp \ {n} |-> grp[m]]
With(grp, n, d) == [m \in DOMAIN grp \cup {n} |-> IF m = n THEN d ELSE grp[m]]

Decided(rows, grp, n, action) ==
  LET live == Members(rows, n)
      made == IF action = "merge" THEN <<Merged(live)>>
              ELSE Split(live, TermsOf(Others(rows, n)))
  IN  [rows |-> Replaced(rows, n, Stamped(made, n)),
       grp  |-> With(grp, n, [action |-> action, base |-> live])]

RevertedToLive(rows, grp, n) ==  \* mutant: the snapshot is not restored
  [rows |-> Replaced(rows, n, Stamped(Members(rows, n), NoGroup)), grp |-> Without(grp, n)]

Reverted(rows, grp, n) ==
  LET base == IF n \in DOMAIN grp THEN grp[n].base ELSE Members(rows, n)
  IN  [rows |-> Replaced(rows, n, Stamped(base, NoGroup)), grp |-> Without(grp, n)]

GroupAction(rows, grp, n, action) ==
  IF Members(rows, n) = << >> /\ (action # "separate" \/ n \notin DOMAIN grp)
    THEN [rows |-> rows, grp |-> grp]
  ELSE IF action = "separate" THEN Reverted(rows, grp, n)
  ELSE Decided(rows, grp, n, action)
=============================================================================
