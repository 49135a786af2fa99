----------------------------- MODULE ReviewProofs -----------------------------
(***************************************************************************)
(* For any tables, categories, grids, scans, names, chunk and bounds:      *)
(* every state of the Review page is typed; no pill strays from its row    *)
(* while the grid is not exchanged under a call; decisions, repairs and    *)
(* landing scans lose no source column; a disambiguation separates its     *)
(* members from every other row; and a decision taken back at once leaves  *)
(* the rows there were.                                                    *)
(***************************************************************************)
EXTENDS Review, TLAPS, FiniteSetTheorems, WellFoundedInduction

-----------------------------------------------------------------------------
(* Steps along a segment of the naturals.                                  *)

(* A nonempty set of naturals has a least element.                         *)
LEMMA LeastExists ==
  ASSUME NEW S \in SUBSET Nat, S # {}
  PROVE  Min(S) \in S /\ \A y \in S : Min(S) <= y
<1>1. PICK x \in S : \A y \in S : ~(<<y, x>> \in OpToRel(<, Nat))
  BY NatLessThanWellFounded, WFMin
<1>2. \A y \in S : ~(y < x)
  BY <1>1 DEF OpToRel
<1>3. \A y \in S : x <= y
  BY <1>2
<1>4. QED  BY <1>3 DEF Min

(* What holds of 0 and passes from each number to the next holds up to N.  *)
LEMMA Stepwise ==
  ASSUME NEW N \in Nat, NEW P, 0 \in P,
         \A m \in 0 .. N : m \in P /\ m < N => m + 1 \in P
  PROVE  \A m \in 0 .. N : m \in P
<1> DEFINE Bad == {m \in 0 .. N : m \notin P}
<1>1. SUFFICES ASSUME Bad # {} PROVE FALSE
  OBVIOUS
<1>2. Bad \in SUBSET Nat
  OBVIOUS
<1>3. PICK x \in Bad : \A y \in Bad : x <= y
  <2> HIDE DEF Bad
  <2>1. QED  BY <1>1, <1>2, LeastExists
<1>4. x # 0 /\ x - 1 \in 0 .. N /\ x - 1 \notin Bad
  BY <1>3
<1>5. QED  BY <1>3, <1>4

Steps(f, N, S, b, h) ==
  f \in [0 .. N -> S] /\ f[0] = b /\ \A n \in 1 .. N : f[n] = h[n][f[n - 1]]

(* A function is defined by its first value and its steps, as long as the  *)
(* steps stay within some set.                                             *)
LEMMA StepsDefine ==
  ASSUME NEW N \in Nat, NEW S, NEW b \in S, NEW h,
         \A n \in 1 .. N : \A w \in S : h[n][w] \in S
  PROVE  \E f : Steps(f, N, S, b, h)
<1> DEFINE Defined == {m \in 0 .. N : \E f \in [0 .. m -> S] :
                         f[0] = b /\ \A n \in 1 .. m : f[n] = h[n][f[n - 1]]}
<1>1. 0 \in Defined
  <2>1. PICK f : f = [n \in 0 .. 0 |-> b]
    OBVIOUS
  <2>2. f \in [0 .. 0 -> S] /\ f[0] = b
    BY <2>1
  <2>3. QED  BY <2>2
<1>2. ASSUME NEW m \in 0 .. N, m \in Defined, m < N PROVE m + 1 \in Defined
  <2>1. PICK f \in [0 .. m -> S] : f[0] = b /\ \A n \in 1 .. m : f[n] = h[n][f[n - 1]]
    BY <1>2
  <2>2. PICK x : x = h[m + 1][f[m]]
    OBVIOUS
  <2>3. x \in S
    <3>1. m + 1 \in 1 .. N /\ f[m] \in S
      BY <1>2
    <3>2. QED  BY <2>2, <3>1
  <2>4. PICK g : g = [n \in 0 .. m + 1 |-> IF n = m + 1 THEN x ELSE f[n]]
    OBVIOUS
  <2>5. g \in [0 .. m + 1 -> S] /\ g[0] = b /\ g[m + 1] = x /\ g[m] = f[m]
    BY <2>1, <2>3, <2>4
  <2>6. ASSUME NEW n \in 1 .. m + 1 PROVE g[n] = h[n][g[n - 1]]
    <3>1. CASE n = m + 1
      <4>1. n - 1 = m /\ g[n] = x /\ g[n - 1] = f[m]
        BY <1>2, <2>5, <3>1
      <4>2. QED  BY <2>2, <3>1, <4>1
    <3>2. CASE n # m + 1
      <4>1. n \in 1 .. m /\ g[n] = f[n] /\ g[n - 1] = f[n - 1]
        BY <2>4, <3>2
      <4>2. QED  BY <2>1, <4>1
    <3>3. QED  BY <3>1, <3>2
  <2>7. QED  BY <1>2, <2>5, <2>6
<1>3. N \in Defined
  <2> HIDE DEF Defined
  <2>1. QED  BY <1>1, <1>2, Stepwise
<1>4. QED  BY <1>3 DEF Steps

-----------------------------------------------------------------------------
(* Picked.                                                                 *)

Picks(p, s, I, S) ==
  /\ p \in [0 .. Len(s) -> Seq(S)] /\ p[0] = << >>
  /\ \A n \in 1 .. Len(s) : p[n] = IF n \in I THEN Append(p[n - 1], s[n]) ELSE p[n - 1]

(* The subsequence is built element by element.                            *)
LEMMA PickedSteps ==
  ASSUME NEW S, NEW s \in Seq(S), NEW I
  PROVE  \E p : Picks(p, s, I, S) /\ Picked(s, I) = p[Len(s)]
<1>1. PICK N, T, e : N = Len(s) /\ T = Seq(S) /\ e = << >>
  OBVIOUS
<1>2. N \in Nat /\ e \in T /\ \A n \in 1 .. N : s[n] \in S
  BY <1>1
<1> DEFINE Step(w, n) == IF n \in I THEN Append(w, s[n]) ELSE w
           Body(g) == [n \in 0 .. N |-> IF n = 0 THEN e ELSE Step(g[n - 1], n)]
<1>3. \A n \in 1 .. N : \A w \in T : Step(w, n) \in T
  BY <1>1, <1>2
<1> HIDE DEF Step
<1>4. PICK h : h = [n \in 1 .. N |-> [w \in T |-> Step(w, n)]]
  OBVIOUS
<1>5. \A n \in 1 .. N : \A w \in T : h[n][w] = Step(w, n)
  BY <1>4
<1>6. \A n \in 1 .. N : \A w \in T : h[n][w] \in T
  BY <1>3, <1>5
<1>7. PICK f : Steps(f, N, T, e, h)
  BY <1>2, <1>6, StepsDefine
<1>8. ASSUME NEW n \in 1 .. N PROVE f[n] = Step(f[n - 1], n)
  <2>1. n - 1 \in 0 .. N /\ f[n - 1] \in T
    BY <1>2, <1>7 DEF Steps
  <2>2. QED  BY <1>5, <1>7, <2>1 DEF Steps
<1>9. f = Body(f)
  <2>1. \A n \in 0 .. N : f[n] = IF n = 0 THEN e ELSE Step(f[n - 1], n)
    BY <1>2, <1>7, <1>8 DEF Steps
  <2>2. QED  BY <1>7, <2>1 DEF Steps
<1>10. PICK p : p = CHOOSE g : g = Body(g)
  OBVIOUS
<1>11. p = Body(p)
  <2> HIDE DEF Body
  <2>1. QED  BY <1>9, <1>10
<1>12. Picked(s, I) = p[N]
  BY <1>1, <1>10 DEF Picked, Step
<1>13. p[0] = e /\ \A n \in 1 .. N : p[n] = Step(p[n - 1], n)
  BY <1>2, <1>11
<1>14. \A n \in 0 .. N : p[n] \in T
  <2> DEFINE P == {n \in 0 .. N : p[n] \in T}
  <2>1. 0 \in P
    BY <1>2, <1>13
  <2>2. ASSUME NEW n \in 0 .. N, n \in P, n < N PROVE n + 1 \in P
    <3>1. n + 1 \in 1 .. N /\ (n + 1) - 1 = n
      BY <1>2, <2>2
    <3>2. p[n + 1] = Step(p[n], n + 1)
      BY <1>13, <3>1
    <3>3. QED  BY <1>3, <2>2, <3>1, <3>2
  <2> HIDE DEF P
  <2>3. \A n \in 0 .. N : n \in P
    BY <1>2, <2>1, <2>2, Stepwise
  <2>4. QED  BY <2>3 DEF P
<1>15. p \in [0 .. N -> T]
  BY <1>11, <1>14
<1>16. QED  BY <1>1, <1>12, <1>13, <1>15 DEF Step, Picks

LEMMA ToSetAppend ==
  ASSUME NEW S, NEW s \in Seq(S), NEW x \in S
  PROVE  ToSet(Append(s, x)) = ToSet(s) \cup {x}
<1>1. DOMAIN s = 1 .. Len(s) /\ DOMAIN Append(s, x) = 1 .. Len(s) + 1
  OBVIOUS
<1>2. Append(s, x)[Len(s) + 1] = x /\ \A i \in 1 .. Len(s) : Append(s, x)[i] = s[i]
  OBVIOUS
<1>3. QED  BY <1>1, <1>2 DEF ToSet

LEMMA ToSetConcat ==
  ASSUME NEW S, NEW s \in Seq(S), NEW t \in Seq(S)
  PROVE  ToSet(s \o t) = ToSet(s) \cup ToSet(t)
<1>1. /\ DOMAIN s = 1 .. Len(s) /\ DOMAIN t = 1 .. Len(t)
      /\ DOMAIN (s \o t) = 1 .. Len(s) + Len(t) /\ Len(s) \in Nat /\ Len(t) \in Nat
  OBVIOUS
<1>2. \A i \in 1 .. Len(s) : i \in DOMAIN (s \o t) /\ (s \o t)[i] = s[i]
  OBVIOUS
<1>3. \A j \in 1 .. Len(t) : Len(s) + j \in DOMAIN (s \o t) /\ (s \o t)[Len(s) + j] = t[j]
  OBVIOUS
<1>4. ASSUME NEW i \in DOMAIN (s \o t) PROVE (s \o t)[i] \in ToSet(s) \cup ToSet(t)
  <2>1. CASE i <= Len(s)
    BY <1>1, <1>2, <2>1 DEF ToSet
  <2>2. CASE i > Len(s)
    <3>1. i - Len(s) \in 1 .. Len(t) /\ Len(s) + (i - Len(s)) = i
      BY <1>1, <2>2
    <3>2. QED  BY <1>1, <1>3, <3>1 DEF ToSet
  <2>3. QED  BY <1>1, <2>1, <2>2
<1>5. ToSet(s \o t) \subseteq ToSet(s) \cup ToSet(t)
  BY <1>4 DEF ToSet
<1>6. ToSet(s) \subseteq ToSet(s \o t)
  BY <1>1, <1>2 DEF ToSet
<1>7. ToSet(t) \subseteq ToSet(s \o t)
  BY <1>1, <1>3 DEF ToSet
<1>8. QED  BY <1>5, <1>6, <1>7

(* The subsequence at the positions in I holds the elements at I.          *)
LEMMA PickedIs ==
  ASSUME NEW S, NEW s \in Seq(S), NEW I
  PROVE  Picked(s, I) \in Seq(S) /\ ToSet(Picked(s, I)) = {s[i] : i \in I \cap DOMAIN s}
<1>1. PICK p : Picks(p, s, I, S) /\ Picked(s, I) = p[Len(s)]
  BY PickedSteps
<1>2. PICK N : N = Len(s)
  OBVIOUS
<1>3. N \in Nat /\ DOMAIN s = 1 .. N /\ \A n \in 1 .. N : s[n] \in S
  BY <1>2
<1> DEFINE P == {n \in 0 .. N : ToSet(p[n]) = {s[i] : i \in I \cap (1 .. n)}}
<1>4. 0 \in P
  BY <1>1, <1>3 DEF Picks, ToSet
<1>5. ASSUME NEW n \in 0 .. N, n \in P, n < N PROVE n + 1 \in P
  <2>1. n + 1 \in 1 .. N /\ (n + 1) - 1 = n /\ p[n] \in Seq(S) /\ s[n + 1] \in S
    <3>1. n + 1 \in 1 .. N /\ (n + 1) - 1 = n
      BY <1>3, <1>5
    <3>2. p \in [0 .. N -> Seq(S)]
      BY <1>1, <1>2 DEF Picks
    <3>3. p[n] \in Seq(S)
      BY <3>2
    <3>4. QED  BY <1>3, <3>1, <3>3
  <2>2. 1 .. n + 1 = (1 .. n) \cup {n + 1}
    BY <1>3
  <2>3. CASE n + 1 \in I
    <3>1. p[n + 1] = Append(p[n], s[n + 1])
      BY <1>1, <1>2, <2>1, <2>3 DEF Picks
    <3>2. ToSet(p[n + 1]) = ToSet(p[n]) \cup {s[n + 1]}
      BY <2>1, <3>1, ToSetAppend
    <3>3. QED  BY <1>5, <2>1, <2>2, <2>3, <3>2
  <2>4. CASE n + 1 \notin I
    <3>1. p[n + 1] = p[n]
      BY <1>1, <1>2, <2>1, <2>4 DEF Picks
    <3>2. I \cap (1 .. n + 1) = I \cap (1 .. n)
      BY <2>2, <2>4
    <3>3. QED  BY <1>5, <2>1, <3>1, <3>2
  <2>5. QED  BY <2>3, <2>4
<1>6. N \in P
  <2> HIDE DEF P
  <2>1. QED  BY <1>3, <1>4, <1>5, Stepwise
<1>7. QED  BY <1>1, <1>2, <1>3, <1>6 DEF Picks

-----------------------------------------------------------------------------
(* Folding a scan into the grid.                                           *)

(* Appending a scan's columns loses none of either side.                   *)
LEMMA AppendedColsIs ==
  ASSUME NEW S, NEW old \in Seq(S), NEW new \in Seq(S)
  PROVE  AppendedCols(old, new) \in Seq(S)
         /\ ToSet(AppendedCols(old, new)) = ToSet(old) \cup ToSet(new)
<1> DEFINE I == {k \in DOMAIN new : ~Contains(old, new[k])}
<1>1. PICK p : p = Picked(new, I)
  OBVIOUS
<1>2. p \in Seq(S) /\ ToSet(p) = {new[k] : k \in I \cap DOMAIN new}
  <2> HIDE DEF I
  <2>1. QED  BY <1>1, PickedIs
<1>3. AppendedCols(old, new) = old \o p
  BY <1>1 DEF AppendedCols
<1>4. ToSet(old \o p) = ToSet(old) \cup ToSet(p) /\ old \o p \in Seq(S)
  BY <1>2, ToSetConcat
<1>5. ASSUME NEW k \in DOMAIN new PROVE new[k] \in ToSet(old) \cup ToSet(p)
  <2>1. CASE k \in I
    BY <1>2, <2>1
  <2>2. CASE k \notin I
    <3>1. Contains(old, new[k])
      BY <2>2
    <3>2. QED  BY <3>1 DEF Contains, ToSet
  <2>3. QED  BY <2>1, <2>2
<1>6. ToSet(p) \subseteq ToSet(new)
  BY <1>2 DEF ToSet
<1>7. ToSet(new) \subseteq ToSet(old) \cup ToSet(p)
  BY <1>5 DEF ToSet
<1>8. QED  BY <1>3, <1>4, <1>6, <1>7

(* A folded row carries the columns of the row and of the scan.            *)
LEMMA FoldedIs ==
  ASSUME NEW b \in Row, NEW r \in Row, NEW fresh \in BOOLEAN
  PROVE  Folded(b, r, fresh) \in Row
         /\ ToSet(Folded(b, r, fresh).cols) = ToSet(b.cols) \cup ToSet(r.cols)
<1>1. PICK c, e : c = AppendedCols(b.cols, r.cols) /\ e = MergedEvidence(b.ev, r.ev, fresh)
  OBVIOUS
<1>2. b.cols \in Seq(Col) /\ r.cols \in Seq(Col)
  BY DEF Row
<1>3. c \in Seq(Col) /\ ToSet(c) = ToSet(b.cols) \cup ToSet(r.cols)
  BY <1>1, <1>2, AppendedColsIs
<1>4. e \in [shape : Nat, values : Nat]
  <2>1. /\ b.ev.shape \in Nat /\ b.ev.values \in Nat
        /\ r.ev.shape \in Nat /\ r.ev.values \in Nat
    BY DEF Row
  <2>2. QED  BY <1>1, <2>1 DEF MergedEvidence
<1>5. Folded(b, r, fresh) = [b EXCEPT !.cols = c, !.ev = e]
  BY <1>1 DEF Folded
<1>6. QED  BY <1>3, <1>4, <1>5 DEF Row

(* The walk finds a row that is in its index, or none.                     *)
LEMMA OwnerInKnown ==
  ASSUME NEW known \in Seq(Row), NEW r \in Row
  PROVE  OwnerIn(known, r) \in 0 .. Len(known)
<1>1. DOMAIN known = 1 .. Len(known) /\ Len(known) \in Nat
  OBVIOUS
<1>2. CASE TableTerm(r)
  <2> DEFINE hit == {i \in DOMAIN known : TableTerm(known[i]) /\ known[i].term = r.term}
  <2>1. hit # {} => Min(hit) \in hit
    <3>1. hit \in SUBSET Nat
      BY <1>1
    <3> HIDE DEF hit
    <3>2. QED  BY <3>1, LeastExists
  <2>2. QED  BY <1>1, <1>2, <2>1 DEF OwnerIn, OwnerByTerm, None
<1>3. CASE ~TableTerm(r)
  <2> DEFINE hit(c) == {i \in DOMAIN known : Contains(known[i].cols, c)}
             found  == {k \in DOMAIN r.cols : hit(r.cols[k]) # {}}
  <2>1. CASE found = {}
    BY <1>1, <1>3, <2>1 DEF OwnerIn, OwnerByColumn, None
  <2>2. CASE found # {}
    <3>1. Min(found) \in found
      <4>1. r.cols \in Seq(Col)
        BY DEF Row
      <4>2. found \in SUBSET Nat
        BY <4>1
      <4> HIDE DEF found
      <4>3. QED  BY <2>2, <4>2, LeastExists
    <3>2. PICK m, c : m = Min(found) /\ c = r.cols[m]
      OBVIOUS
    <3>3. hit(c) # {}
      <4>1. m \in found
        BY <3>1, <3>2
      <4>2. QED  BY <3>2, <4>1
    <3>4. Min(hit(c)) \in hit(c)
      <4>1. hit(c) \in SUBSET Nat
        BY <1>1
      <4> HIDE DEF hit
      <4>2. QED  BY <3>3, <4>1, LeastExists
    <3>5. OwnerIn(known, r) = Min(hit(c))
      BY <1>3, <2>2, <3>2 DEF OwnerIn, OwnerByColumn
    <3>6. QED  BY <1>1, <3>4, <3>5
  <2>3. QED  BY <2>1, <2>2
<1>4. QED  BY <1>2, <1>3

WalkState == {w \in [rows : Seq(Row), known : Seq(Row), dup : Nat] : Len(w.known) = Len(w.rows)}

(* Every row keeps its place and at least its columns.                     *)
Within(c, g) == \A i \in DOMAIN c : i \in DOMAIN g /\ ToSet(c[i]) \subseteq ToSet(g[i].cols)

LEMMA ColsOfIn ==
  ASSUME NEW g, NEW i \in DOMAIN g
  PROVE  ToSet(g[i].cols) \subseteq ColsOf(g)
BY DEF ColsOf

(* A grid that keeps every row's columns in place keeps the columns.       *)
LEMMA WithinCols ==
  ASSUME NEW g, NEW h, Within(Columns(g), h)
  PROVE  ColsOf(g) \subseteq ColsOf(h)
<1>1. ASSUME NEW i \in DOMAIN g PROVE ToSet(g[i].cols) \subseteq ColsOf(h)
  <2>1. i \in DOMAIN h /\ ToSet(g[i].cols) \subseteq ToSet(h[i].cols)
    BY DEF Within, Columns
  <2>2. QED  BY <2>1, ColsOfIn
<1>2. QED  BY <1>1 DEF ColsOf

(* One incoming row: the rows keep their places and columns, and the       *)
(* incoming columns have come in.                                          *)
LEMMA WalkedIs ==
  ASSUME NEW w \in WalkState, NEW r \in Row, NEW fresh \in BOOLEAN
  PROVE  /\ Walked(w, r, fresh) \in WalkState
         /\ Within(Columns(w.rows), Walked(w, r, fresh).rows)
         /\ ToSet(r.cols) \subseteq ColsOf(Walked(w, r, fresh).rows)
<1>1. PICK o, R, K : o = OwnerIn(w.known, r) /\ R = w.rows /\ K = w.known
  OBVIOUS
<1>2. /\ R \in Seq(Row) /\ K \in Seq(Row) /\ w.dup \in Nat /\ Len(K) = Len(R)
      /\ DOMAIN R = 1 .. Len(R) /\ Len(R) \in Nat
  BY <1>1 DEF WalkState
<1>3. o \in 0 .. Len(R)
  BY <1>1, <1>2, OwnerInKnown
<1>4. CASE o # None
  <2>1. o \in 1 .. Len(R) /\ R[o] \in Row
    BY <1>2, <1>3, <1>4 DEF None
  <2>2. PICK f : f = Folded(R[o], r, fresh)
    OBVIOUS
  <2>3. f \in Row /\ ToSet(f.cols) = ToSet(R[o].cols) \cup ToSet(r.cols)
    BY <2>1, <2>2, FoldedIs
  <2>4. PICK G : G = [R EXCEPT ![o] = f]
    OBVIOUS
  <2>5. /\ G \in Seq(Row) /\ Len(G) = Len(R) /\ DOMAIN G = 1 .. Len(R) /\ G[o] = f
        /\ \A i \in 1 .. Len(R) : i # o => G[i] = R[i]
    BY <1>2, <2>1, <2>3, <2>4
  <2>6. Walked(w, r, fresh) = [w EXCEPT !.rows = G, !.dup = w.dup + 1]
    BY <1>1, <1>4, <2>2, <2>4 DEF Walked
  <2>7. Walked(w, r, fresh) \in WalkState /\ Walked(w, r, fresh).rows = G
    <3>1. Walked(w, r, fresh) = [rows |-> G, known |-> K, dup |-> w.dup + 1]
      BY <1>1, <2>6 DEF WalkState
    <3>2. QED  BY <1>2, <2>5, <3>1 DEF WalkState
  <2>8. Within(Columns(R), G)
    BY <1>2, <2>3, <2>5 DEF Within, Columns
  <2>9. ToSet(r.cols) \subseteq ColsOf(G)
    BY <2>1, <2>3, <2>5, ColsOfIn
  <2>10. QED  BY <1>1, <2>7, <2>8, <2>9
<1>5. CASE o = None
  <2>1. PICK G, H : G = Append(R, r) /\ H = Append(K, r)
    OBVIOUS
  <2>2. /\ G \in Seq(Row) /\ H \in Seq(Row) /\ Len(G) = Len(H)
        /\ DOMAIN G = 1 .. Len(R) + 1 /\ G[Len(R) + 1] = r
        /\ \A i \in 1 .. Len(R) : G[i] = R[i]
    BY <1>2, <2>1
  <2>3. Walked(w, r, fresh) = [w EXCEPT !.rows = G, !.known = H]
    BY <1>1, <1>5, <2>1 DEF Walked
  <2>4. Walked(w, r, fresh) \in WalkState /\ Walked(w, r, fresh).rows = G
    BY <1>1, <1>2, <2>2, <2>3 DEF WalkState
  <2>5. Within(Columns(R), G)
    BY <1>2, <2>2 DEF Within, Columns
  <2>6. ToSet(r.cols) \subseteq ColsOf(G)
    <3>1. Len(R) + 1 \in DOMAIN G
      BY <1>2, <2>2
    <3>2. QED  BY <2>2, <3>1, ColsOfIn
  <2>7. QED  BY <1>1, <2>4, <2>5, <2>6
<1>6. QED  BY <1>4, <1>5

LEMMA WithinTransitive ==
  ASSUME NEW c, NEW g, NEW h, Within(c, g), Within(Columns(g), h)
  PROVE  Within(c, h)
BY DEF Within, Columns

(* A walk keeps the rows it starts from in their places, drops no column   *)
(* of theirs, and brings in every column that arrives.                     *)
LEMMA FoldWalkIs ==
  ASSUME NEW acc \in Seq(Row), NEW incoming \in Seq(Row), NEW fresh \in BOOLEAN
  PROVE  LET g == FoldWalk(acc, incoming, fresh).rows
         IN  /\ g \in Seq(Row) /\ Within(Columns(acc), g)
             /\ ColsOf(acc) \cup ColsOf(incoming) \subseteq ColsOf(g)
<1>1. PICK N, e : N = Len(incoming) /\ e = [rows |-> acc, known |-> acc, dup |-> 0]
  OBVIOUS
<1>2. /\ N \in Nat /\ e \in WalkState /\ e.rows = acc /\ DOMAIN incoming = 1 .. N
      /\ \A n \in 1 .. N : incoming[n] \in Row
  BY <1>1 DEF WalkState
<1> DEFINE Step(w, n) == Walked(w, incoming[n], fresh)
           Body(g) == [n \in 0 .. N |-> IF n = 0 THEN e ELSE Step(g[n - 1], n)]
<1>3. \A n \in 1 .. N : \A w \in WalkState :
        /\ Step(w, n) \in WalkState
        /\ Within(Columns(w.rows), Step(w, n).rows)
        /\ ToSet(incoming[n].cols) \subseteq ColsOf(Step(w, n).rows)
  BY <1>2, WalkedIs
<1> HIDE DEF Step
<1>4. PICK h : h = [n \in 1 .. N |-> [w \in WalkState |-> Step(w, n)]]
  OBVIOUS
<1>5. \A n \in 1 .. N : \A w \in WalkState : h[n][w] = Step(w, n)
  BY <1>4
<1>6. \A n \in 1 .. N : \A w \in WalkState : h[n][w] \in WalkState
  BY <1>3, <1>5
<1>7. PICK f : Steps(f, N, WalkState, e, h)
  BY <1>2, <1>6, StepsDefine
<1>8. ASSUME NEW n \in 1 .. N PROVE f[n] = Step(f[n - 1], n)
  <2>1. n - 1 \in 0 .. N /\ f[n - 1] \in WalkState
    BY <1>2, <1>7 DEF Steps
  <2>2. QED  BY <1>5, <1>7, <2>1 DEF Steps
<1>9. f = Body(f)
  <2>1. \A n \in 0 .. N : f[n] = IF n = 0 THEN e ELSE Step(f[n - 1], n)
    BY <1>2, <1>7, <1>8 DEF Steps
  <2>2. QED  BY <1>7, <2>1 DEF Steps
<1>10. PICK p : p = CHOOSE g : g = Body(g)
  OBVIOUS
<1>11. p = Body(p)
  <2> HIDE DEF Body
  <2>1. QED  BY <1>9, <1>10
<1>12. FoldWalk(acc, incoming, fresh) = p[N]
  BY <1>1, <1>10 DEF FoldWalk, Step
<1>13. p[0] = e /\ \A n \in 1 .. N : p[n] = Step(p[n - 1], n)
  BY <1>2, <1>11
<1> DEFINE P == {n \in 0 .. N : /\ p[n] \in WalkState /\ Within(Columns(acc), p[n].rows)
                                /\ \A k \in 1 .. n :
                                     ToSet(incoming[k].cols) \subseteq ColsOf(p[n].rows)}
<1>14. 0 \in P
  BY <1>2, <1>13 DEF Within, Columns
<1>15. ASSUME NEW n \in 0 .. N, n \in P, n < N PROVE n + 1 \in P
  <2>1. n + 1 \in 1 .. N /\ (n + 1) - 1 = n /\ p[n] \in WalkState
    BY <1>2, <1>15
  <2>2. PICK v, w : v = p[n] /\ w = p[n + 1]
    OBVIOUS
  <2>3. w = Step(v, n + 1)
    BY <1>13, <2>1, <2>2
  <2>4. /\ w \in WalkState /\ Within(Columns(v.rows), w.rows)
        /\ ToSet(incoming[n + 1].cols) \subseteq ColsOf(w.rows)
    BY <1>3, <2>1, <2>2, <2>3
  <2>5. Within(Columns(acc), w.rows)
    BY <1>15, <2>2, <2>4, WithinTransitive
  <2>6. ColsOf(v.rows) \subseteq ColsOf(w.rows)
    BY <2>4, WithinCols
  <2>7. ASSUME NEW k \in 1 .. n + 1
        PROVE  ToSet(incoming[k].cols) \subseteq ColsOf(w.rows)
    <3>1. CASE k = n + 1
      BY <2>4, <3>1
    <3>2. CASE k # n + 1
      <4>1. k \in 1 .. n
        BY <3>2, <1>2
      <4>2. QED  BY <1>15, <2>2, <2>6, <4>1
    <3>3. QED  BY <3>1, <3>2
  <2>8. QED  BY <2>1, <2>2, <2>4, <2>5, <2>7
<1>16. N \in P
  <2> HIDE DEF P
  <2>1. N \in Nat
    BY <1>2
  <2>2. \A n \in 0 .. N : n \in P
    BY <2>1, <1>14, <1>15, Stepwise
  <2>3. QED  BY <2>1, <2>2
<1>17. PICK v : v = p[N]
  OBVIOUS
<1>18. /\ v \in WalkState /\ Within(Columns(acc), v.rows)
       /\ \A k \in 1 .. N : ToSet(incoming[k].cols) \subseteq ColsOf(v.rows)
  BY <1>16, <1>17
<1>19. v.rows \in Seq(Row) /\ ColsOf(incoming) \subseteq ColsOf(v.rows)
  BY <1>2, <1>18 DEF WalkState, ColsOf
<1>20. ColsOf(acc) \subseteq ColsOf(v.rows)
  BY <1>18, WithinCols
<1>21. QED  BY <1>12, <1>17, <1>18, <1>19, <1>20

(* What landScanRows does to the grid.                                     *)
LEMMA MergeBySourceIs ==
  ASSUME NEW g \in Seq(Row), NEW s \in Seq(Row), NEW fresh \in BOOLEAN
  PROVE  /\ MergeBySource(g, s, fresh) \in Seq(Row)
         /\ Within(Columns(g), MergeBySource(g, s, fresh))
         /\ ColsOf(g) \cup ColsOf(s) \subseteq ColsOf(MergeBySource(g, s, fresh))
BY FoldWalkIs DEF MergeBySource

(* The repair of duplicated sources drops no column.                       *)
LEMMA SelfFoldIs ==
  ASSUME NEW g \in Seq(Row)
  PROVE  SelfFold(g) \in Seq(Row) /\ ColsOf(g) \subseteq ColsOf(SelfFold(g))
<1>1. << >> \in Seq(Row) /\ FALSE \in BOOLEAN
  OBVIOUS
<1>2. PICK e, no : e = << >> /\ no = FALSE
  OBVIOUS
<1>3. SelfFold(g) = FoldWalk(e, g, no).rows
  BY <1>2 DEF SelfFold
<1>4. QED  BY <1>1, <1>2, <1>3, FoldWalkIs

-----------------------------------------------------------------------------
(* Merging a cluster.                                                      *)

(* A merge links exactly the members' columns.                             *)
LEMMA AllColsIs ==
  ASSUME NEW g \in Seq(Row)
  PROVE  AllCols(g) \in Seq(Col) /\ ToSet(AllCols(g)) = ColsOf(g)
<1>1. PICK N, T, e : N = Len(g) /\ T = Seq(Col) /\ e = << >>
  OBVIOUS
<1>2. N \in Nat /\ e \in T /\ DOMAIN g = 1 .. N /\ \A n \in 1 .. N : g[n].cols \in T
  <2>1. N \in Nat /\ e \in T /\ DOMAIN g = 1 .. N /\ \A n \in 1 .. N : g[n] \in Row
    BY <1>1
  <2>2. \A r \in Row : r.cols \in T
    BY <1>1 DEF Row
  <2>3. QED  BY <2>1, <2>2
<1> DEFINE Step(w, n) == AppendedCols(w, g[n].cols)
           Body(q) == [n \in 0 .. N |-> IF n = 0 THEN e ELSE Step(q[n - 1], n)]
<1>3. \A n \in 1 .. N : \A w \in T :
        Step(w, n) \in T /\ ToSet(Step(w, n)) = ToSet(w) \cup ToSet(g[n].cols)
  BY <1>1, <1>2, AppendedColsIs
<1> HIDE DEF Step
<1>4. PICK h : h = [n \in 1 .. N |-> [w \in T |-> Step(w, n)]]
  OBVIOUS
<1>5. \A n \in 1 .. N : \A w \in T : h[n][w] = Step(w, n)
  BY <1>4
<1>6. \A n \in 1 .. N : \A w \in T : h[n][w] \in T
  BY <1>3, <1>5
<1>7. PICK f : Steps(f, N, T, e, h)
  BY <1>2, <1>6, StepsDefine
<1>8. ASSUME NEW n \in 1 .. N PROVE f[n] = Step(f[n - 1], n)
  <2>1. n - 1 \in 0 .. N /\ f[n - 1] \in T
    BY <1>2, <1>7 DEF Steps
  <2>2. QED  BY <1>5, <1>7, <2>1 DEF Steps
<1>9. f = Body(f)
  <2>1. \A n \in 0 .. N : f[n] = IF n = 0 THEN e ELSE Step(f[n - 1], n)
    BY <1>2, <1>7, <1>8 DEF Steps
  <2>2. QED  BY <1>7, <2>1 DEF Steps
<1>10. PICK p : p = CHOOSE q : q = Body(q)
  OBVIOUS
<1>11. p = Body(p)
  <2> HIDE DEF Body
  <2>1. QED  BY <1>9, <1>10
<1>12. AllCols(g) = p[N]
  BY <1>1, <1>10 DEF AllCols, Step
<1>13. p[0] = e /\ \A n \in 1 .. N : p[n] = Step(p[n - 1], n)
  BY <1>2, <1>11
<1> DEFINE P == {n \in 0 .. N :
                   /\ p[n] \in T
                   /\ \A c : c \in ToSet(p[n]) <=> \E k \in 1 .. n : c \in ToSet(g[k].cols)}
<1>14. 0 \in P
  <2>1. ToSet(e) = {}
    BY <1>1 DEF ToSet
  <2>2. QED  BY <1>2, <1>13, <2>1
<1>15. ASSUME NEW n \in 0 .. N, n \in P, n < N PROVE n + 1 \in P
  <2>1. n + 1 \in 1 .. N /\ (n + 1) - 1 = n /\ p[n] \in T
    BY <1>2, <1>15
  <2>2. p[n + 1] = Step(p[n], n + 1)
    BY <1>13, <2>1
  <2>3. p[n + 1] \in T /\ ToSet(p[n + 1]) = ToSet(p[n]) \cup ToSet(g[n + 1].cols)
    BY <1>3, <2>1, <2>2
  <2>4. 1 .. n + 1 = (1 .. n) \cup {n + 1}
    BY <1>2
  <2>5. ASSUME NEW c
        PROVE  c \in ToSet(p[n + 1]) <=> \E k \in 1 .. n + 1 : c \in ToSet(g[k].cols)
    <3>1. c \in ToSet(p[n]) <=> \E k \in 1 .. n : c \in ToSet(g[k].cols)
      BY <1>15
    <3>2. QED  BY <2>3, <2>4, <3>1
  <2>6. QED  BY <2>1, <2>3, <2>5
<1>16. N \in P
  <2> HIDE DEF P
  <2>1. N \in Nat
    BY <1>2
  <2>2. \A n \in 0 .. N : n \in P
    BY <2>1, <1>14, <1>15, Stepwise
  <2>3. QED  BY <2>1, <2>2
<1>17. \A c : c \in ToSet(p[N]) <=> c \in ColsOf(g)
  <2>1. \A c : c \in ToSet(p[N]) <=> \E k \in 1 .. N : c \in ToSet(g[k].cols)
    BY <1>16
  <2>2. QED  BY <1>2, <2>1 DEF ColsOf
<1>18. QED  BY <1>1, <1>12, <1>16, <1>17

(* There is a member with most definition.                                 *)
LEMMA RichestIs ==
  ASSUME NEW g \in Seq(Row), g # << >>
  PROVE  Richest(g) \in DOMAIN g
<1>1. DOMAIN g = 1 .. Len(g) /\ 1 \in DOMAIN g /\ \A i \in DOMAIN g : g[i].def \in 0 .. 2
  <2>1. DOMAIN g = 1 .. Len(g) /\ 1 \in DOMAIN g /\ \A i \in DOMAIN g : g[i] \in Row
    OBVIOUS
  <2>2. \A r \in Row : r.def \in 0 .. 2
    BY DEF Row
  <2>3. QED  BY <2>1, <2>2
<1> DEFINE Gap == {2 - g[i].def : i \in DOMAIN g}
           Best(m) == {i \in DOMAIN g : 2 - g[i].def = m}
<1>2. Gap \in SUBSET Nat /\ Gap # {}
  BY <1>1
<1>3. PICK m : m = Min(Gap)
  OBVIOUS
<1>4. m \in Gap /\ \A y \in Gap : m <= y
  <2> HIDE DEF Gap
  <2>1. QED  BY <1>2, <1>3, LeastExists
<1>5. Best(m) \in SUBSET Nat /\ Best(m) # {}
  BY <1>1, <1>4
<1>6. PICK i : i = Min(Best(m))
  OBVIOUS
<1>7. i \in Best(m) /\ \A y \in Best(m) : i <= y
  <2> HIDE DEF Best
  <2>1. QED  BY <1>5, <1>6, LeastExists
<1>8. i \in DOMAIN g /\ \A j \in DOMAIN g :
        /\ g[j].def <= g[i].def
        /\ g[j].def = g[i].def => i <= j
  <2>1. ASSUME NEW j \in DOMAIN g
        PROVE  g[j].def <= g[i].def /\ (g[j].def = g[i].def => i <= j)
    <3>1. 2 - g[j].def \in Gap /\ 2 - g[i].def = m
      BY <1>7
    <3>2. m <= 2 - g[j].def /\ g[i].def \in 0 .. 2 /\ g[j].def \in 0 .. 2
      BY <1>1, <1>4, <1>7, <3>1
    <3>3. g[j].def = g[i].def => j \in Best(m)
      BY <3>1
    <3>4. QED  BY <1>7, <3>1, <3>2, <3>3
  <2>2. QED  BY <1>7, <2>1
<1>9. QED  BY <1>8 DEF Richest

(* The merged member is a row with all the members' columns.               *)
LEMMA MergedIs ==
  ASSUME NEW g \in Seq(Row), g # << >>
  PROVE  Merged(g) \in Row /\ ToSet(Merged(g).cols) = ColsOf(g)
<1>1. PICK r, c : r = g[Richest(g)] /\ c = AllCols(g)
  OBVIOUS
<1>2. r \in Row /\ c \in Seq(Col) /\ ToSet(c) = ColsOf(g)
  BY <1>1, RichestIs, AllColsIs
<1>3. Merged(g) = [r EXCEPT !.cols = c, !.keep = TRUE]
  BY <1>1 DEF Merged
<1>4. QED  BY <1>2, <1>3 DEF Row

-----------------------------------------------------------------------------
(* Splitting a cluster.                                                    *)

(* A grid has finitely many names.                                         *)
LEMMA TermsFinite ==
  ASSUME NEW g \in Seq(Row)
  PROVE  IsFiniteSet(TermsOf(g)) /\ TermsOf(g) \subseteq Name
<1>1. DOMAIN g = 1 .. Len(g) /\ Len(g) \in Nat /\ \A i \in DOMAIN g : g[i] \in Row
  OBVIOUS
<1>2. IsFiniteSet(DOMAIN g)
  BY <1>1, FS_Interval
<1>3. PICK f : f = [i \in DOMAIN g |-> g[i].term]
  OBVIOUS
<1>4. f \in Surjection(DOMAIN g, TermsOf(g))
  BY <1>3 DEF TermsOf, Surjection
<1>5. IsFiniteSet(TermsOf(g))
  BY <1>2, <1>4, FS_Surjection
<1>6. \A r \in Row : r.term \in Name
  BY DEF Row
<1>7. QED  BY <1>1, <1>5, <1>6 DEF TermsOf

(* There are more counters to try than names taken.                        *)
LEMMA CounterFree ==
  ASSUME NEW stem \in Seq(Nat), NEW taken, IsFiniteSet(taken)
  PROVE  /\ Min(FreeCounters(stem, taken)) \in Nat
         /\ Append(stem, Min(FreeCounters(stem, taken))) \notin taken
<1> DEFINE Tried == 2 .. Cardinality(taken) + 2
<1>1. Cardinality(taken) \in Nat
  BY FS_CardinalityType
<1>2. FreeCounters(stem, taken) \in SUBSET Nat
  BY <1>1 DEF FreeCounters
<1>3. FreeCounters(stem, taken) # {}
  <2> SUFFICES ASSUME FreeCounters(stem, taken) = {} PROVE FALSE
    OBVIOUS
  <2>1. IsFiniteSet(Tried) /\ Cardinality(Tried) = Cardinality(taken) + 1
    <3>1. PICK m : m = Cardinality(taken) + 2
      OBVIOUS
    <3>2. m \in Int /\ 2 \in Int /\ ~(2 > m) /\ m - 2 + 1 = Cardinality(taken) + 1
      BY <1>1, <3>1
    <3>3. IsFiniteSet(2 .. m) /\ Cardinality(2 .. m) = m - 2 + 1
      BY <3>2, FS_Interval
    <3>4. QED  BY <3>1, <3>2, <3>3
  <2>2. PICK f : f = [k \in Tried |-> Append(stem, k)]
    OBVIOUS
  <2>3. f \in [Tried -> taken]
    BY <2>2 DEF FreeCounters
  <2>4. Cardinality(taken) < Cardinality(Tried)
    BY <1>1, <2>1
  <2>5. \A k \in Tried : k \in Nat /\ f[k] = Append(stem, k)
    BY <1>1, <2>2
  <2> HIDE DEF Tried
  <2>6. PICK m, n \in Tried : m # n /\ f[m] = f[n]
    BY <2>1, <2>3, <2>4, FS_PigeonHole
  <2>7. Append(stem, m) = Append(stem, n) /\ m \in Nat /\ n \in Nat
    BY <2>5, <2>6
  <2>8. Append(stem, m)[Len(stem) + 1] = m /\ Append(stem, n)[Len(stem) + 1] = n
    BY <2>7
  <2>9. QED  BY <2>6, <2>7, <2>8
<1>4. Min(FreeCounters(stem, taken)) \in FreeCounters(stem, taken)
  BY <1>2, <1>3, LeastExists
<1>5. QED  BY <1>1, <1>4 DEF FreeCounters

(* A disambiguation draws a name nobody has.                               *)
LEMMA SplitNameIs ==
  ASSUME NEW t \in Name, NEW r \in Row, NEW taken, IsFiniteSet(taken)
  PROVE  SplitName(t, r, taken) \in Name /\ SplitName(t, r, taken) \notin taken
<1>1. t \in Seq(Nat) /\ r.cat \in Nat /\ r.cols \in Seq(Col)
  BY RowsAssumption DEF Name, Row
<1>2. OwnTable(r) \in Nat
  <2>1. CASE TableTerm(r)
    BY <1>1, <2>1 DEF OwnTable
  <2>2. CASE ~TableTerm(r)
    <3>1. Head(r.cols) \in Col
      BY <1>1, <2>2 DEF TableTerm
    <3>2. QED  BY <2>2, <3>1, RowsAssumption DEF OwnTable
  <2>3. QED  BY <2>1, <2>2
<1>3. PICK a, b : a = Append(t, OwnTable(r)) /\ b = Append(t, r.cat)
  OBVIOUS
<1>4. a \in Seq(Nat) /\ b \in Seq(Nat) /\ Len(a) # 0 /\ Len(b) # 0
  BY <1>1, <1>2, <1>3
<1>5. \A x \in Seq(Nat) : Len(x) # 0 => x \in Name
  <2>1. \A x \in Seq(Nat) : x = << >> => Len(x) = 0
    OBVIOUS
  <2>2. QED  BY <2>1 DEF Name, NoTerm
<1>6. PICK k : k = Min(FreeCounters(a, taken))
  OBVIOUS
<1>7. k \in Nat /\ Append(a, k) \notin taken
  BY <1>4, <1>6, CounterFree
<1>8. Append(a, k) \in Seq(Nat) /\ Len(Append(a, k)) # 0
  BY <1>4, <1>7
<1>9. a \in Name /\ b \in Name /\ Append(a, k) \in Name
  BY <1>4, <1>5, <1>8
<1>10. SplitName(t, r, taken) = IF a \notin taken THEN a ELSE IF b \notin taken THEN b
                                ELSE Append(a, k)
  BY <1>3, <1>6 DEF SplitName
<1>11. QED  BY <1>7, <1>9, <1>10

(* The members keep their columns and get names that nobody has.           *)
Distinctly(m, taken) ==
  /\ \A i \in DOMAIN m : m[i].term \notin taken
  /\ \A i, j \in DOMAIN m : i # j => m[i].term # m[j].term

(* A disambiguation keeps every member's columns and makes the names       *)
(* distinct, among the members and from those taken.                       *)
LEMMA SplitIs ==
  ASSUME NEW g \in Seq(Row), g # << >>, NEW taken, IsFiniteSet(taken)
  PROVE  /\ Split(g, taken) \in Seq(Row) /\ Columns(Split(g, taken)) = Columns(g)
         /\ Distinctly(Split(g, taken), taken)
<1>1. PICK N, T, e, t : N = Len(g) /\ T = Seq(Row) /\ e = << >> /\ t = Head(g).term
  OBVIOUS
<1>2. /\ N \in Nat /\ e \in T /\ DOMAIN g = 1 .. N /\ t \in Name
      /\ \A n \in 1 .. N : g[n] \in Row
  <2>1. N \in Nat /\ e \in T /\ DOMAIN g = 1 .. N /\ \A n \in 1 .. N : g[n] \in Row
    BY <1>1
  <2>2. Head(g) \in Row
    OBVIOUS
  <2>3. QED  BY <1>1, <2>1, <2>2 DEF Row
<1> DEFINE Given(w, n) == [g[n] EXCEPT !.term = SplitName(t, g[n], taken \cup TermsOf(w))]
           Step(w, n)  == Append(w, Given(w, n))
           Body(q) == [n \in 0 .. N |-> IF n = 0 THEN e ELSE Step(q[n - 1], n)]
<1>3. ASSUME NEW n \in 1 .. N, NEW w \in T
      PROVE  /\ Given(w, n) \in Row /\ Given(w, n).cols = g[n].cols
             /\ Given(w, n).term \notin taken \cup TermsOf(w)
  <2>1. PICK now, x, r : now = taken \cup TermsOf(w) /\ r = g[n] /\ x = SplitName(t, r, now)
    OBVIOUS
  <2>2. IsFiniteSet(now)
    <3>1. IsFiniteSet(TermsOf(w))
      BY <1>1, TermsFinite
    <3>2. QED  BY <2>1, <3>1, FS_Union
  <2>3. x \in Name /\ x \notin now /\ r \in Row
    BY <1>2, <2>1, <2>2, SplitNameIs
  <2>4. Given(w, n) = [r EXCEPT !.term = x]
    BY <2>1
  <2> HIDE DEF Given
  <2>5. QED  BY <2>1, <2>3, <2>4 DEF Row
<1> HIDE DEF Given
<1>4. \A n \in 1 .. N : \A w \in T : Step(w, n) \in T
  BY <1>1, <1>3
<1> HIDE DEF Step
<1>5. PICK h : h = [n \in 1 .. N |-> [w \in T |-> Step(w, n)]]
  OBVIOUS
<1>6. \A n \in 1 .. N : \A w \in T : h[n][w] = Step(w, n)
  BY <1>5
<1>7. \A n \in 1 .. N : \A w \in T : h[n][w] \in T
  BY <1>4, <1>6
<1>8. PICK f : Steps(f, N, T, e, h)
  BY <1>2, <1>7, StepsDefine
<1>9. ASSUME NEW n \in 1 .. N PROVE f[n] = Step(f[n - 1], n)
  <2>1. n - 1 \in 0 .. N /\ f[n - 1] \in T
    BY <1>2, <1>8 DEF Steps
  <2>2. QED  BY <1>6, <1>8, <2>1 DEF Steps
<1>10. f = Body(f)
  <2>1. \A n \in 0 .. N : f[n] = IF n = 0 THEN e ELSE Step(f[n - 1], n)
    BY <1>2, <1>8, <1>9 DEF Steps
  <2>2. QED  BY <1>8, <2>1 DEF Steps
<1>11. PICK p : p = CHOOSE q : q = Body(q)
  OBVIOUS
<1>12. p = Body(p)
  <2> HIDE DEF Body
  <2>1. QED  BY <1>10, <1>11
<1>13. Split(g, taken) = p[N]
  BY <1>1, <1>11 DEF Split, Step, Given
<1>14. p[0] = e /\ \A n \in 1 .. N : p[n] = Step(p[n - 1], n)
  BY <1>2, <1>12
<1> DEFINE Fine(w, n) == /\ w \in T /\ Len(w) = n
                         /\ \A i \in 1 .. n : w[i].cols = g[i].cols
                         /\ Distinctly(w, taken)
           P == {n \in 0 .. N : Fine(p[n], n)}
<1>15. 0 \in P
  <2>1. Len(e) = 0 /\ DOMAIN e = {}
    BY <1>1
  <2>2. Fine(e, 0)
    BY <1>2, <2>1 DEF Distinctly
  <2>3. QED  BY <1>2, <1>14, <2>2
<1>16. ASSUME NEW n \in 0 .. N, n \in P, n < N PROVE n + 1 \in P
  <2>1. PICK v, w, r : v = p[n] /\ w = p[n + 1] /\ r = Given(v, n + 1)
    OBVIOUS
  <2>2. n + 1 \in 1 .. N /\ (n + 1) - 1 = n /\ Fine(v, n) /\ n \in Nat
    BY <1>2, <1>16, <2>1
  <2>3. /\ r \in Row /\ r.cols = g[n + 1].cols /\ r.term \notin taken
        /\ r.term \notin TermsOf(v)
    BY <1>3, <2>1, <2>2
  <2>4. w = Append(v, r)
    BY <1>14, <2>1, <2>2 DEF Step
  <2>5. /\ w \in T /\ Len(w) = n + 1 /\ w[n + 1] = r /\ DOMAIN v = 1 .. n
        /\ DOMAIN w = 1 .. n + 1 /\ \A i \in 1 .. n : w[i] = v[i]
    BY <1>1, <2>2, <2>3, <2>4
  <2>6. ASSUME NEW i \in 1 .. n + 1
        PROVE  w[i].cols = g[i].cols /\ w[i].term \notin taken
    <3>1. CASE i = n + 1
      BY <2>3, <2>5, <3>1
    <3>2. CASE i # n + 1
      <4>1. i \in 1 .. n
        BY <2>2, <3>2
      <4>2. QED  BY <2>2, <2>5, <4>1 DEF Distinctly
    <3>3. QED  BY <3>1, <3>2
  <2>7. \A i \in 1 .. n : w[i].term # r.term
    BY <2>3, <2>5 DEF TermsOf
  <2>8. ASSUME NEW i \in 1 .. n + 1, NEW j \in 1 .. n + 1, i # j
        PROVE  w[i].term # w[j].term
    <3>1. CASE i = n + 1
      <4>1. j \in 1 .. n
        BY <2>2, <2>8, <3>1
      <4>2. QED  BY <2>5, <2>7, <3>1, <4>1
    <3>2. CASE j = n + 1
      <4>1. i \in 1 .. n
        BY <2>2, <2>8, <3>2
      <4>2. QED  BY <2>5, <2>7, <3>2, <4>1
    <3>3. CASE i # n + 1 /\ j # n + 1
      <4>1. i \in 1 .. n /\ j \in 1 .. n
        BY <2>2, <3>3
      <4>2. QED  BY <2>2, <2>5, <2>8, <4>1 DEF Distinctly
    <3>4. QED  BY <3>1, <3>2, <3>3
  <2>9. Distinctly(w, taken)
    BY <2>5, <2>6, <2>8 DEF Distinctly
  <2>10. QED  BY <2>1, <2>2, <2>5, <2>6, <2>9
<1>17. N \in P
  <2> HIDE DEF P
  <2>1. N \in Nat
    BY <1>2
  <2>2. \A n \in 0 .. N : n \in P
    BY <2>1, <1>15, <1>16, Stepwise
  <2>3. QED  BY <2>1, <2>2
<1>18. PICK w : w = Split(g, taken)
  OBVIOUS
<1>19. Fine(w, N)
  BY <1>13, <1>17, <1>18
<1>20. Columns(w) = Columns(g)
  <2>1. DOMAIN w = DOMAIN g /\ \A i \in DOMAIN g : w[i].cols = g[i].cols
    BY <1>1, <1>2, <1>19
  <2>2. QED  BY <2>1 DEF Columns
<1>21. QED  BY <1>1, <1>18, <1>19, <1>20

-----------------------------------------------------------------------------
(* Cluster decisions.                                                      *)

LEMMA ColsOfSet == \A g : ColsOf(g) = UNION {ToSet(r.cols) : r \in ToSet(g)}
BY DEF ColsOf, ToSet

(* A stamp changes the group only.                                         *)
LEMMA StampedIs ==
  ASSUME NEW g \in Seq(Row), NEW n \in Seq(Nat)
  PROVE  /\ Stamped(g, n) \in Seq(Row) /\ Columns(Stamped(g, n)) = Columns(g)
         /\ DOMAIN Stamped(g, n) = DOMAIN g
         /\ \A i \in DOMAIN g : Stamped(g, n)[i].term = g[i].term /\ Stamped(g, n)[i].grp = n
<1>1. DOMAIN g = 1 .. Len(g) /\ Len(g) \in Nat /\ \A i \in DOMAIN g : g[i] \in Row
  OBVIOUS
<1>2. ASSUME NEW i \in DOMAIN g
      PROVE  LET r == [g[i] EXCEPT !.grp = n]
             IN  r \in Row /\ r.cols = g[i].cols /\ r.term = g[i].term /\ r.grp = n
  BY <1>1 DEF Row
<1>3. PICK s : s = Stamped(g, n)
  OBVIOUS
<1>4. DOMAIN s = DOMAIN g /\ \A i \in DOMAIN g : s[i] = [g[i] EXCEPT !.grp = n]
  BY <1>3 DEF Stamped
<1>5. \A i \in DOMAIN g : /\ s[i] \in Row /\ s[i].cols = g[i].cols
                          /\ s[i].term = g[i].term /\ s[i].grp = n
  BY <1>2, <1>4
<1>6. s \in Seq(Row)
  <2>1. s = [i \in 1 .. Len(g) |-> s[i]]
    BY <1>1, <1>3 DEF Stamped
  <2>2. QED  BY <1>1, <1>5, <2>1
<1>7. Columns(s) = Columns(g)
  BY <1>4, <1>5 DEF Columns
<1>8. QED  BY <1>3, <1>4, <1>5, <1>6, <1>7

LEMMA SameColumns ==
  ASSUME NEW g, NEW h, Columns(g) = Columns(h)
  PROVE  ColsOf(g) = ColsOf(h)
<1>1. DOMAIN Columns(g) = DOMAIN g /\ DOMAIN Columns(h) = DOMAIN h
  BY DEF Columns
<1>2. \A i \in DOMAIN g : g[i].cols = h[i].cols
  <2>1. \A i \in DOMAIN g : Columns(g)[i] = g[i].cols
    BY DEF Columns
  <2>2. \A i \in DOMAIN h : Columns(h)[i] = h[i].cols
    BY DEF Columns
  <2>3. QED  BY <1>1, <2>1, <2>2
<1>3. QED  BY <1>1, <1>2 DEF ColsOf

(* Members and others are the rows of the grid on either side.             *)
LEMMA MembersIs ==
  ASSUME NEW g \in Seq(Row), NEW n
  PROVE  /\ Members(g, n) \in Seq(Row) /\ ToSet(Members(g, n)) = {g[i] : i \in Mine(g, n)}
         /\ Others(g, n) \in Seq(Row)
         /\ ToSet(Others(g, n)) = {g[i] : i \in DOMAIN g \ Mine(g, n)}
<1>1. PICK I, J : I = Mine(g, n) /\ J = DOMAIN g \ Mine(g, n)
  OBVIOUS
<1>2. I \cap DOMAIN g = I /\ J \cap DOMAIN g = J
  BY <1>1 DEF Mine
<1>3. /\ Picked(g, I) \in Seq(Row) /\ ToSet(Picked(g, I)) = {g[i] : i \in I}
      /\ Picked(g, J) \in Seq(Row) /\ ToSet(Picked(g, J)) = {g[i] : i \in J}
  BY <1>2, PickedIs
<1>4. QED  BY <1>1, <1>3 DEF Members, Others

(* The new rows stand among the others.                                    *)
LEMMA ReplacedIs ==
  ASSUME NEW g \in Seq(Row), NEW n, NEW d \in Seq(Row)
  PROVE  /\ Replaced(g, n, d) \in Seq(Row)
         /\ ToSet(Replaced(g, n, d)) = ToSet(d) \cup {g[i] : i \in DOMAIN g \ Mine(g, n)}
<1>1. PICK I, J : I = Ahead(g, n) /\ J = DOMAIN g \ (Mine(g, n) \cup Ahead(g, n))
  OBVIOUS
<1>2. I \cap DOMAIN g = I /\ J \cap DOMAIN g = J
  BY <1>1 DEF Ahead
<1>3. I \cup J = DOMAIN g \ Mine(g, n)
  <2>1. DOMAIN g \subseteq Nat
    OBVIOUS
  <2>2. \A i \in Ahead(g, n) : i \in DOMAIN g /\ i \notin Mine(g, n)
    <3>1. \A i \in Nat : ~(i < i)
      OBVIOUS
    <3>2. QED  BY <2>1, <3>1 DEF Ahead
  <2>3. QED  BY <1>1, <2>2
<1>4. PICK a, b : a = Picked(g, I) /\ b = Picked(g, J)
  OBVIOUS
<1>5. /\ a \in Seq(Row) /\ ToSet(a) = {g[i] : i \in I}
      /\ b \in Seq(Row) /\ ToSet(b) = {g[i] : i \in J}
  BY <1>2, <1>4, PickedIs
<1>6. ToSet(a) \cup ToSet(b) = {g[i] : i \in DOMAIN g \ Mine(g, n)}
  BY <1>3, <1>5
<1>7. a \o d \in Seq(Row) /\ ToSet(a \o d) = ToSet(a) \cup ToSet(d)
  BY <1>5, ToSetConcat
<1>8. PICK c : c = a \o d
  OBVIOUS
<1>9. c \o b \in Seq(Row) /\ ToSet(c \o b) = ToSet(c) \cup ToSet(b)
  <2>1. c \in Seq(Row)
    BY <1>7, <1>8
  <2>2. QED  BY <1>5, <2>1, ToSetConcat
<1>10. Replaced(g, n, d) = c \o b
  BY <1>1, <1>4, <1>8 DEF Replaced
<1>11. QED  BY <1>6, <1>7, <1>8, <1>9, <1>10

(* What takes the members' place has to bring their columns.               *)
LEMMA ReplacedKeeps ==
  ASSUME NEW g \in Seq(Row), NEW n, NEW d \in Seq(Row), ColsOf(Members(g, n)) \subseteq ColsOf(d)
  PROVE  ColsOf(g) \subseteq ColsOf(Replaced(g, n, d))
<1>1. PICK h, m : h = Replaced(g, n, d) /\ m = Members(g, n)
  OBVIOUS
<1>2. /\ ToSet(h) = ToSet(d) \cup {g[i] : i \in DOMAIN g \ Mine(g, n)}
      /\ ToSet(m) = {g[i] : i \in Mine(g, n)}
  BY <1>1, ReplacedIs, MembersIs
<1>3. ColsOf(d) \subseteq ColsOf(h)
  BY <1>2, ColsOfSet
<1>4. ASSUME NEW i \in DOMAIN g PROVE ToSet(g[i].cols) \subseteq ColsOf(h)
  <2>1. CASE i \in Mine(g, n)
    <3>1. g[i] \in ToSet(m)
      BY <1>2, <2>1
    <3>2. ToSet(g[i].cols) \subseteq ColsOf(m)
      BY <3>1, ColsOfSet
    <3>3. QED  BY <1>1, <1>3, <3>2
  <2>2. CASE i \notin Mine(g, n)
    <3>1. g[i] \in ToSet(h)
      BY <1>2, <2>2
    <3>2. QED  BY <3>1, ColsOfSet
  <2>3. QED  BY <2>1, <2>2
<1>5. QED  BY <1>1, <1>4 DEF ColsOf

LEMMA WithIs ==
  ASSUME NEW p, NEW n, NEW d \in Decision, DecisionsOK(p)
  PROVE  DecisionsOK(With(p, n, d))
<1>1. \A m \in DOMAIN p \cup {n} : With(p, n, d)[m] = IF m = n THEN d ELSE p[m]
  BY DEF With
<1>2. DOMAIN With(p, n, d) = DOMAIN p \cup {n}
  BY DEF With
<1>3. QED  BY <1>1, <1>2 DEF DecisionsOK

LEMMA WithoutIs ==
  ASSUME NEW p, NEW n, DecisionsOK(p)
  PROVE  DecisionsOK(Without(p, n))
BY DEF Without, DecisionsOK

(* A decision made, taken back or impossible leaves a grid; it keeps the   *)
(* columns unless the group was joined by rows the snapshot lacks.         *)
LEMMA DecidedIs ==
  ASSUME NEW g \in Seq(Row), NEW p, DecisionsOK(p), NEW n \in Seq(Nat),
         NEW action \in {"merge", "split"}, Members(g, n) # << >>
  PROVE  LET d == Decided(g, p, n, action)
         IN  d.rows \in Seq(Row) /\ DecisionsOK(d.grp) /\ ColsOf(g) \subseteq ColsOf(d.rows)
<1>1. PICK live, made, b :
        /\ live = Members(g, n)
        /\ made = IF action = "merge" THEN <<Merged(live)>>
                  ELSE Split(live, TermsOf(Others(g, n)))
        /\ b = [action |-> action, base |-> live]
  OBVIOUS
<1>2. PICK st, new : st = Stamped(made, n) /\ new = Replaced(g, n, st)
  OBVIOUS
<1>3. Decided(g, p, n, action) = [rows |-> new, grp |-> With(p, n, b)]
  BY <1>1, <1>2 DEF Decided
<1>4. live \in Seq(Row) /\ live # << >>
  BY <1>1, MembersIs
<1>5. b \in Decision
  BY <1>1, <1>4 DEF Decision
<1>6. made \in Seq(Row) /\ ColsOf(live) \subseteq ColsOf(made)
  <2>1. CASE action = "merge"
    <3>1. PICK m : m = Merged(live)
      OBVIOUS
    <3>2. m \in Row /\ ToSet(m.cols) = ColsOf(live)
      BY <1>4, <3>1, MergedIs
    <3>3. made = <<m>>
      BY <1>1, <2>1, <3>1
    <3>4. made \in Seq(Row) /\ 1 \in DOMAIN made /\ made[1] = m
      BY <3>2, <3>3
    <3>5. QED  BY <3>2, <3>4, ColsOfIn
  <2>2. CASE action = "split"
    <3>1. PICK o, T : o = Others(g, n) /\ T = TermsOf(o)
      OBVIOUS
    <3>2. o \in Seq(Row)
      BY <3>1, MembersIs
    <3>3. IsFiniteSet(T)
      BY <3>1, <3>2, TermsFinite
    <3>4. made = Split(live, T)
      BY <1>1, <2>2, <3>1
    <3>5. made \in Seq(Row) /\ Columns(made) = Columns(live)
      BY <1>4, <3>3, <3>4, SplitIs
    <3>6. QED  BY <3>5, SameColumns
  <2>3. QED  BY <2>1, <2>2
<1>7. st \in Seq(Row) /\ Columns(st) = Columns(made)
  BY <1>2, <1>6, StampedIs
<1>8. ColsOf(Members(g, n)) \subseteq ColsOf(st)
  BY <1>1, <1>6, <1>7, SameColumns
<1>9. new \in Seq(Row) /\ ColsOf(g) \subseteq ColsOf(new)
  BY <1>2, <1>7, <1>8, ReplacedIs, ReplacedKeeps
<1>10. DecisionsOK(With(p, n, b))
  BY <1>5, WithIs
<1>11. QED  BY <1>3, <1>9, <1>10

(* Taking back restores the snapshot.                                      *)
LEMMA RevertedIs ==
  ASSUME NEW g \in Seq(Row), NEW p, DecisionsOK(p), NEW n
  PROVE  LET d == Reverted(g, p, n)
         IN  /\ d.rows \in Seq(Row) /\ DecisionsOK(d.grp)
             /\ (n \in DOMAIN p => ColsOf(Members(g, n)) \subseteq ColsOf(p[n].base))
                  => ColsOf(g) \subseteq ColsOf(d.rows)
<1>1. PICK base, st, new :
        /\ base = IF n \in DOMAIN p THEN p[n].base ELSE Members(g, n)
        /\ st = Stamped(base, NoGroup) /\ new = Replaced(g, n, st)
  OBVIOUS
<1>2. Reverted(g, p, n) = [rows |-> new, grp |-> Without(p, n)]
  BY <1>1 DEF Reverted
<1>3. base \in Seq(Row)
  <2>1. CASE n \in DOMAIN p
    <3>1. p[n] \in Decision
      BY <2>1 DEF DecisionsOK
    <3>2. QED  BY <1>1, <2>1, <3>1 DEF Decision
  <2>2. CASE n \notin DOMAIN p
    BY <1>1, <2>2, MembersIs
  <2>3. QED  BY <2>1, <2>2
<1>4. NoGroup \in Seq(Nat)
  BY DEF NoGroup
<1>5. st \in Seq(Row) /\ Columns(st) = Columns(base)
  <2>1. PICK e : e = NoGroup
    OBVIOUS
  <2>2. QED  BY <1>1, <1>3, <1>4, <2>1, StampedIs
<1>6. new \in Seq(Row) /\ DecisionsOK(Without(p, n))
  BY <1>1, <1>5, ReplacedIs, WithoutIs
<1>7. ASSUME n \in DOMAIN p => ColsOf(Members(g, n)) \subseteq ColsOf(p[n].base)
      PROVE  ColsOf(g) \subseteq ColsOf(new)
  <2>1. ColsOf(Members(g, n)) \subseteq ColsOf(base)
    BY <1>1, <1>7
  <2>2. ColsOf(Members(g, n)) \subseteq ColsOf(st)
    BY <1>5, <2>1, SameColumns
  <2>3. QED  BY <1>1, <1>5, <2>2, ReplacedKeeps
<1>8. QED  BY <1>2, <1>6, <1>7

(* Whatever a cluster's header asks for leaves a grid and sound decisions. *)
LEMMA GroupActionIs ==
  ASSUME NEW g \in Seq(Row), NEW p, DecisionsOK(p), NEW n \in Seq(Nat),
         NEW action \in {"merge", "split", "separate"}
  PROVE  LET d == GroupAction(g, p, n, action)
         IN  /\ d.rows \in Seq(Row) /\ DecisionsOK(d.grp)
             /\ (n \in DOMAIN p => ColsOf(Members(g, n)) \subseteq ColsOf(p[n].base))
                  => ColsOf(g) \subseteq ColsOf(d.rows)
<1>1. CASE Members(g, n) = << >> /\ (action # "separate" \/ n \notin DOMAIN p)
  BY <1>1 DEF GroupAction
<1>2. CASE ~(Members(g, n) = << >> /\ (action # "separate" \/ n \notin DOMAIN p))
  <2>1. CASE action = "separate"
    <3>1. GroupAction(g, p, n, action) = Reverted(g, p, n)
      BY <1>2, <2>1 DEF GroupAction
    <3>2. QED  BY <3>1, RevertedIs
  <2>2. CASE action # "separate"
    <3>1. GroupAction(g, p, n, action) = Decided(g, p, n, action) /\ Members(g, n) # << >>
      BY <1>2, <2>2 DEF GroupAction
    <3>2. QED  BY <2>2, <3>1, DecidedIs
  <2>3. QED  BY <2>1, <2>2
<1>3. QED  BY <1>1, <1>2

-----------------------------------------------------------------------------
(* Edits that leave every row its columns.                                 *)

Retouched(h, g) == h \in Seq(Row) /\ Columns(h) = Columns(g)

(* Rows that are touched one by one, columns apart, are a grid.            *)
LEMMA Rowwise ==
  ASSUME NEW g \in Seq(Row), NEW h, DOMAIN h = DOMAIN g, h = [i \in DOMAIN h |-> h[i]],
         \A i \in DOMAIN g : h[i] \in Row /\ h[i].cols = g[i].cols
  PROVE  Retouched(h, g)
<1>1. DOMAIN g = 1 .. Len(g) /\ Len(g) \in Nat
  OBVIOUS
<1>2. h \in Seq(Row)
  BY <1>1
<1>3. Columns(h) = Columns(g)
  BY DEF Columns
<1>4. QED  BY <1>2, <1>3 DEF Retouched

LEMMA OneRow ==
  ASSUME NEW g \in Seq(Row), NEW i \in DOMAIN g, NEW r \in Row, r.cols = g[i].cols,
         NEW h, h = [g EXCEPT ![i] = r]
  PROVE  Retouched(h, g)
<1>1. DOMAIN h = DOMAIN g /\ \A j \in DOMAIN g : h[j] = IF j = i THEN r ELSE g[j]
  OBVIOUS
<1>2. \A j \in DOMAIN g : g[j] \in Row
  OBVIOUS
<1>3. h = [j \in DOMAIN h |-> h[j]]
  OBVIOUS
<1>4. QED  BY <1>1, <1>2, <1>3, Rowwise

(* One field of a row takes another value.                                 *)
LEMMA RowTerm ==
  ASSUME NEW r \in Row, NEW t \in Name, NEW s, s = [r EXCEPT !.term = t]
  PROVE  s \in Row /\ s.cols = r.cols
BY DEF Row

LEMMA RowCat ==
  ASSUME NEW r \in Row, NEW c \in Cat, NEW s, s = [r EXCEPT !.cat = c]
  PROVE  s \in Row /\ s.cols = r.cols
BY DEF Row

LEMMA RowDef ==
  ASSUME NEW r \in Row, NEW d \in 0 .. 2, NEW s, s = [r EXCEPT !.def = d]
  PROVE  s \in Row /\ s.cols = r.cols
BY DEF Row

LEMMA RowKeep ==
  ASSUME NEW r \in Row, NEW k \in BOOLEAN, NEW s, s = [r EXCEPT !.keep = k]
  PROVE  s \in Row /\ s.cols = r.cols
BY DEF Row

(* The same for one field of one row of a grid.                            *)
LEMMA GridTerm ==
  ASSUME NEW g \in Seq(Row), NEW i \in DOMAIN g, NEW t \in Name, NEW h,
         h = [g EXCEPT ![i].term = t]
  PROVE  Retouched(h, g)
<1>1. PICK r, s : r = g[i] /\ s = [r EXCEPT !.term = t]
  OBVIOUS
<1>2. r \in Row
  BY <1>1
<1>3. s \in Row /\ s.cols = r.cols
  BY <1>1, <1>2, RowTerm
<1>4. h = [g EXCEPT ![i] = s]
  BY <1>1
<1>5. QED  BY <1>1, <1>3, <1>4, OneRow

LEMMA GridCat ==
  ASSUME NEW g \in Seq(Row), NEW i \in DOMAIN g, NEW c \in Cat, NEW h,
         h = [g EXCEPT ![i].cat = c]
  PROVE  Retouched(h, g)
<1>1. PICK r, s : r = g[i] /\ s = [r EXCEPT !.cat = c]
  OBVIOUS
<1>2. r \in Row
  BY <1>1
<1>3. s \in Row /\ s.cols = r.cols
  BY <1>1, <1>2, RowCat
<1>4. h = [g EXCEPT ![i] = s]
  BY <1>1
<1>5. QED  BY <1>1, <1>3, <1>4, OneRow

LEMMA GridDef ==
  ASSUME NEW g \in Seq(Row), NEW i \in DOMAIN g, NEW d \in 0 .. 2, NEW h,
         h = [g EXCEPT ![i].def = d]
  PROVE  Retouched(h, g)
<1>1. PICK r, s : r = g[i] /\ s = [r EXCEPT !.def = d]
  OBVIOUS
<1>2. r \in Row
  BY <1>1
<1>3. s \in Row /\ s.cols = r.cols
  BY <1>1, <1>2, RowDef
<1>4. h = [g EXCEPT ![i] = s]
  BY <1>1
<1>5. QED  BY <1>1, <1>3, <1>4, OneRow

LEMMA GridKeep ==
  ASSUME NEW g \in Seq(Row), NEW i \in DOMAIN g, NEW k \in BOOLEAN, NEW h,
         h = [g EXCEPT ![i].keep = k]
  PROVE  Retouched(h, g)
<1>1. PICK r, s : r = g[i] /\ s = [r EXCEPT !.keep = k]
  OBVIOUS
<1>2. r \in Row
  BY <1>1
<1>3. s \in Row /\ s.cols = r.cols
  BY <1>1, <1>2, RowKeep
<1>4. h = [g EXCEPT ![i] = s]
  BY <1>1
<1>5. QED  BY <1>1, <1>3, <1>4, OneRow

(* A suggested name is a name, or there is none.                           *)
LEMMA Suggested ==
  ASSUME NEW r \in Row
  PROVE  r.sug \in Seq(Nat) /\ (r.sug # NoTerm => r.sug \in Name) /\ r.term \in Name
BY DEF Row, Name

LEMMA RenamedIs ==
  ASSUME NEW g \in Seq(Row), rows = g, NEW old, NEW new \in Name
  PROVE  Retouched(Renamed(old, new), g)
<1>1. PICK h, no : h = Renamed(old, new) /\ no = NoTerm
  OBVIOUS
<1>2. no \in Seq(Nat)
  BY <1>1 DEF NoTerm
<1>3. DOMAIN h = DOMAIN g /\ h = [i \in DOMAIN h |-> h[i]]
  BY <1>1 DEF Renamed
<1>4. ASSUME NEW i \in DOMAIN g PROVE h[i] \in Row /\ h[i].cols = g[i].cols
  <2>1. g[i] \in Row
    OBVIOUS
  <2>2. PICK r, s : r = g[i] /\ s = [r EXCEPT !.term = new, !.sug = no]
    OBVIOUS
  <2>3. s \in Row /\ s.cols = g[i].cols
    <3>1. r \in Row
      BY <2>1, <2>2
    <3>2. QED  BY <1>2, <2>2, <3>1 DEF Row
  <2>4. h[i] = IF g[i].term = old THEN s ELSE g[i]
    BY <1>1, <2>2 DEF Renamed
  <2>5. QED  BY <2>1, <2>3, <2>4
<1>5. QED  BY <1>1, <1>3, <1>4, Rowwise

(* The inline edits and the accepted pills.                                *)
LEMMA OnFieldRetouches ==
  ASSUME TypeOK, OnField
  PROVE  Retouched(rows', rows)
<1>1. PICK g, h : g = rows /\ h = rows'
  OBVIOUS
<1>2. g \in Seq(Row)
  BY <1>1 DEF TypeOK, SheetsOK
<1>3. PICK i \in DOMAIN g :
        \/ \E t \in Term : h = [g EXCEPT ![i].term = t]
        \/ \E c \in Cat : h = [g EXCEPT ![i].cat = c]
        \/ h = [g EXCEPT ![i].def = BySteward]
  BY <1>1 DEF OnField, EditRows
<1>4. Term \subseteq Name /\ BySteward \in 0 .. 2
  <2>1. Term \subseteq Name
    BY ReviewAssumption DEF ReviewAssumption
  <2>2. QED  BY <2>1 DEF BySteward
<1>5. CASE \E t \in Term : h = [g EXCEPT ![i].term = t]
  BY <1>1, <1>2, <1>4, <1>5, GridTerm
<1>6. CASE \E c \in Cat : h = [g EXCEPT ![i].cat = c]
  BY <1>1, <1>2, <1>6, GridCat
<1>7. CASE h = [g EXCEPT ![i].def = BySteward]
  <2>1. PICK d : d = BySteward
    OBVIOUS
  <2>2. d \in 0 .. 2 /\ h = [g EXCEPT ![i].def = d]
    BY <1>4, <1>7, <2>1
  <2>3. QED  BY <1>1, <1>2, <2>2, GridDef
<1>8. QED  BY <1>3, <1>5, <1>6, <1>7

LEMMA OnKeepRetouches ==
  ASSUME TypeOK, OnKeep
  PROVE  Retouched(rows', rows)
<1>1. PICK g, h : g = rows /\ h = rows'
  OBVIOUS
<1>2. g \in Seq(Row)
  BY <1>1 DEF TypeOK, SheetsOK
<1>3. PICK i \in DOMAIN g : h = [g EXCEPT ![i].keep = ~@]
  BY <1>1 DEF OnKeep, EditRows
<1>4. PICK k : k = ~g[i].keep
  OBVIOUS
<1>5. k \in BOOLEAN /\ h = [g EXCEPT ![i].keep = k]
  BY <1>3, <1>4
<1>6. QED  BY <1>1, <1>2, <1>5, GridKeep

LEMMA WithKeepIs ==
  ASSUME rows \in Seq(Row), NEW i \in DOMAIN rows, NEW on \in BOOLEAN
  PROVE  WithKeep(i, on) \in Row /\ WithKeep(i, on).cols = rows[i].cols
<1>1. PICK r, k : r = rows[i] /\ k = (on \/ TableTerm(r))
  OBVIOUS
<1>2. r \in Row
  BY <1>1
<1>3. k \in BOOLEAN
  BY <1>1 DEF TableTerm
<1>4. PICK s : s = [r EXCEPT !.keep = k]
  OBVIOUS
<1>5. WithKeep(i, on) = s
  BY <1>1, <1>4 DEF WithKeep
<1>6. QED  BY <1>1, <1>2, <1>3, <1>4, <1>5, RowKeep

LEMMA MasterToggleRetouches ==
  ASSUME TypeOK, MasterToggle
  PROVE  Retouched(rows', rows)
<1>1. PICK g, h : g = rows /\ h = rows'
  OBVIOUS
<1>2. g \in Seq(Row)
  BY <1>1 DEF TypeOK, SheetsOK
<1>3. PICK on \in BOOLEAN : h = [i \in DOMAIN g |-> WithKeep(i, on)]
  BY <1>1 DEF MasterToggle, EditRows
<1>4. \A i \in DOMAIN g : h[i] \in Row /\ h[i].cols = g[i].cols
  BY <1>1, <1>2, <1>3, WithKeepIs
<1>5. QED  BY <1>1, <1>2, <1>3, <1>4, Rowwise

LEMMA ToggleHMRetouches ==
  ASSUME TypeOK, ToggleHM
  PROVE  Retouched(rows', rows)
<1>1. PICK g, h : g = rows /\ h = rows'
  OBVIOUS
<1>2. g \in Seq(Row) /\ \A i \in DOMAIN g : g[i] \in Row /\ g[i].sure \in BOOLEAN
  <2>1. g \in Seq(Row)
    BY <1>1 DEF TypeOK, SheetsOK
  <2>2. \A i \in DOMAIN g : g[i] \in Row
    BY <2>1
  <2>3. QED  BY <2>1, <2>2 DEF Row
<1>3. CASE hm # NoMap
  <2>1. h = [i \in DOMAIN g |-> IF i \in DOMAIN hm THEN [g[i] EXCEPT !.keep = hm[i]] ELSE g[i]]
    BY <1>1, <1>3 DEF ToggleHM, EditRows
  <2>2. ASSUME NEW i \in DOMAIN g PROVE h[i] \in Row /\ h[i].cols = g[i].cols
    <3>1. CASE i \in DOMAIN hm
      <4>1. PICK r, k : r = g[i] /\ k = hm[i]
        OBVIOUS
      <4>2. r \in Row /\ k \in BOOLEAN
        BY <1>2, <3>1, <4>1 DEF TypeOK
      <4>3. h[i] = [r EXCEPT !.keep = k]
        BY <2>1, <3>1, <4>1
      <4>4. QED  BY <4>1, <4>2, <4>3, RowKeep
    <3>2. CASE i \notin DOMAIN hm
      BY <1>2, <2>1, <3>2
    <3>3. QED  BY <3>1, <3>2
  <2>3. DOMAIN h = DOMAIN g /\ h = [i \in DOMAIN h |-> h[i]]
    BY <2>1
  <2>4. QED  BY <1>1, <1>2, <2>2, <2>3, Rowwise
<1>4. CASE hm = NoMap
  <2>1. h = [i \in DOMAIN g |-> IF g[i].key /\ ~g[i].keep THEN g[i] ELSE WithKeep(i, g[i].sure)]
    BY <1>1, <1>4 DEF ToggleHM, EditRows
  <2>2. ASSUME NEW i \in DOMAIN g PROVE h[i] \in Row /\ h[i].cols = g[i].cols
    <3>1. PICK k, w : k = g[i].sure /\ w = WithKeep(i, k)
      OBVIOUS
    <3>2. w \in Row /\ w.cols = g[i].cols
      BY <1>1, <1>2, <3>1, WithKeepIs
    <3>3. h[i] = IF g[i].key /\ ~g[i].keep THEN g[i] ELSE w
      BY <2>1, <3>1
    <3>4. QED  BY <1>2, <3>2, <3>3
  <2>3. DOMAIN h = DOMAIN g /\ h = [i \in DOMAIN h |-> h[i]]
    BY <2>1
  <2>4. QED  BY <1>1, <1>2, <2>2, <2>3, Rowwise
<1>5. QED  BY <1>3, <1>4

LEMMA RenameCategoryRetouches ==
  ASSUME TypeOK, RenameCategory
  PROVE  Retouched(rows', rows)
<1>1. PICK g, h : g = rows /\ h = rows'
  OBVIOUS
<1>2. g \in Seq(Row) /\ \A i \in DOMAIN g : g[i] \in Row
  <2>1. g \in Seq(Row)
    BY <1>1 DEF TypeOK, SheetsOK
  <2>2. QED  BY <2>1
<1>3. PICK from, to : to \in Cat /\ h = [i \in DOMAIN g |-> IF g[i].cat = from
                                          THEN [g[i] EXCEPT !.cat = to] ELSE g[i]]
  <2>1. PICK from : \E to \in Cat \ {from} :
          EditRows([i \in DOMAIN rows |-> IF rows[i].cat = from
                      THEN [rows[i] EXCEPT !.cat = to] ELSE rows[i]])
    BY DEF RenameCategory
  <2>2. PICK to \in Cat :
          EditRows([i \in DOMAIN rows |-> IF rows[i].cat = from
                      THEN [rows[i] EXCEPT !.cat = to] ELSE rows[i]])
    BY <2>1
  <2>3. QED  BY <1>1, <2>2 DEF EditRows
<1>4. ASSUME NEW i \in DOMAIN g PROVE h[i] \in Row /\ h[i].cols = g[i].cols
  <2>1. PICK s : s = [g[i] EXCEPT !.cat = to]
    OBVIOUS
  <2>2. s \in Row /\ s.cols = g[i].cols
    BY <1>2, <1>3, <2>1, RowCat
  <2>3. QED  BY <1>2, <1>3, <2>1, <2>2
<1>5. DOMAIN h = DOMAIN g /\ h = [i \in DOMAIN h |-> h[i]]
  BY <1>3
<1>6. QED  BY <1>1, <1>2, <1>4, <1>5, Rowwise

LEMMA UseNameRetouches ==
  ASSUME TypeOK, UseName
  PROVE  Retouched(rows', rows)
<1>1. PICK g : g = rows
  OBVIOUS
<1>2. g \in Seq(Row) /\ \A i \in DOMAIN g : g[i] \in Row
  <2>1. g \in Seq(Row)
    BY <1>1 DEF TypeOK, SheetsOK
  <2>2. QED  BY <2>1
<1>3. PICK i \in DOMAIN g : g[i].sug # NoTerm /\ rows' = Renamed(g[i].term, g[i].sug)
  BY <1>1 DEF UseName, EditRows
<1>4. g[i].sug \in Name
  BY <1>2, <1>3, Suggested
<1>5. QED  BY <1>1, <1>2, <1>3, <1>4, RenamedIs

LEMMA UseAllNamesRetouches ==
  ASSUME TypeOK, UseAllNames
  PROVE  Retouched(rows', rows)
<1>1. PICK g, h, no : g = rows /\ h = rows' /\ no = NoTerm
  OBVIOUS
<1>2. g \in Seq(Row) /\ (\A i \in DOMAIN g : g[i] \in Row) /\ no \in Seq(Nat)
  <2>1. g \in Seq(Row)
    BY <1>1 DEF TypeOK, SheetsOK
  <2>2. QED  BY <1>1, <2>1 DEF NoTerm
<1>3. h = [i \in DOMAIN g |-> IF g[i].sug = no THEN g[i]
                              ELSE [g[i] EXCEPT !.term = g[i].sug, !.sug = no]]
  BY <1>1 DEF UseAllNames, EditRows
<1>4. ASSUME NEW i \in DOMAIN g PROVE h[i] \in Row /\ h[i].cols = g[i].cols
  <2>1. PICK r, t, s : r = g[i] /\ t = r.sug /\ s = [r EXCEPT !.term = t, !.sug = no]
    OBVIOUS
  <2>2. CASE t = no
    BY <1>2, <1>3, <2>1, <2>2
  <2>3. CASE t # no
    <3>1. r \in Row /\ t \in Name
      BY <1>1, <1>2, <2>1, <2>3, Suggested
    <3>2. h[i] = s
      BY <1>3, <2>1, <2>3
    <3>3. s \in Row /\ s.cols = r.cols
      BY <1>2, <2>1, <3>1 DEF Row
    <3>4. QED  BY <2>1, <3>2, <3>3
  <2>4. QED  BY <2>2, <2>3
<1>5. DOMAIN h = DOMAIN g /\ h = [i \in DOMAIN h |-> h[i]]
  BY <1>3
<1>6. QED  BY <1>1, <1>2, <1>4, <1>5, Rowwise

LEMMA SimMergeRetouches ==
  ASSUME TypeOK, SimMerge
  PROVE  Retouched(rows', rows)
<1>1. PICK g, h, no : g = rows /\ h = rows' /\ no = NoTerm
  OBVIOUS
<1>2. g \in Seq(Row) /\ (\A i \in DOMAIN g : g[i] \in Row) /\ no \in Seq(Nat)
  <2>1. g \in Seq(Row)
    BY <1>1 DEF TypeOK, SheetsOK
  <2>2. QED  BY <1>1, <2>1 DEF NoTerm
<1>3. PICK drop : \E keep \in Term \ {drop} :
        EditRows([i \in DOMAIN rows |-> IF rows[i].term # drop THEN rows[i]
          ELSE [rows[i] EXCEPT !.term = keep, !.sug = IF @ = keep THEN NoTerm ELSE @]])
  BY DEF SimMerge
<1>4. PICK keep \in Term :
        EditRows([i \in DOMAIN rows |-> IF rows[i].term # drop THEN rows[i]
          ELSE [rows[i] EXCEPT !.term = keep, !.sug = IF @ = keep THEN NoTerm ELSE @]])
  BY <1>3
<1>5. h = [i \in DOMAIN g |-> IF g[i].term # drop THEN g[i]
             ELSE [g[i] EXCEPT !.term = keep, !.sug = IF @ = keep THEN no ELSE @]]
  BY <1>1, <1>4 DEF EditRows
<1>6. ASSUME NEW i \in DOMAIN g PROVE h[i] \in Row /\ h[i].cols = g[i].cols
  <2> keep \in Name
    BY ReviewAssumption DEF ReviewAssumption
  <2>1. PICK r, t : r = g[i] /\ t = IF r.sug = keep THEN no ELSE r.sug
    OBVIOUS
  <2>2. r \in Row /\ t \in Seq(Nat)
    BY <1>2, <2>1, Suggested
  <2>3. PICK s : s = [r EXCEPT !.term = keep, !.sug = t]
    OBVIOUS
  <2>4. s \in Row /\ s.cols = r.cols
    BY <2>2, <2>3 DEF Row
  <2>5. h[i] = IF r.term # drop THEN r ELSE s
    BY <1>5, <2>1, <2>3
  <2>6. QED  BY <2>1, <2>2, <2>4, <2>5
<1>7. DOMAIN h = DOMAIN g /\ h = [i \in DOMAIN h |-> h[i]]
  BY <1>5
<1>8. QED  BY <1>1, <1>2, <1>6, <1>7, Rowwise

LEMMA AcceptPropRetouches ==
  ASSUME TypeOK, AcceptProp
  PROVE  Retouched(rows', rows)
<1>1. PICK g, h, p : g = rows /\ h = rows' /\ p = pills.items
  OBVIOUS
<1>2. g \in Seq(Row) /\ ItemsOK(p)
  BY <1>1 DEF TypeOK, SheetsOK, OldItems
<1>3. PICK i, f : i \in DOMAIN p \cap DOMAIN g /\ f \in DOMAIN p[i] /\ h = Accepted(i, f)
  BY <1>1 DEF AcceptProp, EditRows
<1>4. f \in Field /\ p[i][f] \in Pill(f)
  BY <1>2, <1>3 DEF ItemsOK
<1>5. PICK v : v = p[i][f].val
  OBVIOUS
<1>6. CASE f = "sug"
  <2>1. h = Renamed(g[i].term, v) /\ v \in Name
    BY <1>1, <1>3, <1>4, <1>5, <1>6 DEF Accepted, Pill
  <2>2. QED  BY <1>1, <1>2, <2>1, RenamedIs
<1>7. CASE f = "cat"
  <2>1. h = [g EXCEPT ![i].cat = v] /\ v \in Cat
    BY <1>1, <1>3, <1>4, <1>5, <1>7 DEF Accepted, Pill
  <2>2. QED  BY <1>1, <1>2, <1>3, <2>1, GridCat
<1>8. CASE f = "def"
  <2>1. h = [g EXCEPT ![i].def = v] /\ v \in 0 .. 2
    BY <1>1, <1>3, <1>4, <1>5, <1>8 DEF Accepted, Pill
  <2>2. QED  BY <1>1, <1>2, <1>3, <2>1, GridDef
<1>9. QED  BY <1>4, <1>6, <1>7, <1>8 DEF Field

LEMMA AcceptAllPropsRetouches ==
  ASSUME TypeOK, AcceptAllProps
  PROVE  Retouched(rows', rows)
<1>1. PICK g, h, p : g = rows /\ h = rows' /\ p = pills.items
  OBVIOUS
<1>2. g \in Seq(Row) /\ (\A i \in DOMAIN g : g[i] \in Row) /\ ItemsOK(p)
  <2>1. g \in Seq(Row) /\ ItemsOK(p)
    BY <1>1 DEF TypeOK, SheetsOK, OldItems
  <2>2. QED  BY <2>1
<1>3. h = [i \in DOMAIN g |-> IF HasField(i, "cat")
             THEN [g[i] EXCEPT !.cat = p[i]["cat"].val] ELSE g[i]]
  BY <1>1 DEF AcceptAllProps, EditRows
<1>4. ASSUME NEW i \in DOMAIN g PROVE h[i] \in Row /\ h[i].cols = g[i].cols
  <2>1. CASE HasField(i, "cat")
    <3>1. i \in DOMAIN p /\ "cat" \in DOMAIN p[i]
      BY <1>1, <2>1 DEF HasField, At, OldItems, NoMap
    <3>2. PICK c : c = p[i]["cat"].val
      OBVIOUS
    <3>3. c \in Cat
      <4>1. p[i]["cat"] \in Pill("cat")
        BY <1>2, <3>1 DEF ItemsOK
      <4>2. QED  BY <3>2, <4>1 DEF Pill
    <3>4. h[i] = [g[i] EXCEPT !.cat = c]
      BY <1>3, <2>1, <3>2
    <3>5. QED  BY <1>2, <3>3, <3>4, RowCat
  <2>2. CASE ~HasField(i, "cat")
    BY <1>2, <1>3, <2>2
  <2>3. QED  BY <2>1, <2>2
<1>5. DOMAIN h = DOMAIN g /\ h = [i \in DOMAIN h |-> h[i]]
  BY <1>3
<1>6. QED  BY <1>1, <1>2, <1>4, <1>5, Rowwise

(* The actions that touch rows one by one.                                 *)
Touches ==
  \/ OnField \/ OnKeep \/ MasterToggle \/ ToggleHM \/ RenameCategory \/ UseName \/ UseAllNames
  \/ SimMerge \/ AcceptProp \/ AcceptAllProps

(* Edits and accepted pills leave every row its columns.                   *)
LEMMA TouchesRetouch ==
  ASSUME TypeOK, Touches
  PROVE  Retouched(rows', rows)
BY OnFieldRetouches, OnKeepRetouches, MasterToggleRetouches, ToggleHMRetouches,
   RenameCategoryRetouches, UseNameRetouches, UseAllNamesRetouches, SimMergeRetouches,
   AcceptPropRetouches, AcceptAllPropsRetouches DEF Touches

(* A decision loses no column unless its cluster was joined by other rows. *)
LEMMA DecideIs ==
  ASSUME TypeOK, Decide
  PROVE  /\ rows' \in Seq(Row) /\ DecisionsOK(grp')
         /\ Closed => ColsOf(rows) \subseteq ColsOf(rows')
<1>1. rows \in Seq(Row) /\ DecisionsOK(grp)
  BY DEF TypeOK, SheetsOK
<1>2. PICK n \in TermsOf(rows), action \in {"merge", "split", "separate"} :
        LET d == GroupAction(rows, grp, n, Acted(n, action)) IN rows' = d.rows /\ grp' = d.grp
  BY DEF Decide, EditRows
<1>3. n \in Seq(Nat)
  BY <1>1, <1>2, TermsFinite DEF Name
<1>4. PICK a : a = Acted(n, action)
  OBVIOUS
<1>5. a \in {"merge", "split", "separate"}
  BY <1>4 DEF Acted
<1>6. PICK d : d = GroupAction(rows, grp, n, a)
  OBVIOUS
<1>7. /\ d.rows \in Seq(Row) /\ DecisionsOK(d.grp)
      /\ (n \in DOMAIN grp => ColsOf(Members(rows, n)) \subseteq ColsOf(grp[n].base))
           => ColsOf(rows) \subseteq ColsOf(d.rows)
  BY <1>1, <1>3, <1>5, <1>6, GroupActionIs
<1>8. rows' = d.rows /\ grp' = d.grp
  BY <1>2, <1>4, <1>6
<1>9. QED  BY <1>7, <1>8 DEF Closed

LEMMA HealedIs ==
  ASSUME rows \in Seq(Row), NEW quiet
  PROVE  Healed(quiet) \in Seq(Row) /\ ColsOf(rows) \subseteq ColsOf(Healed(quiet))
BY SelfFoldIs DEF Healed

LEMMA EnhanceLandedRetouches ==
  ASSUME TypeOK, EnhanceLanded
  PROVE  Retouched(rows', enhance)
<1>1. PICK g, h : g = enhance /\ h = rows'
  OBVIOUS
<1>2. g \in Seq(Row) /\ \A i \in DOMAIN g : g[i] \in Row
  <2>1. g \in Seq(Row)
    BY <1>1 DEF TypeOK, SheetsOK
  <2>2. QED  BY <2>1
<1>3. PICK matched : h = [i \in DOMAIN g |-> IF i \in matched
                            THEN [g[i] EXCEPT !.def = BySteward] ELSE g[i]]
  BY <1>1 DEF EnhanceLanded
<1>4. ASSUME NEW i \in DOMAIN g PROVE h[i] \in Row /\ h[i].cols = g[i].cols
  <2>1. PICK r, d, s : r = g[i] /\ d = BySteward /\ s = [r EXCEPT !.def = d]
    OBVIOUS
  <2>2. r \in Row /\ d \in 0 .. 2
    BY <1>2, <2>1 DEF BySteward
  <2>3. s \in Row /\ s.cols = r.cols
    BY <2>1, <2>2, RowDef
  <2>4. h[i] = IF i \in matched THEN s ELSE r
    BY <1>3, <2>1
  <2>5. QED  BY <2>1, <2>2, <2>3, <2>4
<1>5. DOMAIN h = DOMAIN g /\ h = [i \in DOMAIN h |-> h[i]]
  BY <1>3
<1>6. QED  BY <1>1, <1>2, <1>4, <1>5, Rowwise

LEMMA LandScanIs ==
  ASSUME TypeOK, LandScan
  PROVE  /\ rows' \in Seq(Row) /\ Within(Columns(rows), rows')
         /\ ColsOf(rows) \subseteq ColsOf(rows')
<1>1. rows \in Seq(Row) /\ Scans \subseteq Seq(Row)
  BY ReviewAssumption DEF TypeOK, SheetsOK, ReviewAssumption
<1>2. PICK scan \in Scans, fresh \in BOOLEAN : rows' = MergeBySource(rows, scan, fresh)
  BY DEF LandScan
<1>3. QED  BY <1>1, <1>2, MergeBySourceIs

(* Steps that leave the grid and the decisions alone, and those that bring *)
(* another grid.                                                           *)
Quiet ==
  \/ RunAiPass \/ RunAiPassRow \/ BatchAnswered \/ BatchFailed \/ Offline \/ Cancel
  \/ AiCategories \/ CatStarted \/ CatNotStarted \/ CatWorked \/ CatPolled \/ CatLost
  \/ DismissProps \/ Chips \/ Leave

(* Quiet steps leave the grid, the decisions and the overlay alone.        *)
LEMMA QuietFrame == Quiet => UNCHANGED <<rows, grp, snap, enhance, crossed, hm>>
<1>1. ASSUME NEW targets, StartRun(targets) PROVE UNCHANGED <<rows, grp, snap, enhance, crossed, hm>>
  BY <1>1 DEF StartRun
<1>2. RunAiPass \/ RunAiPassRow => UNCHANGED <<rows, grp, snap, enhance, crossed, hm>>
  BY <1>1 DEF RunAiPass, RunAiPassRow
<1>3. BatchAnswered \/ BatchFailed \/ Offline \/ Cancel
        => UNCHANGED <<rows, grp, snap, enhance, crossed, hm>>
  BY DEF BatchAnswered, BatchFailed, Offline, Cancel
<1>4. AiCategories \/ CatStarted \/ CatNotStarted \/ CatWorked \/ CatPolled \/ CatLost
        => UNCHANGED <<rows, grp, snap, enhance, crossed, hm>>
  BY DEF AiCategories, CatStarted, CatNotStarted, CatWorked, CatPolled, CatLost
<1>5. DismissProps \/ Chips \/ Leave => UNCHANGED <<rows, grp, snap, enhance, crossed, hm>>
  BY DEF DismissProps, Chips, Leave, Page
<1>6. QED  BY <1>2, <1>3, <1>4, <1>5 DEF Quiet

(* Every step is of one of these kinds.                                    *)
LEMMA NextCases ==
  Next => \/ Touches \/ Quiet \/ OnGroupSet \/ ResetAll \/ OnLoadFile \/ EnhanceSent
          \/ EnhanceLanded \/ Return \/ Repair \/ LandScan \/ OpenOther
BY DEF Next, Edits, Agents, Job, Walk, Outside, Touches, Quiet

LEMMA TouchesFrame == Touches => UNCHANGED <<grp, Page>>
BY DEF Touches, OnField, OnKeep, MasterToggle, ToggleHM, RenameCategory, UseName, UseAllNames,
       SimMerge, AcceptProp, AcceptAllProps

LEMMA SheetsStep ==
  ASSUME TypeOK, [Next]_vars
  PROVE  SheetsOK' /\ DecisionsOK(grp)'
<1>1. /\ rows \in Seq(Row) /\ snap \in Seq(Row) /\ enhance \in Seq(Row) /\ DecisionsOK(grp)
      /\ Grids \subseteq Seq(Row)
  BY ReviewAssumption DEF TypeOK, SheetsOK, ReviewAssumption
<1>2. PICK e : e = << >>
  OBVIOUS
<1>3. e \in Seq(Row) /\ DecisionsOK(NoMap)
  BY <1>2 DEF DecisionsOK, NoMap
<1>4. CASE UNCHANGED vars
  BY <1>1, <1>4 DEF vars, SheetsOK, DecisionsOK
<1>5. CASE Touches
  BY <1>1, <1>5, TouchesRetouch, TouchesFrame DEF Page, SheetsOK, DecisionsOK, Retouched
<1>6. CASE Quiet
  BY <1>1, <1>6, QuietFrame DEF SheetsOK, DecisionsOK
<1>7. CASE OnGroupSet
  BY <1>1, <1>7, DecideIs DEF OnGroupSet, SheetsOK, DecisionsOK
<1>8. CASE ResetAll
  BY <1>1, <1>3, <1>8 DEF ResetAll, EditRows, SheetsOK, DecisionsOK
<1>9. CASE OnLoadFile
  BY <1>1, <1>3, <1>9 DEF OnLoadFile, SheetsOK, DecisionsOK
<1>10. CASE EnhanceSent
  BY <1>1, <1>10 DEF EnhanceSent, SheetsOK, DecisionsOK
<1>11. CASE EnhanceLanded
  BY <1>1, <1>2, <1>3, <1>11, EnhanceLandedRetouches
  DEF EnhanceLanded, SheetsOK, DecisionsOK, Retouched
<1>12. CASE Return
  BY <1>1, <1>12, HealedIs DEF Return, SheetsOK, DecisionsOK
<1>13. CASE Repair
  BY <1>1, <1>13, HealedIs DEF Repair, SheetsOK, DecisionsOK
<1>14. CASE LandScan
  BY <1>1, <1>14, LandScanIs DEF LandScan, SheetsOK, DecisionsOK
<1>15. CASE OpenOther
  BY <1>1, <1>2, <1>3, <1>15 DEF OpenOther, SheetsOK, DecisionsOK
<1>16. QED  BY <1>4, <1>5, <1>6, <1>7, <1>8, <1>9, <1>10, <1>11, <1>12, <1>13, <1>14, <1>15, NextCases

-----------------------------------------------------------------------------
(* The pills: T[i][f] is what a pill for field f of row i may be.          *)

Entries(q, T) == \A i \in DOMAIN q :
  /\ i \in DOMAIN T /\ (DOMAIN q[i] = {} => q[i] = NoMap)
  /\ \A f \in DOMAIN q[i] : f \in Field /\ q[i][f] \in T[i][f]

EntriesIn(p, T) == Entries(p, T) /\ \A i \in DOMAIN p : DOMAIN p[i] # {}

(* The restriction of a map.                                               *)
LEMMA ItemsIs ==
  ASSUME NEW p, NEW S
  PROVE  DOMAIN Items(p, S) = S /\ (S = {} => Items(p, S) = NoMap)
         /\ \A i \in S : Items(p, S)[i] = p[i]
BY DEF Items, NoMap

(* Rows left without a pill leave the set.                                 *)
LEMMA TrimmedIn ==
  ASSUME NEW q, NEW T, Entries(q, T)
  PROVE  EntriesIn(Items(q, {i \in DOMAIN q : q[i] # NoMap}), T)
<1>1. PICK S, p : S = {i \in DOMAIN q : q[i] # NoMap} /\ p = Items(q, S)
  OBVIOUS
<1>2. DOMAIN p = S /\ \A i \in S : i \in DOMAIN q /\ q[i] # NoMap /\ p[i] = q[i]
  BY <1>1, ItemsIs
<1>3. \A i \in S : i \in DOMAIN q /\ DOMAIN q[i] # {}
  BY <1>2 DEF Entries
<1>4. EntriesIn(p, T)
  BY <1>2, <1>3 DEF EntriesIn, Entries
<1>5. QED  BY <1>1, <1>4

(* Taking pills away leaves pills that were there.                         *)
LEMMA ThinnedIn ==
  ASSUME NEW p, NEW T, EntriesIn(p, T), NEW q, DOMAIN q \subseteq DOMAIN p,
         \A i \in DOMAIN q : q[i] = p[i] \/ \E S \in SUBSET DOMAIN p[i] : q[i] = Items(p[i], S)
  PROVE  EntriesIn(Items(q, {i \in DOMAIN q : q[i] # NoMap}), T)
<1>1. ASSUME NEW i \in DOMAIN q
      PROVE  /\ i \in DOMAIN T /\ (DOMAIN q[i] = {} => q[i] = NoMap)
             /\ \A f \in DOMAIN q[i] : f \in Field /\ q[i][f] \in T[i][f]
  <2>1. i \in DOMAIN p
    OBVIOUS
  <2>2. CASE q[i] = p[i]
    BY <2>1, <2>2 DEF EntriesIn, Entries
  <2>3. CASE \E S \in SUBSET DOMAIN p[i] : q[i] = Items(p[i], S)
    <3>1. PICK S \in SUBSET DOMAIN p[i] : q[i] = Items(p[i], S)
      BY <2>3
    <3>2. DOMAIN q[i] = S /\ (S = {} => q[i] = NoMap) /\ \A f \in S : q[i][f] = p[i][f]
      BY <3>1, ItemsIs
    <3>3. QED  BY <2>1, <3>2 DEF EntriesIn, Entries
  <2>4. QED  BY <2>2, <2>3
<1>2. Entries(q, T)
  BY <1>1 DEF Entries
<1>3. QED  BY <1>2, TrimmedIn

(* New pills laid over old ones.                                           *)
LEMMA MergeIn ==
  ASSUME NEW p, NEW a, NEW T, EntriesIn(p, T), EntriesIn(a, T)
  PROVE  EntriesIn(Merge(p, a), T)
<1>1. PICK m : m = Merge(p, a)
  OBVIOUS
<1>2. DOMAIN m = DOMAIN p \cup DOMAIN a
  BY <1>1 DEF Merge
<1>3. ASSUME NEW i \in DOMAIN m
      PROVE  /\ i \in DOMAIN T /\ DOMAIN m[i] # {}
             /\ \A f \in DOMAIN m[i] : f \in Field /\ m[i][f] \in T[i][f]
  <2>1. PICK u, v : u = At(p, i) /\ v = At(a, i)
    OBVIOUS
  <2>2. m[i] = Over(u, v)
    BY <1>1, <1>2, <2>1 DEF Merge
  <2>3. /\ DOMAIN m[i] = DOMAIN u \cup DOMAIN v
        /\ \A f \in DOMAIN m[i] : m[i][f] = IF f \in DOMAIN v THEN v[f] ELSE u[f]
    BY <2>2 DEF Over
  <2>4. DOMAIN NoMap = {}
    BY DEF NoMap
  <2>5. /\ i \in DOMAIN T
        /\ i \in DOMAIN p => u = p[i] /\ DOMAIN u # {}
        /\ i \in DOMAIN a => v = a[i] /\ DOMAIN v # {}
    BY <1>2, <2>1 DEF At, EntriesIn, Entries
  <2>6. \A f \in DOMAIN u : f \in Field /\ u[f] \in T[i][f]
    BY <2>1, <2>4 DEF At, EntriesIn, Entries
  <2>7. \A f \in DOMAIN v : f \in Field /\ v[f] \in T[i][f]
    BY <2>1, <2>4 DEF At, EntriesIn, Entries
  <2>8. QED  BY <1>2, <2>3, <2>5, <2>6, <2>7
<1>4. EntriesIn(m, T)
  BY <1>3 DEF EntriesIn, Entries
<1>5. QED  BY <1>1, <1>4

LEMMA NoEntries == \A T : EntriesIn(NoMap, T)
BY DEF NoMap, EntriesIn, Entries

LEMMA PillsIs ==
  ASSUME NEW p, NEW w, NEW T, EntriesIn(p, T)
  PROVE  EntriesIn(Pills(p, w).items, T)
BY NoEntries DEF Pills, NoPills

LEMMA SubSeqIn ==
  ASSUME NEW S, NEW s \in Seq(S), NEW m \in Nat \ {0}, NEW n \in 0 .. Len(s)
  PROVE  SubSeq(s, m, n) \in Seq(S) /\ ToSet(SubSeq(s, m, n)) \subseteq ToSet(s)
         /\ Len(SubSeq(s, m, n)) \in Nat
<1>1. PICK t : t = SubSeq(s, m, n)
  OBVIOUS
<1>2. t \in Seq(S) /\ DOMAIN s = 1 .. Len(s)
  BY <1>1
<1>3. ASSUME NEW i \in DOMAIN t PROVE t[i] \in ToSet(s)
  <2>1. m + i - 1 \in DOMAIN s /\ t[i] = s[m + i - 1]
    BY <1>1, <1>2
  <2>2. QED  BY <2>1 DEF ToSet
<1>4. QED  BY <1>1, <1>2, <1>3 DEF ToSet

(* A batch and what remains after it are targets of the run.               *)
LEMMA BatchIs ==
  ASSUME LoopOK
  PROVE  /\ ToSet(Batch) \subseteq ToSet(loop.targets)
         /\ AfterBatch \in Seq(Nat) /\ ToSet(AfterBatch) \subseteq ToSet(loop.targets)
<1>1. PICK s, n, b : s = loop.targets /\ n = (IF Len(s) < Chunk THEN Len(s) ELSE Chunk) /\ b = Batch
  OBVIOUS
<1>2. s \in Seq(Nat) /\ Chunk \in Nat
  BY <1>1, ReviewAssumption DEF LoopOK, ReviewAssumption
<1>3. n \in 0 .. Len(s) /\ 1 \in Nat \ {0}
  BY <1>1, <1>2
<1>4. b = SubSeq(s, 1, n)
  BY <1>1 DEF Batch
<1>5. ToSet(b) \subseteq ToSet(s) /\ Len(b) \in Nat
  BY <1>2, <1>3, <1>4, SubSeqIn
<1>6. Len(b) + 1 \in Nat \ {0} /\ Len(s) \in 0 .. Len(s)
  BY <1>2, <1>5
<1>7. PICK m, l : m = Len(b) + 1 /\ l = Len(s)
  OBVIOUS
<1>8. SubSeq(s, m, l) \in Seq(Nat) /\ ToSet(SubSeq(s, m, l)) \subseteq ToSet(s)
  BY <1>2, <1>6, <1>7, SubSeqIn
<1>9. AfterBatch = SubSeq(s, m, l)
  BY <1>1, <1>7 DEF AfterBatch
<1>10. QED  BY <1>1, <1>5, <1>8, <1>9

(* A pill may be what was sent for row i, c[i] being its columns.          *)
Takes(T, I, c) == \A i \in I : i \in DOMAIN T /\ \A f \in Field : \A v \in Pill(f) :
                     v.for = c[i] => v \in T[i][f]

(* The answers of a batch are pills for rows that were sent.               *)
LEMMA BatchAnsweredIn ==
  ASSUME TypeOK, BatchAnswered, NEW T, EntriesIn(OldItems, T),
         Takes(T, ToSet(loop.targets), Columns(loop.base))
  PROVE  EntriesIn(OldItems', T)
<1>1. PICK B, b : B = ToSet(Batch) /\ b = loop.base
  OBVIOUS
<1>2. PICK add : /\ DOMAIN add = B /\ \A i \in B : add[i] \in Proposals(i)
                 /\ LET real == Items(add, {i \in B : add[i] # NoMap})
                    IN  pills' = IF DOMAIN real = {} THEN pills ELSE Pills(Merge(OldItems, real), FALSE)
  BY <1>1 DEF BatchAnswered
<1>3. PICK S, real : S = {i \in B : add[i] # NoMap} /\ real = Items(add, S)
  OBVIOUS
<1>4. DOMAIN real = S /\ \A i \in S : i \in B /\ add[i] # NoMap /\ real[i] = add[i]
  BY <1>3, ItemsIs
<1>5. ToSet(loop.targets) \subseteq DOMAIN b /\ B \subseteq ToSet(loop.targets) /\ b \in Seq(Row)
  BY <1>1, BatchIs DEF TypeOK, LoopOK
<1>6. ASSUME NEW i \in S
      PROVE  /\ i \in DOMAIN T /\ DOMAIN real[i] # {}
             /\ \A f \in DOMAIN real[i] : f \in Field /\ real[i][f] \in T[i][f]
  <2>1. i \in ToSet(loop.targets) /\ i \in DOMAIN b /\ b[i] \in Row
    BY <1>4, <1>5
  <2>2. PICK c : c = b[i].cols
    OBVIOUS
  <2>3. c \in Seq(Col) /\ c = Columns(b)[i]
    BY <2>1, <2>2 DEF Row, Columns
  <2>4. i \in DOMAIN T /\ \A f \in Field : \A v \in Pill(f) : v.for = c => v \in T[i][f]
    BY <1>1, <2>1, <2>3 DEF Takes
  <2>5. CASE real[i] = Proposed(i, "def", ByModel)
    <3>1. PICK v : v = [val |-> ByModel, for |-> c]
      OBVIOUS
    <3>2. real[i] = [x \in {"def"} |-> v]
      BY <1>1, <2>2, <2>5, <3>1 DEF Proposed
    <3>3. "def" \in Field /\ v \in Pill("def") /\ v.for = c
      BY <2>3, <3>1 DEF Field, Pill, ByModel
    <3>4. QED  BY <2>4, <3>2, <3>3
  <2>6. CASE \E t \in Term : real[i] = Proposed(i, "sug", t)
    <3>1. PICK t \in Term : real[i] = Proposed(i, "sug", t)
      BY <2>6
    <3>2. PICK v : v = [val |-> t, for |-> c]
      OBVIOUS
    <3>3. real[i] = [x \in {"sug"} |-> v]
      BY <1>1, <2>2, <3>1, <3>2 DEF Proposed
    <3>4. t \in Name
      BY ReviewAssumption DEF ReviewAssumption
    <3>5. "sug" \in Field /\ v \in Pill("sug") /\ v.for = c
      BY <2>3, <3>2, <3>4 DEF Field, Pill
    <3>6. QED  BY <2>4, <3>3, <3>5
  <2>7. real[i] = Proposed(i, "def", ByModel) \/ \E t \in Term : real[i] = Proposed(i, "sug", t)
    BY <1>2, <1>4 DEF Proposals
  <2>8. QED  BY <2>5, <2>6, <2>7
<1>7. EntriesIn(real, T)
  BY <1>4, <1>6 DEF EntriesIn, Entries
<1>8. CASE pills' = pills
  BY <1>8 DEF OldItems
<1>9. CASE pills' = Pills(Merge(OldItems, real), FALSE)
  <2>1. PICK m : m = Merge(OldItems, real)
    OBVIOUS
  <2>2. EntriesIn(m, T)
    BY <1>7, <2>1, MergeIn
  <2>3. EntriesIn(Pills(m, FALSE).items, T)
    BY <2>2, PillsIs
  <2>4. QED  BY <1>9, <2>1, <2>3 DEF OldItems
<1>10. pills' = IF DOMAIN real = {} THEN pills ELSE Pills(Merge(OldItems, real), FALSE)
  BY <1>2, <1>3
<1>11. QED  BY <1>8, <1>9, <1>10

(* So are the assignments of a categorize job.                             *)
LEMMA CatPolledIn ==
  ASSUME TypeOK, CatPolled, NEW T, EntriesIn(OldItems, T), Takes(T, DOMAIN cat.asked, cat.asked)
  PROVE  EntriesIn(OldItems', T)
<1>1. CASE UNCHANGED pills
  BY <1>1 DEF OldItems
<1>2. CASE \E a \in [DOMAIN cat.asked -> Cat] : HandleCatResult(a)
  <2>1. PICK a \in [DOMAIN cat.asked -> Cat] : HandleCatResult(a)
    BY <1>2
  <2>2. PICK fresh, old, w : /\ fresh = CatPills(a) /\ old = NoCat(OldItems)
                             /\ w = (~Pending \/ pills.wholesale)
    OBVIOUS
  <2>3. EntriesIn(old, T)
    <3>1. PICK p : p = OldItems
      OBVIOUS
    <3>2. PICK q : q = [i \in DOMAIN p |-> Items(p[i], DOMAIN p[i] \ {"cat"})]
      OBVIOUS
    <3>3. old = Items(q, {i \in DOMAIN q : q[i] # NoMap})
      BY <2>2, <3>1, <3>2 DEF NoCat
    <3>4. ASSUME NEW i \in DOMAIN q
          PROVE  q[i] = p[i] \/ \E S \in SUBSET DOMAIN p[i] : q[i] = Items(p[i], S)
      BY <3>2
    <3>5. DOMAIN q \subseteq DOMAIN p /\ EntriesIn(p, T)
      BY <3>1, <3>2
    <3>6. QED  BY <3>3, <3>4, <3>5, ThinnedIn
  <2>4. EntriesIn(fresh, T)
    <3>1. ASSUME NEW i \in DOMAIN fresh
          PROVE  /\ i \in DOMAIN T /\ DOMAIN fresh[i] # {}
                 /\ \A f \in DOMAIN fresh[i] : f \in Field /\ fresh[i][f] \in T[i][f]
      <4>1. PICK v : v = [val |-> a[i], for |-> cat.asked[i]]
        OBVIOUS
      <4>2. i \in DOMAIN cat.asked /\ fresh[i] = [x \in {"cat"} |-> v]
        BY <2>1, <2>2, <4>1 DEF CatPills
      <4>3. a[i] \in Cat /\ cat.asked[i] \in Seq(Col)
        BY <2>1, <4>2 DEF TypeOK, JobOK
      <4>4. "cat" \in Field /\ v \in Pill("cat") /\ v.for = cat.asked[i]
        BY <4>1, <4>3 DEF Field, Pill
      <4>5. i \in DOMAIN T /\ v \in T[i]["cat"]
        BY <4>2, <4>4 DEF Takes
      <4>6. QED  BY <4>2, <4>4, <4>5
    <3>2. QED  BY <3>1 DEF EntriesIn, Entries
  <2>5. PICK m : m = Merge(old, fresh)
    OBVIOUS
  <2>6. EntriesIn(Pills(m, w).items, T)
    BY <2>3, <2>4, <2>5, MergeIn, PillsIs
  <2>7. pills' = IF DOMAIN fresh = {} THEN pills ELSE Pills(m, w)
    BY <2>1, <2>2, <2>5 DEF HandleCatResult
  <2>8. QED  BY <2>6, <2>7 DEF OldItems
<1>3. QED  BY <1>1, <1>2 DEF CatPolled

(* Accepting one pill leaves the others.                                   *)
LEMMA AcceptPropIn ==
  ASSUME AcceptProp, NEW T, EntriesIn(OldItems, T)
  PROVE  EntriesIn(OldItems', T)
<1>1. PICK p, w : p = pills.items /\ w = pills.wholesale
  OBVIOUS
<1>2. PICK i, f : i \in DOMAIN p /\ f \in DOMAIN p[i] /\ pills' = Pills(WithoutField(p, i, f), w)
  BY <1>1 DEF AcceptProp
<1>3. PICK q : q = [p EXCEPT ![i] = Items(p[i], DOMAIN p[i] \ {f})]
  OBVIOUS
<1>4. PICK r : r = WithoutField(p, i, f)
  OBVIOUS
<1>5. r = Items(q, {j \in DOMAIN q : q[j] # NoMap})
  BY <1>3, <1>4 DEF WithoutField
<1>6. ASSUME NEW j \in DOMAIN q
      PROVE  q[j] = p[j] \/ \E S \in SUBSET DOMAIN p[j] : q[j] = Items(p[j], S)
  BY <1>2, <1>3
<1>7. DOMAIN q \subseteq DOMAIN p
  BY <1>3
<1>8. EntriesIn(r, T)
  BY <1>1, <1>5, <1>6, <1>7, ThinnedIn DEF OldItems
<1>9. EntriesIn(Pills(r, w).items, T)
  BY <1>8, PillsIs
<1>10. QED  BY <1>2, <1>4, <1>9 DEF OldItems

(* Which value a category pill proposes does not matter to T.              *)
AnyCat(T) == \A i \in DOMAIN T : \A v \in T[i]["cat"] : \A c \in Cat :
               [v EXCEPT !.val = c] \in T[i]["cat"]

(* The chips change which category is proposed, never for which row.       *)
LEMMA ChipsIn ==
  ASSUME Chips, NEW T, EntriesIn(OldItems, T), AnyCat(T)
  PROVE  EntriesIn(OldItems', T)
<1>1. PICK p, w : p = OldItems /\ w = pills.wholesale
  OBVIOUS
<1>2. PICK c \in Cat :
        DismissProposedCat(c) \/ \E new \in Cat \ {c} : RenameProposedCat(c, new)
  BY DEF Chips
<1>3. CASE DismissProposedCat(c)
  <2>1. PICK q : q = [i \in DOMAIN p |-> IF i \in PillsOf(c)
                        THEN Items(p[i], DOMAIN p[i] \ {"cat"}) ELSE p[i]]
    OBVIOUS
  <2>2. ASSUME NEW j \in DOMAIN q
        PROVE  q[j] = p[j] \/ \E S \in SUBSET DOMAIN p[j] : q[j] = Items(p[j], S)
    BY <2>1
  <2>3. DOMAIN q \subseteq DOMAIN p
    BY <2>1
  <2>4. PICK r : r = Items(q, {i \in DOMAIN q : q[i] # NoMap})
    OBVIOUS
  <2>5. EntriesIn(Pills(r, w).items, T)
    BY <1>1, <2>2, <2>3, <2>4, ThinnedIn, PillsIs
  <2>6. pills' = Pills(r, w)
    BY <1>1, <1>3, <2>1, <2>4 DEF DismissProposedCat
  <2>7. QED  BY <2>5, <2>6 DEF OldItems
<1>4. CASE \E new \in Cat \ {c} : RenameProposedCat(c, new)
  <2>1. PICK new \in Cat : RenameProposedCat(c, new)
    BY <1>4
  <2>2. PICK q : q = [i \in DOMAIN p |->
            IF i \notin PillsOf(c) THEN p[i]
            ELSE IF i \in DOMAIN rows /\ rows[i].cat = new THEN Items(p[i], DOMAIN p[i] \ {"cat"})
            ELSE [p[i] EXCEPT !["cat"].val = new]]
    OBVIOUS
  <2>3. PICK r : r = Items(q, {i \in DOMAIN q : q[i] # NoMap})
    OBVIOUS
  <2>4. pills' = Pills(r, w)
    BY <1>1, <2>1, <2>2, <2>3 DEF RenameProposedCat
  <2>5. ASSUME NEW i \in DOMAIN q
        PROVE  /\ i \in DOMAIN T /\ (DOMAIN q[i] = {} => q[i] = NoMap)
               /\ \A f \in DOMAIN q[i] : f \in Field /\ q[i][f] \in T[i][f]
    <3>1. /\ i \in DOMAIN p /\ i \in DOMAIN T /\ DOMAIN p[i] # {}
          /\ \A f \in DOMAIN p[i] : f \in Field /\ p[i][f] \in T[i][f]
      BY <1>1, <2>2 DEF EntriesIn, Entries
    <3>2. CASE q[i] = p[i]
      BY <3>1, <3>2
    <3>3. CASE q[i] = Items(p[i], DOMAIN p[i] \ {"cat"})
      <4>1. PICK S : S = DOMAIN p[i] \ {"cat"}
        OBVIOUS
      <4>2. DOMAIN q[i] = S /\ (S = {} => q[i] = NoMap) /\ \A f \in S : q[i][f] = p[i][f]
        BY <3>3, <4>1, ItemsIs
      <4>3. QED  BY <3>1, <4>1, <4>2
    <3>4. CASE i \in PillsOf(c) /\ q[i] = [p[i] EXCEPT !["cat"].val = new]
      <4>1. "cat" \in DOMAIN p[i]
        BY <1>1, <3>1, <3>4 DEF PillsOf, HasField, At
      <4>2. PICK u, v : u = p[i]["cat"] /\ v = [u EXCEPT !.val = new]
        OBVIOUS
      <4>3. u \in T[i]["cat"]
        BY <3>1, <4>1, <4>2
      <4>4. v \in T[i]["cat"]
        BY <2>1, <3>1, <4>2, <4>3 DEF AnyCat
      <4>5. q[i] = [p[i] EXCEPT !["cat"] = v]
        BY <3>4, <4>2
      <4>6. DOMAIN q[i] = DOMAIN p[i]
            /\ \A f \in DOMAIN p[i] : q[i][f] = IF f = "cat" THEN v ELSE p[i][f]
        BY <4>5
      <4>7. QED  BY <3>1, <4>4, <4>6
    <3>5. QED  BY <2>2, <3>2, <3>3, <3>4
  <2>6. Entries(q, T)
    BY <2>5 DEF Entries
  <2>7. EntriesIn(Pills(r, w).items, T)
    BY <2>3, <2>6, TrimmedIn, PillsIs
  <2>8. QED  BY <2>4, <2>7 DEF OldItems
<1>5. QED  BY <1>2, <1>3, <1>4

(* Every other step keeps the pills as they are or drops them all.         *)
LEMMA PillsStep ==
  ASSUME TypeOK, [Next]_vars, ~BatchAnswered, ~CatPolled, ~AcceptProp, ~Chips
  PROVE  pills' = pills \/ pills' = NoPills
<1>1. CASE UNCHANGED vars
  BY <1>1 DEF vars
<1>2. CASE Edits
  BY <1>2 DEF Edits, OnField, OnKeep, MasterToggle, ToggleHM, RenameCategory, UseName,
       UseAllNames, SimMerge, OnGroupSet, ResetAll, StructuralReset, Page
<1>3. CASE Agents
  <2>1. ASSUME NEW targets, StartRun(targets) PROVE pills' = pills
    BY <2>1 DEF StartRun
  <2>2. QED  BY <1>3, <2>1 DEF Agents, RunAiPass, RunAiPassRow, BatchFailed, Offline, Cancel
<1>4. CASE Job
  BY <1>4 DEF Job, AiCategories, CatStarted, CatNotStarted, CatWorked, CatLost
<1>5. CASE Walk
  BY <1>5 DEF Walk, AcceptAllProps, DismissProps, StructuralReset, Page
<1>6. CASE Outside
  BY <1>6 DEF Outside, OnLoadFile, EnhanceSent, EnhanceLanded, Leave, Return, Repair, LandScan,
       OpenOther, StructuralReset
<1>7. QED  BY <1>1, <1>2, <1>3, <1>4, <1>5, <1>6 DEF Next

Typed == [i \in Nat |-> [f \in Field |-> Pill(f)]]

LEMMA ItemsTyped == \A p : ItemsOK(p) <=> EntriesIn(p, Typed)
<1>1. DOMAIN Typed = Nat /\ \A i \in Nat : \A f \in Field : Typed[i][f] = Pill(f)
  BY DEF Typed
<1>2. ASSUME NEW p, ItemsOK(p) PROVE EntriesIn(p, Typed)
  BY <1>1, <1>2 DEF ItemsOK, EntriesIn, Entries
<1>3. ASSUME NEW p, EntriesIn(p, Typed) PROVE ItemsOK(p)
  BY <1>1, <1>3 DEF ItemsOK, EntriesIn, Entries
<1>4. QED  BY <1>2, <1>3

(* The pills keep their shape.                                             *)
LEMMA ItemsStep ==
  ASSUME TypeOK, [Next]_vars
  PROVE  ItemsOK(OldItems)'
<1>1. PICK T : T = Typed
  OBVIOUS
<1>2. /\ DOMAIN T = Nat /\ \A i \in Nat : \A f \in Field : T[i][f] = Pill(f)
      /\ \A p : ItemsOK(p) <=> EntriesIn(p, T)
  BY <1>1, ItemsTyped DEF Typed
<1>3. EntriesIn(OldItems, T)
  BY <1>2 DEF TypeOK
<1>4. AnyCat(T)
  <2>1. \A v \in Pill("cat") : \A c \in Cat : [v EXCEPT !.val = c] \in Pill("cat")
    BY DEF Pill
  <2>2. QED  BY <1>2, <2>1 DEF AnyCat, Field
<1>5. Takes(T, ToSet(loop.targets), Columns(loop.base)) /\ Takes(T, DOMAIN cat.asked, cat.asked)
  <2>1. ToSet(loop.targets) \subseteq Nat /\ DOMAIN cat.asked \subseteq Nat
    BY DEF TypeOK, LoopOK, JobOK, ToSet
  <2>2. QED  BY <1>2, <2>1 DEF Takes
<1>6. EntriesIn(OldItems', T)
  <2>1. CASE BatchAnswered
    BY <1>3, <1>5, <2>1, BatchAnsweredIn
  <2>2. CASE CatPolled
    BY <1>3, <1>5, <2>2, CatPolledIn
  <2>3. CASE AcceptProp
    BY <1>3, <2>3, AcceptPropIn
  <2>4. CASE Chips
    BY <1>3, <1>4, <2>4, ChipsIn
  <2>5. CASE pills' = pills \/ pills' = NoPills
    BY <1>3, <2>5, NoEntries DEF OldItems, NoPills
  <2>6. QED  BY <2>1, <2>2, <2>3, <2>4, <2>5, PillsStep
<1>7. QED  BY <1>2, <1>6

-----------------------------------------------------------------------------
(* Runs and jobs.                                                          *)

RunTargets(t) == t \in Seq(Nat) /\ ToSet(t) \subseteq DOMAIN rows

(* A run goes over rows of the grid.                                       *)
LEMMA RunsTarget ==
  ASSUME TypeOK, RunAiPass \/ RunAiPassRow
  PROVE  \E t : RunTargets(t) /\ StartRun(t)
<1>1. PICK D : D = DOMAIN rows
  OBVIOUS
<1>2. rows \in Seq(Row) /\ D = 1 .. Len(rows) /\ Len(rows) \in Nat
  BY <1>1 DEF TypeOK, SheetsOK
<1>3. CASE RunAiPass
  <2>1. PICK s, I, t : s = [i \in D |-> i] /\ I = KeptRows(rows) /\ t = Picked(s, I)
    OBVIOUS
  <2>2. s \in Seq(D)
    BY <1>2, <2>1
  <2>3. t \in Seq(D) /\ ToSet(t) = {s[i] : i \in I \cap DOMAIN s}
    BY <2>1, <2>2, PickedIs
  <2>4. t \in Seq(Nat) /\ ToSet(t) \subseteq D
    BY <1>2, <2>1, <2>3
  <2>5. StartRun(t)
    BY <1>1, <1>3, <2>1 DEF RunAiPass
  <2>6. QED  BY <1>1, <2>4, <2>5 DEF RunTargets
<1>4. CASE RunAiPassRow
  <2>1. PICK i \in D : StartRun(<<i>>)
    BY <1>1, <1>4 DEF RunAiPassRow
  <2>2. PICK t : t = <<i>>
    OBVIOUS
  <2>3. t \in Seq(Nat) /\ ToSet(t) \subseteq D
    BY <1>2, <2>2 DEF ToSet
  <2>4. QED  BY <1>1, <2>1, <2>2, <2>3 DEF RunTargets
<1>5. QED  BY <1>3, <1>4

LEMMA LoopFrame ==
  ASSUME [Next]_vars
  PROVE  \/ RunAiPass \/ RunAiPassRow \/ BatchAnswered \/ BatchFailed \/ Offline \/ Cancel \/ Leave
         \/ loop' = loop
<1>1. CASE UNCHANGED vars
  BY <1>1 DEF vars
<1>2. CASE Edits
  BY <1>2 DEF Edits, OnField, OnKeep, MasterToggle, ToggleHM, RenameCategory, UseName,
       UseAllNames, SimMerge, OnGroupSet, ResetAll, Page
<1>3. CASE Job
  BY <1>3 DEF Job, AiCategories, CatStarted, CatNotStarted, CatWorked, CatPolled, CatLost
<1>4. CASE Walk
  BY <1>4 DEF Walk, AcceptProp, AcceptAllProps, DismissProps, Chips, Page
<1>5. CASE Outside
  BY <1>5 DEF Outside, OnLoadFile, EnhanceSent, EnhanceLanded, Return, Repair, LandScan, OpenOther
<1>6. QED  BY <1>1, <1>2, <1>3, <1>4, <1>5 DEF Next, Agents

(* A run keeps its shape and its targets stay rows it was started with.    *)
LEMMA LoopStep ==
  ASSUME TypeOK, [Next]_vars
  PROVE  LoopOK'
<1>1. LoopOK
  BY DEF TypeOK
<1>2. CASE loop' = loop
  BY <1>1, <1>2 DEF LoopOK
<1>3. CASE loop' = NoLoop
  <2>1. PICK e : e = << >>
    OBVIOUS
  <2>2. e \in Seq(Row) /\ e \in Seq(Nat) /\ ToSet(e) = {}
    BY <2>1 DEF ToSet
  <2>3. loop' = [on |-> FALSE, base |-> e, targets |-> e, own |-> FALSE, stop |-> FALSE]
    BY <1>3, <2>1 DEF NoLoop
  <2>4. QED  BY <2>2, <2>3 DEF LoopOK
<1>4. CASE RunAiPass \/ RunAiPassRow
  <2>1. PICK t : RunTargets(t) /\ StartRun(t)
    BY <1>4, RunsTarget
  <2>2. loop' = [on |-> TRUE, base |-> rows, targets |-> t, own |-> TRUE, stop |-> FALSE]
    BY <2>1 DEF StartRun
  <2>3. rows \in Seq(Row)
    BY DEF TypeOK, SheetsOK
  <2>4. QED  BY <2>1, <2>2, <2>3 DEF RunTargets, LoopOK
<1>5. CASE loop' = [loop EXCEPT !.targets = AfterBatch]
  <2>1. PICK t : t = AfterBatch
    OBVIOUS
  <2>2. t \in Seq(Nat) /\ ToSet(t) \subseteq ToSet(loop.targets)
    BY <1>1, <2>1, BatchIs
  <2>3. loop' = [loop EXCEPT !.targets = t]
    BY <1>5, <2>1
  <2>4. QED  BY <1>1, <2>2, <2>3 DEF LoopOK
<1>6. CASE Cancel
  BY <1>1, <1>6 DEF Cancel, LoopOK
<1>7. CASE Leave
  BY <1>1, <1>7 DEF Leave, LoopOK
<1>8. BatchAnswered \/ BatchFailed
        => loop' = NoLoop \/ loop' = [loop EXCEPT !.targets = AfterBatch]
  BY DEF BatchAnswered, BatchFailed, Advanced
<1>9. Offline => loop' = NoLoop
  BY DEF Offline
<1>10. QED  BY <1>2, <1>3, <1>4, <1>5, <1>6, <1>7, <1>8, <1>9, LoopFrame

LEMMA ColumnsTyped ==
  ASSUME NEW g \in Seq(Row)
  PROVE  Columns(g) \in Seq(Seq(Col))
<1>1. DOMAIN g = 1 .. Len(g) /\ Len(g) \in Nat /\ \A i \in DOMAIN g : g[i] \in Row
  OBVIOUS
<1>2. \A i \in DOMAIN g : g[i].cols \in Seq(Col)
  BY <1>1 DEF Row
<1>3. PICK c : c = Columns(g)
  OBVIOUS
<1>4. c = [i \in 1 .. Len(g) |-> g[i].cols]
  BY <1>1, <1>3 DEF Columns
<1>5. c \in Seq(Seq(Col))
  BY <1>1, <1>2, <1>4
<1>6. QED  BY <1>3, <1>5

LEMMA JobFrame ==
  ASSUME [Next]_vars
  PROVE  \/ Job \/ Leave \/ Return \/ OpenOther
         \/ UNCHANGED <<cat, mounted>>
<1>1. CASE UNCHANGED vars
  BY <1>1 DEF vars
<1>2. CASE Edits
  BY <1>2 DEF Edits, OnField, OnKeep, MasterToggle, ToggleHM, RenameCategory, UseName,
       UseAllNames, SimMerge, OnGroupSet, ResetAll, Page
<1>3. CASE Agents
  <2>1. ASSUME NEW targets, StartRun(targets) PROVE UNCHANGED <<cat, mounted>>
    BY <2>1 DEF StartRun
  <2>2. QED  BY <1>3, <2>1 DEF Agents, RunAiPass, RunAiPassRow, BatchAnswered, BatchFailed,
                Offline, Cancel
<1>4. CASE Walk
  BY <1>4 DEF Walk, AcceptProp, AcceptAllProps, DismissProps, Chips, Page
<1>5. CASE Outside
  BY <1>5 DEF Outside, OnLoadFile, EnhanceSent, EnhanceLanded, Repair, LandScan
<1>6. QED  BY <1>1, <1>2, <1>3, <1>4, <1>5 DEF Next

(* A job, its hold and its poll keep together.                             *)
LEMMA JobStep ==
  ASSUME TypeOK, [Next]_vars
  PROVE  JobOK'
<1>1. JobOK /\ rows \in Seq(Row) /\ mounted \in BOOLEAN
  BY DEF TypeOK, SheetsOK
<1>2. NoJob \in [busy : BOOLEAN, starting : BOOLEAN, held : BOOLEAN, polling : BOOLEAN,
              server : {"none", "running", "done", "error"}, asked : Seq(Seq(Col))]
  <2>1. PICK e : e = << >>
    OBVIOUS
  <2>2. e \in Seq(Seq(Col))
    BY <2>1
  <2>3. QED  BY <2>1, <2>2 DEF NoJob
<1>3. CASE UNCHANGED <<cat, mounted>>
  BY <1>1, <1>3 DEF JobOK
<1>4. CASE cat' = NoJob
  BY <1>2, <1>4 DEF JobOK, NoJob
<1>5. CASE AiCategories
  <2>1. PICK c : c = Columns(rows)
    OBVIOUS
  <2>2. c \in Seq(Seq(Col))
    BY <1>1, <2>1, ColumnsTyped
  <2>3. cat' = [busy |-> TRUE, starting |-> TRUE, held |-> FALSE, polling |-> FALSE,
                server |-> "running", asked |-> c]
    BY <1>5, <2>1 DEF AiCategories, NoJob
  <2>4. mounted' = TRUE
    BY <1>5 DEF AiCategories, CanRun, Shown
  <2>5. QED  BY <2>2, <2>3, <2>4 DEF JobOK
<1>6. CASE CatStarted
  BY <1>1, <1>6 DEF CatStarted, JobOK
<1>7. CASE CatWorked
  <2>1. CASE cat.held
    BY <1>1, <1>7, <2>1 DEF CatWorked, JobOK
  <2>2. CASE ~cat.held
    BY <1>4, <1>7, <2>2 DEF CatWorked
  <2>3. QED  BY <2>1, <2>2
<1>8. CASE Leave
  BY <1>1, <1>8 DEF Leave, JobOK
<1>9. CASE Return
  BY <1>1, <1>9 DEF Return, JobOK
<1>10. CASE OpenOther
  BY <1>1, <1>4, <1>10 DEF OpenOther, JobOK
<1>11. CatNotStarted \/ CatPolled \/ CatLost => cat' = NoJob
  BY DEF CatNotStarted, CatPolled, CatLost
<1>12. QED  BY <1>3, <1>4, <1>5, <1>6, <1>7, <1>8, <1>9, <1>10, <1>11, JobFrame DEF Job

PageOK ==
  /\ agent \in [on : BOOLEAN, cancelling : BOOLEAN] /\ mounted \in BOOLEAN /\ crossed \in BOOLEAN
  /\ (\A i \in DOMAIN hm : hm[i] \in BOOLEAN) /\ used \in [edits : Nat, runs : Nat, opens : Nat]

LEMMA UsedFrame ==
  ASSUME [Next]_vars
  PROVE  used' = used \/ Spend("edits") \/ Spend("runs") \/ Spend("opens")
<1>1. CASE UNCHANGED vars
  BY <1>1 DEF vars
<1>2. CASE Edits
  BY <1>2 DEF Edits, OnField, OnKeep, MasterToggle, ToggleHM, RenameCategory, UseName,
       UseAllNames, SimMerge, OnGroupSet, ResetAll, Decide, EditRows
<1>3. CASE Agents
  <2>1. ASSUME NEW targets, StartRun(targets) PROVE Spend("runs")
    BY <2>1 DEF StartRun
  <2>2. QED  BY <1>3, <2>1 DEF Agents, RunAiPass, RunAiPassRow, BatchAnswered, BatchFailed,
                Offline, Cancel
<1>4. CASE Job
  BY <1>4 DEF Job, AiCategories, CatStarted, CatNotStarted, CatWorked, CatPolled, CatLost
<1>5. CASE Walk
  BY <1>5 DEF Walk, AcceptProp, AcceptAllProps, DismissProps, Chips, EditRows
<1>6. CASE Outside
  BY <1>6 DEF Outside, OnLoadFile, EnhanceSent, EnhanceLanded, Leave, Return, Repair, LandScan,
       OpenOther
<1>7. QED  BY <1>1, <1>2, <1>3, <1>4, <1>5, <1>6 DEF Next

(* The rest of the page keeps its shape.                                   *)
LEMMA PageStep ==
  ASSUME TypeOK, [Next]_vars
  PROVE  PageOK'
<1>1. PageOK /\ JobOK /\ LoopOK /\ rows \in Seq(Row)
  BY DEF TypeOK, PageOK, SheetsOK
<1>2. agent' \in [on : BOOLEAN, cancelling : BOOLEAN]
  <2>1. NoAgent \in [on : BOOLEAN, cancelling : BOOLEAN]
    BY DEF NoAgent
  <2>2. ASSUME NEW t, StartRun(t) PROVE agent' \in [on : BOOLEAN, cancelling : BOOLEAN]
    BY <2>2 DEF StartRun
  <2>3. CASE Agents
    <3>1. RunAiPass \/ RunAiPassRow => agent' \in [on : BOOLEAN, cancelling : BOOLEAN]
      BY <2>2 DEF RunAiPass, RunAiPassRow
    <3>2. BatchAnswered \/ BatchFailed \/ Offline \/ Cancel
            => agent' = NoAgent \/ agent' = agent \/ agent' = [agent EXCEPT !.cancelling = TRUE]
      BY DEF BatchAnswered, BatchFailed, Offline, Cancel, Advanced
    <3>3. QED  BY <1>1, <2>1, <2>3, <3>1, <3>2 DEF Agents, PageOK
  <2>4. ASSUME [Next]_vars, ~Agents PROVE agent' = agent \/ agent' = NoAgent
    <3>1. CASE UNCHANGED vars
      BY <3>1 DEF vars
    <3>2. CASE Edits
      BY <3>2 DEF Edits, OnField, OnKeep, MasterToggle, ToggleHM, RenameCategory, UseName,
           UseAllNames, SimMerge, OnGroupSet, ResetAll
    <3>3. CASE Job
      BY <3>3 DEF Job, AiCategories, CatStarted, CatNotStarted, CatWorked, CatPolled, CatLost
    <3>4. CASE Walk
      BY <3>4 DEF Walk, AcceptProp, AcceptAllProps, DismissProps, Chips
    <3>5. CASE Outside
      BY <3>5 DEF Outside, OnLoadFile, EnhanceSent, EnhanceLanded, Leave, Return, Repair,
           LandScan, OpenOther
    <3>6. QED  BY <2>4, <3>1, <3>2, <3>3, <3>4, <3>5 DEF Next
  <2>5. QED  BY <1>1, <2>1, <2>3, <2>4 DEF PageOK
<1>3. mounted' \in BOOLEAN
  <2>1. CASE Job
    BY <1>1, <2>1 DEF Job, AiCategories, CatStarted, CatNotStarted, CatWorked, CatPolled, CatLost,
         PageOK
  <2>2. CASE Leave \/ Return \/ OpenOther
    BY <1>1, <2>2 DEF Leave, Return, OpenOther, PageOK
  <2>3. QED  BY <1>1, <2>1, <2>2, JobFrame DEF PageOK
<1>4. crossed' \in BOOLEAN
  <2>1. CatWorks \in BOOLEAN /\ InFlight \in BOOLEAN
    BY <1>1 DEF CatWorks, InFlight, JobOK, LoopOK
  <2>2. Touches \/ Quiet \/ EnhanceSent \/ LandScan \/ UNCHANGED vars => crossed' = crossed
    BY TouchesFrame, QuietFrame DEF Page, EnhanceSent, LandScan, vars
  <2>3. OnGroupSet \/ ResetAll \/ OnLoadFile \/ EnhanceLanded \/ Return \/ Repair \/ OpenOther
          => \E x \in BOOLEAN : crossed' = (crossed \/ x)
    <3>1. OnGroupSet \/ ResetAll => crossed' = (crossed \/ CatWorks)
      BY DEF OnGroupSet, ResetAll
    <3>2. OnLoadFile \/ OpenOther => crossed' = (crossed \/ InFlight)
      BY DEF OnLoadFile, OpenOther, Exchanged
    <3>3. EnhanceLanded => crossed' = (crossed \/ (InFlight /\ Columns(enhance) # Columns(rows)))
      BY DEF EnhanceLanded
    <3>4. Return \/ Repair => crossed' = (crossed \/ (CatWorks /\ rows' # rows))
      BY DEF Return, Repair
    <3>5. QED  BY <2>1, <3>1, <3>2, <3>3, <3>4
  <2>4. QED  BY <1>1, <2>2, <2>3, NextCases DEF PageOK
<1>5. \A i \in DOMAIN hm' : hm'[i] \in BOOLEAN
  <2>1. CASE hm' = hm \/ hm' = NoMap
    BY <1>1, <2>1 DEF PageOK, NoMap
  <2>2. CASE hm' = [i \in DOMAIN rows |-> rows[i].keep]
    <3>1. \A i \in DOMAIN rows : rows[i] \in Row
      BY <1>1
    <3>2. QED  BY <2>2, <3>1 DEF Row
  <2>3. Touches => hm' = hm \/ hm' = NoMap \/ hm' = [i \in DOMAIN rows |-> rows[i].keep]
    BY DEF Touches, OnField, OnKeep, MasterToggle, ToggleHM, RenameCategory, UseName, UseAllNames,
       SimMerge, AcceptProp, AcceptAllProps, StructuralReset
  <2>4. Quiet => hm' = hm
    BY QuietFrame
  <2>5. OnGroupSet \/ ResetAll \/ OnLoadFile \/ EnhanceLanded \/ OpenOther => hm' = NoMap
    BY DEF OnGroupSet, ResetAll, OnLoadFile, EnhanceLanded, OpenOther, StructuralReset
  <2>6. EnhanceSent \/ Return \/ Repair \/ LandScan \/ UNCHANGED vars => hm' = hm
    BY DEF EnhanceSent, Return, Repair, LandScan, vars
  <2>7. QED  BY <2>1, <2>2, <2>3, <2>4, <2>5, <2>6, NextCases
<1>6. used' \in [edits : Nat, runs : Nat, opens : Nat]
  BY <1>1, UsedFrame DEF PageOK, Spend
<1>7. QED  BY <1>2, <1>3, <1>4, <1>5, <1>6 DEF PageOK

LEMMA TypeInit == Init => TypeOK
<1> SUFFICES ASSUME Init PROVE TypeOK
  OBVIOUS
<1>1. PICK e : e = << >>
  OBVIOUS
<1>2. e \in Seq(Row) /\ e \in Seq(Nat) /\ e \in Seq(Seq(Col)) /\ ToSet(e) = {}
  BY <1>1 DEF ToSet
<1>3. SheetsOK
  BY <1>1, <1>2, ReviewAssumption DEF Init, SheetsOK, ReviewAssumption
<1>4. DecisionsOK(grp) /\ ItemsOK(OldItems)
  BY DEF Init, DecisionsOK, ItemsOK, OldItems, NoMap, NoPills
<1>5. LoopOK
  <2>1. loop = [on |-> FALSE, base |-> e, targets |-> e, own |-> FALSE, stop |-> FALSE]
    BY <1>1 DEF Init, NoLoop
  <2>2. QED  BY <1>2, <2>1 DEF LoopOK
<1>6. JobOK
  <2>1. cat = [busy |-> FALSE, starting |-> FALSE, held |-> FALSE, polling |-> FALSE,
               server |-> "none", asked |-> e]
    BY <1>1 DEF Init, NoJob
  <2>2. QED  BY <1>2, <2>1 DEF JobOK
<1>7. PageOK
  BY DEF Init, PageOK, NoAgent, NoMap
<1>8. QED  BY <1>3, <1>4, <1>5, <1>6, <1>7 DEF TypeOK, PageOK

(* TypeOK is inductive.                                                    *)
LEMMA TypeNext == TypeOK /\ [Next]_vars => TypeOK'
<1> SUFFICES ASSUME TypeOK, [Next]_vars PROVE TypeOK'
  OBVIOUS
<1>1. SheetsOK' /\ DecisionsOK(grp)'
  BY SheetsStep
<1>2. ItemsOK(OldItems)'
  BY ItemsStep
<1>3. LoopOK' /\ JobOK' /\ PageOK'
  BY LoopStep, JobStep, PageStep
<1>4. QED  BY <1>1, <1>2, <1>3 DEF TypeOK, PageOK

(* The page's state keeps its shapes.                                      *)
THEOREM ReviewTypes == Spec => []TypeOK
BY TypeInit, TypeNext, PTL DEF Spec

-----------------------------------------------------------------------------
(* The locks.  Not only the pills have to stand where they belong: what a  *)
(* running call was sent still lies, row by row, in the grid.              *)

RunPlaced == loop.on => agent.on /\ Within(Columns(loop.base), rows)
JobPlaced == CatWorks => Within(cat.asked, rows)
Placed    == PillsOnTheirRow /\ RunPlaced /\ JobPlaced
LocksInv  == crossed \/ Placed

OnRows(g) == [i \in DOMAIN g |-> [f \in Field |->
                {v \in Pill(f) : ToSet(v.for) \subseteq ToSet(g[i].cols)}]]

LEMMA OnRowsIs ==
  ASSUME NEW g
  PROVE  /\ DOMAIN OnRows(g) = DOMAIN g
         /\ \A i \in DOMAIN g : \A f \in Field : \A v :
              v \in OnRows(g)[i][f] <=> v \in Pill(f) /\ ToSet(v.for) \subseteq ToSet(g[i].cols)
BY DEF OnRows

Stand(p, g) == \A i \in DOMAIN p :
  i \in DOMAIN g /\ \A f \in DOMAIN p[i] : ToSet(p[i][f].for) \subseteq ToSet(g[i].cols)

(* Pills that stand on their rows, as entries.                             *)
LEMMA StandIs ==
  ASSUME NEW p, NEW g, ItemsOK(p)
  PROVE  Stand(p, g) <=> EntriesIn(p, OnRows(g))
<1>1. PICK T : T = OnRows(g)
  OBVIOUS
<1>2. /\ DOMAIN T = DOMAIN g
      /\ \A i \in DOMAIN g : \A f \in Field : \A v :
           v \in T[i][f] <=> v \in Pill(f) /\ ToSet(v.for) \subseteq ToSet(g[i].cols)
  BY <1>1, OnRowsIs
<1>3. \A i \in DOMAIN p : /\ DOMAIN p[i] # {}
                          /\ \A f \in DOMAIN p[i] : f \in Field /\ p[i][f] \in Pill(f)
  BY DEF ItemsOK
<1>4. ASSUME Stand(p, g) PROVE EntriesIn(p, T)
  BY <1>2, <1>3, <1>4 DEF Stand, EntriesIn, Entries
<1>5. ASSUME EntriesIn(p, T) PROVE Stand(p, g)
  BY <1>2, <1>5 DEF Stand, EntriesIn, Entries
<1>6. QED  BY <1>1, <1>4, <1>5

LEMMA PillsStand ==
  /\ PillsOnTheirRow <=> Stand(OldItems, rows)
  /\ PillsOnTheirRow' <=> Stand(OldItems', rows')
BY DEF PillsOnTheirRow, OnItsRow, OldItems, Stand

LEMMA PillsPlaced ==
  ASSUME TypeOK, TypeOK'
  PROVE  /\ PillsOnTheirRow <=> EntriesIn(OldItems, OnRows(rows))
         /\ PillsOnTheirRow' <=> EntriesIn(OldItems', OnRows(rows'))
<1>1. ItemsOK(OldItems) /\ ItemsOK(OldItems')
  BY DEF TypeOK
<1>2. QED  BY <1>1, PillsStand, StandIs

(* Pills stay put when the rows keep their places and columns.             *)
LEMMA PlacedWithin ==
  ASSUME NEW p, NEW g, NEW h, EntriesIn(p, OnRows(g)), Within(Columns(g), h)
  PROVE  EntriesIn(p, OnRows(h))
<1>1. PICK T, U : T = OnRows(g) /\ U = OnRows(h)
  OBVIOUS
<1>2. /\ DOMAIN T = DOMAIN g
      /\ \A i \in DOMAIN g : \A f \in Field : \A v :
           v \in T[i][f] <=> v \in Pill(f) /\ ToSet(v.for) \subseteq ToSet(g[i].cols)
  BY <1>1, OnRowsIs
<1>3. /\ DOMAIN U = DOMAIN h
      /\ \A i \in DOMAIN h : \A f \in Field : \A v :
           v \in U[i][f] <=> v \in Pill(f) /\ ToSet(v.for) \subseteq ToSet(h[i].cols)
  BY <1>1, OnRowsIs
<1>4. \A i \in DOMAIN g : i \in DOMAIN h /\ ToSet(g[i].cols) \subseteq ToSet(h[i].cols)
  BY DEF Within, Columns
<1>5. EntriesIn(p, T)
  BY <1>1
<1>6. EntriesIn(p, U)
  BY <1>2, <1>3, <1>4, <1>5 DEF EntriesIn, Entries
<1>7. QED  BY <1>1, <1>6

LEMMA WithinSame ==
  ASSUME NEW g, NEW h, Columns(h) = Columns(g)
  PROVE  Within(Columns(g), h)
<1>1. DOMAIN h = DOMAIN g /\ \A i \in DOMAIN g : Columns(g)[i] = h[i].cols
  <2>1. DOMAIN Columns(g) = DOMAIN g /\ DOMAIN Columns(h) = DOMAIN h
    BY DEF Columns
  <2>2. \A i \in DOMAIN h : Columns(h)[i] = h[i].cols
    BY DEF Columns
  <2>3. QED  BY <2>1, <2>2
<1>2. QED  BY <1>1 DEF Within, Columns

(* Nothing new is called for and every row keeps its columns.              *)
LEMMA StaysPlaced ==
  ASSUME TypeOK, TypeOK', Placed, Within(Columns(rows), rows'), pills' = pills \/ pills' = NoPills,
         loop'.on => loop.on /\ agent'.on = agent.on /\ loop'.base = loop.base,
         CatWorks' => CatWorks /\ cat'.asked = cat.asked
  PROVE  Placed'
<1>1. PillsOnTheirRow'
  <2>1. EntriesIn(OldItems, OnRows(rows))
    BY PillsPlaced DEF TypeOK, Placed
  <2>2. EntriesIn(OldItems', OnRows(rows'))
    <3>1. OldItems' = OldItems \/ OldItems' = NoMap
      BY DEF OldItems, NoPills
    <3>2. QED  BY <2>1, <3>1, PlacedWithin, NoEntries
  <2>3. QED  BY <2>2, PillsPlaced
<1>2. RunPlaced'
  BY WithinTransitive DEF Placed, RunPlaced
<1>3. JobPlaced'
  BY WithinTransitive DEF Placed, JobPlaced
<1>4. QED  BY <1>1, <1>2, <1>3 DEF Placed

(* No call is out and the pills are gone.                                  *)
LEMMA NothingPlaced ==
  ASSUME pills' = NoPills, ~loop'.on, ~CatWorks'
  PROVE  Placed'
<1>1. DOMAIN OldItems' = {}
  BY DEF OldItems, NoPills, NoMap
<1>2. PillsOnTheirRow'
  BY <1>1 DEF PillsOnTheirRow
<1>3. QED  BY <1>2 DEF Placed, RunPlaced, JobPlaced

(* Any pills that may stand on these rows, in the grid's present shape.    *)
LEMMA OnRowsTakes ==
  ASSUME NEW g, NEW c, Within(c, g)
  PROVE  /\ AnyCat(OnRows(g))
         /\ \A I \in SUBSET DOMAIN c : Takes(OnRows(g), I, c)
<1>1. PICK T : T = OnRows(g)
  OBVIOUS
<1>2. /\ DOMAIN T = DOMAIN g
      /\ \A i \in DOMAIN g : \A f \in Field : \A v :
           v \in T[i][f] <=> v \in Pill(f) /\ ToSet(v.for) \subseteq ToSet(g[i].cols)
  BY <1>1, OnRowsIs
<1>3. AnyCat(T)
  <2>1. "cat" \in Field
    BY DEF Field
  <2>2. \A v \in Pill("cat") : \A x \in Cat :
          [v EXCEPT !.val = x] \in Pill("cat") /\ [v EXCEPT !.val = x].for = v.for
    BY DEF Pill
  <2>3. ASSUME NEW i \in DOMAIN T, NEW v \in T[i]["cat"], NEW x \in Cat
        PROVE  [v EXCEPT !.val = x] \in T[i]["cat"]
    <3>1. PICK u : u = [v EXCEPT !.val = x]
      OBVIOUS
    <3>2. v \in Pill("cat") /\ ToSet(v.for) \subseteq ToSet(g[i].cols)
      BY <1>2, <2>1
    <3>3. u \in Pill("cat") /\ u.for = v.for
      BY <2>2, <3>1, <3>2
    <3>4. QED  BY <1>2, <2>1, <3>1, <3>2, <3>3
  <2>4. QED  BY <2>3 DEF AnyCat
<1>4. ASSUME NEW I \in SUBSET DOMAIN c PROVE Takes(T, I, c)
  BY <1>2 DEF Takes, Within
<1>5. QED  BY <1>1, <1>3, <1>4

(* The quiet steps, for what a run was sent, for what a job was sent and   *)
(* for the pills.                                                          *)
LEMMA RunStaysPlaced ==
  ASSUME TypeOK, Placed, Quiet
  PROVE  RunPlaced'
<1>1. rows' = rows
  BY QuietFrame
<1>2. CASE RunAiPass \/ RunAiPassRow
  <2>1. PICK t : StartRun(t)
    BY <1>2, RunsTarget
  <2>2. agent'.on /\ loop'.base = rows
    BY <2>1 DEF StartRun
  <2>3. QED  BY <1>1, <2>2, WithinSame DEF RunPlaced
<1>3. CASE loop' = NoLoop
  BY <1>3 DEF NoLoop, RunPlaced
<1>4. ASSUME loop'.base = loop.base, loop'.on = loop.on, agent'.on = agent.on
      PROVE  RunPlaced'
  BY <1>1, <1>4 DEF Placed, RunPlaced
<1>5. CASE loop' = [loop EXCEPT !.targets = AfterBatch] /\ agent' = agent
  <2>1. PICK t : t = AfterBatch
    OBVIOUS
  <2>2. loop' = [loop EXCEPT !.targets = t]
    BY <1>5, <2>1
  <2>3. loop'.base = loop.base /\ loop'.on = loop.on
    BY <2>2 DEF TypeOK, LoopOK
  <2>4. QED  BY <1>4, <1>5, <2>3
<1>6. BatchAnswered \/ BatchFailed \/ Offline
        => \/ loop' = NoLoop
           \/ loop' = [loop EXCEPT !.targets = AfterBatch] /\ agent' = agent
  BY DEF BatchAnswered, BatchFailed, Offline, Advanced
<1>7. CASE Cancel \/ Leave
  <2>1. loop'.base = loop.base /\ loop'.on = loop.on /\ agent'.on = agent.on
    BY <1>7 DEF Cancel, Leave, TypeOK, LoopOK
  <2>2. QED  BY <1>4, <2>1
<1>8. CASE \/ AiCategories \/ CatStarted \/ CatNotStarted \/ CatWorked \/ CatPolled \/ CatLost
           \/ DismissProps \/ Chips
  <2>1. loop' = loop /\ agent' = agent
    BY <1>8 DEF AiCategories, CatStarted, CatNotStarted, CatWorked, CatPolled, CatLost,
       DismissProps, Chips, Page
  <2>2. QED  BY <1>4, <2>1
<1>9. QED  BY <1>2, <1>3, <1>5, <1>6, <1>7, <1>8 DEF Quiet

LEMMA JobStaysPlaced ==
  ASSUME TypeOK, Placed, Quiet
  PROVE  JobPlaced'
<1>1. rows' = rows
  BY QuietFrame
<1>2. CASE cat' = NoJob
  BY <1>2 DEF NoJob, JobPlaced, CatWorks
<1>3. ASSUME cat'.asked = cat.asked, CatWorks' => CatWorks PROVE JobPlaced'
  BY <1>1, <1>3 DEF Placed, JobPlaced
<1>4. CASE AiCategories
  <2>1. cat'.asked = Columns(rows)
    BY <1>4 DEF AiCategories, NoJob
  <2>2. QED  BY <1>1, <2>1, WithinSame DEF JobPlaced
<1>5. CASE CatStarted
  <2>1. cat'.asked = cat.asked /\ CatWorks
    BY <1>5 DEF CatStarted, CatWorks, TypeOK, JobOK
  <2>2. QED  BY <1>3, <2>1
<1>6. CASE CatWorked
  <2>1. CASE cat.held
    <3>1. cat'.asked = cat.asked /\ CatWorks
      BY <1>6, <2>1 DEF CatWorked, CatWorks, TypeOK, JobOK
    <3>2. QED  BY <1>3, <3>1
  <2>2. CASE ~cat.held
    BY <1>2, <1>6, <2>2 DEF CatWorked
  <2>3. QED  BY <2>1, <2>2
<1>7. CASE Leave
  <2>1. cat'.asked = cat.asked /\ cat'.starting = cat.starting /\ cat'.held = cat.held
    BY <1>7 DEF Leave, TypeOK, JobOK
  <2>2. QED  BY <1>3, <2>1 DEF CatWorks
<1>8. CatNotStarted \/ CatPolled \/ CatLost => cat' = NoJob
  BY DEF CatNotStarted, CatPolled, CatLost
<1>9. CASE \/ RunAiPass \/ RunAiPassRow \/ BatchAnswered \/ BatchFailed \/ Offline \/ Cancel
           \/ DismissProps \/ Chips
  <2>1. ASSUME NEW t, StartRun(t) PROVE cat' = cat
    BY <2>1 DEF StartRun
  <2>2. cat' = cat
    BY <1>9, <2>1 DEF RunAiPass, RunAiPassRow, BatchAnswered, BatchFailed, Offline, Cancel,
       DismissProps, Chips, Page
  <2>3. QED  BY <1>3, <2>2 DEF CatWorks
<1>10. QED  BY <1>2, <1>4, <1>5, <1>6, <1>7, <1>8, <1>9 DEF Quiet

LEMMA PillsStayPlaced ==
  ASSUME TypeOK, TypeOK', Placed, Quiet
  PROVE  PillsOnTheirRow'
<1>1. PICK g, T : g = rows /\ T = OnRows(g)
  OBVIOUS
<1>2. rows' = g
  BY <1>1, QuietFrame
<1>3. EntriesIn(OldItems, T)
  BY <1>1, PillsPlaced DEF Placed
<1>4. EntriesIn(OldItems', T)
  <2>1. CASE BatchAnswered
    <3>1. PICK c, I : c = Columns(loop.base) /\ I = ToSet(loop.targets)
      OBVIOUS
    <3>2. loop.on
      BY <2>1 DEF BatchAnswered
    <3>3. Within(c, g) /\ I \in SUBSET DOMAIN c
      BY <1>1, <3>1, <3>2 DEF Placed, RunPlaced, TypeOK, LoopOK, Columns
    <3>4. Takes(T, I, c)
      BY <1>1, <3>3, OnRowsTakes
    <3>5. QED  BY <1>3, <2>1, <3>1, <3>4, BatchAnsweredIn
  <2>2. CASE CatPolled
    <3>1. PICK c, I : c = cat.asked /\ I = DOMAIN c
      OBVIOUS
    <3>2. CatWorks
      BY <2>2 DEF CatPolled, TypeOK, JobOK, CatWorks
    <3>3. Within(c, g) /\ I \in SUBSET DOMAIN c
      BY <1>1, <3>1, <3>2 DEF Placed, JobPlaced
    <3>4. Takes(T, I, c)
      BY <1>1, <3>3, OnRowsTakes
    <3>5. QED  BY <1>3, <2>2, <3>1, <3>4, CatPolledIn
  <2>3. CASE Chips
    <3>1. Within(Columns(g), g)
      BY WithinSame
    <3>2. AnyCat(T)
      BY <1>1, <3>1, OnRowsTakes
    <3>3. QED  BY <1>3, <2>3, <3>2, ChipsIn
  <2>4. CASE pills' = pills \/ pills' = NoPills
    BY <1>3, <2>4, NoEntries DEF OldItems, NoPills
  <2>5. ASSUME NEW t, StartRun(t) PROVE pills' = pills
    BY <2>5 DEF StartRun
  <2>6. ~BatchAnswered /\ ~CatPolled /\ ~Chips => pills' = pills \/ pills' = NoPills
    BY <2>5 DEF Quiet, RunAiPass, RunAiPassRow, BatchFailed, Offline, Cancel, AiCategories,
       CatStarted, CatNotStarted, CatWorked, CatLost, DismissProps, Leave
  <2>7. QED  BY <2>1, <2>2, <2>3, <2>4, <2>6
<1>5. EntriesIn(OldItems', OnRows(rows'))
  BY <1>1, <1>2, <1>4
<1>6. QED  BY <1>5, PillsPlaced

(* Edits and accepted pills.                                               *)
LEMMA TouchesStayPlaced ==
  ASSUME TypeOK, TypeOK', Placed, Touches
  PROVE  Placed'
<1>1. Within(Columns(rows), rows')
  BY TouchesRetouch, WithinSame DEF Retouched
<1>2. loop' = loop /\ cat' = cat
  BY TouchesFrame DEF Page
<1>3. agent' = agent
  BY DEF Touches, OnField, OnKeep, MasterToggle, ToggleHM, RenameCategory, UseName, UseAllNames,
     SimMerge, AcceptProp, AcceptAllProps
<1>4. CASE AcceptProp
  <2>1. EntriesIn(OldItems, OnRows(rows))
    BY PillsPlaced DEF Placed
  <2>2. PICK p, g, h : p = OldItems' /\ g = rows /\ h = rows'
    OBVIOUS
  <2>3. EntriesIn(p, OnRows(g))
    BY <1>4, <2>1, <2>2, AcceptPropIn
  <2>4. EntriesIn(p, OnRows(h))
    BY <1>1, <2>2, <2>3, PlacedWithin
  <2>5. PillsOnTheirRow'
    BY <2>2, <2>4, PillsPlaced
  <2>6. RunPlaced' /\ JobPlaced'
    BY <1>1, <1>2, <1>3, WithinTransitive DEF Placed, RunPlaced, JobPlaced, CatWorks
  <2>7. QED  BY <2>5, <2>6 DEF Placed
<1>5. CASE ~AcceptProp
  <2>1. pills' = pills \/ pills' = NoPills
    BY <1>5 DEF Touches, OnField, OnKeep, MasterToggle, ToggleHM, RenameCategory, UseName,
       UseAllNames, SimMerge, AcceptAllProps, StructuralReset
  <2>2. QED  BY <1>1, <1>2, <1>3, <2>1, StaysPlaced DEF CatWorks
<1>6. QED  BY <1>4, <1>5

LEMMA QuietStaysPlaced ==
  ASSUME TypeOK, TypeOK', Placed, Quiet
  PROVE  Placed'
BY PillsStayPlaced, RunStaysPlaced, JobStaysPlaced DEF Placed

(* The repair changes rows only when nothing waits and no call is out, or  *)
(* the exchange is recorded.                                               *)
LEMMA RepairStaysPlaced ==
  ASSUME TypeOK, TypeOK', Placed, ~crossed', Return \/ Repair
  PROVE  Placed'
<1>1. /\ pills' = pills /\ loop' = loop /\ agent' = agent
      /\ cat'.asked = cat.asked /\ CatWorks' = CatWorks
      /\ ~(CatWorks /\ rows' # rows)
  <2>1. CASE Return
    <3>1. cat'.asked = cat.asked /\ cat'.starting = cat.starting /\ cat'.held = cat.held
      BY <2>1 DEF Return, TypeOK, JobOK
    <3>2. QED  BY <2>1, <3>1 DEF Return, CatWorks
  <2>2. CASE Repair
    BY <2>2 DEF Repair, CatWorks
  <2>3. QED  BY <2>1, <2>2
<1>2. CASE rows' = rows
  <2>1. Within(Columns(rows), rows')
    BY <1>2, WithinSame
  <2>2. QED  BY <1>1, <2>1, StaysPlaced
<1>3. CASE rows' # rows
  <2>1. ~Locked /\ ~CatWorks
    BY <1>1, <1>3 DEF Return, Repair, Healed
  <2>2. pills' = NoPills /\ ~loop'.on /\ ~CatWorks'
    BY <1>1, <2>1 DEF Locked, Pending, Placed, RunPlaced
  <2>3. QED  BY <2>2, NothingPlaced
<1>4. QED  BY <1>2, <1>3

(* LocksInv is inductive.                                                  *)
LEMMA LocksNext ==
  ASSUME TypeOK, TypeOK', [Next]_vars, LocksInv
  PROVE  LocksInv'
<1>1. crossed \in BOOLEAN /\ crossed' \in BOOLEAN
  BY DEF TypeOK
<1>2. crossed => crossed'
  <2>1. Touches \/ Quiet \/ EnhanceSent \/ LandScan \/ UNCHANGED vars => crossed' = crossed
    BY TouchesFrame, QuietFrame DEF Page, EnhanceSent, LandScan, vars
  <2>2. OnGroupSet \/ ResetAll \/ OnLoadFile \/ EnhanceLanded \/ Return \/ Repair \/ OpenOther
          => (crossed => crossed')
    BY DEF OnGroupSet, ResetAll, OnLoadFile, EnhanceLanded, Return, Repair, OpenOther, Exchanged
  <2>3. QED  BY <2>1, <2>2, NextCases
<1>3. SUFFICES ASSUME ~crossed, ~crossed' PROVE Placed'
  BY <1>1, <1>2 DEF LocksInv
<1>4. Placed
  BY <1>3 DEF LocksInv
<1>5. CASE UNCHANGED vars
  <2>1. UNCHANGED <<rows, pills, loop, agent, cat>>
    BY <1>5 DEF vars
  <2>2. QED  BY <1>4, <2>1, WithinSame, StaysPlaced DEF CatWorks
<1>6. CASE Touches
  BY <1>4, <1>6, TouchesStayPlaced
<1>7. CASE Quiet
  BY <1>4, <1>7, QuietStaysPlaced
<1>8. CASE OnGroupSet \/ ResetAll
  <2>1. ~agent.on /\ ~CatWorks /\ pills' = NoPills /\ loop' = loop /\ cat' = cat
    BY <1>3, <1>8 DEF OnGroupSet, ResetAll, Locked, StructuralReset
  <2>2. ~loop'.on /\ ~CatWorks'
    BY <1>4, <2>1 DEF Placed, RunPlaced, CatWorks
  <2>3. QED  BY <2>1, <2>2, NothingPlaced
<1>9. CASE OnLoadFile \/ OpenOther
  <2>1. ~loop.on /\ ~CatWorks /\ pills' = NoPills /\ loop' = loop /\ (cat' = cat \/ cat' = NoJob)
    BY <1>3, <1>9 DEF OnLoadFile, OpenOther, Exchanged, InFlight, StructuralReset
  <2>2. ~loop'.on /\ ~CatWorks'
    BY <2>1 DEF CatWorks, NoJob
  <2>3. QED  BY <2>1, <2>2, NothingPlaced
<1>10. CASE EnhanceLanded
  <2>1. pills' = NoPills /\ loop' = loop /\ cat' = cat /\ agent' = agent
    BY <1>10 DEF EnhanceLanded, StructuralReset
  <2>2. CASE InFlight
    <3>1. Columns(enhance) = Columns(rows)
      BY <1>3, <1>10, <2>2 DEF EnhanceLanded
    <3>2. Columns(rows') = Columns(enhance)
      BY <1>10, EnhanceLandedRetouches DEF Retouched
    <3>3. Within(Columns(rows), rows')
      BY <3>1, <3>2, WithinSame
    <3>4. QED  BY <1>4, <2>1, <3>3, StaysPlaced DEF CatWorks
  <2>3. CASE ~InFlight
    BY <2>1, <2>3, NothingPlaced DEF InFlight, CatWorks
  <2>4. QED  BY <2>2, <2>3
<1>11. CASE Return \/ Repair
  BY <1>3, <1>4, <1>11, RepairStaysPlaced
<1>12. CASE EnhanceSent \/ LandScan
  <2>1. UNCHANGED <<pills, loop, agent, cat>> /\ Within(Columns(rows), rows')
    <3>1. CASE EnhanceSent
      BY <3>1, WithinSame DEF EnhanceSent
    <3>2. CASE LandScan
      BY <3>2, LandScanIs DEF LandScan
    <3>3. QED  BY <1>12, <3>1, <3>2
  <2>2. QED  BY <1>4, <2>1, StaysPlaced DEF CatWorks
<1>13. QED  BY <1>5, <1>6, <1>7, <1>8, <1>9, <1>10, <1>11, <1>12, NextCases

LEMMA LocksInit == Init => LocksInv
BY DEF Init, LocksInv, Placed, RunPlaced, JobPlaced, CatWorks, PillsOnTheirRow, OldItems, NoPills,
   NoMap, NoLoop, NoJob

(* No pill strays from its row while the grid is not exchanged under a     *)
(* call.                                                                   *)
THEOREM PillsKeepTheirRow == Spec => []LocksHold
<1>1. TypeOK /\ TypeOK' /\ LocksInv /\ [Next]_vars => LocksInv'
  BY LocksNext
<1>2. LocksInv => LocksHold
  BY DEF LocksInv, LocksHold, Placed
<1>3. QED  BY <1>1, <1>2, LocksInit, ReviewTypes, PTL DEF Spec

-----------------------------------------------------------------------------
(* Source columns.                                                         *)

(* No step the property is about loses a column.                           *)
LEMMA ColumnsKept ==
  ASSUME TypeOK, [Next]_vars, Closed, used.opens = used'.opens \/ LandScan,
         enhance' = enhance, rows' # snap
  PROVE  ColsOf(rows) \subseteq ColsOf(rows')
<1>1. CASE UNCHANGED vars \/ Quiet \/ EnhanceSent
  <2>1. rows' = rows
    BY <1>1, QuietFrame DEF vars, EnhanceSent
  <2>2. QED  BY <2>1
<1>2. CASE Touches
  <2>1. Columns(rows') = Columns(rows)
    BY <1>2, TouchesRetouch DEF Retouched
  <2>2. QED  BY <2>1, SameColumns
<1>3. CASE OnGroupSet
  BY <1>3, DecideIs DEF OnGroupSet
<1>4. CASE ResetAll
  BY <1>4 DEF ResetAll, EditRows
<1>5. CASE LandScan
  BY <1>5, LandScanIs
<1>6. CASE (OnLoadFile \/ OpenOther) /\ ~LandScan
  <2>1. used' = [used EXCEPT !["opens"] = @ + 1]
    BY <1>6 DEF OnLoadFile, OpenOther, Spend
  <2>2. QED  BY <1>6, <2>1 DEF TypeOK
<1>7. CASE EnhanceLanded
  BY <1>7 DEF EnhanceLanded
<1>8. CASE Return \/ Repair
  <2>1. rows \in Seq(Row)
    BY DEF TypeOK, SheetsOK
  <2>2. \E quiet : rows' = Healed(quiet)
    BY <1>8 DEF Return, Repair
  <2>3. QED  BY <2>1, <2>2, HealedIs
<1>9. QED  BY <1>1, <1>2, <1>3, <1>4, <1>5, <1>6, <1>7, <1>8, NextCases

(* The work of the page and a landing scan lose no source column.          *)
THEOREM NoColumnIsLost == Spec => ColumnsConserved
<1>1. TypeOK /\ [Next]_vars
        => [(Closed /\ (used.opens = used'.opens \/ LandScan) /\ enhance' = enhance /\ rows' # snap)
              => ColsOf(rows) \subseteq ColsOf(rows')]_vars
  BY ColumnsKept
<1>2. QED  BY <1>1, ReviewTypes, PTL DEF Spec, ColumnsConserved

-----------------------------------------------------------------------------
(* A disambiguation.                                                       *)

(* Where an element of three joined sequences comes from.                  *)
LEMMA ConcatAt ==
  ASSUME NEW S, NEW a \in Seq(S), NEW s \in Seq(S), NEW b \in Seq(S),
         NEW d, d = (a \o s) \o b, NEW i \in DOMAIN d
  PROVE  \/ i - Len(a) \in DOMAIN s /\ d[i] = s[i - Len(a)]
         \/ d[i] \in ToSet(a) \cup ToSet(b)
<1>1. PICK c : c = a \o s
  OBVIOUS
<1>2. /\ c \in Seq(S) /\ Len(c) = Len(a) + Len(s) /\ Len(a) \in Nat /\ Len(s) \in Nat
      /\ Len(b) \in Nat /\ DOMAIN a = 1 .. Len(a) /\ DOMAIN s = 1 .. Len(s) /\ DOMAIN b = 1 .. Len(b)
  BY <1>1
<1>3. d = c \o b /\ i \in 1 .. Len(c) + Len(b)
  BY <1>1, <1>2
<1>4. CASE i <= Len(a)
  <2>1. i \in DOMAIN a /\ d[i] = a[i]
    BY <1>1, <1>2, <1>3, <1>4
  <2>2. QED  BY <2>1 DEF ToSet
<1>5. CASE i > Len(a) /\ i <= Len(c)
  <2>1. i - Len(a) \in DOMAIN s /\ d[i] = c[i] /\ c[i] = s[i - Len(a)]
    BY <1>1, <1>2, <1>3, <1>5
  <2>2. QED  BY <2>1
<1>6. CASE i > Len(c)
  <2>1. i - Len(c) \in DOMAIN b /\ d[i] = b[i - Len(c)]
    BY <1>2, <1>3, <1>6
  <2>2. QED  BY <2>1 DEF ToSet
<1>7. QED  BY <1>2, <1>3, <1>4, <1>5, <1>6

LEMMA TermsOfSet == \A g : TermsOf(g) = {r.term : r \in ToSet(g)}
BY DEF TermsOf, ToSet

(* A duplicate name has members and is a name.                             *)
LEMMA DuplicateIs ==
  ASSUME NEW g \in Seq(Row), NEW n \in DuplicateNames(g)
  PROVE  n \in Name /\ Members(g, n) # << >> /\ NoGroup # n
<1>1. n \in Name
  BY TermsFinite DEF DuplicateNames
<1>2. ClusterOf(g, n) # {}
  <2>1. PICK C, k : C = ClusterOf(g, n) /\ k = Cardinality(C)
    OBVIOUS
  <2>2. k > 1
    BY <2>1 DEF DuplicateNames
  <2>3. C = {} => k = 0
    BY <2>1, FS_EmptySet
  <2>4. QED  BY <2>1, <2>2, <2>3
<1>3. Mine(g, n) # {}
  BY <1>2 DEF ClusterOf, Mine, IsMember
<1>4. PICK m : m = Members(g, n)
  OBVIOUS
<1>5. ToSet(m) # {}
  <2>1. PICK i : i \in Mine(g, n)
    BY <1>3
  <2>2. g[i] \in ToSet(m)
    BY <1>4, <2>1, MembersIs
  <2>3. QED  BY <2>2
<1>6. m # << >>
  BY <1>5 DEF ToSet
<1>7. QED  BY <1>1, <1>4, <1>6 DEF Name, NoTerm, NoGroup

(* It holds in every typed state.                                          *)
LEMMA SplitApart ==
  ASSUME TypeOK
  PROVE  SplitSeparates
<1>1. PICK g : g = rows
  OBVIOUS
<1>2. g \in Seq(Row)
  BY <1>1 DEF TypeOK, SheetsOK
<1>3. SUFFICES ASSUME NEW n \in DuplicateNames(g), NEW d, d = GroupAction(g, grp, n, "split").rows,
                      NEW i \in DOMAIN d, d[i].grp = n, NEW j \in DOMAIN d \ {i}
               PROVE  d[i].term # d[j].term
  BY <1>1 DEF SplitSeparates
<1>4. n \in Name /\ n \in Seq(Nat) /\ Members(g, n) # << >>
  BY <1>2, DuplicateIs DEF Name
<1>5. PICK live, o, T, made, s :
        /\ live = Members(g, n) /\ o = Others(g, n) /\ T = TermsOf(o)
        /\ made = Split(live, T) /\ s = Stamped(made, n)
  OBVIOUS
<1>6. live \in Seq(Row) /\ live # << >> /\ o \in Seq(Row) /\ IsFiniteSet(T)
      /\ ToSet(o) = {g[k] : k \in DOMAIN g \ Mine(g, n)}
  BY <1>2, <1>4, <1>5, MembersIs, TermsFinite
<1>7. made \in Seq(Row) /\ Distinctly(made, T)
  BY <1>5, <1>6, SplitIs
<1>8. s \in Seq(Row) /\ DOMAIN s = DOMAIN made /\ \A k \in DOMAIN s : s[k].term = made[k].term
  BY <1>4, <1>5, <1>7, StampedIs
<1>9. PICK a, b : /\ a = Picked(g, Ahead(g, n))
                  /\ b = Picked(g, DOMAIN g \ (Mine(g, n) \cup Ahead(g, n)))
  OBVIOUS
<1>10. d = (a \o s) \o b
  BY <1>3, <1>4, <1>5, <1>9 DEF GroupAction, Decided, Replaced
<1>11. a \in Seq(Row) /\ b \in Seq(Row) /\ ToSet(a) \cup ToSet(b) \subseteq ToSet(o)
  <2>1. PICK I, J : I = Ahead(g, n) /\ J = DOMAIN g \ (Mine(g, n) \cup Ahead(g, n))
    OBVIOUS
  <2>2. I \cup J \subseteq DOMAIN g \ Mine(g, n)
    <3>1. DOMAIN g \subseteq Nat
      BY <1>2
    <3>2. \A k \in Nat : ~(k < k)
      OBVIOUS
    <3>3. QED  BY <2>1, <3>1, <3>2 DEF Ahead
  <2>3. /\ a \in Seq(Row) /\ ToSet(a) = {g[k] : k \in I \cap DOMAIN g}
        /\ b \in Seq(Row) /\ ToSet(b) = {g[k] : k \in J \cap DOMAIN g}
    BY <1>2, <1>9, <2>1, PickedIs
  <2>4. QED  BY <1>6, <2>2, <2>3
<1>12. \A r \in ToSet(o) : r.grp # n /\ r.term \in T
  BY <1>5, <1>6, TermsOfSet DEF Mine, IsMember
<1>13. PICK k \in DOMAIN s : k = i - Len(a) /\ d[i] = s[k]
  <2>1. d[i] \notin ToSet(a) \cup ToSet(b)
    BY <1>3, <1>11, <1>12
  <2>2. QED  BY <1>3, <1>8, <1>10, <1>11, <2>1, ConcatAt
<1>14. s[k].term \notin T /\ \A l \in DOMAIN s : l # k => s[l].term # s[k].term
  BY <1>7, <1>8 DEF Distinctly
<1>15. CASE j - Len(a) \in DOMAIN s /\ d[j] = s[j - Len(a)]
  <2>1. j - Len(a) # k
    <3>1. Len(a) \in Nat /\ DOMAIN d \subseteq Nat
      <4>1. PICK c : c = a \o s
        OBVIOUS
      <4>2. c \in Seq(Row)
        BY <1>8, <1>11, <4>1
      <4>3. d \in Seq(Row)
        BY <1>10, <1>11, <4>1, <4>2
      <4>4. QED  BY <1>11, <4>3
    <3>2. QED  BY <1>13, <3>1
  <2>2. QED  BY <1>13, <1>14, <1>15, <2>1
<1>16. CASE d[j] \in ToSet(a) \cup ToSet(b)
  BY <1>11, <1>12, <1>13, <1>14, <1>16
<1>17. QED  BY <1>8, <1>10, <1>11, <1>15, <1>16, ConcatAt

(* Disambiguated members share their name with nobody.                     *)
THEOREM SplitNamesAreApart == Spec => []SplitSeparates
BY SplitApart, ReviewTypes, PTL

-----------------------------------------------------------------------------
(* Taking a decision back.  Rows are counted, not placed.                  *)

Count(s, Q) == Cardinality({i \in DOMAIN s : s[i] \in Q})

(* A count is a number.                                                    *)
LEMMA CountNat ==
  ASSUME NEW S, NEW s \in Seq(S), NEW Q
  PROVE  IsFiniteSet({i \in DOMAIN s : s[i] \in Q}) /\ Count(s, Q) \in Nat
<1>1. PICK D, A : D = DOMAIN s /\ A = {i \in D : s[i] \in Q}
  OBVIOUS
<1>2. PICK k : k = Len(s)
  OBVIOUS
<1>3. k \in Nat /\ D = 1 .. k
  BY <1>1, <1>2
<1>4. IsFiniteSet(D)
  BY <1>3, FS_Interval
<1>5. IsFiniteSet(A)
  BY <1>1, <1>4, FS_Subset
<1>6. Cardinality(A) \in Nat
  BY <1>5, FS_CardinalityType
<1>7. QED  BY <1>1, <1>5, <1>6 DEF Count

LEMMA CountAlike ==
  ASSUME NEW s, NEW Q, NEW t, NEW R, DOMAIN s = DOMAIN t,
         \A i \in DOMAIN s : s[i] \in Q <=> t[i] \in R
  PROVE  Count(s, Q) = Count(t, R)
<1>1. {i \in DOMAIN s : s[i] \in Q} = {i \in DOMAIN t : t[i] \in R}
  OBVIOUS
<1>2. QED  BY <1>1 DEF Count

LEMMA CountAppend ==
  ASSUME NEW S, NEW s \in Seq(S), NEW x \in S, NEW Q
  PROVE  Count(Append(s, x), Q) = Count(s, Q) + IF x \in Q THEN 1 ELSE 0
<1>1. PICK t, k, A : t = Append(s, x) /\ k = Len(s) /\ A = {i \in DOMAIN s : s[i] \in Q}
  OBVIOUS
<1>2. /\ k \in Nat /\ DOMAIN s = 1 .. k /\ DOMAIN t = 1 .. k + 1 /\ t[k + 1] = x
      /\ \A i \in 1 .. k : t[i] = s[i]
  BY <1>1
<1>3. IsFiniteSet(A) /\ Count(s, Q) = Cardinality(A) /\ Cardinality(A) \in Nat
  BY <1>1, CountNat DEF Count
<1>4. k + 1 \notin A
  BY <1>1, <1>2
<1>5. CASE x \in Q
  <2>1. {i \in DOMAIN t : t[i] \in Q} = A \cup {k + 1}
    BY <1>1, <1>2, <1>5
  <2>2. Cardinality(A \cup {k + 1}) = Cardinality(A) + 1
    BY <1>3, <1>4, FS_AddElement
  <2>3. QED  BY <1>1, <1>3, <1>5, <2>1, <2>2 DEF Count
<1>6. CASE x \notin Q
  <2>1. {i \in DOMAIN t : t[i] \in Q} = A
    BY <1>1, <1>2, <1>6
  <2>2. Count(t, Q) = Cardinality(A)
    BY <2>1 DEF Count
  <2>3. QED  BY <1>1, <1>3, <1>6, <2>2
<1>7. QED  BY <1>5, <1>6

LEMMA ShiftSize ==
  ASSUME NEW k \in Nat, NEW B \in SUBSET Nat, IsFiniteSet(B)
  PROVE  IsFiniteSet({k + j : j \in B}) /\ Cardinality({k + j : j \in B}) = Cardinality(B)
<1>1. PICK C, f : C = {k + j : j \in B} /\ f = [j \in B |-> k + j]
  OBVIOUS
<1>2. f \in [B -> C] /\ (\A c \in C : \E j \in B : f[j] = c)
      /\ \A i, j \in B : f[i] = f[j] => i = j
  BY <1>1
<1>3. f \in Surjection(B, C) /\ f \in Injection(B, C)
  BY <1>2 DEF Surjection, Injection, IsInjective
<1>4. IsFiniteSet(C) /\ Cardinality(C) = Cardinality(B)
  BY <1>3, FS_Surjection
<1>5. QED  BY <1>1, <1>4

(* Counts add up along a concatenation.                                    *)
LEMMA CountConcat ==
  ASSUME NEW S, NEW s \in Seq(S), NEW t \in Seq(S), NEW Q
  PROVE  Count(s \o t, Q) = Count(s, Q) + Count(t, Q)
<1>1. PICK u, k, l : u = s \o t /\ k = Len(s) /\ l = Len(t)
  OBVIOUS
<1>2. /\ k \in Nat /\ l \in Nat /\ DOMAIN s = 1 .. k /\ DOMAIN t = 1 .. l
      /\ DOMAIN u = 1 .. k + l
      /\ (\A i \in 1 .. k : u[i] = s[i]) /\ \A j \in 1 .. l : u[k + j] = t[j]
  BY <1>1
<1>3. PICK A, B, C : /\ A = {i \in DOMAIN s : s[i] \in Q} /\ B = {i \in DOMAIN t : t[i] \in Q}
                     /\ C = {k + j : j \in B}
  OBVIOUS
<1>4. /\ IsFiniteSet(A) /\ IsFiniteSet(B) /\ Count(s, Q) = Cardinality(A)
      /\ Count(t, Q) = Cardinality(B) /\ Cardinality(A) \in Nat /\ Cardinality(B) \in Nat
  BY <1>3, CountNat DEF Count
<1>5. IsFiniteSet(C) /\ Cardinality(C) = Cardinality(B)
  <2>1. B \in SUBSET Nat
    BY <1>2, <1>3
  <2>2. QED  BY <1>2, <1>3, <1>4, <2>1, ShiftSize
<1>6. A \cap C = {}
  BY <1>2, <1>3
<1>7. {i \in DOMAIN u : u[i] \in Q} = A \cup C
  <2>1. ASSUME NEW i \in DOMAIN u, u[i] \in Q PROVE i \in A \cup C
    <3>1. CASE i <= k
      BY <1>2, <1>3, <2>1, <3>1
    <3>2. CASE i > k
      <4>1. i - k \in 1 .. l /\ k + (i - k) = i
        BY <1>2, <3>2
      <4>2. t[i - k] \in Q
        BY <1>2, <2>1, <4>1
      <4>3. QED  BY <1>2, <1>3, <4>1, <4>2
    <3>3. QED  BY <1>2, <3>1, <3>2
  <2>2. ASSUME NEW i \in A \cup C PROVE i \in DOMAIN u /\ u[i] \in Q
    BY <1>2, <1>3
  <2>3. QED  BY <2>1, <2>2
<1>8. Cardinality(A \cup C) = Cardinality(A) + Cardinality(C)
  <2>1. Cardinality(A \cup C) = Cardinality(A) + Cardinality(C) - Cardinality(A \cap C)
    BY <1>4, <1>5, FS_Union
  <2>2. Cardinality(A \cap C) = 0
    BY <1>6, FS_EmptySet
  <2>3. QED  BY <1>4, <1>5, <2>1, <2>2
<1>9. QED  BY <1>1, <1>4, <1>5, <1>7, <1>8 DEF Count

(* Counting in a subsequence is counting at its positions.                 *)
LEMMA CountPicked ==
  ASSUME NEW S, NEW s \in Seq(S), NEW I, NEW Q
  PROVE  Count(Picked(s, I), Q) = Cardinality({i \in I \cap DOMAIN s : s[i] \in Q})
<1>1. PICK p : Picks(p, s, I, S) /\ Picked(s, I) = p[Len(s)]
  BY PickedSteps
<1>2. PICK N : N = Len(s)
  OBVIOUS
<1>3. N \in Nat /\ DOMAIN s = 1 .. N /\ \A n \in 1 .. N : s[n] \in S
  BY <1>2
<1> DEFINE Hits(n) == {i \in I \cap (1 .. n) : s[i] \in Q}
           P == {n \in 0 .. N : Count(p[n], Q) = Cardinality(Hits(n))}
<1>4. 0 \in P
  <2>1. PICK e : e = p[0]
    OBVIOUS
  <2>2. DOMAIN e = {}
    BY <1>1, <2>1 DEF Picks
  <2>3. Count(e, Q) = 0
    <3>1. {i \in DOMAIN e : e[i] \in Q} = {}
      BY <2>2
    <3>2. QED  BY <3>1, FS_EmptySet DEF Count
  <2>4. Hits(0) = {}
    OBVIOUS
  <2>5. Cardinality(Hits(0)) = 0
    BY <2>4, FS_EmptySet
  <2>6. QED  BY <1>3, <2>1, <2>3, <2>5
<1>5. ASSUME NEW n \in 0 .. N, n \in P, n < N PROVE n + 1 \in P
  <2>1. n + 1 \in 1 .. N /\ (n + 1) - 1 = n /\ p[n] \in Seq(S) /\ s[n + 1] \in S
    BY <1>1, <1>2, <1>3, <1>5 DEF Picks
  <2>2. PICK H : H = Hits(n)
    OBVIOUS
  <2>3. IsFiniteSet(H) /\ Cardinality(H) \in Nat /\ n + 1 \notin H
    <3>1. IsFiniteSet(1 .. n)
      BY <1>3, FS_Interval
    <3>2. H \subseteq 1 .. n
      BY <2>2
    <3>3. IsFiniteSet(H)
      BY <3>1, <3>2, FS_Subset
    <3>4. n + 1 \notin H
      BY <1>3, <3>2
    <3>5. QED  BY <3>3, <3>4, FS_CardinalityType
  <2>4. 1 .. n + 1 = (1 .. n) \cup {n + 1}
    BY <1>3
  <2>5. Count(p[n], Q) = Cardinality(H)
    BY <1>5, <2>2
  <2>6. CASE n + 1 \in I
    <3>1. p[n + 1] = Append(p[n], s[n + 1])
      BY <1>1, <1>2, <2>1, <2>6 DEF Picks
    <3>2. Count(p[n + 1], Q) = Count(p[n], Q) + IF s[n + 1] \in Q THEN 1 ELSE 0
      BY <2>1, <3>1, CountAppend
    <3>3. CASE s[n + 1] \in Q
      <4>1. Hits(n + 1) = H \cup {n + 1}
        BY <2>2, <2>4, <2>6, <3>3
      <4>2. Cardinality(H \cup {n + 1}) = Cardinality(H) + 1
        BY <2>3, FS_AddElement
      <4>3. Count(p[n + 1], Q) = Cardinality(Hits(n + 1))
        BY <2>5, <3>2, <3>3, <4>1, <4>2
      <4>4. QED  BY <2>1, <4>3
    <3>4. CASE s[n + 1] \notin Q
      <4>1. Hits(n + 1) = H
        BY <2>2, <2>4, <3>4
      <4>2. Count(p[n + 1], Q) = Cardinality(H)
        BY <2>3, <2>5, <3>2, <3>4
      <4>3. Count(p[n + 1], Q) = Cardinality(Hits(n + 1))
        BY <4>1, <4>2
      <4>4. QED  BY <2>1, <4>3
    <3>5. QED  BY <3>3, <3>4
  <2>7. CASE n + 1 \notin I
    <3>1. p[n + 1] = p[n]
      BY <1>1, <1>2, <2>1, <2>7 DEF Picks
    <3>2. Hits(n + 1) = H
      BY <2>2, <2>4, <2>7
    <3>3. Count(p[n + 1], Q) = Cardinality(Hits(n + 1))
      BY <2>5, <3>1, <3>2
    <3>4. QED  BY <2>1, <3>3
  <2>8. QED  BY <2>6, <2>7
<1>6. N \in P
  <2> HIDE DEF P
  <2>1. QED  BY <1>3, <1>4, <1>5, Stepwise
<1>7. QED  BY <1>1, <1>2, <1>3, <1>6

LEMMA CountSum ==
  ASSUME NEW A, NEW B, IsFiniteSet(A), IsFiniteSet(B), A \cap B = {},
         NEW D, D = A \cup B
  PROVE  Cardinality(D) = Cardinality(A) + Cardinality(B)
<1>1. Cardinality(A \cup B) = Cardinality(A) + Cardinality(B) - Cardinality(A \cap B)
  BY FS_Union
<1>2. Cardinality(A) \in Nat /\ Cardinality(B) \in Nat /\ Cardinality(A \cap B) = 0
  BY FS_CardinalityType, FS_EmptySet
<1>3. QED  BY <1>1, <1>2

(* The rows that are no members of n.                                      *)
Strangers(n) == {r \in Row : ~IsMember(r, n)}

(* Members and strangers make up the grid.                                 *)
LEMMA CountMembers ==
  ASSUME NEW g \in Seq(Row), NEW n, NEW Q
  PROVE  Count(g, Q) = Count(Members(g, n), Q) + Count(g, Q \cap Strangers(n))
<1>1. PICK A, B, D : /\ A = {i \in Mine(g, n) : g[i] \in Q}
                     /\ B = {i \in DOMAIN g : g[i] \in Q \cap Strangers(n)}
                     /\ D = {i \in DOMAIN g : g[i] \in Q}
  OBVIOUS
<1>2. \A i \in DOMAIN g : g[i] \in Row
  OBVIOUS
<1>3. D = A \cup B /\ A \cap B = {}
  BY <1>1, <1>2 DEF Mine, Strangers
<1>4. IsFiniteSet(D)
  BY <1>1, CountNat
<1>5. IsFiniteSet(A) /\ IsFiniteSet(B)
  BY <1>3, <1>4, FS_Subset
<1>6. Cardinality(D) = Cardinality(A) + Cardinality(B)
  BY <1>3, <1>5, CountSum
<1>7. Count(Members(g, n), Q) = Cardinality(A)
  <2>1. PICK I : I = Mine(g, n)
    OBVIOUS
  <2>2. I \cap DOMAIN g = I
    BY <2>1 DEF Mine
  <2>3. Count(Picked(g, I), Q) = Cardinality({i \in I \cap DOMAIN g : g[i] \in Q})
    BY CountPicked
  <2>4. QED  BY <1>1, <2>1, <2>2, <2>3 DEF Members
<1>8. QED  BY <1>1, <1>6, <1>7 DEF Count

(* Replacing the members leaves the strangers.                             *)
LEMMA CountReplaced ==
  ASSUME NEW g \in Seq(Row), NEW n, NEW d \in Seq(Row), NEW Q
  PROVE  Count(Replaced(g, n, d), Q) = Count(d, Q) + Count(g, Q \cap Strangers(n))
<1>1. PICK I, J : I = Ahead(g, n) /\ J = DOMAIN g \ (Mine(g, n) \cup Ahead(g, n))
  OBVIOUS
<1>2. I \cap DOMAIN g = I /\ J \cap DOMAIN g = J /\ I \cap J = {}
  BY <1>1 DEF Ahead
<1>3. I \cup J = DOMAIN g \ Mine(g, n)
  <2>1. DOMAIN g \subseteq Nat
    OBVIOUS
  <2>2. \A i \in Ahead(g, n) : i \in DOMAIN g /\ i \notin Mine(g, n)
    <3>1. \A i \in Nat : ~(i < i)
      OBVIOUS
    <3>2. QED  BY <2>1, <3>1 DEF Ahead
  <2>3. QED  BY <1>1, <2>2
<1>4. PICK a, b : a = Picked(g, I) /\ b = Picked(g, J)
  OBVIOUS
<1>5. a \in Seq(Row) /\ b \in Seq(Row)
  BY <1>4, PickedIs
<1>6. PICK A, B, D : /\ A = {i \in I : g[i] \in Q} /\ B = {i \in J : g[i] \in Q}
                     /\ D = {i \in DOMAIN g : g[i] \in Q \cap Strangers(n)}
  OBVIOUS
<1>7. Count(a, Q) = Cardinality(A) /\ Count(b, Q) = Cardinality(B)
  BY <1>2, <1>4, <1>6, CountPicked
<1>8. D = A \cup B /\ A \cap B = {}
  <2>1. \A i \in DOMAIN g : g[i] \in Row
    OBVIOUS
  <2>2. \A i \in DOMAIN g : i \in I \cup J <=> g[i] \in Strangers(n)
    BY <1>3, <2>1 DEF Mine, Strangers
  <2>3. QED  BY <1>2, <1>6, <2>2
<1>9. IsFiniteSet(D) /\ Count(g, Q \cap Strangers(n)) = Cardinality(D)
  BY <1>6, CountNat DEF Count
<1>10. IsFiniteSet(A) /\ IsFiniteSet(B)
  BY <1>8, <1>9, FS_Subset
<1>11. Cardinality(D) = Cardinality(A) + Cardinality(B)
  BY <1>8, <1>10, CountSum
<1>12. PICK c : c = a \o d
  OBVIOUS
<1>13. c \in Seq(Row) /\ Count(c, Q) = Count(a, Q) + Count(d, Q)
  BY <1>5, <1>12, CountConcat
<1>14. Count(c \o b, Q) = Count(c, Q) + Count(b, Q)
  BY <1>5, <1>13, CountConcat
<1>15. Replaced(g, n, d) = c \o b
  BY <1>1, <1>4, <1>12 DEF Replaced
<1>16. /\ Count(a, Q) \in Nat /\ Count(b, Q) \in Nat /\ Count(c, Q) \in Nat /\ Count(d, Q) \in Nat
  BY <1>5, <1>13, CountNat
<1>17. QED  BY <1>7, <1>9, <1>11, <1>13, <1>14, <1>15, <1>16

(* Rows that are r but for their stamp.                                    *)
Like(r) == {q \in Row : [q EXCEPT !.grp = NoGroup] = r}

(* Stamps do not change how many rows are alike.                           *)
LEMMA CountStamped ==
  ASSUME NEW g \in Seq(Row), NEW n \in Seq(Nat), NEW r
  PROVE  Count(Stamped(g, n), Like(r)) = Count(g, Like(r))
<1>1. PICK s : s = Stamped(g, n)
  OBVIOUS
<1>2. s \in Seq(Row) /\ DOMAIN s = DOMAIN g
  BY <1>1, StampedIs
<1>3. ASSUME NEW i \in DOMAIN s PROVE s[i] \in Like(r) <=> g[i] \in Like(r)
  <2>1. g[i] \in Row /\ s[i] \in Row
    BY <1>2
  <2>2. PICK q, no : q = g[i] /\ no = NoGroup
    OBVIOUS
  <2>3. s[i] = [q EXCEPT !.grp = n]
    BY <1>1, <1>2, <2>2 DEF Stamped
  <2>4. [s[i] EXCEPT !.grp = no] = [q EXCEPT !.grp = no]
    BY <2>1, <2>2, <2>3 DEF Row
  <2>5. QED  BY <2>1, <2>2, <2>4 DEF Like
<1>4. QED  BY <1>1, <1>2, <1>3, CountAlike

LEMMA UnstampedCount ==
  ASSUME NEW g \in Seq(Row), NEW r, NEW s, s = Stamped(g, NoGroup)
  PROVE  Cardinality({i \in DOMAIN s : s[i] = r}) = Count(g, Like(r))
<1>1. PICK no : no = NoGroup
  OBVIOUS
<1>2. no \in Seq(Nat) /\ s = Stamped(g, no)
  BY <1>1 DEF NoGroup
<1>3. DOMAIN s = DOMAIN g
  BY <1>2, StampedIs
<1>4. ASSUME NEW i \in DOMAIN g PROVE s[i] = r <=> g[i] \in Like(r)
  <2>1. g[i] \in Row /\ s[i] = [g[i] EXCEPT !.grp = no]
    BY <1>2 DEF Stamped
  <2>2. QED  BY <1>1, <2>1 DEF Like
<1>5. {i \in DOMAIN s : s[i] = r} = {i \in DOMAIN g : g[i] \in Like(r)}
  BY <1>3, <1>4
<1>6. QED  BY <1>5 DEF Count

(* Grids with the same counts are the same bag of rows.                    *)
LEMMA SameBag ==
  ASSUME NEW g \in Seq(Row), NEW h \in Seq(Row), \A r : Count(g, Like(r)) = Count(h, Like(r))
  PROVE  Unstamped(g) = Unstamped(h)
<1>1. PICK s, t : s = Stamped(g, NoGroup) /\ t = Stamped(h, NoGroup)
  OBVIOUS
<1>2. \A r : Cardinality({i \in DOMAIN s : s[i] = r}) = Cardinality({i \in DOMAIN t : t[i] = r})
  <2>1. ASSUME NEW r
        PROVE  Cardinality({i \in DOMAIN s : s[i] = r}) = Cardinality({i \in DOMAIN t : t[i] = r})
    <3>1. Cardinality({i \in DOMAIN s : s[i] = r}) = Count(g, Like(r))
      BY <1>1, UnstampedCount
    <3>2. Cardinality({i \in DOMAIN t : t[i] = r}) = Count(h, Like(r))
      BY <1>1, UnstampedCount
    <3>3. QED  BY <3>1, <3>2
  <2>2. QED  BY <2>1
<1>3. s \in Seq(Row) /\ t \in Seq(Row)
  <2>1. PICK no : no = NoGroup
    OBVIOUS
  <2>2. no \in Seq(Nat)
    BY <2>1 DEF NoGroup
  <2>3. QED  BY <1>1, <2>1, <2>2, StampedIs
<1>4. ASSUME NEW u \in Seq(Row), NEW r
      PROVE  r \in Range(u) <=> Cardinality({i \in DOMAIN u : u[i] = r}) # 0
  <2>1. PICK A : A = {i \in DOMAIN u : u[i] = r}
    OBVIOUS
  <2>2. A = {i \in DOMAIN u : u[i] \in {r}}
    BY <2>1
  <2>3. IsFiniteSet(A)
    BY <2>2, CountNat
  <2>4. Cardinality(A) = 0 <=> A = {}
    BY <2>3, FS_EmptySet
  <2>5. r \in Range(u) <=> A # {}
    BY <2>1 DEF Range
  <2>6. QED  BY <2>1, <2>4, <2>5
<1>5. Range(s) = Range(t)
  <2>1. ASSUME NEW r PROVE r \in Range(s) <=> r \in Range(t)
    <3>1. PICK k, l : /\ k = Cardinality({i \in DOMAIN s : s[i] = r})
                      /\ l = Cardinality({i \in DOMAIN t : t[i] = r})
      OBVIOUS
    <3>2. (r \in Range(s) <=> k # 0) /\ (r \in Range(t) <=> l # 0)
      BY <1>3, <1>4, <3>1
    <3>3. k = l
      BY <1>2, <3>1
    <3>4. QED  BY <3>2, <3>3
  <2>2. QED  BY <2>1
<1>6. ToBag(s) = ToBag(t)
  BY <1>2, <1>5 DEF ToBag
<1>7. QED  BY <1>1, <1>6 DEF Unstamped

LEMMA NoneLike ==
  ASSUME NEW s, NEW Q, \A i \in DOMAIN s : s[i] \notin Q
  PROVE  Count(s, Q) = 0
<1>1. {i \in DOMAIN s : s[i] \in Q} = {}
  OBVIOUS
<1>2. QED  BY <1>1, FS_EmptySet DEF Count

(* It holds in every typed state: snapshot for members, strangers          *)
(* untouched.                                                              *)
LEMMA TakenBack ==
  ASSUME TypeOK
  PROVE  DecisionsReverse
<1>1. PICK g : g = rows
  OBVIOUS
<1>2. g \in Seq(Row) /\ DecisionsOK(grp)
  BY <1>1 DEF TypeOK, SheetsOK
<1>3. SUFFICES ASSUME NEW n \in DuplicateNames(g), NEW action \in {"merge", "split"},
                      NEW d, d = GroupAction(g, grp, n, action),
                      NEW h, h = GroupAction(d.rows, d.grp, n, "separate").rows
               PROVE  Unstamped(h) = Unstamped(g)
  BY <1>1 DEF DecisionsReverse
<1>4. n \in Name /\ n \in Seq(Nat) /\ Members(g, n) # << >>
  BY <1>2, DuplicateIs DEF Name
<1>5. PICK live, T, made, s, no, base :
        /\ live = Members(g, n) /\ T = TermsOf(Others(g, n))
        /\ made = IF action = "merge" THEN <<Merged(live)>> ELSE Split(live, T)
        /\ s = Stamped(made, n) /\ no = NoGroup /\ base = Stamped(live, no)
  OBVIOUS
<1>6. live \in Seq(Row) /\ live # << >> /\ no \in Seq(Nat)
  BY <1>2, <1>4, <1>5, MembersIs DEF NoGroup
<1>7. made \in Seq(Row)
  <2>1. CASE action = "merge"
    <3>1. PICK m : m = Merged(live)
      OBVIOUS
    <3>2. m \in Row
      BY <1>6, <3>1, MergedIs
    <3>3. QED  BY <1>5, <2>1, <3>1, <3>2
  <2>2. CASE action = "split"
    <3>1. PICK o : o = Others(g, n)
      OBVIOUS
    <3>2. o \in Seq(Row)
      BY <1>2, <3>1, MembersIs
    <3>3. IsFiniteSet(T)
      BY <1>5, <3>1, <3>2, TermsFinite
    <3>4. made = Split(live, T)
      BY <1>5, <2>2
    <3>5. QED  BY <1>6, <3>3, <3>4, SplitIs
  <2>3. QED  BY <2>1, <2>2
<1>8. s \in Seq(Row) /\ \A i \in DOMAIN s : s[i].grp = n
  <2>1. s = Stamped(made, n)
    BY <1>5
  <2>2. QED  BY <1>4, <1>7, <2>1, StampedIs
<1>9. base \in Seq(Row)
  BY <1>5, <1>6, StampedIs
<1>10. PICK x, p : x = Replaced(g, n, s) /\ p = With(grp, n, [action |-> action, base |-> live])
  OBVIOUS
<1>11. d = [rows |-> x, grp |-> p]
  <2>1. d = Decided(g, grp, n, action)
    BY <1>3, <1>4 DEF GroupAction
  <2>2. QED  BY <1>5, <1>10, <2>1 DEF Decided
<1>12. n \in DOMAIN p /\ p[n].base = live
  BY <1>10 DEF With
<1>13. h = Replaced(x, n, base)
  <2>1. h = Reverted(x, p, n).rows
    BY <1>3, <1>11, <1>12 DEF GroupAction
  <2>2. QED  BY <1>5, <1>12, <2>1 DEF Reverted
<1>14. x \in Seq(Row)
  BY <1>2, <1>8, <1>10, ReplacedIs
<1>15. h \in Seq(Row)
  BY <1>9, <1>13, <1>14, ReplacedIs
<1>16. ASSUME NEW r PROVE Count(h, Like(r)) = Count(g, Like(r))
  <2>1. PICK Q, R : Q = Like(r) /\ R = Q \cap Strangers(n)
    OBVIOUS
  <2>2. R \cap Strangers(n) = R
    BY <2>1
  <2>3. Count(h, Q) = Count(base, Q) + Count(x, R)
    BY <1>9, <1>13, <1>14, <2>1, CountReplaced
  <2>4. Count(x, R) = Count(s, R) + Count(g, R)
    BY <1>2, <1>8, <1>10, <2>2, CountReplaced
  <2>5. Count(s, R) = 0
    <3>1. \A i \in DOMAIN s : s[i] \notin R
      BY <1>8, <2>1 DEF Strangers, IsMember
    <3>2. QED  BY <3>1, NoneLike
  <2>6. Count(base, Q) = Count(live, Q)
    BY <1>5, <1>6, <2>1, CountStamped
  <2>7. Count(g, Q) = Count(live, Q) + Count(g, R)
    BY <1>2, <1>5, <2>1, CountMembers
  <2>8. Count(g, R) \in Nat
    BY <1>2, CountNat
  <2>9. QED  BY <2>1, <2>3, <2>4, <2>5, <2>6, <2>7, <2>8
<1>17. QED  BY <1>2, <1>15, <1>16, SameBag

(* A decision that is taken back at once leaves the rows there were.       *)
THEOREM DecisionsAreReversible == Spec => []DecisionsReverse
BY TakenBack, ReviewTypes, PTL
=============================================================================
