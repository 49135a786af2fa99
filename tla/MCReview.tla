------------------------------ MODULE MCReview -------------------------------
(* Small instances of Review and ReviewRows for TLC.                       *)
EXTENDS Review

NoEv == [shape |-> None, values |-> None]
Scanned(cols, t, c, d) ==
  [cols |-> cols, term |-> <<t>>, cat |-> c, def |-> d, ev |-> NoEv, keep |-> TRUE,
   key |-> FALSE, sure |-> d = 1, sug |-> NoTerm, grp |-> NoGroup]
Key(cols, t)   == [Scanned(cols, t, 1, 0) EXCEPT !.key = TRUE, !.keep = FALSE]
Table(t, c)    == Scanned(<< >>, t, c, 0)

(* Columns 1 and 2 lie in one table, column 3 in another.                  *)
Tables == <<7, 7, 8>>
Names  == {<<1>>, <<2>>}
Cats   == {1, 2}

TwoAndOne == {<<Scanned(<<1>>, 1, 1, 0), Scanned(<<2>>, 1, 2, 1), Scanned(<<3>>, 2, 1, 0)>>}
Pairs     == TwoAndOne \cup {<<Scanned(<<1>>, 1, 1, 0), Table(2, 1), Key(<<3>>, 1)>>}
Two       == {<<Scanned(<<1>>, 1, 1, 0), [Scanned(<<2>>, 1, 2, 1) EXCEPT !.sug = <<2>>]>>}

Wide      == {<<Scanned(<<1, 2>>, 1, 1, 0)>>}
Later     == Wide \cup {<<Scanned(<<3>>, 1, 2, 1)>>, <<Scanned(<<1, 3>>, 2, 1, 0), Scanned(<<3>>, 2, 2, 0)>>}
=============================================================================
