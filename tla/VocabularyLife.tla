--------------------------- MODULE VocabularyLife ---------------------------
(***************************************************************************)
(* What the governed vocabulary promises, one life cycle per name and      *)
(* nothing else: no document, no file, no cache, no usage sets.            *)
(*                                                                         *)
(*   unknown --scan--> pending --steward--> governed --steward--> retired  *)
(*                                                                         *)
(* A retired tag never comes back by itself.  A retired term may be        *)
(* proposed again by a scan; until a steward approves it, it still counts  *)
(* as retired for everything else.  A restart is not an event of this      *)
(* specification: it must not be observable.                               *)
(***************************************************************************)
CONSTANTS Tag, CoreTag, SeedTag, Term, SeedTerm

VARIABLES tagLife, termLife

lives == <<tagLife, termLife>>

Life == {"unknown", "pending", "governed", "retired", "reproposed"}

LifeTypeOK == /\ tagLife \in [Tag -> Life \ {"reproposed"}]
              /\ termLife \in [Term -> Life]

LifeInit ==
  /\ tagLife = [t \in Tag |-> IF t \in SeedTag THEN "governed" ELSE "unknown"]
  /\ termLife = [n \in Term |-> IF n \in SeedTerm THEN "governed" ELSE "unknown"]

(* A name that is proposed, and one whose proposal is withdrawn.           *)
Proposal(life) == IF life = "unknown" THEN "pending"
                  ELSE IF life = "retired" THEN "reproposed" ELSE life

Withdrawal(life) == IF life = "pending" THEN "unknown"
                    ELSE IF life = "reproposed" THEN "retired" ELSE life

(* One scanned row: new tags become pending, at most one term is proposed. *)
ScanRow(tags, terms) ==
  /\ tagLife' = [t \in Tag |-> IF t \in tags /\ tagLife[t] = "unknown"
                             THEN "pending" ELSE tagLife[t]]
  /\ termLife' = [n \in Term |-> IF n \in terms THEN Proposal(termLife[n])
                                                ELSE termLife[n]]

ApproveName(life, life2, x) ==
  /\ life[x] \in {"pending", "reproposed"}
  /\ life2 = [life EXCEPT ![x] = "governed"]

RetireName(life, life2, x) ==
  /\ life[x] \in {"pending", "reproposed", "governed"}
  /\ life2 = [life EXCEPT ![x] = "retired"]

StewardOnTag(t) ==
  /\ \/ ApproveName(tagLife, tagLife', t)
     \/ t \notin CoreTag /\ RetireName(tagLife, tagLife', t)
  /\ UNCHANGED termLife

StewardOnTerm(n) ==
  /\ \/ ApproveName(termLife, termLife', n)
     \/ RetireName(termLife, termLife', n)
  /\ UNCHANGED tagLife

(* The Review grid corrects pending terms: their proposals are withdrawn   *)
(* for another name or for none.                                           *)
Correct(olds, terms) ==
  /\ olds # {} /\ \A n \in olds : termLife[n] \in {"pending", "reproposed"}
  /\ termLife' = [n \in Term |-> IF n \in terms THEN Proposal(termLife[n])
                               ELSE IF n \in olds THEN Withdrawal(termLife[n])
                               ELSE termLife[n]]
  /\ UNCHANGED tagLife

(* A reseed withdraws every proposal.                                      *)
Reseed ==
  /\ tagLife' = [t \in Tag |-> Withdrawal(tagLife[t])]
  /\ termLife' = [n \in Term |-> Withdrawal(termLife[n])]

LifeNext ==
  \/ \E tags \in SUBSET Tag, terms \in {{}} \cup {{n} : n \in Term} : ScanRow(tags, terms)
  \/ \E t \in Tag : StewardOnTag(t)
  \/ \E n \in Term : StewardOnTerm(n)
  \/ \E olds \in SUBSET Term, terms \in {{}} \cup {{n} : n \in Term} : Correct(olds, terms)
  \/ Reseed

LifeSpec == LifeInit /\ [][LifeNext]_lives
=============================================================================
