---------------------------- MODULE MCDictionary ----------------------------
(* Small instances of Dictionary for TLC.                                  *)
EXTENDS DictionaryRefinement

(* The vocabulary of tests/test_engine.py in small: the core tag pii, the  *)
(* baseline tag temporal with its rule and its term Date, the pack's tag   *)
(* pci with its term Card Number, one scanned tag.                         *)
MCTag        == {"pii", "temporal", "pci", "flow"}
MCCoreTag    == {"pii"}
MCGenericTag == {"pii", "temporal"}
MCPackTag    == {"pci"}
MCPattern    == {"date", "card", "mine"}
MCSeedRules  == {[pattern |-> "date", tags |-> {"temporal"}, layer |-> "generic"],
                 [pattern |-> "card", tags |-> {"pci"}, layer |-> "company"]}
MCSource     == {"c1"}

SameCase == [n \in Term |-> n]
NoAliases == [n \in Term |-> {}]

RowOf(term, tags, source) ==
  [term |-> term, tags |-> tags, source |-> source, pruned |-> FALSE,
   record |-> FALSE]

(* Retiring and re-proposing seeded vocabulary.                            *)
SeededTerm     == {"Date", "Card"}
SeededTermTags == [Date |-> {"temporal"}, Card |-> {"pci"}]
SeededRows     == {RowOf("Date", {"temporal"}, "c1"), RowOf("Card", {"pci"}, "c1"),
                   RowOf(NoName, {"flow"}, NoSource)}

(* The pack's term alone, retired and saved over.                          *)
PackTags == [n \in Term |-> {"pci"}]

(* Scanned terms: a misread name, its correction and a case correction.    *)
ScanTag      == {"pii", "pci", "flow"}
ScanRules    == {[pattern |-> "card", tags |-> {"pci"}, layer |-> "company"]}
ScanTerm     == {"Phone Level", "Ph Level", "pH Level"}
ScanFold     == [n \in ScanTerm |-> IF n = "pH Level" THEN "Ph Level" ELSE n]
ScanTermTags == [n \in ScanTerm |-> {}]
ScanRows     == {RowOf("Phone Level", {"flow"}, "c1"), RowOf("Ph Level", {"flow"}, "c1"),
                 RowOf("pH Level", {"pci"}, "c1"),
                 [RowOf("Phone Level", {"flow"}, "c1") EXCEPT !.pruned = TRUE]}

(* The Dictionary page's saves and the snapshot, over a smaller vocabulary.*)
PageTag   == {"pii", "temporal", "flow"}
PageTerm  == {"Flow Rate", "flow rate"}
PageRules == {[pattern |-> "date", tags |-> {"temporal"}, layer |-> "generic"]}
PageTerms == [n \in PageTerm |-> {}]
OneCase   == [n \in PageTerm |-> "flow rate"]
PageRows  == {RowOf("Flow Rate", {"flow", "temporal"}, "c1"), RowOf("flow rate", {}, "c1")}
OneRow    == {RowOf("flow rate", {"flow", "temporal"}, "c1")}
Typed     == {[name |-> "flow rate", tags |-> {"flow"}, aliases |-> {}]}
TypedRule == {[pattern |-> "mine", tags |-> {"flow"}, layer |-> "none"]}
=============================================================================
