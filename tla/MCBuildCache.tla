---------------------------- MODULE MCBuildCache ----------------------------
(* Values of the constants of BuildCache for TLC: entries of which one may  *)
(* be illegible, and days around the ends of February and of a year.        *)
EXTENDS BuildCache

CONSTANTS e1, e2, w1, w2

MCText == {""}
MCTrim == [t \in MCText |-> t]

MCSizeOf == [e \in {e1, e2} |-> IF e = e1 THEN 4 ELSE 5]

Clear == [e \in {e1, e2} |-> Fields]
MCShowings == {Clear} \cup {[Clear EXCEPT ![e2] = Fields \ {f}] : f \in Fields}

SymmetricWorkers == Permutations(Workers)

On(y, m, d, n) == [date |-> [year |-> y, month |-> m, day |-> d], days |-> n]
MCStartDates ==
  {On(2000, 2, 28, 11015), On(2023, 12, 31, 19722), On(2024, 2, 28, 19781),
   On(2100, 2, 28, 47540)}
=============================================================================
