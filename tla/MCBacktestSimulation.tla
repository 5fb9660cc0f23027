------------------------ MODULE MCBacktestSimulation ------------------------
(* Two signals over four bars that close at times 2 to 5.                  *)
EXTENDS BacktestSimulation

Closes == [b \in 1..4 |-> b + 1]

Candidates(ids, times, features, stances, scores, allowed, traceable) ==
    {s \in [id : ids, effective : times, available : times \cup {None}, features : features,
            stance : stances, score : scores, allowed : allowed, traceable : traceable] :
       s.available \in {s.effective, None}}

(* The first may lack its window or its lineage, and may have features     *)
(* that only become available later; the second may not be allowed.        *)
First == Candidates({1}, {1}, {1, 5}, {"positive", "negative"}, {2}, {TRUE}, BOOLEAN)
Second == {s \in Candidates({2}, {1, 3}, {1}, {"positive", "mixed"}, {1, 2}, BOOLEAN, {TRUE}) :
             s.available # None}

PairsOfSignals == {{a, b} : a \in First, b \in Second}
=============================================================================
