-------------------------- MODULE PositionLifecycle --------------------------
(***************************************************************************)
(* What the paper ledger promises about one paper position, without its    *)
(* files: docs/risk/paper_ledger_and_outcomes.md, "Lifecycle Events", and  *)
(* the enumeration PaperPositionStateStatus.  A trade is tracked by at     *)
(* most one position, the position only moves forward, and `closed` and    *)
(* `cancelled` are terminal.                                               *)
(***************************************************************************)

CONSTANT Trade          \* the paper trades that may be admitted

VARIABLE phase          \* phase[t]: where the position of trade t stands

PositionStatus == {"approved_pending_fill", "open", "closed", "cancelled"}

Terminal == {"closed", "cancelled"}

Untracked == "untracked"

Init == phase = [t \in Trade |-> Untracked]

(* The trade is admitted: its position exists and waits for a fill. *)
Admit(t) ==
    /\ phase[t] = Untracked
    /\ phase' = [phase EXCEPT ![t] = "approved_pending_fill"]

(* A fill or a first mark opens the position. *)
Open(t) ==
    /\ phase[t] = "approved_pending_fill"
    /\ phase' = [phase EXCEPT ![t] = "open"]

(* A tracked position that has not ended ends, once. *)
Finish(t, end) ==
    /\ phase[t] \in PositionStatus \ Terminal
    /\ phase' = [phase EXCEPT ![t] = end]

Next == \E t \in Trade : Admit(t) \/ Open(t) \/ \E end \in Terminal : Finish(t, end)

Spec == Init /\ [][Next]_phase
=============================================================================
