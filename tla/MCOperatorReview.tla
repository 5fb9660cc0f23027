--------------------------- MODULE MCOperatorReview ---------------------------
(* Instances of OperatorReview: one proposal with one trade, or one         *)
(* artifact of each type.                                                  *)
EXTENDS OperatorReview, TLC

CONSTANTS brief, signal, proposal, trade

OneTrade == trade :> proposal

(* Every verdict on the proposal and its trade, and the final ones on a     *)
(* brief or a signal.                                                      *)
Actions ==
    {o \in Operation : \/ o.kind = "sync"
                       \/ o.kind = "action" /\ o.target \in Proposal \cup Trade
                       \/ o.kind = "action" /\ o.outcome \in {"approve", "reject"}}

(* Every kind of request about a proposal, and what is reviewed after it   *)
(* and besides it.                                                         *)
Everyday ==
    {o \in Operation :
        \/ o.kind = "sync"
        \/ o.target \in Proposal /\ (o.issues => o.outcome = "reject")
        \/ o.target \in Trade /\ o.kind = "action" /\ o.outcome \in {"approve", "reject"}
        \/ o.target \in Brief /\ o.kind = "action" /\ o.outcome \in {"approve", "escalate"}}
Verdicts == {o \in Actions : o.kind = "action" /\ o.outcome \in {"approve", "reject"} /\ ~ o.issues}

(* Where requests follow each other no target has two items, and the order *)
(* of the identifiers says nothing: bounds the run to one of the orders,   *)
(* and to one request that dies.                                           *)
OneDeath ==
    /\ \A r, s \in Request : r < s /\ pc[r] = "idle" => pc[s] = "idle"
    /\ Cardinality({r \in Request : pc[r] = "dead"}) <= 1
=============================================================================
