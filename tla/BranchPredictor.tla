--------------------------- MODULE BranchPredictor ---------------------------
(* The predictors behind the trait BranchPredict: dummy, which never takes a *)
(* branch, and bimodal, one two-bit counter shared by all branches and a     *)
(* table of targets by pc.  A mispredicted branch always overwrites its      *)
(* table entry, with pc + 4 when it should not have been taken.              *)
EXTENDS Integers

CONSTANTS Pcs,       \* program addresses
          NoTarget   \* a pc the history table has no entry for

PredictorKinds == {"dummy", "bimodal"}

Predictors == [kind : PredictorKinds, counter : 0 .. 3, table : [Pcs -> Pcs \cup {NoTarget}]]

NewPredictor(kind) == [kind |-> kind, counter |-> 0, table |-> [pc \in Pcs |-> NoTarget]]

(* BranchPredictResult; addr is 0 when the branch is predicted not taken. *)
NotTaken == [direction |-> FALSE, addr |-> 0]

BranchPredict(p, pc) ==
    IF p.kind = "bimodal" /\ p.counter > 1 /\ p.table[pc] # NoTarget
    THEN [direction |-> TRUE, addr |-> p.table[pc]]
    ELSE NotTaken

CounterIncrease(n) == IF n < 3 THEN n + 1 ELSE n

CounterDecrease(n) == IF n > 0 THEN n - 1 ELSE n

MispredictRecovery(p, correct_direction, pc, target_addr) ==
    IF p.kind = "dummy" THEN p
    ELSE [p EXCEPT !.counter = IF correct_direction THEN CounterIncrease(@) ELSE CounterDecrease(@),
                   !.table[pc] = target_addr]
=============================================================================
