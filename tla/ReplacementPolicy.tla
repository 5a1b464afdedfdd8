-------------------------- MODULE ReplacementPolicy --------------------------
(* The replacement policies of one cache set (replacement_policy.rs): FIFO,  *)
(* random and tree pseudo-LRU, as operators on the policy's private state.   *)
(* Every policy keeps its own valid bits, separate from the valid_array of   *)
(* the cache set; queue is only used by FIFO and tree only by pseudo-LRU.    *)
EXTENDS Integers, Sequences, FiniteSets

CONSTANTS NumWays,  \* associativity
          Policy    \* "fifo", "random" or "plru"

ASSUME NumWaysAssumption == NumWays \in Nat \ {0}

(* PseudoLruRP::new asserts that the associativity is a power of two. *)
ASSUME PolicyAssumption ==
    /\ Policy \in {"fifo", "random", "plru"}
    /\ Policy = "plru" => \E k \in 0 .. NumWays : NumWays = 2^k

Ways == 0 .. (NumWays - 1)

(* Heap indices of the internal nodes of the pseudo-LRU tree. *)
Nodes == 0 .. (NumWays - 2)

(* The result of a scan 0, 1, 2, ... for the first member of S: a singleton  *)
(* when S is not empty.                                                      *)
First(S) == {w \in S : \A v \in S : w <= v}

RPStates == [valid : [Ways -> BOOLEAN], queue : Seq(Ways), tree : [Nodes -> BOOLEAN]]

NewRP == [valid |-> [w \in Ways |-> FALSE],
          queue |-> <<>>,
          tree  |-> [n \in Nodes |-> FALSE]]

-----------------------------------------------------------------------------
(* The pseudo-LRU tree.  With heap indices counted from one, the leaf of way *)
(* w is w + NumWays, its ancestor k levels up is that number divided by 2^k, *)
(* and the children of node n + 1 are 2 * (n + 1) and 2 * (n + 1) + 1.       *)

Below(w, m) == \E k \in 0 .. NumWays : (w + NumWays) \div (2^k) = m

UnderLeft(n, w) == Below(w, 2 * (n + 1))

UnderRight(n, w) == Below(w, 2 * (n + 1) + 1)

(* Defect: the bits on the path point at the accessed way. *)
PromoteTreeTowards(tree, w) ==
    [n \in Nodes |-> IF UnderLeft(n, w) THEN TRUE
                     ELSE IF UnderRight(n, w) THEN FALSE
                     ELSE tree[n]]

(* promote: every bit on the path from the leaf of w to the root is set to   *)
(* point away from w: false (the left subtree is newer) when w is on the     *)
(* left, true when it is on the right.                                       *)
PromoteTree(tree, w) ==
    [n \in Nodes |-> IF UnderLeft(n, w) THEN FALSE
                     ELSE IF UnderRight(n, w) THEN TRUE
                     ELSE tree[n]]

(* Defect: the walk reads the bits the other way round. *)
PointsAtFlipped(tree, w) ==
    \A n \in Nodes : /\ UnderLeft(n, w) => ~tree[n]
                     /\ UnderRight(n, w) => tree[n]

(* The walk from the root that follows the bits (true: left, false: right)   *)
(* ends in w iff every bit on the path of w points at w.                     *)
PointsAt(tree, w) ==
    \A n \in Nodes : /\ UnderLeft(n, w) => tree[n]
                     /\ UnderRight(n, w) => ~tree[n]

-----------------------------------------------------------------------------
(* The operations of the trait. *)

Promote(rp, w) ==
    IF Policy = "plru" THEN [rp EXCEPT !.tree = PromoteTree(rp.tree, w)] ELSE rp

(* Defect: FIFO forgets to queue the inserted way. *)
InsertUnqueued(rp, w) == [rp EXCEPT !.valid = [rp.valid EXCEPT ![w] = TRUE]]

(* Defect: FIFO queues the inserted way at the end that evict takes from. *)
InsertAtBack(rp, w) ==
    LET valid == [rp.valid EXCEPT ![w] = TRUE]
    IN  CASE Policy = "fifo"   -> [rp EXCEPT !.valid = valid, !.queue = Append(rp.queue, w)]
          [] Policy = "random" -> [rp EXCEPT !.valid = valid]
          [] Policy = "plru"   -> [rp EXCEPT !.valid = valid,
                                             !.tree = PromoteTree(rp.tree, w)]

Insert(rp, w) ==
    LET valid == [rp.valid EXCEPT ![w] = TRUE]
    IN  CASE Policy = "fifo"   -> [rp EXCEPT !.valid = valid, !.queue = <<w>> \o rp.queue]
          [] Policy = "random" -> [rp EXCEPT !.valid = valid]
          [] Policy = "plru"   -> [rp EXCEPT !.valid = valid,
                                             !.tree = PromoteTree(rp.tree, w)]

(* retain(|&x| x != w): the entries of s other than w, in their order. *)
Without(s, w) ==
    LET kept == {i \in 1 .. Len(s) : s[i] # w}
        Nth(n) == CHOOSE i \in kept : Cardinality(kept \cap (1 .. i)) = n
    IN  [n \in 1 .. Cardinality(kept) |-> s[Nth(n)]]

Invalidate(rp, w) ==
    LET valid == [rp.valid EXCEPT ![w] = FALSE]
    IN  IF Policy = "fifo"
        THEN [rp EXCEPT !.valid = valid, !.queue = Without(rp.queue, w)]
        ELSE [rp EXCEPT !.valid = valid]

(* Defect: the random number may be the number of ways itself. *)
VictimsInclusive(rp) ==
    CASE Policy = "fifo"   -> {rp.queue[n] : n \in {Len(rp.queue)} \ {0}}
      [] Policy = "random" -> 0 .. NumWays
      [] Policy = "plru"   -> {w \in Ways : PointsAt(rp.tree, w)}

(* The ways evict may choose when every way is valid.  For FIFO the set is   *)
(* empty when the queue is: pop_back().unwrap() then panics.                 *)
Victims(rp) ==
    CASE Policy = "fifo"   -> {rp.queue[n] : n \in {Len(rp.queue)} \ {0}}
      [] Policy = "random" -> Ways
      [] Policy = "plru"   -> {w \in Ways : PointsAt(rp.tree, w)}

RemoveVictim(rp, w) ==
    LET valid == [rp.valid EXCEPT ![w] = FALSE]
    IN  IF Policy = "fifo"
        THEN [rp EXCEPT !.valid = valid,
                        !.queue = SubSeq(rp.queue, 1, Len(rp.queue) - 1)]
        ELSE [rp EXCEPT !.valid = valid]

(* evict: the possible pairs (full, way), each with the policy's new state.  *)
Evict(rp) ==
    IF \E w \in Ways : ~rp.valid[w]
    THEN {[full |-> FALSE, way |-> w, rp |-> rp] : w \in First({v \in Ways : ~rp.valid[v]})}
    ELSE {[full |-> TRUE, way |-> w, rp |-> RemoveVictim(rp, w)] : w \in Victims(rp)}
=============================================================================
