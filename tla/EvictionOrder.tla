---------------------------- MODULE EvictionOrder ----------------------------
(* The replacement policy of one cache set, driven by every sequence of      *)
(* calls the trait allows: a miss that fills the victim (tag_compare, then   *)
(* insert_block), an access to a valid way (read_block, write_block), a miss *)
(* that asks for a victim and does not fill it (a store that is written      *)
(* around), and invalidate, which the trait offers and nothing calls yet.    *)
EXTENDS Integers, Sequences, FiniteSets

CONSTANTS NumWays, Policies

ASSUME EvictionAssumption ==
    /\ NumWays \in Nat \ {0}
    /\ Policies \subseteq {"fifo", "random", "plru"}
    /\ "plru" \in Policies => \E k \in 0 .. NumWays : NumWays = 2^k

(* Laws of exponentiation, which the provers lack. *)
ASSUME PowerAssumption ==
    \A k \in 0 .. NumWays : 2^k \in Nat \ {0} /\ 2^(k + 1) = 2 * 2^k

VARIABLES policy,    \* the policy of the set, chosen once
          rp,        \* its state
          order,     \* history: the valid ways, oldest insertion first
          newest,    \* history: the way accessed or filled last, or -1
          streak     \* history: the victims, at most NumWays of them, since
                     \* the last event that is not a fill of a full set

vars == <<policy, rp, order, newest, streak>>

P(p) == INSTANCE ReplacementPolicy WITH Policy <- p

Ways == 0 .. (NumWays - 1)

Valid == {w \in Ways : rp.valid[w]}

Init ==
    /\ policy \in Policies
    /\ rp = P(policy)!NewRP
    /\ order = <<>>
    /\ newest = -1
    /\ streak = <<>>

(* The last NumWays victims, after w was one more. *)
Extend(w) == Append(IF Len(streak) < NumWays THEN streak ELSE Tail(streak), w)

(* A miss: evict, then insert into the way that evict named. *)
Fill ==
    \E e \in P(policy)!Evict(rp) :
        /\ rp' = P(policy)!Insert(e.rp, e.way)
        /\ order' = Append(P(policy)!Without(order, e.way), e.way)
        /\ newest' = e.way
        /\ streak' = IF e.full THEN Extend(e.way) ELSE <<>>
        /\ UNCHANGED policy

Touch(w) ==
    /\ w \in Valid
    /\ rp' = P(policy)!Promote(rp, w)
    /\ newest' = w
    /\ streak' = <<>>
    /\ UNCHANGED <<policy, order>>

(* A store miss under no-write-allocate. *)
EvictOnly ==
    \E e \in P(policy)!Evict(rp) :
        /\ rp' = e.rp
        /\ order' = P(policy)!Without(order, e.way)
        /\ streak' = <<>>
        /\ UNCHANGED <<policy, newest>>

InvalidateWay(w) ==
    /\ rp' = P(policy)!Invalidate(rp, w)
    /\ order' = P(policy)!Without(order, w)
    /\ streak' = <<>>
    /\ UNCHANGED <<policy, newest>>

Next ==
    \/ Fill
    \/ EvictOnly
    \/ \E w \in Ways : Touch(w) \/ InvalidateWay(w)

Spec == Init /\ [][Next]_vars

-----------------------------------------------------------------------------
(* The state of the policy keeps its type: evict never names a way the set   *)
(* does not have.                                                            *)
TypeOK ==
    /\ policy \in Policies
    /\ rp \in P(policy)!RPStates
    /\ order \in Seq(Ways)
    /\ newest \in Ways \cup {-1}
    /\ streak \in Seq(Ways)

(* FIFO's queue lists the valid ways, each once, youngest first, after any   *)
(* mix of fills, evictions without a fill and invalidations, so pop_back     *)
(* finds an entry whenever every way is valid and names the oldest one.      *)
FifoQueueIsOrder ==
    policy = "fifo" =>
        /\ Len(rp.queue) = Len(order)
        /\ \A n \in 1 .. Len(order) : rp.queue[n] = order[Len(order) + 1 - n]
        /\ {order[n] : n \in 1 .. Len(order)} = Valid
        /\ Len(order) = Cardinality(Valid)

(* Pseudo-LRU never names the way that was accessed or filled last, unless   *)
(* there is no other.                                                        *)
PlruSparesNewest ==
    policy = "plru" /\ NumWays > 1 /\ newest \in Ways =>
        newest \notin P(policy)!Victims(rp)

(* The walk of evict from the root, step by step, in heap indices from zero. *)
Walk(tree) ==
    LET step[n \in 0 .. (2 * NumWays)] ==
          IF n >= NumWays - 1 THEN n - (NumWays - 1)
          ELSE IF tree[n] THEN step[2 * n + 1] ELSE step[2 * n + 2]
    IN  step[0]

(* The leaf that the walk of evict reaches is the only way that every bit on *)
(* its path points at, for every state of the tree.                          *)
PlruWalk == policy = "plru" => P(policy)!Victims(rp) = {Walk(rp.tree)}

(* While a full set only sees misses, any NumWays consecutive victims of     *)
(* FIFO and of pseudo-LRU are all different, whatever happened before: no    *)
(* way is replaced again before every other way was.                         *)
EveryWayInTurn ==
    policy # "random" =>
        \A m, n \in 1 .. Len(streak) : streak[m] = streak[n] => m = n

(* evict always names a way, so a fill or a bypassing store never finds the  *)
(* policy without an answer.                                                 *)
AlwaysAVictim == P(policy)!Evict(rp) # {}
=============================================================================
