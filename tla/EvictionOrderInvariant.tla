----------------------- MODULE EvictionOrderInvariant -----------------------
(* The inductive invariant behind the properties of EvictionOrder. *)
EXTENDS EvictionOrder

(* The sequence s has every member of V once; q is s from back to front; s is*)
(* what t ends with.                                                         *)
Lists(s, V) ==
    /\ {s[n] : n \in 1 .. Len(s)} = V
    /\ \A m, n \in 1 .. Len(s) : s[m] = s[n] => m = n

Mirrors(q, s) ==
    /\ Len(q) = Len(s)
    /\ \A n \in 1 .. Len(s) : q[n] = s[Len(s) + 1 - n]

Ends(s, t) ==
    /\ Len(s) <= Len(t)
    /\ \A n \in 1 .. Len(s) : s[n] = t[Len(t) - Len(s) + n]

-----------------------------------------------------------------------------
(* order lists the valid ways, whatever the policy, and FIFO's queue is that *)
(* list, youngest first.                                                     *)
OrderInv ==
    /\ Lists(order, Valid)
    /\ policy = "fifo" => Mirrors(rp.queue, order)

(* There are victims to remember only while the set is full. *)
StreakInv ==
    /\ Len(streak) <= NumWays
    /\ streak # <<>> => Valid = Ways

(* The last victims of FIFO are the youngest ways, in the same order. *)
FifoTurnInv == policy = "fifo" => Ends(streak, order)

-----------------------------------------------------------------------------
(* The number of levels of the pseudo-LRU tree above its leaves, and the     *)
(* ancestor of way w that lies k levels up.                                  *)
Height == CHOOSE k \in 0 .. NumWays : NumWays = 2^k

Up(w, k) == (w + NumWays) \div (2^k)

(* The bit of a node points away from the way of s that went through it last.*)
PointsAway(tree, s) ==
    \A i \in 1 .. Len(s), k \in 1 .. Height :
        (\A j \in (i + 1) .. Len(s) : Up(s[j], k) # Up(s[i], k))
        => (tree[Up(s[i], k) - 1] <=> Up(s[i], k - 1) % 2 = 1)

(* The ways of s go through the nodes that are d levels below the root in    *)
(* turn, through the same one every 2^d times.                               *)
Alternates(s) ==
    \A d \in 0 .. Height : \A i, j \in 1 .. Len(s) :
        i <= j => (Up(s[i], Height - d) = Up(s[j], Height - d) <=> (j - i) % (2^d) = 0)

(* So it is with the last victims of pseudo-LRU. *)
BitsInv == policy = "plru" => PointsAway(rp.tree, streak)

PlruTurnInv == policy = "plru" => Alternates(streak)

IndInv ==
    /\ TypeOK
    /\ OrderInv
    /\ StreakInv
    /\ FifoTurnInv
    /\ PlruSparesNewest
    /\ BitsInv
    /\ PlruTurnInv
=============================================================================
