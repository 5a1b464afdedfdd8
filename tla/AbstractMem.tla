----------------------------- MODULE AbstractMem -----------------------------
(* What every memory device behind the trait AbstractMemoryInterface         *)
(* promises to one caller that has at most one request outstanding (the IF   *)
(* stage, the MEM stage, or the LowerMemoryTransaction of a cache above):    *)
(* a request that try_register_req accepts takes effect exactly once, on the *)
(* whole memory at one instant, between its registration and the moment the  *)
(* shared done cell turns true; a load's buffer then holds what was stored   *)
(* last in its bytes.  The promise says nothing of how long that takes.      *)
(*                                                                           *)
(* SimpleMem, SimpleDram and GeneralCache are each shown to implement this   *)
(* module, and GeneralCache uses it again for the device below it, so that a *)
(* stack of caches over a main memory keeps the promise level by level.      *)
EXTENDS Integers

CONSTANTS MemSize,  \* bytes behind the interface (MEM_SIZE, data.len())
          Val,      \* what a byte may hold
          Reqs      \* the requests the caller may make

VARIABLES mem,      \* contents, by byte address
          pending,  \* the accepted request that is not done yet, or NoReq
          phase,    \* "free", "accepted", "performed" (a store has taken
                    \* effect, done is still false) or "done"
          buf       \* the load buffer; <<>> until it is filled

vars == <<mem, pending, phase, buf>>

Addr == 0 .. (MemSize - 1)

NoReq == [op |-> "None"]

Phases == {"free", "accepted", "performed", "done"}

(* MemoryReqType::load and MemoryReqType::store. *)
Load(a, n) == [op |-> "Load", addr |-> a, len |-> n]

Store(a, n, d) == [op |-> "Store", addr |-> a, len |-> n, data |-> d]

Bytes(r) == r.addr .. (r.addr + r.len - 1)

InBounds(r) == r.addr + r.len <= MemSize

(* The bytes a load copies into its buffer, complete_from_slice. *)
Fetch(m, r) == [i \in 0 .. (r.len - 1) |-> m[r.addr + i]]

(* The memory after the request took effect. *)
Apply(m, r) ==
    IF r.op = "Store"
    THEN [a \in DOMAIN m |-> IF a \in Bytes(r) THEN r.data[a - r.addr] ELSE m[a]]
    ELSE m

Init ==
    /\ mem \in [Addr -> Val]
    /\ pending = NoReq
    /\ phase = "free"
    /\ buf = <<>>

(* The request r takes effect, and its done cell is set in the same call. *)
Finish(r) ==
    /\ mem' = Apply(mem, r)
    /\ buf' = IF r.op = "Load" THEN Fetch(mem, r) ELSE <<>>
    /\ pending' = NoReq
    /\ phase' = "done"

(* The store r takes effect while its done cell stays false. *)
TakeEffect(r) ==
    /\ r.op = "Store"
    /\ mem' = Apply(mem, r)
    /\ pending' = r
    /\ phase' = "performed"
    /\ buf' = <<>>

(* try_register_req returning Ok(()).  A device may keep the request for     *)
(* later ticks, let it take effect at once, or complete it at once.          *)
Register(r) ==
    /\ phase = "free"
    /\ InBounds(r)
    /\ \/ Finish(r)
       \/ TakeEffect(r)
       \/ /\ pending' = r
          /\ phase' = "accepted"
          /\ buf' = <<>>
          /\ UNCHANGED mem

Perform ==
    /\ phase = "accepted"
    /\ Finish(pending) \/ TakeEffect(pending)

(* The done cell of a store that took effect earlier is set. *)
Ack ==
    /\ phase = "performed"
    /\ pending' = NoReq
    /\ phase' = "done"
    /\ UNCHANGED <<mem, buf>>

(* The caller sees done, takes the buffer and drops its request. *)
Collect ==
    /\ phase = "done"
    /\ phase' = "free"
    /\ buf' = <<>>
    /\ UNCHANGED <<mem, pending>>

Next ==
    \/ \E r \in Reqs : Register(r)
    \/ Perform
    \/ Ack
    \/ Collect

Spec == Init /\ [][Next]_vars
=============================================================================
