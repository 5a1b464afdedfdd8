------------------------------ MODULE SimpleMem ------------------------------
(* The flat-latency main memory (simple_mem.rs): one request at a time, a    *)
(* countdown of Latency ticks, then the access.                              *)
EXTENDS Integers

CONSTANTS MemSize,      \* MEM_SIZE
          Val,          \* what a byte may hold
          Reqs,         \* requests the caller may make
          Latency,      \* MAIN_MEM_LATENCY
          MaxRequests   \* bound: requests of a behaviour

ASSUME SizeAssumption == MemSize \in Nat /\ Latency \in Nat /\ MaxRequests \in Nat

ASSUME RequestAssumption ==
    \A r \in Reqs :
        /\ r.op \in {"Load", "Store"}
        /\ r.addr \in Nat /\ r.len \in Nat \ {0}
        /\ r.op = "Store" => r.data \in [0 .. (r.len - 1) -> Val]

VARIABLES data, pending_req, stall_countdown, load_access_count, store_access_count,
          done, buf,     \* the caller's done cell and load buffer
          waited         \* ticks since the pending request was registered

vars == <<data, pending_req, stall_countdown, load_access_count, store_access_count,
          done, buf, waited>>

(* The caller sees this memory through the trait's promise. *)
Phase == CASE pending_req.op # "None" -> "accepted"
           [] pending_req.op = "None" -> IF done THEN "done" ELSE "free"

Mem == INSTANCE AbstractMem WITH mem <- data, pending <- pending_req, phase <- Phase

NoReq == Mem!NoReq

Init ==
    /\ data \in [Mem!Addr -> Val]
    /\ pending_req = NoReq
    /\ stall_countdown = Latency
    /\ load_access_count = 0
    /\ store_access_count = 0
    /\ done = FALSE
    /\ buf = <<>>
    /\ waited = 0

(* The assertion compares only the address with MEM_SIZE; a request that     *)
(* starts in bounds and ends past the end panics later, in tick.             *)
AddressAssertion(r) == r.addr < MemSize

Count(r) ==
    /\ load_access_count' = load_access_count + (IF r.op = "Load" THEN 1 ELSE 0)
    /\ store_access_count' = store_access_count + (IF r.op = "Store" THEN 1 ELSE 0)

(* Defect: the countdown of the request before is not reset. *)
TryRegisterReqKeepCountdown(r) ==
    /\ load_access_count + store_access_count < MaxRequests
    /\ AddressAssertion(r)
    /\ pending_req = NoReq /\ ~done
    /\ Count(r)
    /\ pending_req' = r
    /\ waited' = 0
    /\ UNCHANGED <<data, stall_countdown, done, buf>>

TryRegisterReq(r) ==
    /\ load_access_count + store_access_count < MaxRequests
    /\ AddressAssertion(r)
    /\ pending_req = NoReq /\ ~done
    /\ Count(r)
    /\ pending_req' = r
    /\ stall_countdown' = Latency
    /\ waited' = 0
    /\ UNCHANGED <<data, done, buf>>

(* Defect: the countdown has no guard. *)
TickCountNoGuard ==
    /\ pending_req # NoReq
    /\ stall_countdown' = stall_countdown - 1
    /\ waited' = waited + 1
    /\ UNCHANGED <<data, pending_req, load_access_count, store_access_count, done, buf>>

(* try_register_req answers Err(()) and changes nothing while a request is   *)
(* pending, so the caller that retries finds the memory unchanged.           *)
TickCount ==
    /\ pending_req # NoReq
    /\ stall_countdown > 0
    /\ stall_countdown' = stall_countdown - 1
    /\ waited' = waited + 1
    /\ UNCHANGED <<data, pending_req, load_access_count, store_access_count, done, buf>>

(* Defect: a store completes without its data. *)
TickFinishNoData ==
    /\ pending_req # NoReq
    /\ stall_countdown = 0
    /\ buf' = IF pending_req.op = "Load" THEN Mem!Fetch(data, pending_req) ELSE <<>>
    /\ pending_req' = NoReq
    /\ done' = TRUE
    /\ waited' = waited + 1
    /\ UNCHANGED <<data, stall_countdown, load_access_count, store_access_count>>

(* Defect: the done cell of a store is not set. *)
TickFinishSilentStore ==
    /\ pending_req # NoReq
    /\ stall_countdown = 0
    /\ data' = Mem!Apply(data, pending_req)
    /\ buf' = IF pending_req.op = "Load" THEN Mem!Fetch(data, pending_req) ELSE <<>>
    /\ pending_req' = NoReq
    /\ done' = (pending_req.op = "Load")
    /\ waited' = waited + 1
    /\ UNCHANGED <<stall_countdown, load_access_count, store_access_count>>

TickFinish ==
    /\ pending_req # NoReq
    /\ stall_countdown = 0
    /\ Mem!InBounds(pending_req)
    /\ data' = Mem!Apply(data, pending_req)
    /\ buf' = IF pending_req.op = "Load" THEN Mem!Fetch(data, pending_req) ELSE <<>>
    /\ pending_req' = NoReq
    /\ done' = TRUE
    /\ waited' = waited + 1
    /\ UNCHANGED <<stall_countdown, load_access_count, store_access_count>>

Tick == TickCount \/ TickFinish

CollectDone ==
    /\ done
    /\ done' = FALSE
    /\ buf' = <<>>
    /\ UNCHANGED <<data, pending_req, stall_countdown, load_access_count,
                   store_access_count, waited>>

Next ==
    \/ \E r \in Reqs : TryRegisterReq(r)
    \/ Tick
    \/ CollectDone

(* The run loop ticks the memory once in every cycle. *)
Spec == Init /\ [][Next]_vars /\ WF_vars(Tick)

-----------------------------------------------------------------------------
(* The memory keeps its types: stall_countdown, a usize, never runs below    *)
(* zero.                                                                     *)
TypeOK ==
    /\ data \in [Mem!Addr -> Val]
    /\ pending_req \in Reqs \cup {NoReq}
    /\ stall_countdown \in 0 .. Latency
    /\ load_access_count \in Nat /\ store_access_count \in Nat
    /\ done \in BOOLEAN
    /\ waited \in Nat

(* The memory keeps the promise of the trait: a request takes effect once,   *)
(* on the tick that sets its done cell.                                      *)
ImplementsMem == Mem!Spec

(* From its registration to its done cell every request takes the same time, *)
(* one tick more than MAIN_MEM_LATENCY: the tick that finds the countdown at *)
(* zero is the one that makes the access.                                    *)
FlatLatency ==
    [][pending_req # NoReq /\ pending_req' = NoReq => waited' = Latency + 1]_vars

(* The README and the documentation of SimpleDram say that a request takes   *)
(* MAIN_MEM_LATENCY cycles.                                                  *)
DocumentedLatency ==
    [][pending_req # NoReq /\ pending_req' = NoReq => waited' = Latency]_vars

-----------------------------------------------------------------------------
(* The inductive invariant behind FlatLatency and ImplementsMem: the ticks   *)
(* spent and the countdown add up to the latency, and the buffer is only     *)
(* filled while the done cell is set.                                        *)

CountdownInv == pending_req # NoReq => waited + stall_countdown = Latency

CellInv ==
    /\ pending_req # NoReq => ~done
    /\ ~done => buf = <<>>

MemInv ==
    /\ TypeOK
    /\ CountdownInv
    /\ CellInv

(* Requests that end within the memory: what the caller has to keep to, as   *)
(* AddressAssertion only looks at the first byte.                            *)
InBoundsRequests == \A r \in Reqs : Mem!InBounds(r)

-----------------------------------------------------------------------------
(* Every request that try_register_req accepted is done in the end. *)
Served == pending_req # NoReq ~> done
=============================================================================
