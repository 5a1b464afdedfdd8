--------------------------- MODULE SimpleMemProofs ---------------------------
(* The flat memory implements AbstractMem, and every request takes the same  *)
(* number of ticks, for every memory size, latency and set of requests.      *)
EXTENDS SimpleMem, TLAPS

(* A request is never mistaken for the absence of one. *)
LEMMA RequestIsSome ==
  ASSUME NEW r \in Reqs
  PROVE  r # NoReq /\ r.op \in {"Load", "Store"} /\ r.op # "None"
<1>1. r.op \in {"Load", "Store"}
  BY RequestAssumption
<1> QED  BY <1>1 DEF NoReq, Mem!NoReq

(* A store leaves the memory well formed. *)
LEMMA ApplyType ==
  ASSUME NEW m \in [Mem!Addr -> Val], NEW r \in Reqs
  PROVE  Mem!Apply(m, r) \in [Mem!Addr -> Val]
<1>1. CASE r.op = "Store"
  <2>1. r.addr \in Nat /\ r.len \in Nat \ {0} /\ r.data \in [0 .. (r.len - 1) -> Val]
    BY <1>1, RequestAssumption
  <2>2. ASSUME NEW a \in Mem!Addr, a \in Mem!Bytes(r)
        PROVE  r.data[a - r.addr] \in Val
    <3>1. a - r.addr \in 0 .. (r.len - 1)
      BY <2>1, <2>2, SizeAssumption DEF Mem!Addr, Mem!Bytes
    <3> QED  BY <2>1, <3>1
  <2> QED  BY <1>1, <2>2 DEF Mem!Apply
<1>2. CASE r.op # "Store"
  BY <1>2 DEF Mem!Apply
<1> QED  BY <1>1, <1>2

(* The phase that the caller sees, by the state of the memory. *)
LEMMA PhaseIs ==
  ASSUME MemInv
  PROVE  /\ pending_req # NoReq => Phase = "accepted"
         /\ pending_req = NoReq /\ done => Phase = "done"
         /\ pending_req = NoReq /\ ~done => Phase = "free"
<1>1. pending_req # NoReq => pending_req.op # "None"
  BY RequestIsSome DEF MemInv, TypeOK
<1>2. pending_req = NoReq => pending_req.op = "None"
  BY DEF NoReq, Mem!NoReq
<1> QED  BY <1>1, <1>2 DEF Phase

LEMMA MemInvInit ==
  ASSUME Init
  PROVE  MemInv
<1>1. TypeOK
  <2>1. stall_countdown \in 0 .. Latency /\ waited \in Nat
    BY SizeAssumption DEF Init
  <2>2. load_access_count \in Nat /\ store_access_count \in Nat
    BY DEF Init
  <2> QED  BY <2>1, <2>2 DEF Init, TypeOK
<1>2. CountdownInv /\ CellInv
  BY DEF Init, CountdownInv, CellInv
<1> QED  BY <1>1, <1>2 DEF MemInv

(* A request is registered with the whole latency before it. *)
LEMMA RegisterStep ==
  ASSUME MemInv, NEW r \in Reqs, TryRegisterReq(r)
  PROVE  MemInv' /\ ~(pending_req # NoReq /\ pending_req' = NoReq)
<1>1. TypeOK'
  BY SizeAssumption DEF MemInv, TypeOK, TryRegisterReq, Count
<1>2. CountdownInv'
  BY SizeAssumption DEF TryRegisterReq, CountdownInv
<1>3. CellInv'
  BY DEF MemInv, TryRegisterReq, CellInv
<1> QED  BY <1>1, <1>2, <1>3 DEF MemInv, TryRegisterReq

LEMMA TickCountStep ==
  ASSUME MemInv, TickCount
  PROVE  MemInv' /\ UNCHANGED pending_req
<1>1. TypeOK'
  BY SizeAssumption DEF MemInv, TypeOK, TickCount
<1>2. CountdownInv'
  BY SizeAssumption DEF MemInv, TypeOK, TickCount, CountdownInv
<1>3. CellInv'
  BY DEF MemInv, TickCount, CellInv
<1> QED  BY <1>1, <1>2, <1>3 DEF MemInv, TickCount

(* The tick that finds the countdown at zero is the one after the last of    *)
(* the latency.                                                              *)
LEMMA TickFinishStep ==
  ASSUME MemInv, TickFinish
  PROVE  MemInv' /\ waited' = Latency + 1
<1>1. pending_req \in Reqs /\ waited \in Nat /\ waited + stall_countdown = Latency
  BY DEF MemInv, TypeOK, TickFinish, CountdownInv
<1>2. data' \in [Mem!Addr -> Val]
  BY <1>1, ApplyType DEF MemInv, TypeOK, TickFinish
<1>3. TypeOK'
  BY <1>1, <1>2, SizeAssumption DEF MemInv, TypeOK, TickFinish
<1>4. CountdownInv' /\ CellInv'
  BY DEF TickFinish, CountdownInv, CellInv
<1>5. waited' = Latency + 1
  BY <1>1, SizeAssumption DEF TickFinish
<1> QED  BY <1>3, <1>4, <1>5 DEF MemInv

LEMMA MemInvNext ==
  ASSUME MemInv, [Next]_vars
  PROVE  /\ MemInv'
         /\ pending_req # NoReq /\ pending_req' = NoReq => waited' = Latency + 1
<1>1. ASSUME NEW r \in Reqs, TryRegisterReq(r)
      PROVE  /\ MemInv'
             /\ pending_req # NoReq /\ pending_req' = NoReq => waited' = Latency + 1
  BY <1>1, RegisterStep
<1>2. CASE Tick
  BY <1>2, TickCountStep, TickFinishStep DEF Tick
<1>3. CASE CollectDone \/ UNCHANGED vars
  <2>1. TypeOK'
    BY <1>3 DEF MemInv, TypeOK, CollectDone, vars
  <2>2. CountdownInv' /\ CellInv'
    BY <1>3 DEF MemInv, CountdownInv, CellInv, CollectDone, vars
  <2> QED  BY <1>3, <2>1, <2>2 DEF MemInv, CollectDone, vars
<1> QED  BY <1>1, <1>2, <1>3 DEF Next

(* The inductive invariant of the flat memory. *)
THEOREM MemInvariant == Spec => []MemInv
<1>1. Init => MemInv
  BY MemInvInit
<1>2. MemInv /\ [Next]_vars => MemInv'
  BY MemInvNext
<1> QED  BY <1>1, <1>2, PTL DEF Spec

(* Type correctness: stall_countdown, a usize, never runs below zero. *)
THEOREM MemTypes == Spec => []TypeOK
<1>1. MemInv => TypeOK
  BY DEF MemInv
<1> QED  BY <1>1, MemInvariant, PTL

(* Every request takes MAIN_MEM_LATENCY + 1 ticks, for every latency. *)
THEOREM MemLatencyFlat == Spec => FlatLatency
<1>1. MemInv /\ [Next]_vars =>
         [pending_req # NoReq /\ pending_req' = NoReq => waited' = Latency + 1]_vars
  BY MemInvNext
<1> QED  BY <1>1, MemInvariant, PTL DEF Spec, FlatLatency

-----------------------------------------------------------------------------
(* Every step is a step of AbstractMem, or none, for the caller. *)
LEMMA MemRefines ==
  ASSUME MemInv, MemInv', [Next]_vars, InBoundsRequests
  PROVE  [Mem!Next]_(Mem!vars)
<1>1. ASSUME NEW r \in Reqs, TryRegisterReq(r)
      PROVE  Mem!Register(r)
  <2>1. pending_req = NoReq /\ ~done /\ pending_req' = r /\ r # NoReq /\ UNCHANGED <<data, buf>>
    BY <1>1, RequestIsSome DEF TryRegisterReq
  <2>2. Phase = "free" /\ buf = <<>>
    BY <2>1, PhaseIs DEF MemInv, CellInv
  <2>3. Phase' = "accepted"
    <3>1. r.op # "None"
      BY RequestIsSome
    <3> QED  BY <2>1, <3>1 DEF Phase
  <2>4. Mem!InBounds(r)
    BY DEF InBoundsRequests
  <2> QED  BY <2>1, <2>2, <2>3, <2>4 DEF Mem!Register
<1>2. CASE TickCount
  BY <1>2 DEF TickCount, Mem!vars, Phase
<1>3. CASE TickFinish
  <2>1. Phase = "accepted"
    BY <1>3, PhaseIs DEF TickFinish
  <2>2. Phase' = "done"
    BY <1>3 DEF TickFinish, Phase, NoReq, Mem!NoReq
  <2>3. Mem!Finish(pending_req)
    BY <1>3, <2>2 DEF TickFinish, Mem!Finish, NoReq
  <2> QED  BY <2>1, <2>3 DEF Mem!Next, Mem!Perform
<1>4. CASE CollectDone
  <2>1. pending_req = NoReq /\ pending_req' = NoReq
    BY <1>4 DEF CollectDone, MemInv, CellInv
  <2>2. Phase = "done"
    BY <1>4, <2>1, PhaseIs DEF CollectDone
  <2>3. Phase' = "free"
    BY <1>4, <2>1 DEF CollectDone, Phase, NoReq, Mem!NoReq
  <2> QED  BY <1>4, <2>2, <2>3 DEF CollectDone, Mem!Next, Mem!Collect
<1>5. CASE UNCHANGED vars
  BY <1>5 DEF vars, Mem!vars, Phase
<1> QED  BY <1>1, <1>2, <1>3, <1>4, <1>5 DEF Next, Tick, Mem!Next

(* The flat memory implements AbstractMem: a request takes effect once, on   *)
(* the tick that sets its done cell, for a caller whose requests end within  *)
(* the memory.                                                               *)
THEOREM MemImplements ==
  ASSUME InBoundsRequests
  PROVE  Spec => ImplementsMem
<1>1. Init => Mem!Init
  BY DEF Init, Mem!Init, Phase, NoReq, Mem!NoReq
<1>2. MemInv /\ MemInv' /\ [Next]_vars => [Mem!Next]_(Mem!vars)
  BY MemRefines
<1> QED  BY <1>1, <1>2, MemInvariant, PTL DEF Spec, ImplementsMem, Mem!Spec
=============================================================================
