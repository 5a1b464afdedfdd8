----------------------------- MODULE SimpleDram -----------------------------
(* The single-bank DRAM controller (simple_dram/mod.rs, bank.rs, timing.rs). *)
(* path and waited are history variables: which of the three latency paths   *)
(* of the module documentation the pending request is on, decided when it is *)
(* registered, and the ticks it has spent.                                   *)
EXTENDS Integers

CONSTANTS MemSize, Val, Reqs,
          RowSize,            \* row_size_bytes
          tRCD, tCL, tRP,     \* DramTiming
          MaxRequests         \* bound: requests of a behaviour

ASSUME TimingAssumption ==   \* DramTiming::assert_valid
    tRCD \in Nat \ {0} /\ tCL \in Nat \ {0} /\ tRP \in Nat \ {0}

ASSUME SizeAssumption == MemSize \in Nat /\ RowSize \in Nat \ {0} /\ MaxRequests \in Nat

ASSUME RequestAssumption ==
    \A r \in Reqs :
        /\ r.op \in {"Load", "Store"}
        /\ r.addr \in Nat /\ r.len \in Nat \ {0}
        /\ r.op = "Store" => r.data \in [0 .. (r.len - 1) -> Val]

VARIABLES data, bank, pending_req, pending_req_required_activate,
          row_buffer_hit_cnt, row_buffer_miss_cnt,
          done, buf,                  \* the caller's done cell and load buffer
          path, waited, registered    \* history

vars == <<data, bank, pending_req, pending_req_required_activate, row_buffer_hit_cnt,
          row_buffer_miss_cnt, done, buf, path, waited, registered>>

Phase == CASE pending_req.op # "None" -> "accepted"
           [] pending_req.op = "None" -> IF done THEN "done" ELSE "free"

Mem == INSTANCE AbstractMem WITH mem <- data, pending <- pending_req, phase <- Phase

NoReq == Mem!NoReq

-----------------------------------------------------------------------------
(* The bank.  row is 0 where the variant has none, remaining is 0 in the two *)
(* stable states.                                                            *)

Bank(state, row, remaining) == [state |-> state, row |-> row, remaining |-> remaining]

IdleBank == Bank("Idle", 0, 0)

Stable == {"Idle", "Active"}

(* Defect: no trigger cycle, the countdown goes on below zero. *)
AdvanceNoTrigger(b) ==
    IF b.state \in Stable THEN b ELSE [b EXCEPT !.remaining = b.remaining - 1]

(* advance_one_cycle: the next state of the bank. *)
Advance(b) ==
    CASE b.state \in Stable -> b
      [] b.state \notin Stable /\ b.remaining # 1 ->
            [b EXCEPT !.remaining = b.remaining - 1]
      [] b.state = "Precharging" /\ b.remaining = 1 -> IdleBank
      [] b.state \in {"Activating", "Reading", "Writing"} /\ b.remaining = 1 ->
            Bank("Active", b.row, 0)

ReadFinished(b) == b.state = "Reading" /\ b.remaining = 1

WriteFinished(b) == b.state = "Writing" /\ b.remaining = 1

Row(a) == a \div RowSize

(* Defect: a precharge that forgets the bank is still busy with it. *)
IssueNoPrecharge(b, r) ==
    CASE b.state = "Idle" -> Bank("Activating", Row(r.addr), tRCD)
      [] b.state = "Active" /\ b.row = Row(r.addr) ->
            Bank(IF r.op = "Store" THEN "Writing" ELSE "Reading", Row(r.addr), tCL)
      [] b.state = "Active" /\ b.row # Row(r.addr) ->
            Bank("Activating", Row(r.addr), tRCD)
      [] b.state \notin Stable -> b

(* Defect: stores are issued as reads. *)
IssueAlwaysRead(b, r) ==
    CASE b.state = "Idle" -> Bank("Activating", Row(r.addr), tRCD)
      [] b.state = "Active" /\ b.row = Row(r.addr) -> Bank("Reading", Row(r.addr), tCL)
      [] b.state = "Active" /\ b.row # Row(r.addr) -> Bank("Precharging", 0, tRP)
      [] b.state \notin Stable -> b

(* Phase 1 of tick: the command for the pending request, if the bank can     *)
(* take one.                                                                 *)
Issue(b, r) ==
    CASE b.state = "Idle" -> Bank("Activating", Row(r.addr), tRCD)
      [] b.state = "Active" /\ b.row = Row(r.addr) ->
            Bank(IF r.op = "Store" THEN "Writing" ELSE "Reading", Row(r.addr), tCL)
      [] b.state = "Active" /\ b.row # Row(r.addr) -> Bank("Precharging", 0, tRP)
      [] b.state \notin Stable -> b

-----------------------------------------------------------------------------
Init ==
    /\ data \in [Mem!Addr -> Val]
    /\ bank = IdleBank
    /\ pending_req = NoReq
    /\ pending_req_required_activate = FALSE
    /\ row_buffer_hit_cnt = 0
    /\ row_buffer_miss_cnt = 0
    /\ done = FALSE
    /\ buf = <<>>
    /\ path = "none" /\ waited = 0 /\ registered = [hit |-> 0, miss |-> 0]

PathOf(r) ==
    CASE bank.state = "Active" /\ bank.row = Row(r.addr) -> "hit"
      [] bank.state = "Active" /\ bank.row # Row(r.addr) -> "miss"
      [] bank.state # "Active" -> "cold"

TryRegisterReq(r) ==
    /\ registered.hit + registered.miss < MaxRequests
    /\ Mem!InBounds(r)
    /\ pending_req = NoReq /\ ~done
    /\ pending_req' = r
    /\ pending_req_required_activate' = FALSE
    /\ path' = PathOf(r)
    /\ waited' = 0
    /\ registered' = IF path' = "hit"
                     THEN [registered EXCEPT !.hit = registered.hit + 1]
                     ELSE [registered EXCEPT !.miss = registered.miss + 1]
    /\ UNCHANGED <<data, bank, row_buffer_hit_cnt, row_buffer_miss_cnt, done, buf>>

(* Defect: the row is counted as a hit although this request opened it. *)
CountEveryCas(issuing) ==
    /\ row_buffer_miss_cnt' = row_buffer_miss_cnt + (IF issuing = "Idle" THEN 1 ELSE 0)
    /\ row_buffer_hit_cnt' = row_buffer_hit_cnt +
         (IF issuing = "Active" /\ bank.row = Row(pending_req.addr) THEN 1 ELSE 0)

(* The counters of phase 1, by the state in which the bank is found. *)
CountRow(issuing) ==
    /\ row_buffer_miss_cnt' = row_buffer_miss_cnt + (IF issuing = "Idle" THEN 1 ELSE 0)
    /\ row_buffer_hit_cnt' = row_buffer_hit_cnt +
         (IF /\ issuing = "Active" /\ bank.row = Row(pending_req.addr)
             /\ ~pending_req_required_activate
          THEN 1 ELSE 0)

(* What complete_pending_read and complete_pending_write have in common: the *)
(* request is taken, and its done cell is set.                               *)
Release ==
    /\ pending_req' = NoReq
    /\ pending_req_required_activate' = FALSE
    /\ done' = TRUE
    /\ path' = "none"

(* Defect: the read is taken but its done cell is left alone. *)
CompletePendingReadSilent ==
    /\ buf' = Mem!Fetch(data, pending_req)
    /\ pending_req' = NoReq
    /\ pending_req_required_activate' = FALSE
    /\ path' = "none"
    /\ UNCHANGED <<data, done>>

CompletePendingRead ==
    /\ buf' = Mem!Fetch(data, pending_req)
    /\ UNCHANGED data
    /\ Release

(* Defect: the data of the store is not copied. *)
CompletePendingWriteNoData ==
    /\ buf' = <<>>
    /\ UNCHANGED data
    /\ Release

CompletePendingWrite ==
    /\ data' = Mem!Apply(data, pending_req)
    /\ buf' = <<>>
    /\ Release

(* One tick with a request pending: decide, then advance.  Without one the   *)
(* bank is in a stable state and a tick changes nothing.                     *)
Tick ==
    LET issued == Issue(bank, pending_req)
    IN  /\ pending_req # NoReq
        /\ CountRow(bank.state)
        /\ bank' = Advance(issued)
        /\ waited' = waited + 1
        /\ \/ ReadFinished(issued) /\ CompletePendingRead
           \/ WriteFinished(issued) /\ CompletePendingWrite
           \/ /\ ~ReadFinished(issued) /\ ~WriteFinished(issued)
              /\ pending_req_required_activate' =
                   (pending_req_required_activate \/ bank.state = "Idle")
              /\ UNCHANGED <<data, buf, pending_req, done, path>>
        /\ UNCHANGED registered

CollectDone ==
    /\ done
    /\ done' = FALSE
    /\ buf' = <<>>
    /\ UNCHANGED <<data, bank, pending_req, pending_req_required_activate,
                   row_buffer_hit_cnt, row_buffer_miss_cnt, path, waited, registered>>

Next ==
    \/ \E r \in Reqs : TryRegisterReq(r)
    \/ Tick
    \/ CollectDone

Spec == Init /\ [][Next]_vars /\ WF_vars(Tick)

-----------------------------------------------------------------------------
(* The controller, its bank and the history variables keep their types: no   *)
(* countdown of advance_one_cycle runs below zero.                           *)
TypeOK ==
    /\ data \in [Mem!Addr -> Val]
    /\ bank \in [state : Stable \cup {"Activating", "Precharging", "Reading", "Writing"},
                 row : Nat, remaining : Nat]
    /\ pending_req \in Reqs \cup {NoReq}
    /\ pending_req_required_activate \in BOOLEAN
    /\ row_buffer_hit_cnt \in Nat /\ row_buffer_miss_cnt \in Nat
    /\ done \in BOOLEAN
    /\ path \in {"none", "cold", "hit", "miss"}
    /\ waited \in Nat
    /\ registered \in [hit : Nat, miss : Nat]

(* The controller keeps the promise of the trait: a request takes effect     *)
(* once, at the end of its CAS, with its done cell set in the same tick.     *)
ImplementsMem == Mem!Spec

(* The latency table of the module documentation. *)
Nominal ==
    CASE path = "cold" -> tRCD + tCL
      [] path = "hit"  -> tCL
      [] path = "miss" -> tRP + tRCD + tCL
      [] path = "none" -> 0

(* Every request is done after exactly the cycles of its path, whatever the  *)
(* requests before it left in the row buffer.                                *)
ExactLatency ==
    [][pending_req # NoReq /\ pending_req' = NoReq => waited' = Nominal]_vars

(* The pending request has been counted: as a miss when its row was          *)
(* activated, as a hit when its CAS was issued.                              *)
Counted == pending_req_required_activate \/ bank.state \in {"Reading", "Writing"}

Uncounted(kinds) == IF pending_req # NoReq /\ path \in kinds /\ ~Counted THEN 1 ELSE 0

(* The counters classify every request once, by the path it is served on: an *)
(* activated request is not counted again as a hit when its own CAS finds    *)
(* the row open.                                                             *)
CountsExact ==
    /\ row_buffer_hit_cnt + Uncounted({"hit"}) = registered.hit
    /\ row_buffer_miss_cnt + Uncounted({"cold", "miss"}) = registered.miss

(* A CAS in progress is for the pending request: its row is the request's    *)
(* and its direction is the request's, so the expect calls of the completion *)
(* functions cannot fail and data never moves in the wrong direction.        *)
CasMatchesRequest ==
    bank.state \in {"Reading", "Writing"} =>
        /\ pending_req # NoReq
        /\ bank.row = Row(pending_req.addr)
        /\ (bank.state = "Writing") <=> (pending_req.op = "Store")

-----------------------------------------------------------------------------
(* The inductive invariant behind ExactLatency and CountsExact: the ticks    *)
(* spent and the ticks to come add up to the nominal latency in every state, *)
(* and the flag says whether this request has opened its row.                *)

OpenFor(r) == bank.state = "Active" /\ bank.row = Row(r.addr)

ToCome ==
    CASE bank.state = "Idle" -> tRCD + tCL
      [] bank.state = "Active" /\ OpenFor(pending_req) -> tCL
      [] bank.state = "Active" /\ ~OpenFor(pending_req) -> tRP + tRCD + tCL
      [] bank.state = "Precharging" -> bank.remaining + tRCD + tCL
      [] bank.state = "Activating" -> bank.remaining + tCL
      [] bank.state \in {"Reading", "Writing"} -> bank.remaining

BankInv ==
    /\ bank.state \notin Stable => bank.remaining \in Nat \ {0} /\ pending_req # NoReq
    /\ bank.state = "Activating" => bank.row = Row(pending_req.addr)

PathInv ==
    pending_req # NoReq =>
        /\ waited + ToCome = Nominal
        /\ path = "hit" =>
             /\ ~pending_req_required_activate
             /\ OpenFor(pending_req) \/ bank.state \in {"Reading", "Writing"}
        /\ path # "hit" =>
             /\ path \in {"cold", "miss"}
             /\ pending_req_required_activate <=>
                  OpenFor(pending_req) \/ bank.state \in {"Activating", "Reading", "Writing"}

DramInv ==
    /\ TypeOK
    /\ BankInv
    /\ PathInv
    /\ CasMatchesRequest
    /\ CountsExact

(* The request and the done cell are never both there, and the buffer is     *)
(* only filled while the done cell is set.                                   *)
CellInv ==
    /\ pending_req # NoReq => ~done
    /\ ~done => buf = <<>>

-----------------------------------------------------------------------------
(* Every request that try_register_req accepted is done in the end, whatever *)
(* row is open.                                                              *)
Served == pending_req # NoReq ~> done
=============================================================================
