-------------------------- MODULE SimpleDramProofs --------------------------
(* The latency table of SimpleDram and its row-buffer counters are exact for *)
(* every timing, row size, memory size and sequence of requests.             *)
EXTENDS SimpleDram, TLAPS

(* A request is never mistaken for the absence of one. *)
LEMMA RequestIsSome ==
  ASSUME NEW r \in Reqs
  PROVE  r # NoReq /\ r.addr \in Nat /\ Row(r.addr) \in Nat /\ r.op \in {"Load", "Store"}
<1>1. r.addr \in Nat /\ r.op \in {"Load", "Store"}
  BY RequestAssumption
<1>2. r # NoReq
  BY <1>1 DEF NoReq, Mem!NoReq
<1>3. ASSUME NEW a \in Nat
      PROVE  a \div RowSize \in Nat
  BY SizeAssumption
<1> QED  BY <1>1, <1>2, <1>3 DEF Row

(* A store leaves the memory well formed. *)
LEMMA ApplyType ==
  ASSUME data \in [Mem!Addr -> Val], NEW r \in Reqs
  PROVE  Mem!Apply(data, r) \in [Mem!Addr -> Val]
<1>1. CASE r.op = "Store"
  <2>1. r.addr \in Nat /\ r.len \in Nat \ {0} /\ r.data \in [0 .. (r.len - 1) -> Val]
    BY <1>1, RequestAssumption
  <2>2. ASSUME NEW a \in Mem!Addr, a \in Mem!Bytes(r)
        PROVE  r.data[a - r.addr] \in Val
    <3>1. a - r.addr \in 0 .. (r.len - 1)
      BY <2>1, <2>2, SizeAssumption DEF Mem!Addr, Mem!Bytes
    <3> QED  BY <2>1, <3>1
  <2> QED  BY <1>1, <2>2 DEF Mem!Apply
<1>2. CASE r.op # "Store"
  BY <1>2 DEF Mem!Apply
<1> QED  BY <1>1, <1>2

LEMMA DramInvInit ==
  ASSUME Init
  PROVE  DramInv
<1>1. TypeOK
  BY DEF Init, TypeOK, IdleBank, Bank, Stable
<1>2. BankInv /\ PathInv /\ CasMatchesRequest
  BY DEF Init, BankInv, PathInv, CasMatchesRequest, IdleBank, Bank, Stable
<1>3. CountsExact
  BY DEF Init, CountsExact, Uncounted
<1> QED  BY <1>1, <1>2, <1>3 DEF DramInv

(* A request is put on the path that the open row decides. *)
LEMMA RegisterStep ==
  ASSUME DramInv, NEW r \in Reqs, TryRegisterReq(r)
  PROVE  DramInv' /\ ~(pending_req # NoReq /\ pending_req' = NoReq)
<1>1. /\ pending_req = NoReq /\ pending_req' = r /\ r # NoReq
      /\ Row(r.addr) \in Nat /\ r.op \in {"Load", "Store"}
      /\ pending_req_required_activate' = FALSE
      /\ path' = PathOf(r) /\ waited' = 0
      /\ UNCHANGED <<data, bank, row_buffer_hit_cnt, row_buffer_miss_cnt, done, buf>>
  BY RequestIsSome DEF TryRegisterReq
<1>2. TypeOK
  BY DEF DramInv
<1>3. bank.state \in {"Idle", "Active"}
  BY <1>1, <1>2 DEF DramInv, BankInv, TypeOK, Stable
<1>4. /\ bank.state = "Idle" => path' = "cold"
      /\ bank.state = "Active" /\ bank.row = Row(r.addr) => path' = "hit"
      /\ bank.state = "Active" /\ bank.row # Row(r.addr) => path' = "miss"
  BY <1>1, <1>3 DEF PathOf
<1>5. registered \in [hit : Nat, miss : Nat]
  BY <1>2 DEF TypeOK
<1>6. /\ path' = "hit" => registered'.hit = registered.hit + 1 /\ registered'.miss = registered.miss
      /\ path' # "hit" => registered'.hit = registered.hit /\ registered'.miss = registered.miss + 1
      /\ registered' \in [hit : Nat, miss : Nat]
  BY <1>5 DEF TryRegisterReq
<1>7. TypeOK'
  BY <1>1, <1>2, <1>3, <1>4, <1>6 DEF TypeOK
<1>8. BankInv' /\ CasMatchesRequest'
  BY <1>1, <1>3 DEF BankInv, CasMatchesRequest, Stable
<1>9. PathInv'
  <2>1. ToCome' \in Nat /\ ToCome' = Nominal'
    BY <1>1, <1>3, <1>4, TimingAssumption DEF ToCome, Nominal, OpenFor
  <2>2. waited' + ToCome' = Nominal'
    <3>1. \A n \in Nat : 0 + n = n
      OBVIOUS
    <3> QED  BY <1>1, <2>1, <3>1, Zenon
  <2>3. /\ path' = "hit" => OpenFor(pending_req)'
        /\ path' # "hit" => path' \in {"cold", "miss"} /\ ~OpenFor(pending_req)'
    BY <1>1, <1>3, <1>4 DEF OpenFor
  <2> QED  BY <1>1, <1>3, <2>2, <2>3 DEF PathInv
<1>10. CountsExact'
  <2>1. row_buffer_hit_cnt = registered.hit /\ row_buffer_miss_cnt = registered.miss
    BY <1>1, <1>2 DEF DramInv, CountsExact, Uncounted, TypeOK
  <2>2. ~Counted'
    BY <1>1, <1>3 DEF Counted
  <2> QED  BY <1>1, <1>3, <1>4, <1>5, <1>6, <2>1, <2>2 DEF CountsExact, Uncounted
<1> QED  BY <1>1, <1>7, <1>8, <1>9, <1>10 DEF DramInv

(* A tick that completes the request, and one that does not. *)
Finishing == ReadFinished(Issue(bank, pending_req)) \/ WriteFinished(Issue(bank, pending_req))

Progress ==
    /\ UNCHANGED <<data, buf, pending_req, done, path, registered>>
    /\ waited' = waited + 1
    /\ bank' = Advance(Issue(bank, pending_req))
    /\ pending_req_required_activate' = (pending_req_required_activate \/ bank.state = "Idle")
    /\ CountRow(bank.state)

(* What the invariant says while a request is pending. *)
LEMMA PendingFacts ==
  ASSUME DramInv, pending_req # NoReq
  PROVE  /\ pending_req \in Reqs /\ Row(pending_req.addr) \in Nat
         /\ pending_req.op \in {"Load", "Store"}
         /\ waited \in Nat /\ waited + ToCome = Nominal
         /\ bank.state \in {"Idle", "Active", "Activating", "Precharging", "Reading", "Writing"}
         /\ bank.row \in Nat /\ bank.remaining \in Nat
         /\ bank.state \notin Stable => bank.remaining # 0
         /\ bank.state \in {"Activating", "Reading", "Writing"} => bank.row = Row(pending_req.addr)
         /\ bank.state = "Writing" => pending_req.op = "Store"
         /\ bank.state = "Reading" => pending_req.op = "Load"
         /\ pending_req_required_activate \in BOOLEAN
         /\ path \in {"cold", "hit", "miss"}
         /\ row_buffer_hit_cnt \in Nat /\ row_buffer_miss_cnt \in Nat
<1>1. pending_req \in Reqs
  BY DEF DramInv, TypeOK
<1>2. /\ pending_req.op \in {"Load", "Store"} /\ Row(pending_req.addr) \in Nat
  BY <1>1, RequestIsSome
<1>3. /\ waited \in Nat /\ waited + ToCome = Nominal
      /\ path \in {"cold", "hit", "miss"}
      /\ pending_req_required_activate \in BOOLEAN
      /\ row_buffer_hit_cnt \in Nat /\ row_buffer_miss_cnt \in Nat
  BY DEF DramInv, TypeOK, PathInv
<1>4. /\ bank.state \in {"Idle", "Active", "Activating", "Precharging", "Reading", "Writing"}
      /\ bank.row \in Nat /\ bank.remaining \in Nat
  BY DEF DramInv, TypeOK, Stable
<1>5. /\ bank.state \notin Stable => bank.remaining # 0
      /\ bank.state = "Activating" => bank.row = Row(pending_req.addr)
  BY DEF DramInv, BankInv
<1>6. bank.state \in {"Reading", "Writing"} =>
         /\ bank.row = Row(pending_req.addr)
         /\ (bank.state = "Writing") <=> (pending_req.op = "Store")
  BY DEF DramInv, CasMatchesRequest
<1> QED  BY <1>1, <1>2, <1>3, <1>4, <1>5, <1>6

(* Two facts about the bank: what a cycle does to a command in progress, and *)
(* that a bank is its three fields.                                          *)
LEMMA AdvanceBusy ==
  ASSUME NEW state \in {"Activating", "Precharging", "Reading", "Writing"},
         NEW row, NEW n \in Nat \ {0}
  PROVE  Advance(Bank(state, row, n)) =
            IF n # 1 THEN Bank(state, row, n - 1)
            ELSE IF state = "Precharging" THEN IdleBank
            ELSE Bank("Active", row, 0)
  BY DEF Advance, Bank, Stable

LEMMA BankFields ==
  ASSUME TypeOK
  PROVE  bank = Bank(bank.state, bank.row, bank.remaining)
  BY DEF TypeOK, Bank

(* The parts of the invariant that a tick that does not complete the request *)
(* must establish, from the new state of the bank.                           *)
LEMMA ProgressInv ==
  ASSUME DramInv, pending_req # NoReq, Progress,
         NEW state \in {"Idle", "Active", "Activating", "Precharging", "Reading", "Writing"},
         NEW row \in Nat, NEW n \in Nat,
         bank' = Bank(state, row, n),
         state \notin Stable => n # 0,
         state = "Activating" => row = Row(pending_req.addr),
         state \in {"Reading", "Writing"} =>
            row = Row(pending_req.addr) /\ (state = "Writing" <=> pending_req.op = "Store"),
         ToCome' = ToCome - 1, ToCome \in Nat,
         path = "hit" =>
            /\ ~pending_req_required_activate'
            /\ OpenFor(pending_req)' \/ state \in {"Reading", "Writing"},
         path # "hit" =>
            (pending_req_required_activate' <=>
                OpenFor(pending_req)' \/ state \in {"Activating", "Reading", "Writing"}),
         CountsExact'
  PROVE  DramInv'
<1>1. /\ UNCHANGED <<data, buf, pending_req, done, path, registered>>
      /\ waited' = waited + 1
  BY DEF Progress
<1>2. bank'.state = state /\ bank'.row = row /\ bank'.remaining = n
  BY DEF Bank
<1>3. TypeOK'
  <2>1. /\ pending_req_required_activate' \in BOOLEAN
        /\ row_buffer_hit_cnt' \in Nat /\ row_buffer_miss_cnt' \in Nat
    BY PendingFacts DEF Progress, CountRow
  <2>2. bank' \in [state : Stable \cup {"Activating", "Precharging", "Reading", "Writing"},
                   row : Nat, remaining : Nat]
    BY DEF Bank, Stable
  <2>3. waited' \in Nat
    BY <1>1, PendingFacts
  <2> QED  BY <1>1, <2>1, <2>2, <2>3 DEF DramInv, TypeOK
<1>4. BankInv' /\ CasMatchesRequest'
  BY <1>1, <1>2 DEF BankInv, CasMatchesRequest
<1>5. PathInv'
  <2>1. Nominal' = Nominal /\ path' = path
    BY <1>1 DEF Nominal
  <2>2. waited' + ToCome' = Nominal'
    <3>1. waited \in Nat /\ waited + ToCome = Nominal
      BY PendingFacts
    <3>2. (waited + 1) + (ToCome - 1) = waited + ToCome
      BY <3>1
    <3> QED  BY <1>1, <2>1, <3>1, <3>2
  <2>3. path \in {"cold", "hit", "miss"}
    BY PendingFacts
  <2> QED  BY <1>2, <2>1, <2>2, <2>3 DEF PathInv
<1> QED  BY <1>3, <1>4, <1>5 DEF DramInv

(* The ticks to come after the bank moved to a known state. *)
LEMMA ToComeNext ==
  ASSUME NEW state, NEW row, NEW n, bank' = Bank(state, row, n), UNCHANGED pending_req
  PROVE  /\ OpenFor(pending_req)' <=> (state = "Active" /\ row = Row(pending_req.addr))
         /\ state = "Idle" => ToCome' = tRCD + tCL
         /\ state = "Active" /\ row = Row(pending_req.addr) => ToCome' = tCL
         /\ state = "Precharging" => ToCome' = n + tRCD + tCL
         /\ state = "Activating" => ToCome' = n + tCL
         /\ state \in {"Reading", "Writing"} => ToCome' = n
<1>1. bank'.state = state /\ bank'.row = row /\ bank'.remaining = n
  BY DEF Bank
<1> QED  BY <1>1 DEF ToCome, OpenFor

(* Cold, or just precharged: the row of the request is activated. *)
LEMMA ProgressIdle ==
  ASSUME DramInv, pending_req # NoReq, Progress, bank.state = "Idle"
  PROVE  DramInv'
<1> DEFINE row == Row(pending_req.addr)
<1>1. Issue(bank, pending_req) = Bank("Activating", row, tRCD)
  BY DEF Issue, Stable
<1>2. bank' = IF tRCD # 1 THEN Bank("Activating", row, tRCD - 1) ELSE Bank("Active", row, 0)
  BY <1>1, AdvanceBusy, TimingAssumption DEF Progress
<1>3. /\ UNCHANGED <<pending_req, path, registered, row_buffer_hit_cnt>>
      /\ row_buffer_miss_cnt' = row_buffer_miss_cnt + 1
      /\ pending_req_required_activate'
  <2>1. pending_req_required_activate'
    BY DEF Progress
  <2>2. /\ row_buffer_hit_cnt' = row_buffer_hit_cnt + 0
        /\ row_buffer_miss_cnt' = row_buffer_miss_cnt + 1
    BY DEF Progress, CountRow
  <2>3. row_buffer_hit_cnt' = row_buffer_hit_cnt
    BY <2>2, PendingFacts
  <2> QED  BY <2>1, <2>2, <2>3 DEF Progress
<1>4. path \in {"cold", "miss"} /\ ~pending_req_required_activate
  BY PendingFacts DEF DramInv, PathInv, OpenFor
<1>5. row \in Nat /\ ToCome = tRCD + tCL /\ ToCome \in Nat
  BY PendingFacts, TimingAssumption DEF ToCome
<1>6. CountsExact'
  <2>1. ~Counted /\ Counted'
    BY <1>3, <1>4 DEF Counted
  <2> QED  BY <1>3, <1>4, <2>1, PendingFacts DEF DramInv, CountsExact, Uncounted
<1> HIDE DEF row
<1>7. CASE tRCD # 1
  <2>1. bank' = Bank("Activating", row, tRCD - 1) /\ tRCD - 1 \in Nat \ {0}
    BY <1>2, <1>7, TimingAssumption
  <2>2. ToCome' = (tRCD - 1) + tCL
    BY <1>3, <2>1, ToComeNext
  <2>3. ToCome' = ToCome - 1
    BY <1>5, <2>2, TimingAssumption
  <2> QED  BY <1>3, <1>4, <1>5, <1>6, <2>1, <2>3, ProgressInv DEF row
<1>8. CASE tRCD = 1
  <2>1. bank' = Bank("Active", row, 0)
    BY <1>2, <1>8
  <2>2. ToCome' = tCL /\ OpenFor(pending_req)'
    BY <1>3, <2>1, ToComeNext DEF row
  <2>3. ToCome' = ToCome - 1
    BY <1>5, <1>8, <2>2, TimingAssumption
  <2> QED  BY <1>3, <1>4, <1>5, <1>6, <2>1, <2>2, <2>3, ProgressInv DEF Stable
<1> QED  BY <1>7, <1>8

(* Another row is open: it is precharged. *)
LEMMA ProgressConflict ==
  ASSUME DramInv, pending_req # NoReq, Progress,
         bank.state = "Active", bank.row # Row(pending_req.addr)
  PROVE  DramInv'
<1>1. Issue(bank, pending_req) = Bank("Precharging", 0, tRP)
  BY DEF Issue, Stable
<1>2. bank' = IF tRP # 1 THEN Bank("Precharging", 0, tRP - 1) ELSE Bank("Idle", 0, 0)
  BY <1>1, AdvanceBusy, TimingAssumption DEF Progress, IdleBank
<1>3. /\ UNCHANGED <<pending_req, path, registered>>
      /\ row_buffer_hit_cnt' = row_buffer_hit_cnt + 0
      /\ row_buffer_miss_cnt' = row_buffer_miss_cnt + 0
      /\ pending_req_required_activate' = pending_req_required_activate
  BY PendingFacts DEF Progress, CountRow
<1>4. path \in {"cold", "miss"} /\ ~pending_req_required_activate
  BY PendingFacts DEF DramInv, PathInv, OpenFor
<1>5. ToCome = tRP + tRCD + tCL /\ ToCome \in Nat
  BY TimingAssumption DEF ToCome, OpenFor
<1>6. CountsExact'
  <2>1. ~Counted /\ ~Counted'
    BY <1>2, <1>3, <1>4 DEF Counted, Bank
  <2> QED  BY <1>3, <1>4, <2>1, PendingFacts DEF DramInv, CountsExact, Uncounted
<1>7. CASE tRP # 1
  <2>1. bank' = Bank("Precharging", 0, tRP - 1) /\ tRP - 1 \in Nat \ {0}
    BY <1>2, <1>7, TimingAssumption
  <2>2. ToCome' = (tRP - 1) + tRCD + tCL /\ ~OpenFor(pending_req)'
    BY <1>3, <2>1, ToComeNext
  <2>3. ToCome' = ToCome - 1
    BY <1>5, <2>2, TimingAssumption
  <2> QED  BY <1>3, <1>4, <1>5, <1>6, <2>1, <2>2, <2>3, ProgressInv
<1>8. CASE tRP = 1
  <2>1. bank' = Bank("Idle", 0, 0)
    BY <1>2, <1>8
  <2>2. ToCome' = tRCD + tCL /\ ~OpenFor(pending_req)'
    BY <1>3, <2>1, ToComeNext
  <2>3. ToCome' = ToCome - 1
    BY <1>5, <1>8, <2>2, TimingAssumption
  <2> QED  BY <1>3, <1>4, <1>5, <1>6, <2>1, <2>2, <2>3, ProgressInv DEF Stable
<1> QED  BY <1>7, <1>8

(* The row is open, and its CAS takes more than one cycle. *)
LEMMA ProgressCas ==
  ASSUME DramInv, pending_req # NoReq, Progress, ~Finishing, OpenFor(pending_req)
  PROVE  DramInv'
<1> DEFINE row == Row(pending_req.addr)
           kind == IF pending_req.op = "Store" THEN "Writing" ELSE "Reading"
<1>1. Issue(bank, pending_req) = Bank(kind, row, tCL)
  BY DEF Issue, OpenFor, Stable
<1>2. tCL # 1
  BY <1>1 DEF Finishing, ReadFinished, WriteFinished, Bank
<1>3. bank' = Bank(kind, row, tCL - 1) /\ tCL - 1 \in Nat \ {0}
  BY <1>1, <1>2, AdvanceBusy, TimingAssumption DEF Progress
<1>4. /\ UNCHANGED <<pending_req, path, registered>>
      /\ row_buffer_hit_cnt' = row_buffer_hit_cnt
                                + (IF pending_req_required_activate THEN 0 ELSE 1)
      /\ row_buffer_miss_cnt' = row_buffer_miss_cnt + 0
      /\ pending_req_required_activate' = pending_req_required_activate
  BY PendingFacts DEF Progress, CountRow, OpenFor
<1>5. /\ path = "hit" => ~pending_req_required_activate
      /\ path # "hit" => pending_req_required_activate
  BY DEF DramInv, PathInv
<1>6. row \in Nat /\ ToCome = tCL /\ ToCome \in Nat /\ kind \in {"Reading", "Writing"}
  BY PendingFacts, TimingAssumption DEF ToCome, OpenFor
<1>7. CountsExact'
  <2>1. Counted'
    BY <1>3 DEF Counted, Bank
  <2>2. Counted <=> pending_req_required_activate
    BY DEF Counted, OpenFor
  <2> QED  BY <1>4, <1>5, <2>1, <2>2, PendingFacts DEF DramInv, CountsExact, Uncounted
<1>8. ToCome' = ToCome - 1
  <2>1. ToCome' = tCL - 1
    BY <1>3, <1>4, ToComeNext
  <2> QED  BY <1>6, <2>1
<1>9. kind = "Writing" <=> pending_req.op = "Store"
  OBVIOUS
<1> HIDE DEF kind, row
<1> QED  BY <1>3, <1>4, <1>5, <1>6, <1>7, <1>8, <1>9, ProgressInv DEF row

(* A command is in progress and does not complete the request. *)
LEMMA ProgressBusy ==
  ASSUME DramInv, pending_req # NoReq, Progress, ~Finishing, bank.state \notin Stable
  PROVE  DramInv'
<1> DEFINE row == bank.row
           n == bank.remaining
<1>1. /\ bank.state \in {"Activating", "Precharging", "Reading", "Writing"}
      /\ n \in Nat \ {0} /\ row \in Nat
      /\ bank = Bank(bank.state, row, n)
  BY PendingFacts, BankFields DEF Stable, DramInv
<1>2. Issue(bank, pending_req) = bank
  BY <1>1 DEF Issue, Stable
<1>3. bank' = IF n # 1 THEN Bank(bank.state, row, n - 1)
              ELSE IF bank.state = "Precharging" THEN IdleBank
              ELSE Bank("Active", row, 0)
  <2>1. bank' = Advance(bank)
    BY <1>2 DEF Progress
  <2> HIDE DEF row, n
  <2> QED  BY <1>1, <2>1, AdvanceBusy
<1>4. /\ UNCHANGED <<pending_req, path, registered>>
      /\ row_buffer_hit_cnt' = row_buffer_hit_cnt + 0
      /\ row_buffer_miss_cnt' = row_buffer_miss_cnt + 0
      /\ pending_req_required_activate' = pending_req_required_activate
  BY <1>1, PendingFacts DEF Progress, CountRow
<1>5. n = 1 => bank.state \in {"Activating", "Precharging"}
  BY <1>1, <1>2 DEF Finishing, ReadFinished, WriteFinished
<1>6. /\ path = "hit" => ~pending_req_required_activate /\ bank.state \in {"Reading", "Writing"}
      /\ path # "hit" =>
            (pending_req_required_activate <=> bank.state \in {"Activating", "Reading", "Writing"})
  BY <1>1 DEF DramInv, PathInv, OpenFor
<1>7. /\ bank.state \in {"Activating", "Reading", "Writing"} => row = Row(pending_req.addr)
      /\ bank.state = "Writing" => pending_req.op = "Store"
      /\ bank.state = "Reading" => pending_req.op = "Load"
      /\ path \in {"cold", "hit", "miss"} /\ pending_req_required_activate \in BOOLEAN
  BY PendingFacts
<1>8. /\ bank.state = "Precharging" => ToCome = n + tRCD + tCL
      /\ bank.state = "Activating" => ToCome = n + tCL
      /\ bank.state \in {"Reading", "Writing"} => ToCome = n
      /\ ToCome \in Nat
  BY <1>1, TimingAssumption DEF ToCome
<1> DEFINE state == bank.state
<1> HIDE DEF row, n
<1>9. CASE n # 1
  <2>1. bank' = Bank(state, row, n - 1) /\ n - 1 \in Nat \ {0}
    BY <1>1, <1>3, <1>9
  <2>2. CountsExact'
    <3>1. bank'.state = bank.state
      BY <2>1 DEF Bank
    <3>2. Counted' <=> Counted
      BY <1>4, <3>1 DEF Counted
    <3> QED  BY <1>4, <3>2, PendingFacts DEF DramInv, CountsExact, Uncounted
  <2> HIDE DEF state
  <2>3. ToCome' = ToCome - 1
    <3>1. /\ state = "Precharging" => ToCome' = (n - 1) + tRCD + tCL
          /\ state = "Activating" => ToCome' = (n - 1) + tCL
          /\ state \in {"Reading", "Writing"} => ToCome' = n - 1
      BY <1>4, <2>1, ToComeNext
    <3> QED  BY <1>1, <1>8, <3>1, TimingAssumption DEF state
  <2>4. ~OpenFor(pending_req)'
    BY <1>1, <1>4, <2>1, ToComeNext DEF state
  <2> QED  BY <1>1, <1>4, <1>6, <1>7, <1>8, <2>1, <2>2, <2>3, <2>4, ProgressInv DEF state
<1>10. CASE n = 1 /\ bank.state = "Precharging"
  <2>1. bank' = Bank("Idle", 0, 0)
    BY <1>3, <1>10 DEF IdleBank
  <2>2. CountsExact'
    <3>1. Counted' <=> Counted
      BY <1>4, <1>10, <2>1 DEF Counted, Bank
    <3> QED  BY <1>4, <3>1, PendingFacts DEF DramInv, CountsExact, Uncounted
  <2>3. ToCome' = tRCD + tCL /\ ~OpenFor(pending_req)'
    BY <1>4, <2>1, ToComeNext
  <2>4. ToCome' = ToCome - 1
    BY <1>8, <1>10, <2>3, TimingAssumption
  <2> QED  BY <1>4, <1>6, <1>8, <1>10, <2>1, <2>2, <2>3, <2>4, ProgressInv DEF Stable
<1>11. CASE n = 1 /\ bank.state = "Activating"
  <2>1. bank' = Bank("Active", row, 0) /\ row = Row(pending_req.addr)
    BY <1>3, <1>7, <1>11
  <2>2. CountsExact'
    <3>1. pending_req_required_activate
      BY <1>6, <1>11
    <3>2. Counted' <=> Counted
      BY <1>4, <3>1 DEF Counted
    <3> QED  BY <1>4, <3>2, PendingFacts DEF DramInv, CountsExact, Uncounted
  <2>3. ToCome' = tCL /\ OpenFor(pending_req)'
    BY <1>4, <2>1, ToComeNext
  <2>4. ToCome' = ToCome - 1
    BY <1>8, <1>11, <2>3, TimingAssumption
  <2> QED  BY <1>1, <1>4, <1>6, <1>8, <1>11, <2>1, <2>2, <2>3, <2>4, ProgressInv DEF Stable
<1> QED  BY <1>5, <1>9, <1>10, <1>11

(* The tick that completes the request is the last of its nominal latency,   *)
(* and leaves the row open.                                                  *)
LEMMA FinishStep ==
  ASSUME DramInv, pending_req # NoReq, Tick, Finishing
  PROVE  DramInv' /\ waited' = Nominal
<1> DEFINE row == Row(pending_req.addr)
<1>1. /\ CountRow(bank.state) /\ bank' = Advance(Issue(bank, pending_req))
      /\ waited' = waited + 1 /\ UNCHANGED registered
      /\ CompletePendingRead \/ CompletePendingWrite
  BY DEF Tick, Finishing
<1>2. /\ pending_req' = NoReq /\ pending_req_required_activate' = FALSE
      /\ done' = TRUE /\ path' = "none"
      /\ data' = data \/ data' = Mem!Apply(data, pending_req)
  BY <1>1 DEF CompletePendingRead, CompletePendingWrite, Release
<1>3. \E kind \in {"Reading", "Writing"} :
         /\ Issue(bank, pending_req) = Bank(kind, row, 1)
         /\ \/ OpenFor(pending_req) /\ ToCome = 1
            \/ bank.state \in {"Reading", "Writing"} /\ ToCome = 1
  <2>1. CASE bank.state \notin Stable
    <3>1. Issue(bank, pending_req) = bank
      BY <2>1, PendingFacts DEF Issue, Stable
    <3>2. bank.state \in {"Reading", "Writing"} /\ bank.remaining = 1
      BY <3>1 DEF Finishing, ReadFinished, WriteFinished
    <3>3. bank = Bank(bank.state, row, 1)
      BY <3>2, PendingFacts, BankFields DEF DramInv
    <3>4. ToCome = 1
      BY <3>2 DEF ToCome
    <3> QED  BY <3>1, <3>2, <3>3, <3>4
  <2>2. CASE OpenFor(pending_req)
    <3> DEFINE kind == IF pending_req.op = "Store" THEN "Writing" ELSE "Reading"
    <3>1. Issue(bank, pending_req) = Bank(kind, row, tCL)
      BY <2>2 DEF Issue, OpenFor, Stable
    <3>2. tCL = 1
      BY <3>1 DEF Finishing, ReadFinished, WriteFinished, Bank
    <3>3. ToCome = tCL
      BY <2>2 DEF ToCome, OpenFor
    <3> QED  BY <2>2, <3>1, <3>2, <3>3
  <2>3. CASE bank.state \in Stable /\ ~OpenFor(pending_req)
    <3>1. Issue(bank, pending_req).state \in {"Activating", "Precharging"}
      BY <2>3 DEF Issue, OpenFor, Stable, Bank
    <3> QED  BY <3>1 DEF Finishing, ReadFinished, WriteFinished
  <2> QED  BY <2>1, <2>2, <2>3
<1>4. row \in Nat /\ waited \in Nat /\ waited + ToCome = Nominal
  BY PendingFacts
<1>5. bank' = Bank("Active", row, 0)
  <2>1. PICK kind \in {"Reading", "Writing"} : Issue(bank, pending_req) = Bank(kind, row, 1)
    BY <1>3
  <2> HIDE DEF row
  <2> QED  BY <1>1, <2>1, AdvanceBusy
<1>6. waited' = Nominal
  BY <1>1, <1>3, <1>4
<1>7. bank'.state = "Active" /\ bank'.row = row /\ bank'.remaining = 0
  BY <1>5 DEF Bank
<1>8. TypeOK'
  <2>1. data' \in [Mem!Addr -> Val]
    BY <1>2, ApplyType, PendingFacts DEF DramInv, TypeOK
  <2>2. bank' \in [state : Stable \cup {"Activating", "Precharging", "Reading", "Writing"},
                   row : Nat, remaining : Nat]
    BY <1>4, <1>5 DEF Bank, Stable
  <2>3. row_buffer_hit_cnt' \in Nat /\ row_buffer_miss_cnt' \in Nat
    BY <1>1, PendingFacts DEF CountRow
  <2>4. waited' \in Nat /\ registered' \in [hit : Nat, miss : Nat]
    BY <1>1, <1>4 DEF DramInv, TypeOK
  <2> QED  BY <1>2, <2>1, <2>2, <2>3, <2>4 DEF TypeOK
<1>9. BankInv' /\ PathInv' /\ CasMatchesRequest'
  BY <1>2, <1>7 DEF BankInv, PathInv, CasMatchesRequest, Stable
<1>10. CountsExact'
  <2>1. Uncounted({"hit"})' = 0 /\ Uncounted({"cold", "miss"})' = 0
    BY <1>2 DEF Uncounted
  <2>2. bank.state # "Idle"
    BY <1>3 DEF OpenFor
  <2>3. row_buffer_miss_cnt' = row_buffer_miss_cnt + 0
    BY <1>1, <2>2 DEF CountRow
  <2>4. CASE OpenFor(pending_req)
    <3>1. /\ path = "hit" => ~pending_req_required_activate
          /\ path # "hit" => pending_req_required_activate
      BY <2>4 DEF DramInv, PathInv
    <3>2. Counted <=> pending_req_required_activate
      BY <2>4 DEF Counted, OpenFor
    <3>3. row_buffer_hit_cnt' = row_buffer_hit_cnt
                                + (IF pending_req_required_activate THEN 0 ELSE 1)
      BY <1>1, <2>4 DEF CountRow, OpenFor
    <3> QED  BY <1>1, <2>1, <2>3, <3>1, <3>2, <3>3, PendingFacts DEF DramInv, CountsExact, Uncounted
  <2>5. CASE bank.state \in {"Reading", "Writing"}
    <3>1. Counted
      BY <2>5 DEF Counted
    <3>2. row_buffer_hit_cnt' = row_buffer_hit_cnt + 0
      BY <1>1, <2>5 DEF CountRow
    <3> QED  BY <1>1, <2>1, <2>3, <3>1, <3>2, PendingFacts DEF DramInv, CountsExact, Uncounted
  <2> QED  BY <1>3, <2>4, <2>5
<1> QED  BY <1>6, <1>8, <1>9, <1>10 DEF DramInv

(* A tick of the pending request. *)
LEMMA TickStep ==
  ASSUME DramInv, Tick
  PROVE  /\ DramInv'
         /\ pending_req # NoReq /\ pending_req' = NoReq => waited' = Nominal
<1>1. pending_req # NoReq
  BY DEF Tick
<1>2. CASE Finishing
  BY <1>1, <1>2, FinishStep
<1>3. CASE ~Finishing
  <2>1. Progress
    BY <1>3 DEF Tick, Finishing, Progress
  <2>2. UNCHANGED pending_req
    BY <2>1 DEF Progress
  <2>3. bank.state \in {"Idle", "Active"} \/ bank.state \notin Stable
    BY DEF Stable
  <2> QED  BY <1>1, <1>3, <2>1, <2>2, <2>3, ProgressIdle, ProgressConflict, ProgressCas, ProgressBusy
           DEF OpenFor
<1> QED  BY <1>2, <1>3

LEMMA DramInvNext ==
  ASSUME DramInv, [Next]_vars
  PROVE  /\ DramInv'
         /\ pending_req # NoReq /\ pending_req' = NoReq => waited' = Nominal
<1>1. ASSUME NEW r \in Reqs, TryRegisterReq(r)
      PROVE  /\ DramInv'
             /\ pending_req # NoReq /\ pending_req' = NoReq => waited' = Nominal
  BY <1>1, RegisterStep
<1>2. CASE Tick
  BY <1>2, TickStep
<1>3. CASE CollectDone \/ UNCHANGED vars
  <2>1. /\ UNCHANGED <<data, bank, pending_req, pending_req_required_activate,
                       row_buffer_hit_cnt, row_buffer_miss_cnt, path, waited, registered>>
        /\ done' \in BOOLEAN
    BY <1>3 DEF CollectDone, vars, DramInv, TypeOK
  <2>2. TypeOK'
    BY <2>1 DEF DramInv, TypeOK
  <2>3. BankInv' /\ CasMatchesRequest'
    BY <2>1 DEF DramInv, BankInv, CasMatchesRequest
  <2>4. PathInv'
    BY <2>1 DEF DramInv, PathInv, ToCome, Nominal, OpenFor
  <2>5. CountsExact'
    BY <2>1 DEF DramInv, CountsExact, Uncounted, Counted
  <2> QED  BY <2>1, <2>2, <2>3, <2>4, <2>5 DEF DramInv
<1> QED  BY <1>1, <1>2, <1>3 DEF Next

(* The inductive invariant of the controller. *)
THEOREM DramInvariant == Spec => []DramInv
<1>1. Init => DramInv
  BY DramInvInit
<1>2. DramInv /\ [Next]_vars => DramInv'
  BY DramInvNext
<1> QED  BY <1>1, <1>2, PTL DEF Spec

(* Type correctness of the controller, its bank and its counters. *)
THEOREM DramTypes == Spec => []TypeOK
<1>1. DramInv => TypeOK
  BY DEF DramInv
<1> QED  BY <1>1, DramInvariant, PTL

(* Every request is counted once, on the path it is served on. *)
THEOREM DramCountsExact == Spec => []CountsExact
<1>1. DramInv => CountsExact
  BY DEF DramInv
<1> QED  BY <1>1, DramInvariant, PTL

(* A CAS in progress is for the pending request. *)
THEOREM DramCasMatches == Spec => []CasMatchesRequest
<1>1. DramInv => CasMatchesRequest
  BY DEF DramInv
<1> QED  BY <1>1, DramInvariant, PTL

(* The latency table of the documentation is exact, for every timing. *)
THEOREM DramLatencyExact == Spec => ExactLatency
<1>1. DramInv /\ [Next]_vars =>
         [pending_req # NoReq /\ pending_req' = NoReq => waited' = Nominal]_vars
  BY DramInvNext
<1> QED  BY <1>1, DramInvariant, PTL DEF Spec, ExactLatency

-----------------------------------------------------------------------------
LEMMA CellInvNext ==
  ASSUME CellInv, [Next]_vars
  PROVE  CellInv'
<1>1. ASSUME NEW r \in Reqs, TryRegisterReq(r)
      PROVE  CellInv'
  BY <1>1 DEF CellInv, TryRegisterReq
<1>2. CASE Tick
  BY <1>2 DEF CellInv, Tick, CompletePendingRead, CompletePendingWrite, Release
<1>3. CASE CollectDone \/ UNCHANGED vars
  BY <1>3 DEF CellInv, CollectDone, vars
<1> QED  BY <1>1, <1>2, <1>3 DEF Next

(* The CAS that ends in this tick has the direction of the request. *)
LEMMA FinishedKind ==
  ASSUME DramInv, pending_req # NoReq
  PROVE  /\ ReadFinished(Issue(bank, pending_req)) => pending_req.op = "Load"
         /\ WriteFinished(Issue(bank, pending_req)) => pending_req.op = "Store"
<1>1. pending_req.op \in {"Load", "Store"}
  BY RequestIsSome DEF DramInv, TypeOK
<1>2. CASE bank.state \in Stable
  <2>1. Issue(bank, pending_req) \in
          {Bank("Activating", Row(pending_req.addr), tRCD), Bank("Precharging", 0, tRP),
           Bank(IF pending_req.op = "Store" THEN "Writing" ELSE "Reading",
                Row(pending_req.addr), tCL)}
    BY <1>2 DEF Issue, Stable
  <2> QED  BY <1>1, <2>1 DEF ReadFinished, WriteFinished, Bank
<1>3. CASE bank.state \notin Stable
  <2>1. Issue(bank, pending_req) = bank
    BY <1>3 DEF Issue, Stable
  <2> QED  BY <1>1, <2>1 DEF ReadFinished, WriteFinished, DramInv, CasMatchesRequest
<1> QED  BY <1>2, <1>3

(* Every step is a step of AbstractMem, or none, for the caller. *)
LEMMA DramRefines ==
  ASSUME DramInv, CellInv, [Next]_vars
  PROVE  [Mem!Next]_(Mem!vars)
<1>1. ASSUME NEW r \in Reqs, TryRegisterReq(r)
      PROVE  Mem!Register(r)
  <2>1. /\ pending_req = NoReq /\ ~done /\ pending_req' = r /\ r.op # "None"
        /\ UNCHANGED <<data, buf>> /\ Mem!InBounds(r)
    BY <1>1, RequestIsSome DEF TryRegisterReq
  <2>2. Phase = "free" /\ buf = <<>>
    BY <2>1 DEF Phase, CellInv, NoReq, Mem!NoReq
  <2>3. Phase' = "accepted"
    BY <2>1 DEF Phase
  <2> QED  BY <2>1, <2>2, <2>3 DEF Mem!Register
<1>2. CASE Tick
  <2>1. pending_req # NoReq /\ pending_req \in Reqs /\ pending_req.op \in {"Load", "Store"}
    BY <1>2, RequestIsSome DEF Tick, DramInv, TypeOK
  <2>2. Phase = "accepted"
    BY <2>1 DEF Phase
  <2>3. CASE ReadFinished(Issue(bank, pending_req)) /\ CompletePendingRead
    <3>1. pending_req.op = "Load"
      BY <2>1, <2>3, FinishedKind
    <3>2. Phase' = "done"
      BY <2>3 DEF CompletePendingRead, Release, Phase, NoReq, Mem!NoReq
    <3>3. Mem!Finish(pending_req)
      BY <2>3, <3>1, <3>2 DEF CompletePendingRead, Release, Mem!Finish, Mem!Apply, NoReq
    <3> QED  BY <2>2, <3>3 DEF Mem!Next, Mem!Perform
  <2>4. CASE WriteFinished(Issue(bank, pending_req)) /\ CompletePendingWrite
    <3>1. pending_req.op = "Store"
      BY <2>1, <2>4, FinishedKind
    <3>2. Phase' = "done"
      BY <2>4 DEF CompletePendingWrite, Release, Phase, NoReq, Mem!NoReq
    <3>3. Mem!Finish(pending_req)
      BY <2>4, <3>1, <3>2 DEF CompletePendingWrite, Release, Mem!Finish, NoReq
    <3> QED  BY <2>2, <3>3 DEF Mem!Next, Mem!Perform
  <2>5. CASE UNCHANGED <<data, buf, pending_req, done, path>>
    BY <2>5 DEF Mem!vars, Phase
  <2> QED  BY <1>2, <2>3, <2>4, <2>5 DEF Tick
<1>3. CASE CollectDone
  <2>1. pending_req = NoReq /\ pending_req' = NoReq
    BY <1>3 DEF CollectDone, CellInv
  <2>2. Phase = "done" /\ Phase' = "free"
    BY <1>3, <2>1 DEF CollectDone, Phase, NoReq, Mem!NoReq
  <2> QED  BY <1>3, <2>2 DEF CollectDone, Mem!Next, Mem!Collect
<1>4. CASE UNCHANGED vars
  BY <1>4 DEF vars, Mem!vars, Phase
<1> QED  BY <1>1, <1>2, <1>3, <1>4 DEF Next, Mem!Next

(* The controller implements AbstractMem: a request takes effect once, in    *)
(* the tick that ends its CAS and sets its done cell, whatever the timing    *)
(* and the row that was open.                                                *)
THEOREM DramImplements == Spec => ImplementsMem
<1>1. Init => Mem!Init
  BY DEF Init, Mem!Init, Phase, NoReq, Mem!NoReq
<1>2. Init => CellInv
  BY DEF Init, CellInv
<1>3. CellInv /\ [Next]_vars => CellInv'
  BY CellInvNext
<1>4. DramInv /\ CellInv /\ [Next]_vars => [Mem!Next]_(Mem!vars)
  BY DramRefines
<1> QED  BY <1>1, <1>2, <1>3, <1>4, DramInvariant, PTL DEF Spec, ImplementsMem, Mem!Spec
=============================================================================
