------------------------ MODULE TargetDiscoveryProofs ------------------------
(***************************************************************************)
(* Target discovery for every set of accounts, pages and connections: what  *)
(* a person is shown is what the discovery found, what is confirmed is what *)
(* was shown, and nothing changes it under a running execution.             *)
(***************************************************************************)
EXTENDS TargetDiscovery, SequenceTheorems, FiniteSetTheorems, WellFoundedInduction, TLAPS

Kinds == {"discovery", "execution"}
AttemptStatuses == Active \cup Ended \cup {"awaiting_human"}
TaskStatuses == {"draft", "awaiting_platform_login", "awaiting_human", "awaiting_confirmation",
                 "discovering_targets", "queued", "running", "failed"}
Tasks == [status : TaskStatuses, revision : Nat, current : Nat]
Dispositions == {"blacklisted", "duplicate_in_task", "duplicate_in_history", "eligible"}
Outcomes == {"completed", "login_required", "handoff_required", "failed"}
Results == [outcome : Outcomes, items : Seq(Accounts)]

(* The rows the executor wrote for an attempt with a result.                 *)
Written == {a \in 1..MaxAttempts : found[a] # None}
AcceptRow(a) == [type |-> "accept", attempt |-> a]
BatchRow(a, result, n) ==
    [type |-> "batch", attempt |-> a, index |-> n, count |-> BatchCount(result),
     items |-> Batch(result, n)]
CompletedRow(a, result) ==
    [type |-> "completed", attempt |-> a, outcome |-> result.outcome,
     count |-> BatchCount(result), total |-> Len(result.items)]
RowSet(a, result) ==
    {AcceptRow(a), CompletedRow(a, result)}
        \cup {BatchRow(a, result, n) : n \in 1..BatchCount(result)}
Rows == UNION {RowSet(a, found[a]) : a \in Written}

(* A result is recorded for an attempt of the task, and only a completed one *)
(* has candidates.                                                           *)
FoundOK ==
    /\ found \in [1..MaxAttempts -> Results \cup {None}]
    /\ Written \subseteq DOMAIN attempts
    /\ \A a \in Written : found[a].outcome = "completed" <=> found[a].items # <<>>

TaskTypeOK ==
    /\ task \in Tasks
    /\ task.current \in {0} \cup DOMAIN attempts
    /\ attempts \in Seq([kind : Kinds, status : AttemptStatuses])
    /\ Len(attempts) <= MaxAttempts

(* Only the current attempt may be open, and the task says what kind it is.   *)
OpenOK ==
    /\ \A a \in DOMAIN attempts : attempts[a].status \notin Ended =>
          /\ a = task.current
          /\ task.status \in IF attempts[a].kind = "execution"
                               THEN {"running", "awaiting_human"} ELSE {"discovering_targets"}
    /\ task.status = "running" =>
          task.current # 0 /\ attempts[task.current].kind = "execution"

(* Every frame on its way is a row the executor wrote with its result.       *)
Works == [frame : Rows, step : {"authorized", "taken", "converged"}, items : Seq(Accounts)]
WireOK ==
    /\ outbox \in Seq(Rows)
    /\ link = None \/ link \in Seq(Rows)
    /\ connection \in 0..MaxConnections
    /\ handler \in [1..MaxConnections -> Works \cup {None}]

(* A handler holds a frame of its kind, and a completion with the candidates *)
(* that were found.                                                          *)
HandlerOK ==
    \A c \in 1..MaxConnections : handler[c] # None =>
        LET frame == handler[c].frame IN
        /\ handler[c].step = "authorized" => frame.type = "batch"
        /\ handler[c].step \in {"taken", "converged"} => frame.type = "completed"
        /\ handler[c].step = "taken" /\ frame.outcome = "completed" =>
              handler[c].items = found[frame.attempt].items

(* What is accumulated of an attempt is a beginning of its batches.          *)
AccumulatorOK ==
    /\ DOMAIN accumulator \subseteq Written
    /\ \A a \in DOMAIN accumulator : \E k \in 1..BatchCount(found[a]) :
          accumulator[a] = [n \in 1..k |-> BatchRow(a, found[a], n)]

(* The persisted targets are those of the attempt that is their page.        *)
TargetsOK ==
    /\ targets \in Seq([account : Accounts, disposition : Dispositions])
    /\ page \in {0} \cup Written
    /\ TargetsAreFound

(* A view of the task as it still is has seen just what is selected of the   *)
(* targets it has read.                                                      *)
ViewOK ==
    view # None =>
        /\ DOMAIN view = {"step", "row", "upto", "page", "more", "selected"}
        /\ view.row.revision \in Nat /\ view.row.revision <= task.revision
        /\ view.row.revision = task.revision =>
              /\ view.upto \in 0..Len(targets)
              /\ view.selected = SelectedAmong(1..view.upto)
              /\ view.step = "page" /\ ~view.more => view.upto = Len(targets)

(* A request that can still be current was sent by someone who saw just what *)
(* is selected.                                                              *)
RequestsOK ==
    \A r \in requests :
        /\ r.expected \in Nat /\ r.expected <= task.revision
        /\ r.expected = task.revision => r.seen = Selected

RunInv == TaskTypeOK /\ FoundOK /\ OpenOK
FrameInv == WireOK /\ HandlerOK /\ AccumulatorOK
ReadInv == TargetsOK /\ ViewOK /\ RequestsOK /\ ConfirmedIsSeen
IInv == RunInv /\ FrameInv /\ ReadInv

-----------------------------------------------------------------------------
(* The result of a discovery *)

(* A set of naturals that is not empty has a least element.                  *)
LEMMA Least ==
  ASSUME NEW S \in SUBSET Nat, S # {}
  PROVE  \E m \in S : \A k \in S : m <= k
<1>1. PICK m \in S : \A k \in S : <<k, m>> \notin OpToRel(<, Nat)
  BY WFMin, NatLessThanWellFounded
<1>2. ASSUME NEW k \in S
      PROVE  m <= k
  <2>1. <<k, m>> \in Nat \X Nat /\ <<k, m>>[1] = k /\ <<k, m>>[2] = m
    OBVIOUS
  <2>2. ~(k < m)
    BY <1>1, <2>1 DEF OpToRel
  <2> QED
    BY <2>2
<1> QED
  BY <1>2

(* A function of the first naturals is a sequence of that length.            *)
LEMMA Numbered ==
  ASSUME NEW X, NEW k \in Nat, NEW f \in [1..k -> X]
  PROVE  f \in Seq(X) /\ Len(f) = k
OBVIOUS

(* How many batches a result has, and where each of them ends.               *)
LEMMA Batches ==
  ASSUME NEW result \in Results
  PROVE  /\ BatchCount(result) \in Nat
         /\ \A n \in 1..BatchCount(result) : (n - 1) * BatchSize < Len(result.items)
         /\ Len(result.items) <= BatchCount(result) * BatchSize
         /\ result.items # <<>> => BatchCount(result) > 0
<1> DEFINE len == Len(result.items)
           k == BatchCount(result)
<1>1. len \in Nat /\ BatchSize \in Nat \ {0} /\ (result.items # <<>> => len > 0)
  BY DiscoveryAssumption DEF Results
<1>2. k = (len + BatchSize - 1) \div BatchSize
  BY DEF BatchCount
<1> HIDE DEF len, k
<1>3. \A x \in Nat, b \in Nat \ {0} :
        /\ x \div b \in Nat
        /\ b * (x \div b) <= x /\ x < b * (x \div b) + b
  OBVIOUS
<1>4. len + BatchSize - 1 \in Nat
  BY <1>1
<1>5. k \in Nat /\ BatchSize * k <= len + BatchSize - 1 /\ len + BatchSize - 1 < BatchSize * k + BatchSize
  BY <1>1, <1>2, <1>3, <1>4
<1>6. k * BatchSize = BatchSize * k
  BY <1>1, <1>5
<1>7. len <= k * BatchSize
  BY <1>1, <1>5, <1>6
<1>8. len > 0 => k > 0
  BY <1>1, <1>5, <1>6
<1>9. ASSUME NEW n \in 1..k
      PROVE  (n - 1) * BatchSize < len
  <2>1. n - 1 \in Nat /\ n - 1 <= k - 1
    BY <1>5
  <2>2. (n - 1) * BatchSize <= (k - 1) * BatchSize
    BY <1>1, <1>5, <2>1
  <2>3. (k - 1) * BatchSize = k * BatchSize - BatchSize
    BY <1>1, <1>5
  <2> QED
    BY <1>1, <1>5, <1>6, <2>1, <2>2, <2>3
<1> QED
  BY <1>1, <1>5, <1>7, <1>8, <1>9 DEF k, len

(* Put together again, the batches of a result are its candidates.           *)
LEMMA Rejoined ==
  ASSUME NEW result \in Results, result.items # <<>>,
         NEW seqs, seqs = [n \in 1..BatchCount(result) |-> Batch(result, n)]
  PROVE  FlattenSeq(seqs) = result.items
<1>a. PICK k, s : k = BatchCount(result) /\ s = result.items
  OBVIOUS
<1> DEFINE Upto(n) == IF n * BatchSize < Len(s) THEN n * BatchSize ELSE Len(s)
           Joined(f) == [i \in 1..Len(seqs) |-> IF i = 1 THEN seqs[i] ELSE f[i - 1] \o seqs[i]]
           F == [i \in 1..k |-> SubSeq(s, 1, Upto(i))]
<1>1. /\ s \in Seq(Accounts) /\ Len(s) \in Nat /\ Len(s) > 0
      /\ BatchSize \in Nat \ {0}
      /\ k \in Nat /\ k > 0 /\ Len(s) <= k * BatchSize
      /\ \A n \in 1..k : (n - 1) * BatchSize < Len(s)
  BY <1>a, Batches, DiscoveryAssumption DEF Results
<1>2. /\ DOMAIN seqs = 1..k /\ Len(seqs) = k
      /\ \A n \in 1..k : seqs[n] = SubSeq(s, (n - 1) * BatchSize + 1, Upto(n))
  <2>1. seqs = [n \in 1..k |-> Batch(result, n)]
    BY <1>a
  <2>2. DOMAIN seqs = 1..k /\ \A n \in 1..k : seqs[n] = Batch(result, n)
    BY <2>1
  <2>3. k \in Nat /\ seqs \in [1..k -> {Batch(result, n) : n \in 1..k}]
    BY <1>1, <2>1
  <2>4. Len(seqs) = k
    BY <2>3, Numbered
  <2> QED
    BY <1>a, <2>2, <2>4 DEF Batch
<1>3. \A n \in 1..k : n * BatchSize \in Nat /\ (n - 1) * BatchSize \in Nat /\ Upto(n) \in 1..Len(s)
  BY <1>1
<1>4. Upto(k) = Len(s)
  BY <1>1, <1>3
<1>5. F[k] = s
  BY <1>1, <1>4, SubSeqFull
<1>6. \A i \in 1..k : i # 1 => Upto(i - 1) = (i - 1) * BatchSize
  BY <1>1
<1>7. \A i \in 1..k : F[i] = IF i = 1 THEN seqs[i] ELSE F[i - 1] \o seqs[i]
  <2> SUFFICES ASSUME NEW i \in 1..k
               PROVE  F[i] = IF i = 1 THEN seqs[i] ELSE F[i - 1] \o seqs[i]
    OBVIOUS
  <2>1. CASE i = 1
    <3>1. (i - 1) * BatchSize + 1 = 1
      BY <1>1, <2>1
    <3> QED
      BY <1>2, <2>1, <3>1
  <2>2. CASE i # 1
    <3> DEFINE m == (i - 1) * BatchSize
    <3>1. F[i - 1] = SubSeq(s, 1, m)
      <4>1. i - 1 \in 1..k
        BY <1>1, <2>2
      <4>2. F[i - 1] = SubSeq(s, 1, Upto(i - 1))
        BY <4>1
      <4> QED
        BY <1>6, <2>2, <4>2
    <3>2. seqs[i] = SubSeq(s, m + 1, Upto(i))
      BY <1>2
    <3>3. m \in Nat /\ m < Len(s) /\ m <= Upto(i) /\ m >= 0
      <4>1. m <= i * BatchSize
        BY <1>1
      <4> QED
        BY <1>1, <1>3, <4>1
    <3> HIDE DEF m
    <3>4. SubSeq(s, 1, m) \o SubSeq(s, m + 1, Upto(i)) = SubSeq(s, 1, Upto(i))
      <4>1. 1 \in 1..Len(s) + 1 /\ m \in 1 - 1..Len(s) /\ Upto(i) \in m..Len(s)
        BY <1>1, <1>3, <3>3
      <4> QED
        BY <1>1, <4>1, ConcatAdjacentSubSeq
    <3> QED
      BY <2>2, <3>1, <3>2, <3>4
  <2> QED
    BY <2>1, <2>2
<1>8. F = Joined(F)
  BY <1>2, <1>7
<1> HIDE DEF F
<1> DEFINE G == CHOOSE f : f = Joined(f)
<1>9. G = Joined(G)
  BY <1>8
<1>10. FlattenSeq(seqs) = G[k]
  <2>1. Len(seqs) # 0
    <3>1. k # 0
      BY <1>1
    <3>2. Len(seqs) = k
      BY <1>2
    <3> QED
      BY <3>1, <3>2
  <2>2. FlattenSeq(seqs) = G[Len(seqs)]
    BY <2>1, Zenon DEF FlattenSeq
  <2> QED
    BY <1>2, <2>2
<1> HIDE DEF G
<1>11. \A i \in 1..k : G[i] = IF i = 1 THEN seqs[i] ELSE G[i - 1] \o seqs[i]
  BY <1>2, <1>9
<1>12. \A i \in 1..k : G[i] = F[i]
  <2> DEFINE D == {i \in 1..k : G[i] # F[i]}
  <2> SUFFICES ASSUME D # {} PROVE FALSE
    OBVIOUS
  <2>1. PICK m \in D : \A i \in D : m <= i
    <3>1. D \in SUBSET Nat
      BY <1>1
    <3> HIDE DEF D
    <3> QED
      BY <3>1, Least
  <2>2. CASE m = 1
    BY <1>7, <1>11, <2>1, <2>2
  <2>3. CASE m # 1
    <3>1. m \in 1..k /\ m - 1 \in 1..k /\ m - 1 \notin D
      BY <1>1, <2>1, <2>3
    <3>2. G[m - 1] = F[m - 1]
      BY <3>1
    <3>3. G[m] = G[m - 1] \o seqs[m]
      BY <1>11, <2>3, <3>1
    <3>4. F[m] = F[m - 1] \o seqs[m]
      BY <1>7, <2>3, <3>1
    <3>5. G[m] = F[m]
      BY <3>2, <3>3, <3>4
    <3> QED
      BY <2>1, <3>5
  <2> QED
    BY <2>2, <2>3
<1> QED
  BY <1>a, <1>1, <1>5, <1>10, <1>12

(* The candidates of a page are accounts.                                    *)
LEMMA Extracted ==
  ASSUME NEW rows \in Seq(SUBSET Accounts), NEW items \in Extract(rows)
  PROVE  items \in Seq(Accounts)
<1>1. Kept(rows) \subseteq 1..Len(rows) /\ \A i \in Kept(rows) : CandidateOf(rows[i]) # None
  <2>1. DOMAIN rows = 1..Len(rows)
    OBVIOUS
  <2> QED
    BY <2>1 DEF Kept
<1>2. \A i \in Kept(rows) : CandidateOf(rows[i]) \in Accounts
  <2> SUFFICES ASSUME NEW i \in Kept(rows)
               PROVE  CandidateOf(rows[i]) \in Accounts
    OBVIOUS
  <2>1. rows[i] \in SUBSET Accounts
    <3>1. i \in 1..Len(rows)
      BY <1>1
    <3> QED
      BY <3>1
  <2>2. Cardinality(rows[i]) = 1 /\ CandidateOf(rows[i]) = CHOOSE a \in rows[i] : TRUE
    BY <1>1 DEF CandidateOf
  <2>3. ASSUME NEW S, Cardinality(S) = 1
        PROVE  S # {}
    <3>1. Cardinality({}) = 0
      BY FS_EmptySet
    <3>2. 0 # 1
      OBVIOUS
    <3> QED
      BY <2>3, <3>1, <3>2, Zenon
  <2>4. rows[i] # {}
    BY <2>2, <2>3
  <2>5. (CHOOSE a \in rows[i] : TRUE) \in rows[i]
    BY <2>4
  <2> QED
    BY <2>1, <2>2, <2>5
<1>3. PICK k \in Nat : k = Cardinality(Kept(rows))
  <2>1. Len(rows) \in Nat
    OBVIOUS
  <2>2. IsFiniteSet(1..Len(rows))
    BY <2>1, FS_Interval
  <2>3. IsFiniteSet(Kept(rows))
    BY <1>1, <2>2, FS_Subset
  <2> QED
    BY <2>3, FS_CardinalityType
<1>4. PICK p \in [1..k -> Kept(rows)] : items = [n \in DOMAIN p |-> CandidateOf(rows[p[n]])]
  BY <1>3 DEF Extract
<1>5. items \in [1..k -> Accounts]
  <2>1. DOMAIN p = 1..k /\ \A n \in 1..k : p[n] \in Kept(rows)
    OBVIOUS
  <2> QED
    BY <1>2, <1>4, <2>1
<1> QED
  BY <1>5, Numbered

(* Only a completed discovery has candidates.                                *)
LEMMA ReportTyped ==
  ASSUME NEW search \in SearchFailures \cup {"results_ready"}, NEW items \in Seq(Accounts)
  PROVE  /\ Discovered(search, items) \in Results
         /\ Discovered(search, items).outcome = "completed"
              <=> Discovered(search, items).items # <<>>
<1>1. <<>> \in Seq(Accounts)
  OBVIOUS
<1>2. CASE search = "results_ready"
  <2>1. Discovered(search, items)
          = [outcome |-> IF items = <<>> THEN "failed" ELSE "completed", items |-> items]
    BY <1>2 DEF Discovered
  <2> QED
    BY <2>1 DEF Results, Outcomes
<1>3. CASE search = "not_logged_in"
  <2>1. Discovered(search, items) = [outcome |-> "login_required", items |-> <<>>]
    BY <1>3 DEF Discovered
  <2> QED
    BY <1>1, <2>1 DEF Results, Outcomes
<1>4. CASE search = "page_version_unknown"
  <2>1. Discovered(search, items) = [outcome |-> "handoff_required", items |-> <<>>]
    BY <1>4 DEF Discovered
  <2> QED
    BY <1>1, <2>1 DEF Results, Outcomes
<1>5. CASE search = "unavailable"
  <2>1. Discovered(search, items) = [outcome |-> "failed", items |-> <<>>]
    BY <1>5 DEF Discovered
  <2> QED
    BY <1>1, <2>1 DEF Results, Outcomes
<1> QED
  BY <1>2, <1>3, <1>4, <1>5 DEF SearchFailures

(* The rows written for an attempt.                                          *)
LEMMA RowsTyped ==
  ASSUME NEW a, NEW result \in Results
  PROVE  RowsOf(a, result) \in Seq(RowSet(a, result))
<1> DEFINE batches == [n \in 1..BatchCount(result) |->
              [type |-> "batch", attempt |-> a, index |-> n, count |-> BatchCount(result),
               items |-> Batch(result, n)]]
           R == RowSet(a, result)
<1>1. BatchCount(result) \in Nat
  BY Batches
<1>2. batches \in [1..BatchCount(result) -> R]
  BY DEF RowSet, BatchRow
<1>3. AcceptRow(a) \in R /\ CompletedRow(a, result) \in R
  BY DEF RowSet
<1>4. RowsOf(a, result) = <<AcceptRow(a)>> \o batches \o <<CompletedRow(a, result)>>
  BY DEF RowsOf, AcceptRow, CompletedRow
<1> HIDE DEF batches, R
<1>5. batches \in Seq(R)
  BY <1>1, <1>2, Numbered
<1>6. <<AcceptRow(a)>> \in Seq(R) /\ <<CompletedRow(a, result)>> \in Seq(R)
  BY <1>3
<1>7. <<AcceptRow(a)>> \o batches \in Seq(R)
  BY <1>5, <1>6, ConcatProperties
<1>8. RowsOf(a, result) \in Seq(R)
  BY <1>4, <1>6, <1>7, ConcatProperties
<1> QED
  BY <1>8 DEF R

(* A row tells which attempt it is of and what was found.                    *)
LEMMA RowOf ==
  ASSUME NEW row \in Rows
  PROVE  /\ row.attempt \in Written
         /\ row \in RowSet(row.attempt, found[row.attempt])
         /\ row.type = "accept" => row = AcceptRow(row.attempt)
         /\ row.type = "completed" => row = CompletedRow(row.attempt, found[row.attempt])
         /\ row.type = "batch" =>
              \E n \in 1..BatchCount(found[row.attempt]) :
                row = BatchRow(row.attempt, found[row.attempt], n)
<1>1. PICK a \in Written : row \in RowSet(a, found[a])
  BY DEF Rows
<1>2. CASE row = AcceptRow(a)
  <2>1. row.attempt = a /\ row.type = "accept"
    BY <1>2 DEF AcceptRow
  <2> QED
    BY <1>1, <1>2, <2>1
<1>3. CASE row = CompletedRow(a, found[a])
  <2>1. row.attempt = a /\ row.type = "completed"
    BY <1>3 DEF CompletedRow
  <2> QED
    BY <1>1, <1>3, <2>1
<1>4. ASSUME NEW n \in 1..BatchCount(found[a]), row = BatchRow(a, found[a], n)
      PROVE  row.attempt = a /\ row.type = "batch"
  BY <1>4 DEF BatchRow
<1> QED
  BY <1>1, <1>2, <1>3, <1>4 DEF RowSet

-----------------------------------------------------------------------------
(* What a step that leaves a part alone keeps *)

(* The rows depend on the discovery results only.                            *)
LEMMA SameRows ==
  ASSUME found' = found
  PROVE  Written' = Written /\ Rows' = Rows /\ Works' = Works
BY DEF Written, Rows, Works

(* Attempts and results that stay.                                           *)
LEMMA RunStays ==
  ASSUME RunInv, UNCHANGED <<task, attempts, found>>
  PROVE  RunInv'
BY SameRows DEF RunInv, TaskTypeOK, FoundOK, OpenOK

(* Connections and results that stay.                                        *)
LEMMA FrameStays ==
  ASSUME FrameInv, UNCHANGED <<wire, executor>>
  PROVE  FrameInv'
<1>1. UNCHANGED <<accumulator, handler, link, connection, found, outbox>>
  BY DEF wire, executor
<1> QED
  BY <1>1, SameRows DEF FrameInv, WireOK, HandlerOK, AccumulatorOK

(* Targets, readers and requests that stay.                                  *)
LEMMA ReadStays ==
  ASSUME ReadInv,
         UNCHANGED <<task, targets, page, excluded, confirmation, found, view, requests>>
  PROVE  ReadInv'
<1>1. TargetsOK'
  BY SameRows DEF ReadInv, TargetsOK, TargetsAreFound, PersistedItems
<1>2. Selected' = Selected /\ \A o : SelectedAmong(o)' = SelectedAmong(o)
  BY DEF Selected, SelectedAmong, Id
<1>3. ViewOK'
  <2>1. \A upto : SelectedAmong(1..upto)' = SelectedAmong(1..upto)
    BY DEF SelectedAmong, Id
  <2> QED
    BY <2>1 DEF ReadInv, ViewOK, SelectedAmong, Id
<1> QED
  BY <1>1, <1>2, <1>3 DEF ReadInv, RequestsOK, ConfirmedIsSeen

(* A change of the task makes every view and every request one of the past.  *)
LEMMA ReadersLate ==
  ASSUME TaskTypeOK, ReadInv, task'.revision = task.revision + 1,
         view' = view, requests' \subseteq requests
  PROVE  ViewOK' /\ RequestsOK'
<1>1. task.revision \in Nat
  BY DEF TaskTypeOK, Tasks
<1>2. ViewOK'
  <2> SUFFICES ASSUME view # None
               PROVE  /\ DOMAIN view = {"step", "row", "upto", "page", "more", "selected"}
                      /\ view.row.revision \in Nat
                      /\ view.row.revision <= task'.revision
                      /\ view.row.revision # task'.revision
    BY DEF ViewOK
  <2> QED
    BY <1>1 DEF ReadInv, ViewOK
<1>3. RequestsOK'
  <2> SUFFICES ASSUME NEW r \in requests
               PROVE  /\ r.expected \in Nat /\ r.expected <= task'.revision
                      /\ r.expected # task'.revision
    BY DEF RequestsOK
  <2> QED
    BY <1>1 DEF ReadInv, RequestsOK
<1> QED
  BY <1>2, <1>3

(* The next frame of a connection is a row.                                  *)
LEMMA ReceivesRow ==
  ASSUME WireOK, NEW type, Receives(type)
  PROVE  /\ Frame \in Rows /\ Frame.type = type
         /\ connection \in 1..MaxConnections
         /\ Tail(link) \in Seq(Rows)
<1>1. link \in Seq(Rows) /\ link # <<>> /\ connection > 0 /\ connection \in 0..MaxConnections
  BY DEF WireOK, Receives, Connected
<1>2. connection \in 1..MaxConnections
  BY <1>1, DiscoveryAssumption
<1> QED
  BY <1>1, <1>2, HeadTailProperties DEF Receives, Frame

(* A handler takes a frame of its kind.                                      *)
LEMMA Takes ==
  ASSUME WireOK, HandlerOK, NEW type, Receives(type), NEW step, NEW items \in Seq(Accounts),
         HandleNext(step, items), UNCHANGED <<outbox, found, connection>>,
         \/ step = "authorized" /\ type = "batch"
         \/ /\ step = "taken" /\ type = "completed"
            /\ Frame.outcome = "completed" => items = found[Frame.attempt].items
  PROVE  WireOK' /\ HandlerOK'
<1>1. /\ Frame \in Rows /\ Frame.type = type
      /\ connection \in 1..MaxConnections
      /\ Tail(link) \in Seq(Rows)
  BY ReceivesRow
<1>2. PICK work : work = [frame |-> Frame, step |-> step, items |-> items]
  OBVIOUS
<1>3. work \in Works /\ work.frame = Frame /\ work.step = step /\ work.items = items
  BY <1>1, <1>2 DEF Works
<1>4. handler' = [handler EXCEPT ![connection] = work] /\ link' = Tail(link)
  BY <1>2 DEF HandleNext
<1>5. WireOK'
  <2>1. handler' \in [1..MaxConnections -> Works \cup {None}]
    BY <1>3, <1>4 DEF WireOK
  <2> QED
    BY <1>1, <1>4, <2>1, SameRows DEF WireOK
<1>6. HandlerOK'
  <2> SUFFICES ASSUME NEW c \in 1..MaxConnections, handler'[c] # None
               PROVE  /\ handler'[c].step = "authorized" => handler'[c].frame.type = "batch"
                      /\ handler'[c].step \in {"taken", "converged"} =>
                            handler'[c].frame.type = "completed"
                      /\ handler'[c].step = "taken" /\ handler'[c].frame.outcome = "completed" =>
                            handler'[c].items = found[handler'[c].frame.attempt].items
    BY DEF HandlerOK
  <2>1. CASE c = connection
    <3>1. handler'[c] = work
      BY <1>1, <1>4, <2>1 DEF WireOK
    <3> QED
      BY <1>1, <1>3, <3>1
  <2>2. CASE c # connection
    <3>1. handler'[c] = handler[c]
      BY <1>4, <2>2 DEF WireOK
    <3> QED
      BY <3>1 DEF HandlerOK
  <2> QED
    BY <2>1, <2>2
<1> QED
  BY <1>5, <1>6

(* A handler that is done or has converged, on a connection that may close.  *)
LEMMA Finishes ==
  ASSUME WireOK, HandlerOK, NEW c \in 1..MaxConnections, link' \in {link, None},
         UNCHANGED <<outbox, found, connection>>,
         \/ handler' = Idle(c)
         \/ /\ Handling(c) /\ handler[c].step = "taken"
            /\ handler' = [handler EXCEPT ![c].step = "converged"]
  PROVE  WireOK' /\ HandlerOK'
<1>1. /\ \A d \in 1..MaxConnections : d # c => handler'[d] = handler[d]
      /\ handler'[c] = None
           \/ /\ handler'[c] \in Works /\ handler[c] \in Works /\ handler'[c].step = "converged"
              /\ handler'[c].frame = handler[c].frame
              /\ handler[c].step = "taken" /\ handler[c] # None
      /\ handler' \in [1..MaxConnections -> Works \cup {None}]
  <2>1. CASE handler' = Idle(c)
    BY <2>1 DEF WireOK, Idle
  <2>2. CASE /\ Handling(c) /\ handler[c].step = "taken"
             /\ handler' = [handler EXCEPT ![c].step = "converged"]
    <3>1. PICK work : work = handler[c]
      OBVIOUS
    <3>2. work \in Works /\ work # None /\ work.step = "taken"
      BY <2>2, <3>1 DEF Handling, WireOK
    <3>3. PICK done : done = [work EXCEPT !.step = "converged"]
      OBVIOUS
    <3>4. done \in Works /\ done.step = "converged" /\ done.frame = work.frame
      BY <3>2, <3>3 DEF Works
    <3>5. handler' = [handler EXCEPT ![c] = done]
      BY <2>2, <3>1, <3>3
    <3> QED
      BY <3>1, <3>2, <3>4, <3>5 DEF WireOK
  <2> QED
    BY <2>1, <2>2
<1>2. WireOK'
  BY <1>1, SameRows DEF WireOK
<1>3. HandlerOK'
  <2> SUFFICES ASSUME NEW d \in 1..MaxConnections, handler'[d] # None
               PROVE  /\ handler'[d].step = "authorized" => handler'[d].frame.type = "batch"
                      /\ handler'[d].step \in {"taken", "converged"} =>
                            handler'[d].frame.type = "completed"
                      /\ handler'[d].step = "taken" /\ handler'[d].frame.outcome = "completed" =>
                            handler'[d].items = found[handler'[d].frame.attempt].items
    BY DEF HandlerOK
  <2>1. CASE d # c
    <3>1. handler'[d] = handler[d]
      BY <1>1, <2>1
    <3> QED
      BY <3>1 DEF HandlerOK
  <2>2. CASE d = c
    BY <1>1, <2>2 DEF HandlerOK
  <2> QED
    BY <2>1, <2>2
<1> QED
  BY <1>2, <1>3

-----------------------------------------------------------------------------
(* The steps *)

(* Targets stay where the task leaves the statuses they are shown in.        *)
LEMMA TargetsStay ==
  ASSUME TargetsOK, UNCHANGED <<targets, page, found>>, task'.status # "awaiting_confirmation"
  PROVE  TargetsOK'
BY SameRows DEF TargetsOK, TargetsAreFound, PersistedItems

(* An attempt starts when none is open.                                      *)
LEMMA Starting ==
  ASSUME IInv,
         \A a \in DOMAIN attempts : attempts[a].status \in Ended,
         Len(attempts) < MaxAttempts,
         NEW attempt \in [kind : Kinds, status : {"offered", "running"}],
         attempts' = Append(attempts, attempt),
         NEW status \in {"discovering_targets", "running"},
         task' = [status |-> status, revision |-> task.revision + 1, current |-> Len(attempts) + 1],
         attempt.kind = "execution" <=> status = "running",
         UNCHANGED <<targets, page, excluded, confirmation, wire, executor, client>>
  PROVE  IInv'
<1>1. /\ UNCHANGED <<accumulator, handler, link, connection, found, outbox, view, requests, sent>>
      /\ UNCHANGED <<targets, page, excluded, confirmation>>
  BY DEF wire, executor, client
<1>2. PICK n \in Nat : n = Len(attempts) /\ n + 1 <= MaxAttempts /\ MaxAttempts \in Nat
  BY DiscoveryAssumption DEF IInv, RunInv, TaskTypeOK
<1>3. /\ attempts \in Seq([kind : Kinds, status : AttemptStatuses])
      /\ attempt \in [kind : Kinds, status : AttemptStatuses]
      /\ task \in Tasks
  BY DEF IInv, RunInv, TaskTypeOK, AttemptStatuses, Active
<1>4. /\ attempts' \in Seq([kind : Kinds, status : AttemptStatuses])
      /\ Len(attempts') = n + 1 /\ DOMAIN attempts = 1..n /\ DOMAIN attempts' = 1..(n + 1)
      /\ attempts'[n + 1] = attempt /\ \A a \in 1..n : attempts'[a] = attempts[a]
  BY <1>2, <1>3, AppendProperties
<1>5. task'.status = status /\ task'.revision = task.revision + 1 /\ task'.current = n + 1
      /\ task' \in Tasks
  BY <1>2, <1>3 DEF Tasks, TaskStatuses
<1>6. TaskTypeOK'
  BY <1>2, <1>4, <1>5 DEF TaskTypeOK
<1>7. FoundOK'
  BY <1>1, <1>2, <1>4, SameRows DEF IInv, RunInv, FoundOK
<1>8. OpenOK'
  <2>1. ASSUME NEW a \in DOMAIN attempts', attempts'[a].status \notin Ended
        PROVE  /\ a = task'.current
               /\ task'.status \in IF attempts'[a].kind = "execution"
                               THEN {"running", "awaiting_human"} ELSE {"discovering_targets"}
    <3>1. a = n + 1
      BY <1>2, <1>4, <2>1
    <3> QED
      BY <1>4, <1>5, <3>1
  <2>2. task'.status = "running" =>
          task'.current # 0 /\ attempts'[task'.current].kind = "execution"
    BY <1>2, <1>4, <1>5
  <2> QED
    BY <2>1, <2>2 DEF OpenOK
<1>9. FrameInv'
  BY FrameStays DEF IInv
<1>10. ReadInv'
  <2>1. ViewOK' /\ RequestsOK'
    BY <1>1, <1>5, ReadersLate DEF IInv, RunInv
  <2>2. TargetsOK'
    BY <1>1, <1>5, TargetsStay DEF IInv, ReadInv
  <2> QED
    BY <1>1, <2>1, <2>2 DEF IInv, ReadInv, ConfirmedIsSeen
<1> QED
  BY <1>6, <1>7, <1>8, <1>9, <1>10 DEF IInv, RunInv

(* A discovery or an execution opens a new attempt.                         *)
LEMMA StartKeeps ==
  ASSUME IInv, StartDiscovery \/ StartExecution
  PROVE  IInv'
<1>1. CASE StartDiscovery
  <2>1. \A a \in DOMAIN attempts : attempts[a].status \in Ended
    BY <1>1 DEF StartDiscovery, InstallationBusy
  <2>2. [kind |-> "discovery", status |-> "offered"] \in
          [kind : Kinds, status : {"offered", "running"}]
    BY DEF Kinds
  <2> QED
    BY <1>1, <2>1, <2>2, Starting DEF StartDiscovery, Offered
<1>2. CASE StartExecution
  <2>1. \A a \in DOMAIN attempts : attempts[a].status \in Ended
    BY <1>2 DEF StartExecution, IInv, RunInv, OpenOK
  <2>2. [kind |-> "execution", status |-> "running"] \in
          [kind : Kinds, status : {"offered", "running"}]
    BY DEF Kinds
  <2> QED
    BY <1>2, <2>1, <2>2, Starting DEF StartExecution
<1> QED
  BY <1>1, <1>2

(* An execution hands the task over to a human.                             *)
LEMMA HandsOverKeeps ==
  ASSUME IInv, ExecutionHandsOver
  PROVE  IInv'
<1>1. /\ UNCHANGED <<accumulator, handler, link, connection, found, outbox, view, requests, sent>>
      /\ UNCHANGED <<targets, page, excluded, confirmation>>
  BY DEF ExecutionHandsOver, wire, executor, client
<1>2. PICK n, e : n \in Nat /\ n = Len(attempts) /\ n <= MaxAttempts /\ e = task.current
                     /\ e \in 1..n
  BY DEF ExecutionHandsOver, IInv, RunInv, TaskTypeOK, OpenOK
<1>3. /\ attempts \in Seq([kind : Kinds, status : AttemptStatuses])
      /\ task \in Tasks /\ task.status = "running"
      /\ attempts[e].kind = "execution"
  BY <1>2 DEF ExecutionHandsOver, IInv, RunInv, TaskTypeOK, OpenOK
<1>4. PICK old, over : old = attempts[e] /\ over = [old EXCEPT !.status = "awaiting_human"]
  OBVIOUS
<1>5. over \in [kind : Kinds, status : AttemptStatuses] /\ over.kind = "execution"
      /\ over.status = "awaiting_human"
  <2>1. old \in [kind : Kinds, status : AttemptStatuses] /\ old.kind = "execution"
    BY <1>2, <1>3, <1>4, ElementOfSeq
  <2>2. "awaiting_human" \in AttemptStatuses
    BY DEF AttemptStatuses
  <2> QED
    BY <1>4, <2>1, <2>2
<1>6. /\ attempts' \in Seq([kind : Kinds, status : AttemptStatuses])
      /\ Len(attempts') = n /\ DOMAIN attempts = 1..n /\ DOMAIN attempts' = 1..n
      /\ attempts'[e] = over /\ \A a \in 1..n : a # e => attempts'[a] = attempts[a]
  <2>1. attempts' = [attempts EXCEPT ![e] = over]
    BY <1>2, <1>4 DEF ExecutionHandsOver
  <2> QED
    BY <1>2, <1>3, <1>5, <2>1, ExceptSeq
<1>7. task'.status = "awaiting_human" /\ task'.revision = task.revision + 1 /\ task'.current = e
      /\ task' \in Tasks
  <2>1. task \in [status : TaskStatuses, revision : Nat, current : Nat]
    BY <1>3 DEF Tasks
  <2>2. "awaiting_human" \in TaskStatuses
    BY DEF TaskStatuses
  <2>3. task' = [task EXCEPT !.status = "awaiting_human", !.revision = task.revision + 1]
    BY DEF ExecutionHandsOver
  <2>4. task.revision + 1 \in Nat /\ e \in Nat
    BY <1>2, <2>1
  <2>5. task' = [status |-> "awaiting_human", revision |-> task.revision + 1, current |-> e]
    BY <1>2, <2>1, <2>3
  <2> QED
    BY <2>2, <2>4, <2>5 DEF Tasks
<1>8. TaskTypeOK'
  <2>1. task'.current \in DOMAIN attempts' /\ Len(attempts') <= MaxAttempts
    BY <1>2, <1>6, <1>7
  <2> QED
    BY <1>6, <1>7, <2>1 DEF TaskTypeOK
<1>9. FoundOK'
  BY <1>1, <1>6, SameRows DEF IInv, RunInv, FoundOK
<1>10. OpenOK'
  <2>1. ASSUME NEW a \in DOMAIN attempts', attempts'[a].status \notin Ended
        PROVE  a = e
    BY <1>2, <1>6, <2>1 DEF IInv, RunInv, OpenOK
  <2> QED
    BY <1>5, <1>6, <1>7, <2>1 DEF OpenOK
<1>11. FrameInv'
  BY FrameStays DEF IInv, ExecutionHandsOver
<1>12. ReadInv'
  <2>1. ViewOK' /\ RequestsOK'
    BY <1>1, <1>7, ReadersLate DEF IInv, RunInv
  <2>2. TargetsOK'
    BY <1>1, <1>7, TargetsStay DEF IInv, ReadInv
  <2> QED
    BY <1>1, <2>1, <2>2 DEF IInv, ReadInv, ConfirmedIsSeen
<1> QED
  BY <1>8, <1>9, <1>10, <1>11, <1>12 DEF IInv, RunInv

(* A new connection resends every unexpired row.                            *)
LEMMA ConnectKeeps ==
  ASSUME IInv, Connect
  PROVE  IInv'
<1>1. UNCHANGED <<task, attempts, targets, page, excluded, confirmation, accumulator, handler,
                  found, outbox, view, requests>>
  BY DEF Connect, database, executor, client
<1>2. RunInv' /\ ReadInv'
  BY <1>1, RunStays, ReadStays DEF IInv
<1>3. connection' \in 0..MaxConnections
  BY DiscoveryAssumption DEF Connect, IInv, FrameInv, WireOK
<1>4. FrameInv'
  BY <1>1, <1>3, SameRows DEF Connect, IInv, FrameInv, WireOK, HandlerOK, AccumulatorOK
<1> QED
  BY <1>2, <1>4 DEF IInv

(* The oldest row passes its deadline and is not sent again.                *)
LEMMA ExpireKeeps ==
  ASSUME IInv, ExpireRow
  PROVE  IInv'
<1>1. UNCHANGED <<task, attempts, targets, page, excluded, confirmation, accumulator, handler,
                  link, connection, found, view, requests>>
  BY DEF ExpireRow, database, wire, client
<1>2. RunInv' /\ ReadInv'
  BY <1>1, RunStays, ReadStays DEF IInv
<1>3. outbox' \in Seq(Rows)
  BY HeadTailProperties DEF ExpireRow, IInv, FrameInv, WireOK
<1>4. FrameInv'
  BY <1>1, <1>3, SameRows DEF IInv, FrameInv, WireOK, HandlerOK, AccumulatorOK
<1> QED
  BY <1>2, <1>4 DEF IInv

(* The control plane restarts and forgets what it has put together.         *)
LEMMA RestartKeeps ==
  ASSUME IInv, Restart
  PROVE  IInv'
<1>1. UNCHANGED <<task, attempts, targets, page, excluded, confirmation, connection, found, outbox,
                  view, requests>>
  BY DEF Restart, database, executor, client
<1>2. RunInv' /\ ReadInv'
  BY <1>1, RunStays, ReadStays DEF IInv
<1>3. handler' = [c \in 1..MaxConnections |-> None] /\ link' = None /\ DOMAIN accumulator' = {}
  BY DEF Restart
<1>4. FrameInv'
  BY <1>1, <1>3, SameRows DEF IInv, FrameInv, WireOK, HandlerOK, AccumulatorOK
<1> QED
  BY <1>2, <1>4 DEF IInv

(* A result that comes adds its rows to those that were written before.      *)
LEMMA RunKeeps ==
  ASSUME IInv, NEW a \in DOMAIN attempts, NEW search \in SearchFailures \cup {"results_ready"},
         NEW rows \in Seq(SUBSET Accounts), RunDiscovery(a, search, rows)
  PROVE  IInv'
<1>1. UNCHANGED <<task, attempts, targets, page, excluded, confirmation, accumulator, handler,
                  connection, view, requests>>
  BY DEF RunDiscovery, database, client
<1>2. a \in 1..MaxAttempts /\ found[a] = None /\ a \notin Written
  <2>1. Len(attempts) \in Nat /\ DOMAIN attempts = 1..Len(attempts) /\ Len(attempts) <= MaxAttempts
    BY DEF IInv, RunInv, TaskTypeOK
  <2>2. a \in 1..MaxAttempts
    BY <2>1, DiscoveryAssumption
  <2> QED
    BY <2>2 DEF RunDiscovery, Written
<1>3. PICK items \in Extract(rows) :
        /\ found' = [found EXCEPT ![a] = Discovered(search, items)]
        /\ outbox' = outbox \o RowsOf(a, Discovered(search, items))
        /\ link' = link \o RowsOf(a, Discovered(search, items))
  BY DEF RunDiscovery
<1>4. PICK result \in Results :
        /\ result = Discovered(search, items)
        /\ result.outcome = "completed" <=> result.items # <<>>
  BY Extracted, ReportTyped
<1>5. result # None
  <2>1. Results = [outcome : {"completed", "login_required", "handoff_required", "failed"},
                   items : Seq(Accounts)]
    BY DEF Results, Outcomes
  <2> QED
    BY <2>1, DiscoveryAssumption
<1>6. /\ found \in [1..MaxAttempts -> Results \cup {None}]
      /\ found' = [found EXCEPT ![a] = result]
      /\ found' \in [1..MaxAttempts -> Results \cup {None}]
      /\ found'[a] = result /\ \A b \in 1..MaxAttempts : b # a => found'[b] = found[b]
  BY <1>2, <1>3, <1>4 DEF IInv, RunInv, FoundOK
<1>7. Written' = Written \cup {a}
  BY <1>2, <1>5, <1>6 DEF Written
<1>8. \A b \in Written : found'[b] = found[b]
  BY <1>2, <1>6 DEF Written
<1>9. Rows' = Rows \cup RowSet(a, result)
  <2>1. Rows' = UNION {RowSet(b, found'[b]) : b \in Written'}
    BY DEF Rows
  <2>2. Rows = UNION {RowSet(b, found[b]) : b \in Written}
    BY DEF Rows
  <2>3. ASSUME NEW row \in Rows'
        PROVE  row \in Rows \cup RowSet(a, result)
    <3>1. PICK b \in Written' : row \in RowSet(b, found'[b])
      BY <2>1
    <3>2. CASE b = a
      BY <1>6, <3>1, <3>2
    <3>3. CASE b \in Written
      BY <1>8, <2>2, <3>1, <3>3
    <3> QED
      BY <1>7, <3>2, <3>3
  <2>4. RowSet(a, result) \subseteq Rows'
    BY <1>6, <1>7, <2>1
  <2>5. ASSUME NEW row \in Rows
        PROVE  row \in Rows'
    <3>1. PICK b \in Written : row \in RowSet(b, found[b])
      BY <2>2
    <3>2. b \in Written' /\ row \in RowSet(b, found'[b])
      BY <1>7, <1>8, <3>1
    <3> QED
      BY <2>1, <3>2
  <2> QED
    BY <2>3, <2>4, <2>5
<1>10. RowsOf(a, result) \in Seq(Rows')
  <2>1. RowsOf(a, result) \in Seq(RowSet(a, result)) /\ RowSet(a, result) \subseteq Rows'
    BY <1>9, RowsTyped
  <2> QED
    BY <2>1, SeqMonotonic
<1>11. \A s \in Seq(Rows) : s \in Seq(Rows') /\ s \o RowsOf(a, result) \in Seq(Rows')
  <2>1. Rows \subseteq Rows'
    BY <1>9
  <2>2. \A s \in Seq(Rows) : s \in Seq(Rows')
    BY <2>1, SeqMonotonic
  <2> QED
    BY <1>10, <2>2, ConcatProperties
<1>12. RunInv'
  <2>1. FoundOK'
    <3>1. Written' \subseteq DOMAIN attempts'
      BY <1>1, <1>7 DEF IInv, RunInv, FoundOK
    <3>2. \A b \in Written' : found'[b].outcome = "completed" <=> found'[b].items # <<>>
      BY <1>4, <1>6, <1>7, <1>8 DEF IInv, RunInv, FoundOK
    <3> QED
      BY <1>6, <3>1, <3>2 DEF FoundOK
  <2> QED
    BY <1>1, <2>1 DEF IInv, RunInv, TaskTypeOK, OpenOK
<1>13. FrameInv'
  <2>1. link \in Seq(Rows) /\ outbox \in Seq(Rows)
    BY DEF RunDiscovery, Connected, IInv, FrameInv, WireOK
  <2>2. outbox' \in Seq(Rows') /\ link' \in Seq(Rows')
    BY <1>3, <1>4, <1>11, <2>1
  <2>3. Works \subseteq Works'
    BY <1>9 DEF Works
  <2>4. handler' \in [1..MaxConnections -> Works' \cup {None}] /\ connection' \in 0..MaxConnections
    BY <1>1, <2>3 DEF IInv, FrameInv, WireOK
  <2>5. WireOK'
    BY <2>2, <2>4 DEF WireOK
  <2>6. HandlerOK'
    <3> SUFFICES ASSUME NEW c \in 1..MaxConnections, handler[c] # None
                 PROVE  found'[handler[c].frame.attempt] = found[handler[c].frame.attempt]
      BY <1>1 DEF IInv, FrameInv, HandlerOK
    <3>1. handler[c].frame \in Rows
      BY DEF IInv, FrameInv, WireOK, Works
    <3> QED
      BY <1>8, <3>1, RowOf
  <2>7. AccumulatorOK'
    BY <1>1, <1>7, <1>8 DEF IInv, FrameInv, AccumulatorOK
  <2> QED
    BY <2>5, <2>6, <2>7 DEF FrameInv
<1>14. ReadInv'
  <2>1. page # 0 => found'[page] = found[page]
    BY <1>8 DEF IInv, ReadInv, TargetsOK
  <2>2. TargetsOK'
    BY <1>1, <1>7, <2>1 DEF IInv, ReadInv, TargetsOK, TargetsAreFound, PersistedItems
  <2> QED
    BY <1>1, <2>2 DEF IInv, ReadInv, ConfirmedIsSeen, ViewOK, RequestsOK, Selected, SelectedAmong, Id
<1> QED
  BY <1>12, <1>13, <1>14 DEF IInv

(* The acceptance acknowledges the command; a repeated one changes          *)
(* nothing.                                                                 *)
LEMMA AcceptKeeps ==
  ASSUME IInv, Accept
  PROVE  IInv'
<1>1. UNCHANGED <<task, targets, page, excluded, confirmation, accumulator, handler,
                  found, outbox, connection, view, requests>>
  BY DEF Accept, executor, client
<1>2. Frame \in Rows /\ Tail(link) \in Seq(Rows)
  BY ReceivesRow DEF Accept, IInv, FrameInv
<1>3. PICK n, a : n \in Nat /\ n = Len(attempts) /\ a = Frame.attempt /\ a \in 1..n
  <2>1. Frame.attempt \in DOMAIN attempts
    BY <1>2, RowOf DEF IInv, RunInv, FoundOK
  <2>2. Len(attempts) \in Nat /\ DOMAIN attempts = 1..Len(attempts)
    BY DEF IInv, RunInv, TaskTypeOK
  <2> QED
    BY <2>1, <2>2
<1>4. CASE attempts[a].status # "offered"
  <2>1. attempts' = attempts
    BY <1>3, <1>4 DEF Accept
  <2>2. RunInv' /\ ReadInv'
    BY <1>1, <2>1, RunStays, ReadStays DEF IInv
  <2>3. FrameInv'
    BY <1>1, <1>2, SameRows DEF Accept, IInv, FrameInv, WireOK, HandlerOK, AccumulatorOK
  <2> QED
    BY <2>2, <2>3 DEF IInv
<1>5. CASE attempts[a].status = "offered"
  <2>1. attempts \in Seq([kind : Kinds, status : AttemptStatuses])
    BY DEF IInv, RunInv, TaskTypeOK
  <2>2. PICK old, new : old = attempts[a] /\ new = [old EXCEPT !.status = "accepted"]
    OBVIOUS
  <2>3. old \in [kind : Kinds, status : AttemptStatuses]
    BY <1>3, <2>1, <2>2, ElementOfSeq
  <2>4. new \in [kind : Kinds, status : AttemptStatuses] /\ new.kind = old.kind
    BY <2>2, <2>3 DEF AttemptStatuses, Active
  <2>5. attempts' = [attempts EXCEPT ![a] = new]
    BY <1>3, <1>5, <2>2 DEF Accept
  <2>6. /\ attempts' \in Seq([kind : Kinds, status : AttemptStatuses])
        /\ Len(attempts') = n /\ DOMAIN attempts = 1..n /\ DOMAIN attempts' = 1..n
        /\ attempts'[a] = new /\ \A b \in 1..n : b # a => attempts'[b] = attempts[b]
    BY <1>3, <2>1, <2>4, <2>5, ExceptSeq
  <2>7. OpenOK'
    <3>1. \A b \in 1..n : attempts'[b].kind = attempts[b].kind
      BY <2>2, <2>4, <2>6
    <3>2. \A b \in 1..n : attempts'[b].status \notin Ended => attempts[b].status \notin Ended
      BY <1>5, <2>6 DEF Ended
    <3>3. task.current # 0 => task.current \in 1..n
      BY <2>6 DEF IInv, RunInv, TaskTypeOK
    <3> QED
      BY <1>1, <2>6, <3>1, <3>2, <3>3 DEF IInv, RunInv, OpenOK
  <2>8. TaskTypeOK' /\ FoundOK'
    BY <1>1, <1>3, <2>6, SameRows DEF IInv, RunInv, TaskTypeOK, FoundOK
  <2>9. FrameInv'
    BY <1>1, <1>2, SameRows DEF Accept, IInv, FrameInv, WireOK, HandlerOK, AccumulatorOK
  <2>10. ReadInv'
    BY <1>1, ReadStays DEF IInv
  <2> QED
    BY <2>7, <2>8, <2>9, <2>10 DEF IInv, RunInv
<1> QED
  BY <1>4, <1>5

(* A handler that takes or refuses a frame changes nothing else.             *)
LEMMA HandlingOnly ==
  ASSUME IInv, UNCHANGED <<database, executor, client>>, WireOK', HandlerOK', AccumulatorOK'
  PROVE  IInv'
<1>1. UNCHANGED <<task, attempts, targets, page, excluded, confirmation, found, view, requests>>
  BY DEF database, executor, client
<1> QED
  BY <1>1, RunStays, ReadStays DEF IInv, FrameInv

(* A frame that is refused closes its connection.                            *)
LEMMA Refuses ==
  ASSUME WireOK, HandlerOK, RejectNext, UNCHANGED <<outbox, found, connection>>
  PROVE  WireOK' /\ HandlerOK'
BY SameRows DEF RejectNext, WireOK, HandlerOK

(* A batch of the active attempt goes on to be added.                       *)
LEMMA AuthorizeKeeps ==
  ASSUME IInv, AuthorizeBatch
  PROVE  IInv'
<1>1. UNCHANGED <<outbox, found, connection, accumulator>> /\ UNCHANGED <<database, executor, client>>
  BY DEF AuthorizeBatch, executor
<1>2. WireOK /\ HandlerOK /\ Receives("batch") /\ <<>> \in Seq(Accounts)
  BY DEF AuthorizeBatch, IInv, FrameInv
<1>3. HandleNext("authorized", <<>>) \/ RejectNext
  BY DEF AuthorizeBatch
<1>4. WireOK' /\ HandlerOK'
  BY <1>1, <1>2, <1>3, Takes, Refuses
<1>5. AccumulatorOK'
  BY <1>1, SameRows DEF IInv, FrameInv, AccumulatorOK
<1> QED
  BY <1>1, <1>4, <1>5, HandlingOnly

(* A batch that is added is the next one of its discovery.                   *)
LEMMA AddKeeps ==
  ASSUME IInv, NEW c \in 1..MaxConnections, AddBatch(c)
  PROVE  IInv'
<1>1. UNCHANGED <<outbox, found, connection>> /\ UNCHANGED <<database, executor, client>>
  BY DEF AddBatch, executor
<1>2. WireOK /\ HandlerOK /\ handler[c] # None /\ handler[c].step = "authorized"
  BY DEF AddBatch, Handling, IInv, FrameInv
<1>3. handler' = Idle(c) /\ link' \in {link, None}
  BY DEF AddBatch, Rejected, Closed
<1>4. WireOK' /\ HandlerOK'
  BY <1>1, <1>2, <1>3, Finishes
<1>5. AccumulatorOK'
  <2>1. CASE accumulator' = accumulator
    BY <1>1, <2>1, SameRows DEF IInv, FrameInv, AccumulatorOK
  <2>2. CASE accumulator' # accumulator
    <3>1. PICK frame, state :
            /\ frame = handler[c].frame /\ state = Accumulated(frame.attempt)
            /\ Addable(frame, state)
            /\ accumulator' = [b \in DOMAIN accumulator \cup {frame.attempt} |->
                                 IF b = frame.attempt THEN Append(state, frame)
                                 ELSE accumulator[b]]
      <4>1. PICK frame, state : frame = handler[c].frame /\ state = Accumulated(frame.attempt)
        OBVIOUS
      <4>2. /\ Addable(frame, state)
            /\ accumulator' = [b \in DOMAIN accumulator \cup {frame.attempt} |->
                                 IF b = frame.attempt THEN Append(state, frame)
                                 ELSE accumulator[b]]
        BY <2>2, <4>1, Zenon DEF AddBatch
      <4> QED
        BY <4>1, <4>2
    <3>2. frame \in Rows /\ frame.type = "batch"
      <4>1. handler[c] \in Works
        BY <1>2 DEF WireOK
      <4> QED
        BY <1>2, <3>1, <4>1 DEF Works, HandlerOK
    <3>3. PICK a, n : /\ a \in Written /\ n \in 1..BatchCount(found[a]) /\ a = frame.attempt
                      /\ frame = BatchRow(a, found[a], n)
      BY <3>2, RowOf
    <3>4. PICK result : result \in Results /\ result = found[a]
      BY <3>3 DEF IInv, RunInv, FoundOK, Written
    <3>5. PICK count : count \in Nat /\ count = BatchCount(result)
      BY <3>4, Batches
    <3>6. PICK k : /\ k \in 0..count
                   /\ state = [i \in 1..k |-> BatchRow(a, result, i)]
      <4>1. CASE a \in DOMAIN accumulator
        <5>1. PICK k : k \in 1..BatchCount(result) /\ accumulator[a] = [i \in 1..k |-> BatchRow(a, result, i)]
          BY <3>4, <4>1 DEF IInv, FrameInv, AccumulatorOK
        <5>2. k \in 0..count
          BY <3>5, <5>1
        <5> QED
          BY <3>1, <3>3, <4>1, <5>1, <5>2 DEF Accumulated
      <4>2. CASE a \notin DOMAIN accumulator
        <5>1. state = <<>>
          BY <3>1, <3>3, <4>2 DEF Accumulated
        <5>2. state = [i \in 1..0 |-> BatchRow(a, result, i)]
          BY <5>1
        <5> QED
          BY <3>5, <5>2
      <4> QED
        BY <4>1, <4>2
    <3>7. PICK X : X = {BatchRow(a, result, i) : i \in 1..count}
      OBVIOUS
    <3>8. k \in Nat /\ state \in [1..k -> X]
      BY <3>5, <3>6, <3>7
    <3>9. state \in Seq(X) /\ Len(state) = k
      BY <3>8, Numbered
    <3>10. n = k + 1
      <4>1. frame.index = n
        BY <3>3 DEF BatchRow
      <4>2. frame.index = Len(state) + 1
        BY <3>1 DEF Addable
      <4>3. Len(state) = k
        BY <3>9
      <4> QED
        BY <4>1, <4>2, <4>3
    <3>11. n \in 1..count /\ k + 1 \in Nat /\ frame = BatchRow(a, result, n)
      <4>1. BatchCount(found[a]) = count /\ found[a] = result
        BY <3>4, <3>5
      <4>2. k + 1 \in Nat
        BY <3>8
      <4> QED
        BY <3>3, <4>1, <4>2
    <3>12. frame \in X
      BY <3>7, <3>11
    <3>13. Append(state, frame) = [i \in 1..n |-> BatchRow(a, result, i)]
      <4>1. /\ Append(state, frame) \in Seq(X)
            /\ Len(Append(state, frame)) = n
            /\ \A i \in 1..k : Append(state, frame)[i] = state[i]
            /\ Append(state, frame)[n] = frame
        BY <3>8, <3>9, <3>10, <3>12, AppendProperties
      <4>2. PICK whole : whole = [i \in 1..n |-> BatchRow(a, result, i)]
        OBVIOUS
      <4>3. whole \in [1..n -> X] /\ n \in Nat
        <5>1. \A i \in 1..n : i \in 1..count
          BY <3>5, <3>11
        <5>2. n \in Nat
          BY <3>5, <3>11
        <5> QED
          BY <3>7, <4>2, <5>1, <5>2
      <4>4. whole \in Seq(X) /\ Len(whole) = n
        BY <4>3, Numbered
      <4>5. \A i \in 1..n : Append(state, frame)[i] = whole[i]
        <5> SUFFICES ASSUME NEW i \in 1..n PROVE Append(state, frame)[i] = whole[i]
          OBVIOUS
        <5>1. whole[i] = BatchRow(a, result, i)
          BY <4>2
        <5>2. CASE i = n
          BY <3>11, <4>1, <5>1, <5>2
        <5>3. CASE i # n
          <6>1. i \in 1..k
            BY <3>8, <3>10, <5>3
          <6>2. state[i] = BatchRow(a, result, i)
            BY <3>6, <6>1
          <6> QED
            BY <4>1, <5>1, <6>1, <6>2
        <5> QED
          BY <5>2, <5>3
      <4>6. Append(state, frame) = whole
        BY <4>1, <4>4, <4>5, SeqEqual
      <4> QED
        BY <4>2, <4>6
    <3>14. DOMAIN accumulator' = DOMAIN accumulator \cup {a}
           /\ accumulator'[a] = [i \in 1..n |-> BatchRow(a, result, i)]
           /\ \A b \in DOMAIN accumulator : b # a => accumulator'[b] = accumulator[b]
      BY <3>1, <3>3, <3>13
    <3>15. ASSUME NEW b \in DOMAIN accumulator'
           PROVE  \E i \in 1..BatchCount(found[b]) :
                    accumulator'[b] = [j \in 1..i |-> BatchRow(b, found[b], j)]
      <4>1. CASE b = a
        BY <3>4, <3>5, <3>11, <3>14, <4>1
      <4>2. CASE b # a
        <5>1. b \in DOMAIN accumulator /\ accumulator'[b] = accumulator[b]
          BY <3>14, <4>2
        <5> QED
          BY <5>1 DEF IInv, FrameInv, AccumulatorOK
      <4> QED
        BY <4>1, <4>2
    <3>16. DOMAIN accumulator' \subseteq Written
      BY <3>3, <3>14 DEF IInv, FrameInv, AccumulatorOK
    <3> QED
      BY <1>1, <3>15, <3>16, SameRows DEF AccumulatorOK
  <2> QED
    BY <2>1, <2>2
<1> QED
  BY <1>1, <1>4, <1>5, HandlingOnly

(* A completion that is taken brings the candidates that were found.         *)
LEMMA TakeKeeps ==
  ASSUME IInv, TakeCompleted
  PROVE  IInv'
<1>1. UNCHANGED <<outbox, found, connection, accumulator>> /\ UNCHANGED <<database, executor, client>>
  BY DEF TakeCompleted, executor
<1>2. WireOK /\ HandlerOK /\ Receives("completed")
  BY DEF TakeCompleted, IInv, FrameInv
<1>3. AccumulatorOK'
  BY <1>1, SameRows DEF IInv, FrameInv, AccumulatorOK
<1>4. CASE RejectNext
  BY <1>1, <1>2, <1>3, <1>4, Refuses, HandlingOnly
<1>5. CASE ~RejectNext
  <2>1. PICK state : state = Accumulated(Frame.attempt)
    OBVIOUS
  <2>2. Whole(Frame, state) /\ HandleNext("taken", Items(state))
    BY <1>5, <2>1 DEF TakeCompleted
  <2>3. PICK a, result : a = Frame.attempt /\ a \in Written /\ result = found[a]
    BY <1>2, ReceivesRow, RowOf
  <2>4. Frame = CompletedRow(a, result)
    BY <1>2, <2>3, ReceivesRow, RowOf
  <2>5. result \in Results /\ (result.outcome = "completed" <=> result.items # <<>>)
    BY <2>3 DEF IInv, RunInv, FoundOK, Written
  <2>6. Frame.outcome = result.outcome /\ Frame.count = BatchCount(result)
    BY <2>4 DEF CompletedRow
  <2>7. CASE Frame.outcome = "completed"
    <3>1. state # <<>> /\ Len(state) = BatchCount(result)
      BY <2>2, <2>6, <2>7 DEF Whole
    <3>2. a \in DOMAIN accumulator /\ state = accumulator[a]
      BY <2>1, <2>3, <3>1 DEF Accumulated
    <3>3. PICK k : k \in 1..BatchCount(result) /\ state = [n \in 1..k |-> BatchRow(a, result, n)]
      BY <2>3, <3>2 DEF IInv, FrameInv, AccumulatorOK
    <3>4. k = BatchCount(result)
      <4>1. k \in Nat
        BY <2>5, <3>3, Batches
      <4>2. PICK X : X = {BatchRow(a, result, n) : n \in 1..k}
        OBVIOUS
      <4>3. state \in [1..k -> X]
        BY <3>3, <4>2
      <4>4. Len(state) = k
        BY <4>1, <4>3, Numbered
      <4> QED
        BY <3>1, <4>4
    <3>5. [n \in DOMAIN state |-> state[n].items] = [n \in 1..BatchCount(result) |-> Batch(result, n)]
      <4>1. DOMAIN state = 1..BatchCount(result)
        BY <3>3, <3>4
      <4>2. \A n \in 1..BatchCount(result) : state[n].items = Batch(result, n)
        BY <3>3, <3>4 DEF BatchRow
      <4> QED
        BY <4>1, <4>2
    <3>6. result.items # <<>>
      BY <2>5, <2>6, <2>7
    <3>7. Items(state) = result.items
      <4>1. \A seqs : seqs = [n \in 1..BatchCount(result) |-> Batch(result, n)]
                        => FlattenSeq(seqs) = result.items
        BY <2>5, <3>6, Rejoined
      <4> QED
        BY <3>5, <4>1 DEF Items
    <3>8. Items(state) \in Seq(Accounts)
      BY <2>5, <3>7 DEF Results
    <3>9. WireOK' /\ HandlerOK'
      BY <1>1, <1>2, <2>2, <2>3, <3>7, <3>8, Takes
    <3> QED
      BY <1>1, <1>3, <3>9, HandlingOnly
  <2>8. CASE Frame.outcome # "completed"
    <3>1. state = <<>>
      BY <2>2, <2>8 DEF Whole
    <3>2. [n \in DOMAIN state |-> state[n].items] = <<>>
      BY <3>1
    <3>3. Items(state) = <<>>
      <4>1. Len(<<>>) = 0
        OBVIOUS
      <4> QED
        BY <3>2, <4>1 DEF Items, FlattenSeq
    <3>4. Items(state) \in Seq(Accounts)
      BY <3>3
    <3>5. WireOK' /\ HandlerOK'
      BY <1>1, <1>2, <2>2, <2>8, <3>4, Takes
    <3> QED
      BY <1>1, <1>3, <3>5, HandlingOnly
  <2> QED
    BY <2>7, <2>8
<1> QED
  BY <1>4, <1>5

(* The disposition of a candidate is known.                                  *)
LEMMA EvaluatedTyped ==
  ASSUME NEW items \in Seq(Accounts)
  PROVE  /\ Evaluated(items) \in Seq([account : Accounts, disposition : Dispositions])
         /\ [i \in DOMAIN Evaluated(items) |-> Evaluated(items)[i].account] = items
<1>1. Len(items) \in Nat /\ DOMAIN items = 1..Len(items) /\ items \in [1..Len(items) -> Accounts]
  OBVIOUS
<1>2. \A i \in 1..Len(items) : Disposition(items, i) \in Dispositions
  <2> SUFFICES ASSUME NEW i \in 1..Len(items) PROVE Disposition(items, i) \in Dispositions
    OBVIOUS
  <2>1. CASE items[i] \in Blacklist
    BY <2>1 DEF Disposition, Dispositions
  <2>2. CASE items[i] \notin Blacklist /\ \E j \in 1..(i - 1) : items[j] = items[i]
    BY <2>2 DEF Disposition, Dispositions
  <2>3. CASE items[i] \notin Blacklist /\ (\A j \in 1..(i - 1) : items[j] # items[i])
    BY <2>3 DEF Disposition, Dispositions
  <2> QED
    BY <2>1, <2>2, <2>3
<1>3. Evaluated(items) = [i \in 1..Len(items) |->
                            [account |-> items[i], disposition |-> Disposition(items, i)]]
  BY <1>1 DEF Evaluated
<1>4. Evaluated(items) \in [1..Len(items) -> [account : Accounts, disposition : Dispositions]]
  BY <1>1, <1>2, <1>3
<1>5. Evaluated(items) \in Seq([account : Accounts, disposition : Dispositions])
  BY <1>1, <1>4, Numbered
<1>6. [i \in DOMAIN Evaluated(items) |-> Evaluated(items)[i].account] = items
  BY <1>1, <1>3
<1> QED
  BY <1>5, <1>6

(* Once a result is stored its batches are forgotten.                       *)
LEMMA ClearKeeps ==
  ASSUME IInv, NEW c \in 1..MaxConnections, ClearAccumulator(c)
  PROVE  IInv'
<1>1. UNCHANGED <<link, connection, outbox, found>> /\ UNCHANGED <<database, executor, client>>
  BY DEF ClearAccumulator, executor
<1>2. WireOK /\ HandlerOK /\ handler' = Idle(c)
  BY DEF ClearAccumulator, IInv, FrameInv
<1>3. WireOK' /\ HandlerOK'
  BY <1>1, <1>2, Finishes
<1>4. DOMAIN accumulator' \subseteq DOMAIN accumulator
      /\ \A a \in DOMAIN accumulator' : accumulator'[a] = accumulator[a]
  BY DEF ClearAccumulator
<1>5. AccumulatorOK'
  BY <1>1, <1>4, SameRows DEF IInv, FrameInv, AccumulatorOK
<1> QED
  BY <1>1, <1>3, <1>5, HandlingOnly

(* A discovery that ends leaves its candidates or none, and the task's next  *)
(* status follows.                                                           *)
LEMMA ConvergeKeeps ==
  ASSUME IInv, NEW c \in 1..MaxConnections, Converge(c)
  PROVE  IInv'
<1>1. UNCHANGED <<accumulator, connection, found, outbox, view, requests>>
  BY DEF Converge, executor, client
<1>2. WireOK /\ HandlerOK /\ handler[c] # None /\ handler[c].step = "taken" /\ Handling(c)
  BY DEF Converge, Handling, IInv, FrameInv
<1>3. PICK frame, a : frame = handler[c].frame /\ a = frame.attempt
  OBVIOUS
<1>4. frame \in Rows /\ frame.type = "completed" /\ handler[c].items \in Seq(Accounts)
  <2>1. handler[c] \in Works
    BY <1>2 DEF WireOK
  <2> QED
    BY <1>2, <1>3, <2>1 DEF Works, HandlerOK
<1>5. a \in Written /\ frame = CompletedRow(a, found[a])
  BY <1>3, <1>4, RowOf
<1>6. WireOK' /\ HandlerOK'
  <2>1. link' \in {link, None}
    BY DEF Converge, Rejected, Closed
  <2>2. handler' = Idle(c) \/ handler' = [handler EXCEPT ![c].step = "converged"]
    BY DEF Converge, Rejected
  <2> QED
    BY <1>1, <1>2, <2>1, <2>2, Finishes
<1>7. AccumulatorOK'
  BY <1>1, SameRows DEF IInv, FrameInv, AccumulatorOK
<1>8. CASE UNCHANGED <<task, attempts, targets, page, excluded, confirmation>>
  BY <1>1, <1>6, <1>7, <1>8, RunStays, ReadStays DEF IInv, FrameInv
<1>9. CASE ~UNCHANGED <<task, attempts, targets, page, excluded, confirmation>>
  <2>1. /\ attempts[a].status \notin Ended /\ ActiveAttempt(a)
        /\ IF frame.outcome = "completed" THEN ReplaceTargets(a, handler[c].items)
           ELSE UNCHANGED <<targets, page, excluded, confirmation>>
        /\ task' = [task EXCEPT !.status = OutcomeStatus[frame.outcome], !.revision = @ + 1]
        /\ attempts' = [attempts EXCEPT ![a].status = EndStatus(frame.outcome)]
    BY <1>3, <1>9, Zenon DEF Converge
  <2>2. frame.outcome = found[a].outcome /\ found[a] \in Results /\ frame.outcome \in Outcomes
    BY <1>5 DEF CompletedRow, IInv, RunInv, FoundOK, Written, Results
  <2>3. PICK n, status, ended :
          /\ n \in Nat /\ n = Len(attempts) /\ n <= MaxAttempts /\ a \in 1..n
          /\ status = OutcomeStatus[frame.outcome] /\ ended = EndStatus(frame.outcome)
    BY <1>5 DEF IInv, RunInv, TaskTypeOK, FoundOK
  <2>4. /\ status \in {"awaiting_confirmation", "awaiting_platform_login", "awaiting_human", "failed"}
        /\ ended \in Ended
        /\ status = "awaiting_confirmation" => frame.outcome = "completed"
    BY <2>2, <2>3 DEF Outcomes, OutcomeStatus, EndStatus, Ended
  <2>5. task \in [status : TaskStatuses, revision : Nat, current : Nat] /\ task.current = a
    BY <2>1 DEF IInv, RunInv, TaskTypeOK, Tasks, ActiveAttempt
  <2>6. task' = [status |-> status, revision |-> task.revision + 1, current |-> a]
    <3>1. task' = [task EXCEPT !.status = status, !.revision = task.revision + 1]
      BY <2>1, <2>3
    <3> QED
      BY <2>5, <3>1
  <2>7. task' \in Tasks
    <3>1. status \in TaskStatuses
      BY <2>4 DEF TaskStatuses
    <3>2. task.revision + 1 \in Nat /\ a \in Nat
      BY <2>3, <2>5
    <3> QED
      BY <2>6, <3>1, <3>2 DEF Tasks
  <2>8. attempts \in Seq([kind : Kinds, status : AttemptStatuses])
    BY DEF IInv, RunInv, TaskTypeOK
  <2>9. PICK old, new : old = attempts[a] /\ new = [old EXCEPT !.status = ended]
    OBVIOUS
  <2>10. old \in [kind : Kinds, status : AttemptStatuses]
    BY <2>3, <2>8, <2>9, ElementOfSeq
  <2>11. new \in [kind : Kinds, status : AttemptStatuses] /\ new.status = ended
    <3>1. ended \in AttemptStatuses
      BY <2>4 DEF AttemptStatuses
    <3> QED
      BY <2>9, <2>10, <3>1
  <2>12. /\ attempts' \in Seq([kind : Kinds, status : AttemptStatuses])
         /\ Len(attempts') = n /\ DOMAIN attempts = 1..n /\ DOMAIN attempts' = 1..n
         /\ attempts'[a] = new /\ \A b \in 1..n : b # a => attempts'[b] = attempts[b]
    <3>1. attempts' = [attempts EXCEPT ![a] = new]
      BY <2>1, <2>3, <2>9
    <3> QED
      BY <2>3, <2>8, <2>11, <3>1, ExceptSeq
  <2>13. TaskTypeOK'
    <3>1. task'.current \in DOMAIN attempts' /\ Len(attempts') <= MaxAttempts
      BY <2>3, <2>6, <2>12
    <3> QED
      BY <2>7, <2>12, <3>1 DEF TaskTypeOK
  <2>14. FoundOK'
    BY <1>1, <2>12, SameRows DEF IInv, RunInv, FoundOK
  <2>15. OpenOK'
    <3>1. \A b \in 1..n : attempts'[b].status \in Ended
      <4> SUFFICES ASSUME NEW b \in 1..n PROVE attempts'[b].status \in Ended
        OBVIOUS
      <4>1. CASE b = a
        BY <2>4, <2>11, <2>12, <4>1
      <4>2. CASE b # a
        BY <2>5, <2>12, <4>2 DEF IInv, RunInv, OpenOK
      <4> QED
        BY <4>1, <4>2
    <3>2. task'.status # "running"
      BY <2>4, <2>6
    <3> QED
      BY <2>12, <3>1, <3>2 DEF OpenOK
  <2>16. ViewOK' /\ RequestsOK'
    <3>1. task'.revision = task.revision + 1
      BY <2>6
    <3> QED
      BY <1>1, <3>1, ReadersLate DEF IInv, RunInv
  <2>17. TargetsOK' /\ ConfirmedIsSeen'
    <3>1. CASE frame.outcome = "completed"
      <4>1. handler[c].items = found[a].items
        BY <1>2, <1>3, <3>1 DEF HandlerOK
      <4>2. targets' = Evaluated(handler[c].items) /\ page' = a /\ confirmation' = None
        BY <2>1, <3>1 DEF ReplaceTargets
      <4>3. targets' \in Seq([account : Accounts, disposition : Dispositions])
        BY <1>4, <4>2, EvaluatedTyped
      <4>4. PersistedItems' = found[a].items
        <5>1. PersistedItems' = [i \in DOMAIN targets' |-> targets'[i].account]
          BY DEF PersistedItems
        <5> QED
          BY <1>4, <4>1, <4>2, <5>1, EvaluatedTyped
      <4>5. task'.current = a
        BY <2>6
      <4>6. TargetsAreFound'
        BY <1>1, <2>2, <3>1, <4>2, <4>4, <4>5 DEF TargetsAreFound
      <4>7. TargetsOK'
        BY <1>1, <1>5, <4>2, <4>3, <4>6, SameRows DEF TargetsOK
      <4> QED
        BY <4>2, <4>7 DEF ConfirmedIsSeen
    <3>2. CASE frame.outcome # "completed"
      <4>1. UNCHANGED <<targets, page, excluded, confirmation>>
        BY <2>1, <3>2
      <4>2. task'.status # "awaiting_confirmation"
        BY <2>4, <2>6, <3>2
      <4>3. TargetsOK'
        BY <1>1, <4>1, <4>2, TargetsStay DEF IInv, ReadInv
      <4> QED
        BY <4>1, <4>3 DEF IInv, ReadInv, ConfirmedIsSeen
    <3> QED
      BY <3>1, <3>2
  <2> QED
    BY <1>6, <1>7, <2>13, <2>14, <2>15, <2>16, <2>17 DEF IInv, RunInv, FrameInv, ReadInv
<1> QED
  BY <1>8, <1>9

(* What the reader's client does leaves task, targets and frames alone.      *)
LEMMA ReaderOnly ==
  ASSUME IInv, UNCHANGED <<database, wire, executor>>, ViewOK', RequestsOK'
  PROVE  IInv'
<1>1. UNCHANGED <<task, attempts, targets, page, excluded, confirmation, found>>
  BY DEF database, executor
<1>2. RunInv' /\ FrameInv'
  BY <1>1, RunStays, FrameStays DEF IInv
<1>3. TargetsOK'
  BY <1>1, SameRows DEF IInv, ReadInv, TargetsOK, TargetsAreFound, PersistedItems
<1> QED
  BY <1>1, <1>2, <1>3 DEF IInv, ReadInv, ConfirmedIsSeen

(* Requests that stay or go.                                                 *)
LEMMA RequestsStay ==
  ASSUME RequestsOK, requests' \subseteq requests, UNCHANGED <<task, targets, page, excluded>>
  PROVE  RequestsOK'
<1>1. Selected' = Selected
  BY DEF Selected, SelectedAmong, Id
<1> QED
  BY <1>1 DEF RequestsOK

(* What is selected among the targets is read afresh with every page.        *)
LEMMA BeginKeeps ==
  ASSUME IInv, BeginRead
  PROVE  IInv'
<1>1. UNCHANGED <<database, wire, executor, requests, sent>>
      /\ UNCHANGED <<task, attempts, targets, page, excluded, confirmation>>
  BY DEF BeginRead, database
<1>2. RequestsOK'
  BY <1>1, RequestsStay DEF IInv, ReadInv
<1>3. task.revision \in Nat
  BY DEF IInv, RunInv, TaskTypeOK, Tasks
<1>4. ViewOK'
  <2>1. CASE view' = None
    BY <2>1 DEF ViewOK
  <2>2. CASE view = None /\ view' = [step |-> "row", row |-> task, upto |-> 0, page |-> 0,
                                    more |-> TRUE, selected |-> {}]
    <3>1. Len(targets) \in Nat
      BY DEF IInv, ReadInv, TargetsOK
    <3>2. SelectedAmong(1..0) = {}
      BY DEF SelectedAmong
    <3>3. SelectedAmong(1..0)' = SelectedAmong(1..0)
      BY <1>1 DEF SelectedAmong, Id
    <3>4. view'.upto = 0 /\ view'.selected = {} /\ view'.row = task /\ view'.step = "row"
          /\ DOMAIN view' = {"step", "row", "upto", "page", "more", "selected"}
      BY <2>2
    <3>5. (view'.upto \in 0..Len(targets')) /\ view'.selected = SelectedAmong(1..0)'
      BY <1>1, <3>1, <3>2, <3>3, <3>4
    <3> QED
      BY <1>1, <1>3, <3>4, <3>5 DEF ViewOK, SelectedAmong, Id
  <2>3. CASE /\ view # None /\ view.step = "page" /\ view.more
             /\ task.revision = view.row.revision
             /\ view' = [view EXCEPT !.step = "row", !.row = task]
    <3>1. /\ DOMAIN view = {"step", "row", "upto", "page", "more", "selected"}
          /\ view.upto \in 0..Len(targets)
          /\ view.selected = SelectedAmong(1..view.upto)
      BY <2>3 DEF IInv, ReadInv, ViewOK
    <3>2. view'.upto = view.upto /\ view'.selected = view.selected /\ view'.row = task
          /\ view'.step = "row" /\ DOMAIN view' = DOMAIN view
      BY <2>3, <3>1
    <3> QED
      BY <1>1, <1>3, <3>1, <3>2 DEF ViewOK, SelectedAmong, Id
  <2> QED
    BY <2>1, <2>2, <2>3 DEF BeginRead
<1> QED
  BY <1>1, <1>2, <1>4, ReaderOnly

(* A page adds what is selected among its targets.                           *)
LEMMA FinishKeeps ==
  ASSUME IInv, FinishRead
  PROVE  IInv'
<1>1. UNCHANGED <<database, wire, executor, requests, sent>>
      /\ UNCHANGED <<task, attempts, targets, page, excluded, confirmation>>
  BY DEF FinishRead, database
<1>2. RequestsOK'
  BY <1>1, RequestsStay DEF IInv, ReadInv
<1>3. ViewOK'
  <2>1. CASE view' = None
    BY <2>1 DEF ViewOK
  <2>2. CASE view' # None
    <3>1. PICK upto : /\ upto = IF view.upto + PageSize < Len(targets)
                                  THEN view.upto + PageSize ELSE Len(targets)
                      /\ view' = [view EXCEPT !.step = "page", !.page = page, !.upto = upto,
                              !.more = upto < Len(targets),
                              !.selected = @ \cup SelectedAmong((view.upto + 1)..upto)]
      BY <2>2 DEF FinishRead
    <3>2. /\ view # None
          /\ DOMAIN view = {"step", "row", "upto", "page", "more", "selected"}
          /\ view.row.revision \in Nat /\ view.row.revision <= task.revision
      BY DEF FinishRead, IInv, ReadInv, ViewOK
    <3>3. /\ DOMAIN view' = {"step", "row", "upto", "page", "more", "selected"}
          /\ view'.row = view.row /\ view'.upto = upto /\ view'.more = (upto < Len(targets))
          /\ view'.selected = view.selected \cup SelectedAmong((view.upto + 1)..upto)
      BY <3>1, <3>2
    <3>4. ASSUME view.row.revision = task.revision
          PROVE  /\ upto \in 0..Len(targets)
                 /\ view'.selected = SelectedAmong(1..upto)
                 /\ ~view'.more => upto = Len(targets)
      <4>1. PICK from, len : from = view.upto /\ len = Len(targets)
        OBVIOUS
      <4>2. len \in Nat /\ from \in 0..len /\ view.selected = SelectedAmong(1..from)
        BY <3>2, <3>4, <4>1 DEF IInv, ReadInv, ViewOK, TargetsOK
      <4>3. upto \in 0..len /\ from <= upto /\ (~(upto < len) => upto = len)
        BY <3>1, <4>1, <4>2, DiscoveryAssumption
      <4>4. 1..upto = (1..from) \cup ((from + 1)..upto)
        BY <4>2, <4>3
      <4>5. SelectedAmong(1..upto) = SelectedAmong(1..from) \cup SelectedAmong((from + 1)..upto)
        BY <4>4 DEF SelectedAmong
      <4>6. view'.selected = SelectedAmong(1..upto)
        BY <3>3, <4>1, <4>2, <4>5
      <4>7. ~view'.more => upto = Len(targets)
        BY <3>3, <4>1, <4>3
      <4> QED
        BY <4>1, <4>3, <4>6, <4>7
    <3>5. SelectedAmong(1..upto)' = SelectedAmong(1..upto)
      BY <1>1 DEF SelectedAmong, Id
    <3> QED
      BY <1>1, <3>2, <3>3, <3>4, <3>5 DEF ViewOK, SelectedAmong, Id
  <2> QED
    BY <2>1, <2>2
<1> QED
  BY <1>1, <1>2, <1>3, ReaderOnly

(* A request carries what its sender saw, and that is what is selected.      *)
LEMMA SendKeeps ==
  ASSUME IInv, Send
  PROVE  IInv'
<1>1. UNCHANGED <<database, wire, executor>> /\ view' = None
      /\ UNCHANGED <<task, attempts, targets, page, excluded, confirmation>>
  BY DEF Send, database
<1>2. ViewOK'
  BY <1>1 DEF ViewOK
<1>3. PICK r : /\ requests' = requests \cup {r}
               /\ r.expected = view.row.revision /\ r.seen = view.selected
  <2>1. PICK kind, excluding : requests' = requests \cup {Request(kind, excluding)}
    BY DEF Send
  <2>2. /\ Request(kind, excluding).expected = view.row.revision
        /\ Request(kind, excluding).seen = view.selected
    BY DEF Request
  <2> QED
    BY <2>1, <2>2
<1>4. Selected' = Selected
  BY <1>1 DEF Selected, SelectedAmong, Id
<1>5. /\ r.expected \in Nat /\ r.expected <= task.revision
      /\ r.expected = task.revision => r.seen = Selected
  <2>1. view # None /\ view.step = "page" /\ ~view.more
    BY DEF Send
  <2>2. /\ view.row.revision \in Nat /\ view.row.revision <= task.revision
        /\ view.row.revision = task.revision => view.selected = SelectedAmong(1..Len(targets))
    BY <2>1 DEF IInv, ReadInv, ViewOK
  <2>3. DOMAIN targets = 1..Len(targets)
    BY DEF IInv, ReadInv, TargetsOK
  <2> QED
    BY <1>3, <2>2, <2>3 DEF Selected
<1>6. RequestsOK'
  BY <1>1, <1>3, <1>4, <1>5 DEF IInv, ReadInv, RequestsOK
<1> QED
  BY <1>1, <1>2, <1>6, ReaderOnly

(* A request about anything but the current revision is a conflict.         *)
LEMMA RefuseKeeps ==
  ASSUME IInv, NEW request \in requests, Refuse(request)
  PROVE  IInv'
<1>1. UNCHANGED <<database, wire, executor, view>> /\ requests' \subseteq requests
      /\ UNCHANGED <<task, attempts, targets, page, excluded, confirmation>>
  BY DEF Refuse, database
<1>2. RequestsOK'
  BY <1>1, RequestsStay DEF IInv, ReadInv
<1>3. ViewOK'
  BY <1>1 DEF IInv, ReadInv, ViewOK, SelectedAmong, Id
<1> QED
  BY <1>1, <1>2, <1>3, ReaderOnly

(* A request that is served moves the task on.                               *)
LEMMA Serving ==
  ASSUME IInv, NEW status \in {"awaiting_confirmation", "queued"},
         NEW current \in {0, task.current}, Record(status, current),
         requests' \subseteq requests, UNCHANGED <<attempts, targets, page, wire, executor, view>>,
         \A a \in DOMAIN attempts : attempts[a].status \in Ended,
         task.status = "awaiting_confirmation", status = "awaiting_confirmation" => current = task.current,
         ConfirmedIsSeen'
  PROVE  IInv'
<1>1. task \in [status : TaskStatuses, revision : Nat, current : Nat]
      /\ task.current \in {0} \cup DOMAIN attempts
  BY DEF IInv, RunInv, TaskTypeOK, Tasks
<1>2. task' = [status |-> status, revision |-> task.revision + 1, current |-> current]
  BY DEF Record
<1>3. task'.status = status /\ task'.revision = task.revision + 1 /\ task'.current = current
      /\ task'.current \in {0} \cup DOMAIN attempts /\ task' \in Tasks
  BY <1>1, <1>2 DEF Tasks, TaskStatuses
<1>4. UNCHANGED found
  BY DEF executor
<1>5. RunInv'
  BY <1>3, <1>4, SameRows DEF IInv, RunInv, TaskTypeOK, FoundOK, OpenOK
<1>6. FrameInv'
  BY FrameStays DEF IInv
<1>7. TargetsOK'
  BY <1>3, <1>4, SameRows DEF IInv, ReadInv, TargetsOK, TargetsAreFound, PersistedItems
<1>8. ViewOK' /\ RequestsOK'
  BY <1>3, ReadersLate DEF IInv, RunInv
<1> QED
  BY <1>5, <1>6, <1>7, <1>8 DEF IInv, ReadInv

(* A task that awaits a confirmation has no open attempt.                    *)
LEMMA NothingOpen ==
  ASSUME IInv, task.status = "awaiting_confirmation"
  PROVE  \A a \in DOMAIN attempts : attempts[a].status \in Ended
BY DEF IInv, RunInv, OpenOK

(* Replaced exclusions make a new revision.                                 *)
LEMMA ReplaceKeeps ==
  ASSUME IInv, NEW request \in requests, ReplaceExclusions(request)
  PROVE  IInv'
<1>1. task.status = "awaiting_confirmation" /\ requests' \subseteq requests
      /\ Record("awaiting_confirmation", task.current)
      /\ UNCHANGED <<attempts, targets, page, confirmation, wire, executor, view>>
  BY DEF ReplaceExclusions, Current, Arrives
<1>2. ConfirmedIsSeen'
  BY <1>1 DEF IInv, ReadInv, ConfirmedIsSeen
<1> QED
  BY <1>1, <1>2, NothingOpen, Serving

(* A confirmation is of what is selected in the revision the user has       *)
(* seen.                                                                    *)
LEMMA ConfirmKeeps ==
  ASSUME IInv, NEW request \in requests, Confirm(request)
  PROVE  IInv'
<1>1. task.status = "awaiting_confirmation" /\ requests' \subseteq requests
      /\ Record("queued", 0) /\ task.revision = request.expected
      /\ confirmation' = [selected |-> Selected, seen |-> request.seen, page |-> page]
      /\ UNCHANGED <<attempts, targets, page, wire, executor, view>>
  BY DEF Confirm, Current, Arrives
<1>2. request.seen = Selected
  BY <1>1 DEF IInv, ReadInv, RequestsOK
<1>3. ConfirmedIsSeen'
  BY <1>1, <1>2 DEF ConfirmedIsSeen
<1> QED
  BY <1>1, <1>3, NothingOpen, Serving

-----------------------------------------------------------------------------
(* The invariant and what it gives *)

(* At the start there is no attempt and nothing to confirm.                 *)
LEMMA InitHolds ==
  ASSUME DiscoveryInit
  PROVE  IInv
<1>1. Written = {}
  BY DEF DiscoveryInit, Written
<1>2. TaskTypeOK
  BY <1>1, DiscoveryAssumption DEF DiscoveryInit, TaskTypeOK, Tasks, TaskStatuses
<1>3. FoundOK /\ OpenOK
  BY <1>1 DEF DiscoveryInit, FoundOK, OpenOK
<1>4. FrameInv
  BY DiscoveryAssumption DEF DiscoveryInit, FrameInv, WireOK, HandlerOK, AccumulatorOK
<1>5. TargetsOK
  BY DEF DiscoveryInit, TargetsOK, TargetsAreFound
<1>6. ViewOK /\ RequestsOK /\ ConfirmedIsSeen
  BY DEF DiscoveryInit, ViewOK, RequestsOK, ConfirmedIsSeen
<1> QED
  BY <1>2, <1>3, <1>4, <1>5, <1>6 DEF IInv, RunInv, ReadInv

(* Every step keeps what is proved of targets, frames and confirmations.    *)
LEMMA NextHolds ==
  ASSUME IInv, [DiscoveryNext]_discoveryVars
  PROVE  IInv'
<1>1. CASE UNCHANGED discoveryVars
  <2>1. UNCHANGED <<task, attempts, targets, page, excluded, confirmation, accumulator, handler,
                    found, outbox, link, connection, view, requests, sent>>
    BY <1>1 DEF discoveryVars
  <2>2. UNCHANGED <<wire, executor>>
    BY <2>1 DEF wire, executor
  <2> QED
    BY <2>1, <2>2, RunStays, FrameStays, ReadStays DEF IInv
<1>2. CASE StartDiscovery \/ StartExecution
  BY <1>2, StartKeeps
<1>3. CASE ExecutionHandsOver
  BY <1>3, HandsOverKeeps
<1>4. CASE Connect
  BY <1>4, ConnectKeeps
<1>5. CASE Restart
  BY <1>5, RestartKeeps
<1>6. CASE ExpireRow
  BY <1>6, ExpireKeeps
<1>7. CASE Accept
  BY <1>7, AcceptKeeps
<1>8. CASE AuthorizeBatch
  BY <1>8, AuthorizeKeeps
<1>9. CASE TakeCompleted
  BY <1>9, TakeKeeps
<1>10. CASE \E a \in DOMAIN attempts, search \in SearchFailures : RunDiscovery(a, search, <<>>)
  <2>1. <<>> \in Seq(SUBSET Accounts)
    OBVIOUS
  <2> QED
    BY <1>10, <2>1, RunKeeps
<1>11. CASE \E a \in DOMAIN attempts : \E rows \in SearchPages :
              RunDiscovery(a, "results_ready", rows)
  <2>1. SearchPages \subseteq Seq(SUBSET Accounts)
    BY DiscoveryAssumption
  <2> QED
    BY <1>11, <2>1, RunKeeps
<1>12. CASE \E c \in 1..MaxConnections : AddBatch(c) \/ Converge(c) \/ ClearAccumulator(c)
  BY <1>12, AddKeeps, ConvergeKeeps, ClearKeeps
<1>13. CASE BeginRead
  BY <1>13, BeginKeeps
<1>14. CASE FinishRead
  BY <1>14, FinishKeeps
<1>15. CASE Send
  BY <1>15, SendKeeps
<1>16. CASE \E request \in requests :
              ReplaceExclusions(request) \/ Confirm(request) \/ Refuse(request)
  BY <1>16, ReplaceKeeps, ConfirmKeeps, RefuseKeeps
<1> QED
  BY <1>1, <1>2, <1>3, <1>4, <1>5, <1>6, <1>7, <1>8, <1>9, <1>10, <1>11, <1>12, <1>13, <1>14,
     <1>15, <1>16 DEF DiscoveryNext

(* The invariant holds in every state.                                       *)
THEOREM Invariance == DiscoverySpec => []IInv
<1>1. DiscoveryInit => IInv
  BY InitHolds
<1>2. IInv /\ [DiscoveryNext]_discoveryVars => IInv'
  BY NextHolds
<1> QED
  BY <1>1, <1>2, PTL DEF DiscoverySpec

(* What a person is asked to confirm is what the current discovery found     *)
(* (TaskDiscoveryBatchAccumulator, converge).                                *)
THEOREM TargetsFound == DiscoverySpec => []TargetsAreFound
<1>1. IInv => TargetsAreFound
  BY DEF IInv, ReadInv, TargetsOK
<1> QED
  BY <1>1, Invariance, PTL

(* A confirmation covers exactly what its sender had been shown as selected  *)
(* (confirm, read_page).                                                     *)
THEOREM ConfirmedSeen == DiscoverySpec => []ConfirmedIsSeen
<1>1. IInv => ConfirmedIsSeen
  BY DEF IInv, ReadInv
<1> QED
  BY <1>1, Invariance, PTL

(* While an execution is open, the targets and the confirmation it runs from *)
(* stay as they are (start, evaluate_and_replace).                           *)
LEMMA StandsStep ==
  ASSUME IInv, [DiscoveryNext]_discoveryVars,
         NEW a \in DOMAIN attempts, attempts[a].kind = "execution", attempts[a].status \notin Ended
  PROVE  UNCHANGED <<targets, excluded, confirmation>>
<1>1. /\ task.status \in {"running", "awaiting_human"}
  BY DEF IInv, RunInv, OpenOK
<1>2. CASE \/ UNCHANGED discoveryVars
           \/ StartDiscovery \/ StartExecution \/ ExecutionHandsOver
           \/ Connect \/ Restart \/ ExpireRow
           \/ Accept \/ AuthorizeBatch \/ TakeCompleted
           \/ BeginRead \/ FinishRead \/ Send
  BY <1>2 DEF discoveryVars, StartDiscovery, StartExecution, ExecutionHandsOver, Connect, Restart,
     ExpireRow, Accept, AuthorizeBatch, TakeCompleted, BeginRead, FinishRead, Send, database
<1>3. CASE \E b, search, rows : RunDiscovery(b, search, rows)
  BY <1>3 DEF RunDiscovery, database
<1>4. ASSUME NEW c \in 1..MaxConnections, AddBatch(c) \/ Converge(c) \/ ClearAccumulator(c)
      PROVE  UNCHANGED <<targets, excluded, confirmation>>
  <2>1. CASE AddBatch(c) \/ ClearAccumulator(c)
    BY <2>1 DEF AddBatch, ClearAccumulator, database
  <2>2. CASE Converge(c)
    BY <1>1, <2>2 DEF Converge, ActiveAttempt
  <2> QED
    BY <1>4, <2>1, <2>2
<1>5. ASSUME NEW request \in requests,
             ReplaceExclusions(request) \/ Confirm(request) \/ Refuse(request)
      PROVE  UNCHANGED <<targets, excluded, confirmation>>
  BY <1>1, <1>5 DEF ReplaceExclusions, Confirm, Refuse, Current, database
<1> QED
  BY <1>2, <1>3, <1>4, <1>5 DEF DiscoveryNext

(* The same of every step of the specification.                              *)
THEOREM ConfirmationHolds == DiscoverySpec => ConfirmationStands
<1> DEFINE Step == (\E a \in DOMAIN attempts :
                      attempts[a].kind = "execution" /\ attempts[a].status \notin Ended)
                    => UNCHANGED <<targets, excluded, confirmation>>
<1>1. IInv /\ [DiscoveryNext]_discoveryVars => [Step]_discoveryVars
  BY StandsStep
<1> QED
  BY <1>1, Invariance, PTL DEF DiscoverySpec, ConfirmationStands
=============================================================================
