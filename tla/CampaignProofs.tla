--------------------------- MODULE CampaignProofs ---------------------------
(***************************************************************************)
(* Rollout implements Campaign: every step of the goroutines, the devices   *)
(* and a crash is a step of the promise or leaves it alone, for every set   *)
(* of devices and versions, every percentage and any number of rollouts.    *)
(***************************************************************************)
EXTENDS RolloutProofs

-----------------------------------------------------------------------------
(* The arithmetic of batches *)

LEMMA TimesMonotone ==
    ASSUME NEW a \in Nat, NEW b \in Nat, NEW s \in Nat, a <= b
    PROVE  a * s <= b * s
<1>1. b * s = a * s + (b - a) * s
  OBVIOUS
<1>2. (b - a) * s \in Nat /\ a * s \in Nat
  OBVIOUS
<1> QED BY <1>1, <1>2

\* Division with remainder.
LEMMA Quotient ==
    ASSUME NEW x \in Nat, NEW s \in Nat \ {0}
    PROVE  /\ x \div s \in Nat
           /\ (x \div s) * s <= x
           /\ x < (x \div s) * s + s
OBVIOUS

\* batchSize is the least number of devices that is the percentage or more.
THEOREM BatchSizeIsShare ==
    ASSUME NEW n \in Nat \ {0}, NEW p \in Percentages
    PROVE  /\ BatchSize(n, p) \in 1..n
           /\ Promise!IsShare(BatchSize(n, p), n, p)
<1> DEFINE m == n * p
<1>1. p \in 1..100
  BY BatchAssumption
<1>2. m \in Nat /\ m >= 1 /\ m <= 100 * n
  BY <1>1
<1>3. BatchSize(n, p) = (m + 99) \div 100
  BY DEF BatchSize
<1> HIDE DEF m
<1>4. (m + 99) \div 100 \in 1..n /\ ((m + 99) \div 100) * 100 >= m /\ ((m + 99) \div 100 - 1) * 100 < m
  BY <1>2
<1> QED BY <1>3, <1>4 DEF m, Promise!IsShare

\* As many devices come before the place m of an order as there are places.
LEMMA FirstOnes ==
    ASSUME NEW E, IsFiniteSet(E), NEW order \in Orders(E), NEW m \in 0..Cardinality(E)
    PROVE  Cardinality({e \in E : order[e] < m}) = m
<1> DEFINE n == Cardinality(E)
           S == {e \in E : order[e] < m}
           g == [e \in S |-> order[e]]
<1>1. n \in Nat
  BY FS_CardinalityType
<1>2. order \in Injection(E, 0..(n - 1))
  BY DEF Orders, Injection, IsInjective
<1>3. IsFiniteSet(0..(n - 1)) /\ Cardinality(0..(n - 1)) = n
  <2> HIDE DEF n
  <2> QED BY <1>1, FS_Interval
<1>4. order \in Surjection(E, 0..(n - 1))
  BY <1>2, <1>3, FS_Injection
<1>5. g \in Bijection(S, 0..(m - 1))
  <2>1. g \in [S -> 0..(m - 1)]
    BY <1>1 DEF Orders
  <2>2. \A x, y \in S : g[x] = g[y] => x = y
    BY DEF Orders
  <2>3. \A i \in 0..(m - 1) : \E e \in S : g[e] = i
    <3>1. \A i \in 0..(m - 1) : i \in 0..(n - 1)
      BY <1>1
    <3>2. \A i \in 0..(m - 1) : \E e \in E : order[e] = i
      BY <1>4, <3>1 DEF Surjection
    <3> QED BY <3>2
  <2> HIDE DEF g, S
  <2>4. g \in Injection(S, 0..(m - 1))
    BY <2>1, <2>2 DEF Injection, IsInjective
  <2> QED BY <2>1, <2>3, <2>4 DEF Bijection, Surjection
<1>6. IsFiniteSet(S)
  BY FS_Subset
<1> HIDE DEF g, S
<1>7. Cardinality(0..(m - 1)) = Cardinality(S)
  BY <1>5, <1>6, FS_Bijection DEF ExistsBijection
<1>8. Cardinality(0..(m - 1)) = m
  BY <1>1, FS_Interval
<1> QED BY <1>7, <1>8 DEF S

\* No more devices than places in a stretch of the order.
LEMMA SomeOnes ==
    ASSUME NEW E, IsFiniteSet(E), NEW order \in Orders(E), NEW k \in Nat,
           NEW size \in Nat, NEW S \in SUBSET E,
           \A e \in S : k <= order[e] /\ order[e] < k + size
    PROVE  Cardinality(S) <= size
<1> DEFINE T == k..(k + size - 1)
           g == [e \in S |-> order[e]]
<1>1. IsFiniteSet(T) /\ Cardinality(T) = size
  BY FS_Interval
<1>2. g \in [S -> T]
  BY DEF Orders
<1>3. \A x, y \in S : g[x] = g[y] => x = y
  BY DEF Orders
<1> HIDE DEF T, g
<1>4. g \in Injection(S, T)
  BY <1>2, <1>3 DEF Injection, IsInjective
<1> QED BY <1>1, <1>4, FS_Injection

\* ... and how a quotient compares.
LEMMA QuotientOrder ==
    ASSUME NEW x \in Nat, NEW s \in Nat \ {0}, NEW k \in Nat
    PROVE  x \div s < k <=> x < k * s
<1> DEFINE q == x \div s
<1>1. q \in Nat /\ q * s <= x /\ x < q * s + s
  BY Quotient
<1>2. (q + 1) * s = q * s + s
  BY <1>1
<1> HIDE DEF q
<1>3. CASE q < k
  <2>1. (q + 1) * s <= k * s
    BY <1>1, <1>3, TimesMonotone
  <2>2. k * s \in Nat /\ q * s \in Nat
    BY <1>1
  <2> QED BY <1>1, <1>2, <1>3, <2>1, <2>2 DEF q
<1>4. CASE k <= q
  <2>1. k * s <= q * s
    BY <1>1, <1>4, TimesMonotone
  <2>2. k * s \in Nat /\ q * s \in Nat
    BY <1>1
  <2> QED BY <1>1, <1>4, <2>1, <2>2 DEF q
<1> QED BY <1>1, <1>3, <1>4

\* The cardinality of the abstract specification's own library.
LEMMA SameCardinality == ASSUME NEW S PROVE Promise!Cardinality(S) = Cardinality(S)
BY Zenon DEF Cardinality, Promise!Cardinality

\* What CreateRollout computes divides the devices: batch after batch is full,
\* and none is larger than the size, whatever the order and the size are.
THEOREM BatchesDivide ==
    ASSUME NEW E \in SUBSET Devices, NEW order \in Orders(E), NEW size \in Nat \ {0},
           NEW f, f = [d \in Devices |-> IF d \in E THEN BatchNumber(order[d], size) ELSE 0]
    PROVE  /\ f \in [Devices -> 0..Cardinality(E)]
           /\ Promise!Divided(E, f, size)
<1> DEFINE n == Cardinality(E)
           q == [e \in E |-> order[e] \div size]
<1>1. IsFiniteSet(E) /\ n \in Nat
  BY DeviceAssumption, FS_Subset, FS_CardinalityType
<1>2. \A e \in E : order[e] \in Nat /\ order[e] < n
  BY <1>1 DEF Orders
<1>3. \A e \in E : /\ q[e] \in Nat
                   /\ q[e] * size <= order[e]
                   /\ order[e] < q[e] * size + size
  BY <1>2, Quotient
<1>4. \A e \in E : \A k \in Nat : q[e] < k <=> order[e] < k * size
  BY <1>2, QuotientOrder
<1>5. f = [d \in Devices |-> IF d \in E THEN q[d] + 1 ELSE 0]
  BY DEF BatchNumber
<1> HIDE DEF q, n
<1>6. f \in [Devices -> 0..n]
  <2>1. \A e \in E : q[e] < n
    <3> TAKE e \in E
    <3>1. 1 * n <= size * n
      BY <1>1, TimesMonotone
    <3>2. n <= n * size /\ n * size \in Nat
      BY <1>1, <3>1
    <3>3. order[e] < n * size
      BY <1>1, <1>2, <3>2
    <3> QED BY <1>1, <1>4, <3>3
  <2> QED BY <1>1, <1>3, <1>5, <2>1
<1>7. \A d \in Devices : f[d] > 0 <=> d \in E
  BY <1>3, <1>5
<1>8. ASSUME NEW d \in E
      PROVE  /\ Cardinality({e \in E : f[e] < f[d]}) = (f[d] - 1) * size
             /\ Cardinality({e \in E : f[e] = f[d]}) <= size
  <2> DEFINE m == q[d] * size
             B == {e \in E : f[e] = f[d]}
  <2>1. q[d] \in Nat /\ f[d] - 1 = q[d]
    BY <1>3, <1>5
  <2>2. m \in 0..n
    <3>1. m <= order[d] /\ m \in Nat
      BY <1>3, <2>1
    <3>2. order[d] \in Nat /\ order[d] < n
      BY <1>2
    <3> HIDE DEF m
    <3> QED BY <1>1, <3>1, <3>2
  <2>3. \A e \in E : f[e] < f[d] <=> q[e] < q[d]
    BY <1>3, <1>5
  <2>4. {e \in E : f[e] < f[d]} = {e \in E : order[e] < m}
    BY <1>4, <2>1, <2>3
  <2>5. Cardinality({e \in E : order[e] < m}) = m
    <3> HIDE DEF m
    <3> QED BY <1>1, <2>2, FirstOnes DEF n
  <2>6. \A e \in B : m <= order[e] /\ order[e] < m + size
    <3> TAKE e \in B
    <3>1. e \in E /\ f[e] = q[e] + 1 /\ f[d] = q[d] + 1 /\ f[e] = f[d]
      BY <1>5
    <3>3. q[e] = q[d]
      BY <1>3, <3>1
    <3>2. q[e] * size <= order[e] /\ order[e] < q[e] * size + size
      BY <1>3, <3>1
    <3> QED BY <3>2, <3>3
  <2>7. Cardinality(B) <= size
    <3>1. m \in Nat
      BY <1>1, <2>2
    <3>2. B \in SUBSET E /\ size \in Nat
      OBVIOUS
    <3> HIDE DEF B, m
    <3> QED BY <1>1, <2>6, <3>1, <3>2, SomeOnes
  <2> QED BY <2>1, <2>4, <2>5, <2>7
<1>9. \A S : Promise!Cardinality(S) = Cardinality(S)
  BY SameCardinality
<1> QED BY <1>6, <1>7, <1>8, <1>9 DEF Promise!Divided, n

-----------------------------------------------------------------------------
(* What the refinement needs beside the rules of the other proofs *)

\* A command that is kept somewhere was published, and so may be flashed; who
\* asks is one of those who do; the batch being sent has a number.
KeptRule ==
    /\ \A d \in Devices : /\ retained[d] # NoCommand => <<d, retained[d]>> \in told
                          /\ device[d].queued # NoCommand => <<d, device[d].queued>> \in told
    /\ asking.pc # "idle" => asking.d \in Asked
    /\ worker.pc \in Sending => worker.batch # 0

CInv == TypeOK /\ Refs /\ RanRule /\ UpdatedRule /\ SentRule /\ BatchRule /\ KeptRule

LEMMA CInvInit == Init => CInv
<1> SUFFICES ASSUME Init PROVE CInv
  OBVIOUS
<1>1. RanRule /\ UpdatedRule
  BY DEF Init, RanRule, UpdatedRule, UpdatedWasRun, NoEntry, IdleHandler, IdleWorker
<1>2. SentRule
  BY DEF Init, SentRule, SentWasCommanded, In, NoEntry, IdleWorker, IdleAsking
<1>3. BatchRule /\ KeptRule
  BY DEF Init, BatchRule, KeptRule, Sending, IdleWorker, IdleAsking
<1> QED BY <1>1, <1>2, <1>3, TypeInit, RefsInit DEF CInv

\* What a publish does to the kept commands.
LEMMA PublishKeeps ==
    ASSUME TypeOK, KeptRule, NEW e, NEW c, Publish(e, c) \/ PublishFails(e, c) \/ UNCHANGED broker
    PROVE  \A d \in Devices : retained'[d] # NoCommand => <<d, retained'[d]>> \in told'
<1>1. CASE UNCHANGED broker
  BY <1>1 DEF KeptRule, broker
<1>2. CASE Publish(e, c)
  BY <1>2 DEF KeptRule, Publish, TypeOK
<1> QED BY <1>1, <1>2 DEF PublishFails

\* Every step either leaves the broker alone or publishes.
LEMMA Publishes ==
    ASSUME Next
    PROVE  UNCHANGED broker \/ \E d, c : Publish(d, c) \/ PublishFails(d, c)
<1>1. CASE AdminStep
  BY <1>1, Zenon
     DEF AdminStep, UploadFirmware, StartRollout, CheckEligible, LoadActive, LoadCancelled,
         MarkCancelled, RolloutRequestFails, CancelRollout, CreateRollout, ClearCancelled
<1>2. CASE WorkerStep
  BY <1>2, Zenon
     DEF WorkerStep, LoadDue, LoadFirstPending, LoadTargets, LoadProduct, CheckTarget,
         NoteUpdated, PublishTarget, MarkSent, CountEntries, WriteRollout, StatementFails,
         FailRollout
<1>3. CASE HandlerStep
  BY <1>3, Zenon
     DEF HandlerStep, ReceiveStatus, CheckProduct, ClearForProduct, LoadMatches, SkipMatch,
         ClearForMatch, MarkUpdated, CountForRefresh, WriteRefresh
<1>4. CASE UserStep
  BY <1>4, Zenon
     DEF UserStep, AskForUpdate, PublishAsked, FindPendingEntry, MarkAskedSent, DeleteDevice,
         ClearDeleted
<1>5. CASE FieldStep \/ CrashAndRestart
  BY <1>5, Zenon
     DEF FieldStep, DeviceReceives, DeviceFlashes, DeviceReports, BrokerRepeats, CrashAndRestart
<1> QED BY <1>1, <1>2, <1>3, <1>4, <1>5 DEF Next

\* What a device keeps to flash comes from the broker.
LEMMA QueueKeeps ==
    ASSUME TypeOK, KeptRule, Next
    PROVE  \A d \in Devices : device'[d].queued # NoCommand => <<d, device'[d].queued>> \in told'
<1> DEFINE Goal == \A d \in Devices : device'[d].queued # NoCommand => <<d, device'[d].queued>> \in told
<1>1. ASSUME UNCHANGED device PROVE Goal
  <2>1. \A d \in Devices : device[d].queued # NoCommand => <<d, device[d].queued>> \in told
    BY DEF KeptRule
  <2>2. device' = device
    BY <1>1
  <2> QED BY <2>1, <2>2, Zenon
<1>2. ASSUME NEW d \in Devices, DeviceReceives(d) \/ DeviceFlashes(d) \/ DeviceReports(d)
      PROVE  Goal
  <2> DEFINE old == device[d]
  <2>1. old \in [runs: Versions, queued: Command \cup {NoCommand}, said: Versions \cup {NoVersion}]
    BY DEF TypeOK
  <2>2. CASE DeviceReceives(d)
    <3>1. device' = [device EXCEPT ![d] = [old EXCEPT !.queued = retained[d]]]
      BY <2>2, Zenon DEF DeviceReceives
    <3>2. [old EXCEPT !.queued = retained[d]].queued = retained[d]
      <4> HIDE DEF old
      <4> QED BY <2>1
    <3> QED BY <3>1, <3>2 DEF TypeOK, KeptRule
  <2>3. CASE DeviceFlashes(d)
    <3> DEFINE c == old.queued
               q == IF c.version = c.image THEN NoCommand ELSE c
               new == [old EXCEPT !.runs = c.image, !.queued = q]
    <3>1. device' = [device EXCEPT ![d] = new]
      BY <2>3, Zenon DEF DeviceFlashes
    <3>2. new.queued = q
      <4> HIDE DEF c, q, old
      <4> QED BY <2>1
    <3>3. q = NoCommand \/ q = c
      OBVIOUS
    <3> HIDE DEF new, q
    <3> QED BY <3>1, <3>2, <3>3 DEF TypeOK, KeptRule
  <2>4. CASE DeviceReports(d)
    <3>1. device' = [device EXCEPT ![d] = [old EXCEPT !.said = old.runs]]
      BY <2>4, Zenon DEF DeviceReports
    <3>2. [old EXCEPT !.said = old.runs].queued = old.queued
      <4> HIDE DEF old
      <4> QED BY <2>1
    <3> QED BY <3>1, <3>2 DEF TypeOK, KeptRule
  <2> QED BY <1>2, <2>2, <2>3, <2>4
<1>3. \/ UNCHANGED device
      \/ \E d \in Devices : DeviceReceives(d) \/ DeviceFlashes(d) \/ DeviceReports(d)
  BY Writers, Zenon
<1>4. Goal
  <2> HIDE DEF Goal
  <2> QED BY <1>1, <1>2, <1>3
<1> QED BY <1>4, ToldGrows

\* Who asks is one of those who do.
LEMMA AskedStays ==
    ASSUME TypeOK, KeptRule, Next
    PROVE  asking'.pc # "idle" => asking'.d \in Asked
<1>0. asking \in Asking
  BY DEF TypeOK
<1>1. CASE UNCHANGED asking
  BY <1>1 DEF KeptRule
<1>2. CASE asking' = IdleAsking
  BY <1>2 DEF IdleAsking
<1>3. ASSUME NEW d \in Asked, AskForUpdate(d) PROVE asking'.d \in Asked
  <2>1. asking' = [IdleAsking EXCEPT !.pc = "publish", !.d = d, !.ver = product]
    BY <1>3, Zenon DEF AskForUpdate
  <2> QED BY <2>1 DEF IdleAsking
<1>4. CASE PublishAsked
  <2>1. asking.pc = "publish" /\ (asking' = IdleAsking \/ asking' = [asking EXCEPT !.pc = "find"])
    BY <1>4, Zenon DEF PublishAsked
  <2>2. CASE asking' = [asking EXCEPT !.pc = "find"]
    BY <1>0, <2>1, <2>2 DEF KeptRule, Asking
  <2> QED BY <1>2, <2>1, <2>2
<1>5. CASE FindPendingEntry
  <2>1. /\ asking.pc = "find"
        /\ asking' = IdleAsking \/ \E r \in Rollouts : asking' = [asking EXCEPT !.pc = "mark", !.r = r]
    BY <1>5 DEF FindPendingEntry
  <2>2. CASE \E r \in Rollouts : asking' = [asking EXCEPT !.pc = "mark", !.r = r]
    BY <1>0, <2>1, <2>2 DEF KeptRule, Asking
  <2> QED BY <1>2, <2>1, <2>2
<1>6. CASE MarkAskedSent \/ CrashAndRestart
  BY <1>2, <1>6 DEF MarkAskedSent, CrashAndRestart
<1>7. ASSUME NEW d \in Devices, DeleteDevice(d) \/ ClearDeleted(d) PROVE UNCHANGED asking
  BY <1>7, Zenon DEF DeleteDevice, ClearDeleted
<1>8. UNCHANGED asking \/ UserStep \/ CrashAndRestart
  BY Writers, Zenon
<1> QED BY <1>1, <1>3, <1>4, <1>5, <1>6, <1>7, <1>8, DeviceAssumption DEF UserStep

\* The batch being sent has a number.
LEMMA BatchNumbered ==
    ASSUME TypeOK, KeptRule, Next
    PROVE  worker'.pc \in Sending => worker'.batch # 0
<1>0. worker \in Worker
  BY DEF TypeOK
<1>1. ASSUME worker.pc \in Sending, worker'.batch = worker.batch PROVE worker'.batch # 0
  BY <1>1 DEF KeptRule
<1>2. ASSUME NEW r \in Rollouts, LoadFirstPending(r) PROVE worker'.pc \in Sending => worker'.batch # 0
  <2>1. ASSUME NEW d \in Devices, FirstPending(r, d),
               worker' = [worker EXCEPT !.pc = "targets", !.due = @ \ {r}, !.r = r,
                                        !.batch = entry[r][d].batch]
        PROVE  worker'.batch # 0
    <3>1. worker'.batch = entry[r][d].batch /\ entry[r][d].state = "pending"
      BY <1>0, <2>1 DEF Worker, FirstPending
    <3> QED BY <3>1 DEF TypeOK
  <2>2. CASE worker' = [worker EXCEPT !.pc = "count", !.due = @ \ {r}, !.r = r]
    BY <1>0, <2>2 DEF Worker, Sending
  <2> QED BY <1>2, <2>1, <2>2, Zenon DEF LoadFirstPending
<1>3. CASE LoadTargets \/ LoadProduct
  <2>1. worker.pc \in {"targets", "product"} /\ worker'.batch = worker.batch
    BY <1>0, <1>3 DEF LoadTargets, LoadProduct, WorkerAt, Worker
  <2> QED BY <1>1, <2>1 DEF Sending
<1>4. ASSUME NEW d \in Devices, CheckTarget(d) PROVE worker'.batch # 0
  <2>1. worker.pc = "each" /\ worker'.batch = worker.batch
    BY <1>0, <1>4 DEF CheckTarget, WorkerAt, Worker
  <2> QED BY <1>1, <2>1 DEF Sending
<1>5. CASE NoteUpdated \/ MarkSent
  <2>1. worker.pc \in {"note", "mark"} /\ EndTarget
    BY <1>5, Zenon DEF NoteUpdated, MarkSent, WorkerAt
  <2>2. worker'.batch = worker.batch
    BY <1>0, <2>1 DEF EndTarget, Worker
  <2> QED BY <1>1, <2>1, <2>2 DEF Sending
<1>6. CASE PublishTarget
  <2>1. worker.pc = "publish" /\ (WorkerGoto("mark") \/ WorkerGoto("fail"))
    BY <1>6, Zenon DEF PublishTarget, WorkerAt
  <2>2. worker'.batch = worker.batch
    BY <1>0, <2>1 DEF WorkerGoto, Worker
  <2> QED BY <1>1, <2>1, <2>2 DEF Sending
<1>7. CASE \/ \E S \in SUBSET Rollouts : LoadDue(S)
           \/ CountEntries \/ WriteRollout \/ StatementFails \/ FailRollout
  <2>1. ASSUME NEW S \in SUBSET Rollouts, LoadDue(S) PROVE worker'.pc \notin Sending
    <3>1. worker' = [IdleWorker EXCEPT !.pc = "next", !.due = S]
      BY <2>1, Zenon DEF LoadDue
    <3> QED BY <3>1 DEF IdleWorker, Sending
  <2>2. ASSUME CountEntries \/ StatementFails PROVE worker'.pc \notin Sending
    BY <1>0, <2>2 DEF CountEntries, StatementFails, WorkerGoto, Worker, Sending
  <2>3. ASSUME WriteRollout \/ FailRollout PROVE worker'.pc \notin Sending
    <3>1. EndRollout
      BY <2>3, Zenon DEF WriteRollout, FailRollout
    <3> QED BY <3>1 DEF EndRollout, IdleWorker, Sending
  <2> QED BY <1>7, <2>1, <2>2, <2>3
<1>8. CASE CrashAndRestart
  BY <1>8 DEF CrashAndRestart, IdleWorker, Sending
<1>9. CASE UNCHANGED worker
  BY <1>9 DEF KeptRule
<1>10. UNCHANGED worker \/ WorkerStep \/ CrashAndRestart
  BY Writers, Zenon
<1> QED BY <1>2, <1>3, <1>4, <1>5, <1>6, <1>7, <1>8, <1>9, <1>10 DEF WorkerStep

LEMMA CInvStep == CInv /\ [Next]_vars => CInv'
<1>1. ASSUME CInv, Next PROVE CInv'
  <2>1. KeptRule'
    <3>1. \E d, c : Publish(d, c) \/ PublishFails(d, c) \/ UNCHANGED broker
      BY <1>1, Publishes
    <3>2. \A d \in Devices : retained'[d] # NoCommand => <<d, retained'[d]>> \in told'
      BY <1>1, <3>1, PublishKeeps DEF CInv
    <3> QED BY <1>1, <3>2, QueueKeeps, AskedStays, BatchNumbered DEF CInv, KeptRule
  <2> QED BY <1>1, <2>1, TypeRefsStep, RanStep, UpdatedStep, SentStep, BatchStep DEF CInv
<1>2. ASSUME CInv, UNCHANGED vars PROVE CInv'
  <2>1. UNCHANGED <<retained, told, device, ran, mail, known, handler, worker, asking, entry, rollout>>
    BY <1>2, Zenon DEF vars, tables, broker, field
  <2>2. RanRule' /\ UpdatedRule'
    BY <1>2, <2>1 DEF CInv, RanRule, UpdatedRule, UpdatedWasRun
  <2>3. SentRule'
    BY <1>2, <2>1 DEF CInv, SentRule, SentWasCommanded, CommandedBy, In
  <2>4. BatchRule' /\ KeptRule'
    BY <1>2, <2>1 DEF CInv, BatchRule, KeptRule, In
  <2> QED BY <1>2, <2>2, <2>3, <2>4, TypeRefsStep DEF CInv
<1> QED BY <1>1, <1>2

-----------------------------------------------------------------------------
(* Every step is a step of the promise *)

\* What the promise sees has not changed.
LEMMA NothingSeen ==
    ASSUME \A r \in Rollouts : /\ rollout'[r].target = rollout[r].target
                              /\ rollout'[r].percentage = rollout[r].percentage,
           \A r \in Rollouts, d \in Devices : /\ entry'[r][d].batch = entry[r][d].batch
                                              /\ entry'[r][d].state = entry[r][d].state,
           UNCHANGED <<retained, told, ran>>
    PROVE  UNCHANGED Promise!vars
<1>1. /\ [r \in Rollouts |-> rollout'[r].target] = [r \in Rollouts |-> rollout[r].target]
      /\ [r \in Rollouts |-> rollout'[r].percentage] = [r \in Rollouts |-> rollout[r].percentage]
  OBVIOUS
<1>2. [r \in Rollouts |-> [d \in Devices |-> entry'[r][d].batch]]
         = [r \in Rollouts |-> [d \in Devices |-> entry[r][d].batch]]
  OBVIOUS
<1>3. [r \in Rollouts |-> [d \in Devices |-> entry'[r][d].state]]
         = [r \in Rollouts |-> [d \in Devices |-> entry[r][d].state]]
  OBVIOUS
<1> QED BY <1>1, <1>2, <1>3 DEF Promise!vars

\* The transaction of CreateRollout launches the rollout.
LEMMA CreateLaunches ==
    ASSUME CInv, NEW r \in Rollouts, CreateRollout(r)
    PROVE  Promise!Launch(r)
<1> DEFINE E == Eligible(admin.target)
           n == Cardinality(E)
           v == admin.target
<1>0. TypeOK /\ Refs
  BY DEF CInv
<1>1. /\ admin.pc = "create" /\ E # {} /\ rollout[r] = NoRollout
      /\ UNCHANGED <<retained, told, ran>>
  BY Zenon DEF CreateRollout, AdminAt, broker, adminOnly, field
<1>2. PICK order \in Orders(E), p \in Percentages :
         /\ rollout' = [rollout EXCEPT ![r] = [status |-> "pending", target |-> v,
                                               percentage |-> p, due |-> TRUE]]
         /\ entry' = [entry EXCEPT ![r] = NewEntries(E, order, BatchSize(n, p))]
  BY DEF CreateRollout
<1>3. v \in Versions
  BY <1>0, <1>1 DEF TypeOK, Refs, AdminRule, Admin
<1>4. E \in SUBSET Devices /\ IsFiniteSet(E) /\ n \in Nat \ {0}
  <2>1. E \in SUBSET Devices
    BY DEF Eligible
  <2> HIDE DEF E
  <2> QED BY <1>1, <2>1, DeviceAssumption, FS_Subset, FS_CardinalityType, FS_EmptySet
<1> DEFINE size == BatchSize(n, p)
           new == NewEntries(E, order, size)
           f == [d \in Devices |-> IF d \in E THEN BatchNumber(order[d], size) ELSE 0]
           s == [d \in Devices |-> IF d \in E THEN "pending" ELSE "none"]
<1>5. size \in 1..n /\ Promise!IsShare(size, n, p)
  <2> HIDE DEF n
  <2> QED BY <1>4, BatchSizeIsShare
<1>6. f \in [Devices -> 0..n] /\ Promise!Divided(E, f, size)
  <2>1. size \in Nat \ {0}
    <3> HIDE DEF size, n
    <3> QED BY <1>4, <1>5
  <2> HIDE DEF E, size
  <2> QED BY <1>4, <2>1, BatchesDivide
<1>7. \A d \in Devices : new[d].batch = f[d] /\ new[d].state = s[d]
  <2> HIDE DEF E, size
  <2> QED BY DEF NewEntries, NoEntry
<1> HIDE DEF E, n, v, size, new, f, s
<1>8. entry' = [entry EXCEPT ![r] = new]
  BY <1>2 DEF new, size
<1>9. [q \in Rollouts |-> rollout[q].target][r] = NoVersion
  BY <1>1 DEF NoRollout
<1>10. /\ [q \in Rollouts |-> rollout'[q].target]
             = [[q \in Rollouts |-> rollout[q].target] EXCEPT ![r] = v]
       /\ [q \in Rollouts |-> rollout'[q].percentage]
             = [[q \in Rollouts |-> rollout[q].percentage] EXCEPT ![r] = p]
  BY <1>0, <1>2 DEF TypeOK
<1>11. [q \in Rollouts |-> [d \in Devices |-> entry'[q][d].batch]]
          = [[q \in Rollouts |-> [d \in Devices |-> entry[q][d].batch]] EXCEPT ![r] = f]
  <2>1. [d \in Devices |-> new[d].batch] = f
    BY <1>6, <1>7
  <2> QED BY <1>0, <1>8, <2>1 DEF TypeOK
<1>12. [q \in Rollouts |-> [d \in Devices |-> entry'[q][d].state]]
          = [[q \in Rollouts |-> [d \in Devices |-> entry[q][d].state]] EXCEPT ![r] = s]
  <2>1. [d \in Devices |-> new[d].state] = s
    BY <1>7 DEF s
  <2> QED BY <1>0, <1>8, <2>1 DEF TypeOK
<1>13. E # {} /\ E \in SUBSET Devices /\ Promise!Cardinality(E) = n
  BY <1>1, <1>4, SameCardinality DEF n
<1>14. \E part \in 1..n : Promise!IsShare(part, n, p) /\ Promise!Divided(E, f, part)
  BY <1>5, <1>6
<1> QED BY <1>1, <1>3, <1>6, <1>9, <1>10, <1>11, <1>12, <1>13, <1>14 DEF Promise!Launch, s

\* A state written into an entry is a record, or an UPDATE that found no row.
LEMMA WriteRecords ==
    ASSUME CInv, CInv', NEW r \in Rollouts \cup {0}, NEW d \in Devices \cup {NoDevice},
           NEW s \in {"sent", "updated", "cancelled"},
           SetEntry(r, d, s) \/ UNCHANGED entry, UNCHANGED <<rollout, retained, told, ran>>
    PROVE  \/ r \in Rollouts /\ d \in Devices /\ Promise!Record(r, d, s)
           \/ UNCHANGED Promise!vars
<1>1. CASE UNCHANGED entry
  BY <1>1, NothingSeen
<1>2. CASE SetEntry(r, d, s)
  <2>1. \A q \in Rollouts, e \in Devices :
           /\ entry'[q][e].batch = entry[q][e].batch
           /\ \/ entry'[q][e].state = entry[q][e].state
              \/ q = r /\ e = d /\ entry'[q][e].state = s /\ entry[q][e].state # "none"
    BY SMTT(30), <1>2, SetEntryType DEF CInv
  <2>2. CASE \A q \in Rollouts, e \in Devices : entry'[q][e].state = entry[q][e].state
    BY <2>1, <2>2, NothingSeen
  <2>3. CASE \E q \in Rollouts, e \in Devices : entry'[q][e].state # entry[q][e].state
    <3>1. r \in Rollouts /\ d \in Devices /\ entry[r][d].state # "none" /\ entry'[r][d].state = s
      BY <2>1, <2>3
    <3>2. s = "sent" => Promise!Commanded(d, r) \/ Promise!Commanded(d, 0)
      <4>1. s = "sent" => CommandedBy(d, r)' \/ CommandedBy(d, 0)'
        BY <3>1 DEF CInv, SentRule, SentWasCommanded, In
      <4>2. \A q : CommandedBy(d, q)' => Promise!Commanded(d, q)
        <5>1. \A q : CommandedBy(d, q)' => CommandedBy(d, q)
          BY DEF CommandedBy
        <5>2. \A q, c : <<d, c>>[1] = d /\ <<d, c>>[2] = c
          OBVIOUS
        <5> QED BY <5>1, <5>2 DEF CommandedBy, Promise!Commanded
      <4> QED BY <4>1, <4>2
    <3>3. s = "updated" => rollout[r].target \in ran[d]
      BY <3>1 DEF CInv, UpdatedRule, UpdatedWasRun
    <3>4. [q \in Rollouts |-> [e \in Devices |-> entry'[q][e].state]]
             = [[q \in Rollouts |-> [e \in Devices |-> entry[q][e].state]] EXCEPT ![r][d] = s]
      <4> DEFINE old == [q \in Rollouts |-> [e \in Devices |-> entry[q][e].state]]
                 new == [q \in Rollouts |-> [e \in Devices |-> entry'[q][e].state]]
                 one == [old[r] EXCEPT ![d] = s]
      <4>1. \A q \in Rollouts : q # r => new[q] = old[q]
        BY <2>1
      <4>2. new[r] = one
        BY <2>1, <3>1
      <4>3. new = [old EXCEPT ![r] = one]
        <5>1. old = [q \in Rollouts |-> old[q]] /\ new = [q \in Rollouts |-> new[q]]
          OBVIOUS
        <5> HIDE DEF old, new, one
        <5> QED BY <4>1, <4>2, <5>1
      <4> QED BY <4>3
    <3>5. [q \in Rollouts |-> [e \in Devices |-> entry'[q][e].batch]]
             = [q \in Rollouts |-> [e \in Devices |-> entry[q][e].batch]]
      BY <2>1
    <3>6. /\ [q \in Rollouts |-> rollout'[q].target] = [q \in Rollouts |-> rollout[q].target]
          /\ [q \in Rollouts |-> rollout'[q].percentage] = [q \in Rollouts |-> rollout[q].percentage]
      OBVIOUS
    <3> QED BY <3>1, <3>2, <3>3, <3>4, <3>5, <3>6 DEF Promise!Record
  <2> QED BY <2>2, <2>3
<1> QED BY <1>1, <1>2

\* What is the same of a rollout while only the broker changes.
LEMMA OnlyBroker ==
    ASSUME UNCHANGED <<rollout, entry, ran>>
    PROVE  UNCHANGED <<[r \in Rollouts |-> rollout[r].target],
                       [r \in Rollouts |-> rollout[r].percentage],
                       [r \in Rollouts |-> [d \in Devices |-> entry[r][d].batch]],
                       [r \in Rollouts |-> [d \in Devices |-> entry[r][d].state]], ran>>
OBVIOUS

\* An empty payload clears what the broker keeps.
LEMMA ClearClears ==
    ASSUME NEW d \in Devices, UNCHANGED <<rollout, entry, ran>>,
           Publish(d, NoCommand) \/ PublishFails(d, NoCommand)
    PROVE  Promise!Clear(d) \/ UNCHANGED Promise!vars
<1>1. CASE Publish(d, NoCommand)
  <2>1. retained' = [retained EXCEPT ![d] = NoCommand] /\ told' = told
    BY <1>1 DEF Publish
  <2> QED BY <2>1, OnlyBroker DEF Promise!Clear
<1>2. CASE UNCHANGED broker
  BY <1>2, NothingSeen DEF broker
<1> QED BY <1>1, <1>2 DEF PublishFails

\* The worker's command belongs to the first batch that waits.
LEMMA TargetIsOrdered ==
    ASSUME CInv, PublishTarget
    PROVE  \/ worker.r \in Rollouts /\ worker.d \in Devices /\ Promise!Order(worker.r, worker.d)
           \/ UNCHANGED Promise!vars
<1> DEFINE r == worker.r
           d == worker.d
           c == OwnCommand
<1>1. /\ worker.pc = "publish" /\ (Publish(d, c) \/ PublishFails(d, c))
      /\ UNCHANGED <<rollout, entry, ran>>
  BY Zenon DEF PublishTarget, WorkerAt, workerOnly, field
<1>2. CASE UNCHANGED broker
  BY <1>1, <1>2, NothingSeen DEF broker
<1>3. CASE Publish(d, c)
  <2>1. /\ r \in Rollouts /\ d \in Devices /\ d \in worker.todo
        /\ worker.image \in Versions /\ worker.batch # 0
    BY <1>1 DEF CInv, TypeOK, Refs, WorkerRule, Worker, BatchRule, KeptRule, Sending
  <2>2. entry[r][d].batch = worker.batch /\ entry[r][d].state # "none"
    BY <1>1, <2>1 DEF CInv, BatchRule, Sending, TypeOK
  <2>3. \A e \in Devices : entry[r][e].state = "pending" => entry[r][d].batch <= entry[r][e].batch
    BY <1>1, <2>2 DEF CInv, BatchRule, Sending, In
  <2>4. c = [version |-> rollout[r].target, image |-> worker.image, by |-> r] /\ c \in Command
    BY <1>1, <2>1 DEF CInv, TypeOK, Refs, WorkerRule, RowRule, OwnCommand, Command, RolloutRow
  <2>5. retained' = [retained EXCEPT ![d] = c] /\ told' = told \cup {<<d, c>>}
    BY <1>3, <2>4, CommandAssumption DEF Publish
  <2> HIDE DEF c, r, d
  <2>6. Promise!Publish(d, c)
    BY <1>1, <2>5, OnlyBroker DEF Promise!Publish
  <2>7. Promise!Order(r, d)
    BY <2>1, <2>2, <2>3, <2>4, <2>6 DEF Promise!Order
  <2> QED BY <2>1, <2>7 DEF r, d
<1> QED BY <1>1, <1>2, <1>3 DEF PublishFails

\* A user's command belongs to no rollout.
LEMMA RequestAsks ==
    ASSUME CInv, PublishAsked
    PROVE  \/ asking.d \in Devices /\ Promise!Ask(asking.d)
           \/ UNCHANGED Promise!vars
<1> DEFINE d == asking.d
           v == asking.ver
           c == [version |-> v, image |-> v, by |-> 0]
<1>1. /\ asking.pc = "publish" /\ (Publish(d, c) \/ PublishFails(d, c))
      /\ UNCHANGED <<rollout, entry, ran>>
  BY Zenon DEF PublishAsked, askingOnly, field
<1>2. CASE UNCHANGED broker
  BY <1>1, <1>2, NothingSeen DEF broker
<1>3. CASE Publish(d, c)
  <2>1. d \in Devices /\ d \in Asked /\ v \in Versions
    BY <1>1 DEF CInv, TypeOK, Refs, AskingRule, Asking, KeptRule
  <2>2. c \in Command
    BY <2>1 DEF Command
  <2>3. retained' = [retained EXCEPT ![d] = c] /\ told' = told \cup {<<d, c>>}
    <3> HIDE DEF c
    <3> QED BY <1>3, <2>2, CommandAssumption DEF Publish
  <2> HIDE DEF d, v, c
  <2>4. Promise!Publish(d, c)
    BY <1>1, <2>3, OnlyBroker DEF Promise!Publish
  <2> QED BY <2>1, <2>4 DEF Promise!Ask, c, d
<1> QED BY <1>1, <1>2, <1>3 DEF PublishFails

\* What a device flashes was published for it.
LEMMA FlashFlashes ==
    ASSUME CInv, NEW d \in Devices, DeviceFlashes(d)
    PROVE  Promise!Flash(d)
<1> DEFINE c == device[d].queued
<1>1. /\ c # NoCommand /\ ran' = [ran EXCEPT ![d] = @ \cup {c.image}]
      /\ UNCHANGED <<retained, told, rollout, entry>>
  BY Zenon DEF DeviceFlashes, broker, deviceOnly, tables
<1>2. <<d, c>> \in told
  BY <1>1 DEF CInv, KeptRule
<1> HIDE DEF c
<1>3. <<d, c>>[1] = d /\ <<d, c>>[2] = c
  OBVIOUS
<1>4. \E t \in told : t[1] = d /\ ran' = [ran EXCEPT ![d] = @ \cup {t[2].image}]
  BY <1>1, <1>2, <1>3
<1>5. UNCHANGED <<[r \in Rollouts |-> rollout[r].target],
                  [r \in Rollouts |-> rollout[r].percentage],
                  [r \in Rollouts |-> [e \in Devices |-> entry[r][e].batch]],
                  [r \in Rollouts |-> [e \in Devices |-> entry[r][e].state]]>>
  BY <1>1
<1> QED BY <1>1, <1>4, <1>5 DEF Promise!Flash

\* Who writes a status leaves the target and the percentage alone.
LEMMA StatusIsUnseen ==
    ASSUME CInv, UNCHANGED <<entry, retained, told, ran>>,
           \/ UNCHANGED rollout
           \/ \E r \in Rollouts : CancelRollout(r)
           \/ WriteRollout \/ FailRollout \/ WriteRefresh
    PROVE  UNCHANGED Promise!vars
<1>0. TypeOK /\ worker.r \in Rollouts \cup {0} /\ handler.r \in Rollouts \cup {0}
  BY DEF CInv, TypeOK, Worker, Handler
<1> DEFINE Goal == \A q \in Rollouts : /\ rollout'[q].target = rollout[q].target
                                     /\ rollout'[q].percentage = rollout[q].percentage
<1>1. ASSUME NEW r \in Rollouts \cup {0}, NEW b \in BOOLEAN,
             NEW s \in {"running", "completed", "cancelled", "failed"},
             \/ rollout' = [rollout EXCEPT ![r].status = s, ![r].due = b]
             \/ rollout' = [rollout EXCEPT ![r].status = s]
      PROVE  Goal
  BY <1>0, <1>1, SetStatusType
<1>2. ASSUME UNCHANGED rollout PROVE Goal
  BY <1>2
<1>3. ASSUME NEW r \in Rollouts, CancelRollout(r) PROVE Goal
  <2>1. rollout' = [rollout EXCEPT ![r].status = "cancelled", ![r].due = FALSE]
    BY <1>3, Zenon DEF CancelRollout
  <2> QED BY <1>1, <2>1
<1>4. ASSUME WriteRollout PROVE Goal
  <2>1. PICK b \in BOOLEAN : b = (worker.batch # 0 /\ worker.counts.pending)
    OBVIOUS
  <2>2. PICK s \in {"completed", "running"} : s = Finished(worker.counts)
    BY DEF Finished
  <2>3. rollout' = [rollout EXCEPT ![worker.r].status = s, ![worker.r].due = b]
    BY <1>4, <2>1, <2>2, Zenon DEF WriteRollout
  <2> QED BY <1>0, <1>1, <2>3
<1>5. ASSUME FailRollout PROVE Goal
  <2>1. \/ rollout' = [rollout EXCEPT ![worker.r].status = "failed"]
        \/ UNCHANGED rollout
    BY <1>5, Zenon DEF FailRollout, Attempted
  <2>2. "failed" \in {"running", "completed", "cancelled", "failed"} /\ TRUE \in BOOLEAN
    OBVIOUS
  <2> QED BY <1>0, <1>1, <1>2, <2>1, <2>2
<1>6. ASSUME WriteRefresh PROVE Goal
  <2>1. PICK s \in {"completed", "running"} : s = Finished(handler.counts)
    BY DEF Finished
  <2>2. \/ rollout' = [rollout EXCEPT ![handler.r].status = s, ![handler.r].due = FALSE]
        \/ UNCHANGED rollout
    BY <1>6, <2>1, Zenon DEF WriteRefresh, Attempted
  <2> QED BY <1>0, <1>1, <1>2, <2>2
<1>7. Goal
  <2> HIDE DEF Goal
  <2> QED BY <1>2, <1>3, <1>4, <1>5, <1>6
<1> QED BY <1>7, NothingSeen

LEMMA AdminRefines ==
    ASSUME CInv, CInv', AdminStep
    PROVE  Promise!Next \/ UNCHANGED Promise!vars
<1>1. \/ \E r \in Rollouts : CreateRollout(r)
      \/ MarkCancelled
      \/ \E d \in Devices : ClearCancelled(d)
      \/ /\ UNCHANGED <<entry, broker, field>>
         /\ UNCHANGED rollout \/ \E r \in Rollouts : CancelRollout(r)
  BY Zenon
     DEF AdminStep, UploadFirmware, StartRollout, CheckEligible, LoadActive, LoadCancelled,
         RolloutRequestFails, CancelRollout, adminOnly
<1>2. ASSUME NEW r \in Rollouts, CreateRollout(r) PROVE Promise!Next
  BY <1>2, CreateLaunches DEF Promise!Next
<1>3. CASE MarkCancelled
  <2>1. /\ SetEntry(admin.r, admin.d, "cancelled") \/ UNCHANGED entry
        /\ UNCHANGED <<rollout, retained, told, ran>>
    BY <1>3, Zenon DEF MarkCancelled, Attempted, broker, adminOnly, field
  <2>2. admin.r \in Rollouts \cup {0} /\ admin.d \in Devices \cup {NoDevice}
    BY DEF CInv, TypeOK, Admin
  <2> QED BY <2>1, <2>2, WriteRecords DEF Promise!Next, Promise!Recorded
<1>4. ASSUME NEW d \in Devices, ClearCancelled(d) PROVE Promise!Next \/ UNCHANGED Promise!vars
  <2>1. /\ Publish(d, NoCommand) \/ PublishFails(d, NoCommand)
        /\ UNCHANGED <<rollout, entry, ran>>
    BY <1>4, Zenon DEF ClearCancelled, adminOnly, field
  <2> QED BY <2>1, ClearClears DEF Promise!Next
<1>5. CASE /\ UNCHANGED <<entry, broker, field>>
           /\ UNCHANGED rollout \/ \E r \in Rollouts : CancelRollout(r)
  BY <1>5, StatusIsUnseen DEF broker, field
<1> QED BY <1>1, <1>2, <1>3, <1>4, <1>5

LEMMA WorkerRefines ==
    ASSUME CInv, CInv', WorkerStep
    PROVE  Promise!Next \/ UNCHANGED Promise!vars
<1>1. \/ NoteUpdated \/ MarkSent \/ PublishTarget
      \/ UNCHANGED <<entry, broker, field>> /\ (UNCHANGED rollout \/ WriteRollout \/ FailRollout)
  BY Zenon
     DEF WorkerStep, LoadDue, LoadFirstPending, LoadTargets, LoadProduct, CheckTarget,
         CountEntries, WriteRollout, StatementFails, FailRollout, workerOnly
<1>2. CASE NoteUpdated \/ MarkSent
  <2>1. PICK s \in {"updated", "sent"} : SetEntry(worker.r, worker.d, s)
    BY <1>2, Zenon DEF NoteUpdated, MarkSent
  <2>2. UNCHANGED <<rollout, retained, told, ran>>
    BY <1>2, Zenon DEF NoteUpdated, MarkSent, broker, workerOnly, field
  <2>3. worker.r \in Rollouts \cup {0} /\ worker.d \in Devices \cup {NoDevice}
    BY DEF CInv, TypeOK, Worker
  <2> QED BY <2>1, <2>2, <2>3, WriteRecords DEF Promise!Next, Promise!Recorded
<1>3. CASE PublishTarget
  BY <1>3, TargetIsOrdered DEF Promise!Next
<1>4. CASE UNCHANGED <<entry, broker, field>> /\ (UNCHANGED rollout \/ WriteRollout \/ FailRollout)
  BY <1>4, StatusIsUnseen DEF broker, field
<1> QED BY <1>1, <1>2, <1>3, <1>4

LEMMA HandlerRefines ==
    ASSUME CInv, CInv', HandlerStep
    PROVE  Promise!Next \/ UNCHANGED Promise!vars
<1>1. \/ ClearForProduct
      \/ \E r \in Rollouts : ClearForMatch(r) \/ MarkUpdated(r)
      \/ UNCHANGED <<entry, broker, ran>> /\ (UNCHANGED rollout \/ WriteRefresh)
  BY Zenon
     DEF HandlerStep, ReceiveStatus, CheckProduct, LoadMatches, SkipMatch, CountForRefresh,
         WriteRefresh, handlerOnly, field
<1>2. ASSUME ClearForProduct \/ \E r \in Rollouts : ClearForMatch(r)
      PROVE  Promise!Next \/ UNCHANGED Promise!vars
  <2>1. /\ handler.pc \in {"clear", "each"}
        /\ Publish(handler.d, NoCommand) \/ PublishFails(handler.d, NoCommand)
        /\ UNCHANGED <<rollout, entry, ran>>
    BY <1>2, Zenon DEF ClearForProduct, ClearForMatch, HandlerAt, handlerOnly, field
  <2>2. handler.d \in Devices
    BY <2>1 DEF CInv, Refs, HandlerRule
  <2> QED BY <2>1, <2>2, ClearClears DEF Promise!Next
<1>3. ASSUME NEW r \in Rollouts, MarkUpdated(r) PROVE Promise!Next \/ UNCHANGED Promise!vars
  <2>1. /\ SetEntry(r, handler.d, "updated") \/ UNCHANGED entry
        /\ UNCHANGED <<rollout, retained, told, ran>>
    BY <1>3, Zenon DEF MarkUpdated, Attempted, broker, handlerOnly, field
  <2>2. handler.d \in Devices \cup {NoDevice}
    BY DEF CInv, TypeOK, Handler
  <2> QED BY <2>1, <2>2, WriteRecords DEF Promise!Next, Promise!Recorded
<1>4. CASE UNCHANGED <<entry, broker, ran>> /\ (UNCHANGED rollout \/ WriteRefresh)
  BY <1>4, StatusIsUnseen DEF broker
<1> QED BY <1>1, <1>2, <1>3, <1>4

LEMMA UserRefines ==
    ASSUME CInv, CInv', UserStep
    PROVE  Promise!Next \/ UNCHANGED Promise!vars
<1>1. \/ PublishAsked \/ MarkAskedSent
      \/ \E d \in Removed : ClearDeleted(d)
      \/ UNCHANGED <<rollout, entry, broker, ran>>
  BY Zenon DEF UserStep, AskForUpdate, FindPendingEntry, DeleteDevice, askingOnly, field
<1>2. CASE PublishAsked
  BY <1>2, RequestAsks DEF Promise!Next
<1>3. CASE MarkAskedSent
  <2>1. /\ SetEntry(asking.r, asking.d, "sent") \/ UNCHANGED entry
        /\ UNCHANGED <<rollout, retained, told, ran>>
    BY <1>3, Zenon DEF MarkAskedSent, Attempted, broker, askingOnly, field
  <2>2. asking.r \in Rollouts \cup {0} /\ asking.d \in Devices \cup {NoDevice}
    BY DEF CInv, TypeOK, Asking
  <2> QED BY <2>1, <2>2, WriteRecords DEF Promise!Next, Promise!Recorded
<1>4. ASSUME NEW d \in Removed, ClearDeleted(d) PROVE Promise!Next \/ UNCHANGED Promise!vars
  <2>1. PublishFails(d, NoCommand) /\ UNCHANGED <<rollout, entry, ran>>
    BY <1>4, Zenon DEF ClearDeleted, field
  <2> QED BY <2>1, ClearClears, DeviceAssumption DEF Promise!Next
<1>5. CASE UNCHANGED <<rollout, entry, broker, ran>>
  BY <1>5, StatusIsUnseen DEF broker
<1> QED BY <1>1, <1>2, <1>3, <1>4, <1>5

LEMMA StepRefines == CInv /\ CInv' /\ [Next]_vars => [Promise!Next]_Promise!vars
<1> SUFFICES ASSUME CInv, CInv', [Next]_vars PROVE Promise!Next \/ UNCHANGED Promise!vars
  BY DEF Promise!vars
<1>1. CASE FieldStep
  <2>1. \/ \E d \in Devices : DeviceFlashes(d)
        \/ UNCHANGED <<rollout, entry, broker, ran>>
    BY <1>1, Zenon
       DEF FieldStep, DeviceReceives, DeviceReports, BrokerRepeats, deviceOnly, tables
  <2>2. ASSUME NEW d \in Devices, DeviceFlashes(d) PROVE Promise!Next
    BY <2>2, FlashFlashes DEF Promise!Next
  <2>3. CASE UNCHANGED <<rollout, entry, broker, ran>>
    BY <2>3, StatusIsUnseen DEF broker
  <2> QED BY <2>1, <2>2, <2>3
<1>2. CASE CrashAndRestart \/ UNCHANGED vars
  <2>1. UNCHANGED <<rollout, entry, broker, ran>>
    BY <1>2, Zenon DEF CrashAndRestart, vars, tables, field
  <2> QED BY <2>1, StatusIsUnseen DEF broker
<1> QED BY <1>1, <1>2, AdminRefines, WorkerRefines, HandlerRefines, UserRefines DEF Next

\* Whatever the goroutines, the devices, the broker and crashes do to each
\* other, a rollout keeps its target and the batches it was divided into, its
\* commands go out in their order, no device comes back to waiting, and what
\* is recorded of a device happened.
THEOREM RolloutImplementsCampaign == Spec => KeepsCampaign
<1>1. Init => Promise!Init
  BY DEF Init, Promise!Init, NoRollout, NoEntry
<1>2. CInv /\ [Next]_vars => CInv' /\ [Promise!Next]_Promise!vars
  BY CInvStep, StepRefines
<1> QED BY <1>1, <1>2, CInvInit, PTL DEF Spec, KeepsCampaign, Promise!Spec
=============================================================================
