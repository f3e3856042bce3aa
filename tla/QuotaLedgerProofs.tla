------------------------- MODULE QuotaLedgerProofs -------------------------
(***************************************************************************)
(* What the quota ledger promises, for any keys, workers, sizes and        *)
(* allocations. The sums over keys and workers are finite and otherwise    *)
(* arbitrary; what is known of them is in RecursionTheorems.                     *)
(***************************************************************************)
EXTENDS QuotaLedger, RecursionTheorems

\* The bytes that each worker has committed and not yet settled.
Unsettled == [w \in Workers |-> IF pc[w] = "recordObject" THEN size[w] ELSE 0]
UnsettledBytes == SumFunctionOnSet(Unsettled, Workers)
FreedBytes == SumFunctionOnSet(freed, Workers)

\* A payload about to be committed or settled fits the claim of its worker.
ClaimCoversSize ==
    \A w \in Workers : pc[w] \in {"commit", "recordObject"} => size[w] <= claim[w]

\* Only a request in its write holds a claim, and only one that has committed
\* knows what it freed.
ClaimHeldByWrites ==
    \A w \in Workers : pc[w] \notin {"stream", "commit", "recordObject"} => claim[w] = 0
FreedByCommits ==
    \A w \in Workers : pc[w] \notin {"recordObject", "recordDeletion"} => freed[w] = 0

\* The ledger never falls behind the store: what it counts, with what has been
\* committed and not counted, is at least what is stored with what has been
\* freed and not yet taken off.
LedgerNotBehind == StoredBytes + FreedBytes <= used + UnsettledBytes

LedgerInv ==
    /\ TypeOK
    /\ ReservedIsClaimed
    /\ ClaimCoversSize
    /\ ClaimHeldByWrites
    /\ FreedByCommits
    /\ LedgerNotBehind
    /\ NeverOverAllocated

-----------------------------------------------------------------------------
(* Types, and what a step does to the sums.                                 *)

\* The subtraction that cannot wrap stays a natural, takes off at most the
\* amount, and takes off all of it when there is enough.
LEMMA TakeFacts ==
    ASSUME NEW from \in Nat, NEW amount \in Nat
    PROVE  /\ take(from, amount) \in Nat
           /\ take(from, amount) <= from
           /\ from <= take(from, amount) + amount
           /\ amount <= from => take(from, amount) + amount = from
BY DEF take

\* The types of the ledger and the store, and of the changes of the allocation.
ChargesTyped ==
    /\ used \in Nat /\ reserved \in Nat
    /\ stored \in [Keys -> Nat]
    /\ claim \in [Workers -> Nat]
    /\ size \in [Workers -> Nat]
    /\ freed \in [Workers -> Nat]

Stages ==
    {"idle", "stream", "commit", "recordObject", "recordDeletion",
     "setQuota", "writeQuota", "undoQuota", "writeRest"}

ChangesTyped ==
    /\ quota \in Quotas /\ recorded \in Quotas
    /\ change \in [Workers -> [from : Quotas, to : Quotas]]
    /\ reverted \in BOOLEAN

LEMMA TypeParts == TypeOK <=> ChargesTyped /\ pc \in [Workers -> Stages] /\ ChangesTyped
BY DEF TypeOK, ChargesTyped, ChangesTyped, Stages

LEMMA TypePartsPrimed ==
    ASSUME ChargesTyped', (pc \in [Workers -> Stages])', ChangesTyped'
    PROVE  TypeOK'
BY DEF TypeOK, ChargesTyped, ChangesTyped, Stages

\* A worker reaches one stage.
LEMMA StageTyped ==
    ASSUME pc \in [Workers -> Stages], NEW w \in Workers, NEW s \in Stages,
           pc' = [pc EXCEPT ![w] = s]
    PROVE  (pc \in [Workers -> Stages])'
OBVIOUS

LEMMA StagesAre ==
    /\ "idle" \in Stages /\ "stream" \in Stages /\ "commit" \in Stages
    /\ "recordObject" \in Stages /\ "recordDeletion" \in Stages /\ "setQuota" \in Stages
    /\ "writeQuota" \in Stages /\ "undoQuota" \in Stages /\ "writeRest" \in Stages
BY DEF Stages

\* Steps that leave the allocation and its changes alone.
LEMMA ChangesStay ==
    ASSUME ChangesTyped, UNCHANGED <<quota, allocation>>
    PROVE  ChangesTyped'
BY DEF ChangesTyped, allocation

\* Steps that leave the charges alone.
LEMMA ChargesStay ==
    ASSUME ChargesTyped, UNCHANGED <<used, reserved, stored, write>>
    PROVE  ChargesTyped'
BY DEF ChargesTyped, write

\* Every step of a write keeps the types.
LEMMA WriteTyped ==
    ASSUME TypeOK, NEW w \in Workers,
           \/ \E n \in Sizes : Reserve(w, n) \/ Extend(w, n)
           \/ Release(w)
           \/ \E k \in Keys : PutObject(w, k) \/ DeleteObject(w, k)
           \/ RecordObject(w) \/ RecordDeletion(w)
    PROVE  TypeOK'
<1>1. ChargesTyped /\ pc \in [Workers -> Stages] /\ ChangesTyped
  BY TypeParts
<1>2. ChangesTyped'
  <2>1. UNCHANGED <<quota, allocation>>
    BY DEF Reserve, Extend, Release, PutObject, DeleteObject, RecordObject, RecordDeletion, entry
  <2> QED BY <1>1, <2>1, ChangesStay
<1>3. (pc \in [Workers -> Stages])'
  <2>1. \E s \in Stages : pc' = [pc EXCEPT ![w] = s]
    BY StagesAre DEF Reserve, Extend, Release, PutObject, DeleteObject, RecordObject,
                     RecordDeletion, Done
  <2> QED BY <1>1, <2>1, StageTyped
<1>4. ChargesTyped'
  <2> USE DEF ChargesTyped
  <2>1. ASSUME NEW n \in Sizes, Reserve(w, n)
        PROVE  ChargesTyped'
    BY <1>1, <2>1, LedgerAssumption DEF Reserve
  <2>2. ASSUME NEW n \in Sizes, Extend(w, n)
        PROVE  ChargesTyped'
    <3>0. n \in Nat /\ claim[w] \in Nat
      BY <1>1, LedgerAssumption
    <3>1. n \in Nat /\ take(n, claim[w]) \in Nat
      BY <3>0, TakeFacts
    <3>2. claim' \in [Workers -> Nat]
      BY <1>1, <2>2, <3>1 DEF Extend
    <3> QED BY <1>1, <2>2, <3>1, <3>2 DEF Extend
  <2>3. ASSUME Release(w)
        PROVE  ChargesTyped'
    <3>1. take(reserved, claim[w]) \in Nat
      BY <1>1, TakeFacts
    <3> QED BY <1>1, <2>3, <3>1 DEF Release, Done
  <2>4. ASSUME NEW k \in Keys, PutObject(w, k)
        PROVE  ChargesTyped'
    BY <1>1, <2>4 DEF PutObject, entry
  <2>5. ASSUME NEW k \in Keys, DeleteObject(w, k)
        PROVE  ChargesTyped'
    BY <1>1, <2>5 DEF DeleteObject, entry
  <2>6. ASSUME RecordObject(w)
        PROVE  ChargesTyped'
    <3>0. used + size[w] \in Nat /\ claim[w] \in Nat /\ freed[w] \in Nat
      BY <1>1
    <3>1. take(reserved, claim[w]) \in Nat /\ take(used + size[w], freed[w]) \in Nat
      BY <1>1, <3>0, TakeFacts
    <3> QED BY <1>1, <2>6, <3>1 DEF RecordObject, Done
  <2>7. ASSUME RecordDeletion(w)
        PROVE  ChargesTyped'
    <3>1. take(used, freed[w]) \in Nat
      BY <1>1, TakeFacts
    <3> QED BY <1>1, <2>7, <3>1 DEF RecordDeletion, Done
  <2> QED BY <2>1, <2>2, <2>3, <2>4, <2>5, <2>6, <2>7
<1> QED BY <1>2, <1>3, <1>4, TypePartsPrimed

\* A step that changes the allocation in the ledger or in the record.
ChangeStep(w) ==
    \/ \E q \in Quotas : ReadAllocation(w, q)
    \/ SetQuota(w) \/ WriteQuota(w) \/ UndoQuota(w)
    \/ ReadRest(w) \/ WriteRest(w)

\* What all of them leave alone, and the stages they are between.
LEMMA ChangeStepKeeps ==
    ASSUME TypeOK, NEW w \in Workers, ChangeStep(w)
    PROVE  /\ UNCHANGED <<used, reserved, stored, claim, size, freed>>
           /\ pc[w] \in {"idle", "setQuota", "writeQuota", "undoQuota", "writeRest"}
           /\ \E s \in {"idle", "setQuota", "writeQuota", "undoQuota", "writeRest"} :
                 pc' = [pc EXCEPT ![w] = s]
BY DEF ChangeStep, ReadAllocation, SetQuota, WriteQuota, UndoQuota, ReadRest, WriteRest,
       ChangeOver, entry, write

LEMMA ChangeTyped ==
    ASSUME TypeOK, NEW w \in Workers, ChangeStep(w)
    PROVE  TypeOK'
<1>1. ChargesTyped /\ pc \in [Workers -> Stages] /\ ChangesTyped
  BY TypeParts
<1>2. ChargesTyped'
  BY <1>1, ChangeStepKeeps, ChargesStay DEF write
<1>3. (pc \in [Workers -> Stages])'
  BY <1>1, ChangeStepKeeps, StagesAre, StageTyped
<1>4. quota' \in Quotas /\ recorded' \in Quotas
  <2>1. change[w].from \in Quotas /\ change[w].to \in Quotas /\ quota \in Quotas
          /\ recorded \in Quotas
    BY <1>1 DEF ChangesTyped
  <2> QED BY <2>1 DEF ChangeStep, ReadAllocation, SetQuota, WriteQuota, UndoQuota, ReadRest,
                      WriteRest, entry
<1>5. change' \in [Workers -> [from : Quotas, to : Quotas]]
  <2>1. \E c \in [from : Quotas, to : Quotas] :
            change' = [change EXCEPT ![w] = c] \/ change' = change
    <3>1. recorded \in Quotas /\ NoChange \in [from : Quotas, to : Quotas]
      BY <1>1, LedgerAssumption DEF ChangesTyped, NoChange
    <3>2. \A q \in Quotas : [from |-> recorded, to |-> q] \in [from : Quotas, to : Quotas]
      BY <3>1
    <3> QED BY <3>1, <3>2 DEF ChangeStep, ReadAllocation, SetQuota, WriteQuota, UndoQuota,
                              ReadRest, WriteRest, ChangeOver
  <2> QED BY <1>1, <2>1 DEF ChangesTyped
<1>6. reverted' \in BOOLEAN
  <2>1. reverted' = reverted \/ reverted' = FALSE
          \/ reverted' = (reverted /\ ~Covers(change[w].from))
    BY DEF ChangeStep, ReadAllocation, SetQuota, WriteQuota, UndoQuota, ReadRest, WriteRest
  <2> QED BY <1>1, <2>1, Zenon DEF ChangesTyped
<1> QED BY <1>2, <1>3, <1>4, <1>5, <1>6, TypePartsPrimed DEF ChangesTyped

\* Every step keeps the types.
LEMMA TypePreserved ==
    ASSUME TypeOK, [Next]_vars
    PROVE  TypeOK'
<1>1. CASE Restart
  <2>1. ChargesTyped /\ ChangesTyped
    BY TypeParts
  <2>2. StoredBytes \in Nat
    BY <2>1, LedgerAssumption, SumNat DEF StoredBytes, ChargesTyped
  <2>3. ChargesTyped'
    BY <1>1, <2>1, <2>2 DEF Restart, ChargesTyped
  <2>4. (pc \in [Workers -> Stages])'
    BY <1>1, StagesAre DEF Restart
  <2>5. quota' \in Quotas /\ recorded' \in Quotas
    BY <1>1, <2>1 DEF Restart, ChangesTyped
  <2>6. change' \in [Workers -> [from : Quotas, to : Quotas]]
    BY <1>1, LedgerAssumption DEF Restart, NoChange
  <2>7. reverted' \in BOOLEAN
    BY <1>1, Zenon DEF Restart
  <2> QED BY <2>3, <2>4, <2>5, <2>6, <2>7, TypePartsPrimed DEF ChangesTyped
<1>2. CASE UNCHANGED vars
  BY <1>2 DEF vars, TypeOK
<1> QED BY <1>1, <1>2, WriteTyped, ChangeTyped DEF Next, ChangeStep

\* The sums are naturals.
LEMMA SumsAreNat ==
    ASSUME TypeOK
    PROVE  /\ StoredBytes \in Nat /\ ClaimedBytes \in Nat
           /\ FreedBytes \in Nat /\ UnsettledBytes \in Nat
           /\ Unsettled \in [Workers -> Nat]
<1>1. IsFiniteSet(Keys) /\ IsFiniteSet(Workers)
  BY LedgerAssumption
<1>2. Unsettled \in [Workers -> Nat]
  BY DEF TypeOK, Unsettled
<1>3. UnsettledBytes \in Nat
  BY <1>1, <1>2, SumNat DEF UnsettledBytes
<1>4. StoredBytes \in Nat
  BY <1>1, SumNat DEF StoredBytes, TypeOK
<1>5. ClaimedBytes \in Nat
  BY <1>1, SumNat DEF ClaimedBytes, TypeOK
<1>6. FreedBytes \in Nat
  BY <1>1, SumNat DEF FreedBytes, TypeOK
<1> QED BY <1>2, <1>3, <1>4, <1>5, <1>6

\* A step of worker w leaves the others' requests alone.
OnlyMoves(w) ==
    \A v \in Workers : v # w =>
        pc'[v] = pc[v] /\ claim'[v] = claim[v] /\ size'[v] = size[v] /\ freed'[v] = freed[v]

\* One value of a function changes, and the sum changes by the difference.
LEMMA SumChanges ==
    ASSUME NEW S, IsFiniteSet(S), NEW f \in [S -> Nat], NEW g \in [S -> Nat],
           NEW b \in S, \A v \in S : v # b => g[v] = f[v]
    PROVE  /\ SumFunctionOnSet(g, S) + f[b] = SumFunctionOnSet(f, S) + g[b]
           /\ f[b] <= SumFunctionOnSet(f, S)
<1>1. g = [f EXCEPT ![b] = g[b]]
  OBVIOUS
<1>2. g[b] \in Nat
  OBVIOUS
<1>3. SumFunctionOnSet([f EXCEPT ![b] = g[b]], S) + f[b] = SumFunctionOnSet(f, S) + g[b]
  BY <1>2, SumUpdate
<1>4. f[b] <= SumFunctionOnSet(f, S)
  BY <1>2, SumUpdate
<1> QED BY <1>1, <1>3, <1>4

\* What a step of one worker does to the sums over all of them.
LEMMA WorkerSums ==
    ASSUME TypeOK, TypeOK', NEW w \in Workers, OnlyMoves(w)
    PROVE  /\ ClaimedBytes' + claim[w] = ClaimedBytes + claim'[w]
           /\ claim[w] <= ClaimedBytes
           /\ FreedBytes' + freed[w] = FreedBytes + freed'[w]
           /\ freed[w] <= FreedBytes
           /\ UnsettledBytes' + Unsettled[w] = UnsettledBytes + Unsettled'[w]
<1>1. IsFiniteSet(Workers)
  BY LedgerAssumption
<1>2. ClaimedBytes' + claim[w] = ClaimedBytes + claim'[w] /\ claim[w] <= ClaimedBytes
  <2>1. claim \in [Workers -> Nat] /\ claim' \in [Workers -> Nat]
    BY DEF TypeOK
  <2>2. \A v \in Workers : v # w => claim'[v] = claim[v]
    BY DEF OnlyMoves
  <2> QED BY <1>1, <2>1, <2>2, SumChanges DEF ClaimedBytes
<1>3. FreedBytes' + freed[w] = FreedBytes + freed'[w] /\ freed[w] <= FreedBytes
  <2>1. freed \in [Workers -> Nat] /\ freed' \in [Workers -> Nat]
    BY DEF TypeOK
  <2>2. \A v \in Workers : v # w => freed'[v] = freed[v]
    BY DEF OnlyMoves
  <2> QED BY <1>1, <2>1, <2>2, SumChanges DEF FreedBytes
<1>4. UnsettledBytes' + Unsettled[w] = UnsettledBytes + Unsettled'[w]
  <2>1. Unsettled \in [Workers -> Nat] /\ Unsettled' \in [Workers -> Nat]
    BY DEF Unsettled, TypeOK
  <2>2. \A v \in Workers : v # w => Unsettled'[v] = Unsettled[v]
    BY DEF OnlyMoves, Unsettled
  <2> QED BY <1>1, <2>1, <2>2, SumChanges DEF UnsettledBytes
<1> QED BY <1>2, <1>3, <1>4

\* What a commit does to the bytes stored.
LEMMA StoredSums ==
    ASSUME TypeOK, NEW k \in Keys, NEW n \in Nat, stored' = [stored EXCEPT ![k] = n]
    PROVE  StoredBytes' + stored[k] = StoredBytes + n
BY LedgerAssumption, SumUpdate DEF TypeOK, StoredBytes

-----------------------------------------------------------------------------
(* The inductive invariant.                                                 *)

\* The part of the invariant about each worker alone.
WorkerInv(w) ==
    /\ pc[w] \in {"commit", "recordObject"} => size[w] <= claim[w]
    /\ pc[w] \notin {"stream", "commit", "recordObject"} => claim[w] = 0
    /\ pc[w] \notin {"recordObject", "recordDeletion"} => freed[w] = 0

\* A step of worker w need only be examined at w.
LEMMA WorkerInvMoves ==
    ASSUME LedgerInv, NEW w \in Workers, OnlyMoves(w), WorkerInv(w)'
    PROVE  ClaimCoversSize' /\ ClaimHeldByWrites' /\ FreedByCommits'
BY DEF LedgerInv, OnlyMoves, WorkerInv, ClaimCoversSize, ClaimHeldByWrites, FreedByCommits

\* The charge covers what is stored: a payload not yet settled is covered by
\* the claim that its worker still holds.
LEMMA ChargeCoversStore ==
    ASSUME LedgerInv
    PROVE  StoredIsCharged
<1>1. TypeOK
  BY DEF LedgerInv
<1>2. /\ StoredBytes \in Nat /\ ClaimedBytes \in Nat
      /\ FreedBytes \in Nat /\ UnsettledBytes \in Nat
      /\ Unsettled \in [Workers -> Nat]
  BY <1>1, SumsAreNat
<1>3. UnsettledBytes <= ClaimedBytes
  <2>1. \A w \in Workers :
            Unsettled[w] \in Nat /\ claim[w] \in Nat /\ Unsettled[w] <= claim[w]
    BY <1>1 DEF LedgerInv, ClaimCoversSize, Unsettled, TypeOK
  <2>2. IsFiniteSet(Workers)
    BY LedgerAssumption
  <2> QED BY <2>1, <2>2, SumMonotone DEF UnsettledBytes, ClaimedBytes
<1>4. used \in Nat /\ reserved \in Nat
  BY <1>1 DEF TypeOK
<1> QED BY <1>2, <1>3, <1>4
        DEF LedgerInv, LedgerNotBehind, ReservedIsClaimed, StoredIsCharged, chargedBytes

\* Initially every sum is 0.
LEMMA InitInv ==
    ASSUME Init
    PROVE  LedgerInv
<1> USE DEF Init
<1>1. TypeOK
  <2>1. ChargesTyped /\ pc \in [Workers -> Stages]
    BY StagesAre DEF ChargesTyped
  <2>2. quota \in Quotas /\ recorded \in Quotas /\ reverted \in BOOLEAN
    OBVIOUS
  <2>3. change \in [Workers -> [from : Quotas, to : Quotas]]
    BY LedgerAssumption DEF NoChange
  <2> QED BY <2>1, <2>2, <2>3, TypeParts DEF ChangesTyped
<1>2. IsFiniteSet(Keys) /\ IsFiniteSet(Workers)
  BY LedgerAssumption
<1>3. StoredBytes = 0
  <2>1. \A k \in Keys : stored[k] = 0
    OBVIOUS
  <2> QED BY <1>2, <2>1, SumZero DEF StoredBytes
<1>4. ClaimedBytes = 0
  <2>1. \A w \in Workers : claim[w] = 0
    OBVIOUS
  <2> QED BY <1>2, <2>1, SumZero DEF ClaimedBytes
<1>5. FreedBytes = 0
  <2>1. \A w \in Workers : freed[w] = 0
    OBVIOUS
  <2> QED BY <1>2, <2>1, SumZero DEF FreedBytes
<1>6. UnsettledBytes = 0
  <2>1. \A w \in Workers : Unsettled[w] = 0
    BY DEF Unsettled
  <2> QED BY <1>2, <2>1, SumZero DEF UnsettledBytes
<1>7. ClaimCoversSize /\ ClaimHeldByWrites /\ FreedByCommits
  BY DEF ClaimCoversSize, ClaimHeldByWrites, FreedByCommits
<1>8. LedgerNotBehind /\ ReservedIsClaimed
  BY <1>3, <1>4, <1>5, <1>6 DEF LedgerNotBehind, ReservedIsClaimed
<1>9. NeverOverAllocated
  <2>1. quota \in Nat
    BY LedgerAssumption
  <2> QED BY <2>1 DEF NeverOverAllocated, chargedBytes
<1> QED BY <1>1, <1>7, <1>8, <1>9 DEF LedgerInv

\* What the two halves of a step of worker w give: the worker's own conditions,
\* and the arithmetic of the sums.
LEMMA StepInv ==
    ASSUME LedgerInv, TypeOK', NEW w \in Workers, OnlyMoves(w), WorkerInv(w)',
           ReservedIsClaimed', LedgerNotBehind', NeverOverAllocated'
    PROVE  LedgerInv'
BY WorkerInvMoves DEF LedgerInv

\* The types and the sums, before and after a step of worker w.
LEMMA StepNumbers ==
    ASSUME LedgerInv, TypeOK', NEW w \in Workers, OnlyMoves(w)
    PROVE  /\ quota \in Nat /\ used \in Nat /\ reserved \in Nat
           /\ claim[w] \in Nat /\ size[w] \in Nat /\ freed[w] \in Nat
           /\ quota' \in Nat /\ used' \in Nat /\ reserved' \in Nat
           /\ claim'[w] \in Nat /\ size'[w] \in Nat /\ freed'[w] \in Nat
           /\ StoredBytes \in Nat /\ ClaimedBytes \in Nat
           /\ FreedBytes \in Nat /\ UnsettledBytes \in Nat
           /\ StoredBytes' \in Nat /\ ClaimedBytes' \in Nat
           /\ FreedBytes' \in Nat /\ UnsettledBytes' \in Nat
           /\ Unsettled[w] = (IF pc[w] = "recordObject" THEN size[w] ELSE 0)
           /\ Unsettled'[w] = (IF pc'[w] = "recordObject" THEN size'[w] ELSE 0)
           /\ ClaimedBytes' + claim[w] = ClaimedBytes + claim'[w]
           /\ claim[w] <= ClaimedBytes
           /\ FreedBytes' + freed[w] = FreedBytes + freed'[w]
           /\ freed[w] <= FreedBytes
           /\ UnsettledBytes' + Unsettled[w] = UnsettledBytes + Unsettled'[w]
           /\ reserved = ClaimedBytes
           /\ StoredBytes + FreedBytes <= used + UnsettledBytes
           /\ quota # 0 /\ ~reverted => used + reserved <= quota
<1>1. TypeOK
  BY DEF LedgerInv
<1>2. /\ quota \in Nat /\ used \in Nat /\ reserved \in Nat
      /\ claim[w] \in Nat /\ size[w] \in Nat /\ freed[w] \in Nat
  BY <1>1, LedgerAssumption DEF TypeOK
<1>3. /\ quota' \in Nat /\ used' \in Nat /\ reserved' \in Nat
      /\ claim'[w] \in Nat /\ size'[w] \in Nat /\ freed'[w] \in Nat
  BY LedgerAssumption DEF TypeOK
<1>4. /\ StoredBytes \in Nat /\ ClaimedBytes \in Nat
      /\ FreedBytes \in Nat /\ UnsettledBytes \in Nat
  BY <1>1, SumsAreNat
<1>5. /\ StoredBytes' \in Nat /\ ClaimedBytes' \in Nat
      /\ FreedBytes' \in Nat /\ UnsettledBytes' \in Nat
  <2>1. IsFiniteSet(Keys) /\ IsFiniteSet(Workers)
    BY LedgerAssumption
  <2>2. Unsettled' \in [Workers -> Nat]
    BY DEF TypeOK, Unsettled
  <2>3. UnsettledBytes' \in Nat
    BY <2>1, <2>2, SumNat DEF UnsettledBytes
  <2>4. StoredBytes' \in Nat /\ ClaimedBytes' \in Nat /\ FreedBytes' \in Nat
    BY <2>1, SumNat DEF StoredBytes, ClaimedBytes, FreedBytes, TypeOK
  <2> QED BY <2>3, <2>4
<1>6. /\ Unsettled[w] = (IF pc[w] = "recordObject" THEN size[w] ELSE 0)
      /\ Unsettled'[w] = (IF pc'[w] = "recordObject" THEN size'[w] ELSE 0)
  BY DEF Unsettled
<1>7. /\ ClaimedBytes' + claim[w] = ClaimedBytes + claim'[w]
      /\ claim[w] <= ClaimedBytes
      /\ FreedBytes' + freed[w] = FreedBytes + freed'[w]
      /\ freed[w] <= FreedBytes
      /\ UnsettledBytes' + Unsettled[w] = UnsettledBytes + Unsettled'[w]
  BY <1>1, WorkerSums
<1>8. /\ reserved = ClaimedBytes
      /\ StoredBytes + FreedBytes <= used + UnsettledBytes
      /\ quota # 0 /\ ~reverted => used + reserved <= quota
  BY DEF LedgerInv, ReservedIsClaimed, LedgerNotBehind, NeverOverAllocated, chargedBytes
<1> QED BY <1>2, <1>3, <1>4, <1>5, <1>6, <1>7, <1>8

\* Admission claims the declared length.
LEMMA ReserveInv ==
    ASSUME LedgerInv, TypeOK', NEW w \in Workers, NEW n \in Sizes, Reserve(w, n)
    PROVE  LedgerInv'
<1>1. OnlyMoves(w) /\ n \in Nat
  BY LedgerAssumption DEF Reserve, LedgerInv, TypeOK, OnlyMoves
<1>2. /\ pc[w] = "idle" /\ pc'[w] = "stream" /\ claim'[w] = n
      /\ freed' = freed /\ used' = used /\ quota' = quota /\ reverted' = reverted /\ reserved' = reserved + n
      /\ n = 0 \/ quota = 0 \/ used + reserved + n <= quota
      /\ StoredBytes' = StoredBytes
  BY DEF Reserve, allocation, LedgerInv, TypeOK, Admits, chargedBytes, StoredBytes
<1>3. claim[w] = 0 /\ freed[w] = 0
  BY <1>2 DEF LedgerInv, ClaimHeldByWrites, FreedByCommits
<1>4. ReservedIsClaimed' /\ LedgerNotBehind'
  BY <1>1, <1>2, <1>3, StepNumbers DEF ReservedIsClaimed, LedgerNotBehind
<1>5. NeverOverAllocated'
  BY <1>1, <1>2, StepNumbers DEF NeverOverAllocated, chargedBytes
<1>6. WorkerInv(w)'
  BY <1>2, <1>3 DEF WorkerInv
<1> QED BY <1>1, <1>4, <1>5, <1>6, StepInv

\* The claim is raised to what arrived, if that is admitted.
LEMMA ExtendInv ==
    ASSUME LedgerInv, TypeOK', NEW w \in Workers, NEW n \in Sizes, Extend(w, n)
    PROVE  LedgerInv'
<1> DEFINE more == take(n, claim[w])
<1>1. OnlyMoves(w) /\ n \in Nat /\ claim[w] \in Nat
  BY LedgerAssumption DEF Extend, LedgerInv, TypeOK, OnlyMoves
<1>2. more \in Nat /\ n <= claim[w] + more /\ (n <= claim[w] => more = 0)
        /\ (n > claim[w] => more = n - claim[w])
  BY <1>1 DEF take
<1>3. /\ pc[w] = "stream" /\ pc'[w] = "commit" /\ claim'[w] = claim[w] + more
      /\ size'[w] = n
      /\ freed' = freed /\ used' = used /\ quota' = quota /\ reverted' = reverted /\ reserved' = reserved + more
      /\ n <= claim[w] \/ quota = 0 \/ used + reserved + (n - claim[w]) <= quota
      /\ StoredBytes' = StoredBytes
  BY DEF Extend, allocation, LedgerInv, TypeOK, Admits, chargedBytes, StoredBytes
<1> HIDE DEF more
<1>4. freed[w] = 0
  BY <1>3 DEF LedgerInv, FreedByCommits
<1>5. ReservedIsClaimed' /\ LedgerNotBehind'
  BY <1>1, <1>2, <1>3, <1>4, StepNumbers DEF ReservedIsClaimed, LedgerNotBehind
<1>6. NeverOverAllocated'
  BY <1>1, <1>2, <1>3, StepNumbers DEF NeverOverAllocated, chargedBytes
<1>7. WorkerInv(w)'
  BY <1>2, <1>3, <1>4 DEF WorkerInv
<1> QED BY <1>1, <1>5, <1>6, <1>7, StepInv

\* A write that fails gives its claim back.
LEMMA ReleaseInv ==
    ASSUME LedgerInv, TypeOK', NEW w \in Workers, Release(w)
    PROVE  LedgerInv'
<1>1. OnlyMoves(w)
  BY DEF Release, Done, LedgerInv, TypeOK, OnlyMoves
<1>2. /\ pc[w] \in {"stream", "commit"} /\ pc'[w] = "idle" /\ claim'[w] = 0
      /\ freed'[w] = 0 /\ used' = used /\ quota' = quota /\ reverted' = reverted
      /\ reserved' = take(reserved, claim[w])
      /\ StoredBytes' = StoredBytes
  BY DEF Release, Done, allocation, LedgerInv, TypeOK, StoredBytes
<1>3. freed[w] = 0
  BY <1>2 DEF LedgerInv, FreedByCommits
<1>4. reserved' + claim[w] = reserved
  <2>1. reserved \in Nat /\ claim[w] \in Nat /\ claim[w] <= reserved
    BY <1>1, StepNumbers
  <2> QED BY <1>2, <2>1, TakeFacts
<1>5. ReservedIsClaimed' /\ LedgerNotBehind'
  BY <1>1, <1>2, <1>3, <1>4, StepNumbers DEF ReservedIsClaimed, LedgerNotBehind
<1>6. NeverOverAllocated'
  BY <1>1, <1>2, <1>4, StepNumbers DEF NeverOverAllocated, chargedBytes
<1>7. WorkerInv(w)'
  BY <1>2 DEF WorkerInv
<1> QED BY <1>1, <1>5, <1>6, <1>7, StepInv

\* The commit stores the payload and learns what it replaced.
LEMMA PutObjectInv ==
    ASSUME LedgerInv, TypeOK', NEW w \in Workers, NEW k \in Keys, PutObject(w, k)
    PROVE  LedgerInv'
<1>1. OnlyMoves(w) /\ TypeOK /\ stored[k] \in Nat /\ size[w] \in Nat
  BY DEF PutObject, LedgerInv, TypeOK, OnlyMoves
<1>2. /\ pc[w] = "commit" /\ pc'[w] = "recordObject"
      /\ claim' = claim /\ size' = size
      /\ freed'[w] = stored[k] /\ used' = used /\ quota' = quota /\ reverted' = reverted
      /\ reserved' = reserved
      /\ stored' = [stored EXCEPT ![k] = size[w]]
  BY DEF PutObject, entry, allocation, LedgerInv, TypeOK
<1>3. freed[w] = 0 /\ size[w] <= claim[w]
  BY <1>2 DEF LedgerInv, FreedByCommits, ClaimCoversSize
<1>4. StoredBytes' + stored[k] = StoredBytes + size[w]
  BY <1>1, <1>2, StoredSums
<1>5. ReservedIsClaimed' /\ LedgerNotBehind'
  BY <1>1, <1>2, <1>3, <1>4, StepNumbers DEF ReservedIsClaimed, LedgerNotBehind
<1>6. NeverOverAllocated'
  BY <1>2 DEF LedgerInv, NeverOverAllocated, chargedBytes
<1>7. WorkerInv(w)'
  BY <1>2, <1>3 DEF WorkerInv
<1> QED BY <1>1, <1>5, <1>6, <1>7, StepInv

\* A deletion takes the object away and learns its size.
LEMMA DeleteObjectInv ==
    ASSUME LedgerInv, TypeOK', NEW w \in Workers, NEW k \in Keys, DeleteObject(w, k)
    PROVE  LedgerInv'
<1>1. OnlyMoves(w) /\ TypeOK /\ stored[k] \in Nat
  BY DEF DeleteObject, LedgerInv, TypeOK, OnlyMoves
<1>2. /\ pc[w] = "idle" /\ pc'[w] = "recordDeletion"
      /\ claim' = claim /\ size' = size
      /\ freed'[w] = stored[k] /\ used' = used /\ quota' = quota /\ reverted' = reverted
      /\ reserved' = reserved
      /\ stored' = [stored EXCEPT ![k] = 0]
  BY DEF DeleteObject, entry, allocation, LedgerInv, TypeOK
<1>3. freed[w] = 0 /\ claim[w] = 0
  BY <1>2 DEF LedgerInv, FreedByCommits, ClaimHeldByWrites
<1>4. StoredBytes' + stored[k] = StoredBytes + 0
  BY <1>1, <1>2, StoredSums
<1>5. ReservedIsClaimed' /\ LedgerNotBehind'
  BY <1>1, <1>2, <1>3, <1>4, StepNumbers DEF ReservedIsClaimed, LedgerNotBehind
<1>6. NeverOverAllocated'
  BY <1>2 DEF LedgerInv, NeverOverAllocated, chargedBytes
<1>7. WorkerInv(w)'
  BY <1>2, <1>3 DEF WorkerInv
<1> QED BY <1>1, <1>5, <1>6, <1>7, StepInv

\* The settlement of a write turns its claim into a charge.
LEMMA RecordObjectInv ==
    ASSUME LedgerInv, TypeOK', NEW w \in Workers, RecordObject(w)
    PROVE  LedgerInv'
<1>1. OnlyMoves(w)
  BY DEF RecordObject, Done, LedgerInv, TypeOK, OnlyMoves
<1>2. /\ pc[w] = "recordObject" /\ pc'[w] = "idle" /\ claim'[w] = 0
      /\ freed'[w] = 0 /\ used' = take(used + size[w], freed[w]) /\ quota' = quota /\ reverted' = reverted
      /\ reserved' = take(reserved, claim[w])
      /\ StoredBytes' = StoredBytes
  BY DEF RecordObject, Done, allocation, LedgerInv, TypeOK, StoredBytes
<1>3. size[w] <= claim[w]
  BY <1>2 DEF LedgerInv, ClaimCoversSize
<1>4. reserved' + claim[w] = reserved
  <2>1. reserved \in Nat /\ claim[w] \in Nat /\ claim[w] <= reserved
    BY <1>1, StepNumbers
  <2> QED BY <1>2, <2>1, TakeFacts
<1>5. used' <= used + size[w] /\ used + size[w] <= used' + freed[w]
  <2>1. used + size[w] \in Nat /\ freed[w] \in Nat
    BY <1>1, StepNumbers
  <2> QED BY <1>2, <2>1, TakeFacts
<1>6. ReservedIsClaimed' /\ LedgerNotBehind'
  <2>1. Unsettled[w] = size[w] /\ Unsettled'[w] = 0
    BY <1>1, <1>2, StepNumbers
  <2>2. ReservedIsClaimed'
    <3>1. /\ reserved' \in Nat /\ claim[w] \in Nat /\ ClaimedBytes \in Nat
          /\ ClaimedBytes' \in Nat
          /\ ClaimedBytes' + claim[w] = ClaimedBytes + claim'[w] /\ reserved = ClaimedBytes
      BY <1>1, StepNumbers
    <3> QED BY <1>2, <1>4, <3>1 DEF ReservedIsClaimed
  <2>3. LedgerNotBehind'
    BY <1>1, <1>2, <1>5, <2>1, StepNumbers DEF LedgerNotBehind
  <2> QED BY <2>2, <2>3
<1>7. NeverOverAllocated'
  BY <1>1, <1>2, <1>3, <1>4, <1>5, StepNumbers DEF NeverOverAllocated, chargedBytes
<1>8. WorkerInv(w)'
  BY <1>2 DEF WorkerInv
<1> QED BY <1>1, <1>6, <1>7, <1>8, StepInv

\* The settlement of a deletion takes the charge off.
LEMMA RecordDeletionInv ==
    ASSUME LedgerInv, TypeOK', NEW w \in Workers, RecordDeletion(w)
    PROVE  LedgerInv'
<1>1. OnlyMoves(w)
  BY DEF RecordDeletion, Done, LedgerInv, TypeOK, OnlyMoves
<1>2. /\ pc[w] = "recordDeletion" /\ pc'[w] = "idle" /\ claim'[w] = 0
      /\ freed'[w] = 0 /\ used' = take(used, freed[w]) /\ quota' = quota /\ reverted' = reverted
      /\ reserved' = reserved
      /\ StoredBytes' = StoredBytes
  BY DEF RecordDeletion, Done, allocation, LedgerInv, TypeOK, StoredBytes
<1>3. claim[w] = 0
  BY <1>2 DEF LedgerInv, ClaimHeldByWrites
<1>4. used' <= used /\ used <= used' + freed[w]
  BY <1>1, <1>2, StepNumbers, TakeFacts
<1>5. ReservedIsClaimed' /\ LedgerNotBehind'
  BY <1>1, <1>2, <1>3, <1>4, StepNumbers DEF ReservedIsClaimed, LedgerNotBehind
<1>6. NeverOverAllocated'
  BY <1>1, <1>2, <1>4, StepNumbers DEF NeverOverAllocated, chargedBytes
<1>7. WorkerInv(w)'
  BY <1>2 DEF WorkerInv
<1> QED BY <1>1, <1>5, <1>6, <1>7, StepInv

\* A start derives the charges from the store, which the charge of the process
\* before covered: that is why StoredIsCharged is needed for the allocation.
LEMMA RestartInv ==
    ASSUME LedgerInv, TypeOK', Restart
    PROVE  LedgerInv'
<1>1. IsFiniteSet(Workers)
  BY LedgerAssumption
<1>2. ClaimedBytes' = 0
  <2>1. \A w \in Workers : claim'[w] = 0
    BY DEF Restart
  <2> QED BY <1>1, <2>1, SumZero DEF ClaimedBytes
<1>3. FreedBytes' = 0
  <2>1. \A w \in Workers : freed'[w] = 0
    BY DEF Restart
  <2> QED BY <1>1, <2>1, SumZero DEF FreedBytes
<1>4. UnsettledBytes' = 0
  <2>1. \A w \in Workers : Unsettled'[w] = 0
    BY DEF Restart, Unsettled
  <2> QED BY <1>1, <2>1, SumZero DEF UnsettledBytes
<1>5. StoredBytes \in Nat /\ StoredBytes' = StoredBytes
  BY SumsAreNat DEF LedgerInv, Restart, StoredBytes
<1>6. /\ used' = StoredBytes /\ reserved' = 0
      /\ ~reverted' => quota' = quota /\ ~reverted
  BY DEF Restart
<1>7. LedgerNotBehind' /\ ReservedIsClaimed'
  BY <1>2, <1>3, <1>4, <1>5, <1>6 DEF LedgerNotBehind, ReservedIsClaimed
<1>8. NeverOverAllocated'
  <2>1. StoredBytes <= used + reserved
    BY ChargeCoversStore DEF StoredIsCharged, chargedBytes
  <2>2. used \in Nat /\ reserved \in Nat /\ quota \in Nat
    BY LedgerAssumption DEF LedgerInv, TypeOK
  <2> QED BY <1>5, <1>6, <2>1, <2>2 DEF LedgerInv, NeverOverAllocated, chargedBytes
<1>9. ClaimCoversSize' /\ ClaimHeldByWrites' /\ FreedByCommits'
  BY DEF Restart, ClaimCoversSize, ClaimHeldByWrites, FreedByCommits
<1> QED BY <1>7, <1>8, <1>9 DEF LedgerInv

\* A change of the allocation leaves the charges alone, and the ledger takes no
\* allocation that does not cover them: neither the new one nor, after a failed
\* write of the record, the old one.
LEMMA ChangeInv ==
    ASSUME LedgerInv, TypeOK', NEW w \in Workers, ChangeStep(w)
    PROVE  LedgerInv'
<1>1. TypeOK
  BY DEF LedgerInv
<1>2. /\ UNCHANGED <<used, reserved, stored, claim, size, freed>>
      /\ pc[w] \in {"idle", "setQuota", "writeQuota", "undoQuota", "writeRest"}
      /\ \E s \in {"idle", "setQuota", "writeQuota", "undoQuota", "writeRest"} :
            pc' = [pc EXCEPT ![w] = s]
  BY <1>1, ChangeStepKeeps
<1>3. OnlyMoves(w) /\ pc'[w] \in {"idle", "setQuota", "writeQuota", "undoQuota", "writeRest"}
  BY <1>1, <1>2 DEF OnlyMoves, TypeOK
<1>4. claim[w] = 0 /\ freed[w] = 0
  BY <1>2 DEF LedgerInv, ClaimHeldByWrites, FreedByCommits
<1>5. WorkerInv(w)'
  BY <1>2, <1>3, <1>4 DEF WorkerInv
<1>6. StoredBytes' = StoredBytes
  BY <1>2 DEF StoredBytes
<1>7. ReservedIsClaimed' /\ LedgerNotBehind'
  BY <1>2, <1>3, <1>4, <1>6, StepNumbers DEF ReservedIsClaimed, LedgerNotBehind
<1>8. NeverOverAllocated'
  <2>1. quota \in Nat /\ used \in Nat /\ reserved \in Nat
    BY <1>3, StepNumbers
  <2>2. NeverOverAllocated
    BY DEF LedgerInv
  <2>3. \/ Covers(quota')
        \/ quota' = quota /\ (reverted' = reverted \/ reverted' = (reverted /\ TRUE))
    BY DEF ChangeStep, ReadAllocation, SetQuota, WriteQuota, UndoQuota, ReadRest, WriteRest,
           entry
  <2>4. CASE Covers(quota')
    BY <1>2, <2>4 DEF Covers, NeverOverAllocated, chargedBytes
  <2>5. CASE quota' = quota /\ (reverted' = reverted \/ reverted' = (reverted /\ TRUE))
    BY <1>2, <2>2, <2>5 DEF NeverOverAllocated, chargedBytes
  <2> QED BY <2>3, <2>4, <2>5
<1> QED BY <1>3, <1>5, <1>7, <1>8, StepInv

\* Every step keeps the invariant.
LEMMA LedgerInvPreserved ==
    ASSUME LedgerInv, [Next]_vars
    PROVE  LedgerInv'
<1>1. TypeOK'
  BY TypePreserved DEF LedgerInv
<1>2. CASE UNCHANGED vars
  <2>1. /\ StoredBytes' = StoredBytes /\ ClaimedBytes' = ClaimedBytes
        /\ FreedBytes' = FreedBytes /\ UnsettledBytes' = UnsettledBytes
    BY <1>2 DEF vars, StoredBytes, ClaimedBytes, FreedBytes, UnsettledBytes, Unsettled
  <2>2. NeverOverAllocated' /\ ReservedIsClaimed' /\ LedgerNotBehind'
    BY <1>2, <2>1
       DEF vars, LedgerInv, NeverOverAllocated, chargedBytes, ReservedIsClaimed, LedgerNotBehind
  <2>3. ClaimCoversSize' /\ ClaimHeldByWrites' /\ FreedByCommits'
    BY <1>2 DEF vars, LedgerInv, ClaimCoversSize, ClaimHeldByWrites, FreedByCommits
  <2> QED BY <1>1, <2>2, <2>3 DEF LedgerInv
<1> QED BY <1>1, <1>2, ReserveInv, ExtendInv, ReleaseInv, PutObjectInv, DeleteObjectInv,
           RecordObjectInv, RecordDeletionInv, ChangeInv, RestartInv DEF Next, ChangeStep

-----------------------------------------------------------------------------
(* The theorems.                                                            *)

\* The inductive invariant holds in every reachable state.
THEOREM LedgerInvariant == Spec => []LedgerInv
<1>1. Init => LedgerInv
  BY InitInv
<1>2. LedgerInv /\ [Next]_vars => LedgerInv'
  BY LedgerInvPreserved
<1> QED BY <1>1, <1>2, PTL DEF Spec

\* Every variable of the ledger, the store and the workers keeps its type: the
\* tallies never wrap below zero, whatever settles in whatever order.
THEOREM LedgerTyped == Spec => []TypeOK
<1>1. LedgerInv => TypeOK
  BY DEF LedgerInv
<1> QED BY <1>1, LedgerInvariant, PTL

\* The reserved bytes are those of the claims that are held: no Reservation is
\* lost or given back twice (Reservation's destructor, recordObject).
THEOREM ClaimsCountedOnce == Spec => []ReservedIsClaimed
<1>1. LedgerInv => ReservedIsClaimed
  BY DEF LedgerInv
<1> QED BY <1>1, LedgerInvariant, PTL

\* What is charged covers what is on disk at every instant, although finishWrite
\* and deleteObject commit first and settle with the ledger second.
THEOREM ChargeSafety == Spec => []StoredIsCharged
<1>1. LedgerInv => StoredIsCharged
  BY ChargeCoversStore
<1> QED BY <1>1, LedgerInvariant, PTL

\* No interleaving of admissions, settlements, changes of the allocation, failed
\* ones and restarts charges a bucket more than its allocation, until a start
\* takes from the record an allocation other than the one that was enforced.
THEOREM AllocationSafety == Spec => []NeverOverAllocated
<1>1. LedgerInv => NeverOverAllocated
  BY DEF LedgerInv
<1> QED BY <1>1, LedgerInvariant, PTL

\* A step that charges more admits it against the allocation in force: the
\* settlements of recordObject and recordDeletion, and the charges that
\* seedQuotas derives, only ever lower the charge.
LEMMA ChargeGrowsByAdmission ==
    ASSUME LedgerInv, LedgerInv', [Next]_vars, quota' # 0, chargedBytes' > chargedBytes
    PROVE  chargedBytes' <= quota'
<1> USE DEF chargedBytes
<1>0. TypeOK /\ TypeOK'
  BY DEF LedgerInv
<1>1. /\ quota \in Nat /\ used \in Nat /\ reserved \in Nat
      /\ quota' \in Nat /\ used' \in Nat /\ reserved' \in Nat
  BY <1>0, LedgerAssumption DEF TypeOK
<1>2. ASSUME NEW w \in Workers, NEW n \in Sizes, Reserve(w, n)
      PROVE  chargedBytes' <= quota'
  <2>1. n \in Nat
    BY LedgerAssumption
  <2> QED BY <1>1, <1>2, <2>1 DEF Reserve, Admits
<1>3. ASSUME NEW w \in Workers, NEW n \in Sizes, Extend(w, n)
      PROVE  chargedBytes' <= quota'
  <2>1. n \in Nat /\ claim[w] \in Nat
    BY <1>0, LedgerAssumption DEF TypeOK
  <2> QED BY <1>1, <1>3, <2>1 DEF Extend, Admits, take
<1>4. ASSUME NEW w \in Workers, Release(w) \/ RecordDeletion(w)
      PROVE  FALSE
  <2>1. claim[w] \in Nat /\ freed[w] \in Nat
    BY <1>0 DEF TypeOK
  <2>2. take(reserved, claim[w]) <= reserved /\ take(used, freed[w]) <= used
    BY <1>1, <2>1, TakeFacts
  <2> QED BY <1>1, <1>4, <2>2 DEF Release, RecordDeletion
<1>5. ASSUME NEW w \in Workers, RecordObject(w)
      PROVE  FALSE
  <2>1. claim[w] \in Nat /\ freed[w] \in Nat /\ size[w] \in Nat /\ used + size[w] \in Nat
    BY <1>0, <1>1 DEF TypeOK
  <2>2. size[w] <= claim[w]
    BY <1>5 DEF RecordObject, LedgerInv, ClaimCoversSize
  <2>3. claim[w] <= reserved
    <3>1. IsFiniteSet(Workers) /\ claim \in [Workers -> Nat]
      BY <1>0, LedgerAssumption DEF TypeOK
    <3>2. claim[w] <= ClaimedBytes
      BY <3>1, SumChanges DEF ClaimedBytes
    <3> QED BY <3>2 DEF LedgerInv, ReservedIsClaimed
  <2>4. take(reserved, claim[w]) + claim[w] = reserved
    BY <1>1, <2>1, <2>3, TakeFacts
  <2>5. take(used + size[w], freed[w]) <= used + size[w]
    BY <2>1, TakeFacts
  <2>6. used' + claim[w] + reserved' <= used + size[w] + reserved
    BY <1>1, <1>5, <2>1, <2>4, <2>5 DEF RecordObject
  <2> QED BY <1>1, <2>1, <2>2, <2>6
<1>6. ASSUME NEW w \in Workers,
             (\E k \in Keys : PutObject(w, k) \/ DeleteObject(w, k)) \/ ChangeStep(w)
      PROVE  FALSE
  <2>1. used' = used /\ reserved' = reserved
    BY <1>0, <1>6, ChangeStepKeeps DEF PutObject, DeleteObject, entry
  <2> QED BY <1>1, <2>1
<1>7. CASE Restart
  <2>1. StoredBytes <= used + reserved /\ StoredBytes \in Nat
    BY <1>0, ChargeCoversStore, SumsAreNat DEF StoredIsCharged
  <2> QED BY <1>1, <1>7, <2>1 DEF Restart
<1>8. CASE UNCHANGED vars
  BY <1>1, <1>8 DEF vars
<1> QED BY <1>2, <1>3, <1>4, <1>5, <1>6, <1>7, <1>8 DEF Next, ChangeStep

\* Whatever allocation a start finds, no step charges a bucket beyond the one in
\* force.
THEOREM GrowthSafety == Spec => ChargeWithinAllocation
<1>1. LedgerInv /\ LedgerInv' /\ [Next]_vars =>
        [quota' # 0 /\ chargedBytes' > chargedBytes => chargedBytes' <= quota']_vars
  BY ChargeGrowsByAdmission
<1> QED BY <1>1, LedgerInvariant, PTL DEF Spec, ChargeWithinAllocation

=============================================================================
