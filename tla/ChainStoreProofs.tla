-------------------------- MODULE ChainStoreProofs ---------------------------
(***************************************************************************)
(* Proofs about ChainStore, for every set of tokens, identities and sizes  *)
(* and every limit.                                                        *)
(*                                                                         *)
(* What a request finds in storage is described by IInv.  It says more     *)
(* than the properties do in two places: a chain without schema has no     *)
(* leftovers (so creating it again starts from nothing), and the clock is  *)
(* past zero (so that an alarm which was set is told from one that was     *)
(* not).                                                                   *)
(***************************************************************************)
EXTENDS ChainStore, FiniteSetTheorems, TLAPS

(* The numbers push() gives: above the old latest, up to the new one, and  *)
(* all different.                                                          *)
LEMMA SeqOfFacts ==
    ASSUME NEW last \in Nat, NEW acc \in SUBSET Key
    PROVE  /\ Cardinality(acc) \in Nat
           /\ \A k \in acc : /\ SeqOf(last, acc, k) \in Nat
                             /\ SeqOf(last, acc, k) > last
                             /\ SeqOf(last, acc, k) <= last + Cardinality(acc)
           /\ \A j, k \in acc : j # k => SeqOf(last, acc, j) # SeqOf(last, acc, k)
  <1> DEFINE Upto(k) == {j \in acc : j <= k}
  <1>1. IsFiniteSet(acc)
    BY KeyAssumption, FS_Subset
  <1>2. Cardinality(acc) \in Nat
    BY <1>1, FS_CardinalityType
  <1>3. ASSUME NEW k \in acc
        PROVE  /\ IsFiniteSet(Upto(k)) /\ Cardinality(Upto(k)) \in Nat
               /\ Cardinality(Upto(k)) > 0 /\ Cardinality(Upto(k)) <= Cardinality(acc)
    <2>1. Upto(k) \in SUBSET acc /\ k \in Upto(k)
      BY KeyAssumption
    <2> HIDE DEF Upto
    <2>2. IsFiniteSet(Upto(k)) /\ Cardinality(Upto(k)) <= Cardinality(acc)
      BY <1>1, <2>1, FS_Subset
    <2>3. Cardinality(Upto(k)) \in Nat
      BY <2>2, FS_CardinalityType
    <2>4. Cardinality(Upto(k)) # 0
      BY <2>1, <2>2, FS_EmptySet
    <2> QED BY <2>2, <2>3, <2>4
  <1>4. ASSUME NEW j \in acc, NEW k \in acc, j < k
        PROVE  Cardinality(Upto(j)) # Cardinality(Upto(k))
    <2>1. Upto(j) \in SUBSET Upto(k) /\ k \in Upto(k) /\ k \notin Upto(j)
      <3>1. acc \subseteq Nat /\ j \in Nat /\ k \in Nat
        BY KeyAssumption
      <3>2. \A i \in acc : i <= j => i <= k
        BY <1>4, <3>1
      <3>3. k <= k /\ ~(k <= j)
        BY <1>4, <3>1
      <3> QED BY <3>2, <3>3
    <2>2. IsFiniteSet(Upto(k))
      BY <1>3
    <2> HIDE DEF Upto
    <2> QED BY <2>1, <2>2, FS_Subset
  <1>5. ASSUME NEW j \in acc, NEW k \in acc, j # k
        PROVE  Cardinality(Upto(j)) # Cardinality(Upto(k))
    <2>1. j < k \/ k < j
      BY <1>5, KeyAssumption
    <2> HIDE DEF Upto
    <2> QED BY <1>4, <2>1
  <1>6. \A k \in acc : SeqOf(last, acc, k) = last + Cardinality(Upto(k))
    BY DEF SeqOf
  <1> HIDE DEF Upto
  <1> QED BY <1>2, <1>3, <1>5, <1>6

(* And none is left out: they are exactly the next ones after latest. *)
LEMMA NumbersConsecutive ==
    ASSUME NEW last \in Nat, NEW acc \in SUBSET Key
    PROVE  {SeqOf(last, acc, k) : k \in acc} = (last + 1)..(last + Cardinality(acc))
  <1> DEFINE n == Cardinality(acc)
             f == [k \in acc |-> SeqOf(last, acc, k)]
             T == (last + 1)..(last + n)
  <1>1. n \in Nat /\ f \in [acc -> T] /\ \A j, k \in acc : f[j] = f[k] => j = k
    BY SeqOfFacts
  <1>2. f \in Injection(acc, T)
    BY <1>1 DEF Injection, IsInjective
  <1>3. IsFiniteSet(T) /\ Cardinality(T) = n
    <2>1. last + 1 \in Int /\ last + n \in Int
      BY <1>1
    <2> HIDE DEF n
    <2>2. /\ IsFiniteSet(T)
          /\ Cardinality(T) = IF last + 1 > last + n THEN 0 ELSE (last + n) - (last + 1) + 1
      BY <2>1, FS_Interval
    <2> QED BY <1>1, <2>2
  <1>4. f \in Surjection(acc, T)
    <2> HIDE DEF f, T
    <2> QED BY <1>2, <1>3, FS_Injection DEF n
  <1>5. \A t \in T : \E k \in acc : f[k] = t
    <2> HIDE DEF f, T
    <2> QED BY <1>4 DEF Surjection
  <1>6. \A k \in acc : f[k] = SeqOf(last, acc, k)
    OBVIOUS
  <1> QED BY <1>1, <1>5, <1>6

NoLeftovers == ~HasSchema => latest = 0 /\ frozen = FALSE /\ rows = NoRows /\ alarm = 0

IInv ==
    /\ TypeOK
    /\ SeqDistinct
    /\ QuotaRespected
    /\ ActiveChainKept
    /\ NoLeftovers
    /\ now > 0

-----------------------------------------------------------------------------
(* The constants, one fact each. *)
LEMMA Limits ==
    /\ MaxBytes \in Nat /\ MaxRecords \in Nat /\ RateLimit \in Nat
    /\ RatePeriod \in Nat /\ IdleTtl \in Nat /\ MaxTime \in Nat /\ MaxSeq \in Nat
    /\ TouchInterval \in Nat /\ TouchInterval <= IdleTtl /\ RatePeriod < MaxTime
  BY StoreAssumption

(* What the router lets through to push(). *)
LEMMA ItemsFacts ==
    ASSUME NEW items \in Items
    PROVE  /\ DOMAIN items \subseteq Key
           /\ \A k \in DOMAIN items : items[k].base \in 0..MaxSeq /\ items[k].body \in Size
  BY DEF Items

(* An empty table is within any quota: usage() answers zero bytes and zero *)
(* rows.                                                                   *)
LEMMA NoRowsWithinQuota == ~OverQuota(NoRows)
  <1>1. StoredKeys(NoRows) = {}
    BY DEF StoredKeys, NoRows, Present
  <1>2. Count(NoRows) = 0
    BY <1>1, FS_EmptySet DEF Count
  <1>3. Bytes(NoRows) = 0
    <2> DEFINE Sum(iter) == [s \in SUBSET {} |->
                   IF s = {} THEN 0
                   ELSE LET x == CHOOSE x \in s : TRUE
                        IN  NoRows[x].body + iter[s \ {x}]]
               zero == [s \in SUBSET {} |-> 0]
    <2>1. zero = Sum(zero)
      OBVIOUS
    <2>2. \A iter : iter = Sum(iter) => iter[{}] = 0
      OBVIOUS
    <2>3. Bytes(NoRows) = (CHOOSE iter : iter = Sum(iter))[{}]
      BY <1>1 DEF Bytes, MapThenSumSet, MapThenFoldSet
    <2> HIDE DEF Sum, zero
    <2> QED BY <2>1, <2>2, <2>3
  <1> QED BY <1>2, <1>3, Limits DEF OverQuota

-----------------------------------------------------------------------------
(* rateLimited() keeps the counter within its type. *)
LEMMA CountedType ==
    ASSUME TypeOK
    PROVE  MinuteNow \in [start : 0..MaxTime, count : 0..(RateLimit + 1)]
  <1> DEFINE m == IF now - minute.start > RatePeriod
                  THEN [start |-> now, count |-> 0] ELSE minute
  <1>1. m \in [start : 0..MaxTime, count : 0..(RateLimit + 1)]
    BY Limits DEF TypeOK
  <1>2. MinuteNow = [m EXCEPT !.count = IF @ > RateLimit THEN @ ELSE @ + 1]
    BY DEF MinuteNow
  <1> HIDE DEF m
  <1> QED BY <1>1, <1>2, Limits

(* The table that push() writes: every row keeps its type, no row is newer *)
(* than the new latest_seq and no two share a number.                      *)
LEMMA RowsAfterFacts ==
    ASSUME TypeOK, SeqDistinct, NEW items \in Items,
           LatestAfter(rows, latest, items) <= MaxSeq
    PROVE  /\ LatestAfter(rows, latest, items) \in 0..MaxSeq
           /\ RowsAfter(rows, latest, items) \in [Key -> [seq : 0..MaxSeq, body : Size \cup {0}]]
           /\ \A k \in Key : Present(RowsAfter(rows, latest, items)[k]) =>
                 /\ RowsAfter(rows, latest, items)[k].seq <= LatestAfter(rows, latest, items)
                 /\ \A j \in Key \ {k} : RowsAfter(rows, latest, items)[j].seq
                                            # RowsAfter(rows, latest, items)[k].seq
  <1> DEFINE acc == Accepted(rows, items)
             L == LatestAfter(rows, latest, items)
             R == RowsAfter(rows, latest, items)
  <1>1. latest \in Nat /\ acc \in SUBSET Key
    BY ItemsFacts DEF TypeOK, Accepted
  <1>2. L = latest + Cardinality(acc)
    BY DEF LatestAfter
  <1>3. R = [k \in Key |-> IF k \in acc
                           THEN [seq |-> SeqOf(latest, acc, k), body |-> items[k].body]
                           ELSE rows[k]]
    BY DEF RowsAfter
  <1>4. \A k \in acc : items[k].body \in Size
    BY ItemsFacts DEF Accepted
  <1> HIDE DEF acc, R, L
  <1>5. /\ Cardinality(acc) \in Nat
        /\ \A k \in acc : /\ SeqOf(latest, acc, k) \in Nat
                          /\ SeqOf(latest, acc, k) > latest
                          /\ SeqOf(latest, acc, k) <= L
        /\ \A j, k \in acc : j # k => SeqOf(latest, acc, j) # SeqOf(latest, acc, k)
    BY <1>1, <1>2, SeqOfFacts
  <1>6. L \in 0..MaxSeq /\ latest <= L
    BY <1>1, <1>2, <1>5, Limits DEF L
  <1>7. \A k \in Key : /\ rows[k].seq \in 0..MaxSeq /\ rows[k].body \in Size \cup {0}
                       /\ rows[k] \in [seq : 0..MaxSeq, body : Size \cup {0}]
                       /\ rows[k].seq <= latest
    BY <1>1 DEF TypeOK, SeqDistinct, Present
  <1>8. ASSUME NEW k \in Key
        PROVE  /\ R[k] \in [seq : 0..MaxSeq, body : Size \cup {0}]
               /\ R[k].seq <= L
    BY <1>1, <1>3, <1>4, <1>5, <1>6, <1>7, Limits
  <1>9. ASSUME NEW k \in Key, Present(R[k]), NEW j \in Key \ {k}
        PROVE  R[j].seq # R[k].seq
    <2>1. R[k].seq = IF k \in acc THEN SeqOf(latest, acc, k) ELSE rows[k].seq
      BY <1>3
    <2>2. R[j].seq = IF j \in acc THEN SeqOf(latest, acc, j) ELSE rows[j].seq
      BY <1>3
    <2>3. k \notin acc => rows[j].seq # rows[k].seq
      BY <1>9, <2>1 DEF SeqDistinct, Present
    <2> QED BY <1>1, <1>5, <1>7, <2>1, <2>2, <2>3
  <1>10. R \in [Key -> [seq : 0..MaxSeq, body : Size \cup {0}]]
    <2>1. R = [k \in Key |-> R[k]]
      BY <1>3
    <2> QED BY <1>8, <2>1
  <1> QED BY <1>6, <1>8, <1>9, <1>10 DEF L, R

(* touch(): whether it renews the alarm or leaves the stored one, the      *)
(* alarm is set and late enough for the use it records.                    *)
LEMMA TouchFacts ==
    ASSUME TypeOK, now > 0, NEW force \in BOOLEAN, Touch(force)
    PROVE  /\ alarm' \in 0..(MaxTime + IdleTtl) /\ alarm' # 0
           /\ lastUse' = now
           /\ alarm' >= now + IdleTtl - TouchInterval
  BY Limits DEF TypeOK, Touch

(* deleteAll() and a chain that is not there. *)
LEMMA NoRowsFacts ==
    /\ NoRows \in [Key -> [seq : 0..MaxSeq, body : Size \cup {0}]]
    /\ \A k \in Key : NoRows[k] = [seq |-> 0, body |-> 0] /\ ~Present(NoRows[k])
  BY Limits DEF NoRows, Present

(* Every way of erasing a chain leaves a state that create() can start     *)
(* from.                                                                   *)
LEMMA DeleteAllKeeps ==
    ASSUME IInv, DeleteAll, UNCHANGED <<now, lastUse, cutOff>>,
           minute' \in [start : 0..MaxTime, count : 0..(RateLimit + 1)]
    PROVE  IInv'
  <1>1. TypeOK'
    <2>1. rows' \in [Key -> [seq : 0..MaxSeq, body : Size \cup {0}]]
      BY NoRowsFacts DEF DeleteAll
    <2>2. frozen' \in BOOLEAN /\ token' \in Token \cup {NoToken}
      BY DEF DeleteAll
    <2>3. latest' \in 0..MaxSeq /\ alarm' \in 0..(MaxTime + IdleTtl)
      BY Limits DEF DeleteAll
    <2> QED BY <2>1, <2>2, <2>3 DEF IInv, TypeOK
  <1>2. SeqDistinct'
    BY NoRowsFacts DEF DeleteAll, SeqDistinct
  <1>3. QuotaRespected'
    BY NoRowsWithinQuota DEF DeleteAll, QuotaRespected
  <1>4. ActiveChainKept' /\ NoLeftovers' /\ (now > 0)'
    BY DEF IInv, DeleteAll, ActiveChainKept, NoLeftovers, HasSchema
  <1> QED BY <1>1, <1>2, <1>3, <1>4 DEF IInv

(* A step that leaves storage, clock and last use alone. *)
LEMMA StorageSame ==
    ASSUME IInv, UNCHANGED <<storage, now, lastUse, cutOff>>,
           minute' \in [start : 0..MaxTime, count : 0..(RateLimit + 1)]
    PROVE  IInv'
  BY DEF IInv, TypeOK, SeqDistinct, QuotaRespected, ActiveChainKept, NoLeftovers,
         HasSchema, storage

(* A request that only touches an existing chain. *)
LEMMA TouchKeeps ==
    ASSUME IInv, NEW force \in BOOLEAN, Touch(force), Counted,
           UNCHANGED <<token, latest, frozen, rows, now, cutOff>>, HasSchema
    PROVE  IInv'
  <1>1. TypeOK'
    BY TouchFacts, CountedType, Limits DEF IInv, TypeOK, Counted
  <1>2. SeqDistinct' /\ QuotaRespected' /\ (now > 0)'
    BY DEF IInv, SeqDistinct, QuotaRespected
  <1>3. ActiveChainKept' /\ NoLeftovers'
    BY TouchFacts DEF IInv, ActiveChainKept, NoLeftovers, HasSchema
  <1> QED BY <1>1, <1>2, <1>3 DEF IInv

(* push() that writes. *)
LEMMA WriteKeeps ==
    ASSUME IInv, NEW items \in Items, HasSchema, Counted, Touch(TRUE),
           ~QuotaExceeded(items),
           LatestAfter(rows, latest, items) <= MaxSeq,
           rows' = RowsAfter(rows, latest, items),
           latest' = LatestAfter(rows, latest, items),
           UNCHANGED <<token, frozen, now, cutOff>>
    PROVE  IInv'
  <1>1. TypeOK'
    <2>1. /\ latest' \in 0..MaxSeq
          /\ rows' \in [Key -> [seq : 0..MaxSeq, body : Size \cup {0}]]
      BY RowsAfterFacts DEF IInv
    <2>2. alarm' \in 0..(MaxTime + IdleTtl) /\ lastUse' = now
      BY TouchFacts DEF IInv
    <2>3. minute' \in [start : 0..MaxTime, count : 0..(RateLimit + 1)]
      BY CountedType DEF IInv, Counted
    <2> QED BY <2>1, <2>2, <2>3 DEF IInv, TypeOK
  <1>2. SeqDistinct'
    BY RowsAfterFacts DEF IInv, SeqDistinct
  <1>3. QuotaRespected'
    BY DEF QuotaRespected, QuotaExceeded
  <1>4. ActiveChainKept' /\ NoLeftovers' /\ (now > 0)'
    BY TouchFacts DEF IInv, ActiveChainKept, NoLeftovers, HasSchema
  <1> QED BY <1>1, <1>2, <1>3, <1>4 DEF IInv

(* Every step keeps IInv. *)
LEMMA IInvStep ==
    ASSUME IInv, [Next]_vars
    PROVE  IInv'
  <1>1. MinuteNow \in [start : 0..MaxTime, count : 0..(RateLimit + 1)]
    BY CountedType DEF IInv
  <1>2. ASSUME Refuse429 PROVE IInv'
    BY <1>1, <1>2, StorageSame DEF Refuse429, Counted
  <1>3. ASSUME NEW t \in Token, CreateNew(t) PROVE IInv'
    <2>1. CASE ~RateLimited /\ Counted /\ token' = t /\ latest' = 0
               /\ Touch(TRUE) /\ UNCHANGED <<frozen, rows, now, cutOff>>
      <3>1. TypeOK'
        <4>1. alarm' \in 0..(MaxTime + IdleTtl) /\ lastUse' = now
          BY <2>1, TouchFacts DEF IInv
        <4>2. token' \in Token \cup {NoToken}
          BY <2>1
        <4>3. latest' \in 0..MaxSeq
          BY <2>1, Limits
        <4> QED BY <1>1, <2>1, <4>1, <4>2, <4>3 DEF IInv, TypeOK, Counted
      <3>2. latest' = latest
        BY <1>3, <2>1 DEF CreateNew, IInv, NoLeftovers
      <3>3. SeqDistinct' /\ QuotaRespected' /\ (now > 0)'
        BY <2>1, <3>2 DEF IInv, SeqDistinct, QuotaRespected
      <3>4. ActiveChainKept' /\ NoLeftovers'
        BY <2>1, TouchFacts, StoreAssumption
           DEF IInv, ActiveChainKept, NoLeftovers, HasSchema
      <3> QED BY <3>1, <3>3, <3>4 DEF IInv
    <2> QED BY <1>2, <1>3, <2>1 DEF CreateNew
  <1>4. ASSUME NEW t \in Token, CreateAgain(t) PROVE IInv'
    BY <1>2, <1>4, TouchKeeps DEF CreateAgain, Authorized
  <1>5. ASSUME NEW t \in Token, Pull(t) PROVE IInv'
    BY <1>2, <1>5, TouchKeeps DEF Pull, Authorized
  <1>6. ASSUME NEW t \in Token, Freeze(t) PROVE IInv'
    <2>1. CASE ~RateLimited /\ Counted /\ frozen' = TRUE /\ cutOff' = cutOff \cup {t}
               /\ UNCHANGED <<token, latest, rows, alarm, now, lastUse>>
      <3>1. TypeOK'
        BY <1>1, <2>1 DEF IInv, TypeOK, Counted
      <3>2. SeqDistinct' /\ QuotaRespected' /\ (now > 0)'
        BY <2>1 DEF IInv, SeqDistinct, QuotaRespected
      <3>3. ActiveChainKept' /\ NoLeftovers'
        BY <1>6, <2>1 DEF IInv, ActiveChainKept, NoLeftovers, HasSchema, Freeze, Authorized
      <3> QED BY <3>1, <3>2, <3>3 DEF IInv
    <2> QED BY <1>2, <1>6, <2>1 DEF Freeze
  <1>7. ASSUME NEW t \in Token, Destroy(t) PROVE IInv'
    <2>1. CASE Counted /\ DeleteAll /\ UNCHANGED <<now, lastUse, cutOff>>
      BY <1>1, <2>1, DeleteAllKeeps DEF Counted
    <2>2. CASE Counted /\ rows' = NoRows /\ UNCHANGED <<token, latest, frozen, alarm>>
               /\ UNCHANGED <<now, lastUse, cutOff>>
      <3>1. TypeOK'
        BY <1>1, <2>2, NoRowsFacts DEF IInv, TypeOK, Counted
      <3>2. SeqDistinct'
        BY <2>2, NoRowsFacts DEF SeqDistinct
      <3>3. QuotaRespected' /\ (now > 0)'
        BY <2>2, NoRowsWithinQuota DEF IInv, QuotaRespected
      <3>4. ActiveChainKept' /\ NoLeftovers'
        BY <2>2 DEF IInv, ActiveChainKept, NoLeftovers, HasSchema
      <3> QED BY <3>1, <3>2, <3>3, <3>4 DEF IInv
    <2> QED BY <1>2, <1>7, <2>1, <2>2 DEF Destroy
  <1>8. ASSUME NEW t \in Token, NEW items \in Items, Push(t, items) PROVE IInv'
    <2>1. CASE Counted /\ UNCHANGED <<storage, now, lastUse, cutOff>>
      BY <1>1, <2>1, StorageSame DEF Counted
    <2> QED BY <1>2, <1>8, <2>1, WriteKeeps DEF Push, Authorized
  <1>9. ASSUME Alarm PROVE IInv'
    BY <1>9, DeleteAllKeeps DEF Alarm, IInv, TypeOK
  <1>10. ASSUME Evict PROVE IInv'
    BY <1>10, StorageSame, Limits DEF Evict
  <1>11. ASSUME Tick PROVE IInv'
    BY <1>11, Limits DEF Tick, IInv, TypeOK, SeqDistinct, QuotaRespected,
       ActiveChainKept, NoLeftovers, HasSchema, storage
  <1>12. CASE UNCHANGED vars
    BY <1>12, StorageSame DEF vars, storage, IInv, TypeOK
  <1> QED BY <1>3, <1>4, <1>5, <1>6, <1>7, <1>8, <1>9, <1>10, <1>11, <1>12 DEF Next

(* The first request finds nothing stored. *)
LEMMA IInvInit == Init => IInv
  <1> SUFFICES ASSUME Init PROVE IInv
    OBVIOUS
  <1>1. TypeOK
    <2>1. rows \in [Key -> [seq : 0..MaxSeq, body : Size \cup {0}]]
      BY NoRowsFacts DEF Init
    <2>2. frozen \in BOOLEAN /\ token \in Token \cup {NoToken} /\ cutOff \subseteq Token
      BY DEF Init
    <2>3. /\ latest \in 0..MaxSeq /\ alarm \in 0..(MaxTime + IdleTtl)
          /\ now \in 0..MaxTime /\ lastUse \in 0..now
      BY Limits DEF Init
    <2>4. minute \in [start : 0..MaxTime, count : 0..(RateLimit + 1)]
      BY Limits DEF Init
    <2> QED BY <2>1, <2>2, <2>3, <2>4 DEF TypeOK
  <1>2. SeqDistinct
    BY NoRowsFacts DEF Init, SeqDistinct
  <1>3. QuotaRespected
    BY NoRowsWithinQuota DEF Init, QuotaRespected
  <1>4. ActiveChainKept /\ NoLeftovers /\ now > 0
    BY Limits DEF Init, ActiveChainKept, NoLeftovers, HasSchema
  <1> QED BY <1>1, <1>2, <1>3, <1>4 DEF IInv

(* IInv describes the storage of a chain after any sequence of requests,   *)
(* alarms and evictions of ChainStore in relay/src/index.ts.               *)
THEOREM Invariance == Spec => []IInv
  BY IInvInit, IInvStep, PTL DEF Spec

(* Everything stored by ChainStore's handlers has its type: in particular  *)
(* the numbers of latest_seq, the alarm and the request counter stay in    *)
(* their ranges.                                                           *)
THEOREM TypeCorrect == Spec => []TypeOK
  BY Invariance, PTL DEF IInv

(* The numbering of push(): no stored row is newer than latest_seq and no  *)
(* two share a number, whatever is accepted, refused, deleted and created  *)
(* again.                                                                  *)
THEOREM NumberingKept == Spec => []SeqDistinct
  BY Invariance, PTL DEF IInv

(* push() refuses with 413 what would exceed MAX_CHAIN_BYTES or            *)
(* MAX_CHAIN_RECORDS: the table never does.                                *)
THEOREM QuotaKept == Spec => []QuotaRespected
  BY Invariance, PTL DEF IInv

(* touch() throttles renewals but never lets the alarm of a used chain     *)
(* fall below IDLE_TTL - TOUCH_INTERVAL after the last use.                *)
THEOREM ActiveKept == Spec => []ActiveChainKept
  BY Invariance, PTL DEF IInv

-----------------------------------------------------------------------------
(* freeze() cuts writing off until the idle alarm: no request of any       *)
(* caller, destroy() and create() included, lifts it, renumbers the chain  *)
(* or writes a row.                                                        *)
THEOREM FreezeHolds == Spec => FrozenUntilIdle
  <1> DEFINE Kept == /\ frozen' /\ token' = token /\ latest' = latest
                     /\ \A k \in Key : rows'[k] \in {rows[k], NoRows[k]}
  <1>1. ASSUME IInv, [Next]_vars, frozen, ~(alarm # 0 /\ now >= alarm)
        PROVE  Kept \/ UNCHANGED vars
    <2>1. HasSchema
      BY <1>1 DEF IInv, NoLeftovers
    <2>2. ASSUME UNCHANGED <<token, latest, frozen, rows>> PROVE Kept
      BY <1>1, <2>2
    <2>3. ASSUME Refuse429 PROVE Kept
      BY <2>2, <2>3 DEF Refuse429, storage
    <2>4. ASSUME NEW t \in Token, CreateAgain(t) \/ Pull(t) PROVE Kept
      BY <2>2, <2>3, <2>4 DEF CreateAgain, Pull
    <2>5. ASSUME NEW t \in Token, Freeze(t) PROVE Kept
      BY <2>3, <2>5 DEF Freeze
    <2>6. ASSUME NEW t \in Token, Destroy(t) PROVE Kept
      BY <1>1, <2>3, <2>6 DEF Destroy
    <2>7. ASSUME NEW t \in Token, NEW items \in Items, Push(t, items) PROVE Kept
      BY <1>1, <2>2, <2>3, <2>7 DEF Push, storage
    <2>8. ASSUME Evict \/ Tick PROVE Kept
      BY <2>2, <2>8 DEF Evict, Tick, storage
    <2>9. ~Alarm /\ \A t \in Token : ~CreateNew(t)
      BY <1>1, <2>1 DEF Alarm, CreateNew
    <2> HIDE DEF Kept
    <2> QED BY <1>1, <2>4, <2>5, <2>6, <2>7, <2>8, <2>9 DEF Next
  <1>2. IInv /\ [Next]_vars =>
            [frozen /\ ~(alarm # 0 /\ now >= alarm) => Kept]_vars
    BY <1>1
  <1> QED BY <1>2, Invariance, PTL DEF Spec, FrozenUntilIdle

-----------------------------------------------------------------------------
(* push() that writes is a Write of the service: the accepted identities   *)
(* get exactly the next numbers.                                           *)
LEMMA PushWrites ==
    ASSUME IInv, NEW items \in Items, HasSchema, ~frozen,
           rows' = RowsAfter(rows, latest, items),
           latest' = LatestAfter(rows, latest, items),
           UNCHANGED <<token, frozen>>
    PROVE  Service!Write
  <1> DEFINE acc == Accepted(rows, items)
  <1>1. latest \in Nat /\ acc \in SUBSET Key
    BY ItemsFacts DEF IInv, TypeOK, Accepted
  <1>2. latest' = latest + Cardinality(acc)
    BY DEF LatestAfter
  <1>3. rows' = [k \in Key |-> IF k \in acc
                      THEN [seq |-> SeqOf(latest, acc, k), body |-> items[k].body]
                      ELSE rows[k]]
    BY DEF RowsAfter
  <1> HIDE DEF acc
  <1>4. \A k \in acc : rows'[k].seq = SeqOf(latest, acc, k)
    BY <1>1, <1>3
  <1>5. {rows'[k].seq : k \in acc} = (latest + 1)..latest'
    <2>1. {rows'[k].seq : k \in acc} = {SeqOf(latest, acc, k) : k \in acc}
      BY <1>4
    <2> QED BY <1>1, <1>2, <2>1, NumbersConsecutive
  <1>6. \A k \in Key \ acc : rows'[k] = rows[k]
    BY <1>1, <1>3
  <1>7. HasSchema' = HasSchema
    BY DEF HasSchema
  <1>8. \E written \in SUBSET Key :
           /\ latest' = latest + Cardinality(written)
           /\ {rows'[k].seq : k \in written} = (latest + 1)..latest'
           /\ \A k \in Key \ written : rows'[k] = rows[k]
    BY <1>1, <1>2, <1>5, <1>6
  <1>9. \A S : Service!Cardinality(S) = Cardinality(S)
    BY DEF Service!Cardinality, Cardinality, Service!IsFiniteSet, IsFiniteSet
  <1> QED BY <1>7, <1>8, <1>9 DEF Service!Write

(* Erasing is an Erase of the service. *)
LEMMA DeleteErases ==
    ASSUME HasSchema, DeleteAll
    PROVE  Service!Erase
  BY DEF HasSchema, DeleteAll, Service!Erase, Service!Nothing, NoRows

(* ChainStore implements ChainService: whatever the callers, limits,       *)
(* quotas, conflicts, deletions, re-creations and alarms, the devices see  *)
(* a chain that opens, takes consecutively numbered writes until it is     *)
(* frozen, and ends as a whole.                                            *)
THEOREM Implements == Spec => ServiceImplemented
  <1> DEFINE Same == UNCHANGED <<token, latest, frozen, rows>>
  <1>1. Init => Service!Init
    BY DEF Init, Service!Init, Service!Nothing, NoRows, HasSchema
  <1>2. ASSUME IInv, [Next]_vars PROVE [Service!Next]_Service!vars
    <2>1. ASSUME Same PROVE UNCHANGED Service!vars
      BY <2>1 DEF Service!vars, HasSchema
    <2>2. ASSUME Refuse429 PROVE Same
      BY <2>2 DEF Refuse429, storage
    <2>3. ASSUME NEW t \in Token, CreateNew(t) PROVE Same \/ Service!Open
      <3>1. ASSUME token' = t /\ latest' = 0 /\ UNCHANGED <<frozen, rows>>
            PROVE  Service!Open
        BY <1>2, <2>3, <3>1, StoreAssumption
           DEF Service!Open, CreateNew, HasSchema, IInv, NoLeftovers
      <3> QED BY <2>2, <2>3, <3>1 DEF CreateNew
    <2>4. ASSUME NEW t \in Token, CreateAgain(t) \/ Pull(t) PROVE Same
      BY <2>2, <2>4 DEF CreateAgain, Pull
    <2>5. ASSUME NEW t \in Token, Freeze(t) PROVE Same \/ Service!Freeze
      BY <2>2, <2>5 DEF Freeze, Service!Freeze, Authorized, HasSchema
    <2>6. ASSUME NEW t \in Token, Destroy(t)
          PROVE  Same \/ Service!Clear \/ Service!Erase
      <3>1. HasSchema
        BY <2>6 DEF Destroy, Authorized
      <3>2. ASSUME frozen, rows' = NoRows, UNCHANGED <<token, latest, frozen>>
            PROVE  Service!Clear
        BY <3>1, <3>2 DEF Service!Clear, Service!Nothing, NoRows, HasSchema
      <3> QED BY <2>2, <2>6, <3>1, <3>2, DeleteErases DEF Destroy
    <2>7. ASSUME NEW t \in Token, NEW items \in Items, Push(t, items)
          PROVE  Same \/ Service!Write
      BY <1>2, <2>2, <2>7, PushWrites DEF Push, Authorized, storage
    <2>8. ASSUME Alarm PROVE Service!Erase
      <3>1. HasSchema
        BY <1>2, <2>8 DEF Alarm, IInv, NoLeftovers
      <3> QED BY <2>8, <3>1, DeleteErases DEF Alarm
    <2>9. ASSUME Evict \/ Tick \/ UNCHANGED vars PROVE Same
      BY <2>9 DEF Evict, Tick, storage, vars
    <2> HIDE DEF Same
    <2> QED BY <1>2, <2>1, <2>3, <2>4, <2>5, <2>6, <2>7, <2>8, <2>9
            DEF Next, Service!Next
  <1> QED BY <1>1, <1>2, Invariance, PTL DEF Spec, ServiceImplemented, Service!Spec
=============================================================================
