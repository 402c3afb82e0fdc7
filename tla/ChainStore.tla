----------------------------- MODULE ChainStore ------------------------------
(***************************************************************************)
(* The relay's durable object for one chain: class ChainStore of           *)
(* relay/src/index.ts.  One chain of ciphertext rows, owned by whoever     *)
(* created it (token hash), with a per-minute request limit kept in        *)
(* memory, storage quotas, the write cut-off "frozen" and an idle alarm    *)
(* that erases everything.                                                 *)
(*                                                                         *)
(* Handlers are atomic: the object is single threaded and every await in   *)
(* them is a storage operation, during which the platform's input gate     *)
(* delivers no other request (external assumption, see the README).        *)
(* Time is counted in ticks.                                               *)
(***************************************************************************)
EXTENDS ChainRows, FiniteSetsExt

CONSTANTS
    Token,          \* token hashes of the callers
    Size,           \* ciphertext + nonce lengths a valid item can have
    MaxBytes,       \* MAX_CHAIN_BYTES
    MaxRecords,     \* MAX_CHAIN_RECORDS
    MaxItems,       \* MAX_ITEMS_PER_PUSH
    RateLimit,      \* RATE_LIMIT_PER_MINUTE
    RatePeriod,     \* the 60_000 ms of rateLimited()
    IdleTtl,        \* IDLE_TTL_MS
    TouchInterval,  \* TOUCH_INTERVAL_MS
    MaxTime,        \* bound on the clock
    MaxSeq,         \* bound on latest_seq
    NoToken         \* the meta row token_hash is absent

ASSUME StoreAssumption ==
    /\ Size \subseteq Nat \ {0}
    /\ {MaxBytes, MaxRecords, MaxItems, RateLimit, RatePeriod, IdleTtl,
            MaxTime, MaxSeq} \subseteq Nat
    /\ TouchInterval \in 0..IdleTtl
    /\ RatePeriod < MaxTime
    /\ NoToken \notin Token

VARIABLES
    token,      \* meta.token_hash, NoToken while the schema does not exist
    latest,     \* meta.latest_seq
    frozen,     \* meta.frozen
    rows,       \* table records: [Key -> [seq, body]], body = stored length
    alarm,      \* the storage alarm, 0 when none is set
    minute,     \* [start, count], the in-memory request counter
    now,        \* Date.now()
    \* History, read by no action of the chain:
    lastUse,    \* when a request last created, read or wrote the chain
    cutOff      \* the tokens whose freeze was answered 204 for good

storage == <<token, latest, frozen, rows, alarm>>
vars == <<token, latest, frozen, rows, alarm, minute, now, lastUse, cutOff>>

NoRows == [k \in Key |-> [seq |-> 0, body |-> 0]]

HasSchema == token # NoToken

(* Created, and the caller's token is the creator's. *)
Authorized(t) == HasSchema /\ token = t

(***************************************************************************)
(* rateLimited(): starts a new minute when the old one is over, counts the *)
(* request, refuses it above the limit.  The count saturates at one above  *)
(* the limit: no larger value is told apart.                               *)
(***************************************************************************)
MinuteNow ==
    LET m == IF now - minute.start > RatePeriod
             THEN [start |-> now, count |-> 0] ELSE minute
    IN  [m EXCEPT !.count = IF @ > RateLimit THEN @ ELSE @ + 1]

RateLimited == MinuteNow.count > RateLimit

Counted == minute' = MinuteNow

(* A request answered 429: counted, and nothing else changes. *)
Refuse429 == RateLimited /\ Counted /\ UNCHANGED <<storage, now, lastUse, cutOff>>

(* Mutant of Touch: reads do not renew the alarm. *)
TouchWritesOnly(force) ==
    /\ alarm' = IF force THEN now + IdleTtl ELSE alarm
    /\ lastUse' = now

(* touch(force): writes always renew the idle alarm, reads only when the   *)
(* stored one is older than the touch interval.                            *)
Touch(force) ==
    /\ alarm' = IF ~force /\ alarm # 0 /\ alarm - now >= IdleTtl - TouchInterval
                THEN alarm ELSE now + IdleTtl
    /\ lastUse' = now

Init ==
    /\ token = NoToken
    /\ latest = 0
    /\ frozen = FALSE
    /\ rows = NoRows
    /\ alarm = 0
    /\ minute = [start |-> 0, count |-> 0]
    /\ now = RatePeriod + 1     \* the clock is far past minuteStart = 0
    /\ lastUse = 0
    /\ cutOff = {}

(* deleteAll(): schema, rows, meta and alarm are gone. *)
DeleteAll ==
    /\ token' = NoToken /\ latest' = 0 /\ frozen' = FALSE
    /\ rows' = NoRows /\ alarm' = 0

-----------------------------------------------------------------------------
(* create() on a chain that does not exist: 201, or 429. *)
CreateNew(t) ==
    /\ ~HasSchema
    /\ \/ Refuse429
       \/ /\ ~RateLimited /\ Counted
          /\ token' = t /\ latest' = 0
          /\ Touch(TRUE)
          /\ UNCHANGED <<frozen, rows, now, cutOff>>

(* create() on a chain that exists: 404 for another token (not counted),   *)
(* 429, or 200 which renews the alarm.                                     *)
CreateAgain(t) ==
    /\ Authorized(t)
    /\ \/ Refuse429
       \/ /\ ~RateLimited /\ Counted
          /\ Touch(TRUE)
          /\ UNCHANGED <<token, latest, frozen, rows, now, cutOff>>

(* pull(): the rows newer than since and latest_seq; renews the alarm. *)
Pull(t) ==
    /\ Authorized(t)
    /\ \/ Refuse429
       \/ /\ ~RateLimited /\ Counted
          /\ Touch(FALSE)
          /\ UNCHANGED <<token, latest, frozen, rows, now, cutOff>>

(* usage(): stored bytes and rows. *)
StoredKeys(table) == {k \in Key : Present(table[k])}

Bytes(table) == MapThenSumSet(LAMBDA k : table[k].body, StoredKeys(table))

Count(table) == Cardinality(StoredKeys(table))

(* The limits of one chain. *)
OverQuota(table) == Bytes(table) > MaxBytes \/ Count(table) > MaxRecords

(* Mutant of QuotaExceeded: the usage before the push is checked. *)
QuotaOfOldTable(items) == OverQuota(rows)

(* push(), step 2: the quota is checked on the table after acceptance. *)
QuotaExceeded(items) == OverQuota(RowsAfter(rows, latest, items))

(* push(): 429, 409 on a frozen chain, 413 over quota (neither writes or   *)
(* renews the alarm), or 200 with the accepted items written as one batch. *)
Push(t, items) ==
    /\ Authorized(t)
    /\ \/ Refuse429
       \/ /\ ~RateLimited /\ Counted
          /\ frozen \/ QuotaExceeded(items)
          /\ UNCHANGED <<storage, now, lastUse, cutOff>>
       \/ /\ ~RateLimited /\ Counted
          /\ ~frozen /\ ~QuotaExceeded(items)
          /\ LatestAfter(rows, latest, items) <= MaxSeq
          /\ rows' = RowsAfter(rows, latest, items)
          /\ latest' = LatestAfter(rows, latest, items)
          /\ Touch(TRUE)
          /\ UNCHANGED <<token, frozen, now, cutOff>>

(* freeze(): 204 (idempotent) or 429; the alarm is not renewed. *)
Freeze(t) ==
    /\ Authorized(t)
    /\ \/ Refuse429
       \/ /\ ~RateLimited /\ Counted
          /\ frozen' = TRUE
          /\ cutOff' = cutOff \cup {t}
          /\ UNCHANGED <<token, latest, rows, alarm, now, lastUse>>

(* Mutant of Destroy: a frozen chain is deleted like any other. *)
DestroyIgnoresFreeze(t) ==
    /\ Authorized(t)
    /\ \/ Refuse429
       \/ /\ ~RateLimited /\ Counted
          /\ DeleteAll
          /\ UNCHANGED <<now, lastUse, cutOff>>

(* destroy(): 429; a frozen chain loses its rows only, any other chain     *)
(* everything.                                                             *)
Destroy(t) ==
    /\ Authorized(t)
    /\ \/ Refuse429
       \/ /\ ~RateLimited /\ Counted
          /\ \/ /\ frozen /\ rows' = NoRows
                /\ UNCHANGED <<token, latest, frozen, alarm>>
             \/ ~frozen /\ DeleteAll
          /\ UNCHANGED <<now, lastUse, cutOff>>

(* alarm(): the platform runs it once the alarm time has come, or later. *)
Alarm ==
    /\ alarm # 0 /\ now >= alarm
    /\ DeleteAll
    /\ UNCHANGED <<minute, now, lastUse, cutOff>>

(* The instance is evicted from memory: only the request counter is lost. *)
Evict ==
    /\ minute' = [start |-> 0, count |-> 0]
    /\ minute' # minute
    /\ UNCHANGED <<storage, now, lastUse, cutOff>>

Tick ==
    /\ now < MaxTime
    /\ now' = now + 1
    /\ UNCHANGED <<storage, minute, lastUse, cutOff>>

(* The bodies the router lets through: one to MAX_ITEMS_PER_PUSH items,    *)
(* distinct identities, valid lengths, any base sequence number.           *)
Items ==
    UNION {[ks -> [base : 0..MaxSeq, body : Size]] :
              ks \in {s \in SUBSET Key : Cardinality(s) \in 1..MaxItems}}

Next ==
    \/ \E t \in Token :
          \/ CreateNew(t) \/ CreateAgain(t) \/ Pull(t)
          \/ Freeze(t) \/ Destroy(t)
          \/ \E items \in Items : Push(t, items)
    \/ Alarm \/ Evict \/ Tick

Spec == Init /\ [][Next]_vars

-----------------------------------------------------------------------------
TypeOK ==
    /\ token \in Token \cup {NoToken}
    /\ latest \in 0..MaxSeq
    /\ frozen \in BOOLEAN
    /\ rows \in [Key -> [seq : 0..MaxSeq, body : Size \cup {0}]]
    /\ alarm \in 0..(MaxTime + IdleTtl)
    /\ minute \in [start : 0..MaxTime, count : 0..(RateLimit + 1)]
    /\ now \in 0..MaxTime
    /\ lastUse \in 0..now
    /\ cutOff \subseteq Token

(* push() numbers rows so that a device which asks for "everything after   *)
(* the last sequence number I saw" misses nothing: no stored row is newer  *)
(* than latest_seq and no two rows share a number, through any mix of      *)
(* accepted items, conflicts, deletions and re-creations of the chain.     *)
SeqDistinct ==
    \A k \in Key : Present(rows[k]) =>
        /\ rows[k].seq <= latest
        /\ \A j \in Key \ {k} : rows[j].seq # rows[k].seq

(* push() checks the quota on the table as it would be after the accepted  *)
(* items (a replaced row subtracted, a conflict not counted): the stored   *)
(* table itself never exceeds MAX_CHAIN_BYTES or MAX_CHAIN_RECORDS.        *)
QuotaRespected == ~OverQuota(rows)

(* freeze() is the write cut-off of a sync code change: whatever requests  *)
(* follow, deletion and creation by the same token included, a frozen      *)
(* chain stays frozen, keeps its owner and its numbering, and no row of it *)
(* is written again.  Only the idle alarm ends it.                         *)
FrozenUntilIdle ==
    [][frozen /\ ~(alarm # 0 /\ now >= alarm) =>
          /\ frozen' /\ token' = token /\ latest' = latest
          /\ \A k \in Key : rows'[k] \in {rows[k], NoRows[k]}]_vars

(* touch() throttles the renewals that reads make; a chain that was        *)
(* created, read or written less than IDLE_TTL - TOUCH_INTERVAL ago is not *)
(* erased by alarm(), however the reads and writes fell.                   *)
ActiveChainKept ==
    HasSchema => alarm # 0 /\ alarm >= lastUse + IdleTtl - TouchInterval

(* The comment on frozen() says a freeze cannot be undone: a chain on      *)
(* which a token's freeze was acknowledged is never open to it again.      *)
FreezePermanent == token \in cutOff => frozen

(* The relay's chain is the service that devices rely on: whatever the     *)
(* mix of callers, limits, quotas, conflicts, deletions, re-creations and  *)
(* alarms, every step is one of the service's, or changes nothing of it.   *)
Service == INSTANCE ChainService WITH
               open <- HasSchema, NoRow <- [seq |-> 0, body |-> 0]

ServiceImplemented == Service!Spec
=============================================================================
