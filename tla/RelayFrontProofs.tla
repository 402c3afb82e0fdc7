-------------------------- MODULE RelayFrontProofs --------------------------
(***************************************************************************)
(* Proofs about what stands in front of the relay's chains.                *)
(*                                                                         *)
(* BatchPull, for any set of chains in any order, any of them failing or   *)
(* gone, and all limits.  FetchedOK says that a round keeps every chain    *)
(* either fetched or in the queue, once; RequestOK that the request at the *)
(* relay works through the head of that queue.  NoRowSkipped rests on what *)
(* an entry says of its chain (AnswerOK), and that on ReadingOK: no row is *)
(* added while pull() is at its await.  What Keep computes is shown by     *)
(* induction over the sequence, as an argument about the shortest prefix   *)
(* for which it would fail (LeastNumber).                                  *)
(*                                                                         *)
(* IpLimiter, for every limit, window and batch size.  LimitHolds is not   *)
(* inductive: that granted is within the limit says nothing of what the    *)
(* stored record will allow next.  HourRecorded links the two: while an    *)
(* hour is running, the stored window is that hour's and has counted at    *)
(* least what was granted.  It survives the alarm only because of          *)
(* AlarmAtLastWindow.                                                      *)
(***************************************************************************)
EXTENDS RelayFront, FiniteSetTheorems, FunctionTheorems, WellFoundedInduction, TLAPS

-----------------------------------------------------------------------------
(* Keep.                                                                   *)

(* The induction the facts about Keep rest on: a set of natural numbers    *)
(* has a least one.                                                        *)
LEMMA LeastNumber ==
    ASSUME NEW S, S \subseteq Nat, S # {} PROVE \E n \in S : \A m \in S : n <= m
<1>1. PICK R : R = {p \in Nat \X Nat : p[1] < p[2]}  OBVIOUS
<1>2. IsWellFoundedOn(R, Nat)  BY <1>1, NatLessThanWellFounded DEF OpToRel
<1>3. PICK n \in S : \A m \in S : <<m, n>> \notin R  BY <1>2, WFMin
<1>4. ASSUME NEW m \in S PROVE n <= m
  <2>1. <<m, n>> \in Nat \X Nat /\ <<m, n>> \notin R  BY <1>3
  <2>2. ~(m < n)  BY <1>1, <2>1
  <2> QED  BY <2>2
<1> QED  BY <1>4

(* What Keep computes, prefix by prefix.                                   *)
Kept(f, s, S, n) ==
    f = [i \in 0..n |-> IF i = 0 THEN <<>>
                        ELSE IF s[i] \in S THEN Append(f[i - 1], s[i]) ELSE f[i - 1]]

(* The recursion has a solution on every prefix.                           *)
LEMMA KeptExists ==
    ASSUME NEW s, NEW S, NEW n \in Nat PROVE \E f : Kept(f, s, S, n)
<1> DEFINE Bad == {k \in 0..n : ~\E f : Kept(f, s, S, k)}
<1> SUFFICES ASSUME Bad # {} PROVE FALSE
  <2>1. n \in 0..n  OBVIOUS
  <2> QED  BY <2>1
<1>1. PICK k \in Bad : \A m \in Bad : k <= m
  <2>1. Bad \subseteq Nat  OBVIOUS
  <2> HIDE DEF Bad
  <2> QED  BY <2>1, LeastNumber
<1>2. k \in 0..n /\ ~\E f : Kept(f, s, S, k)  BY <1>1
<1>3. CASE k = 0
  <2>1. Kept([i \in 0..0 |-> <<>>], s, S, 0)  BY DEF Kept
  <2> QED  BY <1>2, <1>3, <2>1
<1>4. CASE k # 0
  <2>1. k - 1 \in 0..n /\ k - 1 \notin Bad  BY <1>1, <1>2, <1>4
  <2>2. PICK f : Kept(f, s, S, k - 1)  BY <2>1
  <2>3. PICK v : v = IF s[k] \in S THEN Append(f[k - 1], s[k]) ELSE f[k - 1]  OBVIOUS
  <2>4. PICK g : g = [i \in 0..k |-> IF i = k THEN v ELSE f[i]]  OBVIOUS
  <2>5. \A i \in 0..(k - 1) : g[i] = f[i]  BY <2>4, <1>2, <1>4
  <2>6. \A i \in 0..k : g[i] = IF i = 0 THEN <<>>
                               ELSE IF s[i] \in S THEN Append(g[i - 1], s[i]) ELSE g[i - 1]
    <3> SUFFICES ASSUME NEW i \in 0..k
                 PROVE  g[i] = IF i = 0 THEN <<>>
                               ELSE IF s[i] \in S THEN Append(g[i - 1], s[i]) ELSE g[i - 1]
      OBVIOUS
    <3>1. CASE i = k
      <4>1. g[k] = v /\ g[k - 1] = f[k - 1]  BY <2>4, <2>5, <1>2, <1>4
      <4> QED  BY <3>1, <4>1, <2>3, <1>4
    <3>2. CASE i # k
      <4>1. i \in 0..(k - 1) /\ (i # 0 => i - 1 \in 0..(k - 1))  BY <3>2, <1>2
      <4>2. f[i] = IF i = 0 THEN <<>>
                   ELSE IF s[i] \in S THEN Append(f[i - 1], s[i]) ELSE f[i - 1]
        BY <2>2, <4>1 DEF Kept
      <4> QED  BY <4>1, <4>2, <2>5
    <3> QED  BY <3>1, <3>2
  <2>7. Kept(g, s, S, k)  BY <2>4, <2>6 DEF Kept
  <2> QED  BY <1>2, <2>7
<1> QED  BY <1>3, <1>4

(* What a prefix has kept: sequences of its elements in S, all of them,    *)
(* and none twice if the sequence has none twice.                          *)
KeptOf(q, s, S, n) ==
    /\ q \in Seq(S)
    /\ \A j \in 1..Len(q) : \E i \in 1..n : q[j] = s[i]
    /\ \A i \in 1..n : s[i] \in S => \E j \in 1..Len(q) : q[j] = s[i]

Distinct(q) == \A i, j \in 1..Len(q) : q[i] = q[j] => i = j

(* One more element of the sequence.                                       *)
LEMMA KeptStep ==
    ASSUME NEW X, NEW s \in Seq(X), NEW S, NEW n \in 1..Len(s), NEW q, KeptOf(q, s, S, n - 1),
           Distinct(s), Distinct(q), NEW r, r = IF s[n] \in S THEN Append(q, s[n]) ELSE q
    PROVE  KeptOf(r, s, S, n) /\ Distinct(r)
<1>1. n \in Nat \ {0} /\ q \in Seq(S)  BY DEF KeptOf
<1>2. CASE s[n] \notin S
  <2>1. r = q  BY <1>2
  <2>2. \A i \in 1..n : s[i] \in S => i \in 1..(n - 1)  BY <1>1, <1>2
  <2>3. \A i \in 1..(n - 1) : i \in 1..n  BY <1>1
  <2> QED  BY <2>1, <2>2, <2>3 DEF KeptOf
<1>3. CASE s[n] \in S
  <2>1. r = Append(q, s[n])  BY <1>3
  <2>2. r \in Seq(S) /\ Len(r) = Len(q) + 1 /\ r[Len(q) + 1] = s[n]  BY <1>1, <1>3, <2>1
  <2>3. \A j \in 1..Len(q) : r[j] = q[j]  BY <1>1, <2>1
  <2>4. Len(q) \in Nat  BY <1>1
  <2>5. ASSUME NEW j \in 1..Len(r) PROVE \E i \in 1..n : r[j] = s[i]
    <3>1. CASE j = Len(q) + 1
      <4>1. n \in 1..n  BY <1>1
      <4> QED  BY <3>1, <2>2, <4>1
    <3>2. CASE j # Len(q) + 1
      <4>1. j \in 1..Len(q)  BY <3>2, <2>2, <2>4
      <4>2. PICK i \in 1..(n - 1) : q[j] = s[i]  BY <4>1 DEF KeptOf
      <4>3. i \in 1..n  BY <1>1
      <4> QED  BY <4>1, <4>2, <4>3, <2>3
    <3> QED  BY <3>1, <3>2
  <2>6. ASSUME NEW i \in 1..n, s[i] \in S PROVE \E j \in 1..Len(r) : r[j] = s[i]
    <3>1. CASE i = n
      <4>1. Len(q) + 1 \in 1..Len(r)  BY <2>2, <2>4
      <4> QED  BY <3>1, <4>1, <2>2
    <3>2. CASE i # n
      <4>1. i \in 1..(n - 1)  BY <3>2, <1>1
      <4>2. PICK j \in 1..Len(q) : q[j] = s[i]  BY <4>1, <2>6 DEF KeptOf
      <4>3. j \in 1..Len(r)  BY <2>2, <2>4
      <4> QED  BY <4>2, <4>3, <2>3
    <3> QED  BY <3>1, <3>2
  <2>7. ASSUME NEW j \in 1..Len(q), q[j] = s[n] PROVE FALSE
    <3>1. PICK i \in 1..(n - 1) : q[j] = s[i]  BY DEF KeptOf
    <3>2. i \in 1..Len(s) /\ i # n  BY <1>1
    <3> QED  BY <3>1, <3>2, <2>7 DEF Distinct
  <2>8. Distinct(r)
    <3> SUFFICES ASSUME NEW i \in 1..Len(r), NEW j \in 1..Len(r), r[i] = r[j] PROVE i = j
      BY DEF Distinct
    <3>1. CASE i \in 1..Len(q) /\ j \in 1..Len(q)
      BY <3>1, <2>3 DEF Distinct
    <3>2. CASE i = Len(q) + 1 /\ j = Len(q) + 1
      BY <3>2
    <3>3. CASE i \in 1..Len(q) /\ j = Len(q) + 1
      BY <3>3, <2>2, <2>3, <2>7
    <3>4. CASE i = Len(q) + 1 /\ j \in 1..Len(q)
      BY <3>4, <2>2, <2>3, <2>7
    <3>5. \A k \in 1..Len(r) : k \in 1..Len(q) \/ k = Len(q) + 1  BY <2>2, <2>4
    <3> QED  BY <3>1, <3>2, <3>3, <3>4, <3>5
  <2> QED  BY <2>2, <2>5, <2>6, <2>8 DEF KeptOf
<1> QED  BY <1>2, <1>3

(* What Keep computes.                                                     *)
LEMMA KeepFacts ==
    ASSUME NEW X, NEW s \in Seq(X), Distinct(s), NEW S
    PROVE  KeptOf(Keep(s, S), s, S, Len(s)) /\ Distinct(Keep(s, S))
<1>1. Len(s) \in Nat  OBVIOUS
<1>2. PICK f : f = CHOOSE g : Kept(g, s, S, Len(s))  OBVIOUS
<1>3. Kept(f, s, S, Len(s))
  <2>1. \E g : Kept(g, s, S, Len(s))  BY <1>1, KeptExists
  <2> QED  BY <1>2, <2>1
<1>4. Keep(s, S) = f[Len(s)]  BY <1>2 DEF Keep, Kept
<1> DEFINE Bad == {k \in 0..Len(s) : ~(KeptOf(f[k], s, S, k) /\ Distinct(f[k]))}
<1>5. ASSUME Bad # {} PROVE FALSE
  <2>1. PICK k \in Bad : \A m \in Bad : k <= m
    <3>1. Bad \subseteq Nat  OBVIOUS
    <3> HIDE DEF Bad
    <3> QED  BY <1>5, <3>1, LeastNumber
  <2>2. k \in 0..Len(s) /\ ~(KeptOf(f[k], s, S, k) /\ Distinct(f[k]))  BY <2>1
  <2>3. CASE k = 0
    <3>1. 0 \in 0..Len(s)  BY <1>1
    <3>2. f[0] = <<>>  BY <1>3, <3>1 DEF Kept
    <3>3. <<>> \in Seq(S) /\ Len(<<>>) = 0  OBVIOUS
    <3>4. KeptOf(<<>>, s, S, 0) /\ Distinct(<<>>)  BY <3>3 DEF KeptOf, Distinct
    <3> QED  BY <2>2, <2>3, <3>2, <3>4
  <2>4. CASE k # 0
    <3>1. k - 1 \in 0..Len(s) /\ k - 1 \notin Bad /\ k \in 1..Len(s)
      BY <2>1, <2>2, <2>4, <1>1
    <3>2. PICK q : q = f[k - 1]  OBVIOUS
    <3>3. KeptOf(q, s, S, k - 1) /\ Distinct(q)  BY <3>1, <3>2
    <3>4. PICK r : r = f[k]  OBVIOUS
    <3>5. r = IF s[k] \in S THEN Append(q, s[k]) ELSE q
      BY <1>3, <2>2, <2>4, <3>2, <3>4 DEF Kept
    <3>6. KeptOf(r, s, S, k) /\ Distinct(r)  BY <3>1, <3>3, <3>5, KeptStep
    <3> QED  BY <2>2, <3>4, <3>6
  <2> QED  BY <2>3, <2>4
<1>6. Len(s) \notin Bad /\ Len(s) \in 0..Len(s)  BY <1>1, <1>5
<1> QED  BY <1>4, <1>6

-----------------------------------------------------------------------------
(* The inductive invariant.                                                *)

Answers == [chain : Chain, status : {"ok", "not_found", "rate_limited", "deferred", "missed"},
            records : 0..MaxSeq, latest : 0..MaxSeq]

(* What an entry says of its chain: rows up to a number the chain has had, *)
(* not before the device's cursor; any other entry says nothing.           *)
AnswerOK(e) ==
    IF e.status = "ok"
    THEN e.records = e.latest /\ cursor[e.chain] <= e.records /\ e.records <= latest[e.chain]
    ELSE e = Entry(e.chain, e.status)

Types ==
    /\ latest \in [Chain -> 0..MaxSeq] /\ cursor \in [Chain -> 0..MaxSeq]
    /\ missing \subseteq Chain /\ mode \in {"idle", "batch", "single"}
    /\ queue \in Seq(Chain) /\ fetched \subseteq Answers /\ limited \in BOOLEAN
    /\ batchOk \in BOOLEAN /\ batchFailed \in BOOLEAN /\ failures \in 0..2
    /\ request \in [items : Seq(Chain), entries : Seq(Answers), spent : Nat, open : BOOLEAN]

(* The device has the rows up to its cursor, and no cursor is ahead.       *)
DeviceOK ==
    /\ held = [c \in Chain |-> 1..cursor[c]]
    /\ \A c \in Chain : cursor[c] <= latest[c]

(* Every chain is either fetched or still to be asked, once.               *)
FetchedOK ==
    /\ Distinct(queue)
    /\ \A f \in fetched : f.status \in {"ok", "not_found", "missed"} /\ AnswerOK(f)
    /\ \A f, g \in fetched : f.chain = g.chain => f = g
    /\ \A f \in fetched : f.chain \notin ToSet(queue)
    /\ IF mode = "idle" THEN queue = <<>> /\ fetched = {}
       ELSE {f.chain : f \in fetched} \cup ToSet(queue) = Chain \ missing

(* A request works through the head of the queue.                          *)
RequestOK ==
    IF request.open
    THEN /\ mode = "batch" /\ queue # <<>>
         /\ Len(request.entries) + Len(request.items) = Take
         /\ \A i \in 1..Len(request.entries) :
               /\ request.entries[i].chain = queue[i] /\ request.entries[i].status # "missed"
               /\ AnswerOK(request.entries[i])
         /\ \A i \in 1..Len(request.items) : request.items[i] = queue[Len(request.entries) + i]
    ELSE request = NoRequest

(* While pull() is at its await, no row is added to its chain.             *)
ReadingOK ==
    \/ reading = NoRead
    \/ /\ \E c \in Chain : reading = [chain |-> c, records |-> latest[c]]
       /\ \/ /\ mode = "batch" /\ request.open /\ request.items # <<>>
             /\ reading.chain = request.items[1]
          \/ mode = "single" /\ queue # <<>> /\ reading.chain = queue[1]

(* Once something was missed, a batch is not followed by another.          *)
MissedOK ==
    /\ mode = "batch" /\ queue # <<>> =>
           ~limited /\ ~batchFailed /\ \A f \in fetched : f.status # "missed"
    /\ mode = "idle" => ~limited /\ ~batchFailed
    /\ \A f \in fetched : f.status = "missed" =>
           limited \/ IF mode = "single" THEN f.chain \in Broken ELSE batchFailed

IInv == Types /\ DeviceOK /\ FetchedOK /\ RequestOK /\ ReadingOK /\ MissedOK

-----------------------------------------------------------------------------
(* Queues.                                                                 *)

(* The elements of a sequence.                                             *)
LEMMA ToSetIs ==
    ASSUME NEW X, NEW q \in Seq(X)
    PROVE  ToSet(q) = {q[i] : i \in 1..Len(q)} /\ ToSet(q) \subseteq X
BY DEF ToSet

(* Keep keeps what is in the set.                                          *)
LEMMA KeepIs ==
    ASSUME NEW X, NEW s \in Seq(X), Distinct(s), NEW S \in SUBSET X
    PROVE  /\ Keep(s, S) \in Seq(X) /\ Distinct(Keep(s, S))
           /\ ToSet(Keep(s, S)) = ToSet(s) \cap S
<1>1. PICK q : q = Keep(s, S)  OBVIOUS
<1>2. KeptOf(q, s, S, Len(s)) /\ Distinct(q)  BY <1>1, KeepFacts
<1>3. q \in Seq(S) /\ q \in Seq(X)  BY <1>2 DEF KeptOf
<1>4. ToSet(q) = {q[i] : i \in 1..Len(q)} /\ ToSet(s) = {s[i] : i \in 1..Len(s)}
  BY <1>3, ToSetIs
<1>5. \A i \in 1..Len(q) : q[i] \in S  BY <1>3
<1>6. ToSet(q) \subseteq ToSet(s) \cap S  BY <1>2, <1>4, <1>5 DEF KeptOf
<1>7. ToSet(s) \cap S \subseteq ToSet(q)  BY <1>2, <1>4 DEF KeptOf
<1> QED  BY <1>1, <1>2, <1>3, <1>6, <1>7

(* A sequence as long as its set has no element twice.                     *)
LEMMA DistinctIs ==
    ASSUME NEW X, NEW q \in Seq(X)
    PROVE  /\ IsFiniteSet(ToSet(q))
           /\ Distinct(q) <=> Len(q) = Cardinality(ToSet(q))
<1>1. q \in Surjection(1..Len(q), ToSet(q))
  <2>1. q \in [1..Len(q) -> ToSet(q)]  BY ToSetIs
  <2>2. \A t \in ToSet(q) : \E i \in 1..Len(q) : q[i] = t  BY ToSetIs
  <2> QED  BY <2>1, <2>2 DEF Surjection
<1>2. Len(q) \in Nat  OBVIOUS
<1>3. IsFiniteSet(1..Len(q)) /\ Cardinality(1..Len(q)) = Len(q)
  BY <1>2, FS_Interval
<1>4. /\ IsFiniteSet(ToSet(q))
      /\ Cardinality(ToSet(q)) = Cardinality(1..Len(q)) <=> q \in Injection(1..Len(q), ToSet(q))
  BY <1>1, <1>3, FS_Surjection
<1>5. q \in [1..Len(q) -> ToSet(q)]  BY ToSetIs
<1>6. q \in Injection(1..Len(q), ToSet(q)) <=> Distinct(q)
  BY <1>5, Zenon DEF Injection, IsInjective, Distinct
<1> QED  BY <1>3, <1>4, <1>6

(* The head of the queue that goes into a batch, and the rest.             *)
LEMMA TakeIs ==
    ASSUME BatchPullAssumption, queue \in Seq(Chain)
    PROVE  /\ Take \in 0..Len(queue) /\ Take <= MaxBatch /\ (queue # <<>> => Take > 0)
           /\ SubSeq(queue, 1, Take) \in Seq(Chain) /\ Len(SubSeq(queue, 1, Take)) = Take
           /\ \A i \in 1..Take : SubSeq(queue, 1, Take)[i] = queue[i]
           /\ Rest \in Seq(Chain) /\ Len(Rest) = Len(queue) - Take
           /\ \A i \in 1..(Len(queue) - Take) : Rest[i] = queue[Take + i]
<1>1. Len(queue) \in Nat /\ MaxBatch \in Nat \ {0}  BY DEF BatchPullAssumption
<1>2. Take \in 0..Len(queue) /\ Take <= MaxBatch /\ (queue # <<>> => Take > 0)
  BY <1>1 DEF Take
<1>3. PICK n : n = Take  OBVIOUS
<1>4. n \in 0..Len(queue)  BY <1>2, <1>3
<1>5. /\ SubSeq(queue, 1, n) \in Seq(Chain) /\ Len(SubSeq(queue, 1, n)) = n
      /\ \A i \in 1..n : SubSeq(queue, 1, n)[i] = queue[i]
  BY <1>1, <1>4
<1>6. /\ SubSeq(queue, n + 1, Len(queue)) \in Seq(Chain)
      /\ Len(SubSeq(queue, n + 1, Len(queue))) = Len(queue) - n
      /\ \A i \in 1..(Len(queue) - n) : SubSeq(queue, n + 1, Len(queue))[i] = queue[n + i]
  BY <1>1, <1>4
<1> QED  BY <1>2, <1>3, <1>5, <1>6 DEF Rest

(* The head of a queue without double entries, and its tail.               *)
LEMMA TailIs ==
    ASSUME NEW X, NEW q \in Seq(X), q # <<>>, Distinct(q)
    PROVE  /\ q[1] \in ToSet(q) /\ Tail(q) \in Seq(X) /\ Distinct(Tail(q))
           /\ ToSet(Tail(q)) = ToSet(q) \ {q[1]}
<1>1. Len(q) \in Nat /\ Len(q) > 0  OBVIOUS
<1>2. PICK r : r = Tail(q)  OBVIOUS
<1>3. r \in Seq(X) /\ Len(r) = Len(q) - 1 /\ \A i \in 1..(Len(q) - 1) : r[i] = q[i + 1]
  BY <1>1, <1>2
<1>4. ToSet(q) = {q[i] : i \in 1..Len(q)} /\ ToSet(r) = {r[i] : i \in 1..Len(r)}
  BY <1>3, ToSetIs
<1>5. Distinct(r)
  <2> SUFFICES ASSUME NEW i \in 1..Len(r), NEW j \in 1..Len(r), r[i] = r[j] PROVE i = j
    BY DEF Distinct
  <2>1. q[i + 1] = q[j + 1] /\ i + 1 \in 1..Len(q) /\ j + 1 \in 1..Len(q)  BY <1>1, <1>3
  <2> QED  BY <2>1 DEF Distinct
<1>6. ASSUME NEW x \in ToSet(r) PROVE x \in ToSet(q) \ {q[1]}
  <2>1. PICK i \in 1..Len(r) : x = r[i]  BY <1>4
  <2>2. x = q[i + 1] /\ i + 1 \in 1..Len(q) /\ i + 1 # 1 /\ 1 \in 1..Len(q)  BY <2>1, <1>1, <1>3
  <2> QED  BY <2>2, <1>4 DEF Distinct
<1>7. ASSUME NEW x \in ToSet(q) \ {q[1]} PROVE x \in ToSet(r)
  <2>1. PICK i \in 1..Len(q) : x = q[i]  BY <1>4
  <2>2. i - 1 \in 1..Len(r) /\ r[i - 1] = q[i]
    <3>1. i # 1  BY <2>1
    <3>2. i - 1 \in 1..(Len(q) - 1) /\ (i - 1) + 1 = i  BY <3>1, <1>1
    <3> QED  BY <3>2, <1>3
  <2> QED  BY <2>1, <2>2, <1>4
<1>8. q[1] \in ToSet(q)
  <2>1. 1 \in 1..Len(q)  BY <1>1
  <2> QED  BY <2>1, <1>4
<1> QED  BY <1>2, <1>3, <1>5, <1>6, <1>7, <1>8

(* Two sequences that share nothing, one after the other.                  *)
LEMMA ConcatIs ==
    ASSUME NEW X, NEW q \in Seq(X), NEW r \in Seq(X), Distinct(q), Distinct(r),
           ToSet(q) \cap ToSet(r) = {}
    PROVE  q \o r \in Seq(X) /\ Distinct(q \o r) /\ ToSet(q \o r) = ToSet(q) \cup ToSet(r)
<1>1. PICK t : t = q \o r  OBVIOUS
<1>2. /\ t \in Seq(X) /\ Len(t) = Len(q) + Len(r)
      /\ \A i \in 1..Len(t) : t[i] = IF i <= Len(q) THEN q[i] ELSE r[i - Len(q)]
  BY <1>1
<1>3. Len(q) \in Nat /\ Len(r) \in Nat  OBVIOUS
<1>4. /\ ToSet(q) = {q[i] : i \in 1..Len(q)} /\ ToSet(r) = {r[i] : i \in 1..Len(r)}
      /\ ToSet(t) = {t[i] : i \in 1..Len(t)}
  BY <1>2, ToSetIs
<1>5. \A i \in 1..Len(q) : i \in 1..Len(t) /\ t[i] = q[i]  BY <1>2, <1>3
<1>6. ASSUME NEW i \in 1..Len(r) PROVE Len(q) + i \in 1..Len(t) /\ t[Len(q) + i] = r[i]
  <2>1. PICK j : j = Len(q) + i  OBVIOUS
  <2>2. j \in 1..Len(t) /\ ~(j <= Len(q)) /\ j - Len(q) = i  BY <1>2, <1>3, <2>1
  <2>3. t[j] = r[j - Len(q)]  BY <1>2, <2>2
  <2> QED  BY <2>1, <2>2, <2>3
<1>7. \A i \in 1..Len(t) : \/ i \in 1..Len(q)
                           \/ i - Len(q) \in 1..Len(r) /\ i = Len(q) + (i - Len(q))
  BY <1>2, <1>3
<1>8. ToSet(t) = ToSet(q) \cup ToSet(r)
  <2>1. ASSUME NEW x \in ToSet(t) PROVE x \in ToSet(q) \cup ToSet(r)
    <3>1. PICK i \in 1..Len(t) : x = t[i]  BY <1>4
    <3>2. CASE i \in 1..Len(q)  BY <3>1, <3>2, <1>4, <1>5
    <3>3. CASE i \notin 1..Len(q)
      <4>1. i - Len(q) \in 1..Len(r) /\ x = r[i - Len(q)]  BY <3>1, <3>3, <1>2, <1>3, <1>7
      <4> QED  BY <4>1, <1>4
    <3> QED  BY <3>2, <3>3
  <2>2. ToSet(q) \subseteq ToSet(t)  BY <1>4, <1>5
  <2>3. ToSet(r) \subseteq ToSet(t)  BY <1>4, <1>6
  <2> QED  BY <2>1, <2>2, <2>3
<1>9. Distinct(t)
  <2> SUFFICES ASSUME NEW i \in 1..Len(t), NEW j \in 1..Len(t), t[i] = t[j] PROVE i = j
    BY DEF Distinct
  <2>1. CASE i \in 1..Len(q) /\ j \in 1..Len(q)  BY <2>1, <1>5 DEF Distinct
  <2>2. CASE i \in 1..Len(q) /\ j \notin 1..Len(q)
    <3>1. t[i] \in ToSet(q)  BY <2>2, <1>4, <1>5
    <3>2. j - Len(q) \in 1..Len(r) /\ t[j] = r[j - Len(q)]  BY <2>2, <1>2, <1>3, <1>7
    <3> QED  BY <3>1, <3>2, <1>4
  <2>3. CASE i \notin 1..Len(q) /\ j \in 1..Len(q)
    <3>1. t[j] \in ToSet(q)  BY <2>3, <1>4, <1>5
    <3>2. i - Len(q) \in 1..Len(r) /\ t[i] = r[i - Len(q)]  BY <2>3, <1>2, <1>3, <1>7
    <3> QED  BY <3>1, <3>2, <1>4
  <2>4. CASE i \notin 1..Len(q) /\ j \notin 1..Len(q)
    <3>1. i - Len(q) \in 1..Len(r) /\ t[i] = r[i - Len(q)]  BY <2>4, <1>2, <1>3, <1>7
    <3>2. j - Len(q) \in 1..Len(r) /\ t[j] = r[j - Len(q)]  BY <2>4, <1>2, <1>3, <1>7
    <3>3. i - Len(q) = j - Len(q)  BY <3>1, <3>2 DEF Distinct
    <3> QED  BY <3>3, <1>3
  <2> QED  BY <2>1, <2>2, <2>3, <2>4
<1> QED  BY <1>1, <1>2, <1>8, <1>9

-----------------------------------------------------------------------------
(* The steps.                                                              *)

(* The first state.                                                        *)
LEMMA InitOK == BatchPullAssumption /\ Init => IInv
<1> SUFFICES ASSUME BatchPullAssumption, Init PROVE IInv  OBVIOUS
<1>1. MaxSeq \in Nat /\ 0 \in 0..MaxSeq  BY DEF BatchPullAssumption
<1>2. Types
  <2>1. request \in [items : Seq(Chain), entries : Seq(Answers), spent : Nat, open : BOOLEAN]
    BY DEF Init, NoRequest
  <2>2. latest \in [Chain -> 0..MaxSeq] /\ cursor \in [Chain -> 0..MaxSeq]  BY <1>1 DEF Init
  <2>3. queue \in Seq(Chain) /\ failures \in 0..2  BY DEF Init
  <2> QED  BY <2>1, <2>2, <2>3 DEF Init, Types
<1>3. DeviceOK  BY <1>1 DEF Init, DeviceOK
<1>4. FetchedOK  BY DEF Init, FetchedOK, Distinct, ToSet
<1>5. RequestOK /\ ReadingOK  BY DEF Init, RequestOK, ReadingOK, NoRequest
<1>6. MissedOK  BY DEF Init, MissedOK
<1> QED  BY <1>2, <1>3, <1>4, <1>5, <1>6 DEF IInv

(* No step takes a row away, so what an entry says stays true.             *)
LEMMA AnswerStands ==
    ASSUME NEW e \in Answers, AnswerOK(e), Types, cursor' = cursor,
           latest' \in [Chain -> 0..MaxSeq], \A c \in Chain : latest[c] <= latest'[c],
           BatchPullAssumption
    PROVE  AnswerOK(e)'
<1>1. /\ e.chain \in Chain /\ e.records \in Nat
      /\ latest[e.chain] \in Nat /\ latest'[e.chain] \in Nat
  BY DEF Answers, Types, BatchPullAssumption
<1>2. latest[e.chain] <= latest'[e.chain]  BY <1>1
<1> QED  BY <1>1, <1>2 DEF AnswerOK

(* What a step leaves alone.                                               *)
LEMMA FetchedStands ==
    ASSUME BatchPullAssumption, IInv, cursor' = cursor,
           latest' \in [Chain -> 0..MaxSeq], \A c \in Chain : latest[c] <= latest'[c],
           UNCHANGED <<queue, fetched, missing>>, mode # "idle", mode' # "idle"
    PROVE  FetchedOK'
<1>1. \A f \in fetched : f \in Answers /\ AnswerOK(f)  BY DEF IInv, Types, FetchedOK
<1>2. \A f \in fetched : AnswerOK(f)'  BY <1>1, AnswerStands DEF IInv
<1> QED  BY <1>2 DEF IInv, FetchedOK

LEMMA RequestStands ==
    ASSUME BatchPullAssumption, IInv, cursor' = cursor,
           latest' \in [Chain -> 0..MaxSeq], \A c \in Chain : latest[c] <= latest'[c],
           UNCHANGED <<queue, request, mode>>
    PROVE  RequestOK'
<1>1. request.entries \in Seq(Answers)  BY DEF IInv, Types
<1>2. \A i \in 1..Len(request.entries) : request.entries[i] \in Answers  BY <1>1
<1>3. request.open => \A i \in 1..Len(request.entries) : AnswerOK(request.entries[i])
  BY DEF IInv, RequestOK
<1>4. ASSUME request.open, NEW i \in 1..Len(request.entries)
      PROVE  AnswerOK(request.entries[i])'
  <2>1. PICK e : e = request.entries[i]  OBVIOUS
  <2>2. e \in Answers /\ AnswerOK(e)  BY <1>2, <1>3, <1>4, <2>1
  <2>3. AnswerOK(e)'  BY <2>2, AnswerStands DEF IInv
  <2> QED  BY <2>1, <2>3 DEF AnswerOK
<1>5. Take' = Take  BY DEF Take
<1> QED  BY <1>4, <1>5 DEF IInv, RequestOK

(* A row pushed by another device: no pull of that chain is at its await.  *)
LEMMA PushOK ==
    ASSUME BatchPullAssumption, IInv, NEW c \in Chain, Push(c) PROVE IInv'
<1>1. MaxSeq \in Nat /\ latest \in [Chain -> 0..MaxSeq] /\ latest[c] < MaxSeq
  BY DEF IInv, Types, Push, BatchPullAssumption
<1>2. latest' = [latest EXCEPT ![c] = latest[c] + 1] /\ reading.chain # c  BY DEF Push
<1>3. latest[c] \in 0..MaxSeq  BY <1>1
<1>4. latest[c] + 1 \in 0..MaxSeq  BY <1>1, <1>3
<1>5. latest' \in [Chain -> 0..MaxSeq]  BY <1>1, <1>2, <1>4
<1>6. \A d \in Chain : latest[d] <= latest'[d] /\ (d # c => latest'[d] = latest[d])
  BY <1>1, <1>2
<1>7. UNCHANGED <<cursor, held, missing, queue, mode, fetched, limited, batchOk, batchFailed,
                  failures,
                  request, reading, limits>>
  BY DEF Push, device, flags
<1>8. Types'  BY <1>5, <1>7 DEF IInv, Types
<1>9. DeviceOK'
  <2>1. \A d \in Chain : cursor[d] \in Nat /\ latest[d] \in Nat /\ latest'[d] \in Nat
    BY <1>1, <1>5 DEF IInv, Types
  <2>2. \A d \in Chain : cursor[d] <= latest[d]  BY DEF IInv, DeviceOK
  <2>3. \A d \in Chain : cursor[d] <= latest'[d]  BY <2>1, <2>2, <1>6
  <2> QED  BY <2>3, <1>7 DEF IInv, DeviceOK
<1>10. FetchedOK'
  <2>1. CASE mode = "idle"  BY <2>1, <1>7 DEF IInv, FetchedOK
  <2>2. CASE mode # "idle"  BY <2>2, <1>5, <1>6, <1>7, FetchedStands
  <2> QED  BY <2>1, <2>2
<1>11. RequestOK'  BY <1>5, <1>6, <1>7, RequestStands
<1>12. ReadingOK'
  <2>1. CASE reading = NoRead  BY <2>1, <1>7 DEF ReadingOK
  <2>2. CASE reading # NoRead
    <3>1. PICK d \in Chain : reading = [chain |-> d, records |-> latest[d]]
      BY <2>2 DEF IInv, ReadingOK
    <3>2. reading.chain = d  BY <3>1
    <3>3. latest'[d] = latest[d]  BY <3>2, <1>2, <1>6
    <3>4. reading' = [chain |-> d, records |-> latest'[d]]  BY <3>1, <3>3, <1>7
    <3> QED  BY <2>2, <3>4, <1>7 DEF IInv, ReadingOK
  <2> QED  BY <2>1, <2>2
<1>13. MissedOK'  BY <1>7 DEF IInv, MissedOK
<1> QED  BY <1>8, <1>9, <1>10, <1>11, <1>12, <1>13 DEF IInv

(* The queue of a round is every space that is not paused.                 *)
LEMMA StartOK ==
    ASSUME BatchPullAssumption, IInv, Start PROVE IInv'
<1>1. UNCHANGED <<latest, cursor, held, missing, fetched, limited, batchOk, batchFailed, failures,
                  request, reading, limits>>
  BY DEF Start, device, flags
<1>2. mode = "idle" /\ mode' = "batch" /\ queue' = Keep(Order, Chain \ missing)  BY DEF Start
<1>3. PICK q : q = Keep(Order, Chain \ missing)  OBVIOUS
<1>4. Order \in Seq(Chain) /\ ToSet(Order) = Chain /\ Distinct(Order)
  BY DistinctIs DEF BatchPullAssumption
<1>5. q \in Seq(Chain) /\ Distinct(q) /\ ToSet(q) = Chain \ missing
  BY <1>3, <1>4, KeepIs
<1>6. fetched = {} /\ request = NoRequest /\ reading = NoRead /\ ~limited /\ ~batchFailed
  BY <1>2 DEF IInv, FetchedOK, RequestOK, ReadingOK, MissedOK
<1>7. Types'  BY <1>1, <1>2, <1>3, <1>5 DEF IInv, Types
<1>8. DeviceOK'  BY <1>1 DEF IInv, DeviceOK
<1>9. FetchedOK'
  <2>1. queue' = q /\ fetched' = {} /\ missing' = missing  BY <1>1, <1>2, <1>3, <1>6
  <2> QED  BY <2>1, <1>2, <1>5 DEF FetchedOK
<1>10. RequestOK'  BY <1>1, <1>6 DEF RequestOK, NoRequest
<1>11. ReadingOK'  BY <1>1, <1>6 DEF ReadingOK
<1>12. MissedOK'  BY <1>1, <1>2, <1>6 DEF MissedOK
<1> QED  BY <1>7, <1>8, <1>9, <1>10, <1>11, <1>12 DEF IInv

(* A batch is the head of the queue.                                       *)
LEMMA SendBatchOK ==
    ASSUME BatchPullAssumption, IInv, SendBatch PROVE IInv'
<1>1. UNCHANGED <<latest, cursor, held, missing, queue, mode, fetched, limited, batchOk,
                  batchFailed,
                  failures, reading, limits>>
  BY DEF SendBatch, device, flags
<1>2. mode = "batch" /\ ~request.open /\ queue # <<>>  BY DEF SendBatch
<1>3. PICK h : h = SubSeq(queue, 1, Take)  OBVIOUS
<1>4. h \in Seq(Chain) /\ Len(h) = Take /\ \A i \in 1..Take : h[i] = queue[i]
  BY <1>3, TakeIs DEF IInv, Types
<1>5. request' = [items |-> h, entries |-> <<>>, spent |-> 0, open |-> TRUE]
  BY <1>3 DEF SendBatch, NoRequest
<1>6. Types'
  <2>1. request' \in [items : Seq(Chain), entries : Seq(Answers), spent : Nat, open : BOOLEAN]
    BY <1>4, <1>5
  <2> QED  BY <2>1, <1>1 DEF IInv, Types
<1>7. DeviceOK'  BY <1>1 DEF IInv, DeviceOK
<1>8. FetchedOK'  BY <1>1, <1>2, FetchedStands DEF IInv, Types
<1>9. RequestOK'
  <2>1. Take' = Take /\ Take \in Nat  BY <1>1, TakeIs DEF Take, IInv, Types
  <2>2. request'.open /\ request'.entries = <<>> /\ request'.items = h  BY <1>5
  <2>3. Len(<<>>) + Len(h) = Take  BY <1>4, <2>1
  <2>4. \A i \in 1..Len(h) : h[i] = queue[Len(<<>>) + i]  BY <1>4, <2>1
  <2> QED  BY <2>1, <2>2, <2>3, <2>4, <1>1, <1>2 DEF RequestOK
<1>10. ReadingOK'
  <2>1. reading = NoRead  BY <1>2 DEF IInv, ReadingOK
  <2> QED  BY <2>1, <1>1 DEF ReadingOK
<1>11. MissedOK'  BY <1>1 DEF IInv, MissedOK
<1> QED  BY <1>6, <1>7, <1>8, <1>9, <1>10, <1>11 DEF IInv

(* The chain an open request works on.                                     *)
LEMMA ItemIs ==
    ASSUME BatchPullAssumption, IInv, request.open, request.items # <<>>
    PROVE  /\ Item \in Chain /\ mode = "batch" /\ queue # <<>>
           /\ Len(request.entries) + 1 \in 1..Take /\ Item = queue[Len(request.entries) + 1]
<1>1. request.items \in Seq(Chain) /\ request.entries \in Seq(Answers)  BY DEF IInv, Types
<1>2. Len(request.items) \in Nat \ {0} /\ Len(request.entries) \in Nat  BY <1>1
<1>3. 1 \in 1..Len(request.items)  BY <1>2
<1>4. request.items[1] \in Chain  BY <1>1, <1>3
<1>5. /\ mode = "batch" /\ queue # <<>> /\ Len(request.entries) + Len(request.items) = Take
      /\ \A i \in 1..Len(request.items) : request.items[i] = queue[Len(request.entries) + i]
  BY DEF IInv, RequestOK
<1>6. request.items[1] = queue[Len(request.entries) + 1]  BY <1>3, <1>5
<1>7. Len(request.entries) + 1 \in 1..Take
  <2>1. PICK m, n : m = Len(request.entries) /\ n = Len(request.items)  OBVIOUS
  <2>2. m \in Nat /\ n \in Nat \ {0} /\ Take = m + n  BY <2>1, <1>2, <1>5
  <2>3. m + 1 \in 1..Take  BY <2>2
  <2> QED  BY <2>1, <2>3
<1> QED  BY <1>4, <1>5, <1>6, <1>7 DEF Item

(* A pull up to its await.                                                 *)
LEMMA ReadItemOK ==
    ASSUME BatchPullAssumption, IInv, ReadItem PROVE IInv'
<1>1. UNCHANGED <<latest, cursor, held, missing, queue, mode, fetched, limited, batchOk,
                  batchFailed,
                  failures, request, limits>>
  BY DEF ReadItem, device, flags
<1>2. request.open /\ request.items # <<>> /\ mode = "batch"  BY DEF ReadItem, Executed, AtRelay
<1>3. Item \in Chain /\ reading' = [chain |-> Item, records |-> latest[Item]]
  BY <1>2, ItemIs DEF ReadItem
<1>4. Types' /\ DeviceOK' /\ MissedOK'  BY <1>1 DEF IInv, Types, DeviceOK, MissedOK
<1>5. FetchedOK' /\ RequestOK'  BY <1>1, <1>2, FetchedStands, RequestStands DEF IInv, Types
<1>6. ReadingOK'
  <2>1. reading'.chain = request.items[1]  BY <1>3 DEF Item
  <2> QED  BY <2>1, <1>1, <1>2, <1>3 DEF ReadingOK
<1> QED  BY <1>4, <1>5, <1>6 DEF IInv

(* An answer takes its item off the request and adds its entry.            *)
LEMMA AnsweredOK ==
    ASSUME BatchPullAssumption, IInv, request.open, request.items # <<>>,
           NEW e \in Answers, e.chain = Item, e.status # "missed", AnswerOK(e), Answered(e),
           reading' = NoRead,
           UNCHANGED <<latest, cursor, held, missing, queue, mode, fetched, limited, batchOk,
                       batchFailed, failures>>
    PROVE  IInv'
<1>1. PICK items, entries, spent : items = request.items /\ entries = request.entries
                                   /\ spent = request.spent
  OBVIOUS
<1>2. /\ request \in [items : Seq(Chain), entries : Seq(Answers), spent : Nat, open : BOOLEAN]
      /\ items \in Seq(Chain) /\ entries \in Seq(Answers) /\ spent \in Nat /\ items # <<>>
  BY <1>1 DEF IInv, Types
<1>3. PICK n : n = spent + e.records - IF e.status = "ok" THEN cursor[Item] ELSE 0  OBVIOUS
<1>4. n \in Nat
  <2>1. Item \in Chain /\ cursor[Item] \in Nat /\ e.records \in Nat
    BY ItemIs DEF IInv, Types, Answers, BatchPullAssumption
  <2>2. e.status = "ok" => cursor[Item] <= e.records  BY DEF AnswerOK
  <2> QED  BY <1>2, <1>3, <2>1, <2>2
<1>5. request' = [items |-> Tail(items), entries |-> Append(entries, e), spent |-> n,
                  open |-> TRUE]
  <2>1. request' = [request EXCEPT !.items = Tail(items), !.entries = Append(entries, e),
                                   !.spent = n]
    BY <1>1, <1>3 DEF Answered
  <2> QED  BY <1>2, <2>1
<1>6. PICK more, rest : more = Append(entries, e) /\ rest = Tail(items)  OBVIOUS
<1>7. /\ more \in Seq(Answers) /\ Len(more) = Len(entries) + 1 /\ more[Len(entries) + 1] = e
      /\ \A i \in 1..Len(entries) : more[i] = entries[i]
  BY <1>2, <1>6
<1>8. /\ rest \in Seq(Chain) /\ Len(rest) = Len(items) - 1
      /\ \A i \in 1..(Len(items) - 1) : rest[i] = items[i + 1]
  BY <1>2, <1>6
<1>9. Len(items) \in Nat \ {0} /\ Len(entries) \in Nat  BY <1>2
<1>10. Types'
  <2>1. request' \in [items : Seq(Chain), entries : Seq(Answers), spent : Nat, open : BOOLEAN]
    BY <1>4, <1>5, <1>6, <1>7, <1>8
  <2> QED  BY <2>1 DEF IInv, Types
<1>11. mode = "batch" /\ queue # <<>> /\ Item = queue[Len(entries) + 1]  BY <1>1, ItemIs
<1>12. DeviceOK' /\ MissedOK' /\ ReadingOK'  BY DEF IInv, DeviceOK, MissedOK, ReadingOK
<1>13. FetchedOK'  BY <1>11, FetchedStands DEF IInv, Types
<1>14. RequestOK'
  <2>1. Take' = Take  BY DEF Take
  <2>2. request'.open /\ request'.entries = more /\ request'.items = rest  BY <1>5, <1>6
  <2>3. /\ Len(entries) + Len(items) = Take
        /\ \A i \in 1..Len(entries) :
              entries[i].chain = queue[i] /\ entries[i].status # "missed" /\ AnswerOK(entries[i])
        /\ \A i \in 1..Len(items) : items[i] = queue[Len(entries) + i]
    BY <1>1 DEF IInv, RequestOK
  <2>4. Len(more) + Len(rest) = Take  BY <2>3, <1>7, <1>8, <1>9
  <2>5. ASSUME NEW i \in 1..Len(more)
        PROVE  more[i].chain = queue[i] /\ more[i].status # "missed" /\ AnswerOK(more[i])
    <3>1. CASE i = Len(entries) + 1  BY <3>1, <1>7, <1>11
    <3>2. CASE i # Len(entries) + 1
      <4>1. i \in 1..Len(entries)  BY <3>2, <1>7, <1>9
      <4> QED  BY <4>1, <2>3, <1>7
    <3> QED  BY <3>1, <3>2
  <2>6. ASSUME NEW i \in 1..Len(rest) PROVE rest[i] = queue[Len(more) + i]
    <3>1. i + 1 \in 1..Len(items) /\ rest[i] = items[i + 1]  BY <1>8, <1>9
    <3>2. items[i + 1] = queue[Len(entries) + (i + 1)]  BY <3>1, <2>3
    <3>3. Len(entries) + (i + 1) = Len(more) + i  BY <1>7, <1>9
    <3> QED  BY <3>1, <3>2, <3>3
  <2>7. ASSUME NEW i \in 1..Len(more) PROVE AnswerOK(request.entries[i])'
    <3>1. PICK a : a = more[i]  OBVIOUS
    <3>2. a \in Answers /\ AnswerOK(a)  BY <3>1, <2>5, <1>7
    <3>3. AnswerOK(a)'  BY <3>2 DEF AnswerOK
    <3>4. request'.entries[i] = a  BY <2>2, <3>1
    <3> QED  BY <3>3, <3>4 DEF AnswerOK
  <2> QED  BY <2>1, <2>2, <2>4, <2>5, <2>6, <2>7, <1>11 DEF RequestOK
<1> QED  BY <1>10, <1>12, <1>13, <1>14 DEF IInv

(* An entry without rows.                                                  *)
LEMMA EntryIs ==
    ASSUME BatchPullAssumption, NEW c \in Chain,
           NEW s \in {"ok", "not_found", "rate_limited", "deferred", "missed"}, s # "ok"
    PROVE  /\ Entry(c, s) \in Answers /\ Entry(c, s).chain = c /\ Entry(c, s).status = s
           /\ AnswerOK(Entry(c, s)) /\ AnswerOK(Entry(c, s))'
<1>1. 0 \in 0..MaxSeq  BY DEF BatchPullAssumption
<1> QED  BY <1>1 DEF Entry, Answers, AnswerOK

(* A pull after its await: the rows read are all the rows there are.       *)
LEMMA AnswerItemOK ==
    ASSUME BatchPullAssumption, IInv, AnswerItem PROVE IInv'
<1>1. UNCHANGED <<latest, cursor, held, missing, queue, mode, fetched, limited, batchOk,
                  batchFailed,
                  failures>> /\ reading' = NoRead
  BY DEF AnswerItem, device, flags
<1>2. /\ \E c \in Chain : reading = [chain |-> c, records |-> latest[c]]
      /\ request.open /\ request.items # <<>> /\ reading.chain = Item
  BY DEF AnswerItem, IInv, ReadingOK, Item
<1>3. PICK e : e = Ok(Item, reading.records, latest[Item])  OBVIOUS
<1>4. Item \in Chain /\ reading.records = latest[Item]  BY <1>2
<1>5. latest[Item] \in 0..MaxSeq /\ cursor[Item] <= latest[Item]
  BY <1>4 DEF IInv, Types, DeviceOK
<1>6. e \in Answers /\ e.chain = Item /\ e.status = "ok" /\ e.records = latest[Item]
      /\ e.latest = latest[Item]
  BY <1>3, <1>4, <1>5 DEF Ok, Answers
<1>7. AnswerOK(e)  BY <1>5, <1>6 DEF AnswerOK, BatchPullAssumption
<1>8. Answered(e)  BY <1>3 DEF AnswerItem
<1> QED  BY <1>1, <1>2, <1>6, <1>7, <1>8, AnsweredOK

(* The answers without rows.                                               *)
LEMMA AnswerEmptyOK ==
    ASSUME BatchPullAssumption, IInv, AnswerGone \/ LimitItem \/ DeferItem PROVE IInv'
<1>1. UNCHANGED <<latest, cursor, held, missing, queue, mode, fetched, limited, batchOk,
                  batchFailed,
                  failures, reading>>
  BY DEF AnswerGone, LimitItem, DeferItem, device, flags
<1>2. request.open /\ request.items # <<>> /\ reading = NoRead
  BY DEF AnswerGone, LimitItem, DeferItem, Executed, AtRelay
<1>3. PICK s \in {"not_found", "rate_limited", "deferred"} : Answered(Entry(Item, s))
  BY DEF AnswerGone, LimitItem, DeferItem
<1>4. Item \in Chain  BY <1>2, ItemIs
<1>5. PICK e : e = Entry(Item, s)  OBVIOUS
<1>6. e \in Answers /\ e.chain = Item /\ e.status # "missed" /\ AnswerOK(e)
  BY <1>4, <1>5, EntryIs
<1>7. Answered(e)  BY <1>3, <1>5
<1> QED  BY <1>1, <1>2, <1>6, <1>7, AnsweredOK

(* Everything still in the queue is missed.                                *)
LEMMA MissAll ==
    ASSUME BatchPullAssumption, IInv, mode = "batch", mode' = "batch",
           queue' = <<>>, fetched' = fetched \cup Missed(ToSet(queue)),
           UNCHANGED <<latest, cursor, missing>>
    PROVE  FetchedOK' /\ fetched' \subseteq Answers
<1>1. PICK Q : Q = ToSet(queue)  OBVIOUS
<1>2. Q \subseteq Chain  BY <1>1, ToSetIs DEF IInv, Types
<1>3. \A m \in Missed(Q) : /\ m \in Answers /\ m.chain \in Q /\ m.status = "missed"
                           /\ AnswerOK(m)' /\ m = Entry(m.chain, "missed")
  <2> SUFFICES ASSUME NEW c \in Q
               PROVE  LET m == Entry(c, "missed") IN
                      /\ m \in Answers /\ m.chain = c /\ m.status = "missed" /\ AnswerOK(m)'
    BY DEF Missed
  <2>1. c \in Chain  BY <1>2
  <2> QED  BY <2>1, EntryIs
<1>4. ASSUME NEW c \in Q PROVE \E m \in Missed(Q) : m.chain = c
  <2>1. PICK m : m = Entry(c, "missed")  OBVIOUS
  <2>2. m \in Missed(Q) /\ m.chain = c  BY <2>1 DEF Missed, Entry
  <2> QED  BY <2>2
<1>5. /\ fetched \subseteq Answers
      /\ \A f \in fetched : f.status \in {"ok", "not_found", "missed"} /\ f.chain \notin Q
      /\ \A f, g \in fetched : f.chain = g.chain => f = g
      /\ {f.chain : f \in fetched} \cup Q = Chain \ missing
  BY <1>1 DEF IInv, Types, FetchedOK
<1>6. \A f \in fetched : AnswerOK(f)'
  <2>1. \A f \in fetched : AnswerOK(f)  BY DEF IInv, FetchedOK
  <2> QED  BY <2>1 DEF AnswerOK
<1>7. fetched' = fetched \cup Missed(Q)  BY <1>1
<1>8. ASSUME NEW f \in fetched', NEW g \in fetched', f.chain = g.chain PROVE f = g
  BY <1>3, <1>5, <1>7, <1>8
<1>9. {f.chain : f \in fetched'} = Chain \ missing  BY <1>3, <1>4, <1>5, <1>7
<1>10. ToSet(<<>>) = {} /\ Distinct(<<>>)  BY DEF ToSet, Distinct
<1>11. \A f \in fetched' : f.status \in {"ok", "not_found", "missed"} /\ AnswerOK(f)'
  BY <1>3, <1>5, <1>6, <1>7
<1>12. FetchedOK'
  BY <1>8, <1>9, <1>10, <1>11 DEF FetchedOK
<1> QED  BY <1>12, <1>3, <1>5, <1>7

(* A refused batch ends the round.                                         *)
LEMMA LimitBatchOK ==
    ASSUME BatchPullAssumption, IInv, LimitBatch PROVE IInv'
<1>1. UNCHANGED <<latest, cursor, held, missing, mode, batchOk, batchFailed, failures, reading>>
  BY DEF LimitBatch, device, flags
<1>2. /\ mode = "batch" /\ reading = NoRead /\ limited' = TRUE /\ request' = NoRequest
      /\ queue' = <<>> /\ fetched' = fetched \cup Missed(ToSet(queue))
  BY DEF LimitBatch, AtRelay
<1>3. FetchedOK' /\ fetched' \subseteq Answers  BY <1>1, <1>2, MissAll
<1>4. Types'
  <2>1. request' \in [items : Seq(Chain), entries : Seq(Answers), spent : Nat, open : BOOLEAN]
    BY <1>2 DEF NoRequest
  <2>2. queue' \in Seq(Chain)  BY <1>2
  <2> QED  BY <1>1, <1>2, <1>3, <2>1, <2>2 DEF IInv, Types
<1>5. DeviceOK' /\ ReadingOK'  BY <1>1, <1>2 DEF IInv, DeviceOK, ReadingOK
<1>6. RequestOK'  BY <1>2 DEF RequestOK, NoRequest
<1>7. MissedOK'  BY <1>1, <1>2 DEF MissedOK
<1> QED  BY <1>3, <1>4, <1>5, <1>6, <1>7 DEF IInv

(* A failed batch ends the round, or turns it to single requests.          *)
LEMMA FailBatchOK ==
    ASSUME BatchPullAssumption, IInv, FailBatch PROVE IInv'
<1>1. UNCHANGED <<latest, cursor, held, missing, limited, batchOk, failures, reading>>
  BY DEF FailBatch, device
<1>2. /\ mode = "batch" /\ reading = NoRead /\ batchFailed' = TRUE /\ request' = NoRequest
      /\ request.open
  BY DEF FailBatch, Executed, AtRelay
<1>3. queue # <<>>  BY <1>2 DEF IInv, RequestOK
<1>4. request' \in [items : Seq(Chain), entries : Seq(Answers), spent : Nat, open : BOOLEAN]
  BY <1>2 DEF NoRequest
<1>5. DeviceOK' /\ ReadingOK'  BY <1>1, <1>2 DEF IInv, DeviceOK, ReadingOK
<1>6. RequestOK'  BY <1>2 DEF RequestOK, NoRequest
<1>7. CASE mode' = "single" /\ UNCHANGED <<fetched, queue>>
  <2>1. FetchedOK'  BY <1>1, <1>2, <1>7, FetchedStands DEF IInv, Types
  <2>2. Types'  BY <1>1, <1>2, <1>4, <1>7 DEF IInv, Types
  <2>3. MissedOK'  BY <1>2, <1>3, <1>7 DEF IInv, MissedOK
  <2> QED  BY <1>5, <1>6, <2>1, <2>2, <2>3 DEF IInv
<1>8. CASE fetched' = fetched \cup Missed(ToSet(queue)) /\ queue' = <<>> /\ UNCHANGED mode
  <2>1. FetchedOK' /\ fetched' \subseteq Answers  BY <1>1, <1>2, <1>8, MissAll
  <2>2. queue' \in Seq(Chain)  BY <1>8
  <2>3. Types'  BY <1>1, <1>2, <1>4, <1>8, <2>1, <2>2 DEF IInv, Types
  <2>4. MissedOK'  BY <1>1, <1>2, <1>8 DEF MissedOK
  <2> QED  BY <1>5, <1>6, <2>1, <2>3, <2>4 DEF IInv
<1> QED  BY <1>7, <1>8 DEF FailBatch

(* A batch the relay does not know turns the round to single requests.     *)
LEMMA UnsupportedOK ==
    ASSUME BatchPullAssumption, IInv, Unsupported PROVE IInv'
<1>1. UNCHANGED <<latest, cursor, held, missing, queue, fetched, limited, batchOk, batchFailed,
                  failures, reading>>
  BY DEF Unsupported, device, flags
<1>2. /\ mode = "batch" /\ mode' = "single" /\ reading = NoRead /\ request' = NoRequest
      /\ request.open
  BY DEF Unsupported, AtRelay
<1>3. queue # <<>>  BY <1>2 DEF IInv, RequestOK
<1>4. request' \in [items : Seq(Chain), entries : Seq(Answers), spent : Nat, open : BOOLEAN]
  BY <1>2 DEF NoRequest
<1>5. DeviceOK' /\ ReadingOK'  BY <1>1, <1>2 DEF IInv, DeviceOK, ReadingOK
<1>6. RequestOK'  BY <1>2 DEF RequestOK, NoRequest
<1>7. FetchedOK'  BY <1>1, <1>2, FetchedStands DEF IInv, Types
<1>8. Types'  BY <1>1, <1>2, <1>4 DEF IInv, Types
<1>9. MissedOK'  BY <1>1, <1>2, <1>3 DEF IInv, MissedOK
<1> QED  BY <1>5, <1>6, <1>7, <1>8, <1>9 DEF IInv

(* A round that ends with an error applies nothing.                        *)
LEMMA AbortRoundOK ==
    ASSUME BatchPullAssumption, IInv, AbortRound PROVE IInv'
<1>1. /\ UNCHANGED <<latest, cursor, held, missing, failures>>
      /\ mode' = "idle" /\ queue' = <<>> /\ fetched' = {} /\ request' = NoRequest
      /\ reading' = NoRead /\ limited' = FALSE /\ batchOk' = FALSE /\ batchFailed' = FALSE
  BY DEF AbortRound, device
<1>2. request' \in [items : Seq(Chain), entries : Seq(Answers), spent : Nat, open : BOOLEAN]
  BY <1>1 DEF NoRequest
<1>3. queue' \in Seq(Chain)  BY <1>1
<1>4. Types'  BY <1>1, <1>2, <1>3 DEF IInv, Types
<1>5. DeviceOK' /\ ReadingOK' /\ MissedOK'
  BY <1>1 DEF IInv, DeviceOK, ReadingOK, MissedOK
<1>6. RequestOK'  BY <1>1 DEF RequestOK, NoRequest
<1>7. FetchedOK'  BY <1>1 DEF FetchedOK, Distinct, ToSet
<1> QED  BY <1>4, <1>5, <1>6, <1>7 DEF IInv

(* A batch that is answered has one entry for each chain it asked.         *)
LEMMA EntriesAre ==
    ASSUME BatchPullAssumption, IInv, request.open, request.items = <<>>,
           NEW E, E = ToSet(request.entries), NEW H, H = ToSet(SubSeq(queue, 1, Take))
    PROVE  /\ E \subseteq Answers
           /\ \A e \in E : e.chain \in H /\ e.status # "missed" /\ AnswerOK(e)
           /\ \A e, f \in E : e.chain = f.chain => e = f
           /\ \A c \in H : \E e \in E : e.chain = c
<1>1. PICK t, n : t = request.entries /\ n = Take  OBVIOUS
<1>2. t \in Seq(Answers) /\ E = {t[i] : i \in 1..Len(t)}
  <2>1. t \in Seq(Answers) /\ E = ToSet(t)  BY <1>1 DEF IInv, Types
  <2> QED  BY <2>1, ToSetIs
<1>3. PICK h : h = SubSeq(queue, 1, Take)  OBVIOUS
<1>4. h \in Seq(Chain) /\ Len(h) = n /\ n \in 0..Len(queue) /\ \A i \in 1..n : h[i] = queue[i]
  BY <1>1, <1>3, TakeIs DEF IInv, Types
<1>5. H = {h[i] : i \in 1..n}
  <2>1. H = ToSet(h)  BY <1>3
  <2> QED  BY <2>1, <1>4, ToSetIs
<1>6. Len(t) = n
  <2>1. Len(t) + Len(<<>>) = n /\ Len(t) \in Nat  BY <1>1, <1>2 DEF IInv, RequestOK
  <2> QED  BY <2>1
<1>7. \A i \in 1..n : t[i].chain = h[i] /\ t[i].status # "missed" /\ AnswerOK(t[i])
  BY <1>1, <1>4, <1>6 DEF IInv, RequestOK
<1>8. Len(queue) \in Nat /\ n \in Nat  BY <1>4 DEF IInv, Types
<1>9. \A i, j \in 1..n : h[i] = h[j] => i = j
  <2>1. \A i \in 1..n : i \in 1..Len(queue)  BY <1>4, <1>8
  <2> QED  BY <1>4, <2>1 DEF IInv, FetchedOK, Distinct
<1>10. ASSUME NEW e \in E, NEW f \in E, e.chain = f.chain PROVE e = f
  <2>1. PICK i \in 1..n : e = t[i]  BY <1>2, <1>6
  <2>2. PICK j \in 1..n : f = t[j]  BY <1>2, <1>6
  <2> QED  BY <1>7, <1>9, <1>10, <2>1, <2>2
<1>11. ASSUME NEW e \in E
       PROVE  e \in Answers /\ e.chain \in H /\ e.status # "missed" /\ AnswerOK(e)
  <2>1. PICK i \in 1..n : e = t[i]  BY <1>2, <1>6
  <2>2. t[i] \in Answers  BY <1>2, <1>6
  <2> QED  BY <1>5, <1>7, <2>1, <2>2
<1>12. ASSUME NEW c \in H PROVE \E e \in E : e.chain = c
  <2>1. PICK i \in 1..n : c = h[i]  BY <1>5
  <2> QED  BY <1>2, <1>6, <1>7, <2>1
<1> QED  BY <1>10, <1>11, <1>12

(* The queue after an answer: the deferred chains, then those not asked.   *)
LEMMA NextQueue ==
    ASSUME BatchPullAssumption, IInv, NEW S \in SUBSET Chain,
           NEW H, H = ToSet(SubSeq(queue, 1, Take)), NEW D, D = Keep(SubSeq(queue, 1, Take), S)
    PROVE  /\ D \o Rest \in Seq(Chain) /\ Distinct(D \o Rest)
           /\ ToSet(D \o Rest) = (ToSet(queue) \ H) \cup (H \cap S)
           /\ H \subseteq ToSet(queue)
<1>1. PICK h, r, n : h = SubSeq(queue, 1, Take) /\ r = Rest /\ n = Take  OBVIOUS
<1>2. queue \in Seq(Chain) /\ Len(queue) \in Nat /\ Distinct(queue)  BY DEF IInv, Types, FetchedOK
<1>3. /\ h \in Seq(Chain) /\ Len(h) = n /\ n \in 0..Len(queue)
      /\ \A i \in 1..n : h[i] = queue[i]
      /\ r \in Seq(Chain) /\ Len(r) = Len(queue) - n
      /\ \A i \in 1..(Len(queue) - n) : r[i] = queue[n + i]
  BY <1>1, <1>2, TakeIs
<1>4. /\ ToSet(queue) = {queue[i] : i \in 1..Len(queue)} /\ H = {h[i] : i \in 1..Len(h)}
      /\ ToSet(r) = {r[i] : i \in 1..Len(r)}
  <2>1. H = ToSet(h)  BY <1>1
  <2> QED  BY <2>1, <1>2, <1>3, ToSetIs
<1>5. \A i \in 1..n : i \in 1..Len(queue)  BY <1>2, <1>3
<1>6. \A i \in 1..(Len(queue) - n) : n + i \in 1..Len(queue)  BY <1>2, <1>3
<1>7. Distinct(h)
  <2> SUFFICES ASSUME NEW i \in 1..n, NEW j \in 1..n, h[i] = h[j] PROVE i = j
    BY <1>3 DEF Distinct
  <2> QED  BY <1>2, <1>3, <1>5 DEF Distinct
<1>8. Distinct(r)
  <2> SUFFICES ASSUME NEW i \in 1..Len(r), NEW j \in 1..Len(r), r[i] = r[j] PROVE i = j
    BY DEF Distinct
  <2>1. n + i \in 1..Len(queue) /\ n + j \in 1..Len(queue) /\ queue[n + i] = queue[n + j]
    BY <1>3, <1>6
  <2>2. n + i = n + j  BY <1>2, <2>1 DEF Distinct
  <2> QED  BY <2>2, <1>2, <1>3
<1>9. H \subseteq ToSet(queue)  BY <1>3, <1>4, <1>5
<1>10. ToSet(r) = ToSet(queue) \ H
  <2>1. ASSUME NEW x \in ToSet(r) PROVE x \in ToSet(queue) \ H
    <3>1. PICK i \in 1..(Len(queue) - n) : x = queue[n + i]  BY <1>3, <1>4
    <3>2. n + i \in 1..Len(queue)  BY <1>6
    <3>3. x \in ToSet(queue)  BY <1>4, <3>1, <3>2
    <3>4. ASSUME x \in H PROVE FALSE
      <4>1. PICK j \in 1..n : x = queue[j]  BY <1>3, <1>4, <3>4
      <4>2. j = n + i  BY <1>2, <1>5, <3>1, <3>2, <4>1 DEF Distinct
      <4>3. j <= n /\ i >= 1 /\ n \in Nat /\ i \in Int  BY <1>2, <1>3
      <4> QED  BY <4>2, <4>3
    <3> QED  BY <3>3, <3>4
  <2>2. ASSUME NEW x \in ToSet(queue) \ H PROVE x \in ToSet(r)
    <3>1. PICK i \in 1..Len(queue) : x = queue[i]  BY <1>4
    <3>2. i \notin 1..n  BY <1>3, <1>4, <3>1
    <3>3. PICK j : j = i - n  OBVIOUS
    <3>4. j \in 1..(Len(queue) - n) /\ n + j = i  BY <1>2, <1>3, <3>2, <3>3
    <3>5. r[j] = queue[i]  BY <1>3, <3>4
    <3> QED  BY <1>3, <1>4, <3>1, <3>4, <3>5
  <2> QED  BY <2>1, <2>2
<1>11. D \in Seq(Chain) /\ Distinct(D) /\ ToSet(D) = H \cap S
  <2>1. D = Keep(h, S) /\ H = ToSet(h)  BY <1>1
  <2> QED  BY <2>1, <1>3, <1>7, KeepIs
<1>12. ToSet(D) \cap ToSet(r) = {}  BY <1>10, <1>11
<1>13. D \o r \in Seq(Chain) /\ Distinct(D \o r) /\ ToSet(D \o r) = ToSet(D) \cup ToSet(r)
  BY <1>3, <1>8, <1>11, <1>12, ConcatIs
<1> QED  BY <1>1, <1>9, <1>10, <1>11, <1>13

(* An answered batch: each chain of it is fetched, missed or asked again.  *)
LEMMA ReceiveOK ==
    ASSUME BatchPullAssumption, IInv, Receive PROVE IInv'
<1>1. UNCHANGED <<latest, cursor, held, missing, mode, batchFailed, failures, reading>>
  BY DEF Receive, device
<1>2. /\ mode = "batch" /\ request.open /\ request.items = <<>> /\ reading = NoRead
      /\ request' = NoRequest /\ batchOk' = TRUE
  BY DEF Receive, AtRelay
<1>3. PICK E, H, Q : /\ E = ToSet(request.entries) /\ H = ToSet(SubSeq(queue, 1, Take))
                     /\ Q = ToSet(queue)
  OBVIOUS
<1>4. /\ E \subseteq Answers
      /\ \A e \in E : e.chain \in H /\ e.status # "missed" /\ AnswerOK(e)
      /\ \A e, f \in E : e.chain = f.chain => e = f
      /\ \A c \in H : \E e \in E : e.chain = c
  BY <1>2, <1>3, EntriesAre
<1>5. PICK S : S = {e.chain : e \in With("deferred")}  OBVIOUS
<1>6. \A s : With(s) = {e \in E : e.status = s}  BY <1>3 DEF With
<1>7. S = {e.chain : e \in {d \in E : d.status = "deferred"}}  BY <1>5, <1>6
<1>8. S \subseteq Chain  BY <1>4, <1>7 DEF Answers
<1>9. PICK N : N = Deferred \o Rest  OBVIOUS
<1>10. /\ N \in Seq(Chain) /\ Distinct(N) /\ ToSet(N) = (Q \ H) \cup (H \cap S)
       /\ H \subseteq Q /\ Q \subseteq Chain
  <2>1. Deferred = Keep(SubSeq(queue, 1, Take), S)  BY <1>5 DEF Deferred
  <2>2. Q \subseteq Chain  BY <1>3, ToSetIs DEF IInv, Types
  <2> QED  BY <1>3, <1>8, <1>9, <2>1, <2>2, NextQueue
<1>11. queue # <<>>  BY <1>2 DEF IInv, RequestOK
<1>12. ~limited /\ ~batchFailed /\ \A f \in fetched : f.status # "missed"
  BY <1>2, <1>11 DEF IInv, MissedOK
<1>13. PICK R : R = {e.chain : e \in With("rate_limited")}  OBVIOUS
<1>14. limited' = (R # {}) /\ R = {e.chain : e \in {d \in E : d.status = "rate_limited"}}
  BY <1>6, <1>12, <1>13 DEF Receive
<1>15. PICK M : M = R \cup IF limited' THEN ToSet(N) ELSE {}  OBVIOUS
<1>16. PICK K : K = {e \in E : e.status \in {"ok", "not_found"}}  OBVIOUS
<1>17. fetched' = (fetched \cup K) \cup Missed(M) /\ queue' = IF limited' THEN <<>> ELSE N
  <2>1. With("ok") \cup With("not_found") = K  BY <1>6, <1>16
  <2> QED  BY <1>9, <1>13, <1>15, <2>1 DEF Receive
<1>18. \A e \in E : e.status \in {"ok", "not_found", "rate_limited", "deferred"}
  BY <1>4 DEF Answers
<1>19. M \subseteq Chain /\ (~limited' => M = {})
  <2>1. \A e \in E : e.chain \in Chain  BY <1>4 DEF Answers
  <2>2. R \subseteq Chain  BY <2>1, <1>14
  <2>3. ToSet(N) \subseteq Chain  BY <1>10
  <2> QED  BY <2>2, <2>3, <1>14, <1>15
<1>20. \A m \in Missed(M) : m \in Answers /\ m.chain \in M /\ m.status = "missed" /\ AnswerOK(m)'
                            /\ m = Entry(m.chain, "missed")
  <2> SUFFICES ASSUME NEW c \in M
               PROVE  LET m == Entry(c, "missed") IN
                      /\ m \in Answers /\ m.chain = c /\ m.status = "missed" /\ AnswerOK(m)'
    BY DEF Missed
  <2>1. c \in Chain  BY <1>19
  <2> QED  BY <2>1, EntryIs
<1>21. ASSUME NEW c \in M PROVE \E m \in Missed(M) : m.chain = c
  <2>1. PICK m : m = Entry(c, "missed")  OBVIOUS
  <2>2. m \in Missed(M) /\ m.chain = c  BY <2>1 DEF Missed, Entry
  <2> QED  BY <2>2
<1>22. /\ fetched \subseteq Answers
       /\ \A f \in fetched : f.status \in {"ok", "not_found", "missed"} /\ f.chain \notin Q
       /\ \A f, g \in fetched : f.chain = g.chain => f = g
       /\ {f.chain : f \in fetched} \cup Q = Chain \ missing
  BY <1>2, <1>3 DEF IInv, Types, FetchedOK
<1>23. \A k \in K : k.chain \in H /\ k.chain \notin M /\ k.chain \notin ToSet(N)
  <2>1. \A k \in K : k.chain \in H /\ k.chain \notin R /\ k.chain \notin S
    BY <1>4, <1>7, <1>14, <1>16
  <2> QED  BY <2>1, <1>10, <1>15
<1>24. \A c \in M : c \in Q  BY <1>4, <1>10, <1>14, <1>15
<1>25. Types'
  <2>1. request' \in [items : Seq(Chain), entries : Seq(Answers), spent : Nat, open : BOOLEAN]
    BY <1>2 DEF NoRequest
  <2>2. queue' \in Seq(Chain)  BY <1>10, <1>17
  <2>3. fetched' \subseteq Answers  BY <1>4, <1>16, <1>17, <1>20, <1>22
  <2>4. limited' \in BOOLEAN  BY <1>14
  <2> QED  BY <1>1, <1>2, <2>1, <2>2, <2>3, <2>4 DEF IInv, Types
<1>26. FetchedOK'
  <2>1. ToSet(<<>>) = {} /\ Distinct(<<>>)  BY DEF ToSet, Distinct
  <2>2. Distinct(queue') /\ ToSet(queue') = IF limited' THEN {} ELSE ToSet(N)
    BY <2>1, <1>10, <1>17
  <2>3. \A f \in fetched' : f.status \in {"ok", "not_found", "missed"} /\ AnswerOK(f)'
    <3>1. \A f \in fetched : AnswerOK(f)  BY DEF IInv, FetchedOK
    <3>2. \A f \in fetched \cup K : AnswerOK(f)'  BY <3>1, <1>1, <1>4, <1>16 DEF AnswerOK
    <3> QED  BY <3>2, <1>16, <1>17, <1>20, <1>22
  <2>4. ASSUME NEW f \in fetched', NEW g \in fetched', f.chain = g.chain PROVE f = g
    <3>1. \A k \in fetched' : \/ k \in fetched /\ k.chain \notin Q
                              \/ k \in K /\ k.chain \in Q /\ k.chain \notin M
                              \/ k = Entry(k.chain, "missed") /\ k.chain \in M /\ k.chain \in Q
      BY <1>10, <1>17, <1>20, <1>22, <1>23, <1>24
    <3> QED  BY <3>1, <2>4, <1>4, <1>16, <1>22
  <2>5. \A f \in fetched' : f.chain \notin ToSet(queue')
    <3>1. \A f \in Missed(M) : limited'  BY <1>19, <1>20
    <3>2. \A f \in fetched : f.chain \notin ToSet(N)  BY <1>10, <1>22
    <3> QED  BY <3>1, <3>2, <2>2, <1>17, <1>23
  <2>6. {f.chain : f \in fetched'} \cup ToSet(queue') = Chain \ missing
    <3>1. ASSUME NEW c \in Q PROVE c \in {f.chain : f \in fetched'} \cup ToSet(queue')
      <4>1. CASE c \in M  BY <4>1, <1>17, <1>21
      <4>2. CASE c \in ToSet(N)  BY <4>1, <4>2, <2>2, <1>15
      <4>3. CASE c \notin M /\ c \notin ToSet(N)
        <5>1. c \in H /\ c \notin S  BY <4>3, <1>10
        <5>2. PICK e \in E : e.chain = c  BY <5>1, <1>4
        <5>3. e.status # "deferred" /\ e.status # "rate_limited"
          BY <4>3, <5>1, <5>2, <1>7, <1>14, <1>15
        <5>4. e \in K  BY <5>3, <1>16, <1>18
        <5> QED  BY <5>2, <5>4, <1>17
      <4> QED  BY <4>1, <4>2, <4>3
    <3>2. \A f \in fetched' : f.chain \in {g.chain : g \in fetched} \cup Q
      BY <1>10, <1>17, <1>20, <1>23, <1>24
    <3>3. ToSet(queue') \subseteq Q  BY <2>2, <1>10
    <3>4. \A f \in fetched : f \in fetched'  BY <1>17
    <3>5. {f.chain : f \in fetched'} \cup ToSet(queue') = {f.chain : f \in fetched} \cup Q
      BY <3>1, <3>2, <3>3, <3>4
    <3> QED  BY <3>5, <1>22
  <2>7. mode' = "batch" /\ missing' = missing  BY <1>1, <1>2
  <2> QED  BY <2>2, <2>3, <2>4, <2>5, <2>6, <2>7 DEF FetchedOK
<1>27. DeviceOK' /\ ReadingOK'  BY <1>1, <1>2 DEF IInv, DeviceOK, ReadingOK
<1>28. RequestOK'  BY <1>2 DEF RequestOK, NoRequest
<1>29. MissedOK'
  <2>1. \A f \in fetched' : f.status = "missed" => limited'
    BY <1>12, <1>16, <1>17, <1>19, <1>20
  <2>2. queue' # <<>> => ~limited'  BY <1>17
  <2> QED  BY <2>1, <2>2, <1>1, <1>2, <1>12 DEF MissedOK
<1> QED  BY <1>25, <1>26, <1>27, <1>28, <1>29 DEF IInv

(* A pull of one chain up to its await.                                    *)
LEMMA ReadSingleOK ==
    ASSUME BatchPullAssumption, IInv, ReadSingle PROVE IInv'
<1>1. UNCHANGED <<latest, cursor, held, missing, queue, mode, fetched, limited, batchOk,
                  batchFailed,
                  failures, request, limits>>
  BY DEF ReadSingle, device, flags
<1>2. /\ mode = "single" /\ queue # <<>>
      /\ reading' = [chain |-> queue[1], records |-> latest[queue[1]]]
  BY DEF ReadSingle
<1>3. queue[1] \in Chain  BY <1>2 DEF IInv, Types
<1>4. Types' /\ DeviceOK' /\ MissedOK'  BY <1>1 DEF IInv, Types, DeviceOK, MissedOK
<1>5. FetchedOK' /\ RequestOK'  BY <1>1, <1>2, FetchedStands, RequestStands DEF IInv, Types
<1>6. ReadingOK'  BY <1>1, <1>2, <1>3 DEF ReadingOK
<1> QED  BY <1>4, <1>5, <1>6 DEF IInv

(* The first chain of the queue is settled by an entry.                    *)
LEMMA Settle ==
    ASSUME BatchPullAssumption, IInv, mode = "single", queue # <<>>,
           NEW e \in Answers, e.chain = queue[1], e.status \in {"ok", "not_found", "missed"},
           AnswerOK(e), fetched' = fetched \cup {e}, queue' = Tail(queue), reading' = NoRead,
           UNCHANGED <<latest, cursor, held, missing, mode, batchOk, batchFailed, failures,
                       request>>,
           limited' \in BOOLEAN, limited => limited',
           e.status = "missed" => limited' \/ e.chain \in Broken
    PROVE  IInv'
<1>1. queue \in Seq(Chain) /\ Distinct(queue)  BY DEF IInv, Types, FetchedOK
<1>2. PICK c, q, Q : c = queue[1] /\ q = Tail(queue) /\ Q = ToSet(queue)  OBVIOUS
<1>3. c \in Q /\ q \in Seq(Chain) /\ Distinct(q) /\ ToSet(q) = Q \ {c}
  BY <1>1, <1>2, TailIs
<1>4. /\ fetched \subseteq Answers
      /\ \A f \in fetched : f.status \in {"ok", "not_found", "missed"} /\ f.chain \notin Q
      /\ \A f, g \in fetched : f.chain = g.chain => f = g
      /\ {f.chain : f \in fetched} \cup Q = Chain \ missing
  BY <1>2 DEF IInv, Types, FetchedOK
<1>5. queue' = q /\ e.chain = c  BY <1>2
<1>6. Types'  BY <1>3, <1>4, <1>5 DEF IInv, Types
<1>7. DeviceOK' /\ ReadingOK'  BY DEF IInv, DeviceOK, ReadingOK
<1>8. RequestOK'
  <2>1. request = NoRequest  BY DEF IInv, RequestOK
  <2> QED  BY <2>1 DEF RequestOK, NoRequest
<1>9. FetchedOK'
  <2>1. \A f \in fetched' : f.status \in {"ok", "not_found", "missed"} /\ AnswerOK(f)'
    <3>1. \A f \in fetched' : AnswerOK(f)  BY DEF IInv, FetchedOK
    <3> QED  BY <3>1, <1>4 DEF AnswerOK
  <2>2. ASSUME NEW f \in fetched', NEW g \in fetched', f.chain = g.chain PROVE f = g
    BY <2>2, <1>3, <1>4, <1>5
  <2>3. \A f \in fetched' : f.chain \notin Q \ {c}  BY <1>4, <1>5
  <2>4. {f.chain : f \in fetched'} \cup (Q \ {c}) = Chain \ missing
    <3>1. {f.chain : f \in fetched'} = {f.chain : f \in fetched} \cup {c}  BY <1>5
    <3> QED  BY <3>1, <1>3, <1>4
  <2> QED  BY <2>1, <2>2, <2>3, <2>4, <1>3, <1>5 DEF FetchedOK
<1>10. MissedOK'
  <2>1. \A f \in fetched : f.status = "missed" => limited \/ f.chain \in Broken
    BY DEF IInv, MissedOK
  <2> QED  BY <2>1 DEF MissedOK
<1> QED  BY <1>6, <1>7, <1>8, <1>9, <1>10 DEF IInv

(* A pull of one chain after its await.                                    *)
LEMMA AnswerSingleOK ==
    ASSUME BatchPullAssumption, IInv, AnswerSingle PROVE IInv'
<1>1. UNCHANGED <<latest, cursor, held, missing, mode, limited, batchOk, batchFailed, failures,
                  request>>
      /\ reading' = NoRead /\ mode = "single" /\ queue' = Tail(queue)
  BY DEF AnswerSingle, device, flags
<1>2. /\ \E c \in Chain : reading = [chain |-> c, records |-> latest[c]]
      /\ queue # <<>> /\ reading.chain = queue[1]
  BY DEF AnswerSingle, IInv, ReadingOK
<1>3. PICK c : c = queue[1]  OBVIOUS
<1>4. c \in Chain /\ reading.records = latest[c]  BY <1>2, <1>3
<1>5. latest[c] \in 0..MaxSeq /\ cursor[c] <= latest[c]  BY <1>4 DEF IInv, Types, DeviceOK
<1>6. PICK e : e = Ok(c, reading.records, latest[c])  OBVIOUS
<1>7. /\ e \in Answers /\ e.chain = c /\ e.status = "ok" /\ e.records = latest[c]
      /\ e.latest = latest[c]
  BY <1>4, <1>5, <1>6 DEF Ok, Answers
<1>8. AnswerOK(e)  BY <1>5, <1>7 DEF AnswerOK, BatchPullAssumption
<1>9. fetched' = fetched \cup {e} /\ limited' \in BOOLEAN
  BY <1>1, <1>3, <1>6 DEF AnswerSingle, IInv, Types
<1> QED  BY <1>1, <1>2, <1>3, <1>7, <1>8, <1>9, Settle

(* A chain that fails, is gone or is not asked any more.                   *)
LEMMA MissSingleOK ==
    ASSUME BatchPullAssumption, IInv, MissSingle PROVE IInv'
<1>1. /\ UNCHANGED <<latest, cursor, held, missing, mode, batchOk, batchFailed, failures,
                     request>>
      /\ reading' = NoRead /\ mode = "single" /\ queue # <<>> /\ queue' = Tail(queue)
  BY DEF MissSingle, device, flags
<1>2. limited \in BOOLEAN /\ queue[1] \in Chain  BY <1>1 DEF IInv, Types
<1>3. Missed({queue[1]}) = {Entry(queue[1], "missed")}  BY DEF Missed
<1>4. \E s \in {"missed", "not_found"} :
          /\ fetched' = fetched \cup {Entry(queue[1], s)}
          /\ limited' \in BOOLEAN /\ (limited => limited')
          /\ s = "missed" => limited' \/ queue[1] \in Broken
  BY <1>2, <1>3 DEF MissSingle
<1>5. PICK s \in {"missed", "not_found"} :
          /\ fetched' = fetched \cup {Entry(queue[1], s)}
          /\ limited' \in BOOLEAN /\ (limited => limited')
          /\ s = "missed" => limited' \/ queue[1] \in Broken
  BY <1>4
<1>6. PICK e : e = Entry(queue[1], s)  OBVIOUS
<1>7. e \in Answers /\ e.chain = queue[1] /\ e.status = s /\ AnswerOK(e)
  BY <1>2, <1>6, EntryIs
<1> QED  BY <1>1, <1>5, <1>6, <1>7, Settle

(* The end of a round: the rows of an entry follow those the device has.   *)
LEMMA FinishOK ==
    ASSUME BatchPullAssumption, IInv, Finish PROVE IInv'
<1>1. /\ UNCHANGED <<latest, queue, request, reading>>
      /\ mode' = "idle" /\ fetched' = {}
      /\ limited' = FALSE /\ batchOk' = FALSE /\ batchFailed' = FALSE
  BY DEF Finish
<1>2. mode # "idle" /\ queue = <<>> /\ ~request.open /\ reading = NoRead  BY DEF Finish, RoundOver
<1>3. MaxSeq \in Nat /\ latest \in [Chain -> 0..MaxSeq] /\ cursor \in [Chain -> 0..MaxSeq]
      /\ fetched \subseteq Answers
  BY DEF IInv, Types, BatchPullAssumption
<1>4. ASSUME NEW c \in Chain
      PROVE  \/ Got(c) = {}
             \/ \E f \in fetched : /\ Got(c) = {f} /\ f.chain = c /\ f.records = f.latest
                                   /\ f.latest \in 0..MaxSeq /\ cursor[c] <= f.latest
                                   /\ f.latest <= latest[c]
  <2> SUFFICES ASSUME Got(c) # {}
               PROVE  \E f \in fetched : /\ Got(c) = {f} /\ f.chain = c /\ f.records = f.latest
                                         /\ f.latest \in 0..MaxSeq /\ cursor[c] <= f.latest
                                         /\ f.latest <= latest[c]
    OBVIOUS
  <2>1. PICK f : f \in Got(c)  OBVIOUS
  <2>2. f \in fetched /\ f.chain = c /\ f.status = "ok" /\ AnswerOK(f)
    BY <2>1 DEF Got, IInv, FetchedOK
  <2>3. Got(c) = {f}  BY <2>1, <2>2 DEF Got, IInv, FetchedOK
  <2>4. f \in Answers  BY <2>2, <1>3
  <2>5. f.latest \in 0..MaxSeq  BY <2>4 DEF Answers
  <2> QED  BY <2>2, <2>3, <2>5 DEF AnswerOK
<1>5. /\ cursor' = [c \in Chain |-> IF Got(c) = {} THEN cursor[c]
                                    ELSE (CHOOSE f \in Got(c) : TRUE).latest]
      /\ held' = [c \in Chain |-> held[c] \cup UNION {(cursor[c] + 1)..f.records : f \in Got(c)}]
  BY DEF Finish
<1>6. ASSUME NEW c \in Chain
      PROVE  cursor'[c] \in 0..MaxSeq /\ cursor'[c] <= latest[c] /\ held'[c] = 1..cursor'[c]
  <2>1. cursor[c] \in 0..MaxSeq /\ latest[c] \in 0..MaxSeq  BY <1>3
  <2>2. cursor[c] <= latest[c] /\ held[c] = 1..cursor[c]  BY DEF IInv, DeviceOK
  <2>3. CASE Got(c) = {}
    <3>1. cursor'[c] = cursor[c]  BY <2>3, <1>5
    <3>2. held'[c] = held[c]  BY <2>3, <1>5
    <3> QED  BY <2>1, <2>2, <3>1, <3>2
  <2>4. CASE Got(c) # {}
    <3>1. PICK f \in fetched : /\ Got(c) = {f} /\ f.chain = c /\ f.records = f.latest
                               /\ f.latest \in 0..MaxSeq /\ cursor[c] <= f.latest
                               /\ f.latest <= latest[c]
      BY <1>4, <2>4
    <3>2. PICK n : n = f.latest  OBVIOUS
    <3>3. cursor'[c] = n
      <4>1. (CHOOSE g \in Got(c) : TRUE) = f  BY <3>1
      <4> QED  BY <4>1, <1>5, <2>4, <3>2
    <3>4. held'[c] = (1..cursor[c]) \cup ((cursor[c] + 1)..n)
      <4>1. {(cursor[c] + 1)..g.records : g \in Got(c)} = {(cursor[c] + 1)..n}  BY <3>1, <3>2
      <4>2. UNION {(cursor[c] + 1)..n} = (cursor[c] + 1)..n  OBVIOUS
      <4> QED  BY <4>1, <4>2, <1>5, <2>2
    <3>5. (1..cursor[c]) \cup ((cursor[c] + 1)..n) = 1..n
      <4>1. cursor[c] \in Nat /\ n \in Nat /\ cursor[c] <= n  BY <1>3, <2>1, <3>1, <3>2
      <4> QED  BY <4>1
    <3> QED  BY <3>1, <3>2, <3>3, <3>4, <3>5
  <2> QED  BY <2>3, <2>4
<1>7. cursor' \in [Chain -> 0..MaxSeq] /\ DOMAIN held' = Chain  BY <1>5, <1>6
<1>8. held' = [c \in Chain |-> 1..cursor'[c]]
  <2>1. held' = [c \in Chain |-> held'[c]]  BY <1>5
  <2> QED  BY <2>1, <1>6
<1>9. DeviceOK'  BY <1>1, <1>6, <1>8 DEF DeviceOK
<1>10. Types'
  <2>1. failures' \in 0..2  BY DEF Finish, IInv, Types
  <2>2. missing' \subseteq Chain
    <3>1. \A f \in fetched : f.chain \in Chain  BY <1>3 DEF Answers
    <3> QED  BY <3>1 DEF Finish, IInv, Types
  <2> QED  BY <1>1, <1>7, <2>1, <2>2 DEF IInv, Types
<1>11. FetchedOK'  BY <1>1, <1>2 DEF IInv, FetchedOK
<1>12. RequestOK'  BY <1>1, <1>2 DEF IInv, RequestOK
<1>13. ReadingOK' /\ MissedOK'  BY <1>1, <1>2 DEF ReadingOK, MissedOK
<1> QED  BY <1>9, <1>10, <1>11, <1>12, <1>13 DEF IInv

(* Every step.                                                             *)
LEMMA NextOK ==
    ASSUME BatchPullAssumption, IInv, [Next]_vars PROVE IInv'
<1>1. CASE UNCHANGED vars
  <2>1. UNCHANGED <<latest, cursor, held, missing, queue, mode, fetched, limited, batchOk,
                    batchFailed,
                    failures, request, reading>>
    BY <1>1 DEF vars, device, flags
  <2>2. Types' /\ DeviceOK' /\ ReadingOK' /\ MissedOK'
    BY <2>1 DEF IInv, Types, DeviceOK, ReadingOK, MissedOK
  <2>3. FetchedOK' /\ RequestOK'
    BY <2>1 DEF IInv, FetchedOK, RequestOK, AnswerOK, Take
  <2> QED  BY <2>2, <2>3 DEF IInv
<1>2. CASE Round
  BY <1>2, StartOK, SendBatchOK, ReadItemOK, AnswerItemOK, AnswerEmptyOK, ReceiveOK, FailBatchOK,
     ReadSingleOK, AnswerSingleOK, MissSingleOK, FinishOK DEF Round
<1>3. CASE Next /\ ~Round
  BY <1>3, AnswerEmptyOK, LimitBatchOK, UnsupportedOK, AbortRoundOK, PushOK DEF Next
<1> QED  BY <1>1, <1>2, <1>3

-----------------------------------------------------------------------------
(* The results.                                                            *)

(* The invariant holds of every reachable state.                           *)
THEOREM Invariance == Spec => []IInv
<1>1. Init => IInv  BY InitOK, RowsAssumption
<1>2. IInv /\ [Next]_vars => IInv'  BY NextOK, RowsAssumption
<1> QED  BY <1>1, <1>2, PTL DEF Spec

(* A cursor never passes a row that the device was not given, although     *)
(* pull() reads latest_seq after an await, a batch may fail half way and   *)
(* chains are deferred to later requests.                                  *)
THEOREM NoneSkipped == Spec => []NoRowSkipped
<1>1. IInv => NoRowSkipped  BY DEF IInv, DeviceOK, NoRowSkipped
<1> QED  BY <1>1, Invariance, PTL

(* What the invariant says of the end of a round.                          *)
LEMMA RoundEnds == ASSUME BatchPullAssumption, IInv PROVE TypeOK /\ RoundIsComplete
<1>1. TypeOK
  <2>1. queue \in Seq(Chain) /\ Distinct(queue)  BY DEF IInv, Types, FetchedOK
  <2>2. ToSet(queue) \subseteq Chain /\ Len(queue) = Cardinality(ToSet(queue))
    BY <2>1, ToSetIs, DistinctIs
  <2>3. {f.chain : f \in fetched} \cap ToSet(queue) = {}  BY DEF IInv, FetchedOK
  <2>4. ASSUME reading.chain # "none" PROVE reading.records <= latest[reading.chain]
    <3>1. PICK c \in Chain : reading = [chain |-> c, records |-> latest[c]]
      BY <2>4 DEF IInv, ReadingOK, NoRead
    <3>2. latest[c] \in Nat  BY DEF IInv, Types, BatchPullAssumption
    <3> QED  BY <3>1, <3>2
  <2> QED  BY <2>2, <2>3, <2>4 DEF IInv, Types, TypeOK
<1>2. ASSUME RoundOver
      PROVE  /\ {f.chain : f \in fetched} = Chain \ missing
             /\ Cardinality(fetched) = Cardinality(Chain \ missing)
  <2>1. PICK C : C = Chain \ missing  OBVIOUS
  <2>2. {f.chain : f \in fetched} = C
    <3>1. ToSet(<<>>) = {}  BY DEF ToSet
    <3> QED  BY <1>2, <2>1, <3>1 DEF RoundOver, IInv, FetchedOK
  <2>3. \A f, g \in fetched : f.chain = g.chain => f = g  BY DEF IInv, FetchedOK
  <2>4. PICK b : b = [f \in fetched |-> f.chain]  OBVIOUS
  <2>5. b \in Bijection(fetched, C)
    <3>1. b \in [fetched -> C]  BY <2>2, <2>4
    <3>2. \A f, g \in fetched : b[f] = b[g] => f = g  BY <2>3, <2>4
    <3>3. \A c \in C : \E f \in fetched : b[f] = c  BY <2>2, <2>4
    <3>4. b \in Injection(fetched, C)  BY <3>1, <3>2 DEF Injection, IsInjective
    <3>5. b \in Surjection(fetched, C)  BY <3>1, <3>3 DEF Surjection
    <3> QED  BY <3>4, <3>5 DEF Bijection
  <2>6. IsFiniteSet(C)  BY <2>1, FS_Subset DEF BatchPullAssumption
  <2>7. ExistsBijection(fetched, C)  BY <2>5 DEF ExistsBijection
  <2>8. ExistsBijection(C, fetched)  BY <2>7, Fun_ExistsBijSymmetric
  <2>9. Cardinality(fetched) = Cardinality(C)  BY <2>6, <2>8, FS_Bijection
  <2> QED  BY <2>1, <2>2, <2>9
<1>3. \A f \in fetched : f.status = "missed" =>
          limited \/ IF mode = "single" THEN f.chain \in Broken ELSE batchFailed
  BY DEF IInv, MissedOK
<1> QED  BY <1>1, <1>2, <1>3 DEF RoundIsComplete

(* No step after a 429 asks the relay for something.                       *)
LEMMA QuietStep ==
    ASSUME BatchPullAssumption, IInv, [Next]_vars, limited, mode # "idle"
    PROVE  /\ ~(request'.open /\ ~request.open)
           /\ ~(mode = "single" /\ reading' # NoRead /\ reading = NoRead)
<1>1. ~SendBatch
  BY DEF SendBatch, IInv, MissedOK
<1>2. ~ReadSingle  BY DEF ReadSingle
<1>3. ReadItem => mode = "batch"  BY DEF ReadItem, Executed, AtRelay
<1>4. ASSUME NEW e, Answered(e) PROVE request'.open = request.open
  BY <1>4 DEF Answered, IInv, Types
<1>5. request'.open => request.open
  <2>1. \/ request' = request \/ request' = NoRequest \/ AnswerItem \/ AnswerGone \/ DeferItem
        \/ LimitItem
    BY <1>1 DEF Next, Round, vars, Start, ReadItem, Receive, FailBatch, ReadSingle, AnswerSingle,
       MissSingle, Finish, LimitBatch, Unsupported, AbortRound, Push
  <2>2. AnswerItem \/ AnswerGone \/ DeferItem \/ LimitItem => \E e : Answered(e)
    BY DEF AnswerItem, AnswerGone, DeferItem, LimitItem
  <2>3. ~NoRequest.open  BY DEF NoRequest
  <2> QED  BY <2>1, <2>2, <2>3, <1>4
<1>6. mode = "single" /\ reading' # NoRead => reading # NoRead
  BY <1>1, <1>2, <1>3 DEF Next, Round, vars, Start, AnswerItem, AnswerGone, DeferItem, Receive,
     FailBatch, AnswerSingle, MissSingle, Finish, LimitItem, LimitBatch, Unsupported, AbortRound,
     Push
<1> QED  BY <1>5, <1>6

(* When pull_all() ends each chain it was given has one entry, a chain is  *)
(* missed only after a 429 or a failed request, no chain is asked twice,   *)
(* and after a 429 nothing more is asked.                                  *)
THEOREM Accounted == Spec => RoundsAccount
<1>1. IInv => TypeOK /\ RoundIsComplete  BY RoundEnds, RowsAssumption
<1>2. IInv /\ [Next]_vars =>
          [limited /\ mode # "idle" =>
              /\ ~(request'.open /\ ~request.open)
              /\ ~(mode = "single" /\ reading' # NoRead /\ reading = NoRead)]_vars
  BY QuietStep, RowsAssumption
<1> QED  BY <1>1, <1>2, Invariance, PTL DEF Spec, QuietAfterLimit, RoundsAccount

-----------------------------------------------------------------------------
(* The limiter.                                                            *)

HourRecorded ==
    \A b \in Limiter!Bucket :
        /\ granted[b] <= Limit[b]
        /\ Limiter!HourOver(b) => Limiter!IsOver(windows[b])
        /\ ~Limiter!HourOver(b) => /\ windows[b].start = opened[b]
                                   /\ granted[b] <= windows[b].count

LimiterInv == Limiter!TypeOK /\ Limiter!AlarmAtLastWindow /\ HourRecorded /\ now >= Window

Costs == [Limiter!Bucket -> Nat]

(* What the router charges a request with: a number of units per bucket. *)
LEMMA RequestsAreCosts ==
    /\ Limiter!OtherRequest \in Costs
    /\ Limiter!CreateRequest \in Costs
    /\ \A n \in 1..MaxPull : Limiter!PullRequest(n) \in Costs
  BY LimiterAssumption DEF Limiter!LimiterAssumption, Limiter!OtherRequest,
     Limiter!CreateRequest, Limiter!PullRequest, Costs, Limiter!Bucket

(* The initial record satisfies the invariant. *)
LEMMA LimiterInit == Limiter!Init => LimiterInv
  BY LimiterAssumption
  DEF Limiter!LimiterAssumption, Limiter!Init, LimiterInv, Limiter!TypeOK,
      Limiter!AlarmAtLastWindow, HourRecorded, Limiter!Expired, Limiter!HourOver, Limiter!IsOver

(* allowMany() preserves the invariant, whatever is charged. *)
LEMMA AllowManyStep ==
    ASSUME LimiterInv, NEW charges \in Costs, Limiter!AllowMany(charges),
           Limiter!Charged(charges) # {}
    PROVE  LimiterInv'
  <1> USE LimiterAssumption DEF Limiter!LimiterAssumption
  <1>1. \A b \in Limiter!Bucket : /\ windows'[b] \in [start : Nat, count : Nat]
                                  /\ windows'[b].start \in {windows[b].start, now}
                                  /\ windows'[b].start <= now
    BY DEF LimiterInv, Limiter!TypeOK, Limiter!AllowMany, Limiter!WindowsAfter, Limiter!Charge,
       Limiter!Charged, Costs
  <1>2. Limiter!TypeOK'
    BY <1>1 DEF LimiterInv, Limiter!TypeOK, Limiter!AllowMany, Limiter!WindowsAfter,
       Limiter!AlarmAfter, Costs
  <1>3. Limiter!AlarmAtLastWindow'
    <2>1. CASE Limiter!Started(charges)
      <3>1. PICK b \in Limiter!Charged(charges) : Limiter!IsOver(windows[b])
        BY <2>1 DEF Limiter!Started
      <3>2. windows'[b].start = now /\ b \in Limiter!Bucket
        BY <3>1 DEF LimiterInv, Limiter!TypeOK, Limiter!AllowMany, Limiter!WindowsAfter,
           Limiter!Charge, Limiter!Charged, Costs
      <3>3. alarm' = now + Window
        BY <2>1 DEF Limiter!AllowMany, Limiter!AlarmAfter
      <3> QED BY <3>2, <3>3, <1>1 DEF LimiterInv, Limiter!TypeOK, Limiter!AlarmAtLastWindow
    <2>2. CASE ~Limiter!Started(charges)
      <3>1. \A b \in Limiter!Bucket : windows'[b].start = windows[b].start
        BY <2>2 DEF LimiterInv, Limiter!TypeOK, Limiter!Started, Limiter!AllowMany,
           Limiter!WindowsAfter, Limiter!Charge, Limiter!Charged, Costs
      <3>2. alarm' = alarm
        BY <2>2 DEF Limiter!AllowMany, Limiter!AlarmAfter
      <3>3. ~(\A b \in Limiter!Bucket : Limiter!IsOver(windows[b]))
        BY <2>2 DEF Limiter!Started, Limiter!Charged
      <3>4. CASE alarm = 0
        <4>1. \A b \in Limiter!Bucket : windows[b].start = 0
          BY <3>4 DEF LimiterInv, Limiter!TypeOK, Limiter!AlarmAtLastWindow, Limiter!Expired
        <4> QED
          BY <4>1, <3>3 DEF LimiterInv, Limiter!TypeOK, Limiter!IsOver
      <3>5. CASE alarm # 0
        BY <3>1, <3>2, <3>5 DEF LimiterInv, Limiter!AlarmAtLastWindow
      <3> QED BY <3>4, <3>5
    <2> QED BY <2>1, <2>2
  <1>4. HourRecorded'
    <2> SUFFICES ASSUME NEW b \in Limiter!Bucket
                 PROVE  /\ granted'[b] <= Limit[b]
                        /\ Limiter!HourOver(b)' => Limiter!IsOver(windows[b])'
                        /\ ~Limiter!HourOver(b)' => /\ windows'[b].start = opened'[b]
                                                    /\ granted'[b] <= windows'[b].count
      BY DEF HourRecorded
    <2>1. charges[b] \in Nat
      BY DEF Costs
    <2>2. CASE b \notin Limiter!Charged(charges)
      <3>1. windows'[b] = windows[b] /\ opened'[b] = opened[b] /\ granted'[b] = granted[b]
            /\ now' = now
        BY <2>2 DEF LimiterInv, Limiter!TypeOK, Limiter!AllowMany, Limiter!WindowsAfter
      <3> QED BY <3>1 DEF LimiterInv, HourRecorded, Limiter!HourOver, Limiter!IsOver
    <2>3. CASE b \in Limiter!Charged(charges) /\ Limiter!HourOver(b)
      <3>1. Limiter!IsOver(windows[b])
        BY <2>3 DEF LimiterInv, HourRecorded
      <3>2. /\ windows'[b] = Limiter!Charge(b, windows[b], charges[b])
            /\ opened'[b] = now /\ now' = now
        BY <2>3 DEF Limiter!AllowMany, Limiter!WindowsAfter
      <3>3. windows'[b].start = now
            /\ windows'[b].count = IF charges[b] > Limit[b] THEN Limit[b] + 1 ELSE charges[b]
        BY <2>1, <3>1, <3>2 DEF Limiter!Charge
      <3>4. granted'[b] = IF Limiter!Allowed(charges) THEN charges[b] ELSE 0
        BY <2>1, <2>3 DEF Limiter!AllowMany
      <3>5. Limiter!Allowed(charges) => windows'[b].count <= Limit[b]
        BY <2>3 DEF Limiter!Allowed, Limiter!AllowMany
      <3> QED
        BY <2>1, <3>2, <3>3, <3>4, <3>5 DEF LimiterInv, Limiter!TypeOK, Limiter!HourOver
    <2>4. CASE b \in Limiter!Charged(charges) /\ ~Limiter!HourOver(b)
      <3> DEFINE n == windows[b].count + charges[b]
      <3>1. windows[b].start = opened[b] /\ granted[b] <= windows[b].count
            /\ granted[b] <= Limit[b]
        BY <2>4 DEF LimiterInv, HourRecorded
      <3>2. windows'[b] = Limiter!Charge(b, windows[b], charges[b]) /\ opened'[b] = opened[b]
            /\ now' = now
        BY <2>4 DEF LimiterInv, Limiter!TypeOK, Limiter!AllowMany, Limiter!WindowsAfter
      <3>3. windows'[b].start = opened[b]
            /\ windows'[b].count = IF n > Limit[b] THEN Limit[b] + 1 ELSE n
        BY <2>1, <2>4, <3>1, <3>2 DEF LimiterInv, Limiter!TypeOK, Limiter!Charge, Limiter!IsOver,
           Limiter!HourOver
      <3>4. granted'[b] = granted[b] + IF Limiter!Allowed(charges) THEN charges[b] ELSE 0
        BY <2>1, <2>4 DEF Limiter!AllowMany
      <3>5. Limiter!Allowed(charges) => windows'[b].count <= Limit[b]
        BY <2>4 DEF Limiter!Allowed, Limiter!AllowMany
      <3> QED
        BY <2>1, <2>4, <3>1, <3>2, <3>3, <3>4, <3>5 DEF LimiterInv, Limiter!TypeOK,
           Limiter!HourOver
    <2> QED BY <2>2, <2>3, <2>4
  <1>5. (now >= Window)'
    BY DEF LimiterInv, Limiter!AllowMany
  <1> QED BY <1>2, <1>3, <1>4, <1>5 DEF LimiterInv

(* Every kind of request charges something. *)
LEMMA RequestsCharge ==
    /\ Limiter!Charged(Limiter!OtherRequest) # {}
    /\ Limiter!Charged(Limiter!CreateRequest) # {}
    /\ \A n \in 1..MaxPull : Limiter!Charged(Limiter!PullRequest(n)) # {}
  <1> "request" \in Limiter!Bucket
    BY DEF Limiter!Bucket
  <1> QED BY DEF Limiter!Charged, Limiter!OtherRequest, Limiter!CreateRequest, Limiter!PullRequest

(* Every step of the limiter preserves the invariant. *)
LEMMA LimiterNext == LimiterInv /\ [Limiter!Next]_(Limiter!vars) => LimiterInv'
  <1> SUFFICES ASSUME LimiterInv, [Limiter!Next]_(Limiter!vars) PROVE LimiterInv'
    OBVIOUS
  <1> USE LimiterAssumption DEF Limiter!LimiterAssumption
  <1>1. ASSUME NEW charges \in {Limiter!OtherRequest, Limiter!CreateRequest},
               Limiter!AllowMany(charges)
        PROVE  LimiterInv'
    BY <1>1, RequestsAreCosts, RequestsCharge, AllowManyStep
  <1>2. ASSUME NEW n \in 1..MaxPull, Limiter!AllowMany(Limiter!PullRequest(n)) PROVE LimiterInv'
    BY <1>2, RequestsAreCosts, RequestsCharge, AllowManyStep
  <1>3. CASE Limiter!Alarm
    <2>1. \A b \in Limiter!Bucket : Limiter!IsOver(windows[b]) /\ Limiter!HourOver(b)
      BY <1>3 DEF LimiterInv, Limiter!TypeOK, Limiter!AlarmAtLastWindow, HourRecorded,
         Limiter!HourOver, Limiter!IsOver, Limiter!Alarm, Limiter!Expired
    <2>2. \A b \in Limiter!Bucket : windows'[b] = Limiter!Expired
      BY <1>3 DEF Limiter!Alarm
    <2>3. Limiter!TypeOK'
      BY <1>3, <2>2 DEF Limiter!Alarm, LimiterInv, Limiter!TypeOK, Limiter!Expired
    <2>4. Limiter!AlarmAtLastWindow'
      BY <1>3, <2>2 DEF Limiter!Alarm, Limiter!AlarmAtLastWindow
    <2>5. HourRecorded' /\ (now >= Window)'
      BY <1>3, <2>1, <2>2 DEF Limiter!Alarm, LimiterInv, Limiter!TypeOK, HourRecorded,
         Limiter!HourOver, Limiter!IsOver, Limiter!Expired
    <2> QED BY <2>3, <2>4, <2>5 DEF LimiterInv
  <1>4. CASE Limiter!Tick
    BY <1>4 DEF Limiter!Tick, LimiterInv, Limiter!TypeOK, Limiter!AlarmAtLastWindow,
       HourRecorded, Limiter!HourOver, Limiter!IsOver
  <1>5. CASE UNCHANGED Limiter!vars
    BY <1>5 DEF Limiter!vars, LimiterInv, Limiter!TypeOK, Limiter!AlarmAtLastWindow,
       HourRecorded, Limiter!HourOver, Limiter!IsOver
  <1> QED BY <1>1, <1>2, <1>3, <1>4, <1>5 DEF Limiter!Next

(* The invariant holds of every reachable state. *)
THEOREM LimiterInvariance == Limiter!Spec => []LimiterInv
  BY LimiterInit, LimiterNext, PTL DEF Limiter!Spec

(* The stored record, the alarm and the clock keep their types, and no     *)
(* window starts in the future.                                            *)
THEOREM LimiterTypes == Limiter!Spec => []Limiter!TypeOK
  <1>1. LimiterInv => Limiter!TypeOK
    BY DEF LimiterInv
  <1> QED BY <1>1, LimiterInvariance, PTL

(* allowMany() never grants an address more than its limit in an hour,     *)
(* whatever the limits, the window and the sizes of the batches.           *)
THEOREM LimitsAreKept == Limiter!Spec => []LimitHolds
  <1>1. LimiterInv => LimitHolds
    BY DEF LimiterInv, HourRecorded, LimitHolds, Limiter!LimitHolds
  <1> QED BY <1>1, LimiterInvariance, PTL

(* The alarm is always one window after the latest start.                  *)
THEOREM AlarmFollowsLastWindow == Limiter!Spec => []Limiter!AlarmAtLastWindow
  <1>1. LimiterInv => Limiter!AlarmAtLastWindow
    BY DEF LimiterInv
  <1> QED BY <1>1, LimiterInvariance, PTL

(* alarm() erases no window that is still running.                         *)
THEOREM AlarmErasesNothingRunning == Limiter!Spec => NoRunningWindowErased
  <1>1. LimiterInv /\ [Limiter!Next]_(Limiter!vars) =>
           [\A b \in Limiter!Bucket :
               windows'[b] = Limiter!Expired /\ windows[b] # Limiter!Expired
                   => Limiter!IsOver(windows[b])]_(Limiter!vars)
    <2> SUFFICES ASSUME LimiterInv, Limiter!Next, NEW b \in Limiter!Bucket,
                        windows'[b] = Limiter!Expired, windows[b] # Limiter!Expired
                 PROVE  Limiter!IsOver(windows[b])
      BY DEF Limiter!vars
    <2> USE LimiterAssumption DEF Limiter!LimiterAssumption
    <2>1. ASSUME NEW charges \in Costs, Limiter!AllowMany(charges)
          PROVE  Limiter!IsOver(windows[b])
      <3>1. CASE b \notin Limiter!Charged(charges)
        BY <2>1, <3>1 DEF Limiter!AllowMany, Limiter!WindowsAfter
      <3>2. CASE b \in Limiter!Charged(charges)
        <4>1. windows'[b] = Limiter!Charge(b, windows[b], charges[b]) /\ charges[b] \in Nat \ {0}
          BY <2>1, <3>2 DEF Limiter!AllowMany, Limiter!WindowsAfter, Limiter!Charged, Costs
        <4>2. SUFFICES ASSUME ~Limiter!IsOver(windows[b]) PROVE FALSE
          OBVIOUS
        <4> DEFINE n == windows[b].count + charges[b]
        <4>3. windows'[b].count = IF n > Limit[b] THEN Limit[b] + 1 ELSE n
          BY <4>1, <4>2 DEF Limiter!Charge, LimiterInv, Limiter!TypeOK
        <4> QED BY <4>1, <4>3 DEF LimiterInv, Limiter!TypeOK, Limiter!Expired
      <3> QED BY <3>1, <3>2
    <2>2. CASE Limiter!Alarm
      BY <2>2 DEF Limiter!Alarm, LimiterInv, Limiter!TypeOK, Limiter!AlarmAtLastWindow,
         Limiter!IsOver
    <2>3. CASE Limiter!Tick
      BY <2>3 DEF Limiter!Tick
    <2> QED BY <2>1, <2>2, <2>3, RequestsAreCosts DEF Limiter!Next
  <1> QED
    BY <1>1, LimiterInvariance, PTL
    DEF Limiter!Spec, NoRunningWindowErased, Limiter!NoRunningWindowErased
=============================================================================
