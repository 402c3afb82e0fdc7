--------------------------- MODULE RecordSyncProofs ---------------------------
(***************************************************************************)
(* Proofs about RecordSync, for every set of devices and records and every *)
(* bound.                                                                  *)
(*                                                                         *)
(* The relay accepts a row when the sender has seen the one it replaces: a *)
(* comparison of sequence numbers that knows nothing of last-writer-wins.  *)
(* The argument is that everywhere a revision is kept together with a      *)
(* sequence number (a row in memory or on disk, an outgoing row, a push on *)
(* the network) the pair is Sound: while the relay's row is not newer than *)
(* the number, it does not beat the revision.  Then an accepted push never *)
(* goes back (PushGrows), so the chain only Grows, and everything that was *)
(* coherent with it stays so (SectionGrows, PulledGrows, SentGrows).  The  *)
(* steps of a device are shown to keep its own part: an edit (AdvanceOK),  *)
(* a pull (PullOK), a merge (MergeOK), receipts (ReceiptOK, AcceptedOK).   *)
(* A crash needs one more fact: memory and disk hold the same revisions    *)
(* (MemDisk), since everything but receipts is saved before it counts.     *)
(*                                                                         *)
(* Two results come after it: a header names one revision, since a device  *)
(* holds the newest of its own (OwnNewest) and stamps the next one past it *)
(* (HeadersUnambiguous); and the relay that these devices talk to stays    *)
(* within ChainService (RelayWithinService), as ChainStore does.           *)
(***************************************************************************)
EXTENDS RecordSync, FiniteSetTheorems, TLAPS

(* The numbers push() gives: above the old latest, up to the new one, and  *)
(* all different.                                                          *)
LEMMA SeqOfFacts ==
    ASSUME NEW latest \in Nat, NEW acc \in SUBSET Key
    PROVE  /\ Cardinality(acc) \in Nat
           /\ \A k \in acc : /\ SeqOf(latest, acc, k) \in Nat
                             /\ SeqOf(latest, acc, k) > latest
                             /\ SeqOf(latest, acc, k) <= latest + Cardinality(acc)
           /\ \A j, k \in acc : j # k => SeqOf(latest, acc, j) # SeqOf(latest, acc, k)
  <1> DEFINE Upto(k) == {j \in acc : j <= k}
  <1>1. IsFiniteSet(acc)
    BY KeyAssumption, FS_Subset
  <1>2. Cardinality(acc) \in Nat
    BY <1>1, FS_CardinalityType
  <1>3. ASSUME NEW k \in acc
        PROVE  /\ IsFiniteSet(Upto(k)) /\ Cardinality(Upto(k)) \in Nat
               /\ Cardinality(Upto(k)) > 0 /\ Cardinality(Upto(k)) <= Cardinality(acc)
    <2>1. Upto(k) \in SUBSET acc /\ k \in Upto(k)
      BY KeyAssumption
    <2> HIDE DEF Upto
    <2>2. IsFiniteSet(Upto(k)) /\ Cardinality(Upto(k)) <= Cardinality(acc)
      BY <1>1, <2>1, FS_Subset
    <2>3. Cardinality(Upto(k)) \in Nat
      BY <2>2, FS_CardinalityType
    <2>4. Cardinality(Upto(k)) # 0
      BY <2>1, <2>2, FS_EmptySet
    <2> QED BY <2>2, <2>3, <2>4
  <1>4. ASSUME NEW j \in acc, NEW k \in acc, j < k
        PROVE  Cardinality(Upto(j)) # Cardinality(Upto(k))
    <2>1. Upto(j) \in SUBSET Upto(k) /\ k \in Upto(k) /\ k \notin Upto(j)
      <3>1. acc \subseteq Nat /\ j \in Nat /\ k \in Nat
        BY KeyAssumption
      <3>2. \A i \in acc : i <= j => i <= k
        BY <1>4, <3>1
      <3>3. k <= k /\ ~(k <= j)
        BY <1>4, <3>1
      <3> QED BY <3>2, <3>3
    <2>2. IsFiniteSet(Upto(k))
      BY <1>3
    <2> HIDE DEF Upto
    <2> QED BY <2>1, <2>2, FS_Subset
  <1>5. ASSUME NEW j \in acc, NEW k \in acc, j # k
        PROVE  Cardinality(Upto(j)) # Cardinality(Upto(k))
    <2>1. j < k \/ k < j
      BY <1>5, KeyAssumption
    <2> HIDE DEF Upto
    <2> QED BY <1>4, <2>1
  <1>6. \A k \in acc : SeqOf(latest, acc, k) = latest + Cardinality(Upto(k))
    BY DEF SeqOf
  <1> HIDE DEF Upto
  <1> QED BY <1>2, <1>3, <1>5, <1>6

(* And none is left out: they are exactly the next ones after latest. *)
LEMMA NumbersConsecutive ==
    ASSUME NEW latest \in Nat, NEW acc \in SUBSET Key
    PROVE  {SeqOf(latest, acc, k) : k \in acc} = (latest + 1)..(latest + Cardinality(acc))
  <1> DEFINE n == Cardinality(acc)
             f == [k \in acc |-> SeqOf(latest, acc, k)]
             T == (latest + 1)..(latest + n)
  <1>1. n \in Nat /\ f \in [acc -> T] /\ \A j, k \in acc : f[j] = f[k] => j = k
    BY SeqOfFacts
  <1>2. f \in Injection(acc, T)
    BY <1>1 DEF Injection, IsInjective
  <1>3. IsFiniteSet(T) /\ Cardinality(T) = n
    <2>1. latest + 1 \in Int /\ latest + n \in Int
      BY <1>1
    <2> HIDE DEF n
    <2>2. /\ IsFiniteSet(T)
          /\ Cardinality(T) = IF latest + 1 > latest + n THEN 0 ELSE (latest + n) - (latest + 1) + 1
      BY <2>1, FS_Interval
    <2> QED BY <1>1, <2>2
  <1>4. f \in Surjection(acc, T)
    <2> HIDE DEF f, T
    <2> QED BY <1>2, <1>3, FS_Injection DEF n
  <1>5. \A t \in T : \E k \in acc : f[k] = t
    <2> HIDE DEF f, T
    <2> QED BY <1>4 DEF Surjection
  <1>6. \A k \in acc : f[k] = SeqOf(latest, acc, k)
    OBVIOUS
  <1> QED BY <1>1, <1>5, <1>6

(* The values of a local row, a stored row and an outgoing item. *)
Row == [rev : Rev, seq : Nat, dirty : BOOLEAN]

Stored == [seq : Nat, body : Rev]

Item == [base : Nat, body : Rev]

-----------------------------------------------------------------------------
(* The fields of a revision. *)
LEMMA RevFields ==
    ASSUME NEW r \in Rev
    PROVE  r.ts \in Nat /\ r.del \in BOOLEAN /\ r.dev \in Nat /\ (r.ts = 0 => r = NoRev)
  <1>1. CASE r = NoRev
    BY <1>1 DEF NoRev
  <1>2. CASE r \in [ts : Nat \ {0}, del : BOOLEAN, dev : Device, id : Nat]
    BY <1>2, DeviceAssumption
  <1> QED BY <1>1, <1>2 DEF Rev

(* Last-writer-wins is a strict order in which incomparability is          *)
(* transitive.                                                             *)
LEMMA BeatsIrreflexive == \A r \in Rev : ~Beats(r, r)
  BY RevFields DEF Beats

(* Not to be beaten is transitive. *)
LEMMA BeatsOrder ==
    \A a, b, c \in Rev : ~Beats(a, b) /\ ~Beats(b, c) => ~Beats(a, c)
  BY RevFields DEF Beats

(* Of two revisions at most one beats the other. *)
LEMMA BeatsAsymmetric == \A a, b \in Rev : Beats(a, b) => ~Beats(b, a)
  BY RevFields DEF Beats

(* An absent record loses to every other. *)
LEMMA NoRevLoses == NoRev \in Rev /\ \A r \in Rev : ~Beats(NoRev, r)
  <1>1. NoRev \in Rev
    BY DEF Rev
  <1>2. ASSUME NEW r \in Rev PROVE ~Beats(NoRev, r)
    <2>1. CASE r = NoRev
      BY <1>1, <2>1, BeatsIrreflexive
    <2>2. CASE r.ts > 0
      <3>1. NoRev.ts = 0
        BY DEF NoRev
      <3> QED BY <1>1, <2>2, <3>1, RevFields DEF Beats
    <2> QED BY <2>1, <2>2, RevFields
  <1> QED BY <1>1, <1>2

(* An edit is later than the revision it replaces. *)
LEMMA NewRevBeats ==
    ASSUME NEW d \in Device, NEW prev \in Rev, NEW now \in Nat, NEW del \in BOOLEAN,
           edits \in Nat
    PROVE  /\ NewRev(d, prev, now, del) \in Rev
           /\ ~Beats(prev, NewRev(d, prev, now, del))
  <1> DEFINE new == NewRev(d, prev, now, del)
  <1>1. Stamp(prev, now) \in Nat \ {0} /\ Stamp(prev, now) > prev.ts
    BY RevFields DEF Stamp
  <1>2. new \in [ts : Nat \ {0}, del : BOOLEAN, dev : Device, id : Nat]
    BY <1>1 DEF NewRev
  <1>3. new \in Rev
    BY <1>2 DEF Rev
  <1>4. new.ts > prev.ts
    BY <1>1 DEF NewRev
  <1>5. ~Beats(prev, new)
    BY <1>3, <1>4, RevFields DEF Beats
  <1> QED BY <1>3, <1>5

(* Merging one row never goes back, and the merged row has the pulled      *)
(* revision or one that beats or equals it.                                *)
LEMMA MergeRowFacts ==
    ASSUME NEW local \in Row, NEW remote \in Stored
    PROVE  LET m == MergeRow(local, remote)
           IN  /\ m \in Row
               /\ ~Beats(local.rev, m.rev)
               /\ Present(remote) => ~Beats(remote.body, m.rev)
               /\ ~Present(remote) => m = local
               /\ \/ m.rev = local.rev /\ m.dirty = local.dirty
                  \/ m.rev = remote.body /\ m.seq = remote.seq /\ Present(remote)
               /\ m.seq \in {local.seq, remote.seq}
               /\ m.seq >= local.seq \/ m.rev = remote.body
  <1> DEFINE m == MergeRow(local, remote)
  <1>1. CASE ~Present(remote)
    BY <1>1, BeatsIrreflexive DEF MergeRow, Row
  <1>2. CASE Present(remote) /\ TakeRemote(local, remote.body)
    <2>1. m = [rev |-> remote.body, seq |-> remote.seq, dirty |-> FALSE]
      BY <1>2 DEF MergeRow
    <2>2. ~Beats(local.rev, remote.body)
      BY <1>2, NoRevLoses, BeatsAsymmetric DEF TakeRemote, Row, Stored
    <2> QED BY <1>2, <2>1, <2>2, BeatsIrreflexive DEF Row, Stored
  <1>3. CASE Present(remote) /\ ~TakeRemote(local, remote.body)
    <2>1. m = [local EXCEPT !.seq = IF local.seq >= remote.seq THEN local.seq
                                    ELSE remote.seq]
      BY <1>3 DEF MergeRow
    <2>2. /\ m \in Row /\ m.rev = local.rev /\ m.dirty = local.dirty
          /\ m.seq \in {local.seq, remote.seq} /\ m.seq >= local.seq
      BY <2>1 DEF Row, Stored
    <2> QED BY <1>3, <2>2, BeatsIrreflexive DEF TakeRemote, Row
  <1> QED BY <1>1, <1>2, <1>3

(* A section after edits or lost pins: rows only move forward, and keep    *)
(* their sequence numbers.                                                 *)
LEMMA UnpinFacts ==
    ASSUME NEW d \in Device, NEW rows \in [Key -> Row], NEW hosts \in SUBSET Host,
           NEW now \in Nat,
           edits \in Nat
    PROVE  /\ Unpin(d, rows, hosts, now) \in [Key -> Row]
           /\ \A k \in Key : LET new == Unpin(d, rows, hosts, now)[k]
                             IN  /\ new.seq = rows[k].seq
                                 /\ ~Beats(rows[k].rev, new.rev)
                                 /\ new = rows[k] \/ new.dirty
  <1> DEFINE un == Unpin(d, rows, hosts, now)
  <1> SUFFICES ASSUME NEW k \in Key
               PROVE  /\ un[k] \in Row /\ un[k].seq = rows[k].seq
                      /\ ~Beats(rows[k].rev, un[k].rev)
                      /\ un[k] = rows[k] \/ un[k].dirty
    BY DEF Unpin
  <1>1. CASE k \in hosts
    <2> DEFINE new == NewRev(d, rows[k].rev, now, FALSE)
    <2>1. rows[k].rev \in Rev
      BY DEF Row
    <2>2. new \in Rev /\ ~Beats(rows[k].rev, new)
      BY <2>1, NewRevBeats
    <2>3. un[k] = [rows[k] EXCEPT !.rev = new, !.dirty = TRUE]
      BY <1>1 DEF Unpin
    <2> HIDE DEF new
    <2> QED BY <2>2, <2>3 DEF Row
  <1>2. CASE k \notin hosts
    <2>1. un[k] = rows[k]
      BY <1>2 DEF Unpin
    <2> HIDE DEF un
    <2> QED BY <2>1, BeatsIrreflexive DEF Row
  <1> QED BY <1>1, <1>2

(* Receipts change no revision; a row they clean has the revision sent and *)
(* the number received.                                                    *)
LEMMA ReceiptFacts ==
    ASSUME NEW section \in Section, NEW items \in [Key -> Item],
           NEW acc \in [Key -> Nat]
    PROVE  LET next == ApplyReceipts(section, items, acc)
           IN  /\ next \in Section
               /\ next.cursor = section.cursor /\ next.baseline = section.baseline
               /\ \A k \in Key :
                     /\ next.rows[k].rev = section.rows[k].rev
                     /\ \/ next.rows[k] = section.rows[k]
                        \/ /\ acc[k] > 0 /\ section.rows[k].rev = items[k].body
                           /\ next.rows[k].seq = acc[k]
  <1> DEFINE next == ApplyReceipts(section, items, acc)
  <1> DEFINE Cleaned(k) == /\ acc[k] > 0 /\ acc[k] >= items[k].base
                           /\ section.rows[k].dirty
                           /\ section.rows[k].rev = items[k].body
                           /\ section.rows[k].seq <= acc[k]
  <1>1. next = [section EXCEPT !.rows =
                   [k \in Key |-> IF Cleaned(k)
                                  THEN [section.rows[k] EXCEPT !.seq = acc[k], !.dirty = FALSE]
                                  ELSE section.rows[k]]]
    BY DEF ApplyReceipts
  <1>2. /\ next.rows = [k \in Key |-> IF Cleaned(k)
                                  THEN [section.rows[k] EXCEPT !.seq = acc[k], !.dirty = FALSE]
                                  ELSE section.rows[k]]
        /\ next.cursor = section.cursor /\ next.baseline = section.baseline
    BY <1>1 DEF Section
  <1>3. ASSUME NEW k \in Key
        PROVE  /\ next.rows[k] \in Row
               /\ next.rows[k].rev = section.rows[k].rev
               /\ \/ next.rows[k] = section.rows[k]
                  \/ /\ acc[k] > 0 /\ section.rows[k].rev = items[k].body
                     /\ next.rows[k].seq = acc[k]
    <2>1. section.rows[k] \in Row /\ acc[k] \in Nat
      BY DEF Section, Row
    <2>2. CASE Cleaned(k)
      <3>1. next.rows[k] = [section.rows[k] EXCEPT !.seq = acc[k], !.dirty = FALSE]
        BY <1>2, <2>2
      <3> HIDE DEF next
      <3> QED BY <2>1, <2>2, <3>1 DEF Row
    <2>3. CASE ~Cleaned(k)
      <3>1. next.rows[k] = section.rows[k]
        BY <1>2, <2>3
      <3> HIDE DEF next
      <3> QED BY <2>1, <3>1
    <2> QED BY <2>2, <2>3
  <1>4. next \in Section
    <2>1. next.rows \in [Key -> Row]
      BY <1>2, <1>3
    <2> QED BY <1>1, <1>2, <2>1 DEF Section, Row
  <1> QED BY <1>2, <1>3, <1>4

(* A merge of well-typed sections is well-typed. *)
LEMMA MergeSpaceFacts ==
    ASSUME NEW section \in Section,
           NEW answer \in [since : Nat, latest : Nat, rows : [Key -> Stored]]
    PROVE  LET next == MergeSpace(section, answer)
           IN  /\ next \in Section
               /\ next.cursor = answer.latest /\ next.baseline
               /\ \A k \in Key : next.rows[k] = MergeRow(section.rows[k], answer.rows[k])
  <1> DEFINE next == MergeSpace(section, answer)
  <1>1. \A k \in Key : MergeRow(section.rows[k], answer.rows[k]) \in Row
    BY MergeRowFacts DEF Section, Row, Stored
  <1>2. /\ next.cursor = answer.latest /\ next.baseline = TRUE
        /\ next.rows = [k \in Key |-> MergeRow(section.rows[k], answer.rows[k])]
    BY DEF MergeSpace, Section
  <1>3. next \in Section
    BY <1>1, <1>2 DEF MergeSpace, Section, Row
  <1> QED BY <1>2, <1>3

-----------------------------------------------------------------------------
(* The values of the chain and of a pull's answer. *)
Chain == [latest : Nat, rows : [Key -> Stored], frozen : BOOLEAN, gone : BOOLEAN,
          lost : BOOLEAN]

Answer == [since : Nat, latest : Nat, rows : [Key -> Stored]]

(* Rows are numbered up to latest, all differently. *)
ChainOK(c) ==
    \A k \in Key : /\ c.rows[k].seq <= c.latest
                   /\ c.rows[k].seq = 0 => c.rows[k].body = NoRev
                   /\ \A j \in Key \ {k} :
                         Present(c.rows[k]) => c.rows[j].seq # c.rows[k].seq

(* A device may hold revision rev with number base: as long as the relay's *)
(* row is not newer than base, it does not beat rev.  This is what makes   *)
(* the relay's comparison of numbers agree with last-writer-wins.          *)
Sound(c, k, base, rev) ==
    /\ base <= c.latest
    /\ c.rows[k].seq <= base => ~Beats(c.rows[k].body, rev)

(* A section is coherent with the chain: its rows are sound, its clean     *)
(* rows are stored, and its cursor has passed nothing it lacks.            *)
SectionOK(c, section) ==
    /\ section.cursor <= c.latest
    /\ \A k \in Key :
          /\ Sound(c, k, section.rows[k].seq, section.rows[k].rev)
          /\ ~section.rows[k].dirty => ~Beats(section.rows[k].rev, c.rows[k].body)
          /\ section.baseline /\ c.rows[k].seq <= section.cursor =>
                ~Beats(c.rows[k].body, section.rows[k].rev)

(* The answer of a pull, until it is merged: whatever it lacks was known   *)
(* before the pull or has changed since.                                   *)
PulledOK(c, section, answer) ==
    /\ answer.latest <= c.latest
    /\ section.cursor <= answer.latest
    /\ answer.since = IF section.baseline THEN section.cursor ELSE 0
    /\ \A k \in Key :
          /\ section.rows[k].seq <= answer.latest
          /\ Present(answer.rows[k]) =>
                /\ answer.since < answer.rows[k].seq
                /\ answer.rows[k].seq <= answer.latest
                /\ ~Beats(answer.rows[k].body, c.rows[k].body)
                /\ \A j \in Key \ {k} : answer.rows[j].seq # answer.rows[k].seq
          /\ c.rows[k].seq <= answer.latest =>
                \/ answer.rows[k] = c.rows[k]
                \/ ~Present(answer.rows[k]) /\ c.rows[k].seq <= answer.since

(* The outgoing rows are sound, and a receipt is for a row the relay took. *)
SentOK(c, items, acc) ==
    \A k \in Key :
        /\ Sound(c, k, items[k].base, items[k].body)
        /\ acc[k] > 0 => /\ Sound(c, k, acc[k], items[k].body)
                         /\ ~Beats(items[k].body, c.rows[k].body)

(* What the chain may do while others look away. *)
Grows(c, e) ==
    /\ c.latest <= e.latest
    /\ \A k \in Key : \/ e.rows[k] = c.rows[k]
                      \/ /\ e.rows[k].seq > c.latest
                         /\ ~Beats(c.rows[k].body, e.rows[k].body)

(* A section stays coherent when the chain grows. *)
LEMMA SectionGrows ==
    ASSUME NEW c \in Chain, NEW e \in Chain, NEW section \in Section,
           Grows(c, e), SectionOK(c, section)
    PROVE  SectionOK(e, section)
  <1>1. section.cursor <= e.latest
    BY DEF Chain, Section, Grows, SectionOK
  <1>2. ASSUME NEW k \in Key
        PROVE  /\ Sound(e, k, section.rows[k].seq, section.rows[k].rev)
               /\ ~section.rows[k].dirty => ~Beats(section.rows[k].rev, e.rows[k].body)
               /\ section.baseline /\ e.rows[k].seq <= section.cursor =>
                     ~Beats(e.rows[k].body, section.rows[k].rev)
    <2>1. section.rows[k].seq \in Nat /\ section.rows[k].rev \in Rev
      BY DEF Section
    <2>2. c.rows[k].body \in Rev /\ e.rows[k].body \in Rev
          /\ c.rows[k].seq \in Nat /\ e.rows[k].seq \in Nat /\ c.latest \in Nat /\ e.latest \in Nat
      BY DEF Chain, Stored
    <2>3. CASE e.rows[k] = c.rows[k]
      BY <2>1, <2>2, <2>3 DEF SectionOK, Sound, Grows
    <2>4. CASE e.rows[k].seq > c.latest /\ ~Beats(c.rows[k].body, e.rows[k].body)
      BY <2>1, <2>2, <2>4, BeatsOrder DEF SectionOK, Sound, Grows, Section
    <2> QED BY <2>3, <2>4 DEF Grows
  <1> QED BY <1>1, <1>2 DEF SectionOK

(* So does the answer of a pull, *)
LEMMA PulledGrows ==
    ASSUME NEW c \in Chain, NEW e \in Chain, NEW section \in Section, NEW answer \in Answer,
           Grows(c, e), PulledOK(c, section, answer)
    PROVE  PulledOK(e, section, answer)
  <1>1. answer.latest <= e.latest
    BY DEF Chain, Answer, Grows, PulledOK
  <1>2. ASSUME NEW k \in Key
        PROVE  /\ Present(answer.rows[k]) => ~Beats(answer.rows[k].body, e.rows[k].body)
               /\ e.rows[k].seq <= answer.latest =>
                    \/ answer.rows[k] = e.rows[k]
                    \/ ~Present(answer.rows[k]) /\ e.rows[k].seq <= answer.since
    <2>1. answer.rows[k].body \in Rev /\ answer.latest \in Nat
      BY DEF Answer, Stored
    <2>2. c.rows[k].body \in Rev /\ e.rows[k].body \in Rev
          /\ c.rows[k].seq \in Nat /\ e.rows[k].seq \in Nat /\ c.latest \in Nat /\ e.latest \in Nat
      BY DEF Chain, Stored
    <2>3. CASE e.rows[k] = c.rows[k]
      BY <2>1, <2>2, <2>3 DEF PulledOK
    <2>4. CASE e.rows[k].seq > c.latest /\ ~Beats(c.rows[k].body, e.rows[k].body)
      BY <2>1, <2>2, <2>4, BeatsOrder DEF PulledOK
    <2> QED BY <2>3, <2>4 DEF Grows
  <1> QED BY <1>1, <1>2 DEF PulledOK

(* one outgoing row, *)
LEMMA SoundGrows ==
    ASSUME NEW c \in Chain, NEW e \in Chain, NEW k \in Key, NEW base \in Nat, NEW rev \in Rev,
           Grows(c, e), Sound(c, k, base, rev)
    PROVE  Sound(e, k, base, rev)
  BY DEF Chain, Stored, Grows, Sound

(* and the outgoing rows of a round with their receipts. *)
LEMMA SentGrows ==
    ASSUME NEW c \in Chain, NEW e \in Chain, NEW items \in [Key -> Item],
           NEW acc \in [Key -> Nat], Grows(c, e), SentOK(c, items, acc)
    PROVE  SentOK(e, items, acc)
  <1> SUFFICES ASSUME NEW k \in Key
               PROVE  /\ Sound(e, k, items[k].base, items[k].body)
                      /\ acc[k] > 0 => /\ Sound(e, k, acc[k], items[k].body)
                                       /\ ~Beats(items[k].body, e.rows[k].body)
    BY DEF SentOK
  <1>1. items[k].base \in Nat /\ items[k].body \in Rev /\ acc[k] \in Nat
    BY DEF Item
  <1>2. c.rows[k].body \in Rev /\ e.rows[k].body \in Rev
    BY DEF Chain, Stored
  <1>3. Sound(e, k, items[k].base, items[k].body)
    BY <1>1, SoundGrows DEF SentOK
  <1>4. ASSUME acc[k] > 0
        PROVE  Sound(e, k, acc[k], items[k].body) /\ ~Beats(items[k].body, e.rows[k].body)
    <2>1. Sound(c, k, acc[k], items[k].body) /\ ~Beats(items[k].body, c.rows[k].body)
      BY <1>4 DEF SentOK
    <2>2. ~Beats(items[k].body, e.rows[k].body)
      <3>1. CASE e.rows[k] = c.rows[k]
        BY <2>1, <3>1
      <3>2. CASE ~Beats(c.rows[k].body, e.rows[k].body)
        BY <1>1, <1>2, <2>1, <3>2, BeatsOrder
      <3> QED BY <3>1, <3>2 DEF Grows
    <2> QED BY <1>1, <2>1, <2>2, SoundGrows
  <1> QED BY <1>3, <1>4

-----------------------------------------------------------------------------
(* What an edit does: revisions move forward, numbers stay, and changed    *)
(* rows are dirty.                                                         *)
Advances(section, next) ==
    /\ next.cursor = section.cursor /\ next.baseline = section.baseline
    /\ \A k \in Key : /\ next.rows[k].seq = section.rows[k].seq
                      /\ ~Beats(section.rows[k].rev, next.rows[k].rev)
                      /\ next.rows[k] = section.rows[k] \/ next.rows[k].dirty

(* An edit keeps a section coherent with the chain. *)
LEMMA AdvanceOK ==
    ASSUME NEW c \in Chain, NEW section \in Section, NEW next \in Section,
           SectionOK(c, section), Advances(section, next)
    PROVE  SectionOK(c, next)
  <1> SUFFICES ASSUME NEW k \in Key
               PROVE  /\ Sound(c, k, next.rows[k].seq, next.rows[k].rev)
                      /\ ~next.rows[k].dirty => ~Beats(next.rows[k].rev, c.rows[k].body)
                      /\ next.baseline /\ c.rows[k].seq <= next.cursor =>
                            ~Beats(c.rows[k].body, next.rows[k].rev)
    BY DEF SectionOK, Advances
  <1>1. section.rows[k].rev \in Rev /\ next.rows[k].rev \in Rev /\ c.rows[k].body \in Rev
    BY DEF Section, Chain, Stored
  <1>2. /\ Sound(c, k, section.rows[k].seq, section.rows[k].rev)
        /\ ~section.rows[k].dirty => ~Beats(section.rows[k].rev, c.rows[k].body)
        /\ section.baseline /\ c.rows[k].seq <= section.cursor =>
              ~Beats(c.rows[k].body, section.rows[k].rev)
    BY DEF SectionOK
  <1>3. /\ next.cursor = section.cursor /\ next.baseline = section.baseline
        /\ next.rows[k].seq = section.rows[k].seq
        /\ ~Beats(section.rows[k].rev, next.rows[k].rev)
        /\ next.rows[k] = section.rows[k] \/ next.rows[k].dirty
    BY DEF Advances
  <1> QED BY <1>1, <1>2, <1>3, BeatsOrder DEF Sound

(* A merge: the rows merged are sound, and cover the new cursor. *)
LEMMA MergeOK ==
    ASSUME NEW c \in Chain, NEW section \in Section, NEW answer \in Answer,
           ChainOK(c), SectionOK(c, section), PulledOK(c, section, answer)
    PROVE  SectionOK(c, MergeSpace(section, answer))
  <1> DEFINE next == MergeSpace(section, answer)
  <1>1. /\ next \in Section /\ next.cursor = answer.latest /\ next.baseline
        /\ \A k \in Key : next.rows[k] = MergeRow(section.rows[k], answer.rows[k])
    BY MergeSpaceFacts DEF Answer
  <1> HIDE DEF next
  <1>2. next.cursor <= c.latest
    BY <1>1 DEF PulledOK
  <1>3. ASSUME NEW k \in Key
        PROVE  /\ Sound(c, k, next.rows[k].seq, next.rows[k].rev)
               /\ ~next.rows[k].dirty => ~Beats(next.rows[k].rev, c.rows[k].body)
               /\ next.baseline /\ c.rows[k].seq <= next.cursor =>
                     ~Beats(c.rows[k].body, next.rows[k].rev)
    <2> DEFINE local == section.rows[k]
               remote == answer.rows[k]
               m == next.rows[k]
               row == c.rows[k]
    <2>1. local \in Row /\ remote \in Stored /\ row \in Stored
      BY DEF Section, Row, Answer, Chain
    <2>2. /\ m \in Row
          /\ ~Beats(local.rev, m.rev)
          /\ Present(remote) => ~Beats(remote.body, m.rev)
          /\ ~Present(remote) => m = local
          /\ \/ m.rev = local.rev /\ m.dirty = local.dirty
             \/ m.rev = remote.body /\ m.seq = remote.seq /\ Present(remote)
          /\ m.seq \in {local.seq, remote.seq}
      BY <1>1, <2>1, MergeRowFacts
    <2>3. /\ Sound(c, k, local.seq, local.rev)
          /\ ~local.dirty => ~Beats(local.rev, row.body)
          /\ section.baseline /\ row.seq <= section.cursor => ~Beats(row.body, local.rev)
      BY DEF SectionOK
    <2>4. /\ local.seq <= answer.latest
          /\ Present(remote) => /\ answer.since < remote.seq
                                /\ remote.seq <= answer.latest
                                /\ ~Beats(remote.body, row.body)
          /\ row.seq <= answer.latest =>
                remote = row \/ (~Present(remote) /\ row.seq <= answer.since)
          /\ answer.latest <= c.latest
          /\ answer.since = IF section.baseline THEN section.cursor ELSE 0
      BY DEF PulledOK
    <2>5. /\ local.rev \in Rev /\ local.seq \in Nat /\ remote.body \in Rev
          /\ remote.seq \in Nat /\ row.body \in Rev /\ row.seq \in Nat
          /\ m.rev \in Rev /\ m.seq \in Nat /\ answer.latest \in Nat /\ c.latest \in Nat
          /\ answer.since \in Nat
      BY <2>1, <2>2 DEF Row, Stored, Answer, Chain
    <2>6. row.seq = 0 => row.body = NoRev
      BY DEF ChainOK
    <2> HIDE DEF local, remote, m, row
    <2>7. ASSUME row.seq <= answer.latest PROVE ~Beats(row.body, m.rev)
      <3>1. CASE remote = row /\ Present(remote)
        BY <2>2, <3>1
      <3>2. CASE ~Present(remote) /\ row.seq <= answer.since
        <4>1. m.rev = local.rev
          BY <2>2, <3>2
        <4>2. CASE section.baseline
          BY <2>3, <2>4, <3>2, <4>1, <4>2
        <4>3. CASE ~section.baseline
          <5>1. row.body = NoRev
            BY <2>4, <2>5, <2>6, <3>2, <4>3
          <5> QED BY <2>5, <5>1, NoRevLoses
        <4> QED BY <4>2, <4>3
      <3>3. CASE remote = row /\ ~Present(remote)
        <4>1. row.body = NoRev
          BY <2>5, <2>6, <3>3 DEF Present
        <4> QED BY <2>5, <4>1, NoRevLoses
      <3> QED BY <2>4, <2>7, <3>1, <3>2, <3>3
    <2>8. m.seq <= answer.latest
      <3>1. CASE Present(remote)
        BY <2>2, <2>4, <3>1
      <3>2. CASE ~Present(remote)
        BY <2>2, <2>4, <3>2
      <3> QED BY <3>1, <3>2
    <2>9. Sound(c, k, m.seq, m.rev)
      BY <2>4, <2>5, <2>7, <2>8 DEF Sound, row
    <2>10. ~m.dirty => ~Beats(m.rev, row.body)
      BY <2>2, <2>3, <2>4
    <2> QED BY <1>1, <2>7, <2>9, <2>10 DEF m, row
  <1> QED BY <1>2, <1>3 DEF SectionOK, next

(* Receipts: what they clean is on the relay. *)
LEMMA ReceiptOK ==
    ASSUME NEW c \in Chain, NEW section \in Section, NEW items \in [Key -> Item],
           NEW acc \in [Key -> Nat], SectionOK(c, section), SentOK(c, items, acc)
    PROVE  SectionOK(c, ApplyReceipts(section, items, acc))
  <1> DEFINE next == ApplyReceipts(section, items, acc)
  <1>1. /\ next.cursor = section.cursor /\ next.baseline = section.baseline
        /\ \A k \in Key :
              /\ next.rows[k].rev = section.rows[k].rev
              /\ \/ next.rows[k] = section.rows[k]
                 \/ /\ acc[k] > 0 /\ section.rows[k].rev = items[k].body
                    /\ next.rows[k].seq = acc[k]
    BY ReceiptFacts
  <1> HIDE DEF next
  <1> SUFFICES ASSUME NEW k \in Key
               PROVE  /\ Sound(c, k, next.rows[k].seq, next.rows[k].rev)
                      /\ ~next.rows[k].dirty => ~Beats(next.rows[k].rev, c.rows[k].body)
                      /\ next.baseline /\ c.rows[k].seq <= next.cursor =>
                            ~Beats(c.rows[k].body, next.rows[k].rev)
    BY <1>1 DEF SectionOK, next
  <1>2. CASE next.rows[k] = section.rows[k]
    BY <1>1, <1>2 DEF SectionOK
  <1>3. CASE acc[k] > 0 /\ section.rows[k].rev = items[k].body /\ next.rows[k].seq = acc[k]
    BY <1>1, <1>3 DEF SectionOK, SentOK
  <1> QED BY <1>1, <1>2, <1>3

(* The outgoing rows of a coherent section are sound. *)
LEMMA OutgoingOK ==
    ASSUME NEW c \in Chain, NEW section \in Section, SectionOK(c, section)
    PROVE  Outgoing(section) \in [Key -> Item] /\ SentOK(c, Outgoing(section), NoReceipts)
  BY DEF Outgoing, Section, Item, SectionOK, SentOK, NoReceipts

(* A pull of an honest relay. *)
LEMMA PullOK ==
    ASSUME NEW c \in Chain, NEW section \in Section, ChainOK(c), SectionOK(c, section),
           NEW since, since = IF section.baseline THEN section.cursor ELSE 0,
           NEW answer, answer = [since |-> since, latest |-> c.latest,
                                 rows |-> [k \in Key |-> IF k \in NewerThan(c.rows, since)
                                                         THEN c.rows[k] ELSE NoTable[k]]]
    PROVE  answer \in Answer /\ PulledOK(c, section, answer)
  <1>1. since \in Nat /\ since <= c.latest /\ section.cursor \in Nat /\ c.latest \in Nat
    BY DEF Section, SectionOK, Chain
  <1>2. ASSUME NEW k \in Key
        PROVE  /\ answer.rows[k] \in Stored
               /\ \/ answer.rows[k] = c.rows[k] /\ c.rows[k].seq > since
                  \/ ~Present(answer.rows[k]) /\ c.rows[k].seq <= since
    <2>1. CASE k \in NewerThan(c.rows, since)
      BY <1>1, <2>1 DEF NewerThan, Chain
    <2>2. CASE k \notin NewerThan(c.rows, since)
      <3>1. answer.rows[k] = [seq |-> 0, body |-> NoRev] /\ ~(c.rows[k].seq > since)
        BY <2>2 DEF NewerThan, NoTable
      <3> QED BY <1>1, <3>1, NoRevLoses DEF Stored, Present, Chain
    <2> QED BY <2>1, <2>2
  <1>3. answer \in Answer
    BY <1>1, <1>2 DEF Answer
  <1>4. answer.since = since /\ answer.latest = c.latest
    OBVIOUS
  <1>5. ASSUME NEW k \in Key, Present(answer.rows[k])
        PROVE  /\ answer.since < answer.rows[k].seq
               /\ answer.rows[k].seq <= answer.latest
               /\ ~Beats(answer.rows[k].body, c.rows[k].body)
               /\ \A j \in Key \ {k} : answer.rows[j].seq # answer.rows[k].seq
    <2>1. answer.rows[k] = c.rows[k] /\ c.rows[k].seq > since
      BY <1>2, <1>5
    <2>2. \A j \in Key : answer.rows[j] = c.rows[j] \/ answer.rows[j].seq = 0
      BY <1>2 DEF Present, Stored
    <2>3. \A j \in Key \ {k} : answer.rows[j].seq # answer.rows[k].seq
      BY <1>5, <2>1, <2>2 DEF ChainOK, Present
    <2> QED BY <1>1, <1>4, <2>1, <2>3, BeatsIrreflexive DEF ChainOK, Chain, Stored
  <1>6. \A k \in Key : section.rows[k].seq <= c.latest
    BY DEF SectionOK, Sound
  <1> HIDE DEF SectionOK, ChainOK
  <1>7. \A k \in Key : \/ answer.rows[k] = c.rows[k]
                       \/ ~Present(answer.rows[k]) /\ c.rows[k].seq <= answer.since
    BY <1>2, <1>4
  <1>8. section.cursor <= answer.latest
    BY <1>4 DEF SectionOK
  <1> QED BY <1>1, <1>3, <1>4, <1>5, <1>6, <1>7, <1>8 DEF PulledOK

-----------------------------------------------------------------------------
(* What a push does to a chain that is neither frozen nor gone. *)
Pushed(c, e, items, acc) ==
    /\ e \in Chain /\ e.lost = c.lost
    /\ e.latest = c.latest + Cardinality(acc)
    /\ \A k \in acc : /\ e.rows[k].seq = SeqOf(c.latest, acc, k)
                      /\ e.rows[k].body = items[k].body
                      /\ c.rows[k].seq <= items[k].base
    /\ \A k \in Key \ acc : e.rows[k] = c.rows[k]

(* push() on the relay: the accepted items are stored, nothing else changes. *)
LEMMA PushFacts ==
    ASSUME NEW c \in Chain, NEW items, DOMAIN items \subseteq Key,
           \A k \in DOMAIN items : items[k] \in Item,
           NEW e, e = [c EXCEPT !.rows = RowsAfter(c.rows, c.latest, items),
                                !.latest = LatestAfter(c.rows, c.latest, items)]
    PROVE  e \in Chain /\ Pushed(c, e, items, Accepted(c.rows, items))
  <1> DEFINE acc == Accepted(c.rows, items)
             new == [k \in Key |-> IF k \in acc
                                   THEN [seq |-> SeqOf(c.latest, acc, k),
                                         body |-> items[k].body]
                                   ELSE c.rows[k]]
  <1>1. acc \in SUBSET Key /\ acc \subseteq DOMAIN items
    BY DEF Accepted
  <1>2. c.latest \in Nat /\ \A k \in Key : c.rows[k] \in Stored
    BY DEF Chain
  <1>3. /\ Cardinality(acc) \in Nat
        /\ \A k \in acc : SeqOf(c.latest, acc, k) \in Nat
    BY <1>1, <1>2, SeqOfFacts
  <1>4. e = [c EXCEPT !.rows = new, !.latest = c.latest + Cardinality(acc)]
    BY DEF RowsAfter, LatestAfter
  <1>5. /\ e.rows = new /\ e.latest = c.latest + Cardinality(acc)
        /\ e.lost = c.lost /\ e.gone = c.gone /\ e.frozen = c.frozen
    BY <1>4 DEF Chain
  <1>6. ASSUME NEW k \in acc
        PROVE  /\ new[k].seq = SeqOf(c.latest, acc, k) /\ new[k].body = items[k].body
               /\ new[k] \in Stored /\ c.rows[k].seq <= items[k].base
    <2>1. k \in Key /\ items[k] \in Item /\ SeqOf(c.latest, acc, k) \in Nat
      BY <1>1, <1>3
    <2>2. new[k] = [seq |-> SeqOf(c.latest, acc, k), body |-> items[k].body]
      BY <2>1
    <2>3. ~(Present(c.rows[k]) /\ c.rows[k].seq > items[k].base)
      BY DEF Accepted
    <2>4. c.rows[k].seq \in Nat
      BY <1>2, <2>1 DEF Stored
    <2> HIDE DEF new, acc
    <2> QED BY <2>1, <2>2, <2>3, <2>4 DEF Stored, Item, Present
  <1>7. \A k \in Key \ acc : new[k] = c.rows[k]
    OBVIOUS
  <1>8. new \in [Key -> Stored]
    <2>1. \A k \in Key : new[k] \in Stored
      BY <1>2, <1>6, <1>7
    <2> QED BY <2>1
  <1> HIDE DEF acc, new
  <1>9. e \in Chain
    <2>1. c.latest + Cardinality(acc) \in Nat
      BY <1>2, <1>3
    <2>2. \A n \in Nat, t \in [Key -> Stored] :
              [c EXCEPT !.rows = t, !.latest = n] \in Chain
      BY DEF Chain
    <2> QED BY <1>4, <1>8, <2>1, <2>2
  <1>10. Pushed(c, e, items, acc)
    BY <1>5, <1>6, <1>7, <1>9 DEF Pushed
  <1> QED BY <1>9, <1>10 DEF acc

(* The accepted rows move forward in last-writer-wins order, because the   *)
(* sender's base was sound.                                                *)
LEMMA PushGrows ==
    ASSUME NEW c \in Chain, NEW e \in Chain, NEW acc \in SUBSET Key, NEW items,
           ChainOK(c), Pushed(c, e, items, acc),
           \A k \in acc : Sound(c, k, items[k].base, items[k].body)
    PROVE  ChainOK(e) /\ Grows(c, e)
  <1>0. /\ e.latest = c.latest + Cardinality(acc)
        /\ \A k \in acc : /\ e.rows[k].seq = SeqOf(c.latest, acc, k)
                          /\ e.rows[k].body = items[k].body
                          /\ c.rows[k].seq <= items[k].base
        /\ \A k \in Key \ acc : e.rows[k] = c.rows[k]
    BY DEF Pushed
  <1>1. c.latest \in Nat
    BY DEF Chain
  <1>2. /\ Cardinality(acc) \in Nat
        /\ \A k \in acc : /\ SeqOf(c.latest, acc, k) \in Nat
                          /\ SeqOf(c.latest, acc, k) > c.latest
                          /\ SeqOf(c.latest, acc, k) <= c.latest + Cardinality(acc)
        /\ \A j, k \in acc : j # k => SeqOf(c.latest, acc, j) # SeqOf(c.latest, acc, k)
    BY <1>1, SeqOfFacts
  <1>3. \A k \in Key : c.rows[k].seq \in Nat /\ c.rows[k].seq <= c.latest
    BY DEF Chain, Stored, ChainOK
  <1>4. ASSUME NEW k \in acc
        PROVE  e.rows[k].seq > c.latest /\ ~Beats(c.rows[k].body, e.rows[k].body)
    BY <1>0, <1>2 DEF Sound
  <1>5. c.latest <= e.latest
    BY <1>0, <1>1, <1>2
  <1>6. Grows(c, e)
    BY <1>0, <1>4, <1>5 DEF Grows
  <1>7. ASSUME NEW k \in Key
        PROVE  /\ e.rows[k].seq <= e.latest
               /\ e.rows[k].seq = 0 => e.rows[k].body = NoRev
    <2>1. CASE k \in acc
      BY <1>0, <1>1, <1>2, <2>1
    <2>2. CASE k \notin acc
      <3>1. e.rows[k] = c.rows[k]
        BY <1>0, <2>2
      <3> QED BY <1>1, <1>3, <1>5, <3>1 DEF ChainOK, Chain
    <2> QED BY <2>1, <2>2
  <1>8. ASSUME NEW k \in Key, NEW j \in Key \ {k}, Present(e.rows[k])
        PROVE  e.rows[j].seq # e.rows[k].seq
    <2>1. CASE k \in acc /\ j \in acc
      BY <1>0, <1>2, <2>1
    <2>2. CASE k \in acc /\ j \notin acc
      BY <1>0, <1>1, <1>3, <1>4, <2>2
    <2>3. CASE k \notin acc /\ j \in acc
      BY <1>0, <1>1, <1>3, <1>4, <2>3
    <2>4. CASE k \notin acc /\ j \notin acc
      <3>1. e.rows[k] = c.rows[k] /\ e.rows[j] = c.rows[j]
        BY <1>0, <2>4
      <3> QED BY <1>8, <3>1 DEF ChainOK
    <2> QED BY <2>1, <2>2, <2>3, <2>4
  <1> QED BY <1>6, <1>7, <1>8 DEF ChainOK

-----------------------------------------------------------------------------
(* Type correctness, one step per action. *)

Places == {"idle", "pull", "merge", "push", "receipt", "frozen"}

(* The part of TypeOK about a round's own values. *)
RoundOK ==
    /\ pc \in [Device -> Places]
    /\ pulled \in [Device -> Answer]
    /\ sent \in [Device -> [Key -> Item]]
    /\ todo \in [Device -> SUBSET Key]
    /\ accepted \in [Device -> [Key -> Nat]]
    /\ \A d \in Device : todo[d] # {} <=> pc[d] = "push"

(* The type of the delayed pushes. *)
NetType == \A items \in net : /\ DOMAIN items \subseteq Key
                              /\ \A k \in DOMAIN items : items[k] \in Item

(* The counters are within their bounds. *)
CountsOK == edits \in 0..MaxEdits /\ faults \in 0..MaxFaults

(* The types of memory and disk. *)
SavesOK ==
    /\ mem \in [Device -> Section]
    /\ disk \in [Device -> Section]
    /\ saveBlocked \in [Device -> BOOLEAN]

(* TypeOK is the conjunction of these parts. *)
LEMMA TypeParts ==
    TypeOK <=> chain \in Chain /\ SavesOK /\ RoundOK /\ NetType /\ CountsOK
  BY DEF TypeOK, Chain, SavesOK, RoundOK, NetType, CountsOK, Places, Answer, Stored, Item

(* The values variables are reset to have their types. *)
LEMMA BlankValues ==
    /\ NoTable \in [Key -> Stored] /\ NoPull \in Answer
    /\ NothingSent \in [Key -> Item] /\ NoReceipts \in [Key -> Nat]
    /\ EmptySection \in Section
  BY NoRevLoses DEF NoTable, NoPull, NothingSent, NoReceipts, EmptySection, NoRow,
     Stored, Answer, Item, Section

(* Marking a section, or giving it other rows, leaves a section. *)
LEMMA FlagsKeepType ==
    ASSUME NEW section \in Section
    PROVE  /\ [section EXCEPT !.blocked = FALSE] \in Section
           /\ [section EXCEPT !.blocked = TRUE] \in Section
           /\ [section EXCEPT !.missing = TRUE] \in Section
           /\ [section EXCEPT !.blocked = TRUE, !.frozen = TRUE] \in Section
           /\ \A rows \in [Key -> Row] : [section EXCEPT !.rows = rows] \in Section
  BY DEF Section, Row

(* The end of a round keeps the types of its values. *)
LEMMA EndRoundType ==
    ASSUME RoundOK, NEW d \in Device, EndRound(d)
    PROVE  RoundOK'
  BY BlankValues DEF RoundOK, EndRound, Goto, Places

(* Saving a section keeps the types of memory and disk. *)
LEMMA PersistType ==
    ASSUME SavesOK, NEW d \in Device, NEW section \in Section, Persist(d, section),
           UNCHANGED saveBlocked
    PROVE  SavesOK'
  BY DEF SavesOK, Persist

(* A fault keeps the bound on faults. *)
LEMMA FaultType ==
    ASSUME CountsOK, Fault, UNCHANGED edits
    PROVE  CountsOK'
  BY SyncAssumption DEF CountsOK, Fault

(* An edit, with the pins it costs, makes a section. *)
LEMMA EditRows ==
    ASSUME SavesOK, CountsOK, NEW d \in Device, NEW k \in Key, NEW now \in 1..MaxNow,
           NEW del \in BOOLEAN, NEW rows,
           rows = [mem[d].rows EXCEPT
                     ![k] = [rev |-> NewRev(d, mem[d].rows[k].rev, now, del),
                             seq |-> mem[d].rows[k].seq, dirty |-> TRUE]]
    PROVE  /\ rows \in [Key -> Row]
           /\ \A j \in Key : /\ rows[j].seq = mem[d].rows[j].seq
                             /\ ~Beats(mem[d].rows[j].rev, rows[j].rev)
                             /\ rows[j] = mem[d].rows[j] \/ rows[j].dirty
  <1> DEFINE old == mem[d].rows
             new == NewRev(d, old[k].rev, now, del)
  <1>1. old \in [Key -> Row]
    BY DEF SavesOK, Section, Row
  <1>2. \A j \in Key : old[j].rev \in Rev /\ old[j].seq \in Nat
    BY <1>1 DEF Row
  <1>3. edits \in Nat /\ now \in Nat
    BY SyncAssumption DEF CountsOK
  <1>4. new \in Rev /\ ~Beats(old[k].rev, new)
    BY <1>2, <1>3, NewRevBeats
  <1> HIDE DEF old, new
  <1>5. rows = [old EXCEPT ![k] = [rev |-> new, seq |-> old[k].seq, dirty |-> TRUE]]
    BY DEF old, new
  <1>6. [rev |-> new, seq |-> old[k].seq, dirty |-> TRUE] \in Row
    BY <1>2, <1>4 DEF Row
  <1>7. rows \in [Key -> Row]
    BY <1>1, <1>5, <1>6
  <1>8. ASSUME NEW j \in Key
        PROVE  /\ rows[j].seq = old[j].seq
               /\ ~Beats(old[j].rev, rows[j].rev)
               /\ rows[j] = old[j] \/ rows[j].dirty
    <2>1. CASE j = k
      BY <1>1, <1>4, <1>5, <2>1
    <2>2. CASE j # k
      BY <1>1, <1>2, <1>5, <2>2, BeatsIrreflexive
    <2> QED BY <2>1, <2>2
  <1> QED BY <1>7, <1>8 DEF old

(* Losing pins is an edit. *)
LEMMA UnpinAdvances ==
    ASSUME NEW d \in Device, NEW section \in Section, NEW hosts \in SUBSET Host,
           NEW now \in Nat,
           edits \in Nat
    PROVE  LET next == [section EXCEPT !.rows = Unpin(d, section.rows, hosts, now)]
           IN  next \in Section /\ Advances(section, next)
  <1> DEFINE un == Unpin(d, section.rows, hosts, now)
             next == [section EXCEPT !.rows = un]
  <1>1. section.rows \in [Key -> Row]
    BY DEF Section, Row
  <1>2. /\ un \in [Key -> Row]
        /\ \A k \in Key : /\ un[k].seq = section.rows[k].seq
                          /\ ~Beats(section.rows[k].rev, un[k].rev)
                          /\ un[k] = section.rows[k] \/ un[k].dirty
    BY <1>1, UnpinFacts
  <1> HIDE DEF un
  <1>3. next \in Section
    BY <1>2, FlagsKeepType
  <1>4. next.rows = un /\ next.cursor = section.cursor /\ next.baseline = section.baseline
    BY DEF Section
  <1> HIDE DEF next
  <1>5. Advances(section, next)
    BY <1>2, <1>4 DEF Advances
  <1> QED BY <1>3, <1>5 DEF next, un

(* Two edits in a row are an edit. *)
LEMMA AdvancesTransitive ==
    ASSUME NEW a \in Section, NEW b \in Section, NEW c \in Section,
           Advances(a, b), Advances(b, c)
    PROVE  Advances(a, c)
  <1>1. \A k \in Key : a.rows[k].rev \in Rev /\ b.rows[k].rev \in Rev /\ c.rows[k].rev \in Rev
    BY DEF Section
  <1> QED BY <1>1, BeatsOrder DEF Advances

(* What Edit saves is an edit of the device's section. *)
LEMMA EditFacts ==
    ASSUME SavesOK, CountsOK, NEW d \in Device, NEW k \in Key, NEW now \in 1..MaxNow,
           NEW del \in BOOLEAN, Edit(d, k, now, del)
    PROVE  \E next \in Section : Persist(d, next) /\ Advances(mem[d], next)
  <1> DEFINE rows == [mem[d].rows EXCEPT
                        ![k] = [rev |-> NewRev(d, mem[d].rows[k].rev, now, del),
                                seq |-> mem[d].rows[k].seq, dirty |-> TRUE]]
             edited == [mem[d] EXCEPT !.rows = rows]
  <1>1. PICK hosts \in SUBSET (Repinnable(mem[d].rows, rows) \ {k}) :
               Persist(d, [mem[d] EXCEPT !.rows = Unpin(d, rows, hosts, now)])
    BY DEF Edit
  <1>2. /\ rows \in [Key -> Row]
        /\ \A j \in Key : /\ rows[j].seq = mem[d].rows[j].seq
                          /\ ~Beats(mem[d].rows[j].rev, rows[j].rev)
                          /\ rows[j] = mem[d].rows[j] \/ rows[j].dirty
    BY EditRows
  <1>3. hosts \in SUBSET Host
    BY DEF Repinnable
  <1> HIDE DEF rows
  <1>4. mem[d] \in Section /\ edits \in Nat /\ now \in Nat
    BY SyncAssumption DEF SavesOK, CountsOK
  <1>5. edited \in Section
    BY <1>2, <1>4, FlagsKeepType
  <1>6. /\ edited.rows = rows /\ edited.cursor = mem[d].cursor
        /\ edited.baseline = mem[d].baseline
        /\ [edited EXCEPT !.rows = Unpin(d, rows, hosts, now)]
              = [mem[d] EXCEPT !.rows = Unpin(d, rows, hosts, now)]
    BY <1>4 DEF Section
  <1> HIDE DEF edited
  <1>7. Advances(mem[d], edited)
    BY <1>2, <1>6 DEF Advances
  <1> DEFINE next == [edited EXCEPT !.rows = Unpin(d, edited.rows, hosts, now)]
  <1>8. next \in Section /\ Advances(edited, next)
    BY <1>3, <1>4, <1>5, UnpinAdvances
  <1>9. Persist(d, next)
    BY <1>1, <1>6
  <1> HIDE DEF next
  <1> QED BY <1>4, <1>5, <1>7, <1>8, <1>9, AdvancesTransitive

(* What Merge(d) makes of the device's section, and where it goes on. *)
LEMMA MergeFacts ==
    ASSUME SavesOK, CountsOK, RoundOK, NEW d \in Device, Merge(d)
    PROVE  /\ \E next \in Section :
                 /\ Persist(d, next) /\ Advances(MergeSpace(mem[d], pulled[d]), next)
                 /\ \/ EndRound(d)
                    \/ /\ Dirty(next) # {} /\ Goto(d, "push")
                       /\ pulled' = [pulled EXCEPT ![d] = NoPull]
                       /\ sent' = [sent EXCEPT ![d] = Outgoing(next)]
                       /\ todo' = [todo EXCEPT ![d] = Dirty(next)]
                       /\ accepted' = [accepted EXCEPT ![d] = NoReceipts]
           /\ CountsOK'
  <1> DEFINE merged == MergeSpace(mem[d], pulled[d])
  <1>1. PICK hosts \in SUBSET Repinnable(mem[d].rows, merged.rows) :
              LET next == [merged EXCEPT !.rows = Unpin(d, merged.rows, hosts, 0)]
              IN  /\ hosts # {} => edits < MaxEdits
                  /\ edits' = edits + (IF hosts = {} THEN 0 ELSE 1)
                  /\ Persist(d, next)
                  /\ \/ EndRound(d)
                     \/ /\ Dirty(next) # {}
                        /\ Goto(d, "push")
                        /\ pulled' = [pulled EXCEPT ![d] = NoPull]
                        /\ sent' = [sent EXCEPT ![d] = Outgoing(next)]
                        /\ todo' = [todo EXCEPT ![d] = Dirty(next)]
                        /\ accepted' = [accepted EXCEPT ![d] = NoReceipts]
    BY DEF Merge
  <1>2. mem[d] \in Section /\ pulled[d] \in Answer /\ edits \in Nat
    BY SyncAssumption DEF SavesOK, RoundOK, CountsOK
  <1>3. merged \in Section
    BY <1>2, MergeSpaceFacts DEF Answer
  <1>4. hosts \in SUBSET Host
    BY DEF Repinnable
  <1> HIDE DEF merged
  <1> DEFINE next == [merged EXCEPT !.rows = Unpin(d, merged.rows, hosts, 0)]
  <1>5. next \in Section /\ Advances(merged, next)
    BY <1>2, <1>3, <1>4, UnpinAdvances
  <1>6. CountsOK'
    BY <1>1, SyncAssumption DEF CountsOK, Merge
  <1> HIDE DEF next
  <1>7. /\ Persist(d, next)
        /\ \/ EndRound(d)
           \/ /\ Dirty(next) # {} /\ Goto(d, "push")
              /\ pulled' = [pulled EXCEPT ![d] = NoPull]
              /\ sent' = [sent EXCEPT ![d] = Outgoing(next)]
              /\ todo' = [todo EXCEPT ![d] = Dirty(next)]
              /\ accepted' = [accepted EXCEPT ![d] = NoReceipts]
    BY <1>1 DEF next
  <1> QED BY <1>5, <1>6, <1>7 DEF merged

(* Every step keeps the types. *)
LEMMA TypeStep ==
    ASSUME TypeOK, [Next]_vars
    PROVE  TypeOK'
  <1> SUFFICES chain' \in Chain /\ SavesOK' /\ RoundOK' /\ NetType' /\ CountsOK'
    <2>1. (chain \in Chain)' /\ SavesOK' /\ RoundOK' /\ NetType' /\ CountsOK' => TypeOK'
      BY TypeParts, PTL
    <2> QED BY <2>1 DEF Chain, Stored
  <1>1. chain \in Chain /\ SavesOK /\ RoundOK /\ NetType /\ CountsOK
    BY TypeParts
  <1>2. \A d \in Device : mem[d] \in Section /\ disk[d] \in Section
    BY <1>1 DEF SavesOK
  <1>3. \A d \in Device : ApplyReceipts(mem[d], sent[d], accepted[d]) \in Section
    BY <1>1, <1>2, ReceiptFacts DEF RoundOK
  <1>4. CASE UNCHANGED vars
    BY <1>1, <1>4 DEF vars, SavesOK, RoundOK, NetType, CountsOK
  <1>5. ASSUME NEW d \in Device, NEW k \in Key, NEW now \in 1..MaxNow, NEW del \in BOOLEAN,
               Edit(d, k, now, del)
        PROVE  chain' \in Chain /\ SavesOK' /\ RoundOK' /\ NetType' /\ CountsOK'
    <2>1. PICK next \in Section : Persist(d, next)
      BY <1>1, <1>5, EditFacts
    <2>2. SavesOK'
      BY <1>1, <1>5, <2>1, PersistType DEF Edit
    <2>3. CountsOK'
      BY <1>1, <1>5, SyncAssumption DEF Edit, CountsOK
    <2> QED BY <1>1, <1>5, <2>2, <2>3 DEF Edit, roundData, RoundOK, NetType
  <1>6. ASSUME NEW d \in Device, RoundStep(d) \/ Abort(d) \/ PushFails(d) \/ Crash(d)
        PROVE  chain' \in Chain /\ SavesOK' /\ RoundOK' /\ NetType' /\ CountsOK'
    <2>1. CASE StartRound(d)
      <3>1. SavesOK'
        BY <1>1, <1>2, <2>1, FlagsKeepType, PersistType DEF StartRound
      <3>2. RoundOK'
        BY <1>1, <2>1 DEF StartRound, RoundOK, roundData, Goto, Places
      <3> QED BY <1>1, <2>1, <3>1, <3>2 DEF StartRound, NetType, CountsOK
    <2>2. CASE Pull(d)
      <3> DEFINE since == IF mem[d].baseline THEN mem[d].cursor ELSE 0
                 answer == [since |-> since, latest |-> chain.latest,
                            rows |-> [k \in Key |-> IF k \in NewerThan(chain.rows, since)
                                                    THEN chain.rows[k] ELSE NoTable[k]]]
      <3>1. answer \in Answer
        BY <1>1, <1>2, BlankValues DEF Chain, Answer, Section
      <3>2. pulled' = [pulled EXCEPT ![d] = answer] /\ Goto(d, "merge") /\ pc[d] = "pull"
        BY <2>2 DEF Pull
      <3> HIDE DEF answer
      <3>3. RoundOK'
        <4>1. /\ pc' = [pc EXCEPT ![d] = "merge"] /\ pc[d] = "pull"
              /\ UNCHANGED <<sent, todo, accepted>>
          BY <2>2, <3>2 DEF Pull, Goto
        <4>2. pulled' \in [Device -> Answer]
          BY <1>1, <3>1, <3>2 DEF RoundOK
        <4> QED BY <1>1, <4>1, <4>2 DEF RoundOK, Places
      <3> QED BY <1>1, <2>2, <3>3 DEF Pull, SavesOK, NetType, CountsOK
    <2>3. CASE PullNotFound(d)
      <3>1. SavesOK'
        BY <1>1, <1>2, <2>3, FlagsKeepType, PersistType DEF PullNotFound
      <3> QED BY <1>1, <2>3, <3>1, EndRoundType DEF PullNotFound, NetType, CountsOK
    <2>4. CASE RefusePull(d)
      <3>1. SavesOK'
        BY <1>1, <1>2, <2>4, FlagsKeepType, PersistType DEF RefusePull
      <3> QED BY <1>1, <2>4, <3>1, EndRoundType DEF RefusePull, NetType, CountsOK
    <2>5. CASE Merge(d)
      <3>1. PICK next \in Section :
                 /\ Persist(d, next)
                 /\ \/ EndRound(d)
                    \/ /\ Dirty(next) # {} /\ Goto(d, "push")
                       /\ pulled' = [pulled EXCEPT ![d] = NoPull]
                       /\ sent' = [sent EXCEPT ![d] = Outgoing(next)]
                       /\ todo' = [todo EXCEPT ![d] = Dirty(next)]
                       /\ accepted' = [accepted EXCEPT ![d] = NoReceipts]
        BY <1>1, <2>5, MergeFacts
      <3>2. SavesOK'
        BY <1>1, <2>5, <3>1, PersistType DEF Merge
      <3>3. CountsOK'
        BY <1>1, <2>5, MergeFacts
      <3>4. Outgoing(next) \in [Key -> Item] /\ Dirty(next) \in SUBSET Key
        BY DEF Outgoing, Section, Item, Dirty
      <3>5. RoundOK'
        <4>1. CASE EndRound(d)
          BY <1>1, <4>1, EndRoundType
        <4>2. CASE ~EndRound(d)
          <5>1. /\ pc' = [pc EXCEPT ![d] = "push"]
                /\ todo' = [todo EXCEPT ![d] = Dirty(next)] /\ Dirty(next) # {}
                /\ pulled' = [pulled EXCEPT ![d] = NoPull]
                /\ sent' = [sent EXCEPT ![d] = Outgoing(next)]
                /\ accepted' = [accepted EXCEPT ![d] = NoReceipts]
            BY <3>1, <4>2 DEF Goto
          <5>2. pulled' \in [Device -> Answer]
            BY <1>1, <5>1, BlankValues DEF RoundOK
          <5>3. sent' \in [Device -> [Key -> Item]]
            BY <1>1, <3>4, <5>1 DEF RoundOK
          <5>4. accepted' \in [Device -> [Key -> Nat]]
            BY <1>1, <5>1, BlankValues DEF RoundOK
          <5> QED BY <1>1, <3>4, <5>1, <5>2, <5>3, <5>4 DEF RoundOK, Places
        <4> QED BY <4>1, <4>2
      <3> QED BY <1>1, <2>5, <3>2, <3>3, <3>5 DEF Merge, NetType
    <2>6. CASE PushBatch(d)
      <3>1. PICK b \in Batches(d) :
              LET items == BatchItems(d, b)
                  acc == IF chain.gone THEN {} ELSE Accepted(chain.rows, items)
                  rest == IF chain.gone THEN {} ELSE todo[d] \ b
              IN  /\ RelayPush(items)
                  /\ accepted' = [accepted EXCEPT ![d] =
                        [k \in Key |-> IF k \in acc THEN SeqOf(chain.latest, acc, k)
                                       ELSE accepted[d][k]]]
                  /\ todo' = [todo EXCEPT ![d] = rest]
                  /\ Goto(d, IF rest = {} THEN "receipt" ELSE "push")
        BY <2>6 DEF PushBatch
      <3> DEFINE items == BatchItems(d, b)
                 acc == IF chain.gone THEN {} ELSE Accepted(chain.rows, items)
                 rest == IF chain.gone THEN {} ELSE todo[d] \ b
                 receipts == [k \in Key |-> IF k \in acc THEN SeqOf(chain.latest, acc, k)
                                            ELSE accepted[d][k]]
      <3>2. b \subseteq Key
        BY <1>1 DEF Batches, RoundOK
      <3>3. DOMAIN items = b /\ \A k \in b : items[k] \in Item
        BY <1>1, <3>2 DEF BatchItems, RoundOK
      <3>4. acc \in SUBSET Key
        BY <3>2, <3>3 DEF Accepted
      <3>5. chain.latest \in Nat
        BY <1>1 DEF Chain
      <3>6. \A k \in acc : SeqOf(chain.latest, acc, k) \in Nat
        BY <3>4, <3>5, SeqOfFacts
      <3>7. receipts \in [Key -> Nat]
        BY <1>1, <3>6 DEF RoundOK
      <3>8. chain' \in Chain
        BY <1>1, <3>1, <3>2, <3>3, PushFacts DEF RelayPush
      <3>9. /\ accepted' = [accepted EXCEPT ![d] = receipts]
            /\ todo' = [todo EXCEPT ![d] = rest]
            /\ pc' = [pc EXCEPT ![d] = IF rest = {} THEN "receipt" ELSE "push"]
            /\ rest \in SUBSET Key
        BY <1>1, <3>1 DEF Goto, RoundOK
      <3> HIDE DEF receipts, rest
      <3>10. RoundOK'
        BY <1>1, <2>6, <3>7, <3>9 DEF PushBatch, RoundOK, Places
      <3> QED BY <1>1, <2>6, <3>8, <3>10 DEF PushBatch, SavesOK, NetType, CountsOK
    <2>7. CASE PushFrozen(d)
      BY <1>1, <2>7 DEF PushFrozen, RoundOK, Goto, Places, SavesOK, NetType, CountsOK
    <2>8. CASE Receipt(d)
      <3>1. SavesOK'
        BY <1>1, <1>3, <2>8 DEF Receipt, SavesOK
      <3>2. CountsOK'
        BY <1>1, <2>8, FaultType DEF Receipt, CountsOK
      <3> QED BY <1>1, <2>8, <3>1, <3>2, EndRoundType DEF Receipt, NetType
    <2>9. CASE ReceiptFrozen(d)
      <3> DEFINE next == ApplyReceipts(mem[d], sent[d], accepted[d])
      <3>1. /\ next \in Section /\ [next EXCEPT !.blocked = TRUE] \in Section
            /\ [next EXCEPT !.blocked = TRUE, !.frozen = TRUE] \in Section
        BY <1>3, FlagsKeepType
      <3>2. \/ /\ Persist(d, [next EXCEPT !.blocked = TRUE, !.frozen = TRUE])
               /\ UNCHANGED <<saveBlocked, faults>>
            \/ /\ Fault
               /\ mem' = [mem EXCEPT ![d] = [next EXCEPT !.blocked = TRUE]]
               /\ disk' = [disk EXCEPT ![d] = next]
               /\ saveBlocked' = [saveBlocked EXCEPT ![d] = TRUE]
            \/ /\ Fault
               /\ mem' = [mem EXCEPT ![d] = next]
               /\ disk' \in {disk, [disk EXCEPT ![d] = next]}
               /\ UNCHANGED saveBlocked
        BY <2>9 DEF ReceiptFrozen
      <3> HIDE DEF next
      <3>3. SavesOK'
        BY <1>1, <3>1, <3>2 DEF Persist, SavesOK
      <3>4. CountsOK'
        BY <1>1, <2>9, <3>2, FaultType DEF ReceiptFrozen, CountsOK
      <3> QED BY <1>1, <2>9, <3>3, <3>4, EndRoundType DEF ReceiptFrozen, NetType
    <2>10. CASE Abort(d)
      BY <1>1, <2>10, EndRoundType, FaultType DEF Abort, SavesOK, NetType
    <2>11. CASE PushFails(d)
      <3>1. PICK b \in Batches(d) :
              \/ UNCHANGED <<chain, net>>
              \/ RelayPush(BatchItems(d, b)) /\ UNCHANGED net
              \/ net' = net \cup {BatchItems(d, b)} /\ UNCHANGED chain
        BY <2>11 DEF PushFails
      <3>2. b \subseteq Key
        BY <1>1 DEF Batches, RoundOK
      <3>3. DOMAIN BatchItems(d, b) = b /\ \A k \in b : BatchItems(d, b)[k] \in Item
        BY <1>1, <3>2 DEF BatchItems, RoundOK
      <3>4. chain' \in Chain
        BY <1>1, <3>1, <3>2, <3>3, PushFacts DEF RelayPush
      <3>5. NetType'
        BY <1>1, <3>1, <3>2, <3>3 DEF NetType
      <3>6. RoundOK'
        BY <1>1, <2>11 DEF PushFails, RoundOK, Goto, Places
      <3>7. CountsOK'
        BY <1>1, <2>11, FaultType DEF PushFails
      <3> QED BY <1>1, <2>11, <3>4, <3>5, <3>6, <3>7 DEF PushFails, SavesOK
    <2>12. CASE Crash(d)
      <3>1. SavesOK'
        BY <1>1, <1>2, <2>12 DEF Crash, SavesOK
      <3> QED BY <1>1, <2>12, <3>1, EndRoundType, FaultType DEF Crash, NetType
    <2> QED BY <1>6, <2>1, <2>2, <2>3, <2>4, <2>5, <2>6, <2>7, <2>8, <2>9, <2>10, <2>11,
               <2>12 DEF RoundStep
  <1>7. CASE LateDelivery
    <2>1. PICK items \in net : RelayPush(items) /\ net' = net \ {items}
      BY <1>7 DEF LateDelivery
    <2>2. chain' \in Chain
      BY <1>1, <2>1, PushFacts DEF RelayPush, NetType
    <2>3. NetType'
      BY <1>1, <2>1 DEF NetType
    <2> QED BY <1>1, <1>7, <2>2, <2>3 DEF LateDelivery, SavesOK, RoundOK, roundData, CountsOK
  <1>8. CASE FreezeChain \/ PurgeChain \/ RestoreChain
    <2>1. chain' \in Chain
      <3>1. CASE FreezeChain
        BY <1>1, <3>1 DEF FreezeChain, Chain
      <3>2. CASE PurgeChain \/ RestoreChain
        <4>1. \A b \in BOOLEAN : [latest |-> 0, rows |-> NoTable, frozen |-> FALSE, gone |-> b,
                                  lost |-> TRUE] \in Chain
          BY BlankValues DEF Chain
        <4> QED BY <3>2, <4>1 DEF PurgeChain, RestoreChain
      <3> QED BY <1>8, <3>1, <3>2
    <2> QED BY <1>1, <1>8, <2>1 DEF FreezeChain, PurgeChain, RestoreChain, SavesOK, RoundOK,
                 roundData, NetType, CountsOK
  <1> QED BY <1>4, <1>5, <1>6, <1>7, <1>8 DEF Next

(* The initial state has the types. *)
LEMMA TypeInit == Init => TypeOK
  <1> SUFFICES ASSUME Init PROVE chain \in Chain /\ SavesOK /\ RoundOK /\ NetType /\ CountsOK
    BY TypeParts
  <1>1. chain \in Chain
    BY BlankValues DEF Init, Chain
  <1>2. SavesOK
    BY BlankValues DEF Init, SavesOK
  <1>3. RoundOK
    BY BlankValues DEF Init, RoundOK, Places
  <1>4. NetType /\ CountsOK
    BY SyncAssumption DEF Init, NetType, CountsOK
  <1> QED BY <1>1, <1>2, <1>3, <1>4

(* Every reachable state has the types, the step counters their bounds,    *)
(* and rows are left to push exactly while the device pushes: PushBatch,   *)
(* PushFails and PushFrozen all leave nothing behind.                      *)
THEOREM TypeCorrect == Spec => []TypeOK
  BY TypeInit, TypeStep, PTL DEF Spec

-----------------------------------------------------------------------------
(* The invariant: as long as the relay has not lost rows, every section,   *)
(* every answer not yet merged, every outgoing row and every delayed push  *)
(* is coherent with the chain; and memory and disk never differ in a       *)
(* revision, only in numbers and marks.                                    *)

(* All of a device is coherent with the chain. *)
DeviceOK(c, d) ==
    /\ SectionOK(c, mem[d])
    /\ SectionOK(c, disk[d])
    /\ pc[d] = "merge" => PulledOK(c, mem[d], pulled[d])
    /\ SentOK(c, sent[d], accepted[d])

(* So are the delayed pushes. *)
NetOK(c) ==
    \A items \in net : \A k \in DOMAIN items : Sound(c, k, items[k].base, items[k].body)

(* The state is coherent, unless the relay has lost rows. *)
Coherent ==
    ~chain.lost => ChainOK(chain) /\ (\A d \in Device : DeviceOK(chain, d)) /\ NetOK(chain)

(* Memory and disk hold the same revisions. *)
MemDisk == \A d \in Device, k \in Key : mem[d].rows[k].rev = disk[d].rows[k].rev

(* The inductive invariant. *)
IInv == TypeOK /\ Coherent /\ MemDisk

(* A device stays coherent when the chain grows, *)
LEMMA DeviceGrows ==
    ASSUME SavesOK, RoundOK, NEW c \in Chain, NEW e \in Chain, Grows(c, e),
           NEW d \in Device, DeviceOK(c, d)
    PROVE  DeviceOK(e, d)
  <1>1. /\ mem[d] \in Section /\ disk[d] \in Section /\ pulled[d] \in Answer
        /\ sent[d] \in [Key -> Item] /\ accepted[d] \in [Key -> Nat]
    BY DEF SavesOK, RoundOK
  <1> QED BY <1>1, SectionGrows, PulledGrows, SentGrows DEF DeviceOK

(* and so do the delayed pushes. *)
LEMMA NetGrows ==
    ASSUME NetType, NEW c \in Chain, NEW e \in Chain, Grows(c, e), NetOK(c)
    PROVE  NetOK(e)
  <1> SUFFICES ASSUME NEW items \in net, NEW k \in DOMAIN items
               PROVE  Sound(e, k, items[k].base, items[k].body)
    BY DEF NetOK
  <1>1. k \in Key /\ items[k].base \in Nat /\ items[k].body \in Rev
    BY DEF NetType, Item
  <1> QED BY <1>1, SoundGrows DEF NetOK

(* The blank values a round starts and ends with are sound. *)
LEMMA BlankOK ==
    ASSUME NEW c \in Chain, ChainOK(c)
    PROVE  SentOK(c, NothingSent, NoReceipts)
  <1> SUFFICES ASSUME NEW k \in Key PROVE Sound(c, k, 0, NoRev)
    BY DEF SentOK, NothingSent, NoReceipts
  <1>1. c.rows[k].seq \in Nat /\ c.rows[k].body \in Rev /\ c.latest \in Nat
    BY DEF Chain, Stored
  <1>2. c.rows[k].seq <= 0 => c.rows[k].body = NoRev
    BY <1>1 DEF ChainOK
  <1> QED BY <1>1, <1>2, NoRevLoses DEF Sound

(* What a push does to the chain, whoever sent it and whenever.            *)
LEMMA RelayPushOK ==
    ASSUME chain \in Chain, NEW items, DOMAIN items \subseteq Key,
           \A k \in DOMAIN items : items[k] \in Item,
           RelayPush(items)
    PROVE  /\ chain' \in Chain /\ chain'.lost = chain.lost
           /\ ChainOK(chain) /\ (\A k \in DOMAIN items :
                                    Sound(chain, k, items[k].base, items[k].body))
                 => ChainOK(chain') /\ Grows(chain, chain')
  <1> DEFINE acc == Accepted(chain.rows, items)
  <1>1. CASE chain.frozen \/ chain.gone
    <2>1. chain' = chain
      BY <1>1 DEF RelayPush
    <2>2. Grows(chain, chain)
      BY DEF Grows, Chain
    <2> QED BY <2>1, <2>2
  <1>2. CASE ~(chain.frozen \/ chain.gone)
    <2>1. chain' = [chain EXCEPT !.rows = RowsAfter(chain.rows, chain.latest, items),
                                 !.latest = LatestAfter(chain.rows, chain.latest, items)]
      BY <1>2 DEF RelayPush
    <2>2. chain' \in Chain /\ Pushed(chain, chain', items, acc)
      BY <2>1, PushFacts
    <2>3. acc \in SUBSET Key /\ acc \subseteq DOMAIN items
      BY DEF Accepted
    <2> HIDE DEF acc
    <2>4. ASSUME ChainOK(chain),
                 \A k \in DOMAIN items : Sound(chain, k, items[k].base, items[k].body)
          PROVE  ChainOK(chain') /\ Grows(chain, chain')
      BY <2>2, <2>3, <2>4, PushGrows
    <2> QED BY <2>2, <2>4 DEF Pushed
  <1> QED BY <1>1, <1>2

(* The receipts of a batch the relay has answered are for rows it holds. *)
LEMMA AcceptedOK ==
    ASSUME NEW c \in Chain, NEW e \in Chain, NEW acc \in SUBSET Key, NEW items,
           NEW out \in [Key -> Item], NEW old \in [Key -> Nat], NEW receipts \in [Key -> Nat],
           Pushed(c, e, items, acc), Grows(c, e), ChainOK(e), SentOK(c, out, old),
           \A k \in acc : items[k] = out[k],
           \A k \in Key : receipts[k] = IF k \in acc THEN SeqOf(c.latest, acc, k) ELSE old[k]
    PROVE  SentOK(e, out, receipts)
  <1>1. SentOK(e, out, old)
    BY SentGrows
  <1> SUFFICES ASSUME NEW k \in Key
               PROVE  /\ Sound(e, k, out[k].base, out[k].body)
                      /\ receipts[k] > 0 => /\ Sound(e, k, receipts[k], out[k].body)
                                            /\ ~Beats(out[k].body, e.rows[k].body)
    BY DEF SentOK
  <1>2. Sound(e, k, out[k].base, out[k].body)
    BY <1>1 DEF SentOK
  <1>3. CASE k \in acc
    <2>1. e.rows[k].seq = receipts[k] /\ e.rows[k].body = out[k].body
      BY <1>3 DEF Pushed
    <2>2. out[k].body \in Rev
      BY DEF Item
    <2>3. e.rows[k].seq <= e.latest
      BY DEF ChainOK
    <2> QED BY <1>2, <2>1, <2>2, <2>3, BeatsIrreflexive DEF Sound
  <1>4. CASE k \notin acc
    <2>1. receipts[k] = old[k]
      BY <1>4
    <2> QED BY <1>1, <2>1 DEF SentOK
  <1> QED BY <1>3, <1>4

(* A section whose rows, cursor and baseline stay is as coherent as before. *)
LEMMA SameRowsOK ==
    ASSUME NEW c, NEW section, NEW next, next.rows = section.rows,
           next.cursor = section.cursor, next.baseline = section.baseline,
           SectionOK(c, section)
    PROVE  SectionOK(c, next)
  BY DEF SectionOK

(* The marks are not part of the rows, the cursor or the baseline. *)
LEMMA FlagsKeepRows ==
    ASSUME NEW section \in Section, NEW next,
           \/ next = [section EXCEPT !.blocked = FALSE]
           \/ next = [section EXCEPT !.blocked = TRUE]
           \/ next = [section EXCEPT !.missing = TRUE]
           \/ next = [section EXCEPT !.blocked = TRUE, !.frozen = TRUE]
    PROVE  /\ next.rows = section.rows /\ next.cursor = section.cursor
           /\ next.baseline = section.baseline
  BY DEF Section

(* Nobody but device d does anything. *)
Others(d) ==
    \A e \in Device \ {d} :
        /\ mem'[e] = mem[e] /\ disk'[e] = disk[e] /\ pc'[e] = pc[e]
        /\ pulled'[e] = pulled[e] /\ sent'[e] = sent[e] /\ accepted'[e] = accepted[e]

(* A chain that nobody touches grows trivially. *)
LEMMA GrowsReflexive == \A c \in Chain : Grows(c, c)
  BY DEF Grows, Chain

(* A step of one device: it is enough to look at the chain, the network   *)
(* and the device itself.                                                  *)
LEMMA KeepsCoherent ==
    ASSUME TypeOK, TypeOK', Coherent, NEW d \in Device, Others(d),
           chain'.lost = chain.lost,
           ~chain.lost => /\ ChainOK(chain') /\ Grows(chain, chain')
                          /\ DeviceOK(chain, d)' /\ NetOK(chain)'
    PROVE  Coherent'
  <1> SUFFICES ASSUME ~chain.lost, NEW e \in Device \ {d} PROVE DeviceOK(chain, e)'
    BY DEF Coherent
  <1>1. chain \in Chain /\ SavesOK /\ RoundOK
    BY TypeParts
  <1>2. chain' \in Chain
    BY DEF TypeOK, Chain, Stored
  <1>3. DeviceOK(chain, e)
    BY DEF Coherent
  <1>4. DeviceOK(chain', e)
    BY <1>1, <1>2, <1>3, DeviceGrows
  <1> QED BY <1>4 DEF DeviceOK, Others

(* The values of a device after its round. *)
LEMMA EndRoundFacts ==
    ASSUME RoundOK, NEW d \in Device, EndRound(d)
    PROVE  /\ pc'[d] = "idle" /\ sent'[d] = NothingSent /\ accepted'[d] = NoReceipts
           /\ \A e \in Device \ {d} : /\ pc'[e] = pc[e] /\ pulled'[e] = pulled[e]
                                      /\ sent'[e] = sent[e] /\ accepted'[e] = accepted[e]
  BY DEF RoundOK, EndRound, Goto

(* The end of a round, or a restart, with coherent sections. *)
LEMMA RoundEnds ==
    ASSUME TypeOK, TypeOK', Coherent, NEW d \in Device, EndRound(d),
           UNCHANGED <<chain, net>>,
           \A e \in Device \ {d} : mem'[e] = mem[e] /\ disk'[e] = disk[e],
           ~chain.lost => SectionOK(chain, mem'[d]) /\ SectionOK(chain, disk'[d])
    PROVE  Coherent'
  <1>1. chain \in Chain /\ SavesOK /\ RoundOK
    BY TypeParts
  <1>2. /\ pc'[d] = "idle" /\ sent'[d] = NothingSent /\ accepted'[d] = NoReceipts
        /\ \A e \in Device \ {d} : /\ pc'[e] = pc[e] /\ pulled'[e] = pulled[e]
                                   /\ sent'[e] = sent[e] /\ accepted'[e] = accepted[e]
    BY <1>1, EndRoundFacts
  <1>3. Others(d)
    BY <1>2 DEF Others
  <1>4. ASSUME ~chain.lost
        PROVE  ChainOK(chain) /\ DeviceOK(chain, d)' /\ NetOK(chain)'
    <2>1. ChainOK(chain) /\ NetOK(chain)
      BY <1>4 DEF Coherent
    <2>2. SentOK(chain, NothingSent, NoReceipts)
      BY <1>1, <2>1, BlankOK
    <2>3. DeviceOK(chain, d)'
      BY <1>2, <1>4, <2>2 DEF DeviceOK
    <2> QED BY <2>1, <2>3 DEF NetOK
  <1> QED BY <1>1, <1>3, <1>4, GrowsReflexive, KeepsCoherent

(* The chain grows, and at most a device's receipts change. *)
LEMMA ChainMoves ==
    ASSUME TypeOK, TypeOK', Coherent, NEW d \in Device, UNCHANGED <<mem, disk, pulled, sent>>,
           pc'[d] # "merge",
           \A e \in Device \ {d} : pc'[e] = pc[e] /\ accepted'[e] = accepted[e],
           chain'.lost = chain.lost,
           ~chain.lost => /\ ChainOK(chain') /\ Grows(chain, chain')
                          /\ SentOK(chain', sent[d], accepted'[d])
                          /\ NetOK(chain)'
    PROVE  Coherent'
  <1>1. chain \in Chain /\ SavesOK /\ RoundOK
    BY TypeParts
  <1>2. chain' \in Chain
    BY DEF TypeOK, Chain, Stored
  <1>3. Others(d)
    BY DEF Others
  <1>4. ASSUME ~chain.lost PROVE DeviceOK(chain, d)'
    <2>1. DeviceOK(chain, d)
      BY <1>4 DEF Coherent
    <2>2. DeviceOK(chain', d)
      BY <1>1, <1>2, <1>4, <2>1, DeviceGrows
    <2> QED BY <1>4, <2>2 DEF DeviceOK
  <1> QED BY <1>3, <1>4, KeepsCoherent

(* A push from a device or from the network leaves a coherent chain. *)
LEMMA PushStep ==
    ASSUME TypeOK, Coherent, NEW items, DOMAIN items \subseteq Key,
           \A k \in DOMAIN items : items[k] \in Item,
           ~chain.lost => \A k \in DOMAIN items :
                             Sound(chain, k, items[k].base, items[k].body),
           RelayPush(items)
    PROVE  /\ chain' \in Chain /\ chain'.lost = chain.lost
           /\ ~chain.lost => ChainOK(chain') /\ Grows(chain, chain')
  <1>1. chain \in Chain
    BY TypeParts
  <1>2. ~chain.lost => ChainOK(chain)
    BY DEF Coherent
  <1> QED BY <1>1, <1>2, RelayPushOK

(* Every step keeps the chain and the devices coherent, and the chain only *)
(* grows.                                                                  *)
LEMMA CoherentStep ==
    ASSUME TypeOK, TypeOK', Coherent, [Next]_vars
    PROVE  Coherent' /\ (~chain'.lost => Grows(chain, chain'))
  <1>1. chain \in Chain /\ SavesOK /\ RoundOK /\ NetType /\ CountsOK
    BY TypeParts
  <1>2. \A d \in Device : mem[d] \in Section /\ disk[d] \in Section /\ pulled[d] \in Answer
                          /\ sent[d] \in [Key -> Item] /\ accepted[d] \in [Key -> Nat]
    BY <1>1 DEF SavesOK, RoundOK
  <1>3. ASSUME NEW d \in Device, ~chain.lost
        PROVE  /\ ChainOK(chain) /\ SectionOK(chain, mem[d]) /\ SectionOK(chain, disk[d])
               /\ pc[d] = "merge" => PulledOK(chain, mem[d], pulled[d])
               /\ SentOK(chain, sent[d], accepted[d])
    BY <1>3 DEF Coherent, DeviceOK
  <1>4. ASSUME NEW d \in Device, ~chain.lost
        PROVE  SectionOK(chain, ApplyReceipts(mem[d], sent[d], accepted[d]))
    BY <1>1, <1>2, <1>3, <1>4, ReceiptOK
  <1>5. UNCHANGED chain => Grows(chain, chain')
    BY <1>1, GrowsReflexive
  <1>6. CASE UNCHANGED vars
    <2>1. Coherent'
      BY <1>6 DEF vars, Coherent, ChainOK, DeviceOK, NetOK
    <2> QED BY <1>5, <1>6, <2>1 DEF vars
  <1>7. ASSUME NEW d \in Device, NEW k \in Key, NEW now \in 1..MaxNow, NEW del \in BOOLEAN,
               Edit(d, k, now, del)
        PROVE  Coherent' /\ UNCHANGED chain
    <2>1. PICK next \in Section : Persist(d, next) /\ Advances(mem[d], next)
      BY <1>1, <1>7, EditFacts
    <2>2. /\ UNCHANGED <<chain, pc, pulled, sent, accepted, net>> /\ pc[d] = "idle"
          /\ mem'[d] = next /\ disk'[d] = next
          /\ \A e \in Device \ {d} : mem'[e] = mem[e] /\ disk'[e] = disk[e]
      BY <1>1, <1>7, <2>1 DEF Edit, roundData, Persist, SavesOK
    <2>3. Others(d)
      BY <2>2 DEF Others
    <2>4. ASSUME ~chain.lost PROVE ChainOK(chain) /\ DeviceOK(chain, d)' /\ NetOK(chain)'
      <3>1. SectionOK(chain, next)
        BY <1>1, <1>2, <1>3, <2>1, <2>4, AdvanceOK
      <3>2. DeviceOK(chain, d)'
        BY <1>3, <2>2, <2>4, <3>1 DEF DeviceOK
      <3>3. NetOK(chain)'
        BY <2>2, <2>4 DEF Coherent, NetOK
      <3> QED BY <1>3, <2>4, <3>2, <3>3
    <2> QED BY <1>1, <2>2, <2>3, <2>4, GrowsReflexive, KeepsCoherent
  <1>8. ASSUME NEW d \in Device, StartRound(d)
        PROVE  Coherent' /\ UNCHANGED chain
    <2> DEFINE next == [mem[d] EXCEPT !.blocked = FALSE]
    <2>1. /\ UNCHANGED <<chain, pulled, sent, accepted, net>> /\ pc'[d] = "pull"
          /\ mem'[d] = next /\ disk'[d] = next
          /\ \A e \in Device \ {d} : mem'[e] = mem[e] /\ disk'[e] = disk[e] /\ pc'[e] = pc[e]
      BY <1>1, <1>8 DEF StartRound, roundData, Goto, Persist, SavesOK, RoundOK
    <2>2. Others(d)
      BY <2>1 DEF Others
    <2>3. ASSUME ~chain.lost PROVE ChainOK(chain) /\ DeviceOK(chain, d)' /\ NetOK(chain)'
      <3>1. SectionOK(chain, next)
        <4>1. /\ next.rows = mem[d].rows /\ next.cursor = mem[d].cursor
              /\ next.baseline = mem[d].baseline
          BY <1>2, FlagsKeepRows
        <4> HIDE DEF next
        <4> QED BY <1>3, <2>3, <4>1, SameRowsOK
      <3> HIDE DEF next
      <3>2. DeviceOK(chain, d)'
        BY <1>3, <2>1, <2>3, <3>1 DEF DeviceOK
      <3>3. NetOK(chain)'
        BY <2>1, <2>3 DEF Coherent, NetOK
      <3> QED BY <1>3, <2>3, <3>2, <3>3
    <2> QED BY <1>1, <2>1, <2>2, <2>3, GrowsReflexive, KeepsCoherent
  <1>9. ASSUME NEW d \in Device, Pull(d)
        PROVE  Coherent' /\ UNCHANGED chain
    <2> DEFINE since == IF mem[d].baseline THEN mem[d].cursor ELSE 0
               answer == [since |-> since, latest |-> chain.latest,
                          rows |-> [k \in Key |-> IF k \in NewerThan(chain.rows, since)
                                                  THEN chain.rows[k] ELSE NoTable[k]]]
    <2>1. /\ UNCHANGED <<chain, mem, disk, sent, accepted, net>>
          /\ pulled'[d] = answer
          /\ \A e \in Device \ {d} : pc'[e] = pc[e] /\ pulled'[e] = pulled[e]
      BY <1>1, <1>9 DEF Pull, Goto, RoundOK
    <2>2. Others(d)
      BY <2>1 DEF Others
    <2>3. ASSUME ~chain.lost PROVE ChainOK(chain) /\ DeviceOK(chain, d)' /\ NetOK(chain)'
      <3>1. PulledOK(chain, mem[d], answer)
        BY <1>1, <1>2, <1>3, <2>3, PullOK
      <3> HIDE DEF answer
      <3>2. DeviceOK(chain, d)'
        BY <1>3, <2>1, <2>3, <3>1 DEF DeviceOK
      <3>3. NetOK(chain)'
        BY <2>1, <2>3 DEF Coherent, NetOK
      <3> QED BY <1>3, <2>3, <3>2, <3>3
    <2> QED BY <1>1, <2>1, <2>2, <2>3, GrowsReflexive, KeepsCoherent
  <1>10. ASSUME NEW d \in Device, PullNotFound(d) \/ RefusePull(d)
         PROVE  Coherent' /\ UNCHANGED chain
    <2>1. PICK next : /\ Persist(d, next)
                      /\ \/ next = [mem[d] EXCEPT !.missing = TRUE]
                         \/ next = [mem[d] EXCEPT !.blocked = TRUE]
      BY <1>10 DEF PullNotFound, RefusePull
    <2>2. UNCHANGED <<chain, net>> /\ EndRound(d)
      BY <1>10 DEF PullNotFound, RefusePull
    <2>3. /\ mem'[d] = next /\ disk'[d] = next
          /\ \A e \in Device \ {d} : mem'[e] = mem[e] /\ disk'[e] = disk[e]
      BY <1>1, <2>1 DEF Persist, SavesOK
    <2>4. /\ next.rows = mem[d].rows /\ next.cursor = mem[d].cursor
          /\ next.baseline = mem[d].baseline
      BY <1>2, <2>1, FlagsKeepRows
    <2>5. ~chain.lost => SectionOK(chain, next)
      BY <1>3, <2>4, SameRowsOK
    <2> QED BY <2>2, <2>3, <2>5, RoundEnds
  <1>11. ASSUME NEW d \in Device, Merge(d)
         PROVE  Coherent' /\ UNCHANGED chain
    <2> DEFINE merged == MergeSpace(mem[d], pulled[d])
    <2>1. PICK next \in Section :
                 /\ Persist(d, next) /\ Advances(merged, next)
                 /\ \/ EndRound(d)
                    \/ /\ Dirty(next) # {} /\ Goto(d, "push")
                       /\ pulled' = [pulled EXCEPT ![d] = NoPull]
                       /\ sent' = [sent EXCEPT ![d] = Outgoing(next)]
                       /\ todo' = [todo EXCEPT ![d] = Dirty(next)]
                       /\ accepted' = [accepted EXCEPT ![d] = NoReceipts]
      BY <1>1, <1>11, MergeFacts
    <2>2. UNCHANGED <<chain, net>> /\ pc[d] = "merge"
      BY <1>11 DEF Merge
    <2>3. /\ mem'[d] = next /\ disk'[d] = next
          /\ \A e \in Device \ {d} : mem'[e] = mem[e] /\ disk'[e] = disk[e]
      BY <1>1, <2>1 DEF Persist, SavesOK
    <2>4. ASSUME ~chain.lost PROVE SectionOK(chain, next)
      <3>1. SectionOK(chain, merged)
        BY <1>1, <1>2, <1>3, <2>2, <2>4, MergeOK
      <3>2. merged \in Section
        BY <1>2, MergeSpaceFacts DEF Answer
      <3> QED BY <1>1, <2>1, <3>1, <3>2, AdvanceOK
    <2> HIDE DEF merged
    <2>5. CASE EndRound(d)
      BY <2>2, <2>3, <2>4, <2>5, RoundEnds
    <2>6. CASE ~EndRound(d)
      <3>1. /\ Goto(d, "push") /\ pulled' = [pulled EXCEPT ![d] = NoPull]
            /\ sent' = [sent EXCEPT ![d] = Outgoing(next)]
            /\ accepted' = [accepted EXCEPT ![d] = NoReceipts]
        BY <2>1, <2>6
      <3>2. /\ pc'[d] = "push" /\ sent'[d] = Outgoing(next) /\ accepted'[d] = NoReceipts
            /\ \A e \in Device \ {d} : /\ pc'[e] = pc[e] /\ pulled'[e] = pulled[e]
                                       /\ sent'[e] = sent[e] /\ accepted'[e] = accepted[e]
        BY <1>1, <3>1 DEF Goto, RoundOK
      <3>3. Others(d)
        BY <2>3, <3>2 DEF Others
      <3>4. ASSUME ~chain.lost PROVE ChainOK(chain) /\ DeviceOK(chain, d)' /\ NetOK(chain)'
        <4>1. SentOK(chain, Outgoing(next), NoReceipts)
          BY <1>1, <2>4, <3>4, OutgoingOK
        <4>2. DeviceOK(chain, d)'
          BY <2>2, <2>3, <2>4, <3>2, <3>4, <4>1 DEF DeviceOK
        <4>3. NetOK(chain)'
          BY <2>2, <3>4 DEF Coherent, NetOK
        <4> QED BY <1>3, <3>4, <4>2, <4>3
      <3> QED BY <1>1, <2>2, <3>3, <3>4, GrowsReflexive, KeepsCoherent
    <2> QED BY <2>2, <2>5, <2>6
  <1>12. ASSUME NEW d \in Device, PushBatch(d)
         PROVE  Coherent' /\ chain'.lost = chain.lost /\ (~chain.lost => Grows(chain, chain'))
    <2>1. PICK b \in Batches(d) :
              LET items == BatchItems(d, b)
                  acc == IF chain.gone THEN {} ELSE Accepted(chain.rows, items)
              IN  /\ RelayPush(items)
                  /\ accepted' = [accepted EXCEPT ![d] =
                        [k \in Key |-> IF k \in acc THEN SeqOf(chain.latest, acc, k)
                                       ELSE accepted[d][k]]]
      BY <1>12 DEF PushBatch
    <2> DEFINE items == BatchItems(d, b)
               acc == IF chain.gone THEN {} ELSE Accepted(chain.rows, items)
               receipts == [k \in Key |-> IF k \in acc THEN SeqOf(chain.latest, acc, k)
                                          ELSE accepted[d][k]]
    <2>2. /\ UNCHANGED <<mem, disk, pulled, sent, net>> /\ ~chain.frozen
          /\ pc'[d] \in {"receipt", "push"}
          /\ \A e \in Device \ {d} : pc'[e] = pc[e]
      BY <1>1, <1>12 DEF PushBatch, Goto, RoundOK
    <2>3. accepted'[d] = receipts /\ \A e \in Device \ {d} : accepted'[e] = accepted[e]
      BY <1>1, <2>1 DEF RoundOK
    <2>4. /\ b \subseteq Key /\ DOMAIN items = b
          /\ \A k \in b : items[k] = sent[d][k] /\ items[k] \in Item
      <3>1. b \subseteq Key
        BY <1>1 DEF Batches, RoundOK
      <3> QED BY <1>2, <3>1 DEF BatchItems
    <2>5. ~chain.lost => \A k \in DOMAIN items : Sound(chain, k, items[k].base, items[k].body)
      BY <1>3, <2>4 DEF SentOK
    <2>6. /\ chain' \in Chain /\ chain'.lost = chain.lost
          /\ ~chain.lost => ChainOK(chain') /\ Grows(chain, chain')
      BY <2>1, <2>4, <2>5, PushStep
    <2>7. acc \in SUBSET Key /\ acc \subseteq b
      BY <2>4 DEF Accepted
    <2>8. receipts \in [Key -> Nat]
      <3>1. accepted' \in [Device -> [Key -> Nat]]
        BY DEF TypeOK
      <3> QED BY <2>3, <3>1
    <2>9. ASSUME ~chain.lost PROVE SentOK(chain', sent[d], receipts)
      <3>1. CASE chain.gone
        <4>1. chain' = chain
          BY <2>1, <3>1 DEF RelayPush
        <4>2. receipts = accepted[d]
          BY <1>2, <3>1
        <4> QED BY <1>3, <2>9, <4>1, <4>2
      <3>2. CASE ~chain.gone
        <4>1. Pushed(chain, chain', items, acc)
          <5>1. chain' = [chain EXCEPT !.rows = RowsAfter(chain.rows, chain.latest, items),
                                       !.latest = LatestAfter(chain.rows, chain.latest, items)]
            BY <2>1, <2>2, <3>2 DEF RelayPush
          <5> QED BY <1>1, <2>4, <3>2, <5>1, PushFacts
        <4>2. \A k \in acc : items[k] = sent[d][k]
          BY <2>4, <2>7
        <4>3. \A k \in Key : receipts[k] = IF k \in acc THEN SeqOf(chain.latest, acc, k)
                                            ELSE accepted[d][k]
          OBVIOUS
        <4> HIDE DEF items, acc, receipts
        <4> QED BY <1>1, <1>2, <1>3, <2>6, <2>7, <2>8, <2>9, <4>1, <4>2, <4>3, AcceptedOK
      <3> QED BY <3>1, <3>2
    <2> HIDE DEF items, acc, receipts
    <2>10. ~chain.lost => NetOK(chain)'
      <3>1. ~chain.lost => NetOK(chain')
        BY <1>1, <2>6, NetGrows DEF Coherent
      <3> QED BY <2>2, <3>1 DEF NetOK
    <2>11. Coherent'
      BY <2>2, <2>3, <2>6, <2>9, <2>10, ChainMoves
    <2> QED BY <2>6, <2>11
  <1>13. ASSUME NEW d \in Device, PushFrozen(d)
         PROVE  Coherent' /\ UNCHANGED chain
    <2>1. /\ UNCHANGED <<chain, mem, disk, pulled, sent, accepted, net>> /\ pc'[d] = "frozen"
          /\ \A e \in Device \ {d} : pc'[e] = pc[e]
      BY <1>1, <1>13 DEF PushFrozen, Goto, RoundOK
    <2>2. ~chain.lost => NetOK(chain)'
      BY <2>1 DEF Coherent, NetOK
    <2> QED BY <1>1, <1>3, <2>1, <2>2, GrowsReflexive, ChainMoves
  <1>14. ASSUME NEW d \in Device, Receipt(d)
         PROVE  Coherent' /\ UNCHANGED chain
    <2> DEFINE next == ApplyReceipts(mem[d], sent[d], accepted[d])
    <2>1. UNCHANGED <<chain, net>> /\ EndRound(d)
      BY <1>14 DEF Receipt
    <2>2. /\ mem'[d] = next /\ disk'[d] \in {next, disk[d]}
          /\ \A e \in Device \ {d} : mem'[e] = mem[e] /\ disk'[e] = disk[e]
      BY <1>1, <1>14 DEF Receipt, SavesOK
    <2>3. ~chain.lost => SectionOK(chain, next) /\ SectionOK(chain, disk[d])
      BY <1>3, <1>4
    <2> HIDE DEF next
    <2> QED BY <2>1, <2>2, <2>3, RoundEnds
  <1>15. ASSUME NEW d \in Device, ReceiptFrozen(d)
         PROVE  Coherent' /\ UNCHANGED chain
    <2> DEFINE next == ApplyReceipts(mem[d], sent[d], accepted[d])
               blockedNext == [next EXCEPT !.blocked = TRUE]
               frozenNext == [next EXCEPT !.blocked = TRUE, !.frozen = TRUE]
    <2>1. UNCHANGED <<chain, net>> /\ EndRound(d)
      BY <1>15 DEF ReceiptFrozen
    <2>2. /\ mem'[d] \in {next, blockedNext, frozenNext}
          /\ disk'[d] \in {next, frozenNext, disk[d]}
          /\ \A e \in Device \ {d} : mem'[e] = mem[e] /\ disk'[e] = disk[e]
      BY <1>1, <1>15 DEF ReceiptFrozen, Persist, SavesOK
    <2>3. next \in Section
      BY <1>2, ReceiptFacts
    <2> HIDE DEF next
    <2>4. /\ blockedNext.rows = next.rows /\ blockedNext.cursor = next.cursor
          /\ blockedNext.baseline = next.baseline
          /\ frozenNext.rows = next.rows /\ frozenNext.cursor = next.cursor
          /\ frozenNext.baseline = next.baseline
      BY <2>3, FlagsKeepRows
    <2> HIDE DEF blockedNext, frozenNext
    <2>5. ~chain.lost => /\ SectionOK(chain, next) /\ SectionOK(chain, disk[d])
                         /\ SectionOK(chain, blockedNext) /\ SectionOK(chain, frozenNext)
      BY <1>3, <1>4, <2>4, SameRowsOK DEF next
    <2> QED BY <2>1, <2>2, <2>5, RoundEnds
  <1>16. ASSUME NEW d \in Device, Abort(d) \/ Crash(d)
         PROVE  Coherent' /\ UNCHANGED chain
    <2>1. UNCHANGED <<chain, net>> /\ EndRound(d)
      BY <1>16 DEF Abort, Crash
    <2>2. /\ mem'[d] \in {mem[d], disk[d]} /\ disk'[d] = disk[d]
          /\ \A e \in Device \ {d} : mem'[e] = mem[e] /\ disk'[e] = disk[e]
      BY <1>1, <1>16 DEF Abort, Crash, SavesOK
    <2> QED BY <1>3, <2>1, <2>2, RoundEnds
  <1>17. ASSUME NEW d \in Device, PushFails(d)
         PROVE  Coherent' /\ chain'.lost = chain.lost /\ (~chain.lost => Grows(chain, chain'))
    <2>1. PICK b \in Batches(d) :
              \/ UNCHANGED <<chain, net>>
              \/ RelayPush(BatchItems(d, b)) /\ UNCHANGED net
              \/ net' = net \cup {BatchItems(d, b)} /\ UNCHANGED chain
      BY <1>17 DEF PushFails
    <2> DEFINE items == BatchItems(d, b)
    <2>2. /\ UNCHANGED <<mem, disk, pulled, sent, accepted>> /\ pc'[d] = "receipt"
          /\ \A e \in Device \ {d} : pc'[e] = pc[e]
      BY <1>1, <1>17 DEF PushFails, Goto, RoundOK
    <2>3. /\ b \subseteq Key /\ DOMAIN items = b
          /\ \A k \in b : items[k] = sent[d][k] /\ items[k] \in Item
      <3>1. b \subseteq Key
        BY <1>1 DEF Batches, RoundOK
      <3> QED BY <1>2, <3>1 DEF BatchItems
    <2>4. ~chain.lost => \A k \in DOMAIN items : Sound(chain, k, items[k].base, items[k].body)
      BY <1>3, <2>3 DEF SentOK
    <2> HIDE DEF items
    <2>5. /\ chain' \in Chain /\ chain'.lost = chain.lost
          /\ ~chain.lost => ChainOK(chain') /\ Grows(chain, chain')
      <3>1. CASE UNCHANGED chain
        BY <1>1, <1>3, <3>1, GrowsReflexive
      <3>2. CASE RelayPush(items)
        BY <2>3, <2>4, <3>2, PushStep
      <3> QED BY <2>1, <3>1, <3>2 DEF items
    <2>6. ASSUME ~chain.lost PROVE NetOK(chain)'
      <3>1. NetOK(chain)
        BY <2>6 DEF Coherent
      <3>2. NetOK(chain')
        BY <1>1, <2>5, <2>6, <3>1, NetGrows
      <3>3. CASE UNCHANGED net
        BY <3>2, <3>3 DEF NetOK
      <3>4. CASE net' = net \cup {items} /\ UNCHANGED chain
        BY <2>4, <2>6, <3>1, <3>4 DEF NetOK
      <3> QED BY <2>1, <3>3, <3>4 DEF items
    <2>7. ~chain.lost => SentOK(chain', sent[d], accepted'[d])
      BY <1>1, <1>2, <1>3, <2>2, <2>5, SentGrows
    <2>8. Coherent'
      BY <2>2, <2>5, <2>6, <2>7, ChainMoves
    <2> QED BY <2>5, <2>8
  <1>18. ASSUME LateDelivery
         PROVE  Coherent' /\ chain'.lost = chain.lost /\ (~chain.lost => Grows(chain, chain'))
    <2>1. PICK items \in net : RelayPush(items) /\ net' = net \ {items}
      BY <1>18 DEF LateDelivery
    <2>2. UNCHANGED <<mem, disk, pc, pulled, sent, accepted>>
      BY <1>18 DEF LateDelivery, roundData
    <2>3. DOMAIN items \subseteq Key /\ \A k \in DOMAIN items : items[k] \in Item
      BY <1>1 DEF NetType
    <2>4. ~chain.lost => \A k \in DOMAIN items : Sound(chain, k, items[k].base, items[k].body)
      BY DEF Coherent, NetOK
    <2>5. /\ chain' \in Chain /\ chain'.lost = chain.lost
          /\ ~chain.lost => ChainOK(chain') /\ Grows(chain, chain')
      BY <2>1, <2>3, <2>4, PushStep
    <2>6. ASSUME ~chain.lost 
          PROVE  /\ ChainOK(chain') /\ NetOK(chain)'
                 /\ \A d \in Device : DeviceOK(chain, d)'
      <3>1. NetOK(chain')
        BY <1>1, <2>5, <2>6, NetGrows DEF Coherent
      <3>2. NetOK(chain)'
        BY <2>1, <3>1 DEF NetOK
      <3>3. \A d \in Device : DeviceOK(chain', d)
        BY <1>1, <2>5, <2>6, DeviceGrows DEF Coherent
      <3>4. \A d \in Device : DeviceOK(chain, d)'
        BY <2>2, <3>3 DEF DeviceOK
      <3> QED BY <2>5, <2>6, <3>2, <3>4
    <2>7. Coherent'
      BY <2>5, <2>6 DEF Coherent
    <2> QED BY <2>5, <2>7
  <1>19. ASSUME FreezeChain
         PROVE  Coherent' /\ chain'.lost = chain.lost /\ Grows(chain, chain')
    <2>1. /\ chain'.rows = chain.rows /\ chain'.latest = chain.latest
          /\ chain'.lost = chain.lost
      BY <1>1, <1>19 DEF FreezeChain, Chain
    <2>2. UNCHANGED <<mem, disk, pc, pulled, sent, accepted, net>>
      BY <1>19 DEF FreezeChain, roundData
    <2>3. Grows(chain, chain')
      BY <1>1, <2>1 DEF Grows, Chain
    <2>4. Coherent'
      BY <2>1, <2>2 DEF Coherent, ChainOK, DeviceOK, SectionOK, PulledOK, SentOK, NetOK, Sound
    <2> QED BY <2>1, <2>3, <2>4
  <1>20. ASSUME PurgeChain \/ RestoreChain
         PROVE  Coherent' /\ chain'.lost
    BY <1>20 DEF PurgeChain, RestoreChain, Coherent
  <1> QED BY <1>5, <1>6, <1>7, <1>8, <1>9, <1>10, <1>11, <1>12, <1>13, <1>14, <1>15, <1>16,
             <1>17, <1>18, <1>19, <1>20 DEF Next, RoundStep

(* Memory and disk hold the same revisions, and revisions only move        *)
(* forward.                                                                *)
LEMMA RevisionStep ==
    ASSUME TypeOK, MemDisk, [Next]_vars
    PROVE  /\ MemDisk'
           /\ \A d \in Device, k \in Key : ~Beats(mem[d].rows[k].rev, mem'[d].rows[k].rev)
  <1>1. SavesOK /\ RoundOK /\ CountsOK
    BY TypeParts
  <1>2. \A d \in Device : mem[d] \in Section /\ disk[d] \in Section /\ pulled[d] \in Answer
                          /\ sent[d] \in [Key -> Item] /\ accepted[d] \in [Key -> Nat]
    BY <1>1 DEF SavesOK, RoundOK
  <1>3. \A d \in Device, k \in Key : mem[d].rows[k].rev \in Rev
    BY <1>2 DEF Section
  <1> DEFINE Forward(d) ==
               /\ \A e \in Device \ {d} : mem'[e] = mem[e] /\ disk'[e] = disk[e]
               /\ \A k \in Key : /\ mem'[d].rows[k].rev = disk'[d].rows[k].rev
                                 /\ ~Beats(mem[d].rows[k].rev, mem'[d].rows[k].rev)
  <1>4. CASE UNCHANGED <<mem, disk>>
    BY <1>3, <1>4, BeatsIrreflexive DEF MemDisk
  <1>5. ASSUME NEW d \in Device, NEW k \in Key, NEW now \in 1..MaxNow, NEW del \in BOOLEAN,
               Edit(d, k, now, del)
        PROVE  Forward(d)
    <2>1. PICK next \in Section : Persist(d, next) /\ Advances(mem[d], next)
      BY <1>1, <1>5, EditFacts
    <2>2. /\ mem'[d] = next /\ disk'[d] = next
          /\ \A e \in Device \ {d} : mem'[e] = mem[e] /\ disk'[e] = disk[e]
      BY <1>1, <2>1 DEF Persist, SavesOK
    <2> QED BY <2>1, <2>2 DEF Advances
  <1>6. ASSUME NEW d \in Device, StartRound(d) \/ PullNotFound(d) \/ RefusePull(d)
        PROVE  Forward(d)
    <2>1. PICK next : /\ Persist(d, next)
                      /\ \/ next = [mem[d] EXCEPT !.blocked = FALSE]
                         \/ next = [mem[d] EXCEPT !.missing = TRUE]
                         \/ next = [mem[d] EXCEPT !.blocked = TRUE]
      BY <1>6 DEF StartRound, PullNotFound, RefusePull
    <2>2. /\ mem'[d] = next /\ disk'[d] = next
          /\ \A e \in Device \ {d} : mem'[e] = mem[e] /\ disk'[e] = disk[e]
      BY <1>1, <2>1 DEF Persist, SavesOK
    <2>3. next.rows = mem[d].rows
      BY <1>2, <2>1, FlagsKeepRows
    <2> QED BY <1>3, <2>2, <2>3, BeatsIrreflexive
  <1>7. ASSUME NEW d \in Device, Merge(d)
        PROVE  Forward(d)
    <2> DEFINE merged == MergeSpace(mem[d], pulled[d])
    <2>1. PICK next \in Section : Persist(d, next) /\ Advances(merged, next)
      BY <1>1, <1>7, MergeFacts
    <2>2. /\ mem'[d] = next /\ disk'[d] = next
          /\ \A e \in Device \ {d} : mem'[e] = mem[e] /\ disk'[e] = disk[e]
      BY <1>1, <2>1 DEF Persist, SavesOK
    <2>3. /\ merged \in Section
          /\ \A k \in Key : merged.rows[k] = MergeRow(mem[d].rows[k], pulled[d].rows[k])
      BY <1>2, MergeSpaceFacts DEF Answer
    <2> HIDE DEF merged
    <2>4. ASSUME NEW k \in Key PROVE ~Beats(mem[d].rows[k].rev, next.rows[k].rev)
      <3>1. mem[d].rows[k] \in Row /\ pulled[d].rows[k] \in Stored
        BY <1>2 DEF Section, Row, Answer
      <3>2. ~Beats(mem[d].rows[k].rev, merged.rows[k].rev)
        BY <2>3, <3>1, MergeRowFacts
      <3>3. ~Beats(merged.rows[k].rev, next.rows[k].rev)
        BY <2>1 DEF Advances
      <3>4. merged.rows[k].rev \in Rev /\ next.rows[k].rev \in Rev
        BY <2>3 DEF Section
      <3> QED BY <1>3, <3>2, <3>3, <3>4, BeatsOrder
    <2> QED BY <2>2, <2>4
  <1>8. ASSUME NEW d \in Device, Receipt(d) \/ ReceiptFrozen(d)
        PROVE  Forward(d)
    <2> DEFINE next == ApplyReceipts(mem[d], sent[d], accepted[d])
               blockedNext == [next EXCEPT !.blocked = TRUE]
               frozenNext == [next EXCEPT !.blocked = TRUE, !.frozen = TRUE]
    <2>1. /\ mem'[d] \in {next, blockedNext, frozenNext}
          /\ disk'[d] \in {next, frozenNext, disk[d]}
          /\ \A e \in Device \ {d} : mem'[e] = mem[e] /\ disk'[e] = disk[e]
      BY <1>1, <1>8 DEF Receipt, ReceiptFrozen, Persist, SavesOK
    <2>2. next \in Section /\ \A k \in Key : next.rows[k].rev = mem[d].rows[k].rev
      BY <1>2, ReceiptFacts
    <2> HIDE DEF next
    <2>3. blockedNext.rows = next.rows /\ frozenNext.rows = next.rows
      BY <2>2, FlagsKeepRows
    <2> HIDE DEF blockedNext, frozenNext
    <2>4. \A k \in Key : /\ mem'[d].rows[k].rev = mem[d].rows[k].rev
                         /\ disk'[d].rows[k].rev = mem[d].rows[k].rev
      BY <2>1, <2>2, <2>3 DEF MemDisk
    <2> QED BY <1>3, <2>1, <2>4, BeatsIrreflexive
  <1>9. ASSUME NEW d \in Device, Crash(d)
        PROVE  Forward(d)
    <2>1. /\ mem'[d] = disk[d] /\ disk' = disk
          /\ \A e \in Device \ {d} : mem'[e] = mem[e]
      BY <1>1, <1>9 DEF Crash, SavesOK
    <2> QED BY <1>3, <2>1, BeatsIrreflexive DEF MemDisk
  <1>10. ASSUME NEW d \in Device, Forward(d)
         PROVE  /\ MemDisk'
                /\ \A e \in Device, k \in Key : ~Beats(mem[e].rows[k].rev, mem'[e].rows[k].rev)
    BY <1>3, <1>10, BeatsIrreflexive DEF MemDisk
  <1>11. ASSUME NEW d \in Device,
                Pull(d) \/ PushBatch(d) \/ PushFrozen(d) \/ Abort(d) \/ PushFails(d)
         PROVE  UNCHANGED <<mem, disk>>
    BY <1>11 DEF Pull, PushBatch, PushFrozen, Abort, PushFails
  <1>12. LateDelivery \/ FreezeChain \/ PurgeChain \/ RestoreChain \/ UNCHANGED vars
            => UNCHANGED <<mem, disk>>
    BY DEF LateDelivery, FreezeChain, PurgeChain, RestoreChain, vars
  <1> HIDE DEF Forward
  <1> QED BY <1>4, <1>5, <1>6, <1>7, <1>8, <1>9, <1>10, <1>11, <1>12 DEF Next, RoundStep

(* The initial state is coherent. *)
LEMMA CoherentInit == Init => IInv
  <1> SUFFICES ASSUME Init PROVE IInv
    OBVIOUS
  <1>1. TypeOK
    BY TypeInit
  <1>2. MemDisk
    BY DEF Init, MemDisk
  <1>3. chain.latest = 0 /\ \A k \in Key : chain.rows[k] = [seq |-> 0, body |-> NoRev]
    BY DEF Init, NoTable
  <1>4. chain \in Chain
    BY <1>1, TypeParts
  <1>5. ChainOK(chain)
    <2>1. \A k \in Key : chain.rows[k].seq = 0 /\ chain.rows[k].body = NoRev
      BY <1>3
    <2> QED BY <1>3, <2>1 DEF ChainOK, Present
  <1>6. SectionOK(chain, EmptySection)
    <2>1. /\ EmptySection.cursor = 0 /\ EmptySection.baseline = FALSE
          /\ \A k \in Key : EmptySection.rows[k].seq = 0 /\ EmptySection.rows[k].rev = NoRev
      BY DEF EmptySection, NoRow
    <2>2. \A k \in Key : chain.rows[k].seq = 0 /\ chain.rows[k].body = NoRev
      BY <1>3
    <2> QED BY <1>3, <2>1, <2>2, NoRevLoses DEF SectionOK, Sound
  <1>7. ASSUME NEW d \in Device PROVE DeviceOK(chain, d)
    <2>1. SentOK(chain, NothingSent, NoReceipts)
      BY <1>4, <1>5, BlankOK
    <2>2. /\ mem[d] = EmptySection /\ disk[d] = EmptySection /\ pc[d] = "idle"
          /\ sent[d] = NothingSent /\ accepted[d] = NoReceipts
      BY DEF Init
    <2> QED BY <1>6, <2>1, <2>2 DEF DeviceOK
  <1>8. NetOK(chain)
    BY DEF Init, NetOK
  <1> QED BY <1>1, <1>2, <1>5, <1>7, <1>8 DEF IInv, Coherent

(* IInv is an invariant. *)
THEOREM Invariance == Spec => []IInv
  <1>1. IInv /\ [Next]_vars => IInv'
    <2> SUFFICES ASSUME IInv, [Next]_vars PROVE IInv'
      OBVIOUS
    <2>1. TypeOK'
      BY TypeStep DEF IInv
    <2>2. Coherent'
      BY <2>1, CoherentStep DEF IInv
    <2>3. MemDisk'
      BY RevisionStep DEF IInv
    <2> QED BY <2>1, <2>2, <2>3 DEF IInv
  <1> QED BY CoherentInit, <1>1, PTL DEF Spec

(* For every number of devices, records, edits and faults: a row that is   *)
(* not marked for upload, in the memory or the state file of a device, is  *)
(* on the relay, or the relay has a later one (apply_receipts() and        *)
(* merge_rows() never clean too much).                                     *)
THEOREM NothingForgotten == Spec => []CleanMeansStored
  <1>1. IInv => CleanMeansStored
    BY DEF IInv, Coherent, DeviceOK, SectionOK, CleanMeansStored
  <1> QED BY Invariance, <1>1, PTL

(* A device never has to ask again for a row its cursor has passed: what   *)
(* merge_space() stored up to the cursor includes it.                      *)
THEOREM NothingSkipped == Spec => []CursorCovers
  <1>1. IInv => CursorCovers
    BY DEF IInv, Coherent, DeviceOK, SectionOK, CursorCovers
  <1> QED BY Invariance, <1>1, PTL

(* valid_pull() accepts every answer of a relay that has not lost rows, so *)
(* crashes, failed saves and lost answers never block the account.         *)
THEOREM HonestRelayTrusted == Spec => []HonestPullAccepted
  <1>1. ASSUME IInv PROVE HonestPullAccepted
    <2> SUFFICES ASSUME NEW d \in Device, pc[d] = "merge", ~chain.lost
                 PROVE  ValidPull(mem[d], pulled[d])
      BY DEF HonestPullAccepted
    <2>1. PulledOK(chain, mem[d], pulled[d]) /\ mem[d] \in Section /\ pulled[d] \in Answer
      BY <1>1, TypeParts DEF IInv, Coherent, DeviceOK, SavesOK, RoundOK
    <2>2. /\ mem[d].cursor \in Nat /\ pulled[d].latest \in Nat /\ pulled[d].since \in Nat
          /\ \A k \in Key : mem[d].rows[k].seq \in Nat /\ pulled[d].rows[k].seq \in Nat
      BY <2>1 DEF Section, Answer, Stored
    <2>3. /\ pulled[d].since = IF mem[d].baseline THEN mem[d].cursor ELSE 0
          /\ mem[d].cursor <= pulled[d].latest
          /\ \A k \in Key : mem[d].rows[k].seq <= pulled[d].latest
      BY <2>1 DEF PulledOK
    <2>4. \A k \in Key : Present(pulled[d].rows[k]) =>
                /\ pulled[d].since < pulled[d].rows[k].seq
                /\ pulled[d].rows[k].seq <= pulled[d].latest
                /\ \A j \in Key \ {k} : pulled[d].rows[j].seq # pulled[d].rows[k].seq
      BY <2>1 DEF PulledOK
    <2>5. pulled[d].latest >= pulled[d].since
      BY <2>2, <2>3
    <2>6. (mem[d].baseline \/ pulled[d].since = 0)
          /\ (mem[d].baseline => pulled[d].since \in {0, mem[d].cursor})
      BY <2>3
    <2> QED BY <2>2, <2>3, <2>4, <2>5, <2>6 DEF ValidPull
  <1> QED BY Invariance, <1>1, PTL

(* No push, early, late or repeated, replaces a relay row by a revision    *)
(* that last-writer-wins would refuse.                                     *)
THEOREM RelayMovesForward == Spec => RelayNeverRegresses
  <1>1. ASSUME IInv, IInv', [Next]_vars
        PROVE  [~chain'.lost => \A k \in Key : ~Beats(chain.rows[k].body, chain'.rows[k].body)]_vars
    <2>1. ASSUME ~chain'.lost PROVE Grows(chain, chain')
      BY <1>1, <2>1, CoherentStep DEF IInv
    <2>2. \A k \in Key : chain.rows[k].body \in Rev
      BY <1>1, TypeParts DEF IInv, Chain, Stored
    <2> QED BY <2>1, <2>2, BeatsIrreflexive DEF Grows
  <1> QED BY Invariance, <1>1, PTL DEF Spec, RelayNeverRegresses

(* No step of a device, a restart included, takes a record back to an      *)
(* earlier revision.                                                       *)
THEOREM DevicesMoveForward == Spec => DeviceNeverRegresses
  <1>1. ASSUME IInv, [Next]_vars
        PROVE  [\A d \in Device, k \in Key :
                   ~Beats(mem[d].rows[k].rev, mem'[d].rows[k].rev)]_vars
    BY <1>1, RevisionStep DEF IInv
  <1> QED BY Invariance, <1>1, PTL DEF Spec, DeviceNeverRegresses

-----------------------------------------------------------------------------
(* Why a header names one revision: a device stamps every revision it      *)
(* makes later than the one it replaces, and it holds the latest of its    *)
(* own, wherever the others have travelled.                                *)
OwnNewest ==
    \A k \in Key, d \in Device : \A r \in AllRevs(k) :
        r.dev = d => r.ts <= mem[d].rows[k].rev.ts

(* Device d makes this revision of record k now. *)
MadeBy(d, k, r) == r.dev = d /\ r.ts > mem[d].rows[k].rev.ts

(* Revisions that were there before the step, or none. *)
Known(k) == AllRevs(k) \cup {NoRev}

(* In this step only device d makes revisions, and it keeps them itself. *)
OnlyNewBy(d) ==
    /\ \A k \in Key : chain'.rows[k].body \in Known(k)
    /\ \A e \in Device, k \in Key : pulled'[e].rows[k].body \in Known(k)
    /\ \A e \in Device, k \in Key :
          sent'[e][k].body \in Known(k) \cup {mem'[d].rows[k].rev}
    /\ \A items \in net' : \A k \in DOMAIN items : items[k].body \in Known(k)
    /\ \A e \in Device \ {d}, k \in Key : mem'[e].rows[k].rev = mem[e].rows[k].rev
    /\ \A k \in Key : \/ mem'[d].rows[k].rev \in Known(k)
                      \/ MadeBy(d, k, mem'[d].rows[k].rev)

(* Every revision anywhere is one. *)
LEMMA AllRevsTyped == TypeOK => \A k \in Key : AllRevs(k) \subseteq Rev
  <1> SUFFICES ASSUME TypeOK, NEW k \in Key PROVE AllRevs(k) \subseteq Rev
    OBVIOUS
  <1>1. chain.rows[k].body \in Rev
    BY DEF TypeOK
  <1>2. \A d \in Device : /\ mem[d].rows[k].rev \in Rev
                          /\ pulled[d].rows[k].body \in Rev
                          /\ sent[d][k].body \in Rev
    BY DEF TypeOK, Section
  <1>3. \A items \in net : k \in DOMAIN items => items[k].body \in Rev
    BY DEF TypeOK
  <1> QED BY <1>1, <1>2, <1>3 DEF AllRevs

(* Where the revisions of a record are, before a step. *)
LEMMA AllRevsHolds ==
    ASSUME NEW k \in Key
    PROVE  /\ chain.rows[k].body \in Known(k)
           /\ \A d \in Device : /\ mem[d].rows[k].rev \in Known(k)
                                /\ pulled[d].rows[k].body \in Known(k)
                                /\ sent[d][k].body \in Known(k)
           /\ \A items \in net : k \in DOMAIN items => items[k].body \in Known(k)
           /\ NoRev \in Known(k)
  BY DEF AllRevs, Known

(* A tie in last-writer-wins is equality of headers. *)
LEMMA TieMeansSameHeader ==
    ASSUME NEW a \in Rev, NEW b \in Rev, ~Beats(a, b), ~Beats(b, a)
    PROVE  a.ts = b.ts /\ a.dev = b.dev
  BY RevFields DEF Beats

(* The step of one device keeps headers unambiguous. *)
LEMMA HeadersKept ==
    ASSUME TypeOK, TypeOK', OwnNewest, HeaderIdentifiesRevision, NEW d \in Device,
           OnlyNewBy(d),
           \A k \in Key : ~Beats(mem[d].rows[k].rev, mem'[d].rows[k].rev)
    PROVE  OwnNewest' /\ HeaderIdentifiesRevision'
  <1>1. \A k \in Key : AllRevs(k)' \subseteq Rev
    <2>1. TypeOK' => (\A k \in Key : AllRevs(k) \subseteq Rev)'
      BY AllRevsTyped, PTL
    <2> QED BY <2>1
  <1>2. \A k \in Key : AllRevs(k)' \subseteq Known(k) \cup {mem'[d].rows[k].rev}
    <2> SUFFICES ASSUME NEW k \in Key, NEW r \in AllRevs(k)'
                 PROVE  r \in Known(k) \cup {mem'[d].rows[k].rev}
      OBVIOUS
    <2>1. \/ r = chain'.rows[k].body
          \/ \E e \in Device : r = mem'[e].rows[k].rev
          \/ \E e \in Device : r = pulled'[e].rows[k].body
          \/ \E e \in Device : r = sent'[e][k].body
          \/ \E items \in net' : k \in DOMAIN items /\ r = items[k].body
      BY DEF AllRevs
    <2>2. \A e \in Device \ {d} : mem'[e].rows[k].rev \in Known(k)
      BY AllRevsHolds DEF OnlyNewBy
    <2> QED BY <2>1, <2>2 DEF OnlyNewBy
  <1>3. ASSUME NEW k \in Key, NEW e \in Device
        PROVE  /\ mem[e].rows[k].rev \in Rev /\ mem'[e].rows[k].rev \in Rev
               /\ mem[e].rows[k].rev.ts <= mem'[e].rows[k].rev.ts
    <2>1. mem[e].rows[k].rev \in Rev /\ mem'[e].rows[k].rev \in Rev
      BY DEF TypeOK, Section
    <2>2. ~Beats(mem[e].rows[k].rev, mem'[e].rows[k].rev)
      BY <2>1, BeatsIrreflexive DEF OnlyNewBy
    <2> QED BY <2>1, <2>2, RevFields DEF Beats
  <1>4. NoRev.dev \notin Device /\ NoRev.ts = 0
    BY DeviceAssumption DEF NoRev
  <1>5. ASSUME NEW k \in Key, NEW r \in AllRevs(k)'
        PROVE  \/ r \in AllRevs(k)
               \/ r = NoRev
               \/ r = mem'[d].rows[k].rev /\ MadeBy(d, k, r)
    BY <1>2 DEF OnlyNewBy, Known
  <1>6. ASSUME NEW k \in Key, NEW e \in Device, NEW r \in AllRevs(k)', r.dev = e
        PROVE  r.ts <= mem'[e].rows[k].rev.ts
    <2>1. r \in Rev /\ r.ts \in Nat /\ mem[e].rows[k].rev.ts \in Nat
          /\ mem'[e].rows[k].rev.ts \in Nat
      BY <1>1, <1>3, RevFields
    <2>2. CASE r \in AllRevs(k)
      <3>1. r.ts <= mem[e].rows[k].rev.ts
        BY <1>6, <2>2 DEF OwnNewest
      <3> QED BY <1>3, <2>1, <3>1
    <2>3. CASE r = mem'[d].rows[k].rev /\ MadeBy(d, k, r)
      BY <1>6, <2>1, <2>3 DEF MadeBy
    <2> QED BY <1>4, <1>5, <1>6, <2>2, <2>3
  <1>7. ASSUME NEW k \in Key, NEW a \in AllRevs(k)', NEW b \in AllRevs(k)',
               ~Beats(a, b), ~Beats(b, a)
        PROVE  a = b
    <2>1. /\ a \in Rev /\ b \in Rev /\ a.ts = b.ts /\ a.dev = b.dev
          /\ a.ts \in Nat /\ b.ts \in Nat /\ mem[d].rows[k].rev.ts \in Nat
      BY <1>1, <1>3, <1>7, RevFields, TieMeansSameHeader
    <2>2. CASE a \in AllRevs(k) /\ b \in AllRevs(k)
      BY <1>7, <2>2 DEF HeaderIdentifiesRevision
    <2>3. CASE a = NoRev \/ b = NoRev
      BY <1>4, <2>1, <2>3, RevFields
    <2>4. ASSUME NEW r \in AllRevs(k), NEW n, MadeBy(d, k, n), r.dev = n.dev, r.ts = n.ts
          PROVE  FALSE
      <3>1. r.ts <= mem[d].rows[k].rev.ts
        BY <2>4 DEF OwnNewest, MadeBy
      <3>2. r.ts > mem[d].rows[k].rev.ts
        BY <2>4 DEF MadeBy
      <3>3. r.ts \in Nat
        BY AllRevsTyped, RevFields
      <3> QED BY <2>1, <3>1, <3>2, <3>3
    <2> QED BY <1>5, <2>1, <2>2, <2>3, <2>4
  <1> QED BY <1>6, <1>7 DEF OwnNewest, HeaderIdentifiesRevision

-----------------------------------------------------------------------------
(* The revisions that finish() and invalidate_changed_pins() make. *)
LEMMA UnpinMakes ==
    ASSUME NEW d \in Device, NEW rows \in [Key -> Row], NEW hosts \in SUBSET Host,
           NEW now \in Nat,
           edits \in Nat, NEW k \in Key
    PROVE  LET new == Unpin(d, rows, hosts, now)[k].rev
           IN  \/ new = rows[k].rev
               \/ new.dev = d /\ new.ts > rows[k].rev.ts
  <1>1. rows[k] \in Row /\ rows[k].rev \in Rev /\ rows[k].rev.ts \in Nat
    BY RevFields DEF Row
  <1>2. CASE k \in hosts
    <2> DEFINE new == NewRev(d, rows[k].rev, now, FALSE)
    <2>1. new.dev = d /\ new.ts > rows[k].rev.ts
      BY <1>1 DEF NewRev, Stamp
    <2>2. Unpin(d, rows, hosts, now)[k] = [rows[k] EXCEPT !.rev = new, !.dirty = TRUE]
      BY <1>2 DEF Unpin
    <2>3. Unpin(d, rows, hosts, now)[k].rev = new
      BY <1>1, <2>2 DEF Row
    <2> QED BY <2>1, <2>3
  <1>3. CASE k \notin hosts
    BY <1>3 DEF Unpin
  <1> QED BY <1>2, <1>3

(* The revisions that an edit makes: of the record, and of hosts that lose *)
(* their pin with it.                                                      *)
LEMMA EditMakes ==
    ASSUME SavesOK, CountsOK, NEW d \in Device, NEW k \in Key, NEW now \in 1..MaxNow,
           NEW del \in BOOLEAN, Edit(d, k, now, del)
    PROVE  /\ \A e \in Device \ {d} : mem'[e] = mem[e]
           /\ \A j \in Key : \/ mem'[d].rows[j].rev = mem[d].rows[j].rev
                             \/ MadeBy(d, j, mem'[d].rows[j].rev)
  <1> DEFINE old == mem[d].rows
             new == NewRev(d, old[k].rev, now, del)
             rows == [old EXCEPT ![k] = [rev |-> new, seq |-> old[k].seq, dirty |-> TRUE]]
  <1>1. PICK hosts \in SUBSET (Repinnable(old, rows) \ {k}) :
               Persist(d, [mem[d] EXCEPT !.rows = Unpin(d, rows, hosts, now)])
    BY DEF Edit
  <1>2. rows \in [Key -> Row]
    BY EditRows
  <1>3. hosts \in SUBSET Host /\ k \notin hosts
    BY DEF Repinnable
  <1>4. mem[d] \in Section /\ edits \in Nat /\ now \in Nat
    BY SyncAssumption DEF SavesOK, CountsOK
  <1>5. old \in [Key -> Row] /\ old[k].rev \in Rev /\ old[k].rev.ts \in Nat
    BY <1>4, RevFields DEF Section, Row
  <1>6. new.dev = d /\ new.ts > old[k].rev.ts
    BY <1>4, <1>5 DEF NewRev, Stamp
  <1> HIDE DEF old, new
  <1>7. rows[k].rev = new /\ \A j \in Key \ {k} : rows[j] = old[j]
    BY <1>5
  <1> HIDE DEF rows
  <1> DEFINE un == Unpin(d, rows, hosts, now)
  <1>8. \A j \in Key : \/ un[j].rev = rows[j].rev
                       \/ un[j].rev.dev = d /\ un[j].rev.ts > rows[j].rev.ts
    BY <1>2, <1>3, <1>4, UnpinMakes
  <1>9. un[k] = rows[k]
    BY <1>3 DEF Unpin
  <1> HIDE DEF un
  <1>10. /\ mem'[d].rows = un /\ \A e \in Device \ {d} : mem'[e] = mem[e]
    <2>1. mem' = [mem EXCEPT ![d] = [mem[d] EXCEPT !.rows = un]]
      BY <1>1 DEF Persist, un
    <2>2. [mem[d] EXCEPT !.rows = un].rows = un
      BY <1>4 DEF Section
    <2> QED BY <2>1, <2>2 DEF SavesOK
  <1>11. \A j \in Key : \/ un[j].rev = old[j].rev
                        \/ un[j].rev.dev = d /\ un[j].rev.ts > old[j].rev.ts
    BY <1>6, <1>7, <1>8, <1>9
  <1> QED BY <1>10, <1>11 DEF MadeBy, old

(* The revisions that a merge leaves: the device's, the pulled ones, and   *)
(* those of hosts that lose their pin.                                     *)
LEMMA MergeMakes ==
    ASSUME SavesOK, CountsOK, RoundOK, NEW d \in Device, Merge(d)
    PROVE  /\ \A e \in Device \ {d} : mem'[e] = mem[e]
           /\ \A k \in Key : \/ mem'[d].rows[k].rev = mem[d].rows[k].rev
                             \/ mem'[d].rows[k].rev = pulled[d].rows[k].body
                             \/ MadeBy(d, k, mem'[d].rows[k].rev)
           /\ \/ EndRound(d)
              \/ /\ pulled' = [pulled EXCEPT ![d] = NoPull]
                 /\ sent' = [sent EXCEPT ![d] = Outgoing(mem'[d])]
  <1> DEFINE merged == MergeSpace(mem[d], pulled[d])
  <1>1. PICK hosts \in SUBSET Repinnable(mem[d].rows, merged.rows) :
              LET next == [merged EXCEPT !.rows = Unpin(d, merged.rows, hosts, 0)]
              IN  /\ Persist(d, next)
                  /\ \/ EndRound(d)
                     \/ /\ pulled' = [pulled EXCEPT ![d] = NoPull]
                        /\ sent' = [sent EXCEPT ![d] = Outgoing(next)]
    BY DEF Merge
  <1>2. mem[d] \in Section /\ pulled[d] \in Answer /\ edits \in Nat
    BY SyncAssumption DEF SavesOK, RoundOK, CountsOK
  <1>3. /\ merged \in Section
        /\ \A k \in Key : merged.rows[k] = MergeRow(mem[d].rows[k], pulled[d].rows[k])
    BY <1>2, MergeSpaceFacts DEF Answer
  <1>4. hosts \in SUBSET Host /\ merged.rows \in [Key -> Row]
    BY <1>3 DEF Repinnable, Section, Row
  <1> HIDE DEF merged
  <1> DEFINE un == Unpin(d, merged.rows, hosts, 0)
             next == [merged EXCEPT !.rows = un]
  <1>5. \A k \in Key : \/ un[k].rev = merged.rows[k].rev
                       \/ un[k].rev.dev = d /\ un[k].rev.ts > merged.rows[k].rev.ts
    BY <1>2, <1>4, UnpinMakes
  <1>6. Persist(d, next) /\ un \in [Key -> Row]
    BY <1>1, <1>2, <1>4, UnpinFacts
  <1> HIDE DEF un
  <1>7. next.rows = un
    BY <1>3 DEF Section
  <1> HIDE DEF next
  <1>8. mem'[d] = next /\ \A e \in Device \ {d} : mem'[e] = mem[e]
    BY <1>6 DEF Persist, SavesOK
  <1>9. ASSUME NEW k \in Key
        PROVE  \/ un[k].rev = mem[d].rows[k].rev
               \/ un[k].rev = pulled[d].rows[k].body
               \/ un[k].rev.dev = d /\ un[k].rev.ts > mem[d].rows[k].rev.ts
    <2>1. mem[d].rows[k] \in Row /\ pulled[d].rows[k] \in Stored
      BY <1>2 DEF Section, Row, Answer
    <2>2. /\ merged.rows[k].rev \in {mem[d].rows[k].rev, pulled[d].rows[k].body}
          /\ ~Beats(mem[d].rows[k].rev, merged.rows[k].rev)
      BY <1>3, <2>1, MergeRowFacts
    <2>3. /\ mem[d].rows[k].rev \in Rev /\ merged.rows[k].rev \in Rev /\ un[k].rev \in Rev
      BY <1>4, <1>6, <2>1 DEF Row
    <2>4. /\ mem[d].rows[k].rev.ts \in Nat /\ merged.rows[k].rev.ts \in Nat
          /\ un[k].rev.ts \in Nat
      BY <2>3, RevFields
    <2>5. mem[d].rows[k].rev.ts <= merged.rows[k].rev.ts
      BY <2>2, <2>4 DEF Beats
    <2> QED BY <1>5, <2>2, <2>4, <2>5
  <1>10. \/ EndRound(d)
         \/ /\ pulled' = [pulled EXCEPT ![d] = NoPull]
            /\ sent' = [sent EXCEPT ![d] = Outgoing(next)]
    BY <1>1 DEF next, un
  <1> QED BY <1>7, <1>8, <1>9, <1>10 DEF MadeBy

(* The end of a round forgets revisions, it makes none. *)
LEMMA EndRoundKnown ==
    ASSUME RoundOK, NEW d \in Device, EndRound(d)
    PROVE  \A e \in Device, k \in Key : /\ pulled'[e].rows[k].body \in Known(k)
                                        /\ sent'[e][k].body \in Known(k)
  <1>1. /\ \A e \in Device : /\ pulled'[e] \in {pulled[e], NoPull}
                             /\ sent'[e] \in {sent[e], NothingSent}
    BY DEF RoundOK, EndRound
  <1>2. \A k \in Key : NoPull.rows[k].body = NoRev /\ NothingSent[k].body = NoRev
    BY DEF NoPull, NoTable, NothingSent
  <1> QED BY <1>1, <1>2, AllRevsHolds

(* What push() stores was stored before, or was in the request. *)
LEMMA RelayPushKnown ==
    ASSUME TypeOK, NEW items, DOMAIN items \subseteq Key,
           \A k \in DOMAIN items : items[k] \in Item /\ items[k].body \in Known(k),
           RelayPush(items)
    PROVE  \A k \in Key : chain'.rows[k].body \in Known(k)
  <1>1. CASE chain.frozen \/ chain.gone
    BY <1>1, AllRevsHolds DEF RelayPush
  <1>2. CASE ~(chain.frozen \/ chain.gone)
    <2> DEFINE acc == Accepted(chain.rows, items)
    <2>1. chain \in Chain
      BY TypeParts
    <2>2. Pushed(chain, chain', items, acc)
      BY <1>2, <2>1, PushFacts DEF RelayPush
    <2>3. acc \subseteq DOMAIN items
      BY DEF Accepted
    <2> HIDE DEF acc
    <2> QED BY <2>2, <2>3, AllRevsHolds DEF Pushed
  <1> QED BY <1>1, <1>2

(* A batch carries what the device has set out to send. *)
LEMMA BatchKnown ==
    ASSUME TypeOK, NEW d \in Device, NEW b \in Batches(d)
    PROVE  /\ DOMAIN BatchItems(d, b) \subseteq Key
           /\ \A k \in DOMAIN BatchItems(d, b) :
                 BatchItems(d, b)[k] \in Item /\ BatchItems(d, b)[k].body \in Known(k)
  <1>1. RoundOK /\ b \subseteq Key
    BY TypeParts DEF Batches, TypeOK
  <1>2. DOMAIN BatchItems(d, b) = b /\ \A k \in b : BatchItems(d, b)[k] = sent[d][k]
    BY DEF BatchItems
  <1>3. \A k \in Key : sent[d][k] \in Item /\ sent[d][k].body \in Known(k)
    BY <1>1, AllRevsHolds DEF RoundOK
  <1> QED BY <1>1, <1>2, <1>3

(* Every step is one that makes revisions on one device only. *)
LEMMA StepMakes ==
    ASSUME TypeOK, MemDisk, [Next]_vars, NEW someone \in Device
    PROVE  \E d \in Device : OnlyNewBy(d)
  <1>1. chain \in Chain /\ SavesOK /\ RoundOK /\ NetType /\ CountsOK
    BY TypeParts
  <1>2. \A d \in Device : mem[d] \in Section /\ disk[d] \in Section /\ pulled[d] \in Answer
                          /\ sent[d] \in [Key -> Item] /\ accepted[d] \in [Key -> Nat]
    BY <1>1 DEF SavesOK, RoundOK
  <1> DEFINE SameMem == \A e \in Device, k \in Key : mem'[e].rows[k].rev = mem[e].rows[k].rev
             SameRound == \A e \in Device, k \in Key : /\ pulled'[e].rows[k].body \in Known(k)
                                                       /\ sent'[e][k].body \in Known(k)
             SameNet == \A items \in net' : \A k \in DOMAIN items : items[k].body \in Known(k)
             SameChain == \A k \in Key : chain'.rows[k].body \in Known(k)
  <1>3. UNCHANGED mem => SameMem
    OBVIOUS
  <1>4. (UNCHANGED <<pulled, sent>> => SameRound) /\ (UNCHANGED chain => SameChain)
    BY AllRevsHolds
  <1>5. UNCHANGED net => SameNet
    BY <1>1, AllRevsHolds DEF NetType
  <1>6. \A d \in Device : EndRound(d) => SameRound
    BY <1>1, EndRoundKnown
  <1>7. ASSUME SameMem, SameRound, SameNet, SameChain, NEW d \in Device PROVE OnlyNewBy(d)
    BY <1>7, AllRevsHolds DEF OnlyNewBy
  <1>8. ASSUME NEW d \in Device, NEW k \in Key, NEW now \in 1..MaxNow, NEW del \in BOOLEAN,
               Edit(d, k, now, del)
        PROVE  OnlyNewBy(d)
    <2>1. /\ \A e \in Device \ {d} : mem'[e] = mem[e]
          /\ \A j \in Key : \/ mem'[d].rows[j].rev = mem[d].rows[j].rev
                            \/ MadeBy(d, j, mem'[d].rows[j].rev)
      BY <1>1, <1>8, EditMakes
    <2>2. SameRound /\ SameNet /\ SameChain
      BY <1>4, <1>5, <1>8 DEF Edit, roundData
    <2> QED BY <2>1, <2>2, AllRevsHolds DEF OnlyNewBy
  <1>9. ASSUME NEW d \in Device, Merge(d)
        PROVE  OnlyNewBy(d)
    <2>1. /\ \A e \in Device \ {d} : mem'[e] = mem[e]
          /\ \A k \in Key : \/ mem'[d].rows[k].rev = mem[d].rows[k].rev
                            \/ mem'[d].rows[k].rev = pulled[d].rows[k].body
                            \/ MadeBy(d, k, mem'[d].rows[k].rev)
          /\ \/ EndRound(d)
             \/ /\ pulled' = [pulled EXCEPT ![d] = NoPull]
                /\ sent' = [sent EXCEPT ![d] = Outgoing(mem'[d])]
      BY <1>1, <1>9, MergeMakes
    <2>2. SameNet /\ SameChain
      BY <1>4, <1>5, <1>9 DEF Merge
    <2>3. \A e \in Device, k \in Key :
             /\ pulled'[e].rows[k].body \in Known(k)
             /\ sent'[e][k].body \in Known(k) \cup {mem'[d].rows[k].rev}
      <3>1. CASE EndRound(d)
        BY <1>6, <3>1
      <3>2. CASE /\ pulled' = [pulled EXCEPT ![d] = NoPull]
                 /\ sent' = [sent EXCEPT ![d] = Outgoing(mem'[d])]
        <4>1. \A e \in Device : /\ pulled'[e] \in {pulled[e], NoPull}
                                /\ sent'[e] \in {sent[e], Outgoing(mem'[d])}
          BY <1>1, <3>2 DEF RoundOK
        <4>2. \A k \in Key : /\ NoPull.rows[k].body = NoRev
                             /\ Outgoing(mem'[d])[k].body = mem'[d].rows[k].rev
          BY DEF NoPull, NoTable, Outgoing
        <4> QED BY <4>1, <4>2, AllRevsHolds
      <3> QED BY <2>1, <3>1, <3>2
    <2> QED BY <2>1, <2>2, <2>3, AllRevsHolds DEF OnlyNewBy
  <1>10. ASSUME NEW d \in Device, Pull(d)
         PROVE  OnlyNewBy(d)
    <2>1. SameMem /\ SameNet /\ SameChain
      BY <1>3, <1>4, <1>5, <1>10 DEF Pull
    <2>2. PICK since \in {0, mem[d].cursor} :
              /\ pulled' = [pulled EXCEPT ![d] =
                    [since |-> since, latest |-> chain.latest,
                     rows |-> [k \in Key |-> IF k \in NewerThan(chain.rows, since)
                                             THEN chain.rows[k] ELSE NoTable[k]]]]
              /\ UNCHANGED sent
      BY <1>10 DEF Pull
    <2> DEFINE answer == [k \in Key |-> IF k \in NewerThan(chain.rows, since)
                                        THEN chain.rows[k] ELSE NoTable[k]]
    <2>3. \A k \in Key : answer[k].body \in Known(k)
      <3>1. \A k \in Key : NoTable[k].body = NoRev
        BY DEF NoTable
      <3> QED BY <3>1, AllRevsHolds
    <2>4. /\ pulled'[d].rows = answer
          /\ \A e \in Device \ {d} : pulled'[e] = pulled[e]
      BY <1>1, <2>2 DEF RoundOK
    <2> HIDE DEF answer
    <2>5. SameRound
      BY <2>2, <2>3, <2>4, AllRevsHolds
    <2> QED BY <1>7, <2>1, <2>5
  <1>11. ASSUME NEW d \in Device, StartRound(d) \/ PullNotFound(d) \/ RefusePull(d)
         PROVE  OnlyNewBy(d)
    <2>1. PICK next : /\ Persist(d, next)
                      /\ \/ next = [mem[d] EXCEPT !.blocked = FALSE]
                         \/ next = [mem[d] EXCEPT !.missing = TRUE]
                         \/ next = [mem[d] EXCEPT !.blocked = TRUE]
      BY <1>11 DEF StartRound, PullNotFound, RefusePull
    <2>2. mem'[d] = next /\ \A e \in Device \ {d} : mem'[e] = mem[e]
      BY <1>1, <2>1 DEF Persist, SavesOK
    <2>3. next.rows = mem[d].rows
      BY <1>2, <2>1, FlagsKeepRows
    <2>4. SameRound /\ SameNet /\ SameChain
      BY <1>4, <1>5, <1>6, <1>11 DEF StartRound, PullNotFound, RefusePull, roundData
    <2> QED BY <1>7, <2>2, <2>3, <2>4
  <1>12. ASSUME NEW d \in Device, Receipt(d) \/ ReceiptFrozen(d)
         PROVE  OnlyNewBy(d)
    <2> DEFINE next == ApplyReceipts(mem[d], sent[d], accepted[d])
               blockedNext == [next EXCEPT !.blocked = TRUE]
               frozenNext == [next EXCEPT !.blocked = TRUE, !.frozen = TRUE]
    <2>1. /\ mem'[d] \in {next, blockedNext, frozenNext}
          /\ \A e \in Device \ {d} : mem'[e] = mem[e]
      BY <1>1, <1>12 DEF Receipt, ReceiptFrozen, Persist, SavesOK
    <2>2. next \in Section /\ \A k \in Key : next.rows[k].rev = mem[d].rows[k].rev
      BY <1>2, ReceiptFacts
    <2> HIDE DEF next
    <2>3. blockedNext.rows = next.rows /\ frozenNext.rows = next.rows
      BY <2>2, FlagsKeepRows
    <2> HIDE DEF blockedNext, frozenNext
    <2>4. SameRound /\ SameNet /\ SameChain
      BY <1>4, <1>5, <1>6, <1>12 DEF Receipt, ReceiptFrozen
    <2> QED BY <1>7, <2>1, <2>2, <2>3, <2>4
  <1>13. ASSUME NEW d \in Device, Crash(d)
         PROVE  OnlyNewBy(d)
    <2>1. mem'[d] = disk[d] /\ \A e \in Device \ {d} : mem'[e] = mem[e]
      BY <1>1, <1>13 DEF Crash, SavesOK
    <2>2. SameRound /\ SameNet /\ SameChain
      BY <1>4, <1>5, <1>6, <1>13 DEF Crash
    <2> QED BY <1>7, <2>1, <2>2 DEF MemDisk
  <1>14. ASSUME NEW d \in Device, Abort(d) \/ PushFrozen(d)
         PROVE  OnlyNewBy(d)
    <2>1. SameMem /\ SameRound /\ SameNet /\ SameChain
      BY <1>3, <1>4, <1>5, <1>6, <1>14 DEF Abort, PushFrozen
    <2> QED BY <1>7, <2>1
  <1>15. ASSUME NEW d \in Device, PushBatch(d)
         PROVE  OnlyNewBy(d)
    <2>1. SameMem /\ SameRound /\ SameNet
      BY <1>3, <1>4, <1>5, <1>15 DEF PushBatch
    <2>2. PICK b \in Batches(d) : RelayPush(BatchItems(d, b))
      BY <1>15 DEF PushBatch
    <2>3. SameChain
      BY <2>2, BatchKnown, RelayPushKnown
    <2> QED BY <1>7, <2>1, <2>3
  <1>16. ASSUME NEW d \in Device, PushFails(d)
         PROVE  OnlyNewBy(d)
    <2>1. SameMem /\ SameRound
      BY <1>3, <1>4, <1>16 DEF PushFails
    <2>2. PICK b \in Batches(d) :
             \/ UNCHANGED <<chain, net>>
             \/ RelayPush(BatchItems(d, b)) /\ UNCHANGED net
             \/ net' = net \cup {BatchItems(d, b)} /\ UNCHANGED chain
      BY <1>16 DEF PushFails
    <2>3. SameChain
      BY <1>4, <2>2, BatchKnown, RelayPushKnown
    <2>4. SameNet
      <3>1. \A items \in net : \A k \in DOMAIN items : items[k].body \in Known(k)
        BY <1>1, AllRevsHolds DEF NetType
      <3> QED BY <2>2, <3>1, BatchKnown
    <2> QED BY <1>7, <2>1, <2>3, <2>4
  <1>17. ASSUME LateDelivery PROVE OnlyNewBy(someone)
    <2>1. SameMem /\ SameRound
      BY <1>3, <1>4, <1>17 DEF LateDelivery, roundData
    <2>2. PICK items \in net : RelayPush(items) /\ net' = net \ {items}
      BY <1>17 DEF LateDelivery
    <2>3. \A i \in net : /\ DOMAIN i \subseteq Key
                         /\ \A k \in DOMAIN i : i[k] \in Item /\ i[k].body \in Known(k)
      BY <1>1, AllRevsHolds DEF NetType
    <2>4. SameNet /\ SameChain
      BY <2>2, <2>3, RelayPushKnown
    <2> QED BY <1>7, <2>1, <2>4
  <1>18. ASSUME FreezeChain \/ PurgeChain \/ RestoreChain PROVE OnlyNewBy(someone)
    <2>1. SameMem /\ SameRound /\ SameNet
      BY <1>3, <1>4, <1>5, <1>18 DEF FreezeChain, PurgeChain, RestoreChain, roundData
    <2>2. chain'.rows \in {chain.rows, NoTable}
      BY <1>1, <1>18 DEF FreezeChain, PurgeChain, RestoreChain, Chain
    <2>3. \A k \in Key : NoTable[k].body = NoRev
      BY DEF NoTable
    <2> QED BY <1>7, <2>1, <2>2, <2>3, AllRevsHolds
  <1>19. ASSUME UNCHANGED vars PROVE OnlyNewBy(someone)
    BY <1>3, <1>4, <1>5, <1>7, <1>19 DEF vars
  <1> HIDE DEF SameMem, SameRound, SameNet, SameChain
  <1> QED BY <1>8, <1>9, <1>10, <1>11, <1>12, <1>13, <1>14, <1>15, <1>16, <1>17, <1>18, <1>19
          DEF Next, RoundStep

(* merge() compares headers only, and that is enough: for every number of  *)
(* devices, edits, faults, late requests and crashes, two revisions of a   *)
(* record with the same header are the same revision.                      *)
THEOREM HeadersUnambiguous == Spec => []HeaderIdentifiesRevision
  <1>1. Init => OwnNewest /\ HeaderIdentifiesRevision
    <2> SUFFICES ASSUME Init, NEW k \in Key PROVE AllRevs(k) \subseteq {NoRev}
      <3>1. NoRev.dev \notin Device
        BY DeviceAssumption DEF NoRev
      <3> QED BY <3>1 DEF OwnNewest, HeaderIdentifiesRevision
    <2> QED BY DEF Init, AllRevs, NoTable, EmptySection, NoRow, NoPull, NothingSent
  <1>2. ASSUME IInv, IInv', OwnNewest, HeaderIdentifiesRevision, [Next]_vars
        PROVE  OwnNewest' /\ HeaderIdentifiesRevision'
    <2>1. PICK d \in Device : OnlyNewBy(d)
      BY <1>2, StepMakes, DeviceAssumption DEF IInv
    <2>2. \A k \in Key : ~Beats(mem[d].rows[k].rev, mem'[d].rows[k].rev)
      BY <1>2, RevisionStep DEF IInv
    <2> QED BY <1>2, <2>1, <2>2, HeadersKept DEF IInv
  <1> QED BY <1>1, <1>2, Invariance, PTL DEF Spec

-----------------------------------------------------------------------------
(* The relay's push() is a write of the service, or changes nothing. *)
LEMMA PushIsWrite ==
    ASSUME TypeOK, NEW items, DOMAIN items \subseteq Key,
           \A k \in DOMAIN items : items[k] \in Item, RelayPush(items)
    PROVE  Service!Write \/ UNCHANGED chain
  <1>1. chain \in Chain
    BY TypeParts
  <1>2. CASE chain.frozen \/ chain.gone
    BY <1>2 DEF RelayPush
  <1>3. CASE ~(chain.frozen \/ chain.gone)
    <2> DEFINE acc == Accepted(chain.rows, items)
    <2>1. chain' = [chain EXCEPT !.rows = RowsAfter(chain.rows, chain.latest, items),
                                 !.latest = LatestAfter(chain.rows, chain.latest, items)]
      BY <1>3 DEF RelayPush
    <2>2. chain'.gone = chain.gone /\ chain'.frozen = chain.frozen
      BY <1>1, <2>1 DEF Chain
    <2>3. Pushed(chain, chain', items, acc)
      BY <1>1, <2>1, PushFacts
    <2>4. acc \in SUBSET Key /\ chain.latest \in Nat
      BY <1>1 DEF Accepted, Chain
    <2> HIDE DEF acc
    <2>5. {chain'.rows[k].seq : k \in acc} = (chain.latest + 1)..chain'.latest
      <3>1. {chain'.rows[k].seq : k \in acc} = {SeqOf(chain.latest, acc, k) : k \in acc}
        BY <2>3 DEF Pushed
      <3> QED BY <2>3, <2>4, <3>1, NumbersConsecutive DEF Pushed
    <2>6. \E written \in SUBSET Key :
             /\ chain'.latest = chain.latest + Cardinality(written)
             /\ {chain'.rows[k].seq : k \in written} = (chain.latest + 1)..chain'.latest
             /\ \A k \in Key \ written : chain'.rows[k] = chain.rows[k]
      BY <2>3, <2>4, <2>5 DEF Pushed
    <2>7. \A S : Service!Cardinality(S) = Cardinality(S)
      BY DEF Service!Cardinality, Cardinality, Service!IsFiniteSet, IsFiniteSet
    <2> QED BY <1>3, <2>2, <2>6, <2>7 DEF Service!Write
  <1> QED BY <1>2, <1>3

(* The relay of this module, which devices reach with requests that are    *)
(* late or repeated, stays within ChainService; ChainStore, the relay's    *)
(* code, does too.                                                         *)
THEOREM RelayWithinService == Spec => RelayIsService
  <1>1. Init => Service!Init
    BY DEF Init, Service!Init, Service!Nothing, NoTable
  <1>2. ASSUME IInv, [Next]_vars PROVE [Service!Next \/ RestoreChain]_chain
    <2>1. TypeOK /\ NetType /\ chain \in Chain
      BY <1>2, TypeParts DEF IInv
    <2>2. ASSUME NEW d \in Device, PushBatch(d) \/ PushFails(d)
          PROVE  Service!Write \/ UNCHANGED chain
      <3>1. \/ UNCHANGED chain
            \/ \E b \in Batches(d) : RelayPush(BatchItems(d, b))
        BY <2>2 DEF PushBatch, PushFails
      <3> QED BY <2>1, <3>1, BatchKnown, PushIsWrite
    <2>3. ASSUME LateDelivery PROVE Service!Write \/ UNCHANGED chain
      <3>1. PICK items \in net : RelayPush(items)
        BY <2>3 DEF LateDelivery
      <3>2. DOMAIN items \subseteq Key /\ \A k \in DOMAIN items : items[k] \in Item
        BY <2>1 DEF NetType
      <3> QED BY <2>1, <3>1, <3>2, PushIsWrite
    <2>4. ASSUME FreezeChain PROVE Service!Freeze
      BY <2>1, <2>4 DEF FreezeChain, Service!Freeze, Chain
    <2>5. ASSUME PurgeChain PROVE Service!Erase
      BY <2>5 DEF PurgeChain, Service!Erase, Service!Nothing, NoTable
    <2>6. ASSUME NEW d \in Device,
                 \/ \E k \in Key, now \in 1..MaxNow, del \in BOOLEAN : Edit(d, k, now, del)
                 \/ StartRound(d) \/ Pull(d) \/ PullNotFound(d) \/ RefusePull(d) \/ Merge(d)
                 \/ PushFrozen(d) \/ Receipt(d) \/ ReceiptFrozen(d) \/ Abort(d) \/ Crash(d)
          PROVE  UNCHANGED chain
      BY <2>6 DEF Edit, StartRound, Pull, PullNotFound, RefusePull, Merge, PushFrozen,
                  Receipt, ReceiptFrozen, Abort, Crash
    <2>7. UNCHANGED vars => UNCHANGED chain
      BY DEF vars
    <2> QED BY <1>2, <2>2, <2>3, <2>4, <2>5, <2>6, <2>7 DEF Next, RoundStep, Service!Next
  <1> QED BY <1>1, <1>2, Invariance, PTL DEF Spec, RelayIsService
=============================================================================
