-------------------------- MODULE AccountGateProofs --------------------------
(***************************************************************************)
(* Proofs about AccountGate, for every set of devices and account rows and *)
(* every bound.                                                            *)
(*                                                                         *)
(* The relay compares sequence numbers and cannot see formats, and         *)
(* last-writer-wins looks at times.  The argument is about the metadata    *)
(* row alone.  A local row, an answer and an outgoing row are Sound: while *)
(* the relay's row is not newer than the sequence number that is kept with *)
(* them, their format is not below the relay's.  Then an accepted push     *)
(* never lowers the format, and the format of the chain only Grows.  The   *)
(* merge keeps this because a device keeps its own revision only when that *)
(* is not below: formats up to ACCOUNT_SCHEMA rise with the time stamps    *)
(* (MetaRev), and an answer with a newer one is not merged.                *)
(***************************************************************************)
EXTENDS AccountGate, FiniteSetTheorems, TLAPS

(* The numbers push() gives: above the old latest, up to the new one. *)
LEMMA SeqOfFacts ==
    ASSUME NEW latest \in Nat, NEW acc \in SUBSET Key
    PROVE  /\ Cardinality(acc) \in Nat
           /\ \A k \in acc : /\ SeqOf(latest, acc, k) \in Nat
                             /\ SeqOf(latest, acc, k) > latest
                             /\ SeqOf(latest, acc, k) <= latest + Cardinality(acc)
  <1> DEFINE Upto(k) == {j \in acc : j <= k}
  <1>1. IsFiniteSet(acc)
    BY KeyAssumption, FS_Subset
  <1>2. Cardinality(acc) \in Nat
    BY <1>1, FS_CardinalityType
  <1>3. ASSUME NEW k \in acc
        PROVE  /\ IsFiniteSet(Upto(k)) /\ Cardinality(Upto(k)) \in Nat
               /\ Cardinality(Upto(k)) > 0 /\ Cardinality(Upto(k)) <= Cardinality(acc)
    <2>1. Upto(k) \in SUBSET acc /\ k \in Upto(k)
      BY KeyAssumption
    <2> HIDE DEF Upto
    <2>2. IsFiniteSet(Upto(k)) /\ Cardinality(Upto(k)) <= Cardinality(acc)
      BY <1>1, <2>1, FS_Subset
    <2>3. Cardinality(Upto(k)) \in Nat
      BY <2>2, FS_CardinalityType
    <2>4. Cardinality(Upto(k)) # 0
      BY <2>1, <2>2, FS_EmptySet
    <2> QED BY <2>2, <2>3, <2>4
  <1>4. \A k \in acc : SeqOf(latest, acc, k) = latest + Cardinality(Upto(k))
    BY DEF SeqOf
  <1> HIDE DEF Upto
  <1> QED BY <1>2, <1>3, <1>4

Row == [rev : AccountRevs, seq : Nat, dirty : BOOLEAN]

Stored == [seq : Nat, body : AccountRevs]

Item == [base : Nat, body : AccountRevs]

Chain == [latest : Nat, rows : Table]

(* The revisions of the metadata row: the first one, or a later one that   *)
(* promote() or a newer version wrote.                                     *)
MetaRev(r) ==
    \/ r = FirstMeta
    \/ r # NoRev /\ r.ts > 1 /\ r.schema \in {ACCOUNT_SCHEMA, FutureSchema}

(* Those that this version writes or merges. *)
OwnRev(r) == MetaRev(r) /\ SchemaOf(r) <= ACCOUNT_SCHEMA

(* The format that is on the relay. *)
Format(c) == SchemaOf(c.rows[Meta].body)

Sound(c, base, rev) == c.rows[Meta].seq <= base => Format(c) <= SchemaOf(rev)

ChainOK(c) == MetaRev(c.rows[Meta].body) /\ c.rows[Meta].seq > 0 /\ c.rows[Meta].seq <= c.latest

SectionOK(c, section) ==
    /\ OwnRev(section.rows[Meta].rev)
    /\ section.rows[Meta].seq <= c.latest
    /\ Sound(c, section.rows[Meta].seq, section.rows[Meta].rev)
    /\ ~section.rows[Meta].dirty => SchemaOf(section.rows[Meta].rev) <= Format(c)
    /\ section.remote > ACCOUNT_SCHEMA => Format(c) > ACCOUNT_SCHEMA

AnswerOK(c, answer) ==
    /\ MetaRev(answer.rows[Meta].body)
    /\ answer.rows[Meta].seq > 0 /\ answer.rows[Meta].seq <= c.latest
    /\ Sound(c, answer.rows[Meta].seq, answer.rows[Meta].body)
    /\ SchemaOf(answer.rows[Meta].body) <= Format(c)

(* An outgoing metadata row, and the receipt for it. *)
SentOK(c, item, receipt) ==
    /\ item.body # NoRev => /\ OwnRev(item.body) /\ item.base <= c.latest
                            /\ Sound(c, item.base, item.body)
    /\ receipt > 0 => /\ item.body # NoRev /\ receipt <= c.latest
                      /\ Sound(c, receipt, item.body)
                      /\ SchemaOf(item.body) <= Format(c)

(* What a device knows of a newer format: it has it in memory, or a crash  *)
(* took it and it will find it on the relay before it writes again.        *)
SeenOK(c, d) ==
    /\ futureSeen[d] = "now" => mem[d].remote > ACCOUNT_SCHEMA
    /\ futureSeen[d] # "never" =>
          /\ Format(c) > ACCOUNT_SCHEMA
          /\ pc[d] \in {"idle", "pull", "publish"}
          /\ pc[d] = "publish" => SchemaOf(pulled[d].rows[Meta].body) > ACCOUNT_SCHEMA

DeviceOK(c, d) ==
    /\ SectionOK(c, mem[d]) /\ SectionOK(c, disk[d])
    /\ pc[d] = "publish" => AnswerOK(c, pulled[d])
    /\ pin[d].at = "publish" => AnswerOK(c, pin[d].pulled)
    /\ SentOK(c, sent[d][Meta], accepted[d][Meta])
    /\ accepted[d][Meta] > 0 => pc[d] = "receipt"
    /\ SeenOK(c, d)

Coherent ==
    /\ ChainOK(chain)
    /\ space => Format(chain) >= ACCOUNT_SCHEMA
    /\ \A d \in Device : DeviceOK(chain, d)

IInv == TypeOK /\ Coherent

(* What every push does to the chain. *)
Grows(c, e) ==
    /\ c.latest <= e.latest /\ Format(c) <= Format(e)
    /\ \/ e.rows[Meta] = c.rows[Meta]
       \/ e.rows[Meta].seq > c.latest

-----------------------------------------------------------------------------
(* The numbers in a revision. *)
LEMMA RevNumbers ==
    ASSUME NEW r \in AccountRevs
    PROVE  r.ts \in Nat /\ SchemaOf(r) \in Nat /\ (r # NoRev => SchemaOf(r) = r.schema)
  BY DEF AccountRevs, NoRev, SchemaOf

(* The metadata of a new account. *)
LEMMA FirstMetaFacts ==
    /\ FirstMeta \in AccountRevs /\ FirstMeta # NoRev /\ FirstMeta.ts = 1
    /\ SchemaOf(FirstMeta) = MIN_ACCOUNT_SCHEMA /\ OwnRev(FirstMeta)
  <1>1. FirstMeta.ts = 1 /\ FirstMeta.schema = MIN_ACCOUNT_SCHEMA /\ NoRev.ts = 0
    BY DEF FirstMeta, NoRev
  <1>2. FirstMeta # NoRev
    BY <1>1
  <1>3. (CHOOSE d \in Device : TRUE) \in Device
    BY DeviceAssumption
  <1>4. FirstMeta \in AccountRevs
    BY <1>3 DEF FirstMeta, AccountRevs, MIN_ACCOUNT_SCHEMA
  <1> QED BY <1>1, <1>2, <1>4
          DEF SchemaOf, OwnRev, MetaRev, MIN_ACCOUNT_SCHEMA, ACCOUNT_SCHEMA

(* Formats and times of metadata revisions go together up to               *)
(* ACCOUNT_SCHEMA.                                                         *)
LEMMA MetaRevFacts ==
    ASSUME NEW r \in AccountRevs, MetaRev(r)
    PROVE  /\ r # NoRev /\ SchemaOf(r) \in {3, 4, 5} /\ r.ts >= 1
           /\ r.ts = 1 => r = FirstMeta
           /\ SchemaOf(r) < ACCOUNT_SCHEMA => r = FirstMeta
  <1>1. CASE r = FirstMeta
    BY <1>1, FirstMetaFacts DEF MIN_ACCOUNT_SCHEMA
  <1>2. CASE r # NoRev /\ r.ts > 1 /\ r.schema \in {ACCOUNT_SCHEMA, FutureSchema}
    BY <1>2, RevNumbers DEF SchemaOf, ACCOUNT_SCHEMA, FutureSchema
  <1> QED BY <1>1, <1>2 DEF MetaRev

(* The largest of three formats. *)
LEMMA MaxOfThree ==
    ASSUME NEW a \in Nat, NEW b \in Nat, NEW c \in Nat
    PROVE  /\ MaxOf({a, b, c}) \in {a, b, c}
           /\ MaxOf({a, b, c}) >= a /\ MaxOf({a, b, c}) >= b /\ MaxOf({a, b, c}) >= c
  <1>1. \E n \in {a, b, c} : \A m \in {a, b, c} : m <= n
    OBVIOUS
  <1>2. /\ MaxOf({a, b, c}) \in {a, b, c}
        /\ \A m \in {a, b, c} : m <= MaxOf({a, b, c})
    BY <1>1 DEF MaxOf
  <1> QED BY <1>2

(* The larger of two formats. *)
LEMMA MaxOfTwo ==
    ASSUME NEW a \in Nat, NEW b \in Nat
    PROVE  MaxOf({a, b}) \in {a, b} /\ MaxOf({a, b}) >= a /\ MaxOf({a, b}) >= b
  <1>1. \E n \in {a, b} : \A m \in {a, b} : m <= n
    OBVIOUS
  <1>2. MaxOf({a, b}) \in {a, b} /\ \A m \in {a, b} : m <= MaxOf({a, b})
    BY <1>1 DEF MaxOf
  <1> QED BY <1>2

-----------------------------------------------------------------------------
(* What is sound stays so while the format only grows. *)
LEMMA SoundGrows ==
    ASSUME NEW c \in Chain, NEW e \in Chain, Grows(c, e), NEW base \in Nat,
           base <= c.latest, NEW rev, Sound(c, base, rev)
    PROVE  Sound(e, base, rev) /\ base <= e.latest
  <1>1. c.latest \in Nat /\ e.latest \in Nat /\ e.rows[Meta].seq \in Nat
    BY GateAssumption DEF Chain, Table
  <1>2. CASE e.rows[Meta] = c.rows[Meta]
    BY <1>1, <1>2 DEF Grows, Sound, Format
  <1>3. CASE e.rows[Meta].seq > c.latest
    BY <1>1, <1>3 DEF Grows, Sound
  <1> QED BY <1>2, <1>3 DEF Grows

(* The numbers in the relay's metadata row. *)
LEMMA FormatNumbers ==
    ASSUME NEW c \in Chain
    PROVE  /\ Format(c) \in Nat /\ c.latest \in Nat /\ c.rows[Meta].seq \in Nat
           /\ c.rows[Meta].body \in AccountRevs /\ c.rows[Meta] \in Stored
  BY GateAssumption, RevNumbers DEF Chain, Table, Format, Stored

(* A section at rest stays sound while another device pushes. *)
LEMMA SectionGrows ==
    ASSUME NEW c \in Chain, NEW e \in Chain, Grows(c, e), NEW section \in Section,
           SectionOK(c, section)
    PROVE  SectionOK(e, section)
  <1>1. /\ section.rows[Meta].seq \in Nat /\ section.rows[Meta].rev \in AccountRevs
        /\ SchemaOf(section.rows[Meta].rev) \in Nat
    BY GateAssumption, RevNumbers DEF Section
  <1>2. /\ Sound(e, section.rows[Meta].seq, section.rows[Meta].rev)
        /\ section.rows[Meta].seq <= e.latest
    BY <1>1, SoundGrows DEF SectionOK
  <1>3. Format(c) \in Nat /\ Format(e) \in Nat /\ Format(c) <= Format(e)
    BY FormatNumbers DEF Grows
  <1> QED BY <1>1, <1>2, <1>3 DEF SectionOK, ACCOUNT_SCHEMA

(* So does an answer that waits to be published, even a prepared one. *)
LEMMA AnswerGrows ==
    ASSUME NEW c \in Chain, NEW e \in Chain, Grows(c, e), NEW answer \in Answer,
           AnswerOK(c, answer)
    PROVE  AnswerOK(e, answer)
  <1>1. /\ answer.rows[Meta].seq \in Nat /\ answer.rows[Meta].body \in AccountRevs
        /\ SchemaOf(answer.rows[Meta].body) \in Nat
    BY GateAssumption, RevNumbers DEF Answer, Table
  <1>2. /\ Sound(e, answer.rows[Meta].seq, answer.rows[Meta].body)
        /\ answer.rows[Meta].seq <= e.latest
    BY <1>1, SoundGrows DEF AnswerOK
  <1>3. Format(c) \in Nat /\ Format(e) \in Nat /\ Format(c) <= Format(e)
    BY FormatNumbers DEF Grows
  <1> QED BY <1>1, <1>2, <1>3 DEF AnswerOK

(* And so do the rows and receipts of a round under way. *)
LEMMA SentGrows ==
    ASSUME NEW c \in Chain, NEW e \in Chain, Grows(c, e), NEW item \in Item,
           NEW receipt \in Nat, SentOK(c, item, receipt)
    PROVE  SentOK(e, item, receipt)
  <1>1. item.base \in Nat /\ item.body \in AccountRevs /\ SchemaOf(item.body) \in Nat
    BY RevNumbers DEF Item
  <1>2. item.body # NoRev => Sound(e, item.base, item.body) /\ item.base <= e.latest
    BY <1>1, SoundGrows DEF SentOK
  <1>3. receipt > 0 => Sound(e, receipt, item.body) /\ receipt <= e.latest
    BY SoundGrows DEF SentOK
  <1>4. Format(c) \in Nat /\ Format(e) \in Nat /\ Format(c) <= Format(e)
    BY FormatNumbers DEF Grows
  <1> QED BY <1>1, <1>2, <1>3, <1>4 DEF SentOK

-----------------------------------------------------------------------------
(* The newest format ever authenticated is one of the three it is taken    *)
(* from, and not below any of them.                                        *)
LEMMA ObservedFacts ==
    ASSUME NEW section \in Section, NEW answer \in Answer
    PROVE  LET o == ObservedSchema(section, answer)
           IN  /\ o \in Nat
               /\ o \in {section.remote, SchemaOf(section.rows[Meta].rev),
                         SchemaOf(answer.rows[Meta].body)}
               /\ o >= section.remote
               /\ o >= SchemaOf(section.rows[Meta].rev)
               /\ o >= SchemaOf(answer.rows[Meta].body)
  <1>1. /\ section.remote \in Nat /\ SchemaOf(section.rows[Meta].rev) \in Nat
        /\ SchemaOf(answer.rows[Meta].body) \in Nat
    BY GateAssumption, RevNumbers DEF Section, Answer, Table
  <1> QED BY <1>1, MaxOfThree DEF ObservedSchema

(* Merging keeps the types. *)
LEMMA MergeRowType ==
    ASSUME NEW mine \in Row, NEW remote \in Stored
    PROVE  MergeRow(mine, remote) \in Row
  BY DEF MergeRow, Row, Stored

(* What publish_prepared_account_gate() makes of a section. *)
LEMMA PublishFacts ==
    ASSUME NEW section \in Section, NEW answer \in Answer
    PROVE  LET next == Publish(section, answer)
               o == ObservedSchema(section, answer)
           IN  /\ next \in Section
               /\ Gate(section, answer) = "compatible" =>
                     /\ o <= ACCOUNT_SCHEMA /\ next.remote = o
                     /\ next.rows[Meta] = MergeRow(section.rows[Meta], answer.rows[Meta])
               /\ Gate(section, answer) # "compatible" =>
                     /\ next.rows = section.rows /\ next.blocked
                     /\ o > ACCOUNT_SCHEMA => next.remote >= o
                     /\ o <= ACCOUNT_SCHEMA => next.remote = section.remote
                     /\ next.remote \in {section.remote, o}
  <1> DEFINE next == Publish(section, answer)
             o == ObservedSchema(section, answer)
             rows == [k \in Key |-> MergeRow(section.rows[k], answer.rows[k])]
  <1>1. o \in Nat /\ section.remote \in Nat
    BY ObservedFacts DEF Section
  <1> HIDE DEF o
  <1>2. CASE Gate(section, answer) = "compatible"
    <2>1. rows \in [Key -> Row]
      <3>1. \A k \in Key : section.rows[k] \in Row /\ answer.rows[k] \in Stored
        BY DEF Section, Row, Answer, Table, Stored
      <3> QED BY <3>1, MergeRowType
    <2>2. o <= ACCOUNT_SCHEMA
      BY <1>1, <1>2 DEF Gate, o, ACCOUNT_SCHEMA
    <2>3. next = [section EXCEPT !.rows = rows, !.cursor = answer.latest, !.baseline = TRUE,
                                 !.remote = o, !.blocked = FALSE]
      BY <1>2 DEF Publish, MergeSpace, o, Section
    <2>4. answer.latest \in Nat
      BY DEF Answer
    <2> HIDE DEF rows, next
    <2>5. next \in Section
      BY <1>1, <2>1, <2>3, <2>4 DEF Section, Row
    <2>6. next.remote = o /\ next.rows = rows
      BY <2>3 DEF Section
    <2>7. rows[Meta] = MergeRow(section.rows[Meta], answer.rows[Meta])
      BY GateAssumption DEF rows
    <2> QED BY <1>2, <2>2, <2>5, <2>6, <2>7 DEF next, o
  <1>3. CASE Gate(section, answer) # "compatible"
    <2> DEFINE r == IF o > ACCOUNT_SCHEMA THEN MaxOf({section.remote, o}) ELSE section.remote
    <2>1. next = [section EXCEPT !.blocked = TRUE, !.remote = r]
      BY <1>3 DEF Publish, o, Section
    <2>2. /\ r \in Nat /\ r \in {section.remote, o}
          /\ o > ACCOUNT_SCHEMA => r >= o
          /\ o <= ACCOUNT_SCHEMA => r = section.remote
      BY <1>1, MaxOfTwo DEF ACCOUNT_SCHEMA
    <2> HIDE DEF r, next
    <2>3. next \in Section /\ next.rows = section.rows /\ next.remote = r /\ next.blocked = TRUE
      BY <2>1, <2>2 DEF Section
    <2> QED BY <1>3, <2>2, <2>3 DEF next, o
  <1> QED BY <1>2, <1>3

(* A device's own revision that is kept in a merge is not below the one it *)
(* is merged with.                                                         *)
LEMMA KeptNotBelow ==
    ASSUME NEW mine \in AccountRevs, NEW theirs \in AccountRevs, OwnRev(mine),
           MetaRev(theirs), SchemaOf(theirs) <= ACCOUNT_SCHEMA, ~Beats(theirs, mine)
    PROVE  SchemaOf(theirs) <= SchemaOf(mine)
  <1>1. /\ mine.ts \in Nat /\ theirs.ts \in Nat
        /\ SchemaOf(mine) \in {3, 4, 5} /\ SchemaOf(theirs) \in {3, 4, 5}
        /\ SchemaOf(mine) < ACCOUNT_SCHEMA => mine = FirstMeta
        /\ theirs.ts = 1 => theirs = FirstMeta
        /\ theirs.ts >= 1
    BY MetaRevFacts, RevNumbers DEF OwnRev
  <1>2. CASE SchemaOf(mine) < ACCOUNT_SCHEMA
    <2>1. mine = FirstMeta /\ mine.ts = 1
      BY <1>1, <1>2, FirstMetaFacts
    <2>2. theirs.ts <= 1
      BY <1>1, <2>1 DEF Beats
    <2>3. theirs = FirstMeta
      BY <1>1, <2>2
    <2> QED BY <1>1, <2>1, <2>3
  <1>3. CASE SchemaOf(mine) >= ACCOUNT_SCHEMA
    BY <1>1, <1>3 DEF ACCOUNT_SCHEMA
  <1> QED BY <1>1, <1>2, <1>3 DEF ACCOUNT_SCHEMA

(* Publishing an answer, fresh or prepared earlier, keeps a section sound. *)
LEMMA PublishOK ==
    ASSUME NEW c \in Chain, ChainOK(c), NEW section \in Section, NEW answer \in Answer,
           SectionOK(c, section), AnswerOK(c, answer)
    PROVE  SectionOK(c, Publish(section, answer))
  <1> DEFINE next == Publish(section, answer)
             o == ObservedSchema(section, answer)
             mine == section.rows[Meta]
             theirs == answer.rows[Meta]
  <1>1. mine \in Row /\ theirs \in Stored
    BY GateAssumption DEF Section, Row, Answer, Table, Stored
  <1>2. /\ mine.rev \in AccountRevs /\ mine.seq \in Nat /\ mine.dirty \in BOOLEAN
        /\ theirs.body \in AccountRevs /\ theirs.seq \in Nat
        /\ SchemaOf(mine.rev) \in Nat /\ SchemaOf(theirs.body) \in Nat
        /\ section.remote \in Nat
    BY <1>1, RevNumbers DEF Row, Stored, Section
  <1>3. /\ Format(c) \in Nat /\ c.latest \in Nat /\ c.rows[Meta].seq \in Nat
    BY FormatNumbers
  <1>4. /\ o \in Nat
        /\ o \in {section.remote, SchemaOf(mine.rev), SchemaOf(theirs.body)}
        /\ o >= section.remote /\ o >= SchemaOf(theirs.body)
    BY ObservedFacts
  <1>5. /\ OwnRev(mine.rev) /\ mine.seq <= c.latest /\ Sound(c, mine.seq, mine.rev)
        /\ ~mine.dirty => SchemaOf(mine.rev) <= Format(c)
        /\ section.remote > ACCOUNT_SCHEMA => Format(c) > ACCOUNT_SCHEMA
    BY DEF SectionOK
  <1>6. /\ MetaRev(theirs.body) /\ theirs.seq > 0 /\ theirs.seq <= c.latest
        /\ Sound(c, theirs.seq, theirs.body) /\ SchemaOf(theirs.body) <= Format(c)
    BY DEF AnswerOK
  <1>7. SchemaOf(mine.rev) <= ACCOUNT_SCHEMA
    BY <1>5 DEF OwnRev
  <1>8. CASE Gate(section, answer) = "compatible"
    <2>1. /\ o <= ACCOUNT_SCHEMA /\ next.remote = o
          /\ next.rows[Meta] = MergeRow(mine, theirs)
      BY <1>8, PublishFacts
    <2>2. OwnRev(theirs.body)
      BY <1>2, <1>4, <1>6, <2>1 DEF OwnRev, ACCOUNT_SCHEMA
    <2> HIDE DEF next, mine, theirs, o
    <2>3. CASE TakeRemote(mine, theirs.body)
      <3>1. next.rows[Meta] = [rev |-> theirs.body, seq |-> theirs.seq, dirty |-> FALSE]
        BY <1>6, <2>1, <2>3 DEF MergeRow, Present
      <3> QED BY <1>4, <1>6, <2>1, <2>2, <3>1 DEF SectionOK, ACCOUNT_SCHEMA, next
    <2>4. CASE ~TakeRemote(mine, theirs.body)
      <3> DEFINE seq == IF mine.seq >= theirs.seq THEN mine.seq ELSE theirs.seq
      <3>1. next.rows[Meta] = [mine EXCEPT !.seq = seq]
        BY <1>6, <2>1, <2>4 DEF MergeRow, Present
      <3>2. /\ next.rows[Meta].rev = mine.rev /\ next.rows[Meta].seq = seq
            /\ next.rows[Meta].dirty = mine.dirty
        BY <1>1, <3>1 DEF Row
      <3>3. SchemaOf(theirs.body) <= SchemaOf(mine.rev)
        BY <1>2, <1>5, <2>2, <2>4, KeptNotBelow DEF TakeRemote, OwnRev
      <3>4. Sound(c, seq, mine.rev) /\ seq <= c.latest
        BY <1>2, <1>3, <1>5, <1>6, <3>3 DEF Sound
      <3> HIDE DEF seq
      <3> QED BY <1>4, <1>5, <2>1, <3>2, <3>4 DEF SectionOK, ACCOUNT_SCHEMA, next
    <2> QED BY <2>3, <2>4
  <1>9. CASE Gate(section, answer) # "compatible"
    <2>1. /\ next.rows = section.rows
          /\ o <= ACCOUNT_SCHEMA => next.remote = section.remote
          /\ next.remote \in {section.remote, o}
      BY <1>9, PublishFacts
    <2>2. o > ACCOUNT_SCHEMA => Format(c) > ACCOUNT_SCHEMA
      BY <1>2, <1>3, <1>4, <1>5, <1>6, <1>7 DEF ACCOUNT_SCHEMA
    <2> HIDE DEF next, o
    <2> QED BY <1>5, <2>1, <2>2 DEF SectionOK, ACCOUNT_SCHEMA, next
  <1> QED BY <1>8, <1>9

(* The receipts of an account push keep a section sound. *)
LEMMA ReceiptOK ==
    ASSUME NEW c \in Chain, NEW section \in Section, NEW items \in [Key -> Item],
           NEW acc \in [Key -> Nat], SectionOK(c, section),
           SentOK(c, items[Meta], acc[Meta])
    PROVE  LET next == ApplyReceipts(section, items, acc)
           IN  next \in Section /\ SectionOK(c, next) /\ next.remote = section.remote
  <1> DEFINE next == ApplyReceipts(section, items, acc)
             Cleaned(k) == /\ acc[k] > 0 /\ acc[k] >= items[k].base
                           /\ section.rows[k].dirty
                           /\ section.rows[k].rev = items[k].body
                           /\ section.rows[k].seq <= acc[k]
             rows == [k \in Key |-> IF Cleaned(k)
                                    THEN [section.rows[k] EXCEPT !.seq = acc[k], !.dirty = FALSE]
                                    ELSE section.rows[k]]
  <1>1. next = [section EXCEPT !.rows = rows]
    BY DEF ApplyReceipts
  <1>2. rows \in [Key -> Row]
    <2>1. \A k \in Key : section.rows[k] \in Row /\ acc[k] \in Nat
      BY DEF Section, Row
    <2> HIDE DEF Cleaned
    <2> QED BY <2>1 DEF Row
  <1>3. /\ rows[Meta] = IF Cleaned(Meta)
                        THEN [section.rows[Meta] EXCEPT !.seq = acc[Meta], !.dirty = FALSE]
                        ELSE section.rows[Meta]
        /\ section.rows[Meta] \in Row /\ acc[Meta] \in Nat
    BY GateAssumption DEF Section, Row
  <1> HIDE DEF rows, next
  <1>4. next \in Section /\ next.rows = rows /\ next.remote = section.remote
    BY <1>1, <1>2 DEF Section, Row
  <1>5. CASE Cleaned(Meta)
    <2>1. /\ rows[Meta].seq = acc[Meta] /\ rows[Meta].dirty = FALSE
          /\ rows[Meta].rev = section.rows[Meta].rev
      BY <1>3, <1>5 DEF Row
    <2>2. section.rows[Meta].rev = items[Meta].body /\ acc[Meta] > 0
      BY <1>5
    <2> HIDE DEF Cleaned
    <2>3. SectionOK(c, next)
      BY <1>4, <2>1, <2>2 DEF SectionOK, SentOK
    <2> QED BY <1>4, <2>3 DEF next
  <1>6. CASE ~Cleaned(Meta)
    <2>1. rows[Meta] = section.rows[Meta]
      BY <1>3, <1>6
    <2>2. SectionOK(c, next)
      BY <1>4, <2>1 DEF SectionOK
    <2> QED BY <1>4, <2>2 DEF next
  <1> QED BY <1>5, <1>6

-----------------------------------------------------------------------------
(* A push whose metadata row, if it carries one, is sound. *)
LEMMA PushOK ==
    ASSUME chain \in Chain, ChainOK(chain), NEW items, DOMAIN items \subseteq Key,
           \A k \in DOMAIN items : items[k] \in Item,
           Meta \in DOMAIN items => /\ MetaRev(items[Meta].body)
                                    /\ Sound(chain, items[Meta].base, items[Meta].body),
           RelayPush(items)
    PROVE  LET acc == Accepted(chain.rows, items)
           IN  /\ chain' \in Chain /\ ChainOK(chain') /\ Grows(chain, chain')
               /\ \A k \in acc : SeqOf(chain.latest, acc, k) \in Nat
               /\ Meta \in acc =>
                     /\ Meta \in DOMAIN items
                     /\ chain'.rows[Meta].seq = SeqOf(chain.latest, acc, Meta)
                     /\ chain'.rows[Meta].body = items[Meta].body
                     /\ chain'.rows[Meta].seq <= chain'.latest
  <1> DEFINE acc == Accepted(chain.rows, items)
             rows == [k \in Key |-> IF k \in acc
                                    THEN [seq |-> SeqOf(chain.latest, acc, k),
                                          body |-> items[k].body]
                                    ELSE chain.rows[k]]
             top == chain.latest + Cardinality(acc)
  <1>1. acc \in SUBSET Key /\ acc \subseteq DOMAIN items
    BY DEF Accepted
  <1>2. /\ Format(chain) \in Nat /\ chain.latest \in Nat /\ chain.rows[Meta].seq \in Nat
        /\ chain.rows[Meta].body \in AccountRevs
        /\ \A k \in Key : chain.rows[k] \in Stored
    BY FormatNumbers DEF Chain, Table, Stored
  <1>3. chain' = [latest |-> top, rows |-> rows]
    BY DEF RelayPush, LatestAfter, RowsAfter
  <1>4. Meta \in acc => ~(Present(chain.rows[Meta]) /\ chain.rows[Meta].seq > items[Meta].base)
    BY DEF Accepted
  <1> HIDE DEF acc
  <1>5. /\ Cardinality(acc) \in Nat
        /\ \A k \in acc : /\ SeqOf(chain.latest, acc, k) \in Nat
                          /\ SeqOf(chain.latest, acc, k) > chain.latest
                          /\ SeqOf(chain.latest, acc, k) <= top
    BY <1>1, <1>2, SeqOfFacts
  <1>6. rows \in [Key -> Stored]
    <2>1. \A k \in acc : items[k].body \in AccountRevs
      BY <1>1 DEF Item
    <2> QED BY <1>1, <1>2, <1>5, <2>1 DEF Stored
  <1>7. chain'.rows = rows /\ chain'.latest = top /\ top \in Nat /\ top >= chain.latest
    BY <1>2, <1>3, <1>5
  <1>8. chain' \in Chain
    BY <1>3, <1>6, <1>7 DEF Chain, Table, Stored
  <1>9. Meta \in Key /\ rows[Meta] = IF Meta \in acc
                                     THEN [seq |-> SeqOf(chain.latest, acc, Meta),
                                           body |-> items[Meta].body]
                                     ELSE chain.rows[Meta]
    BY GateAssumption
  <1> HIDE DEF rows, top
  <1>10. CASE Meta \in acc
    <2>1. /\ rows[Meta].seq = SeqOf(chain.latest, acc, Meta)
          /\ rows[Meta].body = items[Meta].body
      BY <1>9, <1>10
    <2>2. items[Meta] \in Item /\ MetaRev(items[Meta].body)
          /\ Sound(chain, items[Meta].base, items[Meta].body)
      BY <1>1, <1>10
    <2>3. Format(chain) <= SchemaOf(items[Meta].body)
      BY <1>2, <1>4, <1>10, <2>2 DEF ChainOK, Present, Sound, Item
    <2>4. Format(chain') = SchemaOf(items[Meta].body)
      BY <1>7, <2>1 DEF Format
    <2>5. ChainOK(chain') /\ Grows(chain, chain')
      BY <1>2, <1>5, <1>7, <1>10, <2>1, <2>2, <2>3, <2>4 DEF ChainOK, Grows
    <2> QED BY <1>1, <1>5, <1>7, <1>8, <1>10, <2>1, <2>5 DEF acc
  <1>11. CASE Meta \notin acc
    <2>1. chain'.rows[Meta] = chain.rows[Meta]
      BY <1>7, <1>9, <1>11
    <2>2. ChainOK(chain') /\ Grows(chain, chain')
      BY <1>2, <1>7, <1>8, <2>1, FormatNumbers DEF ChainOK, Grows, Format
    <2> QED BY <1>5, <1>8, <1>11, <2>2 DEF acc
  <1> QED BY <1>10, <1>11

-----------------------------------------------------------------------------
(* The blank values of a round. *)
LEMMA BlankValues ==
    /\ NoPull \in Answer /\ NothingSent \in [Key -> Item] /\ NoReceipts \in [Key -> Nat]
    /\ NoTable \in Table /\ NoPin.pulled \in Answer /\ NoPin.at = "off"
    /\ NoPin \in [at : {"off", "pull", "publish"}, pulled : Answer]
    /\ NothingSent[Meta].body = NoRev /\ NoReceipts[Meta] = 0
  <1>1. NoRev \in AccountRevs
    BY DEF AccountRevs
  <1>2. NoTable \in Table
    BY <1>1 DEF NoTable, Table
  <1>3. NoPull \in Answer
    BY <1>2 DEF NoPull, Answer
  <1>4. NothingSent \in [Key -> Item] /\ NoReceipts \in [Key -> Nat]
    BY <1>1 DEF NothingSent, NoReceipts, Item
  <1>5. NothingSent[Meta].body = NoRev /\ NoReceipts[Meta] = 0
    BY GateAssumption DEF NothingSent, NoReceipts
  <1> QED BY <1>2, <1>3, <1>4, <1>5 DEF NoPin

Places == {"idle", "pull", "publish", "edit", "push", "receipt", "space"}

Goals == {"none", "round", "account", "space", "promote"}

RoundType ==
    /\ pc \in [Device -> Places] /\ goal \in [Device -> Goals]
    /\ pulled \in [Device -> Answer] /\ sent \in [Device -> [Key -> Item]]
    /\ accepted \in [Device -> [Key -> Nat]]

SavesType ==
    /\ mem \in [Device -> Section] /\ disk \in [Device -> Section]
    /\ saveBlocked \in [Device -> BOOLEAN]

PinType == pin \in [Device -> [at : {"off", "pull", "publish"}, pulled : Answer]]

SeenType == futureSeen \in [Device -> {"never", "now", "before"}]

CountsType == edits \in 0..MaxEdits /\ faults \in 0..MaxFaults /\ pins \in 0..MaxPins

RelayType == chain \in Chain /\ space \in BOOLEAN

(* TypeOK, in parts that the actions change together. *)
LEMMA TypeParts ==
    TypeOK <=> RelayType /\ SavesType /\ RoundType /\ PinType /\ SeenType /\ CountsType
  BY DEF TypeOK, RelayType, SavesType, RoundType, PinType, SeenType, CountsType, Chain,
         Places, Goals, Item

(* The lifecycle lock is released: the local values of the round are gone. *)
LEMMA ReleaseFacts ==
    ASSUME RoundType, NEW d \in Device, Release(d)
    PROVE  /\ RoundType'
           /\ pc'[d] = "idle" /\ pulled'[d] = NoPull /\ sent'[d] = NothingSent
           /\ accepted'[d] = NoReceipts
           /\ \A e \in Device \ {d} : /\ pc'[e] = pc[e] /\ pulled'[e] = pulled[e]
                                      /\ sent'[e] = sent[e] /\ accepted'[e] = accepted[e]
  BY BlankValues DEF RoundType, Release, Goto, Places, Goals

(* persist_candidate(): one device has the section in memory and on disk. *)
LEMMA PersistFacts ==
    ASSUME SavesType, NEW d \in Device, NEW next \in Section, Persist(d, next)
    PROVE  /\ mem' \in [Device -> Section] /\ disk' \in [Device -> Section]
           /\ mem'[d] = next /\ disk'[d] = next
           /\ \A e \in Device \ {d} : mem'[e] = mem[e] /\ disk'[e] = disk[e]
  BY DEF SavesType, Persist

(* What a published section tells its device of newer formats. *)
LEMMA SeeFacts ==
    ASSUME SeenType, NEW d \in Device, NEW next, See(d, next)
    PROVE  /\ SeenType'
           /\ futureSeen'[d] = IF next.remote > ACCOUNT_SCHEMA THEN "now" ELSE futureSeen[d]
           /\ \A e \in Device \ {d} : futureSeen'[e] = futureSeen[e]
  BY DEF SeenType, See

(* A fault is counted. *)
LEMMA FaultFacts ==
    ASSUME CountsType, Fault, UNCHANGED <<edits, pins>>
    PROVE  CountsType'
  BY GateAssumption DEF CountsType, Fault

-----------------------------------------------------------------------------
(* A device that does nothing while the chain grows. *)
LEMMA DeviceGrows ==
    ASSUME TypeOK, NEW e \in Chain, Grows(chain, e), NEW d \in Device, DeviceOK(chain, d)
    PROVE  DeviceOK(e, d)
  <1>1. chain \in Chain /\ SavesType /\ RoundType /\ PinType
    BY TypeParts DEF RelayType
  <1>2. SectionOK(e, mem[d]) /\ SectionOK(e, disk[d])
    BY <1>1, SectionGrows DEF DeviceOK, SavesType
  <1>3. pc[d] = "publish" => AnswerOK(e, pulled[d])
    BY <1>1, AnswerGrows DEF DeviceOK, RoundType
  <1>4. pin[d].at = "publish" => AnswerOK(e, pin[d].pulled)
    <2>1. pin[d].pulled \in Answer
      BY <1>1 DEF PinType
    <2> QED BY <1>1, <2>1, AnswerGrows DEF DeviceOK
  <1>5. SentOK(e, sent[d][Meta], accepted[d][Meta])
    <2>1. sent[d][Meta] \in Item /\ accepted[d][Meta] \in Nat
      BY <1>1, GateAssumption DEF RoundType
    <2> QED BY <1>1, <2>1, SentGrows DEF DeviceOK
  <1>6. SeenOK(e, d)
    <2>1. Format(chain) \in Nat /\ Format(e) \in Nat /\ Format(chain) <= Format(e)
      BY <1>1, FormatNumbers DEF Grows
    <2> QED BY <2>1 DEF DeviceOK, SeenOK, ACCOUNT_SCHEMA
  <1> QED BY <1>2, <1>3, <1>4, <1>5, <1>6 DEF DeviceOK

(* Nobody but device d does anything. *)
Others(d) ==
    \A e \in Device \ {d} :
        /\ mem'[e] = mem[e] /\ disk'[e] = disk[e]
        /\ pc'[e] = pc[e] /\ pulled'[e] = pulled[e]
        /\ sent'[e] = sent[e] /\ accepted'[e] = accepted[e]
        /\ pin'[e] = pin[e] /\ futureSeen'[e] = futureSeen[e]

(* A step of one device: it is enough to look at the chain and the device. *)
LEMMA StepOf ==
    ASSUME IInv, NEW d \in Device, Others(d), TypeOK',
           ChainOK(chain'), Grows(chain, chain'), DeviceOK(chain, d)',
           space' => Format(chain') >= ACCOUNT_SCHEMA
    PROVE  IInv'
  <1>1. chain' \in Chain
    BY DEF TypeOK, Chain
  <1>2. ASSUME NEW e \in Device \ {d} PROVE DeviceOK(chain, e)'
    <2>1. DeviceOK(chain, e)
      BY DEF IInv, Coherent
    <2>2. DeviceOK(chain', e)
      BY <1>1, <2>1, DeviceGrows DEF IInv
    <2> QED BY <2>2 DEF DeviceOK, SeenOK, Others
  <1>3. (\A e \in Device : DeviceOK(chain, e))'
    BY <1>2
  <1>4. ChainOK(chain)' /\ (space => Format(chain) >= ACCOUNT_SCHEMA)'
    OBVIOUS
  <1> QED BY <1>3, <1>4 DEF IInv, Coherent

(* A chain that is left alone has not gone back. *)
LEMMA GrowsReflexive == \A c \in Chain : Grows(c, c)
  BY FormatNumbers DEF Grows

(* The same when the relay does nothing either. *)
LEMMA LocalStepOf ==
    ASSUME IInv, NEW d \in Device, Others(d), TypeOK', UNCHANGED relay,
           DeviceOK(chain, d)'
    PROVE  IInv'
  <1>1. chain \in Chain
    BY TypeParts DEF IInv, RelayType
  <1>2. chain' = chain /\ space' = space
    BY DEF relay
  <1> QED BY <1>1, <1>2, GrowsReflexive, StepOf DEF IInv, Coherent

(* The parts of TypeOK after a step. *)
LEMMA TypePartsNext ==
    ASSUME RelayType', SavesType', RoundType', PinType', SeenType', CountsType'
    PROVE  TypeOK'
  <1>1. (RelayType /\ SavesType /\ RoundType /\ PinType /\ SeenType /\ CountsType)' => TypeOK'
    BY TypeParts, PTL
  <1> QED BY <1>1

(* What is not touched keeps its type. *)
LEMMA SameTypes ==
    /\ RelayType /\ UNCHANGED relay => RelayType'
    /\ SavesType /\ UNCHANGED local => SavesType'
    /\ RoundType /\ UNCHANGED round => RoundType'
    /\ PinType /\ UNCHANGED pin => PinType'
    /\ SeenType /\ UNCHANGED futureSeen => SeenType'
    /\ CountsType /\ UNCHANGED bounds => CountsType'
  BY DEF RelayType, SavesType, RoundType, PinType, SeenType, CountsType, relay, local,
         round, bounds

(* IInv, in the parts that the actions use. *)
LEMMA IInvParts ==
    ASSUME IInv
    PROVE  /\ RelayType /\ SavesType /\ RoundType /\ PinType /\ SeenType /\ CountsType
           /\ chain \in Chain /\ ChainOK(chain)
           /\ space => Format(chain) >= ACCOUNT_SCHEMA
           /\ \A d \in Device :
                 /\ DeviceOK(chain, d)
                 /\ mem[d] \in Section /\ disk[d] \in Section
                 /\ SectionOK(chain, mem[d]) /\ SectionOK(chain, disk[d])
                 /\ pulled[d] \in Answer /\ pin[d].pulled \in Answer
                 /\ sent[d] \in [Key -> Item] /\ accepted[d] \in [Key -> Nat]
                 /\ SentOK(chain, sent[d][Meta], accepted[d][Meta])
                 /\ accepted[d][Meta] > 0 => pc[d] = "receipt"
                 /\ SeenOK(chain, d)
                 /\ pc[d] = "publish" => AnswerOK(chain, pulled[d])
                 /\ pin[d].at = "publish" => AnswerOK(chain, pin[d].pulled)
  <1>1. RelayType /\ SavesType /\ RoundType /\ PinType /\ SeenType /\ CountsType
    BY TypeParts DEF IInv
  <1>2. \A d \in Device : /\ mem[d] \in Section /\ disk[d] \in Section
                          /\ pulled[d] \in Answer /\ pin[d].pulled \in Answer
                          /\ sent[d] \in [Key -> Item] /\ accepted[d] \in [Key -> Nat]
    BY <1>1 DEF SavesType, RoundType, PinType
  <1> QED BY <1>1, <1>2 DEF IInv, Coherent, DeviceOK, RelayType

(* Nothing is sent or received: a blank round. *)
LEMMA BlankSent == SentOK(chain, NothingSent[Meta], NoReceipts[Meta])
  BY BlankValues DEF SentOK

(* The end of a round: what remains to show is that the device's sections  *)
(* are sound, and what it knows of newer formats.                          *)
LEMMA RoundEnds ==
    ASSUME IInv, NEW d \in Device, Release(d), SavesType', PinType', SeenType', CountsType',
           UNCHANGED relay,
           \A e \in Device \ {d} : /\ mem'[e] = mem[e] /\ disk'[e] = disk[e]
                                   /\ pin'[e] = pin[e] /\ futureSeen'[e] = futureSeen[e],
           SectionOK(chain, mem'[d]), SectionOK(chain, disk'[d]),
           pin'[d] \in {pin[d], NoPin},
           futureSeen'[d] = "now" => mem'[d].remote > ACCOUNT_SCHEMA,
           futureSeen'[d] # "never" => Format(chain) > ACCOUNT_SCHEMA
    PROVE  IInv'
  <1>1. RelayType /\ RoundType /\ DeviceOK(chain, d)
    BY IInvParts
  <1>2. /\ RoundType'
        /\ pc'[d] = "idle" /\ pulled'[d] = NoPull /\ sent'[d] = NothingSent
        /\ accepted'[d] = NoReceipts
        /\ \A e \in Device \ {d} : /\ pc'[e] = pc[e] /\ pulled'[e] = pulled[e]
                                   /\ sent'[e] = sent[e] /\ accepted'[e] = accepted[e]
    BY <1>1, ReleaseFacts
  <1>3. RelayType'
    BY <1>1, SameTypes
  <1>4. TypeOK'
    BY <1>2, <1>3, TypePartsNext
  <1>5. Others(d)
    BY <1>2 DEF Others
  <1>6. chain' = chain /\ SentOK(chain, sent'[d][Meta], accepted'[d][Meta])
    BY <1>2, BlankSent DEF relay
  <1>7. pin'[d].at = "publish" => AnswerOK(chain, pin'[d].pulled)
    BY <1>1, BlankValues DEF DeviceOK
  <1>8. accepted'[d][Meta] = 0
    BY <1>2, BlankValues
  <1>9. DeviceOK(chain, d)'
    BY <1>2, <1>6, <1>7, <1>8 DEF DeviceOK, SeenOK
  <1> QED BY <1>4, <1>5, <1>9, LocalStepOf

-----------------------------------------------------------------------------
(* Changes that leave the metadata row and the observed format alone. *)
LEMMA SameMeta ==
    ASSUME NEW c, NEW section, SectionOK(c, section), NEW next,
           next.rows[Meta] = section.rows[Meta], next.remote = section.remote
    PROVE  SectionOK(c, next)
  BY DEF SectionOK

(* The changes of a section that leave the metadata row alone. *)
LEMMA FlagsKeepType ==
    ASSUME NEW section \in Section
    PROVE  /\ \A g \in {"none", "dirty", "clean"} :
                 LET next == [section EXCEPT !.group = g]
                 IN  /\ next \in Section
                     /\ next.rows = section.rows /\ next.remote = section.remote
           /\ LET next == [section EXCEPT !.blocked = TRUE]
              IN  /\ next \in Section
                  /\ next.rows = section.rows /\ next.remote = section.remote
           /\ \A rows \in [Key -> Row] :
                 LET next == [section EXCEPT !.rows = rows]
                 IN  next \in Section /\ next.rows = rows /\ next.remote = section.remote
  BY DEF Section, Row

(* A step that takes or passes on the lock, with the sections and what is  *)
(* sent and received left alone.                                           *)
LEMMA LockStep ==
    ASSUME IInv, NEW d \in Device, NEW where \in Places, NEW why \in Goals,
           Goto(d, where, why), Persist(d, mem[d]),
           UNCHANGED <<relay, saveBlocked, pulled, sent, accepted, pin, futureSeen>>,
           CountsType', where = "pull", pc[d] = "idle"
    PROVE  IInv'
  <1>1. /\ RelayType /\ SavesType /\ RoundType /\ PinType /\ SeenType /\ mem[d] \in Section
        /\ DeviceOK(chain, d)
    BY IInvParts
  <1>2. /\ mem' \in [Device -> Section] /\ disk' \in [Device -> Section]
        /\ mem'[d] = mem[d] /\ disk'[d] = mem[d]
        /\ \A e \in Device \ {d} : mem'[e] = mem[e] /\ disk'[e] = disk[e]
    BY <1>1, PersistFacts
  <1>3. RelayType' /\ SavesType' /\ PinType' /\ SeenType'
    BY <1>1, <1>2, SameTypes DEF SavesType
  <1>4. /\ RoundType' /\ pc'[d] = where /\ \A e \in Device \ {d} : pc'[e] = pc[e]
    BY <1>1 DEF RoundType, Goto
  <1>5. TypeOK'
    BY <1>3, <1>4, TypePartsNext
  <1>6. Others(d)
    BY <1>2, <1>4 DEF Others
  <1>7. chain' = chain
    BY DEF relay
  <1>8. DeviceOK(chain, d)'
    BY <1>1, <1>2, <1>4, <1>7 DEF DeviceOK, SeenOK
  <1> QED BY <1>5, <1>6, <1>8, LocalStepOf

(* The answer of a full pull is what the relay has. *)
LEMMA FullPullOK ==
    ASSUME chain \in Chain, ChainOK(chain)
    PROVE  /\ FullPull \in Answer /\ AnswerOK(chain, FullPull)
           /\ SchemaOf(FullPull.rows[Meta].body) = Format(chain)
  <1>1. FullPull \in Answer /\ FullPull.rows = chain.rows
    BY DEF FullPull, Answer, Chain
  <1>2. Format(chain) \in Nat
    BY FormatNumbers
  <1> QED BY <1>1, <1>2 DEF AnswerOK, ChainOK, Sound, Format

(* prepare_account_gate(): the answer is the relay's own table. *)
LEMMA GatePullKeeps ==
    ASSUME IInv, NEW d \in Device, GatePull(d)
    PROVE  IInv'
  <1>1. /\ RelayType /\ SavesType /\ RoundType /\ PinType /\ SeenType /\ CountsType
        /\ DeviceOK(chain, d) /\ chain \in Chain /\ ChainOK(chain)
    BY IInvParts
  <1>2. /\ FullPull \in Answer /\ AnswerOK(chain, FullPull)
        /\ SchemaOf(FullPull.rows[Meta].body) = Format(chain)
    BY <1>1, FullPullOK
  <1>3. RelayType' /\ SavesType' /\ PinType' /\ SeenType' /\ CountsType'
    BY <1>1, SameTypes DEF GatePull
  <1>4. /\ RoundType' /\ pc'[d] = "publish" /\ pulled'[d] = FullPull
        /\ \A e \in Device \ {d} : pc'[e] = pc[e] /\ pulled'[e] = pulled[e]
    BY <1>1, <1>2 DEF RoundType, Goto, GatePull, Places
  <1>5. TypeOK'
    BY <1>3, <1>4, TypePartsNext
  <1>6. Others(d)
    BY <1>4 DEF Others, GatePull, local
  <1>7. UNCHANGED <<relay, mem, disk, sent, accepted, pin, futureSeen>> /\ pc[d] = "pull"
    BY DEF GatePull, local
  <1>8. chain' = chain
    BY <1>7 DEF relay
  <1>9. DeviceOK(chain, d)'
    BY <1>1, <1>2, <1>4, <1>7, <1>8 DEF DeviceOK, SeenOK
  <1> QED BY <1>5, <1>6, <1>7, <1>9, LocalStepOf

(* What a device knows of newer formats, after it has published an answer. *)
LEMMA PublishSees ==
    ASSUME IInv, NEW d \in Device, NEW answer \in Answer, AnswerOK(chain, answer),
           NEW next, next = Publish(mem[d], answer), See(d, next)
    PROVE  /\ next \in Section /\ SectionOK(chain, next)
           /\ futureSeen'[d] = "now" => next.remote > ACCOUNT_SCHEMA
           /\ futureSeen'[d] # "never" => Format(chain) > ACCOUNT_SCHEMA
           /\ Gate(mem[d], answer) = "compatible" => futureSeen'[d] = futureSeen[d]
           /\ SeenType' /\ \A e \in Device \ {d} : futureSeen'[e] = futureSeen[e]
  <1>1. /\ chain \in Chain /\ ChainOK(chain) /\ mem[d] \in Section
        /\ SectionOK(chain, mem[d]) /\ SeenOK(chain, d) /\ SeenType
    BY IInvParts
  <1>2. SectionOK(chain, next) /\ next \in Section
    BY <1>1, PublishOK, PublishFacts
  <1>3. /\ SeenType'
        /\ futureSeen'[d] = IF next.remote > ACCOUNT_SCHEMA THEN "now" ELSE futureSeen[d]
        /\ \A e \in Device \ {d} : futureSeen'[e] = futureSeen[e]
    BY <1>1, SeeFacts
  <1> DEFINE o == ObservedSchema(mem[d], answer)
  <1>4. o \in Nat /\ o >= mem[d].remote /\ mem[d].remote \in Nat /\ next.remote \in Nat
    BY <1>1, <1>2, ObservedFacts DEF Section
  <1>5. /\ Gate(mem[d], answer) = "compatible" => o <= ACCOUNT_SCHEMA /\ next.remote = o
        /\ Gate(mem[d], answer) # "compatible" => (o > ACCOUNT_SCHEMA => next.remote >= o)
    BY <1>1, PublishFacts
  <1> HIDE DEF o
  <1>6. mem[d].remote > ACCOUNT_SCHEMA => next.remote > ACCOUNT_SCHEMA
    BY <1>4, <1>5 DEF ACCOUNT_SCHEMA
  <1>7. futureSeen'[d] = "now" => next.remote > ACCOUNT_SCHEMA
    BY <1>1, <1>3, <1>6 DEF SeenOK
  <1>8. futureSeen'[d] # "never" => Format(chain) > ACCOUNT_SCHEMA
    BY <1>1, <1>2, <1>3 DEF SeenOK, SectionOK
  <1>9. Gate(mem[d], answer) = "compatible" => futureSeen'[d] = futureSeen[d]
    BY <1>3, <1>4, <1>5 DEF ACCOUNT_SCHEMA
  <1> QED BY <1>2, <1>3, <1>7, <1>8, <1>9

(* A device that has seen a newer format does not get past its gate. *)
LEMMA SeenStopsGate ==
    ASSUME IInv, NEW d \in Device, pc[d] = "publish",
           Gate(mem[d], pulled[d]) = "compatible"
    PROVE  futureSeen[d] = "never"
  <1>1. mem[d] \in Section /\ pulled[d] \in Answer /\ SeenOK(chain, d)
    BY IInvParts
  <1>2. ObservedSchema(mem[d], pulled[d]) <= ACCOUNT_SCHEMA
    BY <1>1, PublishFacts
  <1>3. /\ ObservedSchema(mem[d], pulled[d]) \in Nat
        /\ ObservedSchema(mem[d], pulled[d]) >= SchemaOf(pulled[d].rows[Meta].body)
    BY <1>1, ObservedFacts
  <1>4. SchemaOf(pulled[d].rows[Meta].body) \in Nat
    BY <1>1, GateAssumption, RevNumbers DEF Answer, Table
  <1> QED BY <1>1, <1>2, <1>3, <1>4 DEF SeenOK, ACCOUNT_SCHEMA

(* publish_prepared_account_gate(), saved: the round ends or goes on. *)
LEMMA GatePublishKeeps ==
    ASSUME IInv, NEW d \in Device, GatePublish(d)
    PROVE  IInv'
  <1> DEFINE next == Publish(mem[d], pulled[d])
  <1>1. /\ RelayType /\ SavesType /\ RoundType /\ PinType /\ SeenType /\ CountsType
        /\ DeviceOK(chain, d) /\ chain \in Chain
        /\ pulled[d] \in Answer /\ AnswerOK(chain, pulled[d])
    BY IInvParts DEF GatePublish
  <1>2. See(d, next) /\ Persist(d, next) /\ pc[d] = "publish"
    BY DEF GatePublish
  <1>3. /\ next \in Section /\ SectionOK(chain, next)
        /\ futureSeen'[d] = "now" => next.remote > ACCOUNT_SCHEMA
        /\ futureSeen'[d] # "never" => Format(chain) > ACCOUNT_SCHEMA
        /\ Gate(mem[d], pulled[d]) = "compatible" => futureSeen'[d] = futureSeen[d]
        /\ SeenType' /\ \A e \in Device \ {d} : futureSeen'[e] = futureSeen[e]
    BY <1>1, <1>2, PublishSees
  <1> HIDE DEF next
  <1>4. /\ mem' \in [Device -> Section] /\ disk' \in [Device -> Section]
        /\ mem'[d] = next /\ disk'[d] = next
        /\ \A e \in Device \ {d} : mem'[e] = mem[e] /\ disk'[e] = disk[e]
    BY <1>1, <1>2, <1>3, PersistFacts
  <1>5. UNCHANGED <<relay, saveBlocked, pin, bounds>>
    BY DEF GatePublish
  <1>6. SavesType' /\ PinType' /\ CountsType' /\ RelayType'
    BY <1>1, <1>4, <1>5, SameTypes DEF SavesType
  <1>7. CASE Release(d)
    BY <1>3, <1>4, <1>5, <1>6, <1>7, RoundEnds
  <1>8. CASE Gate(mem[d], pulled[d]) = "compatible" /\ ~Release(d)
    <2> DEFINE out == [k \in Key |-> IF k \in Dirty(next) THEN Outgoing(next)[k]
                                     ELSE NothingSent[k]]
    <2>1. /\ pulled' = [pulled EXCEPT ![d] = NoPull] /\ UNCHANGED accepted
          /\ \E where \in Places \ {"idle", "receipt", "publish"}, why \in Goals :
                Goto(d, where, why)
          /\ sent' = [sent EXCEPT ![d] = out] \/ UNCHANGED sent
      <3>1. goal[d] \in Goals
        BY <1>1 DEF RoundType
      <3> QED BY <1>8, <3>1 DEF GatePublish, Places, Goals, next
    <2>2. out \in [Key -> Item]
      <3>1. \A k \in Key : Outgoing(next)[k] \in Item
        BY <1>3 DEF Outgoing, Section, Item
      <3> QED BY <3>1, BlankValues
    <2>3. SentOK(chain, out[Meta], 0)
      <3>1. out[Meta] = IF next.rows[Meta].dirty
                        THEN [base |-> next.rows[Meta].seq, body |-> next.rows[Meta].rev]
                        ELSE NothingSent[Meta]
        BY GateAssumption DEF Dirty, Outgoing
      <3> HIDE DEF out
      <3>2. CASE next.rows[Meta].dirty
        BY <1>3, <3>1, <3>2 DEF SectionOK, SentOK
      <3>3. CASE ~next.rows[Meta].dirty
        BY <3>1, <3>3, BlankValues DEF SentOK
      <3> QED BY <3>2, <3>3
    <2> HIDE DEF out
    <2>4. /\ RoundType' /\ pulled'[d] = NoPull /\ accepted' = accepted
          /\ pc'[d] \notin {"idle", "receipt", "publish"}
          /\ sent'[d] \in {out, sent[d]}
          /\ \A e \in Device \ {d} : /\ pc'[e] = pc[e] /\ pulled'[e] = pulled[e]
                                     /\ sent'[e] = sent[e]
      BY <1>1, <2>1, <2>2, BlankValues DEF RoundType, Goto
    <2>5. TypeOK'
      BY <1>3, <1>6, <2>4, TypePartsNext
    <2>6. Others(d)
      BY <1>3, <1>4, <1>5, <2>4 DEF Others
    <2>7. futureSeen'[d] = "never"
      BY <1>2, <1>3, <1>8, SeenStopsGate
    <2>8. accepted[d][Meta] = 0
      <3>1. accepted[d][Meta] \in Nat
        BY <1>1, GateAssumption DEF RoundType
      <3> QED BY <1>1, <1>2, <3>1 DEF DeviceOK
    <2>9. SentOK(chain, sent'[d][Meta], accepted'[d][Meta])
      BY <1>1, <2>3, <2>4, <2>8 DEF DeviceOK
    <2>10. chain' = chain /\ pin' = pin
      BY <1>5 DEF relay
    <2>11. DeviceOK(chain, d)'
      BY <1>1, <1>3, <1>4, <2>4, <2>7, <2>8, <2>9, <2>10 DEF DeviceOK, SeenOK
    <2> QED BY <1>5, <2>5, <2>6, <2>11, LocalStepOf
  <1> QED BY <1>7, <1>8 DEF GatePublish

(* FailClosed, with a fresh or with a prepared answer. *)
LEMMA FailClosedFacts ==
    ASSUME IInv, NEW d \in Device, NEW answer \in Answer, AnswerOK(chain, answer),
           FailClosed(d, answer), UNCHANGED <<edits, pins>>
    PROVE  /\ SavesType' /\ SeenType' /\ CountsType'
           /\ SectionOK(chain, mem'[d]) /\ disk' = disk
           /\ futureSeen'[d] = "now" => mem'[d].remote > ACCOUNT_SCHEMA
           /\ futureSeen'[d] # "never" => Format(chain) > ACCOUNT_SCHEMA
           /\ \A e \in Device \ {d} : mem'[e] = mem[e] /\ futureSeen'[e] = futureSeen[e]
  <1> DEFINE next == Publish(mem[d], answer)
             closed == Gate(mem[d], answer) # "compatible"
  <1>1. /\ SavesType /\ SeenType /\ CountsType /\ SeenOK(chain, d)
        /\ mem[d] \in Section /\ SectionOK(chain, mem[d])
    BY IInvParts
  <1>2. /\ mem' = [mem EXCEPT ![d] = IF closed THEN next ELSE mem[d]]
        /\ saveBlocked' = [saveBlocked EXCEPT ![d] = closed \/ saveBlocked[d]]
        /\ closed => See(d, next)
        /\ ~closed => UNCHANGED futureSeen
        /\ disk' = disk /\ Fault
    BY DEF FailClosed
  <1>3. CountsType'
    BY <1>1, <1>2, FaultFacts
  <1>4. closed \in BOOLEAN
    OBVIOUS
  <1>5. CASE closed
    <2>1. /\ next \in Section /\ SectionOK(chain, next)
          /\ futureSeen'[d] = "now" => next.remote > ACCOUNT_SCHEMA
          /\ futureSeen'[d] # "never" => Format(chain) > ACCOUNT_SCHEMA
          /\ SeenType' /\ \A e \in Device \ {d} : futureSeen'[e] = futureSeen[e]
      BY <1>2, <1>5, PublishSees
    <2> HIDE DEF next
    <2>2. /\ SavesType' /\ mem'[d] = next /\ \A e \in Device \ {d} : mem'[e] = mem[e]
      BY <1>1, <1>2, <1>5, <2>1 DEF SavesType
    <2> QED BY <1>2, <1>3, <2>1, <2>2
  <1>6. CASE ~closed
    <2>1. SavesType' /\ mem' = mem /\ futureSeen' = futureSeen
      BY <1>1, <1>2, <1>6 DEF SavesType
    <2> QED BY <1>1, <1>2, <1>3, <2>1, SameTypes DEF SeenOK
  <1> QED BY <1>5, <1>6

(* The same with a save that fails. *)
LEMMA GatePublishFailsKeeps ==
    ASSUME IInv, NEW d \in Device, GatePublishFails(d)
    PROVE  IInv'
  <1>1. PinType /\ pulled[d] \in Answer /\ AnswerOK(chain, pulled[d])
        /\ SectionOK(chain, disk[d])
    BY IInvParts DEF GatePublishFails
  <1>2. FailClosed(d, pulled[d]) /\ Release(d) /\ UNCHANGED <<relay, pin, edits, pins>>
    BY DEF GatePublishFails
  <1>3. PinType'
    BY <1>1, <1>2, SameTypes
  <1> QED BY <1>1, <1>2, <1>3, FailClosedFacts, RoundEnds

(* promote(): the new metadata row. *)
LEMMA PromoteFacts ==
    ASSUME IInv, NEW d \in Device, NEW now \in 1..MaxNow
    PROVE  LET next == [mem[d] EXCEPT !.rows = Promote(d, now), !.group = "dirty"]
           IN  /\ next \in Section /\ next.remote = mem[d].remote
               /\ SectionOK(chain, next)
  <1> DEFINE row == mem[d].rows[Meta]
             new == AccountRev(row.rev, now, d, ACCOUNT_SCHEMA)
             rows == Promote(d, now)
             next == [mem[d] EXCEPT !.rows = rows, !.group = "dirty"]
  <1>1. mem[d] \in Section /\ SectionOK(chain, mem[d]) /\ CountsType /\ chain \in Chain
    BY IInvParts
  <1>2. row \in Row /\ row.rev \in AccountRevs /\ row.seq \in Nat /\ row.rev.ts \in Nat
    BY <1>1, GateAssumption, RevNumbers DEF Section, Row
  <1>3. /\ OwnRev(row.rev) /\ row.seq <= chain.latest /\ Sound(chain, row.seq, row.rev)
        /\ row.rev.ts >= 1 /\ SchemaOf(row.rev) <= ACCOUNT_SCHEMA
    BY <1>1, <1>2, MetaRevFacts DEF SectionOK, OwnRev
  <1>4. now \in Nat /\ edits \in Nat
    BY <1>1, GateAssumption DEF CountsType
  <1>5. /\ new \in AccountRevs /\ new.ts > 1 /\ new.schema = ACCOUNT_SCHEMA /\ new # NoRev
    <2>1. Stamp(row.rev, now) \in Nat \ {0} /\ Stamp(row.rev, now) > 1
      BY <1>2, <1>3, <1>4 DEF Stamp
    <2>2. new.ts = Stamp(row.rev, now) /\ new.schema = ACCOUNT_SCHEMA
      BY DEF AccountRev
    <2>3. new \in AccountRevs
      BY <1>4, <2>1 DEF AccountRev, AccountRevs, ACCOUNT_SCHEMA
    <2>4. new # NoRev
      BY <2>1, <2>2 DEF NoRev
    <2> QED BY <2>1, <2>2, <2>3, <2>4
  <1>6. OwnRev(new) /\ SchemaOf(new) = ACCOUNT_SCHEMA
    <2> HIDE DEF new
    <2>1. SchemaOf(new) = ACCOUNT_SCHEMA
      BY <1>5 DEF SchemaOf
    <2> QED BY <1>5, <2>1 DEF OwnRev, MetaRev, ACCOUNT_SCHEMA
  <1>7. rows = IF GroupEnabled(mem[d]) THEN mem[d].rows
               ELSE [mem[d].rows EXCEPT ![Meta] = [rev |-> new, seq |-> row.seq, dirty |-> TRUE]]
    BY DEF Promote
  <1> HIDE DEF new, row
  <1>8. mem[d].rows \in [Key -> Row] /\ mem[d].rows[Meta] = row
    BY <1>1 DEF Section, Row, row
  <1>9. [rev |-> new, seq |-> row.seq, dirty |-> TRUE] \in Row
    BY <1>2, <1>5 DEF Row
  <1>10. /\ rows \in [Key -> Row]
         /\ rows[Meta] \in {row, [rev |-> new, seq |-> row.seq, dirty |-> TRUE]}
    BY <1>7, <1>8, <1>9, GateAssumption
  <1> HIDE DEF rows
  <1>11. next \in Section /\ next.remote = mem[d].remote /\ next.rows = rows
    BY <1>1, <1>10 DEF Section, Row
  <1> HIDE DEF next
  <1>12. CASE rows[Meta] = row
    BY <1>1, <1>8, <1>11, <1>12, SameMeta DEF next, rows
  <1>13. CASE rows[Meta] = [rev |-> new, seq |-> row.seq, dirty |-> TRUE]
    <2>1. Format(chain) \in Nat /\ SchemaOf(row.rev) \in Nat
      BY <1>1, <1>2, FormatNumbers, RevNumbers
    <2>2. Sound(chain, row.seq, new)
      BY <1>3, <1>6, <2>1 DEF Sound, ACCOUNT_SCHEMA
    <2>3. SectionOK(chain, next)
      BY <1>1, <1>3, <1>6, <1>11, <1>13, <2>2 DEF SectionOK
    <2> QED BY <1>11, <2>3 DEF next, rows
  <1> QED BY <1>10, <1>12, <1>13

(* create_group() after its gate. *)
LEMMA PromotedEditKeeps ==
    ASSUME IInv, NEW d \in Device, NEW now \in 1..MaxNow, PromotedEdit(d, now)
    PROVE  IInv'
  <1> DEFINE next == [mem[d] EXCEPT !.rows = Promote(d, now), !.group = "dirty"]
  <1>1. next \in Section /\ next.remote = mem[d].remote /\ SectionOK(chain, next)
    BY PromoteFacts
  <1>2. Persist(d, next) /\ Release(d) /\ UNCHANGED <<relay, saveBlocked, pin, futureSeen, bounds>>
    BY DEF PromotedEdit
  <1> HIDE DEF next
  <1>3. SavesType /\ PinType /\ SeenType /\ CountsType /\ SeenOK(chain, d)
    BY IInvParts
  <1>4. /\ mem' \in [Device -> Section] /\ disk' \in [Device -> Section]
        /\ mem'[d] = next /\ disk'[d] = next
        /\ \A e \in Device \ {d} : mem'[e] = mem[e] /\ disk'[e] = disk[e]
    BY <1>1, <1>2, <1>3, PersistFacts
  <1>5. SavesType' /\ PinType' /\ SeenType' /\ CountsType'
    BY <1>2, <1>3, <1>4, SameTypes DEF SavesType
  <1> QED BY <1>1, <1>2, <1>3, <1>4, <1>5, RoundEnds DEF SeenOK

-----------------------------------------------------------------------------
(* A step of one device that leaves the relay and what is pulled, sent and *)
(* received alone: it may save, move on to a pull, change what it knows of *)
(* newer formats while it is idle, and confirm a host key.                 *)
LEMMA SaveStep ==
    ASSUME IInv, NEW d \in Device, SavesType', RoundType', PinType', SeenType', CountsType',
           UNCHANGED <<relay, pulled, sent, accepted>>,
           \A e \in Device \ {d} : /\ mem'[e] = mem[e] /\ disk'[e] = disk[e]
                                   /\ pc'[e] = pc[e] /\ pin'[e] = pin[e]
                                   /\ futureSeen'[e] = futureSeen[e],
           SectionOK(chain, mem'[d]), SectionOK(chain, disk'[d]),
           pc'[d] = pc[d] \/ (pc'[d] = "pull" /\ pc[d] # "receipt"),
           pin'[d].at = "publish" => AnswerOK(chain, pin'[d].pulled),
           futureSeen'[d] = "now" => mem'[d].remote > ACCOUNT_SCHEMA,
           futureSeen'[d] # "never" => Format(chain) > ACCOUNT_SCHEMA,
           futureSeen'[d] = futureSeen[d] \/ pc'[d] = "idle"
    PROVE  IInv'
  <1>1. RelayType /\ DeviceOK(chain, d) /\ accepted[d][Meta] \in Nat
    BY IInvParts, GateAssumption
  <1>2. RelayType'
    BY <1>1, SameTypes
  <1>3. TypeOK'
    BY <1>2, TypePartsNext
  <1>4. Others(d)
    BY DEF Others
  <1>5. chain' = chain
    BY DEF relay
  <1>6. SeenOK(chain, d)'
    <2>1. CASE pc'[d] = "idle"
      BY <1>5, <2>1 DEF SeenOK
    <2>2. CASE pc'[d] = "pull"
      BY <1>5, <2>2 DEF SeenOK
    <2>3. CASE futureSeen'[d] = futureSeen[d] /\ pc'[d] = pc[d]
      BY <1>1, <1>5, <2>3 DEF SeenOK, DeviceOK
    <2> QED BY <2>1, <2>2, <2>3
  <1>7. (accepted[d][Meta] > 0 => pc[d] = "receipt")'
    BY <1>1 DEF DeviceOK
  <1>8. DeviceOK(chain, d)'
    BY <1>1, <1>5, <1>6, <1>7 DEF DeviceOK
  <1> QED BY <1>3, <1>4, <1>8, LocalStepOf

(* An edit that is saved and changes nothing but the device's section. *)
LEMMA EditStep ==
    ASSUME IInv, NEW d \in Device, NEW next \in Section, SectionOK(chain, next),
           next.remote = mem[d].remote, Persist(d, next), CountsType',
           UNCHANGED <<relay, saveBlocked, round, pin, futureSeen>>
    PROVE  IInv'
  <1>1. SavesType /\ RoundType /\ PinType /\ SeenType /\ SeenOK(chain, d) /\ DeviceOK(chain, d)
    BY IInvParts
  <1>2. /\ mem' \in [Device -> Section] /\ disk' \in [Device -> Section]
        /\ mem'[d] = next /\ disk'[d] = next
        /\ \A e \in Device \ {d} : mem'[e] = mem[e] /\ disk'[e] = disk[e]
    BY <1>1, PersistFacts
  <1>3. SavesType' /\ RoundType' /\ PinType' /\ SeenType'
    BY <1>1, <1>2, SameTypes DEF SavesType
  <1>4. UNCHANGED <<relay, pc, pulled, sent, accepted, pin, futureSeen>>
    BY DEF round
  <1> QED BY <1>1, <1>2, <1>3, <1>4, SaveStep DEF SeenOK, DeviceOK

(* edit_records() of a group, with the format raised already. *)
LEMMA GroupEditKeeps ==
    ASSUME IInv, NEW d \in Device, GroupEdit(d)
    PROVE  IInv'
  <1> DEFINE next == [mem[d] EXCEPT !.group = "dirty"]
  <1>1. mem[d] \in Section /\ SectionOK(chain, mem[d]) /\ CountsType
    BY IInvParts
  <1>2. next \in Section /\ next.rows = mem[d].rows /\ next.remote = mem[d].remote
    BY <1>1, FlagsKeepType
  <1>3. Persist(d, next) /\ UNCHANGED <<relay, saveBlocked, round, pin, futureSeen>>
    BY DEF GroupEdit
  <1> HIDE DEF next
  <1>4. SectionOK(chain, next)
    BY <1>1, <1>2, SameMeta
  <1>5. CountsType'
    BY <1>1, GateAssumption DEF GroupEdit, CountsType
  <1> QED BY <1>2, <1>3, <1>4, <1>5, EditStep

(* An edit of another account row does not touch the metadata. *)
LEMMA AccountEditKeeps ==
    ASSUME IInv, NEW d \in Device, NEW k \in Key, NEW now \in 1..MaxNow,
           AccountEdit(d, k, now)
    PROVE  IInv'
  <1> DEFINE row == mem[d].rows[k]
             new == AccountRev(row.rev, now, d, 0)
             edited == [rev |-> new, seq |-> row.seq, dirty |-> TRUE]
             rows == [mem[d].rows EXCEPT ![k] = edited]
             next == [mem[d] EXCEPT !.rows = rows]
  <1>1. mem[d] \in Section /\ SectionOK(chain, mem[d]) /\ CountsType
    BY IInvParts
  <1>2. mem[d].rows \in [Key -> Row] /\ row \in Row /\ row.rev \in AccountRevs /\ row.seq \in Nat
    BY <1>1 DEF Section, Row
  <1>3. new \in AccountRevs
    <2>1. now \in Nat \ {0} /\ edits \in Nat /\ row.rev.ts \in Nat
      BY <1>1, <1>2, GateAssumption, RevNumbers DEF CountsType
    <2>2. Stamp(row.rev, now) \in Nat \ {0}
      BY <2>1 DEF Stamp
    <2> QED BY <2>1, <2>2 DEF AccountRev, AccountRevs
  <1>4. Persist(d, next) /\ k # Meta /\ UNCHANGED <<relay, saveBlocked, round, pin, futureSeen>>
    BY DEF AccountEdit
  <1> HIDE DEF new, row
  <1>5. rows \in [Key -> Row] /\ rows[Meta] = mem[d].rows[Meta]
    BY <1>2, <1>3, <1>4, GateAssumption DEF Row
  <1> HIDE DEF rows
  <1>6. next \in Section /\ next.rows = rows /\ next.remote = mem[d].remote
    BY <1>1, <1>5, FlagsKeepType
  <1> HIDE DEF next
  <1>7. SectionOK(chain, next)
    BY <1>1, <1>5, <1>6, SameMeta
  <1>8. CountsType'
    BY <1>1, GateAssumption DEF AccountEdit, CountsType
  <1> QED BY <1>4, <1>6, <1>7, <1>8, EditStep

-----------------------------------------------------------------------------
(* What a device sends is fit for the relay. *)
LEMMA SentPushOK ==
    ASSUME IInv, NEW d \in Device, RelayPush(SentItems(d))
    PROVE  LET acc == Accepted(chain.rows, SentItems(d))
           IN  /\ chain' \in Chain /\ ChainOK(chain') /\ Grows(chain, chain')
               /\ \A k \in acc : SeqOf(chain.latest, acc, k) \in Nat
               /\ Meta \in acc =>
                     /\ sent[d][Meta].body # NoRev
                     /\ chain'.rows[Meta].seq = SeqOf(chain.latest, acc, Meta)
                     /\ chain'.rows[Meta].body = sent[d][Meta].body
                     /\ chain'.rows[Meta].seq <= chain'.latest
  <1> DEFINE items == SentItems(d)
  <1>1. /\ chain \in Chain /\ ChainOK(chain) /\ sent[d] \in [Key -> Item]
        /\ SentOK(chain, sent[d][Meta], accepted[d][Meta])
    BY IInvParts
  <1>2. /\ DOMAIN items \subseteq Key
        /\ \A k \in DOMAIN items : items[k] \in Item /\ items[k] = sent[d][k]
        /\ Meta \in DOMAIN items => sent[d][Meta].body # NoRev
    BY <1>1 DEF SentItems
  <1> HIDE DEF items
  <1>3. Meta \in DOMAIN items => /\ MetaRev(items[Meta].body)
                                 /\ Sound(chain, items[Meta].base, items[Meta].body)
    BY <1>1, <1>2 DEF SentOK, OwnRev
  <1>4. RelayPush(items)
    BY DEF items
  <1> DEFINE acc == Accepted(chain.rows, items)
  <1>5. /\ chain' \in Chain /\ ChainOK(chain') /\ Grows(chain, chain')
        /\ \A k \in acc : SeqOf(chain.latest, acc, k) \in Nat
        /\ Meta \in acc =>
              /\ Meta \in DOMAIN items
              /\ chain'.rows[Meta].seq = SeqOf(chain.latest, acc, Meta)
              /\ chain'.rows[Meta].body = items[Meta].body
              /\ chain'.rows[Meta].seq <= chain'.latest
    BY <1>1, <1>2, <1>3, <1>4, PushOK
  <1> HIDE DEF acc
  <1>6. /\ chain' \in Chain /\ ChainOK(chain') /\ Grows(chain, chain')
        /\ \A k \in acc : SeqOf(chain.latest, acc, k) \in Nat
        /\ Meta \in acc =>
              /\ sent[d][Meta].body # NoRev
              /\ chain'.rows[Meta].seq = SeqOf(chain.latest, acc, Meta)
              /\ chain'.rows[Meta].body = sent[d][Meta].body
              /\ chain'.rows[Meta].seq <= chain'.latest
    BY <1>2, <1>5
  <1> QED BY <1>6 DEF acc, items

(* A grouped record on the space chain stays behind the format. *)
LEMMA SpaceGrows ==
    ASSUME IInv, chain' \in Chain, Grows(chain, chain'), space' = space
    PROVE  space' => Format(chain') >= ACCOUNT_SCHEMA
  <1>1. chain \in Chain /\ (space => Format(chain) >= ACCOUNT_SCHEMA)
    BY IInvParts
  <1>2. Format(chain) \in Nat /\ Format(chain') \in Nat /\ Format(chain) <= Format(chain')
    BY <1>1, FormatNumbers DEF Grows
  <1> QED BY <1>1, <1>2 DEF ACCOUNT_SCHEMA

(* push_section() of the account rows, answered. *)
LEMMA PushAccountKeeps ==
    ASSUME IInv, NEW d \in Device, PushAccount(d)
    PROVE  IInv' /\ Grows(chain, chain')
  <1> DEFINE acc == Accepted(chain.rows, SentItems(d))
             got == [k \in Key |-> IF k \in acc THEN SeqOf(chain.latest, acc, k) ELSE 0]
  <1>1. /\ RelayType /\ SavesType /\ RoundType /\ PinType /\ SeenType /\ CountsType
        /\ DeviceOK(chain, d) /\ chain \in Chain
        /\ accepted[d] \in [Key -> Nat] /\ sent[d] \in [Key -> Item]
        /\ accepted[d][Meta] > 0 => pc[d] = "receipt"
        /\ SeenOK(chain, d)
    BY IInvParts
  <1>2. /\ pc[d] = "push" /\ RelayPush(SentItems(d)) /\ space' = space
        /\ accepted' = [accepted EXCEPT ![d] = got]
        /\ Goto(d, "receipt", "account")
        /\ UNCHANGED <<local, pulled, sent, pin, futureSeen, bounds>>
    BY DEF PushAccount, RelayPush
  <1>3. /\ chain' \in Chain /\ ChainOK(chain') /\ Grows(chain, chain')
        /\ \A k \in acc : SeqOf(chain.latest, acc, k) \in Nat
        /\ Meta \in acc =>
              /\ sent[d][Meta].body # NoRev
              /\ chain'.rows[Meta].seq = SeqOf(chain.latest, acc, Meta)
              /\ chain'.rows[Meta].body = sent[d][Meta].body
              /\ chain'.rows[Meta].seq <= chain'.latest
    BY <1>2, SentPushOK
  <1> HIDE DEF acc
  <1>4. /\ got \in [Key -> Nat]
        /\ got[Meta] = IF Meta \in acc THEN SeqOf(chain.latest, acc, Meta) ELSE 0
    BY <1>3, GateAssumption
  <1> HIDE DEF got
  <1>5. RelayType' /\ SavesType' /\ PinType' /\ SeenType' /\ CountsType'
    BY <1>1, <1>2, <1>3, SameTypes DEF RelayType
  <1>6. /\ RoundType' /\ pc'[d] = "receipt" /\ accepted'[d] = got
        /\ \A e \in Device \ {d} : pc'[e] = pc[e] /\ accepted'[e] = accepted[e]
    BY <1>1, <1>2, <1>4 DEF RoundType, Goto, Places, Goals
  <1>7. TypeOK'
    BY <1>5, <1>6, TypePartsNext
  <1>8. Others(d)
    BY <1>2, <1>6 DEF Others, local
  <1>9. SectionOK(chain', mem[d]) /\ SectionOK(chain', disk[d])
        /\ (pin[d].at = "publish" => AnswerOK(chain', pin[d].pulled))
        /\ SentOK(chain', sent[d][Meta], accepted[d][Meta])
    <2>1. DeviceOK(chain', d)
      BY <1>1, <1>3, DeviceGrows DEF IInv
    <2> QED BY <2>1 DEF DeviceOK
  <1>10. SentOK(chain', sent[d][Meta], got[Meta])
    <2>1. CASE Meta \in acc
      <3>1. Format(chain') = SchemaOf(sent[d][Meta].body) /\ Format(chain') \in Nat
        BY <1>3, <2>1, FormatNumbers DEF Format
      <3>2. got[Meta] = chain'.rows[Meta].seq
        BY <1>3, <1>4, <2>1
      <3> QED BY <1>3, <1>9, <2>1, <3>1, <3>2 DEF SentOK, Sound
    <2>2. CASE Meta \notin acc
      BY <1>4, <1>9, <2>2 DEF SentOK
    <2> QED BY <2>1, <2>2
  <1>11. futureSeen[d] = "never"
    BY <1>1, <1>2 DEF SeenOK
  <1>12. DeviceOK(chain, d)'
    BY <1>2, <1>6, <1>9, <1>10, <1>11 DEF DeviceOK, SeenOK, local
  <1>13. space' => Format(chain') >= ACCOUNT_SCHEMA
    BY <1>2, <1>3, SpaceGrows
  <1> QED BY <1>3, <1>7, <1>8, <1>12, <1>13, StepOf

(* The same without the answer: the relay may have applied the push, and   *)
(* the device does not know it.                                            *)
LEMMA PushAccountFailsKeeps ==
    ASSUME IInv, NEW d \in Device, PushAccountFails(d)
    PROVE  IInv' /\ Grows(chain, chain')
  <1>1. /\ RelayType /\ SavesType /\ RoundType /\ PinType /\ SeenType /\ CountsType
        /\ DeviceOK(chain, d) /\ chain \in Chain /\ ChainOK(chain) /\ SeenOK(chain, d)
    BY IInvParts
  <1>2. /\ pc[d] = "push" /\ Fault /\ Release(d)
        /\ RelayPush(SentItems(d)) \/ UNCHANGED relay
        /\ UNCHANGED <<local, pin, futureSeen, edits, pins>>
    BY DEF PushAccountFails
  <1>3. chain' \in Chain /\ ChainOK(chain') /\ Grows(chain, chain') /\ space' = space
    <2>1. CASE RelayPush(SentItems(d))
      BY <2>1, SentPushOK DEF RelayPush
    <2>2. CASE UNCHANGED relay
      BY <1>1, <2>2, GrowsReflexive DEF relay
    <2> QED BY <1>2, <2>1, <2>2
  <1>4. RelayType' /\ SavesType' /\ PinType' /\ SeenType' /\ CountsType'
    BY <1>1, <1>2, <1>3, SameTypes, FaultFacts DEF RelayType
  <1>5. /\ RoundType'
        /\ pc'[d] = "idle" /\ sent'[d] = NothingSent /\ accepted'[d] = NoReceipts
        /\ \A e \in Device \ {d} : /\ pc'[e] = pc[e] /\ pulled'[e] = pulled[e]
                                   /\ sent'[e] = sent[e] /\ accepted'[e] = accepted[e]
    BY <1>1, <1>2, ReleaseFacts
  <1>6. TypeOK'
    BY <1>4, <1>5, TypePartsNext
  <1>7. Others(d)
    BY <1>2, <1>5 DEF Others, local
  <1>8. SectionOK(chain', mem[d]) /\ SectionOK(chain', disk[d])
        /\ (pin[d].at = "publish" => AnswerOK(chain', pin[d].pulled))
    <2>1. DeviceOK(chain', d)
      BY <1>1, <1>3, DeviceGrows DEF IInv
    <2> QED BY <2>1 DEF DeviceOK
  <1>9. SentOK(chain', sent'[d][Meta], accepted'[d][Meta]) /\ accepted'[d][Meta] = 0
    BY <1>5, BlankValues DEF SentOK
  <1>10. futureSeen[d] = "never"
    BY <1>1, <1>2 DEF SeenOK
  <1>11. DeviceOK(chain, d)'
    BY <1>2, <1>5, <1>8, <1>9, <1>10 DEF DeviceOK, SeenOK, local
  <1>12. space' => Format(chain') >= ACCOUNT_SCHEMA
    BY <1>3, SpaceGrows
  <1> QED BY <1>3, <1>6, <1>7, <1>11, <1>12, StepOf

(* receipt_commit(): saved, or kept in memory while the round ends. *)
LEMMA AccountReceiptKeeps ==
    ASSUME IInv, NEW d \in Device, AccountReceipt(d)
    PROVE  IInv'
  <1> DEFINE next == ApplyReceipts(mem[d], sent[d], accepted[d])
  <1>1. /\ RelayType /\ SavesType /\ RoundType /\ PinType /\ SeenType /\ CountsType
        /\ DeviceOK(chain, d) /\ SeenOK(chain, d) /\ chain \in Chain
        /\ mem[d] \in Section /\ SectionOK(chain, mem[d]) /\ SectionOK(chain, disk[d])
        /\ accepted[d] \in [Key -> Nat] /\ sent[d] \in [Key -> Item]
        /\ SentOK(chain, sent[d][Meta], accepted[d][Meta])
    BY IInvParts
  <1>2. next \in Section /\ SectionOK(chain, next) /\ next.remote = mem[d].remote
    BY <1>1, ReceiptOK
  <1>3. /\ pc[d] = "receipt" /\ mem' = [mem EXCEPT ![d] = next]
        /\ disk' \in {disk, [disk EXCEPT ![d] = next]}
        /\ UNCHANGED <<relay, saveBlocked, pin, futureSeen, edits, pins>>
    BY DEF AccountReceipt
  <1>4. \/ /\ Goto(d, "space", "round") /\ UNCHANGED <<pulled, faults>>
           /\ sent' = [sent EXCEPT ![d] = NothingSent]
           /\ accepted' = [accepted EXCEPT ![d] = NoReceipts]
        \/ Fault /\ Release(d)
    BY DEF AccountReceipt
  <1> HIDE DEF next
  <1>5. futureSeen[d] = "never"
    BY <1>1, <1>3 DEF SeenOK
  <1>6. /\ SavesType' /\ mem'[d] = next /\ disk'[d] \in {disk[d], next}
        /\ \A e \in Device \ {d} : mem'[e] = mem[e] /\ disk'[e] = disk[e]
    BY <1>1, <1>2, <1>3 DEF SavesType
  <1>7. SectionOK(chain, mem'[d]) /\ SectionOK(chain, disk'[d])
    BY <1>1, <1>2, <1>6
  <1>8. PinType' /\ SeenType' /\ RelayType'
    BY <1>1, <1>3, SameTypes
  <1>9. CASE Fault /\ Release(d)
    <2>1. CountsType'
      BY <1>1, <1>3, <1>9, FaultFacts
    <2> QED BY <1>3, <1>5, <1>6, <1>7, <1>8, <1>9, <2>1, RoundEnds
  <1>10. CASE /\ Goto(d, "space", "round") /\ UNCHANGED <<pulled, faults>>
              /\ sent' = [sent EXCEPT ![d] = NothingSent]
              /\ accepted' = [accepted EXCEPT ![d] = NoReceipts]
    <2>1. CountsType'
      BY <1>1, <1>3, <1>10 DEF CountsType
    <2>2. /\ RoundType' /\ pc'[d] = "space" /\ sent'[d] = NothingSent
          /\ accepted'[d] = NoReceipts /\ pulled' = pulled
          /\ \A e \in Device \ {d} : /\ pc'[e] = pc[e] /\ sent'[e] = sent[e]
                                     /\ accepted'[e] = accepted[e]
      BY <1>1, <1>10, BlankValues DEF RoundType, Goto, Places, Goals
    <2>3. TypeOK'
      BY <1>6, <1>8, <2>1, <2>2, TypePartsNext
    <2>4. Others(d)
      BY <1>3, <1>6, <2>2 DEF Others
    <2>5. SentOK(chain, sent'[d][Meta], accepted'[d][Meta]) /\ accepted'[d][Meta] = 0
      BY <2>2, BlankValues, BlankSent
    <2>6. chain' = chain
      BY <1>3 DEF relay
    <2>7. DeviceOK(chain, d)'
      BY <1>1, <1>3, <1>5, <1>7, <2>2, <2>5, <2>6 DEF DeviceOK, SeenOK
    <2> QED BY <1>3, <2>3, <2>4, <2>7, LocalStepOf
  <1> QED BY <1>4, <1>9, <1>10

(* run(): the space is pulled; the round ends or asks its gate again. *)
LEMMA SpacePullKeeps ==
    ASSUME IInv, NEW d \in Device, SpacePull(d)
    PROVE  IInv'
  <1> DEFINE g == IF space /\ mem[d].group = "none" THEN "clean" ELSE mem[d].group
             next == [mem[d] EXCEPT !.group = g]
  <1>1. /\ RelayType /\ SavesType /\ RoundType /\ PinType /\ SeenType /\ CountsType
        /\ DeviceOK(chain, d) /\ SeenOK(chain, d)
        /\ mem[d] \in Section /\ SectionOK(chain, mem[d])
    BY IInvParts
  <1>2. g \in {"none", "dirty", "clean"}
    BY <1>1 DEF Section
  <1>3. /\ pc[d] = "space" /\ Persist(d, next)
        /\ \/ Goto(d, "pull", "space") /\ UNCHANGED <<pulled, sent, accepted>>
           \/ Release(d)
        /\ UNCHANGED <<relay, saveBlocked, pin, futureSeen, bounds>>
    BY DEF SpacePull
  <1> HIDE DEF g
  <1>4. next \in Section /\ next.rows = mem[d].rows /\ next.remote = mem[d].remote
    BY <1>1, <1>2, FlagsKeepType
  <1> HIDE DEF next
  <1>5. SectionOK(chain, next)
    BY <1>1, <1>4, SameMeta
  <1>6. /\ mem' \in [Device -> Section] /\ disk' \in [Device -> Section]
        /\ mem'[d] = next /\ disk'[d] = next
        /\ \A e \in Device \ {d} : mem'[e] = mem[e] /\ disk'[e] = disk[e]
    BY <1>1, <1>3, <1>4, PersistFacts
  <1>7. SavesType' /\ PinType' /\ SeenType' /\ CountsType'
    BY <1>1, <1>3, <1>6, SameTypes DEF SavesType
  <1>8. futureSeen[d] = "never"
    BY <1>1, <1>3 DEF SeenOK
  <1>9. CASE Release(d)
    BY <1>3, <1>5, <1>6, <1>7, <1>8, <1>9, RoundEnds
  <1>10. CASE Goto(d, "pull", "space") /\ UNCHANGED <<pulled, sent, accepted>>
    <2>1. RoundType' /\ pc'[d] = "pull" /\ \A e \in Device \ {d} : pc'[e] = pc[e]
      BY <1>1, <1>10 DEF RoundType, Goto, Places, Goals
    <2>2. pin'[d].at = "publish" => AnswerOK(chain, pin'[d].pulled)
      BY <1>1, <1>3 DEF DeviceOK
    <2> QED BY <1>3, <1>5, <1>6, <1>7, <1>8, <1>10, <2>1, <2>2, SaveStep
  <1> QED BY <1>3, <1>9, <1>10

(* push_section() of the space: an acknowledged format is on the relay. *)
LEMMA PushSpaceKeeps ==
    ASSUME IInv, NEW d \in Device, PushSpace(d)
    PROVE  IInv'
  <1> DEFINE next == [mem[d] EXCEPT !.group = "clean"]
  <1>1. /\ RelayType /\ SavesType /\ RoundType /\ PinType /\ SeenType /\ CountsType
        /\ DeviceOK(chain, d) /\ SeenOK(chain, d) /\ chain \in Chain /\ ChainOK(chain)
        /\ mem[d] \in Section /\ SectionOK(chain, mem[d]) /\ SectionOK(chain, disk[d])
        /\ space => Format(chain) >= ACCOUNT_SCHEMA
    BY IInvParts
  <1>2. next \in Section /\ next.rows = mem[d].rows /\ next.remote = mem[d].remote
    BY <1>1, FlagsKeepType
  <1>3. /\ pc[d] = "push" /\ Release(d)
        /\ UNCHANGED <<chain, saveBlocked, pin, futureSeen, edits, pins>>
        /\ Fault \/ UNCHANGED faults
        /\ space' = space \/ (GroupGateAcknowledged(mem[d]) /\ space' = TRUE)
    BY DEF PushSpace
  <1>4. /\ mem' \in {mem, [mem EXCEPT ![d] = next]}
        /\ disk' \in {disk, [disk EXCEPT ![d] = next]}
    BY <1>1 DEF PushSpace, Persist, SavesType
  <1> HIDE DEF next
  <1>5. SectionOK(chain, next)
    BY <1>1, <1>2, SameMeta
  <1>6. /\ SavesType' /\ mem'[d] \in {mem[d], next} /\ disk'[d] \in {disk[d], next}
        /\ \A e \in Device \ {d} : mem'[e] = mem[e] /\ disk'[e] = disk[e]
    BY <1>1, <1>2, <1>3, <1>4 DEF SavesType
  <1>7. SectionOK(chain, mem'[d]) /\ SectionOK(chain, disk'[d])
    BY <1>1, <1>5, <1>6
  <1>8. PinType' /\ SeenType' /\ RelayType'
    BY <1>1, <1>3, SameTypes DEF RelayType
  <1>9. CountsType'
    BY <1>1, <1>3, FaultFacts DEF CountsType
  <1>10. /\ RoundType'
         /\ pc'[d] = "idle" /\ sent'[d] = NothingSent /\ accepted'[d] = NoReceipts
         /\ \A e \in Device \ {d} : /\ pc'[e] = pc[e] /\ pulled'[e] = pulled[e]
                                    /\ sent'[e] = sent[e] /\ accepted'[e] = accepted[e]
    BY <1>1, <1>3, ReleaseFacts
  <1>11. TypeOK'
    BY <1>6, <1>8, <1>9, <1>10, TypePartsNext
  <1>12. Others(d)
    BY <1>3, <1>6, <1>10 DEF Others
  <1>13. SentOK(chain, sent'[d][Meta], accepted'[d][Meta]) /\ accepted'[d][Meta] = 0
    BY <1>10, BlankValues, BlankSent
  <1>14. futureSeen[d] = "never"
    BY <1>1, <1>3 DEF SeenOK
  <1>15. DeviceOK(chain, d)'
    BY <1>1, <1>3, <1>7, <1>10, <1>13, <1>14 DEF DeviceOK, SeenOK
  <1>16. GroupGateAcknowledged(mem[d]) => Format(chain) >= ACCOUNT_SCHEMA
    <2>1. Format(chain) \in Nat
      BY <1>1, FormatNumbers
    <2> QED BY <1>1, <2>1 DEF GroupGateAcknowledged, GroupEnabled, SectionOK, ACCOUNT_SCHEMA
  <1>17. space' => Format(chain') >= ACCOUNT_SCHEMA
    BY <1>1, <1>3, <1>16
  <1> QED BY <1>1, <1>3, <1>11, <1>12, <1>15, <1>17, GrowsReflexive, StepOf

(* A pull or a save that fails ends the round with nothing changed. *)
LEMMA AbortKeeps ==
    ASSUME IInv, NEW d \in Device, Abort(d)
    PROVE  IInv'
  <1>1. /\ SavesType /\ PinType /\ SeenType /\ CountsType /\ SeenOK(chain, d)
        /\ SectionOK(chain, mem[d]) /\ SectionOK(chain, disk[d])
    BY IInvParts
  <1>2. Fault /\ Release(d) /\ UNCHANGED <<relay, local, pin, futureSeen, edits, pins>>
    BY DEF Abort
  <1>3. SavesType' /\ PinType' /\ SeenType' /\ CountsType'
    BY <1>1, <1>2, SameTypes, FaultFacts
  <1> QED BY <1>1, <1>2, <1>3, RoundEnds DEF SeenOK, local

-----------------------------------------------------------------------------
(* confirm(), first phase: preflight(), and the pull outside of the lock. *)
LEMMA PinStartKeeps ==
    ASSUME IInv, NEW d \in Device, PinStart(d)
    PROVE  IInv'
  <1>1. /\ SavesType /\ RoundType /\ PinType /\ SeenType /\ CountsType
        /\ mem[d] \in Section /\ SectionOK(chain, mem[d]) /\ SeenOK(chain, d)
    BY IInvParts
  <1>2. /\ Persist(d, mem[d]) /\ pin' = [pin EXCEPT ![d].at = "pull"]
        /\ UNCHANGED <<relay, saveBlocked, round, futureSeen, edits, faults>>
    BY DEF PinStart
  <1>3. /\ mem' \in [Device -> Section] /\ disk' \in [Device -> Section]
        /\ mem'[d] = mem[d] /\ disk'[d] = mem[d]
        /\ \A e \in Device \ {d} : mem'[e] = mem[e] /\ disk'[e] = disk[e]
    BY <1>1, <1>2, PersistFacts
  <1>4. SavesType' /\ RoundType' /\ SeenType'
    BY <1>1, <1>2, <1>3, SameTypes DEF SavesType
  <1>5. PinType' /\ pin'[d].at = "pull" /\ \A e \in Device \ {d} : pin'[e] = pin[e]
    BY <1>1, <1>2 DEF PinType
  <1>6. CountsType'
    BY <1>1, GateAssumption DEF PinStart, CountsType
  <1>7. UNCHANGED <<relay, pc, pulled, sent, accepted, futureSeen>>
    BY <1>2 DEF round
  <1> QED BY <1>1, <1>3, <1>4, <1>5, <1>6, <1>7, SaveStep DEF SeenOK

(* A step of the confirmation that touches nothing but the confirmation. *)
LEMMA PinStep ==
    ASSUME IInv, NEW d \in Device, NEW next, pin' = [pin EXCEPT ![d] = next],
           next \in [at : {"off", "pull", "publish"}, pulled : Answer],
           next.at = "publish" => AnswerOK(chain, next.pulled),
           UNCHANGED <<relay, local, round, futureSeen, bounds>>
    PROVE  IInv'
  <1>1. /\ SavesType /\ RoundType /\ PinType /\ SeenType /\ CountsType
        /\ SectionOK(chain, mem[d]) /\ SectionOK(chain, disk[d]) /\ SeenOK(chain, d)
    BY IInvParts
  <1>2. SavesType' /\ RoundType' /\ SeenType' /\ CountsType'
    BY <1>1, SameTypes
  <1>3. PinType' /\ pin'[d] = next /\ \A e \in Device \ {d} : pin'[e] = pin[e]
    BY <1>1 DEF PinType
  <1>4. UNCHANGED <<relay, pc, pulled, sent, accepted, futureSeen, mem, disk>>
    BY DEF round, local
  <1> QED BY <1>1, <1>2, <1>3, <1>4, SaveStep DEF SeenOK

(* The account as it is when the proof is prepared. *)
LEMMA PinPullKeeps ==
    ASSUME IInv, NEW d \in Device, PinPull(d)
    PROVE  IInv'
  <1> DEFINE next == [at |-> "publish", pulled |-> FullPull]
  <1>1. chain \in Chain /\ ChainOK(chain)
    BY IInvParts
  <1>2. FullPull \in Answer /\ AnswerOK(chain, FullPull)
    BY <1>1, FullPullOK
  <1>3. pin' = [pin EXCEPT ![d] = next] /\ UNCHANGED <<relay, local, round, futureSeen, bounds>>
    BY DEF PinPull
  <1>4. /\ next \in [at : {"off", "pull", "publish"}, pulled : Answer]
        /\ next.pulled = FullPull
    BY <1>2
  <1> HIDE DEF next
  <1> QED BY <1>2, <1>3, <1>4, PinStep

(* A confirmation that is given up. *)
LEMMA PinDroppedKeeps ==
    ASSUME IInv, NEW d \in Device, PinDropped(d)
    PROVE  IInv'
  <1>1. pin' = [pin EXCEPT ![d] = NoPin] /\ UNCHANGED <<relay, local, round, futureSeen, bounds>>
    BY DEF PinDropped
  <1> QED BY <1>1, BlankValues, PinStep

(* confirm(), second phase: the prepared proof is published into the state *)
(* as it is now.                                                           *)
LEMMA PinPublishKeeps ==
    ASSUME IInv, NEW d \in Device, PinPublish(d)
    PROVE  IInv'
  <1> DEFINE answer == pin[d].pulled
             next == Publish(mem[d], answer)
             closed == [mem[d] EXCEPT !.blocked = TRUE]
  <1>1. /\ SavesType /\ RoundType /\ PinType /\ SeenType /\ CountsType
        /\ mem[d] \in Section /\ SectionOK(chain, mem[d]) /\ SectionOK(chain, disk[d])
        /\ SeenOK(chain, d)
        /\ answer \in Answer /\ AnswerOK(chain, answer)
    BY IInvParts DEF PinPublish
  <1>2. /\ pc[d] = "idle" /\ pin' = [pin EXCEPT ![d] = NoPin]
        /\ UNCHANGED <<relay, round, edits, pins>>
    BY DEF PinPublish
  <1>3. \/ Persist(d, next) /\ See(d, next) /\ UNCHANGED <<saveBlocked, faults>>
        \/ FailClosed(d, answer)
        \/ /\ mem' = [mem EXCEPT ![d].blocked = TRUE]
           /\ UNCHANGED <<disk, saveBlocked, futureSeen, faults>>
    BY DEF PinPublish
  <1>4. /\ SavesType' /\ SeenType' /\ CountsType'
        /\ SectionOK(chain, mem'[d]) /\ SectionOK(chain, disk'[d])
        /\ futureSeen'[d] = "now" => mem'[d].remote > ACCOUNT_SCHEMA
        /\ futureSeen'[d] # "never" => Format(chain) > ACCOUNT_SCHEMA
        /\ \A e \in Device \ {d} : /\ mem'[e] = mem[e] /\ disk'[e] = disk[e]
                                   /\ futureSeen'[e] = futureSeen[e]
    <2>1. CASE Persist(d, next) /\ See(d, next) /\ UNCHANGED <<saveBlocked, faults>>
      <3>1. /\ next \in Section /\ SectionOK(chain, next)
            /\ futureSeen'[d] = "now" => next.remote > ACCOUNT_SCHEMA
            /\ futureSeen'[d] # "never" => Format(chain) > ACCOUNT_SCHEMA
            /\ SeenType' /\ \A e \in Device \ {d} : futureSeen'[e] = futureSeen[e]
        BY <1>1, <2>1, PublishSees
      <3> HIDE DEF next
      <3>2. /\ mem' \in [Device -> Section] /\ disk' \in [Device -> Section]
            /\ mem'[d] = next /\ disk'[d] = next
            /\ \A e \in Device \ {d} : mem'[e] = mem[e] /\ disk'[e] = disk[e]
        BY <1>1, <2>1, <3>1, PersistFacts
      <3>3. SavesType' /\ CountsType'
        BY <1>1, <1>2, <2>1, <3>2 DEF SavesType, CountsType
      <3> QED BY <3>1, <3>2, <3>3
    <2>2. CASE FailClosed(d, answer)
      <3> HIDE DEF answer
      <3>1. /\ SavesType' /\ SeenType' /\ CountsType'
            /\ SectionOK(chain, mem'[d]) /\ disk' = disk
            /\ futureSeen'[d] = "now" => mem'[d].remote > ACCOUNT_SCHEMA
            /\ futureSeen'[d] # "never" => Format(chain) > ACCOUNT_SCHEMA
            /\ \A e \in Device \ {d} : mem'[e] = mem[e] /\ futureSeen'[e] = futureSeen[e]
        BY <1>1, <1>2, <2>2, FailClosedFacts
      <3> QED BY <1>1, <3>1
    <2>3. CASE /\ mem' = [mem EXCEPT ![d].blocked = TRUE]
               /\ UNCHANGED <<disk, saveBlocked, futureSeen, faults>>
      <3>1. /\ closed \in Section
            /\ closed.rows = mem[d].rows /\ closed.remote = mem[d].remote
        BY <1>1, FlagsKeepType
      <3>2. mem' = [mem EXCEPT ![d] = closed]
        BY <2>3
      <3> HIDE DEF closed
      <3>3. /\ SavesType' /\ mem'[d] = closed /\ disk' = disk
            /\ \A e \in Device \ {d} : mem'[e] = mem[e]
        BY <1>1, <2>3, <3>1, <3>2 DEF SavesType
      <3>4. SeenType' /\ CountsType' /\ futureSeen' = futureSeen
        BY <1>1, <1>2, <2>3 DEF SeenType, CountsType
      <3>5. SectionOK(chain, closed)
        BY <1>1, <3>1, SameMeta
      <3> QED BY <1>1, <3>1, <3>3, <3>4, <3>5 DEF SeenOK
    <2> QED BY <1>3, <2>1, <2>2, <2>3
  <1>5. PinType' /\ pin'[d].at # "publish" /\ \A e \in Device \ {d} : pin'[e] = pin[e]
    BY <1>1, <1>2, BlankValues DEF PinType
  <1>6. UNCHANGED <<relay, pc, pulled, sent, accepted>>
    BY <1>2 DEF round
  <1>7. RoundType'
    BY <1>1, <1>2, SameTypes
  <1> QED BY <1>2, <1>4, <1>5, <1>6, <1>7, SaveStep

(* A restart from the state file. *)
LEMMA CrashKeeps ==
    ASSUME IInv, NEW d \in Device, Crash(d)
    PROVE  IInv'
  <1>1. /\ SavesType /\ PinType /\ SeenType /\ CountsType /\ SeenOK(chain, d)
        /\ disk[d] \in Section /\ SectionOK(chain, disk[d])
    BY IInvParts
  <1>2. /\ Fault /\ Release(d) /\ mem' = [mem EXCEPT ![d] = disk[d]]
        /\ saveBlocked' = [saveBlocked EXCEPT ![d] = FALSE]
        /\ pin' = [pin EXCEPT ![d] = NoPin]
        /\ futureSeen' = [futureSeen EXCEPT ![d] =
               IF futureSeen[d] = "now" /\ disk[d].remote <= ACCOUNT_SCHEMA THEN "before"
               ELSE futureSeen[d]]
        /\ UNCHANGED <<relay, disk, edits, pins>>
    BY DEF Crash
  <1>3. /\ SavesType' /\ mem'[d] = disk[d] /\ disk' = disk
        /\ \A e \in Device \ {d} : mem'[e] = mem[e]
    BY <1>1, <1>2 DEF SavesType
  <1>4. PinType' /\ pin'[d] = NoPin /\ \A e \in Device \ {d} : pin'[e] = pin[e]
    BY <1>1, <1>2, BlankValues DEF PinType
  <1>5. /\ SeenType' /\ \A e \in Device \ {d} : futureSeen'[e] = futureSeen[e]
        /\ futureSeen'[d] = "now" => ~(disk[d].remote <= ACCOUNT_SCHEMA)
        /\ futureSeen'[d] # "never" => futureSeen[d] # "never"
    BY <1>1, <1>2 DEF SeenType
  <1>6. futureSeen'[d] = "now" => mem'[d].remote > ACCOUNT_SCHEMA
    <2>1. disk[d].remote \in Nat
      BY <1>1 DEF Section
    <2> QED BY <1>3, <1>5, <2>1 DEF ACCOUNT_SCHEMA
  <1>7. futureSeen'[d] # "never" => Format(chain) > ACCOUNT_SCHEMA
    BY <1>1, <1>5 DEF SeenOK
  <1>8. CountsType'
    BY <1>1, <1>2, FaultFacts
  <1> QED BY <1>1, <1>2, <1>3, <1>4, <1>5, <1>6, <1>7, <1>8, RoundEnds

(* A newer version of the application raises the format. *)
LEMMA NewerAppKeeps ==
    ASSUME IInv, NEW now \in 1..MaxNow, NewerApp(now)
    PROVE  IInv' /\ Grows(chain, chain')
  <1> DEFINE stored == chain.rows[Meta]
             new == AccountRev(stored.body, now, Newer, FutureSchema)
             items == [k \in {Meta} |-> [base |-> stored.seq, body |-> new]]
  <1>1. /\ RelayType /\ SavesType /\ RoundType /\ PinType /\ SeenType /\ CountsType
        /\ chain \in Chain /\ ChainOK(chain)
    BY IInvParts
  <1>2. /\ Format(chain) \in Nat /\ stored.seq \in Nat /\ stored.body \in AccountRevs
        /\ stored.body.ts \in Nat /\ stored.body.ts >= 1
    BY <1>1, FormatNumbers, RevNumbers, MetaRevFacts DEF ChainOK
  <1>3. /\ RelayPush(items) /\ Format(chain) < FutureSchema /\ space' = space
        /\ edits < MaxEdits /\ edits' = edits + 1
        /\ UNCHANGED <<local, round, pin, futureSeen, faults, pins>>
    BY DEF NewerApp, RelayPush, Format
  <1>4. new \in AccountRevs /\ new.ts > 1 /\ new.schema = FutureSchema /\ new # NoRev
    <2>1. now \in Nat /\ edits \in Nat
      BY <1>1, GateAssumption DEF CountsType
    <2>2. Stamp(stored.body, now) \in Nat \ {0} /\ Stamp(stored.body, now) > 1
      BY <1>2, <2>1 DEF Stamp
    <2>3. new.ts = Stamp(stored.body, now) /\ new.schema = FutureSchema
      BY DEF AccountRev
    <2>4. new \in AccountRevs
      BY <2>1, <2>2, GateAssumption DEF AccountRev, AccountRevs, FutureSchema
    <2>5. new # NoRev
      BY <2>2, <2>3 DEF NoRev
    <2> QED BY <2>2, <2>3, <2>4, <2>5
  <1> HIDE DEF new, stored
  <1>5. MetaRev(new) /\ SchemaOf(new) = FutureSchema
    BY <1>4 DEF MetaRev, SchemaOf
  <1>6. /\ DOMAIN items = {Meta} /\ items[Meta] \in Item
        /\ items[Meta].body = new
    BY <1>2, <1>4 DEF Item
  <1> HIDE DEF items
  <1>7. Sound(chain, items[Meta].base, items[Meta].body)
    BY <1>2, <1>3, <1>5, <1>6 DEF Sound, FutureSchema
  <1>8. chain' \in Chain /\ ChainOK(chain') /\ Grows(chain, chain')
    <2>1. DOMAIN items \subseteq Key /\ \A k \in DOMAIN items : items[k] \in Item
      BY <1>6, GateAssumption
    <2> QED BY <1>1, <1>3, <1>5, <1>6, <1>7, <2>1, PushOK
  <1>9. TypeOK'
    <2>1. RelayType' /\ SavesType' /\ RoundType' /\ PinType' /\ SeenType'
      BY <1>1, <1>3, <1>8, SameTypes DEF RelayType
    <2>2. CountsType'
      BY <1>1, <1>3, GateAssumption DEF CountsType
    <2> QED BY <2>1, <2>2, TypePartsNext
  <1>10. PICK d \in Device : TRUE
    BY DeviceAssumption
  <1>11. Others(d)
    BY <1>3 DEF Others, local, round
  <1>12. DeviceOK(chain, d)'
    <2>1. DeviceOK(chain', d)
      BY <1>8, DeviceGrows, IInvParts DEF IInv
    <2> QED BY <1>3, <2>1 DEF DeviceOK, SeenOK, local, round
  <1>13. space' => Format(chain') >= ACCOUNT_SCHEMA
    BY <1>3, <1>8, SpaceGrows
  <1> QED BY <1>8, <1>9, <1>11, <1>12, <1>13, StepOf

-----------------------------------------------------------------------------
(* run() and edit_records() take the lock. *)
LEMMA StartKeeps ==
    ASSUME IInv, NEW d \in Device, StartRound(d) \/ StartPromotion(d)
    PROVE  IInv'
  <1>1. CountsType
    BY IInvParts
  <1>2. /\ pc[d] = "idle" /\ Persist(d, mem[d])
        /\ Goto(d, "pull", "round") \/ Goto(d, "pull", "promote")
        /\ UNCHANGED <<relay, saveBlocked, pulled, sent, accepted, pin, futureSeen>>
    BY DEF StartRound, StartPromotion
  <1>3. CountsType'
    BY <1>1, GateAssumption DEF StartRound, StartPromotion, CountsType, bounds
  <1>4. "pull" \in Places /\ "round" \in Goals /\ "promote" \in Goals
    BY DEF Places, Goals
  <1> QED BY <1>2, <1>3, <1>4, LockStep

(* A joined device and its account, as far as the metadata goes. *)
LEMMA IInvInit == Init => IInv
  <1> SUFFICES ASSUME Init PROVE IInv
    OBVIOUS
  <1>1. /\ FirstMeta \in AccountRevs /\ SchemaOf(FirstMeta) = MIN_ACCOUNT_SCHEMA
        /\ OwnRev(FirstMeta) /\ MetaRev(FirstMeta)
    BY FirstMetaFacts DEF OwnRev
  <1>2. /\ chain \in Chain /\ chain.latest = 1 /\ chain.rows[Meta].seq = 1
        /\ chain.rows[Meta].body = FirstMeta /\ space = FALSE
    <2>1. NoTable \in [Key -> Stored]
      BY BlankValues DEF Table, Stored
    <2>2. [seq |-> 1, body |-> FirstMeta] \in Stored
      BY <1>1 DEF Stored
    <2> HIDE DEF FirstMeta
    <2>3. FirstTable \in [Key -> Stored] /\ FirstTable[Meta] = [seq |-> 1, body |-> FirstMeta]
      BY <2>1, <2>2, GateAssumption DEF FirstTable
    <2>4. chain = [latest |-> 1, rows |-> FirstTable] /\ space = FALSE
      BY DEF Init
    <2> QED BY <2>3, <2>4 DEF Chain, Table, Stored
  <1>3. /\ Joined \in Section /\ Joined.rows[Meta].rev = FirstMeta
        /\ Joined.rows[Meta].seq = 1 /\ Joined.remote = MIN_ACCOUNT_SCHEMA
    <2> DEFINE rows == [k \in Key |-> IF k = Meta
                                      THEN [rev |-> FirstMeta, seq |-> 1, dirty |-> FALSE]
                                      ELSE NoRow]
    <2>1. NoRow \in Row
      BY DEF NoRow, Row, AccountRevs
    <2>2. [rev |-> FirstMeta, seq |-> 1, dirty |-> FALSE] \in Row
      BY <1>1 DEF Row
    <2>3. rows \in [Key -> Row] /\ rows[Meta] = [rev |-> FirstMeta, seq |-> 1, dirty |-> FALSE]
      BY <2>1, <2>2, GateAssumption
    <2>4. Joined = [rows |-> rows, cursor |-> 1, baseline |-> TRUE,
                    remote |-> MIN_ACCOUNT_SCHEMA, blocked |-> FALSE, group |-> "none"]
      BY DEF Joined
    <2> HIDE DEF rows
    <2> QED BY <2>3, <2>4 DEF Section, Row, MIN_ACCOUNT_SCHEMA
  <1>4. TypeOK
    <2>1. RelayType
      BY <1>2 DEF RelayType
    <2>2. SavesType
      BY <1>3 DEF Init, SavesType
    <2>3. RoundType
      BY BlankValues DEF Init, RoundType, Places, Goals
    <2>4. PinType /\ SeenType
      BY BlankValues DEF Init, PinType, SeenType
    <2>5. CountsType
      BY GateAssumption DEF Init, CountsType
    <2> QED BY <2>1, <2>2, <2>3, <2>4, <2>5, TypeParts
  <1>5. Format(chain) = MIN_ACCOUNT_SCHEMA
    BY <1>1, <1>2 DEF Format
  <1>6. ChainOK(chain)
    BY <1>1, <1>2 DEF ChainOK
  <1>7. SectionOK(chain, Joined)
    BY <1>1, <1>2, <1>3, <1>5 DEF SectionOK, Sound, MIN_ACCOUNT_SCHEMA, ACCOUNT_SCHEMA
  <1>8. ASSUME NEW d \in Device PROVE DeviceOK(chain, d)
    <2>1. /\ mem[d] = Joined /\ disk[d] = Joined /\ pc[d] = "idle" /\ pin[d] = NoPin
          /\ sent[d] = NothingSent /\ accepted[d] = NoReceipts /\ futureSeen[d] = "never"
      BY DEF Init
    <2> QED BY <1>7, <2>1, BlankValues, BlankSent DEF DeviceOK, SeenOK
  <1> QED BY <1>2, <1>4, <1>6, <1>8 DEF IInv, Coherent

(* Every step keeps the inductive invariant, and the format only grows. *)
LEMMA IInvStep ==
    ASSUME IInv, [Next]_vars
    PROVE  IInv' /\ Grows(chain, chain')
  <1>1. chain \in Chain
    BY IInvParts
  <1>2. UNCHANGED relay => Grows(chain, chain')
    BY <1>1, GrowsReflexive DEF relay
  <1>3. ASSUME NEW d \in Device, PushAccount(d) \/ PushAccountFails(d)
        PROVE  IInv' /\ Grows(chain, chain')
    BY <1>3, PushAccountKeeps, PushAccountFailsKeeps
  <1>4. ASSUME NEW d \in Device, RoundStep(d), ~PushAccount(d)
        PROVE  IInv' /\ Grows(chain, chain')
    <2>1. CASE StartRound(d)
      BY <1>2, <2>1, StartKeeps DEF StartRound
    <2>2. CASE GatePull(d)
      BY <1>2, <2>2, GatePullKeeps DEF GatePull
    <2>3. CASE GatePublish(d)
      BY <1>2, <2>3, GatePublishKeeps DEF GatePublish
    <2>4. CASE AccountReceipt(d)
      BY <1>2, <2>4, AccountReceiptKeeps DEF AccountReceipt
    <2>5. CASE SpacePull(d)
      BY <1>2, <2>5, SpacePullKeeps DEF SpacePull
    <2>6. CASE PushSpace(d)
      <3>1. chain' = chain
        BY <2>6 DEF PushSpace
      <3> QED BY <1>1, <2>6, <3>1, PushSpaceKeeps, GrowsReflexive
    <2>7. CASE \E now \in 1..MaxNow : PromotedEdit(d, now)
      BY <1>2, <2>7, PromotedEditKeeps DEF PromotedEdit
    <2> QED BY <1>4, <2>1, <2>2, <2>3, <2>4, <2>5, <2>6, <2>7 DEF RoundStep
  <1>5. ASSUME NEW d \in Device,
               \/ StartPromotion(d) \/ GroupEdit(d)
               \/ \E k \in Key, now \in 1..MaxNow : AccountEdit(d, k, now)
               \/ GatePublishFails(d) \/ Abort(d) \/ Crash(d)
        PROVE  IInv' /\ Grows(chain, chain')
    <2>1. CASE StartPromotion(d)
      BY <1>2, <2>1, StartKeeps DEF StartPromotion
    <2>2. CASE GroupEdit(d)
      BY <1>2, <2>2, GroupEditKeeps DEF GroupEdit
    <2>3. CASE \E k \in Key, now \in 1..MaxNow : AccountEdit(d, k, now)
      BY <1>2, <2>3, AccountEditKeeps DEF AccountEdit
    <2>4. CASE GatePublishFails(d)
      BY <1>2, <2>4, GatePublishFailsKeeps DEF GatePublishFails
    <2>5. CASE Abort(d)
      BY <1>2, <2>5, AbortKeeps DEF Abort
    <2>6. CASE Crash(d)
      BY <1>2, <2>6, CrashKeeps DEF Crash
    <2> QED BY <1>5, <2>1, <2>2, <2>3, <2>4, <2>5, <2>6
  <1>6. ASSUME NEW d \in Device, PinStart(d) \/ PinPull(d) \/ PinDropped(d) \/ PinPublish(d)
        PROVE  IInv' /\ Grows(chain, chain')
    <2>1. UNCHANGED relay
      BY <1>6 DEF PinStart, PinPull, PinDropped, PinPublish
    <2> QED BY <1>2, <1>6, <2>1, PinStartKeeps, PinPullKeeps, PinDroppedKeeps, PinPublishKeeps
  <1>7. ASSUME NEW now \in 1..MaxNow, NewerApp(now)
        PROVE  IInv' /\ Grows(chain, chain')
    BY <1>7, NewerAppKeeps
  <1>8. CASE UNCHANGED vars
    <2>1. IInv'
      BY <1>8 DEF vars, IInv, TypeOK, Coherent, DeviceOK, SeenOK
    <2> QED BY <1>2, <1>8, <2>1 DEF vars, relay
  <1> QED BY <1>3, <1>4, <1>5, <1>6, <1>7, <1>8 DEF Next

(* Only a device that is past its gate, or a newer version, writes.  *)
LEMMA WriterIsPastGate ==
    ASSUME IInv, [Next]_vars, ~UNCHANGED relay, NEW d \in Device, pc'[d] # pc[d]
    PROVE  futureSeen[d] = "never"
  <1>1. RoundType /\ SeenOK(chain, d)
    BY IInvParts
  <1>2. Next
    BY DEF vars, relay
  <1>3. CASE \E now \in 1..MaxNow : NewerApp(now)
    BY <1>3 DEF NewerApp, round
  <1>4. CASE \E e \in Device : PushAccount(e) \/ PushAccountFails(e) \/ PushSpace(e)
    <2>1. PICK e \in Device : PushAccount(e) \/ PushAccountFails(e) \/ PushSpace(e)
      BY <1>4
    <2>2. pc[e] = "push" /\ \E where : pc' = [pc EXCEPT ![e] = where]
      BY <2>1 DEF PushAccount, PushAccountFails, PushSpace, Release, Goto
    <2>3. d = e
      BY <1>1, <2>2 DEF RoundType
    <2> QED BY <1>1, <2>2, <2>3 DEF SeenOK
  <1>5. ASSUME NEW e \in Device,
               \/ RoundStep(e) /\ ~PushAccount(e) /\ ~PushSpace(e)
               \/ StartPromotion(e) \/ GroupEdit(e)
               \/ \E k \in Key, now \in 1..MaxNow : AccountEdit(e, k, now)
               \/ GatePublishFails(e) \/ Abort(e) \/ Crash(e)
               \/ PinStart(e) \/ PinPull(e) \/ PinDropped(e) \/ PinPublish(e)
        PROVE  FALSE
    <2>1. CASE RoundStep(e) /\ ~PushAccount(e) /\ ~PushSpace(e)
      BY <2>1 DEF RoundStep, StartRound, GatePull, GatePublish, AccountReceipt, SpacePull,
                  PromotedEdit
    <2>2. CASE \/ StartPromotion(e) \/ GroupEdit(e)
               \/ \E k \in Key, now \in 1..MaxNow : AccountEdit(e, k, now)
      BY <2>2 DEF StartPromotion, GroupEdit, AccountEdit
    <2>3. CASE GatePublishFails(e) \/ Abort(e) \/ Crash(e)
      BY <2>3 DEF GatePublishFails, Abort, Crash
    <2>4. CASE PinStart(e) \/ PinPull(e) \/ PinDropped(e) \/ PinPublish(e)
      BY <2>4 DEF PinStart, PinPull, PinDropped, PinPublish
    <2> QED BY <1>5, <2>1, <2>2, <2>3, <2>4
  <1> QED BY <1>2, <1>3, <1>4, <1>5 DEF Next

-----------------------------------------------------------------------------
(* The inductive invariant of the account gate: types, and what every copy *)
(* of the metadata row says about the one on the relay, through merges,    *)
(* pushes with and without an answer, crashes and prepared proofs.         *)
THEOREM Invariance == Spec => []IInv
  <1>1. Init => IInv
    BY IInvInit
  <1>2. IInv /\ [Next]_vars => IInv'
    BY IInvStep
  <1> QED BY <1>1, <1>2, PTL DEF Spec

(* The state of the account gate, the rounds and the confirmations stays   *)
(* within its types.                                                       *)
THEOREM TypeCorrect == Spec => []TypeOK
  BY Invariance, PTL DEF IInv

(* No device of this version replaces the format of the account by an      *)
(* older one: account_gate(), the merge and the base sequence numbers of   *)
(* push() together.                                                        *)
THEOREM FormatNeverLowered == Spec => SchemaNeverDowngraded
  <1>1. IInv /\ IInv' /\ [Next]_vars =>
            SchemaOf(chain'.rows[Meta].body) >= SchemaOf(chain.rows[Meta].body)
    <2> SUFFICES ASSUME IInv, IInv', [Next]_vars
                 PROVE  SchemaOf(chain'.rows[Meta].body) >= SchemaOf(chain.rows[Meta].body)
      OBVIOUS
    <2>1. chain \in Chain /\ chain' \in Chain
      BY IInvParts DEF IInv, TypeOK, Chain
    <2>2. Format(chain) \in Nat /\ Format(chain') \in Nat /\ Format(chain) <= Format(chain')
      BY <2>1, IInvStep, FormatNumbers DEF Grows
    <2> QED BY <2>2 DEF Format
  <1> QED BY <1>1, Invariance, PTL DEF Spec, SchemaNeverDowngraded

(* push_section(): no grouped record is on a space chain before the        *)
(* account's format locks out the devices that do not know groups.         *)
THEOREM GroupsWait == Spec => []GroupsAfterSchema
  <1>1. IInv => GroupsAfterSchema
    BY IInvParts DEF GroupsAfterSchema, Format
  <1> QED BY <1>1, Invariance, PTL

(* publish_gate(): a newer format that was authenticated closes the        *)
(* account for edits, whatever proof was prepared before.                  *)
THEOREM FutureCloses == Spec => []FutureClosesAccount
  <1>1. IInv => FutureClosesAccount
    <2> SUFFICES ASSUME IInv, NEW d \in Device, futureSeen[d] = "now"
                 PROVE  WritesBlocked(mem[d])
      BY DEF FutureClosesAccount
    <2>1. mem[d].remote > ACCOUNT_SCHEMA
      BY IInvParts DEF SeenOK
    <2> QED BY <2>1 DEF WritesBlocked
  <1> QED BY <1>1, Invariance, PTL

(* A device that has once authenticated a newer format does not write to   *)
(* any chain again, not even after a crash that lost the record of it.     *)
THEOREM FutureStops == Spec => FutureStopsWrites
  <1>1. IInv /\ [Next]_vars =>
            (\A d \in Device : futureSeen[d] # "never" /\ pc'[d] # pc[d] => UNCHANGED relay)
    BY WriterIsPastGate
  <1> QED BY <1>1, Invariance, PTL DEF Spec, FutureStopsWrites
=============================================================================
