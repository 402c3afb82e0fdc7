--------------------------- MODULE SessionsProofs ---------------------------
(***************************************************************************)
(* Proofs about the connections and the sessions of terminals.             *)
(*                                                                         *)
(* Connecting, for any number of connections, hosts, keys and prompts and  *)
(* any chain of hosts, whatever the servers present and the other          *)
(* connections pin meanwhile.  A connection acts on what it knew at the    *)
(* handshake: PlaceOK says what each place of its thread relies on.  The   *)
(* limit on the rounds is a counting argument: every way back to the start *)
(* of the loop uses up one of the things that Spent lists, and there are   *)
(* Rounds - 1 of them.                                                     *)
(*                                                                         *)
(* SessionBroker, for any number of sessions and jobs, whichever clients   *)
(* leave or stop reading.  Three threads may come to tell one client how   *)
(* its session ended: EntryOK and TellerOK say whose turn it is, and that  *)
(* a session leaves the table only when its client has been told.          *)
(***************************************************************************)
EXTENDS Sessions, FiniteSetTheorems, TLAPS

(* What was shown at the window and trusted there. *)
Question(c) == [conn |-> c, host |-> H(c), key |-> shown[c].key, was |-> shown[c].was]

(* What each place of a connection's thread relies on. *)
PlaceOK(c) ==
    /\ pc[c] = "new" => gaveUp[c] = {} /\ rounds[c] = 0
    /\ pc[c] \in {"confirm", "window", "pin", "askPassword"} => H(c) \notin gaveUp[c]
    /\ pc[c] \in {"confirm", "window", "pin"} => /\ shown[c].key \in Key
                                                 /\ shown[c].was = policy[c][H(c)]
    /\ pc[c] = "login" => shown[c].key \in ever[H(c)]
    /\ pc[c] = "window" /\ reply[c] = "trust" => Question(c) \in trusts
    /\ pc[c] = "pin" => Question(c) \in trusts
    /\ pc[c] = "askPassword" => count[c][H(c)] # NoEntry
    /\ pc[c] # "tooMany"

(* How often a password was asked for: once before the connection, if at   *)
(* all, and from then on as often as it is counted.                        *)
AskingNow(c, h) == pc[c] = "askPassword" /\ h = H(c)

PasswordOK(c, h) ==
    /\ h \in gaveUp[c] => h \notin typed[c]
    /\ windows[c][h] = IF h \in asked[c] THEN 1 ELSE 0
    /\ policy[c][h] # None => policy[c][h] \in ever[h]
    /\ IF count[c][h] = NoEntry
       THEN \/ questions[c][h] = 0
            \/ /\ questions[c][h] = 1 /\ first[c][h] = "password"
               /\ h \in typed[c] \cup gaveUp[c]
       ELSE /\ questions[c][h] <= count[c][h]
            /\ AskingNow(c, h) => questions[c][h] < count[c][h]
            /\ AskingNow(c, h) \/ h \in typed[c] \/ pc[c] \in Ended

(* What has been used up at the host at a position of the chain. *)
Items == 3 + Prompts
Used(c, h, k) ==
    \/ k = 1 /\ h \in asked[c]
    \/ k = 2 /\ policy[c][h] # None
    \/ k = 3 /\ h \in freed[c]
    \/ k > 3 /\ count[c][h] # NoEntry /\ k <= 3 + count[c][h]

Spent(c) == {p \in (1..Len(Chain)) \X (1..Items) : Used(c, Chain[p[1]], p[2])}

(* Places that have paid for the next round already. *)
Paid == {"new", "round", "window", "pin", "askPassword"}

RoundsOK(c) ==
    rounds[c] <= Cardinality(Spent(c)) + (IF pc[c] \in Paid THEN 0 ELSE 1)

ConnOK(c) == PlaceOK(c) /\ RoundsOK(c) /\ \A h \in Host : PasswordOK(c, h)

PinsOK == \A h \in Host : pins[h] # None => pins[h] \in ever[h]

IInv == TypeOK /\ PinsOK /\ LoginsOnlyToPinned /\ \A c \in Conn : ConnOK(c)

-----------------------------------------------------------------------------
(* The type, variable by variable. *)
LEMMA TypeParts ==
    ASSUME TypeOK
    PROVE  /\ policy \in [Conn -> [Host -> PinOrNone]] /\ restricted \in [Conn -> [Host -> PinOrNone]]
           /\ asked \in [Conn -> SUBSET Host] /\ freed \in [Conn -> SUBSET Host]
           /\ typed \in [Conn -> SUBSET Host] /\ gaveUp \in [Conn -> SUBSET Host]
           /\ windows \in [Conn -> [Host -> Nat]] /\ questions \in [Conn -> [Host -> Nat]]
           /\ None \in PinOrNone /\ NoEntry \in Nat /\ Rounds \in Nat /\ Items \in Nat
  <1>1. NoEntry \in Nat /\ Items \in Nat
    BY ConnectAssumption DEF NoEntry, Items
  <1>2. Len(Chain) \in Nat /\ 1 + 1 + 1 + Prompts \in Nat
    BY ConnectAssumption
  <1>3. Rounds \in Nat
    BY <1>2 DEF Rounds
  <1> QED BY <1>1, <1>3 DEF TypeOK, PinOrNone

(* The host a connection is at is one of the chain's. *)
LEMMA HopType ==
    ASSUME TypeOK, NEW c \in Conn
    PROVE  at[c] \in 1..Len(Chain) /\ H(c) = Chain[at[c]] /\ H(c) \in Host
  BY ConnectAssumption DEF TypeOK, H

(* Setting one host's entry of one connection. *)
LEMMA SetFacts ==
    ASSUME NEW S, NEW f \in [Conn -> [Host -> S]], NEW c \in Conn, NEW h \in Host, NEW x \in S,
           NEW g, g = [f EXCEPT ![c][h] = x]
    PROVE  /\ g \in [Conn -> [Host -> S]] /\ g[c][h] = x
           /\ \A k \in Host \ {h} : g[c][k] = f[c][k]
           /\ \A d \in Conn \ {c} : g[d] = f[d]
  OBVIOUS

(* What can be used up is bounded: the limit counts every item of every    *)
(* hop of the chain.                                                       *)
LEMMA PairsBounded ==
    ASSUME NEW S \in SUBSET ((1..Len(Chain)) \X (1..Items))
    PROVE  IsFiniteSet(S) /\ Cardinality(S) \in Nat /\ Cardinality(S) < Rounds /\ Rounds \in Nat
  <1> DEFINE n == Len(Chain)
             P == (1..n) \X (1..Items)
  <1>1. n \in Nat /\ Items \in Nat /\ Items = 1 + 1 + 1 + Prompts
    BY ConnectAssumption DEF Items
  <1>2. 1 \in Int /\ n \in Int /\ Items \in Int
    BY <1>1
  <1> HIDE DEF n
  <1>3. IsFiniteSet(1..n) /\ Cardinality(1..n) = n
    <2>1. IsFiniteSet(1..n) /\ Cardinality(1..n) = IF 1 > n THEN 0 ELSE n - 1 + 1
      BY <1>2, FS_Interval
    <2> QED BY <1>1, <2>1
  <1>4. IsFiniteSet(1..Items) /\ Cardinality(1..Items) = Items
    <2>1. IsFiniteSet(1..Items) /\ Cardinality(1..Items) = IF 1 > Items THEN 0 ELSE Items - 1 + 1
      BY <1>2, FS_Interval
    <2> QED BY <1>1, <2>1
  <1>5. IsFiniteSet(P) /\ Cardinality(P) = n * Items
    <2>1. IsFiniteSet(P) /\ Cardinality(P) = Cardinality(1..n) * Cardinality(1..Items)
      BY <1>3, <1>4, FS_Product
    <2> QED BY <1>3, <1>4, <2>1
  <1>6. S \in SUBSET P
    BY DEF n
  <1> HIDE DEF P
  <1>7. IsFiniteSet(S) /\ Cardinality(S) <= n * Items
    BY <1>5, <1>6, FS_Subset
  <1>8. Cardinality(S) \in Nat
    BY <1>7, FS_CardinalityType
  <1>9. n * Items \in Nat /\ Rounds = n * Items + 1
    BY <1>1 DEF Rounds, n
  <1> QED BY <1>7, <1>8, <1>9

LEMMA SpentBounded ==
    ASSUME NEW c
    PROVE  /\ Cardinality(Spent(c)) \in Nat /\ Cardinality(Spent(c)') \in Nat
           /\ Cardinality(Spent(c)) < Rounds /\ Cardinality(Spent(c)') < Rounds
           /\ IsFiniteSet(Spent(c)) /\ IsFiniteSet(Spent(c)') /\ Rounds \in Nat
  <1>1. /\ Spent(c) \in SUBSET ((1..Len(Chain)) \X (1..Items))
        /\ Spent(c)' \in SUBSET ((1..Len(Chain)) \X (1..Items))
    BY DEF Spent
  <1> QED BY <1>1, PairsBounded

(* It only grows, and by one at least when something new is used up. *)
LEMMA SpentGrows ==
    ASSUME NEW c, Spent(c) \subseteq Spent(c)'
    PROVE  /\ Cardinality(Spent(c)) <= Cardinality(Spent(c)')
           /\ Spent(c) # Spent(c)' => Cardinality(Spent(c)) + 1 <= Cardinality(Spent(c)')
  <1>1. Spent(c) \in SUBSET Spent(c)'
    OBVIOUS
  <1>2. /\ Cardinality(Spent(c)) <= Cardinality(Spent(c)')
        /\ Cardinality(Spent(c)') = Cardinality(Spent(c)) => Spent(c)' = Spent(c)
    BY <1>1, SpentBounded, FS_Subset
  <1> QED BY <1>2, SpentBounded

(* What another connection, or the person, does: the entries of this one   *)
(* stay, what was pinned or trusted stays so.                              *)
Same(d) ==
    /\ pc'[d] = pc[d] /\ at'[d] = at[d] /\ rounds'[d] = rounds[d] /\ policy'[d] = policy[d]
    /\ asked'[d] = asked[d] /\ freed'[d] = freed[d] /\ count'[d] = count[d]
    /\ first'[d] = first[d] /\ typed'[d] = typed[d] /\ gaveUp'[d] = gaveUp[d]
    /\ shown'[d] = shown[d] /\ windows'[d] = windows[d] /\ questions'[d] = questions[d]
    /\ reply'[d] = "trust" => reply[d] = "trust"

Lasting == trusts \subseteq trusts' /\ \A h \in Host : ever[h] \subseteq ever'[h]

LEMMA SameKeeps ==
    ASSUME TypeOK, NEW d \in Conn, ConnOK(d), Same(d), Lasting
    PROVE  ConnOK(d)'
  <1>1. H(d)' = H(d) /\ H(d) \in Host
    BY HopType DEF Same, H
  <1>2. PlaceOK(d)'
    BY <1>1 DEF ConnOK, PlaceOK, Same, Lasting, Question
  <1>3. \A h \in Host : PasswordOK(d, h)'
    BY <1>1 DEF ConnOK, PasswordOK, Same, Lasting, AskingNow
  <1>4. RoundsOK(d)'
    <2>1. Spent(d)' = Spent(d)
      BY DEF Spent, Used, Same
    <2> QED BY <2>1 DEF ConnOK, RoundsOK, Same
  <1> QED BY <1>2, <1>3, <1>4 DEF ConnOK

(* A step of one connection. *)
LEMMA OneMoves ==
    ASSUME IInv, NEW c \in Conn, TypeOK', Lasting, \A d \in Conn \ {c} : Same(d),
           PinsOK', LoginsOnlyToPinned', PlaceOK(c)', RoundsOK(c)', \A h \in Host : PasswordOK(c, h)'
    PROVE  IInv'
  <1>1. \A d \in Conn \ {c} : ConnOK(d)'
    BY SameKeeps DEF IInv
  <1> QED BY <1>1 DEF IInv, ConnOK
(* Whatever changes at a connection, what it used up stays used up. *)
LEMMA SpentKept ==
    ASSUME TypeOK, TypeOK', NEW c \in Conn,
           asked[c] \subseteq asked'[c], freed[c] \subseteq freed'[c],
           \A h \in Host : policy[c][h] # None => policy'[c][h] # None,
           \A h \in Host : count[c][h] # NoEntry =>
                              count'[c][h] # NoEntry /\ count'[c][h] >= count[c][h]
    PROVE  Spent(c) \subseteq Spent(c)'
  <1>1. \A i \in 1..Len(Chain) : Chain[i] \in Host
    BY ConnectAssumption
  <1>2. ASSUME NEW h \in Host, NEW k \in 1..Items, Used(c, h, k)
        PROVE  Used(c, h, k)'
    <2>1. count[c][h] \in 1..NoEntry /\ count'[c][h] \in 1..NoEntry
      BY DEF TypeOK
    <2>2. NoEntry \in Nat /\ Items \in Nat
      BY TypeParts
    <2>3. count[c][h] \in Nat /\ count'[c][h] \in Nat /\ k \in Nat
      BY <2>1, <2>2
    <2> QED BY <1>2, <2>3 DEF Used
  <1> QED BY <1>1, <1>2 DEF Spent

(* A place that has not paid needs nothing new; one that has keeps it. *)
LEMMA RoundsKept ==
    ASSUME TypeOK, NEW c \in Conn, RoundsOK(c), rounds'[c] = rounds[c], Spent(c) \subseteq Spent(c)',
           pc[c] \in Paid \/ pc'[c] \notin Paid \/ Spent(c) # Spent(c)'
    PROVE  RoundsOK(c)'
  <1>1. rounds[c] \in Nat
    BY TypeParts DEF TypeOK
  <1> QED BY <1>1, SpentBounded, SpentGrows DEF RoundsOK

(* The hop does not answer. *)
LEMMA UnreachableKeeps ==
    ASSUME IInv, NEW c \in Conn, Unreachable(c)
    PROVE  IInv'
  <1>1. TypeOK /\ PinsOK /\ LoginsOnlyToPinned /\ PlaceOK(c) /\ RoundsOK(c)
        /\ \A h \in Host : PasswordOK(c, h)
    BY DEF IInv, ConnOK
  <1>2. H(c) \in Host /\ at[c] \in 1..Len(Chain)
    BY <1>1, HopType
  <1>3. TypeOK'
    BY <1>1, <1>2, TypeParts DEF TypeOK, Unreachable, Goes, Ended, directory, done, auth, hub, hist
  <1>4. Lasting /\ \A d \in Conn \ {c} : Same(d)
    BY <1>1, TypeParts DEF TypeOK, Lasting, Same, Unreachable, Goes, directory, done, auth, hub,
                hist
  <1>5. PinsOK' /\ LoginsOnlyToPinned'
    BY <1>1, <1>4 DEF PinsOK, LoginsOnlyToPinned, Lasting, Unreachable, Goes, directory, done,
                auth, hub, hist
  <1>6. PlaceOK(c)'
    BY <1>1, <1>2, TypeParts DEF TypeOK, PlaceOK, PasswordOK, Question, H, Unreachable, Goes,
                Ended, directory, done, auth, hub, hist
  <1>7. \A h \in Host : PasswordOK(c, h)'
    BY <1>1, <1>2, TypeParts DEF TypeOK, PlaceOK, PasswordOK, AskingNow, H, Unreachable, Goes,
                Ended, directory, done, auth, hub, hist
  <1>8. RoundsOK(c)'
    <2>1. Spent(c)' = Spent(c)
      BY DEF Spent, Used, Unreachable, Goes, directory, done, auth, hub, hist
    <2> QED BY <1>1, <2>1, SpentBounded DEF TypeOK, RoundsOK, Paid, Unreachable, Goes, directory,
                done, auth, hub, hist
  <1> QED BY <1>3, <1>4, <1>5, <1>6, <1>7, <1>8, OneMoves

(* The pins are read. *)
LEMMA ResolveKeeps ==
    ASSUME IInv, NEW c \in Conn, Resolve(c)
    PROVE  IInv'
  <1>1. TypeOK /\ PinsOK /\ LoginsOnlyToPinned /\ PlaceOK(c) /\ RoundsOK(c)
        /\ \A h \in Host : PasswordOK(c, h)
    BY DEF IInv, ConnOK
  <1>2. H(c) \in Host /\ at[c] \in 1..Len(Chain)
    BY <1>1, HopType
  <1>3. TypeOK'
    <2>1. pins \in [Host -> PinOrNone]
      BY <1>1 DEF TypeOK
    <2>2. policy' \in [Conn -> [Host -> PinOrNone]] /\ restricted' \in [Conn -> [Host -> PinOrNone]]
      BY <1>1, <2>1, TypeParts DEF Resolve
    <2> QED BY <1>1, <2>2 DEF TypeOK, Resolve, Goes, Ended, directory, done, auth, hub, hist
  <1>4. Lasting /\ \A d \in Conn \ {c} : Same(d)
    BY <1>1, TypeParts DEF TypeOK, Lasting, Same, Resolve, Goes, directory, done, auth, hub, hist
  <1>5. PinsOK' /\ LoginsOnlyToPinned'
    BY <1>1, <1>4 DEF PinsOK, LoginsOnlyToPinned, Lasting, Resolve, Goes, directory, done, auth,
                hub, hist
  <1>6. PlaceOK(c)'
    BY <1>1, <1>2, TypeParts DEF TypeOK, PlaceOK, PasswordOK, Question, H, Resolve, Goes, Ended,
                directory, done, auth, hub, hist
  <1>7. \A h \in Host : PasswordOK(c, h)'
    <2>1. policy'[c] = pins
      BY <1>1, TypeParts DEF Resolve
    <2>2. pc'[c] # "askPassword" /\ pc[c] \notin Ended /\ pc[c] # "askPassword"
      BY <1>1 DEF TypeOK, Resolve, Goes, Ended
    <2> QED BY <1>1, <2>1, <2>2 DEF PinsOK, PasswordOK, AskingNow, Resolve, directory, done, auth,
                hub, hist
  <1>8. RoundsOK(c)'
    BY <1>1, SpentBounded DEF TypeOK, PlaceOK, RoundsOK, Paid, Resolve, Goes, directory, done,
                auth, hub, hist
  <1> QED BY <1>3, <1>4, <1>5, <1>6, <1>7, <1>8, OneMoves

(* The client goes away. *)
LEMMA CancelKeeps ==
    ASSUME IInv, NEW c \in Conn, Cancel(c)
    PROVE  IInv'
  <1>1. TypeOK /\ PinsOK /\ LoginsOnlyToPinned /\ PlaceOK(c) /\ RoundsOK(c)
        /\ \A h \in Host : PasswordOK(c, h)
    BY DEF IInv, ConnOK
  <1>2. H(c) \in Host /\ at[c] \in 1..Len(Chain)
    BY <1>1, HopType
  <1>3. TypeOK'
    BY <1>1, <1>2, TypeParts DEF TypeOK, Cancel, Ended, directory, done, auth, hub, hist
  <1>4. Lasting /\ \A d \in Conn \ {c} : Same(d)
    BY <1>1, TypeParts DEF TypeOK, Lasting, Same, Cancel, directory, done, auth, hub, hist
  <1>5. PinsOK' /\ LoginsOnlyToPinned'
    BY <1>1, <1>4 DEF PinsOK, LoginsOnlyToPinned, Lasting, Cancel, directory, done, auth, hub, hist
  <1>6. PlaceOK(c)'
    BY <1>1, <1>2, TypeParts DEF TypeOK, PlaceOK, PasswordOK, Question, H, Cancel, Ended,
                directory, done, auth, hub, hist
  <1>7. \A h \in Host : PasswordOK(c, h)'
    BY <1>1, <1>2, TypeParts DEF TypeOK, PlaceOK, PasswordOK, AskingNow, H, Cancel, Ended,
                directory, done, auth, hub, hist
  <1>8. RoundsOK(c)'
    <2>1. Spent(c)' = Spent(c)
      BY DEF Spent, Used, Cancel, directory, done, auth, hub, hist
    <2> QED BY <1>1, <2>1, SpentBounded DEF TypeOK, RoundsOK, Paid, Cancel, directory, done, auth,
                hub, hist
  <1> QED BY <1>3, <1>4, <1>5, <1>6, <1>7, <1>8, OneMoves
LEMMA AddFacts ==
    ASSUME NEW f \in [Conn -> SUBSET Host], NEW c \in Conn, NEW h \in Host,
           NEW g, g = [f EXCEPT ![c] = @ \cup {h}]
    PROVE  /\ g \in [Conn -> SUBSET Host] /\ g[c] = f[c] \cup {h}
           /\ \A d \in Conn \ {c} : g[d] = f[d]
  OBVIOUS

LEMMA ItemsType == /\ Items \in Nat /\ 1 \in 1..Items /\ 2 \in 1..Items /\ 3 \in 1..Items
                   /\ \A k \in 1..Prompts : 3 + k \in 1..Items
  BY ConnectAssumption DEF Items

(* A pass of the loop: the limit has not been reached. *)
LEMMA RoundKeeps ==
    ASSUME IInv, NEW c \in Conn, Round(c)
    PROVE  IInv'
  <1>1. TypeOK /\ PinsOK /\ LoginsOnlyToPinned /\ PlaceOK(c) /\ RoundsOK(c)
        /\ \A h \in Host : PasswordOK(c, h)
    BY DEF IInv, ConnOK
  <1>2. H(c) \in Host /\ at[c] \in 1..Len(Chain)
    BY <1>1, HopType
  <1>3. TypeOK'
    <2>1. rounds[c] \in Nat /\ rounds[c] < Rounds /\ Rounds \in Nat
      BY <1>1, SpentBounded DEF TypeOK, RoundsOK, Paid, Round
    <2>2. rounds' \in [Conn -> 0..Rounds]
      <3>1. rounds' = rounds \/ rounds' = [rounds EXCEPT ![c] = rounds[c] + 1]
        BY DEF Round
      <3>2. rounds \in [Conn -> 0..Rounds] /\ rounds[c] + 1 \in 0..Rounds
        BY <1>1, <2>1 DEF TypeOK
      <3> QED BY <3>1, <3>2
    <2>3. at' \in [Conn -> DOMAIN Chain]
      <3>1. at' = at \/ at' = [at EXCEPT ![c] = 1]
        BY DEF Round
      <3>2. at \in [Conn -> DOMAIN Chain] /\ 1 \in DOMAIN Chain
        BY <1>1, ConnectAssumption DEF TypeOK
      <3> QED BY <3>1, <3>2
    <2> QED BY <1>1, <2>2, <2>3 DEF TypeOK, Round, Goes, Ended, directory, done, auth, hub, hist
  <1>4. Lasting /\ \A d \in Conn \ {c} : Same(d)
    BY <1>1, TypeParts DEF TypeOK, Lasting, Same, Round, Goes, directory, done, auth, hub, hist
  <1>5. PinsOK' /\ LoginsOnlyToPinned'
    BY <1>1, <1>4 DEF PinsOK, LoginsOnlyToPinned, Lasting, Round, Goes, directory, done, auth,
                hub, hist
  <1>6. PlaceOK(c)'
    <2>1. rounds[c] # Rounds
      BY <1>1, SpentBounded DEF TypeOK, RoundsOK, Paid, Round
    <2>2. pc'[c] \in {"failed", "hop"}
      BY <1>1, <2>1 DEF TypeOK, Round, Goes
    <2> QED BY <2>2 DEF PlaceOK
  <1>7. \A h \in Host : PasswordOK(c, h)'
    <2>1. pc'[c] # "askPassword" /\ pc[c] \notin Ended /\ pc[c] # "askPassword"
      BY <1>1 DEF TypeOK, Round, Goes, Ended
    <2> QED BY <1>1, <2>1 DEF PasswordOK, AskingNow, Round, directory, done, auth, hub, hist
  <1>8. RoundsOK(c)'
    <2>1. Spent(c)' = Spent(c)
      BY DEF Spent, Used, Round, directory, done, auth, hub, hist
    <2>2. rounds[c] \in Nat /\ rounds[c] <= Cardinality(Spent(c))
      <3>1. rounds[c] \in 0..Rounds /\ Rounds \in Nat
        BY <1>1, TypeParts DEF TypeOK
      <3> QED BY <1>1, <3>1, SpentBounded DEF RoundsOK, Paid, Round
    <2>3. \/ rounds'[c] = rounds[c]
          \/ rounds'[c] = rounds[c] + 1 /\ pc'[c] = "hop"
      BY <1>1 DEF TypeOK, Round, Goes
    <2> QED BY <2>1, <2>2, <2>3, SpentBounded DEF RoundsOK, Paid
  <1> QED BY <1>3, <1>4, <1>5, <1>6, <1>7, <1>8, OneMoves

(* The password method first: one question at the most, and only once. *)
LEMMA PrefetchKeeps ==
    ASSUME IInv, NEW c \in Conn, Prefetch(c)
    PROVE  IInv'
  <1>1. TypeOK /\ PinsOK /\ LoginsOnlyToPinned /\ PlaceOK(c) /\ RoundsOK(c)
        /\ \A h \in Host : PasswordOK(c, h)
    BY DEF IInv, ConnOK
  <1>2. H(c) \in Host /\ at[c] \in 1..Len(Chain)
    BY <1>1, HopType
  <1>3. TypeOK'
    <2>1. questions' \in [Conn -> [Host -> Nat]]
      <3>1. questions' = questions \/ questions' = [questions EXCEPT ![c][H(c)] = questions[c][H(c)] + 1]
        BY DEF Prefetch
      <3>2. questions \in [Conn -> [Host -> Nat]] /\ questions[c][H(c)] + 1 \in Nat
        BY <1>1, <1>2, TypeParts
      <3> QED BY <1>2, <3>1, <3>2, SetFacts
    <2>2. typed' \in [Conn -> SUBSET Host] /\ gaveUp' \in [Conn -> SUBSET Host]
      <3>1. /\ typed' = typed \/ typed' = [typed EXCEPT ![c] = @ \cup {H(c)}]
            /\ gaveUp' = gaveUp \/ gaveUp' = [gaveUp EXCEPT ![c] = @ \cup {H(c)}]
        BY DEF Prefetch, Add
      <3>2. /\ [typed EXCEPT ![c] = @ \cup {H(c)}] \in [Conn -> SUBSET Host]
            /\ [gaveUp EXCEPT ![c] = @ \cup {H(c)}] \in [Conn -> SUBSET Host]
        BY <1>1, <1>2, TypeParts
      <3> QED BY <1>1, <3>1, <3>2, TypeParts
    <2> QED BY <1>1, <2>1, <2>2 DEF TypeOK, Prefetch, Goes, Ended, directory, done, auth, hub, hist
  <1>4. Lasting /\ \A d \in Conn \ {c} : Same(d)
    BY <1>1, TypeParts DEF TypeOK, Lasting, Same, Prefetch, Asks, Goes, Add, directory, done,
                auth, hub, hist
  <1>5. PinsOK' /\ LoginsOnlyToPinned'
    BY <1>1, <1>4 DEF PinsOK, LoginsOnlyToPinned, Lasting, Prefetch, Asks, Goes, Add, directory,
                done, auth, hub, hist
  <1>6. PlaceOK(c)'
    <2>1. pc'[c] = "handshake"
      BY <1>1 DEF TypeOK, Prefetch, Goes
    <2> QED BY <2>1 DEF PlaceOK
  <1>7. \A h \in Host : PasswordOK(c, h)'
    <2>1. pc'[c] # "askPassword" /\ pc[c] \notin Ended /\ pc[c] # "askPassword"
      BY <1>1 DEF TypeOK, Prefetch, Goes, Ended
    <2>2. CASE ~Asks(c)
      BY <1>1, <2>1, <2>2 DEF PasswordOK, AskingNow, Prefetch, directory, done, auth, hub, hist
    <2>3. CASE Asks(c)
      <3>1. /\ first[c][H(c)] = "password" /\ H(c) \notin typed[c] /\ H(c) \notin gaveUp[c]
        BY <2>3 DEF Asks
      <3>2. count[c][H(c)] = NoEntry /\ questions[c][H(c)] = 0
        BY <1>1, <1>2, <2>1, <3>1 DEF PasswordOK, AskingNow
      <3>3. /\ questions'[c][H(c)] = 1
            /\ \A h \in Host \ {H(c)} : questions'[c][h] = questions[c][h]
        BY <1>1, <1>2, <2>3, <3>2, TypeParts DEF Prefetch
      <3>4. \/ typed'[c] = typed[c] \cup {H(c)} /\ gaveUp'[c] = gaveUp[c]
            \/ typed'[c] = typed[c] /\ gaveUp'[c] = gaveUp[c] \cup {H(c)}
        BY <1>1, <1>2, <2>3, TypeParts, AddFacts DEF Prefetch, Add
      <3>5. /\ policy' = policy /\ ever' = ever /\ count' = count /\ first' = first
            /\ windows' = windows /\ asked' = asked
        BY DEF Prefetch, directory, done, auth, hub, hist
      <3>6. ASSUME NEW h \in Host, h = H(c) PROVE PasswordOK(c, h)'
        BY <1>1, <1>2, <2>1, <3>1, <3>2, <3>3, <3>4, <3>5, <3>6 DEF PasswordOK, AskingNow
      <3>7. ASSUME NEW h \in Host, h # H(c) PROVE PasswordOK(c, h)'
        BY <1>1, <2>1, <3>3, <3>4, <3>5, <3>7 DEF PasswordOK, AskingNow
      <3> QED BY <3>6, <3>7
    <2> QED BY <2>2, <2>3
  <1>8. RoundsOK(c)'
    <2>1. Spent(c)' = Spent(c)
      BY DEF Spent, Used, Prefetch, Asks, Goes, Add, directory, done, auth, hub, hist
    <2> QED BY <1>1, <2>1, SpentBounded DEF TypeOK, RoundsOK, Paid, Prefetch, Asks, Goes, Add,
                directory, done, auth, hub, hist
  <1> QED BY <1>3, <1>4, <1>5, <1>6, <1>7, <1>8, OneMoves

(* A key is presented; it is the pinned one, or it is asked about. *)
LEMMA HandshakeKeeps ==
    ASSUME IInv, NEW c \in Conn, NEW k \in Key, Handshake(c, k)
    PROVE  IInv'
  <1>1. TypeOK /\ PinsOK /\ LoginsOnlyToPinned /\ PlaceOK(c) /\ RoundsOK(c)
        /\ \A h \in Host : PasswordOK(c, h)
    BY DEF IInv, ConnOK
  <1>2. H(c) \in Host /\ at[c] \in 1..Len(Chain)
    BY <1>1, HopType
  <1>3. TypeOK'
    <2>1. shown' \in [Conn -> [key : PinOrNone, was : PinOrNone]]
      <3>1. shown' = [shown EXCEPT ![c] = [key |-> k, was |-> policy[c][H(c)]]]
        BY DEF Handshake
      <3>2. k \in PinOrNone /\ policy[c][H(c)] \in PinOrNone
        BY <1>1, <1>2, TypeParts DEF PinOrNone
      <3>3. shown \in [Conn -> [key : PinOrNone, was : PinOrNone]]
        BY <1>1 DEF TypeOK
      <3> QED BY <3>1, <3>2, <3>3
    <2> QED BY <1>1, <2>1 DEF TypeOK, Handshake, Goes, Ended, directory, done, auth, hub, hist
  <1>4. Lasting /\ \A d \in Conn \ {c} : Same(d)
    BY <1>1, TypeParts DEF TypeOK, Lasting, Same, Handshake, Goes, directory, done, auth, hub, hist
  <1>5. PinsOK' /\ LoginsOnlyToPinned'
    BY <1>1, <1>4 DEF PinsOK, LoginsOnlyToPinned, Lasting, Handshake, Goes, directory, done, auth,
                hub, hist
  <1>6. PlaceOK(c)'
    <2>1. shown'[c].key = k /\ shown'[c].was = policy[c][H(c)] /\ H(c)' = H(c)
      BY <1>1, TypeParts DEF TypeOK, Handshake, H
    <2>2. pc'[c] = IF policy[c][H(c)] = k THEN "login"
                   ELSE IF H(c) \in gaveUp[c] THEN "failed" ELSE "confirm"
      BY <1>1 DEF TypeOK, Handshake, Goes
    <2>3. policy[c][H(c)] = k => k \in ever[H(c)]
      BY <1>1, <1>2, ConnectAssumption DEF PasswordOK
    <2> QED BY <1>2, <2>1, <2>2, <2>3 DEF PlaceOK, Handshake, directory, done, auth, hub, hist
  <1>7. \A h \in Host : PasswordOK(c, h)'
    <2>1. pc'[c] # "askPassword" /\ pc[c] \notin Ended /\ pc[c] # "askPassword"
      BY <1>1 DEF TypeOK, Handshake, Goes, Ended
    <2> QED BY <1>1, <2>1 DEF PasswordOK, AskingNow, Handshake, directory, done, auth, hub, hist
  <1>8. RoundsOK(c)'
    <2>1. Spent(c)' = Spent(c)
      BY DEF Spent, Used, Handshake, Goes, directory, done, auth, hub, hist
    <2> QED BY <1>1, <2>1, SpentBounded DEF TypeOK, RoundsOK, Paid, Handshake, Goes, directory,
                done, auth, hub, hist
  <1> QED BY <1>3, <1>4, <1>5, <1>6, <1>7, <1>8, OneMoves

(* Once more without the restriction, once per host. *)
LEMMA NoCommonTypeKeeps ==
    ASSUME IInv, NEW c \in Conn, NoCommonType(c)
    PROVE  IInv'
  <1>1. TypeOK /\ PinsOK /\ LoginsOnlyToPinned /\ PlaceOK(c) /\ RoundsOK(c)
        /\ \A h \in Host : PasswordOK(c, h)
    BY DEF IInv, ConnOK
  <1>2. H(c) \in Host /\ at[c] \in 1..Len(Chain)
    BY <1>1, HopType
  <1>3. TypeOK'
    <2>1. restricted' \in [Conn -> [Host -> PinOrNone]]
      <3>1. restricted' = restricted \/ restricted' = [restricted EXCEPT ![c][H(c)] = None]
        BY DEF NoCommonType, Set
      <3>2. [restricted EXCEPT ![c][H(c)] = None] \in [Conn -> [Host -> PinOrNone]]
        BY <1>1, <1>2, TypeParts
      <3> QED BY <1>1, <3>1, <3>2, TypeParts
    <2>2. freed' \in [Conn -> SUBSET Host]
      <3>1. freed' = freed \/ freed' = [freed EXCEPT ![c] = @ \cup {H(c)}]
        BY DEF NoCommonType, Add
      <3>2. [freed EXCEPT ![c] = @ \cup {H(c)}] \in [Conn -> SUBSET Host]
        BY <1>1, <1>2, TypeParts
      <3> QED BY <1>1, <3>1, <3>2, TypeParts
    <2> QED BY <1>1, <2>1, <2>2 DEF TypeOK, NoCommonType, Goes, Ended, directory, done, auth, hub,
                hist
  <1>4. Lasting /\ \A d \in Conn \ {c} : Same(d)
    BY <1>1, TypeParts DEF TypeOK, Lasting, Same, NoCommonType, Goes, Add, Set, directory, done,
                auth, hub, hist
  <1>5. PinsOK' /\ LoginsOnlyToPinned'
    BY <1>1, <1>4 DEF PinsOK, LoginsOnlyToPinned, Lasting, NoCommonType, Goes, Add, Set,
                directory, done, auth, hub, hist
  <1>6. PlaceOK(c)'
    <2>1. pc'[c] \in {"round", "failed"}
      BY <1>1 DEF TypeOK, NoCommonType, Goes
    <2> QED BY <2>1 DEF PlaceOK
  <1>7. \A h \in Host : PasswordOK(c, h)'
    <2>1. pc'[c] # "askPassword" /\ pc[c] \notin Ended /\ pc[c] # "askPassword"
      BY <1>1 DEF TypeOK, NoCommonType, Goes, Ended
    <2> QED BY <1>1, <2>1 DEF PasswordOK, AskingNow, NoCommonType, directory, done, auth, hub, hist
  <1>8. RoundsOK(c)'
    <2>1. /\ asked' = asked /\ policy' = policy /\ count' = count
          /\ freed[c] \subseteq freed'[c]
          /\ rounds' = rounds
      BY <1>1, TypeParts DEF NoCommonType, Add
    <2>2. Spent(c) \subseteq Spent(c)'
      <3>1. \A h \in Host : count[c][h] \in Nat
        BY <1>1, TypeParts DEF TypeOK
      <3> QED BY <1>1, <1>3, <2>1, <3>1, SpentKept
    <2>3. CASE pc'[c] = "round"
      <3>1. H(c) \notin freed[c] /\ H(c) \in freed'[c]
        BY <1>1, <2>3, TypeParts DEF TypeOK, NoCommonType, Add, Goes
      <3>2. <<at[c], 3>> \in Spent(c)' /\ <<at[c], 3>> \notin Spent(c)
        BY <1>2, <3>1, ItemsType DEF Spent, Used, H
      <3> QED BY <1>1, <2>1, <2>2, <3>2, RoundsKept
    <2>4. CASE pc'[c] # "round"
      <3>1. pc'[c] \notin Paid
        BY <1>1, <2>4 DEF TypeOK, NoCommonType, Goes, Paid
      <3> QED BY <1>1, <2>1, <2>2, <3>1, RoundsKept
    <2> QED BY <2>3, <2>4
  <1> QED BY <1>3, <1>4, <1>5, <1>6, <1>7, <1>8, OneMoves

(* What is given at a login is no password, or one of the two. *)
LEMMA GivenType ==
    ASSUME TypeOK, NEW c \in Conn, H(c) \in Host
    PROVE  /\ Given(c) \in {None, "typed", "keychain"}
           /\ Set(gave, c, Given(c)) \in [Conn -> [Host -> {None, "typed", "keychain"}]]
  <1>1. Given(c) \in {None, "typed", "keychain"}
    BY DEF TypeOK, Given, Password
  <1>2. gave \in [Conn -> [Host -> {None, "typed", "keychain"}]]
    BY DEF TypeOK
  <1> QED BY <1>1, <1>2 DEF Set

(* A refused login: the end, or a further question that is counted.  One   *)
(* that was asked before the connection counts as well.                    *)
LEMMA RefusedFacts ==
    ASSUME TypeOK, NEW c \in Conn, \A h \in Host : PasswordOK(c, h), LoginRefused(c)
    PROVE  /\ count' \in [Conn -> [Host -> 1..NoEntry]] /\ typed' \in [Conn -> SUBSET Host]
           /\ \A d \in Conn \ {c} : count'[d] = count[d] /\ typed'[d] = typed[d]
           /\ pc'[c] \in {"failed", "askPassword"}
           /\ pc'[c] = "failed" => count'[c] = count[c] /\ typed'[c] = typed[c]
           /\ pc'[c] = "askPassword" =>
                 /\ count'[c][H(c)] \in 1..Prompts /\ count'[c][H(c)] # NoEntry
                 /\ count[c][H(c)] # NoEntry => count[c][H(c)] < count'[c][H(c)]
                 /\ questions[c][H(c)] < count'[c][H(c)]
                 /\ \A h \in Host \ {H(c)} : count'[c][h] = count[c][h]
                 /\ typed'[c] = typed[c] \ {H(c)} /\ H(c) \notin gaveUp[c]
  <1> DEFINE h == H(c)
             sofar == IF count[c][h] # NoEntry THEN count[c][h]
                      ELSE IF Given(c) = "typed" THEN 1 ELSE 0
  <1>1. /\ h \in Host
        /\ count \in [Conn -> [Host -> 1..NoEntry]] /\ typed \in [Conn -> SUBSET Host]
        /\ NoEntry = Prompts + 1 /\ Prompts \in Nat /\ questions[c][h] \in Nat
        /\ pc = [d \in Conn |-> pc[d]]
    <2>1. h \in Host
      BY HopType
    <2>2. count \in [Conn -> [Host -> 1..NoEntry]] /\ pc = [d \in Conn |-> pc[d]]
      BY DEF TypeOK
    <2>3. typed \in [Conn -> SUBSET Host] /\ questions \in [Conn -> [Host -> Nat]]
      BY TypeParts
    <2>4. NoEntry = Prompts + 1 /\ Prompts \in Nat
      BY ConnectAssumption DEF NoEntry
    <2> QED BY <2>1, <2>2, <2>3, <2>4
  <1>2. sofar \in Nat
    BY <1>1
  <1>3. questions[c][h] <= sofar \/ h \in gaveUp[c]
    <2>1. PasswordOK(c, h) /\ pc[c] = "login"
      BY <1>1 DEF LoginRefused
    <2>2. CASE count[c][h] # NoEntry
      BY <2>1, <2>2 DEF PasswordOK
    <2>3. CASE count[c][h] = NoEntry
      <3>1. CASE questions[c][h] = 0
        BY <1>2, <3>1
      <3>2. CASE questions[c][h] = 1 /\ first[c][h] = "password" /\ h \in typed[c]
        <4>1. Given(c) = "typed"
          BY <3>2 DEF Given, Password, None
        <4> QED BY <2>3, <3>2, <4>1
      <3> QED BY <2>1, <2>3, <3>1, <3>2 DEF PasswordOK
    <2> QED BY <2>2, <2>3
  <1>4. \/ pc' = [pc EXCEPT ![c] = "failed"] /\ count' = count /\ typed' = typed
        \/ /\ h \notin gaveUp[c] /\ ~(sofar >= Prompts)
           /\ count' = [count EXCEPT ![c][h] = sofar + 1]
           /\ typed' = [typed EXCEPT ![c] = @ \ {h}]
           /\ pc' = [pc EXCEPT ![c] = "askPassword"]
    BY DEF LoginRefused, Set, Goes
  <1> HIDE DEF sofar, h
  <1>5. CASE pc' = [pc EXCEPT ![c] = "failed"] /\ count' = count /\ typed' = typed
    BY <1>1, <1>5
  <1>6. CASE /\ h \notin gaveUp[c] /\ ~(sofar >= Prompts)
             /\ count' = [count EXCEPT ![c][h] = sofar + 1]
             /\ typed' = [typed EXCEPT ![c] = @ \ {h}]
             /\ pc' = [pc EXCEPT ![c] = "askPassword"]
    <2>1. sofar + 1 \in 1..Prompts /\ sofar + 1 \in 1..NoEntry /\ sofar + 1 # NoEntry
      BY <1>1, <1>2, <1>6
    <2>2. /\ count' \in [Conn -> [Host -> 1..NoEntry]] /\ count'[c][h] = sofar + 1
          /\ \A k \in Host \ {h} : count'[c][k] = count[c][k]
          /\ \A d \in Conn \ {c} : count'[d] = count[d]
      BY <1>1, <1>6, <2>1, SetFacts
    <2>3. /\ typed' \in [Conn -> SUBSET Host] /\ typed'[c] = typed[c] \ {h}
          /\ \A d \in Conn \ {c} : typed'[d] = typed[d]
      BY <1>1, <1>6
    <2>4. pc'[c] = "askPassword"
      BY <1>1, <1>6
    <2>5. count[c][h] # NoEntry => count[c][h] < sofar + 1
      BY <1>1, <1>2 DEF sofar
    <2>6. questions[c][h] < sofar + 1
      BY <1>1, <1>2, <1>3, <1>6
    <2> QED BY <1>6, <2>1, <2>2, <2>3, <2>4, <2>5, <2>6 DEF h
  <1> QED BY <1>4, <1>5, <1>6

(* A login that the server accepts is for a key that was pinned. *)
LEMMA LoginOKKeeps ==
    ASSUME IInv, NEW c \in Conn, LoginOK(c)
    PROVE  IInv'
  <1>1. TypeOK /\ PinsOK /\ LoginsOnlyToPinned /\ PlaceOK(c) /\ RoundsOK(c)
        /\ \A h \in Host : PasswordOK(c, h)
    BY DEF IInv, ConnOK
  <1>2. H(c) \in Host /\ at[c] \in 1..Len(Chain)
    BY <1>1, HopType
  <1>3. TypeOK'
    <2>1. gave' \in [Conn -> [Host -> {None, "typed", "keychain"}]]
      BY <1>1, <1>2, GivenType DEF LoginOK
    <2>2. at' \in [Conn -> DOMAIN Chain]
      <3>1. at' = at \/ (at[c] < Len(Chain) /\ at' = [at EXCEPT ![c] = at[c] + 1])
        BY DEF LoginOK
      <3>2. at \in [Conn -> DOMAIN Chain]
        BY <1>1 DEF TypeOK
      <3>3. at[c] < Len(Chain) => at[c] + 1 \in DOMAIN Chain
        BY <1>2, ConnectAssumption
      <3> QED BY <3>1, <3>2, <3>3
    <2>3. logins' \subseteq [conn : Conn, host : Host, key : PinOrNone]
      <3>1. shown[c].key \in PinOrNone
        BY <1>1 DEF TypeOK
      <3>2. [conn |-> c, host |-> H(c), key |-> shown[c].key] \in [conn : Conn, host : Host,
      key : PinOrNone]
        BY <1>2, <3>1
      <3> QED BY <1>1, <3>2 DEF TypeOK, LoginOK
    <2> QED BY <1>1, <2>1, <2>2, <2>3 DEF TypeOK, LoginOK, Goes, Ended, directory, done, auth,
                hub, hist
  <1>4. Lasting /\ \A d \in Conn \ {c} : Same(d)
    BY <1>1, TypeParts DEF TypeOK, Lasting, Same, LoginOK, Goes, Set, directory, done, auth, hub,
                hist
  <1>5. PinsOK' /\ LoginsOnlyToPinned'
    <2>1. shown[c].key \in ever[H(c)]
      BY <1>1 DEF PlaceOK, LoginOK
    <2>2. LoginsOnlyToPinned'
      BY <1>1, <2>1 DEF LoginsOnlyToPinned, LoginOK, directory, done, auth, hub, hist
    <2> QED BY <1>1, <2>2 DEF PinsOK, LoginOK, directory, done, auth, hub, hist
  <1>6. PlaceOK(c)'
    <2>1. pc'[c] \in {"hop", "failed", "connected"}
      BY <1>1 DEF TypeOK, LoginOK, Goes
    <2> QED BY <2>1 DEF PlaceOK
  <1>7. \A h \in Host : PasswordOK(c, h)'
    <2>1. pc'[c] # "askPassword" /\ pc[c] \notin Ended /\ pc[c] # "askPassword"
      BY <1>1 DEF TypeOK, LoginOK, Goes, Ended
    <2> QED BY <1>1, <2>1 DEF PasswordOK, AskingNow, LoginOK, Goes, directory, done, auth, hub, hist
  <1>8. RoundsOK(c)'
    <2>1. Spent(c)' = Spent(c)
      BY DEF Spent, Used, LoginOK, Goes, Set, directory, done, auth, hub, hist
    <2> QED BY <1>1, <2>1, SpentBounded DEF TypeOK, RoundsOK, Paid, LoginOK, Goes, Set, directory,
                done, auth, hub, hist
  <1> QED BY <1>3, <1>4, <1>5, <1>6, <1>7, <1>8, OneMoves

(* A refused login leads to a question while prompts are left. *)
LEMMA LoginRefusedKeeps ==
    ASSUME IInv, NEW c \in Conn, LoginRefused(c)
    PROVE  IInv'
  <1>1. TypeOK /\ PinsOK /\ LoginsOnlyToPinned /\ PlaceOK(c) /\ RoundsOK(c)
        /\ \A h \in Host : PasswordOK(c, h)
    BY DEF IInv, ConnOK
  <1>2. H(c) \in Host /\ at[c] \in 1..Len(Chain)
    BY <1>1, HopType
  <1>3. TypeOK'
    <2>1. gave' \in [Conn -> [Host -> {None, "typed", "keychain"}]]
      BY <1>1, <1>2, GivenType DEF LoginRefused
    <2>2. logins' \subseteq [conn : Conn, host : Host, key : PinOrNone]
      <3>1. shown[c].key \in PinOrNone
        BY <1>1 DEF TypeOK
      <3>2. [conn |-> c, host |-> H(c), key |-> shown[c].key] \in [conn : Conn, host : Host,
      key : PinOrNone]
        BY <1>2, <3>1
      <3> QED BY <1>1, <3>2 DEF TypeOK, LoginRefused
    <2>3. count' \in [Conn -> [Host -> 1..NoEntry]] /\ typed' \in [Conn -> SUBSET Host]
      BY <1>1, RefusedFacts
    <2>4. pc' = [pc EXCEPT ![c] = "failed"] \/ pc' = [pc EXCEPT ![c] = "askPassword"]
      BY DEF LoginRefused, Goes
    <2>5. pc[c] = "login"
          /\ UNCHANGED <<directory, cancel, at, rounds, policy, restricted, asked,
                                        freed, first, gaveUp, shown, hub, windows, questions>>
      BY DEF LoginRefused
    <2>6. /\ pc' \in [Conn -> Ended \cup {"new", "round", "hop", "handshake", "login", "askPassword",
                                         "confirm", "window", "pin"}]
          /\ listed' \subseteq {d \in Conn : pc'[d] = "window"}
      BY <1>1, <2>4, <2>5 DEF TypeOK, Ended, hub
    <2>7. /\ {policy', restricted'} = {policy, restricted}
          /\ {windows', questions'} = {windows, questions}
          /\ asked' = asked /\ freed' = freed /\ gaveUp' = gaveUp
      BY <2>5
    <2>8. {asked', freed', typed', gaveUp'} \subseteq [Conn -> SUBSET Host]
      BY <1>1, <2>3, <2>7, TypeParts
    <2> QED BY <1>1, <2>1, <2>2, <2>3, <2>5, <2>6, <2>7, <2>8 DEF TypeOK, directory, hub
  <1>4. Lasting /\ \A d \in Conn \ {c} : Same(d)
    <2>1. \A d \in Conn \ {c} : count'[d] = count[d] /\ typed'[d] = typed[d]
      BY <1>1, RefusedFacts
    <2> QED BY <1>1, <2>1 DEF TypeOK, Lasting, Same, LoginRefused, Goes, directory, done, auth,
                hub, hist
  <1>5. PinsOK' /\ LoginsOnlyToPinned'
    <2>1. shown[c].key \in ever[H(c)]
      BY <1>1 DEF PlaceOK, LoginRefused
    <2>2. LoginsOnlyToPinned'
      BY <1>1, <2>1 DEF LoginsOnlyToPinned, LoginRefused, directory, done, auth, hub, hist
    <2> QED BY <1>1, <2>2 DEF PinsOK, LoginRefused, directory, done, auth, hub, hist
  <1>6. PlaceOK(c)'
    <2>1. /\ pc'[c] \in {"failed", "askPassword"}
          /\ pc'[c] = "askPassword" => H(c) \notin gaveUp[c] /\ count'[c][H(c)] # NoEntry
      BY <1>1, RefusedFacts
    <2>2. H(c)' = H(c) /\ gaveUp' = gaveUp
      BY DEF LoginRefused, H
    <2> QED BY <2>1, <2>2 DEF PlaceOK
  <1>7. \A h \in Host : PasswordOK(c, h)'
    <2>1. /\ policy' = policy /\ ever' = ever /\ first' = first /\ windows' = windows
          /\ questions' = questions /\ asked' = asked /\ gaveUp' = gaveUp /\ H(c)' = H(c)
      BY DEF LoginRefused, H, directory, done, auth, hub, hist
    <2>2. pc[c] = "login"
      BY DEF LoginRefused
    <2>3. CASE pc'[c] = "failed"
      <3>1. count'[c] = count[c] /\ typed'[c] = typed[c]
        BY <1>1, <2>3, RefusedFacts
      <3> QED BY <1>1, <2>1, <2>2, <2>3, <3>1 DEF PasswordOK, AskingNow, Ended
    <2>4. CASE pc'[c] = "askPassword"
      <3>1. /\ count'[c][H(c)] \in 1..Prompts /\ questions[c][H(c)] < count'[c][H(c)]
            /\ \A h \in Host \ {H(c)} : count'[c][h] = count[c][h]
            /\ typed'[c] = typed[c] \ {H(c)} /\ H(c) \notin gaveUp[c]
        BY <1>1, <2>4, RefusedFacts
      <3>2. count'[c][H(c)] # NoEntry /\ count'[c][H(c)] \in Nat /\ questions[c][H(c)] \in Nat
        BY <1>1, <1>2, <3>1, TypeParts, ConnectAssumption DEF NoEntry
      <3>3. ASSUME NEW h \in Host, h = H(c) PROVE PasswordOK(c, h)'
        <4>1. /\ count'[c][h] # NoEntry /\ questions'[c][h] <= count'[c][h]
              /\ questions'[c][h] < count'[c][h] /\ AskingNow(c, h)'
          BY <2>1, <2>4, <3>1, <3>2, <3>3 DEF AskingNow
        <4>2. /\ h \notin gaveUp'[c] /\ windows'[c][h] = (IF h \in asked'[c] THEN 1 ELSE 0)
              /\ policy'[c][h] # None => policy'[c][h] \in ever'[h]
          BY <1>1, <2>1, <3>1, <3>3 DEF PasswordOK
        <4> QED BY <4>1, <4>2 DEF PasswordOK
      <3>4. ASSUME NEW h \in Host, h # H(c) PROVE PasswordOK(c, h)'
        BY <1>1, <2>1, <2>2, <3>1, <3>4 DEF PasswordOK, AskingNow, Ended
      <3> QED BY <3>3, <3>4
    <2> QED BY <1>1, <2>3, <2>4, RefusedFacts
  <1>8. RoundsOK(c)'
    <2>1. /\ asked' = asked /\ policy' = policy /\ freed' = freed /\ rounds' = rounds
      BY DEF LoginRefused
    <2>2. CASE pc'[c] = "failed"
      <3>1. count'[c] = count[c] /\ pc'[c] \notin Paid /\ pc[c] = "login"
        BY <1>1, <2>2, RefusedFacts DEF Paid, LoginRefused
      <3>2. Spent(c)' = Spent(c)
        BY <2>1, <3>1 DEF Spent, Used
      <3> QED BY <1>1, <2>1, <3>1, <3>2, RoundsKept
    <2>3. CASE pc'[c] = "askPassword"
      <3>0. PICK n \in 1..Prompts : n = count'[c][H(c)]
        BY <1>1, <2>3, RefusedFacts
      <3>a. PICK i : i = at[c]
        OBVIOUS
      <3>b. PICK h \in Host : h = H(c) /\ h = Chain[i]
        BY <1>2, <3>a DEF H
      <3>1. /\ count[c][h] # NoEntry => count[c][h] < n
            /\ \A k \in Host \ {h} : count'[c][k] = count[c][k]
        BY <1>1, <2>3, <3>0, <3>b, RefusedFacts
      <3>2. \A k \in Host : count[c][k] \in Nat
        BY <1>1, TypeParts DEF TypeOK
      <3>3. n # NoEntry /\ n \in Nat
        BY ConnectAssumption DEF NoEntry
      <3>4. \A k \in Host : count[c][k] # NoEntry =>
                               count'[c][k] # NoEntry /\ count'[c][k] >= count[c][k]
        <4>1. count[c][h] # NoEntry => n >= count[c][h]
          BY <3>1, <3>2, <3>3
        <4>2. \A k \in Host : count[c][k] >= count[c][k]
          BY <3>2
        <4> QED BY <3>0, <3>b, <3>1, <3>3, <4>1, <4>2
      <3>5. Spent(c) \subseteq Spent(c)'
        BY <1>1, <1>3, <2>1, <3>4, SpentKept
      <3>6. <<i, 3 + n>> \in Spent(c)' /\ <<i, 3 + n>> \notin Spent(c)
        <4>1. 3 + n \in 1..Items /\ 3 + n > 3 /\ 3 + n <= 3 + n
          BY <3>3, ItemsType
        <4>2. count[c][h] # NoEntry => ~(3 + n <= 3 + count[c][h])
          BY <3>1, <3>2, <3>3
        <4>3. 3 + n # 1 /\ 3 + n # 2 /\ 3 + n # 3
          BY <3>3
        <4>4. <<i, 3 + n>> \in (1..Len(Chain)) \X (1..Items)
          BY <1>2, <3>a, <4>1
        <4>5. ~Used(c, h, 3 + n)
          BY <4>1, <4>2, <4>3 DEF Used
        <4>6. count'[c][h] = n
          BY <3>0, <3>b
        <4>7. Used(c, h, 3 + n)'
          BY <3>3, <4>1, <4>6 DEF Used
        <4> QED BY <3>b, <4>4, <4>5, <4>7 DEF Spent
      <3> QED BY <1>1, <2>1, <3>5, <3>6, RoundsKept
    <2> QED BY <1>1, <2>2, <2>3, RefusedFacts
  <1> QED BY <1>3, <1>4, <1>5, <1>6, <1>7, <1>8, OneMoves
(* The question between two connects was counted before it is asked. *)
LEMMA AskPasswordKeeps ==
    ASSUME IInv, NEW c \in Conn, AskPassword(c)
    PROVE  IInv'
  <1>1. TypeOK /\ PinsOK /\ LoginsOnlyToPinned /\ PlaceOK(c) /\ RoundsOK(c)
        /\ \A h \in Host : PasswordOK(c, h)
    BY DEF IInv, ConnOK
  <1>2. H(c) \in Host /\ at[c] \in 1..Len(Chain)
    BY <1>1, HopType
  <1>3. TypeOK'
    <2>1. typed' \in [Conn -> SUBSET Host]
      <3>1. typed' = typed \/ typed' = [typed EXCEPT ![c] = @ \cup {H(c)}]
        BY DEF AskPassword, Add
      <3>2. [typed EXCEPT ![c] = @ \cup {H(c)}] \in [Conn -> SUBSET Host]
        BY <1>1, <1>2, TypeParts
      <3> QED BY <1>1, <3>1, <3>2, TypeParts
    <2>2. questions' \in [Conn -> [Host -> Nat]]
      <3>1. questions' = [questions EXCEPT ![c][H(c)] = questions[c][H(c)] + 1]
        BY DEF AskPassword
      <3>2. questions \in [Conn -> [Host -> Nat]]
        BY <1>1, TypeParts
      <3> QED BY <1>2, <3>1, <3>2
    <2>3. first' \in [Conn -> [Host -> {"key", "password", "interactive"}]]
      <3>1. PICK m : m = IF first[c][H(c)] = "interactive" THEN "password" ELSE first[c][H(c)]
        OBVIOUS
      <3>2. first' = first \/ first' = [first EXCEPT ![c][H(c)] = m]
        BY <3>1 DEF AskPassword, Set
      <3>3. first \in [Conn -> [Host -> {"key", "password", "interactive"}]]
        BY <1>1 DEF TypeOK
      <3>4. m \in {"key", "password", "interactive"}
        BY <1>2, <3>1, <3>3
      <3> QED BY <1>2, <3>2, <3>3, <3>4
    <2>4. pc' = [pc EXCEPT ![c] = "failed"] \/ pc' = [pc EXCEPT ![c] = "round"]
      BY DEF AskPassword, Goes
    <2>5. pc[c] = "askPassword"
          /\ UNCHANGED <<directory, cancel, at, rounds, policy, restricted, done,
                                              gave, gaveUp, shown, hub, logins, windows>>
      BY DEF AskPassword
    <2>6. /\ pc' \in [Conn -> Ended \cup {"new", "round", "hop", "handshake", "login", "askPassword",
                                         "confirm", "window", "pin"}]
          /\ listed' \subseteq {d \in Conn : pc'[d] = "window"}
      BY <1>1, <2>4, <2>5 DEF TypeOK, Ended, hub
    <2>7. /\ {asked', freed', typed', gaveUp'} \subseteq [Conn -> SUBSET Host]
          /\ {windows', questions'} \subseteq [Conn -> [Host -> Nat]]
          /\ {policy', restricted'} \subseteq [Conn -> [Host -> PinOrNone]]
      BY <1>1, <2>1, <2>2, <2>5, TypeParts DEF done
    <2> QED BY <1>1, <2>3, <2>5, <2>6, <2>7 DEF TypeOK, directory, done, hub
  <1>4. Lasting /\ \A d \in Conn \ {c} : Same(d)
    BY <1>1, TypeParts DEF TypeOK, Lasting, Same, AskPassword, Goes, Add, Set, directory, done,
                auth, hub, hist
  <1>5. PinsOK' /\ LoginsOnlyToPinned'
    BY <1>1, <1>4 DEF PinsOK, LoginsOnlyToPinned, Lasting, AskPassword, Goes, Add, Set, directory,
                done, auth, hub, hist
  <1>6. PlaceOK(c)'
    <2>1. pc'[c] \in {"round", "failed"}
      BY <1>1 DEF TypeOK, AskPassword, Goes
    <2> QED BY <2>1 DEF PlaceOK
  <1>7. \A h \in Host : PasswordOK(c, h)'
    <2>1. /\ policy' = policy /\ ever' = ever /\ windows' = windows /\ count' = count
          /\ asked' = asked /\ gaveUp' = gaveUp
      BY DEF AskPassword, directory, done, auth, hub, hist
    <2>2. pc[c] = "askPassword" /\ pc[c] \notin Ended
      BY DEF AskPassword, Ended
    <2>3. /\ questions'[c][H(c)] = questions[c][H(c)] + 1
          /\ \A h \in Host \ {H(c)} : questions'[c][h] = questions[c][h]
      BY <1>1, <1>2, TypeParts DEF AskPassword
    <2>4. \/ pc'[c] = "failed" /\ typed' = typed /\ first' = first
          \/ /\ pc'[c] = "round" /\ typed'[c] = typed[c] \cup {H(c)}
             /\ \A h \in Host \ {H(c)} : first'[c][h] = first[c][h]
      <3>1. PICK m : m = IF first[c][H(c)] = "interactive" THEN "password" ELSE first[c][H(c)]
        OBVIOUS
      <3>2. \/ pc' = [pc EXCEPT ![c] = "failed"] /\ typed' = typed /\ first' = first
            \/ /\ pc' = [pc EXCEPT ![c] = "round"] /\ typed' = [typed EXCEPT ![c] = @ \cup {H(c)}]
               /\ first' = [first EXCEPT ![c][H(c)] = m]
        BY <3>1 DEF AskPassword, Goes, Add, Set
      <3>3. pc = [d \in Conn |-> pc[d]] /\ first = [d \in Conn |-> [h \in Host |-> first[d][h]]]
        BY <1>1 DEF TypeOK
      <3>4. CASE pc' = [pc EXCEPT ![c] = "failed"] /\ typed' = typed /\ first' = first
        BY <3>3, <3>4
      <3>5. CASE /\ pc' = [pc EXCEPT ![c] = "round"]
                 /\ typed' = [typed EXCEPT ![c] = @ \cup {H(c)}]
                 /\ first' = [first EXCEPT ![c][H(c)] = m]
        <4>1. pc'[c] = "round" /\ typed'[c] = typed[c] \cup {H(c)}
          BY <1>1, <3>3, <3>5, TypeParts
        <4>2. \A h \in Host \ {H(c)} : first'[c][h] = first[c][h]
          BY <3>3, <3>5
        <4> QED BY <4>1, <4>2
      <3> QED BY <3>2, <3>4, <3>5
    <2>5. count[c][H(c)] # NoEntry /\ H(c) \notin gaveUp[c]
      BY <1>1, <2>2 DEF PlaceOK
    <2>6. questions[c][H(c)] \in Nat /\ count[c][H(c)] \in Nat
      BY <1>1, <1>2, TypeParts DEF TypeOK
    <2>7. ASSUME NEW h \in Host, h = H(c) PROVE PasswordOK(c, h)'
      <3>1. questions[c][h] < count[c][h]
        BY <1>1, <2>2, <2>5, <2>7 DEF PasswordOK, AskingNow
      <3>2. questions'[c][h] <= count'[c][h] /\ count'[c][h] # NoEntry
        BY <2>1, <2>3, <2>5, <2>6, <2>7, <3>1
      <3>3. h \in typed'[c] \/ pc'[c] \in Ended
        BY <2>4, <2>7 DEF Ended
      <3>4. ~AskingNow(c, h)' /\ h \notin gaveUp'[c]
        BY <2>1, <2>4, <2>5, <2>7 DEF AskingNow
      <3>5. /\ windows'[c][h] = (IF h \in asked'[c] THEN 1 ELSE 0)
            /\ policy'[c][h] # None => policy'[c][h] \in ever'[h]
        BY <1>1, <2>1 DEF PasswordOK
      <3> QED BY <3>2, <3>3, <3>4, <3>5 DEF PasswordOK
    <2>8. ASSUME NEW h \in Host, h # H(c) PROVE PasswordOK(c, h)'
      <3>1. ~AskingNow(c, h) /\ ~AskingNow(c, h)'
        BY <2>4, <2>8 DEF AskingNow
      <3>2. (h \in typed'[c] <=> h \in typed[c]) /\ first'[c][h] = first[c][h]
        BY <2>4, <2>8
      <3> QED BY <1>1, <2>1, <2>2, <2>3, <2>8, <3>1, <3>2 DEF PasswordOK
    <2> QED BY <2>7, <2>8
  <1>8. RoundsOK(c)'
    <2>1. Spent(c)' = Spent(c)
      BY DEF Spent, Used, AskPassword, directory, done, auth, hub, hist
    <2>2. pc[c] \in Paid /\ rounds' = rounds
      BY DEF AskPassword, Paid
    <2> QED BY <1>1, <2>1, <2>2, RoundsKept
  <1> QED BY <1>3, <1>4, <1>5, <1>6, <1>7, <1>8, OneMoves

(* The three ways on from an unknown key: a pin that was made meanwhile is *)
(* adopted, the connect fails, or the person is asked, once per host.      *)
Adopts(c) ==
    /\ policy[c][H(c)] = None /\ pins[H(c)] # None
    /\ policy' = [policy EXCEPT ![c][H(c)] = pins[H(c)]]
    /\ restricted' = [restricted EXCEPT ![c][H(c)] = pins[H(c)]]
    /\ pc' = [pc EXCEPT ![c] = "round"] /\ UNCHANGED <<asked, windows, listed, reply>>

Refuses(c) ==
    pc' = [pc EXCEPT ![c] = "failed"]
    /\ UNCHANGED <<policy, restricted, asked, windows, listed, reply>>

Opens(c) ==
    /\ H(c) \notin asked[c]
    /\ asked' = [asked EXCEPT ![c] = @ \cup {H(c)}]
    /\ windows' = [windows EXCEPT ![c][H(c)] = windows[c][H(c)] + 1]
    /\ listed' = listed \cup {c} /\ reply' = [reply EXCEPT ![c] = None]
    /\ pc' = [pc EXCEPT ![c] = "window"] /\ UNCHANGED <<policy, restricted>>

LEMMA ConfirmWays ==
    ASSUME NEW c \in Conn, PlaceOK(c), Confirm(c)
    PROVE  /\ Adopts(c) \/ Refuses(c) \/ Opens(c)
           /\ pc[c] = "confirm" /\ H(c) \notin gaveUp[c] /\ shown[c].key \in Key
           /\ shown[c].was = policy[c][H(c)]
           /\ UNCHANGED <<directory, cancel, at, rounds, freed, count, auth, shown, trusts, logins, questions>>
  <1>1. /\ pc[c] = "confirm" /\ H(c) \notin gaveUp[c] /\ shown[c].key \in Key
        /\ shown[c].was = policy[c][H(c)]
    BY DEF Confirm, PlaceOK
  <1>2. UNCHANGED <<directory, cancel, at, rounds, freed, count, auth, shown, trusts, logins,
  questions>>
    BY DEF Confirm
  <1>3. Adopts(c) \/ Refuses(c) \/ Opens(c)
    BY <1>1 DEF Confirm, Adopts, Refuses, Opens, Goes, Add, Set
  <1> QED BY <1>1, <1>2, <1>3

(* An unknown key. *)
LEMMA ConfirmKeeps ==
    ASSUME IInv, NEW c \in Conn, Confirm(c)
    PROVE  IInv'
  <1>1. TypeOK /\ PinsOK /\ LoginsOnlyToPinned /\ PlaceOK(c) /\ RoundsOK(c)
        /\ \A h \in Host : PasswordOK(c, h)
    BY DEF IInv, ConnOK
  <1>2. H(c) \in Host /\ at[c] \in 1..Len(Chain)
    BY <1>1, HopType
  <1>3. TypeOK'
    <2>1. policy' \in [Conn -> [Host -> PinOrNone]] /\ restricted' \in [Conn -> [Host -> PinOrNone]]
      <3>1. \/ policy' = policy /\ restricted' = restricted
            \/ /\ policy' = [policy EXCEPT ![c][H(c)] = pins[H(c)]]
               /\ restricted' = [restricted EXCEPT ![c][H(c)] = pins[H(c)]]
        BY <1>1, ConfirmWays DEF Adopts, Refuses, Opens
      <3>2. pins[H(c)] \in PinOrNone
        BY <1>1, <1>2 DEF TypeOK
      <3>3. /\ [policy EXCEPT ![c][H(c)] = pins[H(c)]] \in [Conn -> [Host -> PinOrNone]]
            /\ [restricted EXCEPT ![c][H(c)] = pins[H(c)]] \in [Conn -> [Host -> PinOrNone]]
        BY <1>1, <1>2, <3>2, TypeParts
      <3> QED BY <1>1, <3>1, <3>3, TypeParts
    <2>2. asked' \in [Conn -> SUBSET Host]
      <3>1. asked' = asked \/ asked' = [asked EXCEPT ![c] = @ \cup {H(c)}]
        BY <1>1, ConfirmWays DEF Adopts, Refuses, Opens
      <3>2. [asked EXCEPT ![c] = @ \cup {H(c)}] \in [Conn -> SUBSET Host]
        BY <1>1, <1>2, TypeParts
      <3> QED BY <1>1, <3>1, <3>2, TypeParts
    <2>3. windows' \in [Conn -> [Host -> Nat]]
      <3>1. windows' = windows \/ windows' = [windows EXCEPT ![c][H(c)] = windows[c][H(c)] + 1]
        BY <1>1, ConfirmWays DEF Adopts, Refuses, Opens
      <3>2. windows \in [Conn -> [Host -> Nat]]
        BY <1>1, TypeParts
      <3>3. windows[c][H(c)] + 1 \in Nat
        BY <1>2, <3>2
      <3>4. [windows EXCEPT ![c][H(c)] = windows[c][H(c)] + 1] \in [Conn -> [Host -> Nat]]
        BY <1>2, <3>2, <3>3
      <3> QED BY <3>1, <3>2, <3>4
    <2>4. /\ pc' \in [Conn -> Ended \cup {"new", "round", "hop", "handshake", "login", "askPassword",
                                         "confirm", "window", "pin"}]
          /\ listed' \subseteq {d \in Conn : pc'[d] = "window"}
          /\ reply' \in [Conn -> {None, "trust", "refuse"}]
      <3>1. Adopts(c) \/ Refuses(c) \/ Opens(c)
        BY <1>1, ConfirmWays
      <3>2. pc[c] = "confirm"
        BY DEF Confirm
      <3>3. CASE Adopts(c)
        BY <1>1, <3>2, <3>3 DEF TypeOK, Ended, Adopts
      <3>4. CASE Refuses(c)
        BY <1>1, <3>2, <3>4 DEF TypeOK, Ended, Refuses
      <3>5. CASE Opens(c)
        BY <1>1, <3>2, <3>5 DEF TypeOK, Ended, Opens
      <3> QED BY <3>1, <3>3, <3>4, <3>5
    <2>5. freed' = freed /\ typed' = typed /\ gaveUp' = gaveUp /\ questions' = questions
      BY <1>1, ConfirmWays DEF auth
    <2>6. /\ {asked', freed', typed', gaveUp'} \subseteq [Conn -> SUBSET Host]
          /\ {windows', questions'} \subseteq [Conn -> [Host -> Nat]]
          /\ {policy', restricted'} \subseteq [Conn -> [Host -> PinOrNone]]
      BY <1>1, <2>1, <2>2, <2>3, <2>5, TypeParts
    <2>7. UNCHANGED <<directory, cancel, at, rounds, freed, count, auth, shown, trusts, logins,
    questions>>
      BY <1>1, ConfirmWays
    <2> QED BY <1>1, <2>4, <2>6, <2>7 DEF TypeOK, directory, auth
  <1>4. Lasting /\ \A d \in Conn \ {c} : Same(d)
    <2>1. UNCHANGED <<directory, cancel, at, rounds, freed, count, auth, shown, trusts, logins,
    questions>>
      BY <1>1, ConfirmWays
    <2>2. \A d \in Conn \ {c} : /\ pc'[d] = pc[d] /\ policy'[d] = policy[d] /\ asked'[d] = asked[d]
                                /\ windows'[d] = windows[d] /\ reply'[d] = reply[d]
      <3>1. Adopts(c) \/ Refuses(c) \/ Opens(c)
        BY <1>1, ConfirmWays
      <3>2. CASE Adopts(c)
        BY <1>1, <3>2, TypeParts DEF TypeOK, Adopts
      <3>3. CASE Refuses(c)
        BY <1>1, <3>3 DEF TypeOK, Refuses
      <3>4. CASE Opens(c)
        BY <1>1, <3>4, TypeParts DEF TypeOK, Opens
      <3> QED BY <3>1, <3>2, <3>3, <3>4
    <2> QED BY <2>1, <2>2 DEF Lasting, Same, directory, auth
  <1>5. PinsOK' /\ LoginsOnlyToPinned'
    BY <1>1, ConfirmWays DEF PinsOK, LoginsOnlyToPinned, directory
  <1>6. PlaceOK(c)'
    <2>1. UNCHANGED <<at, auth, shown>> /\ H(c)' = H(c) /\ gaveUp' = gaveUp
      BY <1>1, ConfirmWays DEF H, auth
    <2>2. pc'[c] \in {"round", "failed"} \/ (Opens(c) /\ pc'[c] = "window" /\ reply'[c] = None)
      BY <1>1, ConfirmWays DEF TypeOK, Adopts, Refuses, Opens
    <2>3. CASE pc'[c] \in {"round", "failed"}
      BY <2>3 DEF PlaceOK
    <2>4. CASE Opens(c) /\ pc'[c] = "window" /\ reply'[c] = None
      <3>1. /\ policy' = policy /\ H(c) \notin gaveUp[c] /\ shown[c].key \in Key
            /\ shown[c].was = policy[c][H(c)]
        BY <1>1, <2>4, ConfirmWays DEF Opens
      <3> QED BY <2>1, <2>4, <3>1 DEF PlaceOK, None
    <2> QED BY <2>2, <2>3, <2>4
  <1>7. \A h \in Host : PasswordOK(c, h)'
    <2>1. /\ ever' = ever /\ first' = first /\ questions' = questions /\ count' = count
          /\ typed' = typed /\ gaveUp' = gaveUp
      BY <1>1, ConfirmWays DEF directory, auth
    <2>2. pc'[c] # "askPassword" /\ pc[c] \notin Ended /\ pc[c] # "askPassword"
      <3>1. pc[c] = "confirm" /\ (Adopts(c) \/ Refuses(c) \/ Opens(c))
        BY <1>1, ConfirmWays
      <3>2. pc'[c] \in {"round", "failed", "window"}
        BY <1>1, <3>1 DEF TypeOK, Adopts, Refuses, Opens
      <3> QED BY <3>1, <3>2 DEF Ended
    <2>3. \A h \in Host : windows'[c][h] = IF h \in asked'[c] THEN 1 ELSE 0
      <3>1. \A h \in Host : windows[c][h] = IF h \in asked[c] THEN 1 ELSE 0
        BY <1>1 DEF PasswordOK
      <3>2. CASE asked' = asked /\ windows' = windows
        BY <3>1, <3>2
      <3>3. CASE Opens(c)
        <4>1. H(c) \notin asked[c] /\ asked'[c] = asked[c] \cup {H(c)}
          BY <1>1, <3>3, TypeParts DEF Opens
        <4>2. /\ windows'[c][H(c)] = windows[c][H(c)] + 1
              /\ \A h \in Host \ {H(c)} : windows'[c][h] = windows[c][h]
          BY <1>1, <1>2, <3>3, TypeParts DEF Opens
        <4>3. windows[c][H(c)] = 0
          BY <1>2, <3>1, <4>1
        <4> QED BY <3>1, <4>1, <4>2, <4>3
      <3> QED BY <1>1, <3>2, <3>3, ConfirmWays DEF Adopts, Refuses
    <2>4. \A h \in Host : policy'[c][h] # None => policy'[c][h] \in ever[h]
      <3>1. \A h \in Host : policy[c][h] # None => policy[c][h] \in ever[h]
        BY <1>1 DEF PasswordOK
      <3>2. CASE policy' = policy
        BY <3>1, <3>2
      <3>3. CASE Adopts(c)
        <4>1. /\ policy'[c][H(c)] = pins[H(c)]
              /\ \A h \in Host \ {H(c)} : policy'[c][h] = policy[c][h]
          BY <1>1, <1>2, <3>3, TypeParts DEF Adopts
        <4> QED BY <1>1, <1>2, <3>1, <4>1 DEF PinsOK
      <3> QED BY <1>1, <3>2, <3>3, ConfirmWays DEF Opens, Refuses
    <2> QED BY <1>1, <2>1, <2>2, <2>3, <2>4 DEF PasswordOK, AskingNow
  <1>8. RoundsOK(c)'
    <2>1. freed' = freed /\ count' = count /\ rounds' = rounds /\ pc[c] = "confirm"
      BY <1>1, ConfirmWays
    <2>2. \A h \in Host : count[c][h] \in Nat
      BY <1>1, TypeParts DEF TypeOK
    <2>3. PICK i : i = at[c]
      OBVIOUS
    <2>4. PICK h \in Host : h = H(c) /\ h = Chain[i]
      BY <1>2, <2>3 DEF H
    <2>5. CASE Adopts(c)
      <3>1. /\ policy[c][h] = None /\ policy'[c][h] # None
            /\ \A k \in Host \ {h} : policy'[c][k] = policy[c][k]
        BY <1>1, <2>4, <2>5, TypeParts DEF Adopts
      <3>2. asked' = asked
        BY <2>5 DEF Adopts
      <3>3. Spent(c) \subseteq Spent(c)'
        BY <1>1, <1>3, <2>1, <2>2, <3>1, <3>2, SpentKept
      <3>4. <<i, 2>> \in Spent(c)' /\ <<i, 2>> \notin Spent(c)
        <4>1. <<i, 2>> \in (1..Len(Chain)) \X (1..Items)
          BY <1>2, <2>3, ItemsType
        <4>2. Used(c, h, 2)' /\ ~Used(c, h, 2)
          BY <3>1 DEF Used
        <4> QED BY <2>4, <4>1, <4>2 DEF Spent
      <3> QED BY <1>1, <2>1, <3>3, <3>4, RoundsKept
    <2>6. CASE Refuses(c)
      <3>1. Spent(c)' = Spent(c)
        BY <2>1, <2>6 DEF Spent, Used, Refuses
      <3>2. pc'[c] \notin Paid
        BY <1>1, <2>6 DEF TypeOK, Refuses, Paid
      <3> QED BY <1>1, <2>1, <3>1, <3>2, RoundsKept
    <2>7. CASE Opens(c)
      <3>1. h \notin asked[c] /\ asked'[c] = asked[c] \cup {h}
        BY <1>1, <2>4, <2>7, TypeParts DEF Opens
      <3>2. policy' = policy
        BY <2>7 DEF Opens
      <3>3. Spent(c) \subseteq Spent(c)'
        BY <1>1, <1>3, <2>1, <2>2, <3>1, <3>2, SpentKept
      <3>4. <<i, 1>> \in Spent(c)' /\ <<i, 1>> \notin Spent(c)
        <4>1. <<i, 1>> \in (1..Len(Chain)) \X (1..Items)
          BY <1>2, <2>3, ItemsType
        <4>2. Used(c, h, 1)' /\ ~Used(c, h, 1)
          BY <3>1 DEF Used
        <4> QED BY <2>4, <4>1, <4>2 DEF Spent
      <3> QED BY <1>1, <2>1, <3>3, <3>4, RoundsKept
    <2> QED BY <1>1, <2>5, <2>6, <2>7, ConfirmWays
  <1> QED BY <1>3, <1>4, <1>5, <1>6, <1>7, <1>8, OneMoves

(* The window is answered, or no longer waited for. *)
LEMMA StopWaitingKeeps ==
    ASSUME IInv, NEW c \in Conn, StopWaiting(c)
    PROVE  IInv'
  <1>1. TypeOK /\ PinsOK /\ LoginsOnlyToPinned /\ PlaceOK(c) /\ RoundsOK(c)
        /\ \A h \in Host : PasswordOK(c, h)
    BY DEF IInv, ConnOK
  <1>2. H(c) \in Host /\ at[c] \in 1..Len(Chain)
    BY <1>1, HopType
  <1>3. TypeOK'
    BY <1>1, <1>2, TypeParts DEF TypeOK, StopWaiting, Goes, Ended, directory, done, auth, hub, hist
  <1>4. Lasting /\ \A d \in Conn \ {c} : Same(d)
    BY <1>1, TypeParts DEF TypeOK, Lasting, Same, StopWaiting, Goes, directory, done, auth, hub,
                hist
  <1>5. PinsOK' /\ LoginsOnlyToPinned'
    BY <1>1, <1>4 DEF PinsOK, LoginsOnlyToPinned, Lasting, StopWaiting, Goes, directory, done,
                auth, hub, hist
  <1>6. PlaceOK(c)'
    <2>1. /\ pc[c] = "window" /\ UNCHANGED <<at, policy, shown, trusts, gaveUp>>
          /\ pc'[c] = "failed" \/ (pc'[c] = "pin" /\ reply[c] = "trust")
      BY <1>1 DEF TypeOK, StopWaiting, Goes, auth
    <2>2. H(c)' = H(c) /\ Question(c)' = Question(c)
      BY <2>1 DEF H, Question
    <2> QED BY <1>1, <2>1, <2>2 DEF PlaceOK
  <1>7. \A h \in Host : PasswordOK(c, h)'
    <2>1. pc'[c] # "askPassword" /\ pc[c] \notin Ended /\ pc[c] # "askPassword"
      BY <1>1 DEF TypeOK, StopWaiting, Goes, Ended
    <2> QED BY <1>1, <2>1 DEF PasswordOK, AskingNow, StopWaiting, directory, done, auth, hub, hist
  <1>8. RoundsOK(c)'
    <2>1. Spent(c)' = Spent(c)
      BY DEF Spent, Used, StopWaiting, Goes, directory, done, auth, hub, hist
    <2> QED BY <1>1, <2>1, SpentBounded DEF TypeOK, RoundsOK, Paid, StopWaiting, Goes, directory,
                done, auth, hub, hist
  <1> QED BY <1>3, <1>4, <1>5, <1>6, <1>7, <1>8, OneMoves

(* The pin is written, over the pin that was shown. *)
LEMMA PinConfirmedKeeps ==
    ASSUME IInv, NEW c \in Conn, PinConfirmed(c)
    PROVE  IInv'
  <1>1. TypeOK /\ PinsOK /\ LoginsOnlyToPinned /\ PlaceOK(c) /\ RoundsOK(c)
        /\ \A h \in Host : PasswordOK(c, h)
    BY DEF IInv, ConnOK
  <1>2. H(c) \in Host /\ at[c] \in 1..Len(Chain)
    BY <1>1, HopType
  <1>3. TypeOK'
    <2>1. pc[c] = "pin" /\ shown[c].key \in Key
      BY <1>1 DEF PlaceOK, PinConfirmed
    <2>2. \/ pins' = pins /\ ever' = ever /\ policy' = policy /\ restricted' = restricted
          \/ /\ pins' = [pins EXCEPT ![H(c)] = shown[c].key]
             /\ ever' = [ever EXCEPT ![H(c)] = ever[H(c)] \cup {shown[c].key}]
             /\ policy' = [policy EXCEPT ![c][H(c)] = shown[c].key]
             /\ restricted' = [restricted EXCEPT ![c][H(c)] = shown[c].key]
      BY DEF PinConfirmed, Set
    <2>3. pins \in [Host -> PinOrNone] /\ ever \in [Host -> SUBSET Key]
      BY <1>1 DEF TypeOK
    <2>4. pins' \in [Host -> PinOrNone] /\ ever' \in [Host -> SUBSET Key]
      BY <1>2, <2>1, <2>2, <2>3 DEF PinOrNone
    <2>5. shown[c].key \in PinOrNone
      BY <2>1 DEF PinOrNone
    <2>6. policy' \in [Conn -> [Host -> PinOrNone]] /\ restricted' \in [Conn -> [Host -> PinOrNone]]
      <3>1. /\ [policy EXCEPT ![c][H(c)] = shown[c].key] \in [Conn -> [Host -> PinOrNone]]
            /\ [restricted EXCEPT ![c][H(c)] = shown[c].key] \in [Conn -> [Host -> PinOrNone]]
        BY <1>1, <1>2, <2>5, TypeParts
      <3> QED BY <1>1, <2>2, <3>1, TypeParts
    <2>7. {policy', restricted'} \subseteq [Conn -> [Host -> PinOrNone]]
      BY <2>6
    <2>8. pc' = [pc EXCEPT ![c] = "round"] \/ pc' = [pc EXCEPT ![c] = "failed"]
      BY DEF PinConfirmed, Goes
    <2>9. /\ pc' \in [Conn -> Ended \cup {"new", "round", "hop", "handshake", "login", "askPassword",
                                         "confirm", "window", "pin"}]
          /\ listed \subseteq {d \in Conn : pc'[d] = "window"}
      BY <1>1, <2>1, <2>8 DEF TypeOK, Ended
    <2>10. UNCHANGED <<forgets, cancel, at, rounds, done, auth, shown, hub, hist>>
      BY DEF PinConfirmed
    <2> QED BY <1>1, <2>4, <2>7, <2>9, <2>10 DEF TypeOK, done, auth, hub, hist
  <1>4. Lasting /\ \A d \in Conn \ {c} : Same(d)
    <2>1. UNCHANGED <<forgets, cancel, at, rounds, done, auth, shown, hub, hist>>
      BY DEF PinConfirmed
    <2>2. \A d \in Conn \ {c} : pc'[d] = pc[d] /\ policy'[d] = policy[d]
      BY <1>1, TypeParts DEF TypeOK, PinConfirmed, Goes, Set
    <2>3. \A h \in Host : ever[h] \subseteq ever'[h]
      <3>1. ever' = ever \/ ever' = [ever EXCEPT ![H(c)] = ever[H(c)] \cup {shown[c].key}]
        BY DEF PinConfirmed
      <3>2. ever \in [Host -> SUBSET Key]
        BY <1>1 DEF TypeOK
      <3> QED BY <1>2, <3>1, <3>2
    <2> QED BY <2>1, <2>2, <2>3 DEF Lasting, Same, done, auth, hub, hist
  <1>5. PinsOK' /\ LoginsOnlyToPinned'
    <2>1. logins' = logins
      BY DEF PinConfirmed, hist
    <2>2. LoginsOnlyToPinned'
      BY <1>1, <1>4, <2>1 DEF TypeOK, LoginsOnlyToPinned, Lasting
    <2>3. PinsOK'
      BY <1>1, <1>2 DEF TypeOK, PinsOK, PinConfirmed
    <2> QED BY <2>2, <2>3
  <1>6. PlaceOK(c)'
    <2>1. pc'[c] \in {"round", "failed"}
      BY <1>1 DEF TypeOK, PinConfirmed, Goes
    <2> QED BY <2>1 DEF PlaceOK
  <1>7. \A h \in Host : PasswordOK(c, h)'
    <2>1. pc'[c] # "askPassword" /\ pc[c] \notin Ended /\ pc[c] # "askPassword"
      BY <1>1 DEF TypeOK, PinConfirmed, Goes, Ended
    <2>2. \A h \in Host : policy'[c][h] # None => policy'[c][h] \in ever'[h]
      <3>1. \A h \in Host : policy[c][h] # None => policy[c][h] \in ever'[h]
        BY <1>1, <1>4 DEF PasswordOK, Lasting
      <3>2. policy' = policy \/ (/\ policy' = [policy EXCEPT ![c][H(c)] = shown[c].key]
                                 /\ ever' = [ever EXCEPT ![H(c)] = ever[H(c)] \cup {shown[c].key}])
        BY DEF PinConfirmed, Set
      <3>3. policy' # policy => shown[c].key \in ever'[H(c)]
        BY <1>1, <1>2, <3>2 DEF TypeOK
      <3>4. CASE policy' = policy
        BY <3>1, <3>4
      <3>5. CASE policy' # policy
        <4>1. /\ policy'[c][H(c)] = shown[c].key
              /\ \A h \in Host \ {H(c)} : policy'[c][h] = policy[c][h]
          BY <1>1, <1>2, <3>2, <3>5, TypeParts
        <4> QED BY <3>1, <3>3, <3>5, <4>1
      <3> QED BY <3>4, <3>5
    <2>3. UNCHANGED <<done, auth, hist>>
      BY DEF PinConfirmed
    <2> QED BY <1>1, <2>1, <2>2, <2>3 DEF PasswordOK, AskingNow, done, auth, hist
  <1>8. RoundsOK(c)'
    <2>1. asked' = asked /\ freed' = freed /\ count' = count /\ rounds' = rounds
          /\ pc[c] \in Paid
      BY DEF PinConfirmed, Paid, done
    <2>2. \A h \in Host : count[c][h] \in Nat
      BY <1>1, TypeParts DEF TypeOK
    <2>3. \A h \in Host : policy[c][h] # None => policy'[c][h] # None
      <3>1. shown[c].key # None
        BY <1>1, ConnectAssumption DEF PlaceOK, PinConfirmed
      <3>2. policy' = policy \/ policy' = [policy EXCEPT ![c][H(c)] = shown[c].key]
        BY DEF PinConfirmed, Set
      <3> QED BY <1>1, <1>2, <3>1, <3>2, TypeParts
    <2>4. Spent(c) \subseteq Spent(c)'
      BY <1>1, <1>3, <2>1, <2>2, <2>3, SpentKept
    <2> QED BY <1>1, <2>1, <2>4, RoundsKept
  <1> QED BY <1>3, <1>4, <1>5, <1>6, <1>7, <1>8, OneMoves

(* The person trusts the key that is shown. *)
LEMMA TrustKeeps ==
    ASSUME IInv, NEW c \in Conn, Trust(c)
    PROVE  IInv'
  <1>1. TypeOK /\ PinsOK /\ LoginsOnlyToPinned /\ PlaceOK(c) /\ RoundsOK(c)
        /\ \A h \in Host : PasswordOK(c, h)
    BY DEF IInv, ConnOK
  <1>2. H(c) \in Host /\ at[c] \in 1..Len(Chain)
    BY <1>1, HopType
  <1>3. TypeOK'
    <2>1. trusts' \subseteq [conn : Conn, host : Host, key : PinOrNone, was : PinOrNone]
      <3>1. shown[c].key \in PinOrNone /\ shown[c].was \in PinOrNone
        BY <1>1 DEF TypeOK
      <3>2. [conn |-> c, host |-> H(c), key |-> shown[c].key, was |-> shown[c].was]
               \in [conn : Conn, host : Host, key : PinOrNone, was : PinOrNone]
        BY <1>2, <3>1
      <3> QED BY <1>1, <3>2 DEF TypeOK, Trust
    <2> QED BY <1>1, <2>1 DEF TypeOK, Trust, directory, done, auth, hub, hist
  <1>4. Lasting /\ \A d \in Conn \ {c} : Same(d)
    BY <1>1, TypeParts DEF TypeOK, Lasting, Same, Trust, directory, done, auth, hub, hist
  <1>5. PinsOK' /\ LoginsOnlyToPinned'
    BY <1>1, <1>4 DEF PinsOK, LoginsOnlyToPinned, Lasting, Trust, directory, done, auth, hub, hist
  <1>6. PlaceOK(c)'
    <2>1. pc' = pc /\ at' = at /\ shown' = shown /\ policy' = policy /\ gaveUp' = gaveUp
          /\ count' = count /\ ever' = ever /\ Question(c) \in trusts' /\ rounds' = rounds
      BY DEF Trust, Question, directory, done, auth
    <2>2. H(c)' = H(c) /\ Question(c)' = Question(c)
      BY <2>1 DEF H, Question
    <2> QED BY <1>1, <2>1, <2>2 DEF PlaceOK
  <1>7. \A h \in Host : PasswordOK(c, h)'
    BY <1>1 DEF PasswordOK, AskingNow, H, Trust, directory, done, auth, hub, hist
  <1>8. RoundsOK(c)'
    <2>1. Spent(c)' = Spent(c)
      BY DEF Spent, Used, Trust, directory, done, auth, hub, hist
    <2> QED BY <1>1, <2>1, SpentBounded DEF TypeOK, RoundsOK, Paid, Trust, directory, done, auth,
                hub, hist
  <1> QED BY <1>3, <1>4, <1>5, <1>6, <1>7, <1>8, OneMoves

(* A step that changes no entry of a connection but what was answered. *)
LEMMA AllSame ==
    ASSUME IInv, TypeOK', Lasting, \A d \in Conn : Same(d), PinsOK', LoginsOnlyToPinned'
    PROVE  IInv'
  BY SameKeeps DEF IInv

(* The person forgets a pin. *)
LEMMA ForgetKeeps ==
    ASSUME IInv, NEW h \in Host, Forget(h)
    PROVE  IInv'
  <1>1. TypeOK /\ PinsOK /\ LoginsOnlyToPinned
    BY DEF IInv
  <1>2. pins' \in [Host -> PinOrNone] /\ PinsOK'
    BY <1>1 DEF TypeOK, PinsOK, PinOrNone, Forget
  <1>3. UNCHANGED <<ever, cancel, pc, at, rounds, policy, restricted, done, auth, shown, hub, hist>>
        /\ forgets' = forgets + 1
    BY DEF Forget
  <1>4. TypeOK'
    BY <1>1, <1>2, <1>3 DEF TypeOK, done, auth, hub, hist
  <1>5. Lasting /\ LoginsOnlyToPinned' /\ \A d \in Conn : Same(d)
    BY <1>1, <1>3 DEF Lasting, LoginsOnlyToPinned, Same, done, auth, hub, hist
  <1> QED BY <1>2, <1>4, <1>5, AllSame

(* The window is closed: what was not answered is refused. *)
LEMMA CloseWindowKeeps ==
    ASSUME IInv, CloseWindow
    PROVE  IInv'
  <1>1. TypeOK /\ PinsOK /\ LoginsOnlyToPinned
    BY DEF IInv
  <1>2. UNCHANGED <<directory, cancel, pc, at, rounds, policy, restricted, done, auth, shown,
  trusts, hist>>
    BY DEF CloseWindow
  <1>3. /\ reply' \in [Conn -> {None, "trust", "refuse"}] /\ listed' = {}
        /\ \A d \in Conn : reply'[d] = "trust" => reply[d] = "trust"
    BY <1>1 DEF TypeOK, CloseWindow
  <1>4. TypeOK'
    BY <1>1, <1>2, <1>3 DEF TypeOK, directory, done, auth, hist
  <1>5. Lasting /\ PinsOK' /\ LoginsOnlyToPinned' /\ \A d \in Conn : Same(d)
    BY <1>1, <1>2, <1>3 DEF Lasting, PinsOK, LoginsOnlyToPinned, Same, directory, done, auth, hist
  <1> QED BY <1>4, <1>5, AllSame

-----------------------------------------------------------------------------
(* No connection has started, and nothing is used up or asked. *)
LEMMA InitOK ==
    Init => IInv
  <1> SUFFICES ASSUME Init PROVE IInv
    OBVIOUS
  <1>1. 1 \in DOMAIN Chain /\ NoEntry \in Nat /\ NoEntry \in 1..NoEntry /\ Rounds \in Nat
    <2>1. Len(Chain) \in Nat /\ Prompts \in Nat /\ 1 \in DOMAIN Chain
      BY ConnectAssumption
    <2> QED BY <2>1 DEF NoEntry, Rounds
  <1>2. /\ ever \in [Host -> SUBSET Key] /\ PinsOK
    BY DEF Init, PinOrNone, PinsOK
  <1>3. /\ policy \in [Conn -> [Host -> PinOrNone]] /\ restricted = policy
        /\ gave \in [Conn -> [Host -> {None, "typed", "keychain"}]]
    BY DEF Init, PinOrNone
  <1>4. /\ asked \in [Conn -> SUBSET Host] /\ freed = asked /\ typed = asked /\ gaveUp = asked
    BY DEF Init
  <1>5. windows \in [Conn -> [Host -> Nat]] /\ questions = windows
    BY DEF Init
  <1>6. /\ rounds \in [Conn -> 0..Rounds] /\ count \in [Conn -> [Host -> 1..NoEntry]]
        /\ first \in [Conn -> [Host -> {"key", "password", "interactive"}]]
    BY <1>1, ConnectAssumption DEF Init
  <1>7. shown \in [Conn -> [key : PinOrNone, was : PinOrNone]]
    BY DEF Init, Nothing, PinOrNone
  <1>8. TypeOK
    BY <1>1, <1>2, <1>3, <1>4, <1>5, <1>6, <1>7 DEF Init, TypeOK, Ended
  <1>9. ASSUME NEW c \in Conn PROVE ConnOK(c)
    <2>1. pc[c] = "new" /\ gaveUp[c] = {} /\ typed[c] = {} /\ asked[c] = {} /\ rounds[c] = 0
      BY DEF Init
    <2>2. \A h \in Host : /\ windows[c][h] = 0 /\ questions[c][h] = 0 /\ policy[c][h] = None
                          /\ count[c][h] = NoEntry
      BY DEF Init
    <2>3. PlaceOK(c)
      BY <2>1 DEF PlaceOK
    <2>4. RoundsOK(c)
      BY <2>1, SpentBounded DEF RoundsOK, Paid
    <2> QED BY <2>1, <2>2, <2>3, <2>4 DEF ConnOK, PasswordOK
  <1>10. LoginsOnlyToPinned
    BY DEF Init, LoginsOnlyToPinned
  <1> QED BY <1>2, <1>8, <1>9, <1>10 DEF IInv

LEMMA NextOK ==
    IInv /\ [Next]_vars => IInv'
  <1> SUFFICES ASSUME IInv, [Next]_vars PROVE IInv'
    OBVIOUS
  <1>1. ASSUME NEW c \in Conn, Step(c) PROVE IInv'
    BY <1>1, ResolveKeeps, RoundKeeps, PrefetchKeeps, NoCommonTypeKeeps, UnreachableKeeps,
                LoginOKKeeps,
       LoginRefusedKeeps, AskPasswordKeeps, ConfirmKeeps, StopWaitingKeeps, PinConfirmedKeeps,
       HandshakeKeeps DEF Step
  <1>2. CASE UNCHANGED vars
    <2>1. TypeOK' /\ PinsOK' /\ LoginsOnlyToPinned'
      BY <1>2 DEF IInv, TypeOK, PinsOK, LoginsOnlyToPinned, vars, directory, done, auth, hub, hist
    <2>2. Lasting /\ \A d \in Conn : Same(d)
      BY <1>2 DEF Lasting, Same, vars, directory, done, auth, hub, hist
    <2> QED BY <2>1, <2>2, AllSame
  <1> QED BY <1>1, <1>2, TrustKeeps, CancelKeeps, ForgetKeeps, CloseWindowKeeps DEF Next

(* The invariant of the connects holds in every state. *)
THEOREM Invariance == Spec => []IInv
  BY InitOK, NextOK, PTL DEF Spec

(* A login goes only to a server whose key is or was on record; a host key *)
(* is asked about once and a password Prompts times, per host and connect; *)
(* and connect_within() never ends because it reached round_limit(): for   *)
(* any number of connections, hops, keys and prompts.                      *)
THEOREM Bounded == Spec => []ConnectBounded
  <1>1. IInv => ConnectBounded
    <2> SUFFICES ASSUME IInv PROVE ConnectBounded
      OBVIOUS
    <2>1. TypeOK /\ LoginsOnlyToPinned /\ NetUnused
      BY DEF IInv, ConnOK, PlaceOK, NetUnused
    <2>2. ASSUME NEW c \in Conn, NEW h \in Host
          PROVE  windows[c][h] <= 1 /\ questions[c][h] <= Prompts
      <3>1. PasswordOK(c, h)
        BY DEF IInv, ConnOK
      <3>2. /\ count[c][h] \in 1..NoEntry /\ questions[c][h] \in Nat /\ Prompts \in Nat \ {0}
            /\ NoEntry = Prompts + 1
        BY <2>1, TypeParts, ConnectAssumption DEF TypeOK, NoEntry
      <3> QED BY <3>1, <3>2 DEF PasswordOK
    <2> QED BY <2>1, <2>2 DEF ConnectBounded, AskedSeldom
  <1> QED BY <1>1, Invariance, PTL

-----------------------------------------------------------------------------
(* What a step of one connection does to the pins: the only step that      *)
(* writes one is pin_confirmed(), for what was trusted in its window.      *)
LEMMA PinStepHolds ==
    ASSUME IInv, [Next]_vars
    PROVE  PinStep
  <1>1. TypeOK
    BY DEF IInv
  <1>2. CASE pins' = pins
    BY <1>2 DEF PinStep
  <1>3. ASSUME NEW k \in Host, Forget(k) PROVE PinStep
    BY <1>1, <1>3 DEF TypeOK, PinStep, Forget
  <1>4. ASSUME NEW c \in Conn, PinConfirmed(c) PROVE PinStep
    <2>1. PlaceOK(c) /\ H(c) \in Host
      BY <1>1, HopType DEF IInv, ConnOK
    <2>2. pc[c] = "pin" /\ Question(c) \in trusts /\ pc'[c] # "pin"
      BY <1>1, <1>4, <2>1 DEF TypeOK, PlaceOK, PinConfirmed, Goes
    <2>3. CASE pins' # pins
      <3>1. pins[H(c)] \in {shown[c].key, shown[c].was}
            /\ pins' = [pins EXCEPT ![H(c)] = shown[c].key]
        BY <1>4, <2>3 DEF PinConfirmed
      <3>2. /\ pins'[H(c)] = shown[c].key
            /\ \A k \in Host \ {H(c)} : pins'[k] = pins[k]
        BY <1>1, <2>1, <3>1 DEF TypeOK
      <3>3. ASSUME NEW k \in Host, pins'[k] \notin {pins[k], None}
            PROVE  k = H(c)
                   /\ [conn |-> c, host |-> k, key |-> pins'[k], was |-> pins[k]] = Question(c)
        <4>1. k = H(c)
          BY <3>2, <3>3
        <4>2. pins[k] = shown[c].was /\ pins'[k] = shown[c].key
          BY <3>1, <3>2, <3>3, <4>1
        <4> QED BY <4>1, <4>2 DEF Question
      <3> QED BY <2>2, <3>3 DEF PinStep
    <2> QED BY <1>2, <2>3
  <1>5. CASE UNCHANGED vars
    BY <1>2, <1>5 DEF vars, directory
  <1>6. ASSUME NEW c \in Conn, Step(c) PROVE PinStep
    BY <1>2, <1>4, <1>6
    DEF Step, Resolve, Round, Prefetch, NoCommonType, Unreachable, LoginOK, LoginRefused,
    AskPassword,
        Confirm, StopWaiting, Handshake, directory
  <1>7. ASSUME NEW c \in Conn, Trust(c) \/ Cancel(c) PROVE PinStep
    BY <1>2, <1>7 DEF Trust, Cancel, directory
  <1>8. CASE CloseWindow
    BY <1>2, <1>8 DEF CloseWindow, directory
  <1> QED BY <1>3, <1>5, <1>6, <1>7, <1>8 DEF Next

(* Who gave up a password stays out of everything that asks or pins. *)
Untouched(c, h) ==
    /\ windows'[c][h] = windows[c][h] /\ questions'[c][h] = questions[c][h]
    /\ policy'[c][h] = policy[c][h] /\ typed'[c] \subseteq typed[c] \cup (Host \ {h})

LEMMA GivenUpStepHolds ==
    ASSUME IInv, [Next]_vars
    PROVE  GivenUpStep
  <1>1. TypeOK
    BY DEF IInv
  <1>2. SUFFICES ASSUME NEW d \in Conn, NEW h \in gaveUp[d]
                 PROVE  Untouched(d, h)
    <2>1. \A d \in Conn : \A h \in gaveUp[d] : h \in Host /\ h \notin typed[d]
      BY <1>1, TypeParts DEF IInv, ConnOK, PasswordOK
    <2> QED BY <1>2, <2>1 DEF GivenUpStep, Untouched
  <1>3. h \in Host
    BY <1>1, TypeParts
  <1>4. CASE UNCHANGED <<windows, questions, policy>> /\ typed' = typed
    BY <1>4 DEF Untouched
  <1>5. ASSUME NEW c \in Conn, Step(c) PROVE Untouched(d, h)
    <2>1. H(c) \in Host /\ PlaceOK(c)
      BY <1>1, HopType DEF IInv, ConnOK
    <2>2. CASE Resolve(c)
      <3>1. c # d
        BY <2>1, <2>2 DEF PlaceOK, Resolve
      <3> QED BY <1>1, <2>2, <3>1, TypeParts DEF Untouched, Resolve, auth, hist
    <2>3. CASE Prefetch(c)
      <3>1. c = d /\ h = H(c) => ~Asks(c)
        BY DEF Asks
      <3>2. \/ questions' = questions /\ typed' = typed
            \/ /\ Asks(c) /\ questions' = [questions EXCEPT ![c][H(c)] = @ + 1]
               /\ (typed' = typed \/ typed' = [typed EXCEPT ![c] = @ \cup {H(c)}])
        BY <2>3 DEF Prefetch, Add
      <3>3. windows' = windows /\ policy' = policy
        BY <2>3 DEF Prefetch
      <3>4. questions'[d][h] = questions[d][h]
        BY <1>1, <1>3, <2>1, <3>1, <3>2, TypeParts
      <3>5. typed'[d] \subseteq typed[d] \cup (Host \ {h})
        <4>1. typed' = typed \/ (typed'[c] = typed[c] \cup {H(c)} /\ (c # d => typed'[d] = typed[d]))
          BY <1>1, <3>2, TypeParts
        <4> QED BY <2>1, <3>1, <3>2, <4>1
      <3> QED BY <3>3, <3>4, <3>5 DEF Untouched
    <2>4. CASE LoginRefused(c)
      <3>1. typed'[d] \subseteq typed[d]
        BY <1>1, <2>4, TypeParts DEF LoginRefused
      <3> QED BY <2>4, <3>1 DEF Untouched, LoginRefused
    <2>5. CASE AskPassword(c)
      <3>1. ~(c = d /\ h = H(c))
        BY <2>1, <2>5 DEF PlaceOK, AskPassword
      <3>2. /\ questions' = [questions EXCEPT ![c][H(c)] = @ + 1]
            /\ (typed' = typed \/ typed' = [typed EXCEPT ![c] = @ \cup {H(c)}])
            /\ windows' = windows /\ policy' = policy
        BY <2>5 DEF AskPassword, Add
      <3>3. questions'[d][h] = questions[d][h]
        BY <1>1, <1>3, <2>1, <3>1, <3>2, TypeParts
      <3>4. typed'[d] \subseteq typed[d] \cup (Host \ {h})
        <4>1. typed' = typed \/ (typed'[c] = typed[c] \cup {H(c)} /\ (c # d => typed'[d] = typed[d]))
          BY <1>1, <3>2, TypeParts
        <4> QED BY <2>1, <3>1, <4>1
      <3> QED BY <3>2, <3>3, <3>4 DEF Untouched
    <2>6. CASE Confirm(c)
      <3>1. ~(c = d /\ h = H(c))
        BY <2>1, <2>6, ConfirmWays
      <3>2. \/ windows' = windows /\ policy' = policy
            \/ windows' = windows /\ policy' = [policy EXCEPT ![c][H(c)] = pins[H(c)]]
            \/ windows' = [windows EXCEPT ![c][H(c)] = windows[c][H(c)] + 1] /\ policy' = policy
        BY <2>1, <2>6, ConfirmWays DEF Adopts, Refuses, Opens
      <3>3. questions' = questions /\ typed' = typed
        BY <2>6 DEF Confirm, auth
      <3>4. windows'[d][h] = windows[d][h] /\ policy'[d][h] = policy[d][h]
        BY <1>1, <1>3, <2>1, <3>1, <3>2, TypeParts
      <3> QED BY <3>3, <3>4 DEF Untouched
    <2>7. CASE PinConfirmed(c)
      <3>1. ~(c = d /\ h = H(c))
        BY <2>1, <2>7 DEF PlaceOK, PinConfirmed
      <3>2. /\ (policy' = policy \/ policy' = [policy EXCEPT ![c][H(c)] = shown[c].key])
            /\ windows' = windows /\ questions' = questions /\ typed' = typed
        BY <2>7 DEF PinConfirmed, Set, auth, hist
      <3>3. policy'[d][h] = policy[d][h]
        <4>1. policy \in [Conn -> [Host -> PinOrNone]]
          BY <1>1, TypeParts
        <4>2. [policy EXCEPT ![c][H(c)] = shown[c].key][d][h] = policy[d][h]
          BY <1>3, <2>1, <3>1, <4>1
        <4> QED BY <3>2, <4>2
      <3> QED BY <3>2, <3>3 DEF Untouched
    <2>8. CASE \/ Round(c) \/ NoCommonType(c) \/ Unreachable(c) \/ LoginOK(c) \/ StopWaiting(c)
               \/ \E k \in Key : Handshake(c, k)
      BY <1>4, <2>8 DEF Round, NoCommonType, Unreachable, LoginOK, StopWaiting, Handshake, auth,
                hist
    <2> QED BY <1>5, <2>2, <2>3, <2>4, <2>5, <2>6, <2>7, <2>8 DEF Step
  <1>6. ASSUME NEW c \in Conn, Trust(c) \/ Cancel(c) PROVE Untouched(d, h)
    BY <1>4, <1>6 DEF Trust, Cancel, auth, hist
  <1>7. ASSUME NEW k \in Host, Forget(k) PROVE Untouched(d, h)
    BY <1>4, <1>7 DEF Forget, auth, hist
  <1>8. CASE CloseWindow
    BY <1>4, <1>8 DEF CloseWindow, auth, hist
  <1>9. CASE UNCHANGED vars
    BY <1>4, <1>9 DEF vars, auth, hist
  <1> QED BY <1>5, <1>6, <1>7, <1>8, <1>9 DEF Next

(* A pin is written only by pin_confirmed(), for the key that the person   *)
(* trusted in this connection's window and over the pin that window        *)
(* showed; and once the password of a hop was given up nothing more is     *)
(* asked about it or pinned for it.                                        *)
THEOREM Confirmed == Spec => PinsAreConfirmed
  <1>1. IInv /\ [Next]_vars => [PinStep /\ GivenUpStep]_vars
    BY PinStepHolds, GivenUpStepHolds
  <1> QED BY <1>1, Invariance, PTL DEF Spec, PinsAreConfirmed

-----------------------------------------------------------------------------
(* The broker.                                                             *)

Message == {"question", "opened", "error", "quit", "lost", "exited"}
Entries == [state : {"none", "connecting", "open"}, told : {"no", "session", "end_all"}]

(* Where a worker is before and after its session is in the table as open. *)
Before == {"connecting", "asking", "waiting", "connected", "failed", "telling"}
Inside == {"promoted", "opening", "opened", "sizing", "running", "ended"}
Telling == {"cancel", "say", "hangup", "remove"}
ShellStates == {"none", "open", "closed", "exited", "dropped", "refused"}

Types ==
    /\ entry \in [Session -> Entries] /\ quitting \in BOOLEAN
    /\ job \in [Job -> {"new", "running", "over"}] /\ jobCancel \in [Job -> BOOLEAN]
    /\ reader \in [Session -> {"new", "serving", "leaving", "gone", "done"}]
    /\ worker \in [Session -> {"none", "over", "done"} \cup Before \cup Inside]
    /\ teller \in [Session -> {"none", "done"} \cup Telling]
    /\ ender \in [Session -> {"none", "end", "close", "done"}]
    /\ endAll \in {"no", "waiting", "returned", "timedout"}
    /\ present \in [Session -> BOOLEAN] /\ token \in [Session -> BOOLEAN]
    /\ waiting \in [Session -> BOOLEAN] /\ ownerGone \in [Session -> BOOLEAN]
    /\ gone \in [Session -> BOOLEAN] /\ quitReason \in [Session -> BOOLEAN]
    /\ shell \in [Session -> ShellStates]
    /\ closers \in [Session -> SUBSET {"reader", "scope", "quit"}]
    /\ printed \in [Session -> BOOLEAN] /\ settled \in [Session -> BOOLEAN]
    /\ ended \in [Session -> BOOLEAN] /\ forwarding \in [Session -> BOOLEAN]
    /\ size \in [Session -> Nat] /\ ptySize \in [Session -> Nat] /\ shellSize \in [Session -> Nat]
    /\ said \in [Session -> Seq(Message)] /\ hungup \in [Session -> BOOLEAN]
    /\ asks \in [Session -> Nat]

(* Told how it ended, or not there to be told. *)
Told(s) == Broker!Finished(s) \/ ~present[s]

(* A session is in the table until whoever tells the client has told it.   *)
EntryOK(s) ==
    /\ entry[s].state \in {"none", "open"} => entry[s].told = "no"
    /\ worker[s] \in Inside => entry[s].state = "open"
    /\ entry[s].state = "open" => worker[s] \in Inside \cup {"over"}
    /\ entry[s].told = "session" => worker[s] \in {"telling", "over"}
    /\ worker[s] = "none" => ~Broker!Entered(s)
    /\ worker[s] # "none" /\ ~Broker!Entered(s) => Told(s) /\ hungup[s]
    /\ worker[s] = "over" /\ Broker!Entered(s) /\ entry[s].told # "end_all" => Told(s)
    /\ reader[s] = "new" => worker[s] = "none" /\ said[s] = <<>>

(* end_all()'s thread has a session of its own to tell.                    *)
TellerOK(s) ==
    /\ teller[s] \in Telling <=> entry[s].told = "end_all"
    /\ teller[s] # "none" => worker[s] # "none" /\ entry[s].state # "open"
    /\ teller[s] = "done" => ~Broker!Entered(s)
    /\ teller[s] \in {"hangup", "remove"} => Told(s)
    /\ teller[s] = "remove" => hungup[s]

(* Who is gone has left or was hung up on, and nobody is hung up on before *)
(* being told; no shell is being set up for a client that has been told.   *)
ClientOK(s) ==
    /\ hungup[s] => Told(s)
    /\ gone[s] \/ reader[s] \in {"leaving", "gone"} => ~present[s] \/ hungup[s]
    /\ token[s] => ~present[s] \/ hungup[s] \/ teller[s] # "none"
    /\ worker[s] \in Inside => ~Broker!Finished(s)
    /\ worker[s] \in Before /\ teller[s] = "none" => ~Broker!Finished(s)

SaidOK(s) ==
    \A i \in 1..Len(said[s]) :
        /\ said[s][i] = "exited" => i = Len(said[s])
        /\ said[s][i] \in {"error", "quit", "lost"} =>
              i = Len(said[s]) - 1 /\ said[s][i + 1] = "exited"

ShellOK(s) ==
    /\ shell[s] = "closed" => printed[s] \/ settled[s]
    /\ forwarding[s] => worker[s] \in {"sizing", "running", "ended", "over", "done"}
    /\ worker[s] \in {"opened", "sizing", "running"} => shell[s] # "none"
    /\ worker[s] = "running" /\ forwarding[s] => shellSize[s] = size[s]

SessionOK(s) == EntryOK(s) /\ TellerOK(s) /\ ClientOK(s) /\ SaidOK(s) /\ ShellOK(s)

BrokerInv ==
    /\ Types
    /\ \A s \in Session : SessionOK(s)
    /\ Broker!JobsCancelled
    /\ endAll = "returned" => \A s \in Session : ~Broker!Entered(s)

-----------------------------------------------------------------------------
(* What a message written to a client makes of what was written.           *)

Endings == {<<"exited">>, <<"error", "exited">>, <<"quit", "exited">>, <<"lost", "exited">>}
Notices == {<<"question">>, <<"opened">>}

(* The part of the state a session's invariant is about.                   *)
BrokerSame(t) ==
    /\ entry'[t] = entry[t] /\ reader'[t] = reader[t] /\ worker'[t] = worker[t]
    /\ teller'[t] = teller[t] /\ present'[t] = present[t] /\ token'[t] = token[t]
    /\ gone'[t] = gone[t] /\ shell'[t] = shell[t] /\ printed'[t] = printed[t]
    /\ settled'[t] = settled[t] /\ forwarding'[t] = forwarding[t] /\ size'[t] = size[t]
    /\ shellSize'[t] = shellSize[t] /\ said'[t] = said[t] /\ hungup'[t] = hungup[t]

(* Whether a client has been told depends on what was written to it.       *)
LEMMA FinishedSame ==
    ASSUME NEW t, said'[t] = said[t] PROVE Broker!Finished(t)' <=> Broker!Finished(t)
BY DEF Broker!Finished, Broker!Contains

(* The same of the well-formedness of what was written.                    *)
LEMMA SaidSame ==
    ASSUME NEW t, said'[t] = said[t], SaidOK(t) PROVE SaidOK(t)'
BY DEF SaidOK

(* A session a step does not touch stays as it should be.                  *)
LEMMA BrokerUntouched ==
    ASSUME NEW t, SessionOK(t), BrokerSame(t) PROVE SessionOK(t)'
<1>1. Broker!Finished(t)' <=> Broker!Finished(t)  BY FinishedSame DEF BrokerSame
<1>2. SaidOK(t)'  BY SaidSame DEF BrokerSame, SessionOK
<1>3. Told(t)' <=> Told(t)  BY <1>1 DEF Told, BrokerSame
<1>4. Broker!Entered(t)' <=> Broker!Entered(t)  BY DEF Broker!Entered, BrokerSame
<1>5. EntryOK(t)'  BY <1>3, <1>4 DEF EntryOK, SessionOK, BrokerSame
<1>6. TellerOK(t)'  BY <1>3, <1>4 DEF TellerOK, SessionOK, BrokerSame
<1>7. ClientOK(t)'  BY <1>1, <1>3 DEF ClientOK, SessionOK, BrokerSame
<1>8. ShellOK(t)'  BY DEF ShellOK, SessionOK, BrokerSame
<1> QED  BY <1>2, <1>5, <1>6, <1>7, <1>8 DEF SessionOK

(* An ending is written whole, once, and last.                             *)
LEMMA EndingWritten ==
    ASSUME NEW q \in Seq(Message), NEW m \in Endings, ~Broker!Contains(q, "exited"),
           \A i \in 1..Len(q) : q[i] \notin {"error", "quit", "lost", "exited"}
    PROVE  /\ q \o m \in Seq(Message) /\ Broker!Contains(q \o m, "exited")
           /\ \A i \in 1..Len(q \o m) :
                 /\ (q \o m)[i] = "exited" => i = Len(q \o m)
                 /\ (q \o m)[i] \in {"error", "quit", "lost"} =>
                       i = Len(q \o m) - 1 /\ (q \o m)[i + 1] = "exited"
<1> DEFINE r == q \o m
<1>1. m \in Seq(Message) /\ Len(m) \in {1, 2} /\ m[Len(m)] = "exited"
  <2>1. {"exited", "error", "quit", "lost"} \subseteq Message  BY DEF Message
  <2>2. CASE m = <<"exited">>  BY <2>1, <2>2
  <2>3. CASE \E x \in {"error", "quit", "lost"} : m = <<x, "exited">>  BY <2>1, <2>3
  <2> QED  BY <2>2, <2>3 DEF Endings
<1>2. Len(m) = 2 => m[1] \in {"error", "quit", "lost"}  BY DEF Endings
<1>3. r \in Seq(Message) /\ Len(r) = Len(q) + Len(m)  BY <1>1
<1>4. \A i \in 1..Len(r) : r[i] = IF i <= Len(q) THEN q[i] ELSE m[i - Len(q)]  BY <1>1
<1>5. Len(q) \in Nat /\ Len(r) \in Nat  BY <1>3
<1>6. r[Len(r)] = "exited"
  <2>1. Len(r) \in 1..Len(r) /\ ~(Len(r) <= Len(q)) /\ Len(r) - Len(q) = Len(m)
    BY <1>1, <1>3, <1>5
  <2> QED  BY <2>1, <1>1, <1>4
<1>7. Broker!Contains(r, "exited")
  <2>1. Len(r) \in 1..Len(r)  BY <1>1, <1>3, <1>5
  <2> QED  BY <2>1, <1>6 DEF Broker!Contains
<1>8. ASSUME NEW i \in 1..Len(r)
      PROVE  /\ r[i] = "exited" => i = Len(r)
             /\ r[i] \in {"error", "quit", "lost"} => i = Len(r) - 1 /\ r[i + 1] = "exited"
  <2>1. CASE i <= Len(q)
    <3>1. i \in 1..Len(q) /\ r[i] = q[i]  BY <2>1, <1>4, <1>5
    <3> QED  BY <3>1
  <2>2. CASE i > Len(q) /\ i = Len(r)
    BY <2>2, <1>6
  <2>3. CASE i > Len(q) /\ i # Len(r)
    <3>1. Len(m) = 2 /\ i = Len(r) - 1 /\ i = Len(q) + 1  BY <2>3, <1>1, <1>3, <1>5
    <3>2. r[i] = m[1]  BY <3>1, <1>4, <1>5
    <3>3. r[i + 1] = "exited"  BY <3>1, <1>6, <1>5
    <3> QED  BY <3>1, <3>2, <3>3, <1>2
  <2> QED  BY <2>1, <2>2, <2>3, <1>5
<1> HIDE DEF r
<1>9. /\ r \in Seq(Message) /\ Broker!Contains(r, "exited")
      /\ \A i \in 1..Len(r) :
            /\ r[i] = "exited" => i = Len(r)
            /\ r[i] \in {"error", "quit", "lost"} => i = Len(r) - 1 /\ r[i + 1] = "exited"
  BY <1>3, <1>7, <1>8
<1> QED  BY <1>9 DEF r

(* A notice ends nothing.                                                  *)
LEMMA NoticeWritten ==
    ASSUME NEW q \in Seq(Message), NEW m \in Notices,
           \A i \in 1..Len(q) : q[i] \notin {"error", "quit", "lost", "exited"}
    PROVE  /\ q \o m \in Seq(Message)
           /\ \A i \in 1..Len(q \o m) : (q \o m)[i] \notin {"error", "quit", "lost", "exited"}
<1> DEFINE r == q \o m
<1>1. m \in Seq(Message) /\ Len(m) = 1 /\ m[1] \in {"question", "opened"}
  <2>1. PICK x \in {"question", "opened"} : m = <<x>>  BY DEF Notices
  <2>2. x \in Message  BY DEF Message
  <2> QED  BY <2>1, <2>2
<1>2. r \in Seq(Message) /\ Len(r) = Len(q) + 1
  <2>1. m \in Seq(Message)  BY <1>1
  <2>2. r \in Seq(Message) /\ Len(r) = Len(q) + Len(m)  BY <2>1
  <2> QED  BY <2>2, <1>1
<1>3. \A i \in 1..Len(r) : r[i] = IF i <= Len(q) THEN q[i] ELSE m[i - Len(q)]  BY <1>1
<1>4. ASSUME NEW i \in 1..Len(r) PROVE r[i] \notin {"error", "quit", "lost", "exited"}
  <2>1. CASE i <= Len(q)
    <3>1. i \in 1..Len(q) /\ r[i] = q[i]  BY <2>1, <1>3
    <3> QED  BY <3>1
  <2>2. CASE i > Len(q)
    <3>1. i = Len(q) + 1  BY <2>2, <1>2
    <3>2. r[i] = m[1]  BY <3>1, <1>3
    <3> QED  BY <3>2, <1>1
  <2> QED  BY <2>1, <2>2
<1> QED  BY <1>2, <1>4

(* A client that has not been told has been written notices only.          *)
LEMMA OnlyNotices ==
    ASSUME NEW t, SaidOK(t), ~Broker!Finished(t), said[t] \in Seq(Message)
    PROVE  \A i \in 1..Len(said[t]) : said[t][i] \notin {"error", "quit", "lost", "exited"}
<1> SUFFICES ASSUME NEW i \in 1..Len(said[t])
             PROVE  said[t][i] \notin {"error", "quit", "lost", "exited"}
  OBVIOUS
<1>1. said[t][i] # "exited"  BY DEF Broker!Finished, Broker!Contains
<1>2. ASSUME said[t][i] \in {"error", "quit", "lost"} PROVE FALSE
  <2>1. i = Len(said[t]) - 1 /\ said[t][i + 1] = "exited"  BY <1>2 DEF SaidOK
  <2>2. i + 1 \in 1..Len(said[t])  BY <2>1
  <2> QED  BY <2>1, <2>2 DEF Broker!Finished, Broker!Contains
<1> QED  BY <1>1, <1>2

(* What saying an ending leaves: the client has been told, or hung up on.  *)
LEMMA SayEnding ==
    ASSUME NEW t \in Session, NEW m \in Endings, said \in [Session -> Seq(Message)], SaidOK(t),
           Broker!Say(t, m)
    PROVE  /\ said' \in [Session -> Seq(Message)] /\ SaidOK(t)'
           /\ \A u \in Session : u # t => said'[u] = said[u]
           /\ Broker!Finished(t)' \/ (hungup[t] /\ said' = said)
           /\ Broker!Finished(t) => Broker!Finished(t)'
<1>1. CASE Broker!Finished(t) \/ hungup[t]
  <2>1. said' = said  BY <1>1 DEF Broker!Say
  <2>2. Broker!Finished(t)' <=> Broker!Finished(t)  BY <2>1, FinishedSame
  <2> QED  BY <1>1, <2>1, <2>2, SaidSame
<1>2. CASE ~(Broker!Finished(t) \/ hungup[t])
  <2>1. PICK q : q = said[t]  OBVIOUS
  <2>2. PICK r : r = q \o m  OBVIOUS
  <2>3. said' = [said EXCEPT ![t] = r]  BY <1>2, <2>1, <2>2 DEF Broker!Say, Broker!Set
  <2>4. q \in Seq(Message) /\ ~Broker!Contains(q, "exited")  BY <1>2, <2>1 DEF Broker!Finished
  <2>5. \A i \in 1..Len(q) : q[i] \notin {"error", "quit", "lost", "exited"}
    BY <1>2, <2>1, OnlyNotices
  <2>6. /\ r \in Seq(Message) /\ Broker!Contains(r, "exited")
        /\ \A i \in 1..Len(r) :
              /\ r[i] = "exited" => i = Len(r)
              /\ r[i] \in {"error", "quit", "lost"} => i = Len(r) - 1 /\ r[i + 1] = "exited"
    BY <2>2, <2>4, <2>5, EndingWritten
  <2>7. said'[t] = r /\ said' \in [Session -> Seq(Message)]
        /\ \A u \in Session : u # t => said'[u] = said[u]
    BY <2>3, <2>6
  <2>8. SaidOK(t)'  BY <2>6, <2>7 DEF SaidOK
  <2>9. Broker!Finished(t)'  BY <2>6, <2>7 DEF Broker!Finished
  <2> QED  BY <2>7, <2>8, <2>9
<1> QED  BY <1>1, <1>2

(* What a notice leaves.                                                   *)
LEMMA SayNotice ==
    ASSUME NEW t \in Session, NEW m \in Notices, said \in [Session -> Seq(Message)], SaidOK(t),
           Broker!Say(t, m)
    PROVE  /\ said' \in [Session -> Seq(Message)] /\ SaidOK(t)'
           /\ \A u \in Session : u # t => said'[u] = said[u]
           /\ Broker!Finished(t)' <=> Broker!Finished(t)
<1>1. CASE Broker!Finished(t) \/ hungup[t]
  <2>1. said' = said  BY <1>1 DEF Broker!Say
  <2>2. Broker!Finished(t)' <=> Broker!Finished(t)  BY <2>1, FinishedSame
  <2> QED  BY <1>1, <2>1, <2>2, SaidSame
<1>2. CASE ~(Broker!Finished(t) \/ hungup[t])
  <2>1. PICK q : q = said[t]  OBVIOUS
  <2>2. PICK r : r = q \o m  OBVIOUS
  <2>3. said' = [said EXCEPT ![t] = r]  BY <1>2, <2>1, <2>2 DEF Broker!Say, Broker!Set
  <2>4. q \in Seq(Message)  BY <2>1
  <2>5. \A i \in 1..Len(q) : q[i] \notin {"error", "quit", "lost", "exited"}
    BY <1>2, <2>1, OnlyNotices
  <2>6. /\ r \in Seq(Message)
        /\ \A i \in 1..Len(r) : r[i] \notin {"error", "quit", "lost", "exited"}
    BY <2>2, <2>4, <2>5, NoticeWritten
  <2>7. said'[t] = r /\ said' \in [Session -> Seq(Message)]
        /\ \A u \in Session : u # t => said'[u] = said[u]
    BY <2>3, <2>6
  <2>8. SaidOK(t)'  BY <2>6, <2>7 DEF SaidOK
  <2>9. ~Broker!Finished(t)'  BY <2>6, <2>7 DEF Broker!Finished, Broker!Contains
  <2> QED  BY <1>2, <2>7, <2>8, <2>9
<1> QED  BY <1>1, <1>2

-----------------------------------------------------------------------------
(* A step of one session leaves the others alone.                          *)

(* What a step of a session has to show.                                   *)
LEMMA OneSession ==
    ASSUME BrokerInv, NEW s \in Session, Types', SessionOK(s)', Broker!Up,
           \A t \in Session \ {s} : BrokerSame(t),
           UNCHANGED <<quitting, job, jobCancel, endAll>>
    PROVE  BrokerInv'
<1>1. ASSUME NEW t \in Session PROVE SessionOK(t)'
  BY BrokerUntouched DEF BrokerInv
<1>2. Broker!JobsCancelled'  BY DEF BrokerInv, Broker!JobsCancelled
<1>3. endAll' # "returned"  BY DEF Broker!Up
<1> QED  BY <1>1, <1>2, <1>3 DEF BrokerInv

-----------------------------------------------------------------------------
(* One lemma per step of a session: whom it tells, and that whoever is to  *)
(* tell the client next still can.                                         *)

(* A worker that has told the client how the shell ended, or found it gone. *)
LEMMA GoesOver ==
    ASSUME BrokerInv, NEW s \in Session, Broker!Up, worker[s] \in Inside,
           worker' = [worker EXCEPT ![s] = "over"],
           \/ gone[s] /\ said' = said
           \/ \E m \in Endings : Broker!Say(s, m),
           UNCHANGED <<entry, quitting, job, jobCancel, reader, teller, ender, endAll,
                        present, token, waiting, ownerGone, gone, quitReason,
                        shell, closers, printed, settled, ended, forwarding,
                        size, ptySize, shellSize, hungup, asks>>
    PROVE  BrokerInv'
<1>1. /\ said' \in [Session -> Seq(Message)] /\ SaidOK(s)'
      /\ \A t \in Session : t # s => said'[t] = said[t]
      /\ (Broker!Finished(s) => Broker!Finished(s)')
      /\ (Broker!Finished(s)' \/ hungup[s] \/ gone[s])
  <2>1. CASE gone[s] /\ said' = said
    BY <2>1, FinishedSame, SaidSame DEF BrokerInv, Types, SessionOK
  <2>2. CASE \E m \in Endings : Broker!Say(s, m)
    BY <2>2, SayEnding DEF BrokerInv, Types, SessionOK
  <2> QED  BY <2>1, <2>2
<1>2. EntryOK(s) /\ TellerOK(s) /\ ClientOK(s) /\ ShellOK(s)  BY DEF BrokerInv, SessionOK
<1>3. /\ worker'[s] = "over" /\ \A t \in Session : t # s => worker'[t] = worker[t]
      /\ worker' \in [Session -> {"none", "over", "done"} \cup Before \cup Inside]
  BY DEF BrokerInv, Types
<1>4. Types'  BY <1>1, <1>3 DEF BrokerInv, Types
<1>5. \A t \in Session \ {s} : BrokerSame(t)  BY <1>1, <1>3 DEF BrokerSame
<1>6. /\ entry[s].state = "open" /\ entry[s].told = "no" /\ Broker!Entered(s)
      /\ worker[s] # "none" /\ reader[s] # "new" /\ teller[s] = "none"
  BY <1>2 DEF EntryOK, TellerOK, Inside, Broker!Entered, Broker!NoEntry
<1>7. Told(s)' /\ Broker!Entered(s)'  BY <1>1, <1>2, <1>6 DEF Told, ClientOK, Broker!Entered
<1>8. EntryOK(s)'  BY <1>2, <1>3, <1>6, <1>7 DEF EntryOK, Inside
<1>9. TellerOK(s)'  BY <1>2, <1>3, <1>6, <1>7 DEF TellerOK, Telling
<1>10. ClientOK(s)'  BY <1>2, <1>3, <1>6, <1>7 DEF ClientOK, Before, Inside
<1>11. ShellOK(s)'  BY <1>2, <1>3 DEF ShellOK, Inside
<1>12. SessionOK(s)'  BY <1>1, <1>8, <1>9, <1>10, <1>11 DEF SessionOK
<1> QED  BY <1>4, <1>5, <1>12, OneSession

LEMMA OpenOK ==
    ASSUME BrokerInv, NEW s \in Session, Broker!Open(s)
    PROVE  BrokerInv'
<1> USE DEF Broker!table, Broker!owner, Broker!control, Broker!sizes, Broker!client,
     Broker!Set, Broker!Goes
<1>1. /\ reader[s] = "new" /\ Broker!Up
      /\ UNCHANGED <<quitting, job, jobCancel, teller, ender, endAll, present, token,
                      waiting, ownerGone, gone, quitReason, shell, closers, printed,
                      settled, ended, forwarding, size, ptySize, shellSize, hungup,
                      asks>>
  BY DEF Broker!Open
<1>2. EntryOK(s) /\ TellerOK(s) /\ ClientOK(s) /\ ShellOK(s) /\ SaidOK(s)
  BY DEF BrokerInv, SessionOK
<1>3. worker[s] = "none" /\ ~Broker!Entered(s) /\ said[s] = <<>> /\ teller[s] = "none"
  BY <1>1, <1>2 DEF EntryOK, TellerOK, BrokerInv, Types
<1>4. ~Broker!Finished(s)  BY <1>3 DEF Broker!Finished, Broker!Contains
<1>5. ~hungup[s] \/ ~present[s]  BY <1>2, <1>4 DEF ClientOK, Told
<1>6. CASE quitting
  <2>1. Broker!Say(s, <<"quit", "exited">>) /\ reader' = [reader EXCEPT ![s] = "done"]
        /\ UNCHANGED <<entry, worker>>
    BY <1>6 DEF Broker!Open
  <2>2. /\ said' \in [Session -> Seq(Message)] /\ SaidOK(s)'
        /\ \A t \in Session : t # s => said'[t] = said[t]
        /\ Broker!Finished(s)' \/ (hungup[s] /\ said' = said)
        /\ Broker!Finished(s) => Broker!Finished(s)'
    <3>1. <<"quit", "exited">> \in Endings  BY DEF Endings
    <3> QED  BY <1>2, <2>1, <3>1, SayEnding DEF BrokerInv, Types
  <2>3. /\ reader'[s] = "done" /\ \A t \in Session : t # s => reader'[t] = reader[t]
        /\ reader' \in [Session -> {"new", "serving", "leaving", "gone", "done"}]
    BY <2>1 DEF BrokerInv, Types
  <2>4. Types'  BY <1>1, <2>1, <2>2, <2>3 DEF BrokerInv, Types
  <2>5. \A t \in Session \ {s} : BrokerSame(t)  BY <1>1, <2>1, <2>2, <2>3 DEF BrokerSame
  <2>6. Broker!Entered(s)' <=> Broker!Entered(s)  BY <2>1 DEF Broker!Entered
  <2>7. Told(s) => Told(s)'  BY <1>1, <2>2 DEF Told
  <2>8. EntryOK(s)'  BY <1>1, <1>2, <1>3, <2>1, <2>3, <2>6 DEF EntryOK
  <2>9. TellerOK(s)'  BY <1>1, <1>2, <1>3, <2>1, <2>6 DEF TellerOK, Telling
  <2>10. ClientOK(s)'
    BY <1>1, <1>2, <1>3, <2>1, <2>2, <2>3, <2>7 DEF ClientOK, Before, Inside
  <2>11. ShellOK(s)'  BY <1>1, <1>2, <2>1 DEF ShellOK
  <2>12. SessionOK(s)'  BY <2>2, <2>8, <2>9, <2>10, <2>11 DEF SessionOK
  <2> QED  BY <1>1, <2>4, <2>5, <2>12, OneSession
<1>7. CASE ~quitting
  <2>1. PICK e : e = [state |-> "connecting", told |-> "no"]  OBVIOUS
  <2>2. e \in Entries /\ e # Broker!NoEntry /\ e.state = "connecting" /\ e.told = "no"
    BY <2>1 DEF Entries, Broker!NoEntry
  <2>3. /\ entry' = [entry EXCEPT ![s] = e] /\ said' = said
        /\ \/ /\ reader' = [reader EXCEPT ![s] = "serving"]
              /\ worker' = [worker EXCEPT ![s] = "connecting"]
           \/ /\ reader' = [reader EXCEPT ![s] = "done"]
              /\ worker' = [worker EXCEPT ![s] = "failed"]
    BY <1>7, <2>1 DEF Broker!Open
  <2>4. SaidOK(s)' /\ (Broker!Finished(s)' <=> Broker!Finished(s))
    BY <1>2, <2>3, FinishedSame, SaidSame
  <2>5. /\ entry'[s] = e /\ \A t \in Session : t # s => entry'[t] = entry[t]
        /\ entry' \in [Session -> Entries]
    BY <2>2, <2>3 DEF BrokerInv, Types
  <2>6. /\ reader'[s] \in {"serving", "done"}
        /\ \A t \in Session : t # s => reader'[t] = reader[t]
        /\ reader' \in [Session -> {"new", "serving", "leaving", "gone", "done"}]
    <3>1. reader \in [Session -> {"new", "serving", "leaving", "gone", "done"}]
      BY DEF BrokerInv, Types
    <3>2. \/ reader' = [reader EXCEPT ![s] = "serving"]
          \/ reader' = [reader EXCEPT ![s] = "done"]
      BY <2>3
    <3> QED  BY <3>1, <3>2
  <2>7. /\ worker'[s] \in {"connecting", "failed"}
        /\ \A t \in Session : t # s => worker'[t] = worker[t]
        /\ worker' \in [Session -> {"none", "over", "done"} \cup Before \cup Inside]
    <3>1. worker \in [Session -> {"none", "over", "done"} \cup Before \cup Inside]
      BY DEF BrokerInv, Types
    <3>2. \/ worker' = [worker EXCEPT ![s] = "connecting"]
          \/ worker' = [worker EXCEPT ![s] = "failed"]
      BY <2>3
    <3>3. {"connecting", "failed"} \subseteq Before  BY DEF Before
    <3> QED  BY <3>1, <3>2, <3>3
  <2>8. Types'  BY <1>1, <2>3, <2>5, <2>6, <2>7 DEF BrokerInv, Types
  <2>9. \A t \in Session \ {s} : BrokerSame(t)  BY <1>1, <2>3, <2>5, <2>6, <2>7 DEF BrokerSame
  <2>10. Broker!Entered(s)' /\ (Told(s)' <=> Told(s))
    BY <1>1, <2>2, <2>4, <2>5 DEF Broker!Entered, Told
  <2>11. EntryOK(s)'  BY <2>2, <2>5, <2>6, <2>7, <2>10 DEF EntryOK, Inside
  <2>12. TellerOK(s)'  BY <1>1, <1>3, <2>2, <2>5 DEF TellerOK, Telling
  <2>13. ClientOK(s)'
    BY <1>1, <1>2, <1>4, <2>4, <2>6, <2>7, <2>10 DEF ClientOK, Before, Inside
  <2>14. ShellOK(s)'  BY <1>1, <1>2, <1>3, <2>7 DEF ShellOK
  <2>15. SessionOK(s)'  BY <2>4, <2>11, <2>12, <2>13, <2>14 DEF SessionOK
  <2> QED  BY <1>1, <2>8, <2>9, <2>15, OneSession
<1> QED  BY <1>6, <1>7

LEMMA ClientLeavesOK ==
    ASSUME BrokerInv, NEW s \in Session, Broker!ClientLeaves(s)
    PROVE  BrokerInv'
<1> USE DEF Broker!table, Broker!owner, Broker!control, Broker!sizes, Broker!client,
     Broker!Set, Broker!Goes
<1>1. UNCHANGED said  BY DEF Broker!ClientLeaves
<1>2. /\ said' \in [Session -> Seq(Message)] /\ SaidOK(s)'
      /\ (Broker!Finished(s)' <=> Broker!Finished(s))
      /\ \A t \in Session : t # s => said'[t] = said[t]
  BY <1>1, FinishedSame, SaidSame DEF BrokerInv, Types, SessionOK
<1>3. Types'
  BY <1>2 DEF BrokerInv, Types, Broker!ClientLeaves, Before, Inside, Telling, Entries,
     Broker!NoEntry
<1>4. \A t \in Session \ {s} : BrokerSame(t)
  BY <1>2 DEF BrokerSame, BrokerInv, Types, Broker!ClientLeaves
<1>5. EntryOK(s)'
  BY <1>2 DEF BrokerInv, Types, SessionOK, EntryOK, TellerOK, ClientOK, Told, Broker!Entered,
     Broker!NoEntry, Broker!ClientLeaves, Before, Inside
<1>6. TellerOK(s)'
  BY <1>2 DEF BrokerInv, Types, SessionOK, EntryOK, TellerOK, Told, Broker!Entered,
     Broker!NoEntry, Broker!ClientLeaves, Telling, Before, Inside
<1>7. ClientOK(s)'
  BY <1>2 DEF BrokerInv, Types, SessionOK, EntryOK, TellerOK, ClientOK, Told,
     Broker!ClientLeaves, Telling, Before, Inside
<1>8. ShellOK(s)'
  BY DEF BrokerInv, Types, SessionOK, ShellOK, Broker!ClientLeaves
<1>9. SessionOK(s)'  BY <1>2, <1>5, <1>6, <1>7, <1>8 DEF SessionOK
<1> QED  BY <1>3, <1>4, <1>9, OneSession DEF Broker!ClientLeaves

LEMMA ReadEndOK ==
    ASSUME BrokerInv, NEW s \in Session, Broker!ReadEnd(s)
    PROVE  BrokerInv'
<1> USE DEF Broker!table, Broker!owner, Broker!control, Broker!sizes, Broker!client,
     Broker!Set, Broker!Goes
<1>1. UNCHANGED said  BY DEF Broker!ReadEnd
<1>2. /\ said' \in [Session -> Seq(Message)] /\ SaidOK(s)'
      /\ (Broker!Finished(s)' <=> Broker!Finished(s))
      /\ \A t \in Session : t # s => said'[t] = said[t]
  BY <1>1, FinishedSame, SaidSame DEF BrokerInv, Types, SessionOK
<1>3. Types'
  BY <1>2 DEF BrokerInv, Types, Broker!ReadEnd, Before, Inside, Telling, Entries, Broker!NoEntry
<1>4. \A t \in Session \ {s} : BrokerSame(t)
  BY <1>2 DEF BrokerSame, BrokerInv, Types, Broker!ReadEnd
<1>5. EntryOK(s)'
  BY <1>2 DEF BrokerInv, Types, SessionOK, EntryOK, TellerOK, ClientOK, Told, Broker!Entered,
     Broker!NoEntry, Broker!ReadEnd, Before, Inside
<1>6. TellerOK(s)'
  BY <1>2 DEF BrokerInv, Types, SessionOK, EntryOK, TellerOK, Told, Broker!Entered,
     Broker!NoEntry, Broker!ReadEnd, Telling, Before, Inside
<1>7. ClientOK(s)'
  BY <1>2 DEF BrokerInv, Types, SessionOK, EntryOK, TellerOK, ClientOK, Told, Broker!ReadEnd,
     Telling, Before, Inside
<1>8. ShellOK(s)'
  BY DEF BrokerInv, Types, SessionOK, ShellOK, Broker!ReadEnd
<1>9. SessionOK(s)'  BY <1>2, <1>5, <1>6, <1>7, <1>8 DEF SessionOK
<1> QED  BY <1>3, <1>4, <1>9, OneSession DEF Broker!ReadEnd

LEMMA ReaderGoneOK ==
    ASSUME BrokerInv, NEW s \in Session, Broker!ReaderGone(s)
    PROVE  BrokerInv'
<1> USE DEF Broker!table, Broker!owner, Broker!control, Broker!sizes, Broker!client,
     Broker!Set, Broker!Goes
<1>1. UNCHANGED said  BY DEF Broker!ReaderGone
<1>2. /\ said' \in [Session -> Seq(Message)] /\ SaidOK(s)'
      /\ (Broker!Finished(s)' <=> Broker!Finished(s))
      /\ \A t \in Session : t # s => said'[t] = said[t]
  BY <1>1, FinishedSame, SaidSame DEF BrokerInv, Types, SessionOK
<1>3. Types'
  BY <1>2 DEF BrokerInv, Types, Broker!ReaderGone, Broker!CloseSettled, Before, Inside, Telling,
     Entries, Broker!NoEntry
<1>4. \A t \in Session \ {s} : BrokerSame(t)
  BY <1>2 DEF BrokerSame, BrokerInv, Types, Broker!ReaderGone, Broker!CloseSettled
<1>5. EntryOK(s)'
  BY <1>2 DEF BrokerInv, Types, SessionOK, EntryOK, TellerOK, ClientOK, Told, Broker!Entered,
     Broker!NoEntry, Broker!ReaderGone, Broker!CloseSettled, Before, Inside
<1>6. TellerOK(s)'
  BY <1>2 DEF BrokerInv, Types, SessionOK, EntryOK, TellerOK, Told, Broker!Entered,
     Broker!NoEntry, Broker!ReaderGone, Broker!CloseSettled, Telling, Before, Inside
<1>7. ClientOK(s)'
  BY <1>2 DEF BrokerInv, Types, SessionOK, EntryOK, TellerOK, ClientOK, Told, Broker!ReaderGone,
     Broker!CloseSettled, Telling, Before, Inside
<1>8. ShellOK(s)'
  BY DEF BrokerInv, Types, SessionOK, ShellOK, Broker!ReaderGone, Broker!CloseSettled
<1>9. SessionOK(s)'  BY <1>2, <1>5, <1>6, <1>7, <1>8 DEF SessionOK
<1> QED  BY <1>3, <1>4, <1>9, OneSession DEF Broker!ReaderGone

LEMMA ReaderDoneOK ==
    ASSUME BrokerInv, NEW s \in Session, Broker!ReaderDone(s)
    PROVE  BrokerInv'
<1> USE DEF Broker!table, Broker!owner, Broker!control, Broker!sizes, Broker!client,
     Broker!Set, Broker!Goes
<1>1. UNCHANGED said  BY DEF Broker!ReaderDone
<1>2. /\ said' \in [Session -> Seq(Message)] /\ SaidOK(s)'
      /\ (Broker!Finished(s)' <=> Broker!Finished(s))
      /\ \A t \in Session : t # s => said'[t] = said[t]
  BY <1>1, FinishedSame, SaidSame DEF BrokerInv, Types, SessionOK
<1>3. Types'
  BY <1>2 DEF BrokerInv, Types, Broker!ReaderDone, Before, Inside, Telling, Entries,
     Broker!NoEntry
<1>4. \A t \in Session \ {s} : BrokerSame(t)
  BY <1>2 DEF BrokerSame, BrokerInv, Types, Broker!ReaderDone
<1>5. EntryOK(s)'
  <2>1. UNCHANGED <<entry, worker, hungup, present>> /\ reader'[s] = "done"
    BY DEF BrokerInv, Types, Broker!ReaderDone
  <2> QED  BY <1>2, <2>1 DEF BrokerInv, SessionOK, EntryOK, Told, Broker!Entered
<1>6. TellerOK(s)'
  BY <1>2 DEF BrokerInv, Types, SessionOK, EntryOK, TellerOK, Told, Broker!Entered,
     Broker!NoEntry, Broker!ReaderDone, Telling, Before, Inside
<1>7. ClientOK(s)'
  BY <1>2 DEF BrokerInv, Types, SessionOK, EntryOK, TellerOK, ClientOK, Told, Broker!ReaderDone,
     Telling, Before, Inside
<1>8. ShellOK(s)'
  BY DEF BrokerInv, Types, SessionOK, ShellOK, Broker!ReaderDone
<1>9. SessionOK(s)'  BY <1>2, <1>5, <1>6, <1>7, <1>8 DEF SessionOK
<1> QED  BY <1>3, <1>4, <1>9, OneSession DEF Broker!ReaderDone

LEMMA ResizeOK ==
    ASSUME BrokerInv, NEW s \in Session, Broker!Resize(s)
    PROVE  BrokerInv'
<1> USE DEF Broker!table, Broker!owner, Broker!control, Broker!sizes, Broker!client,
     Broker!Set, Broker!Goes
<1>1. UNCHANGED said  BY DEF Broker!Resize
<1>2. /\ said' \in [Session -> Seq(Message)] /\ SaidOK(s)'
      /\ (Broker!Finished(s)' <=> Broker!Finished(s))
      /\ \A t \in Session : t # s => said'[t] = said[t]
  BY <1>1, FinishedSame, SaidSame DEF BrokerInv, Types, SessionOK
<1>3. Types'
  BY <1>2 DEF BrokerInv, Types, Broker!Resize, Before, Inside, Telling, Entries, Broker!NoEntry
<1>4. \A t \in Session \ {s} : BrokerSame(t)
  BY <1>2 DEF BrokerSame, BrokerInv, Types, Broker!Resize
<1>5. EntryOK(s)'
  BY <1>2 DEF BrokerInv, Types, SessionOK, EntryOK, TellerOK, ClientOK, Told, Broker!Entered,
     Broker!NoEntry, Broker!Resize, Before, Inside
<1>6. TellerOK(s)'
  BY <1>2 DEF BrokerInv, Types, SessionOK, EntryOK, TellerOK, Told, Broker!Entered,
     Broker!NoEntry, Broker!Resize, Telling, Before, Inside
<1>7. ClientOK(s)'
  BY <1>2 DEF BrokerInv, Types, SessionOK, EntryOK, TellerOK, ClientOK, Told, Broker!Resize,
     Telling, Before, Inside
<1>8. ShellOK(s)'
  BY DEF BrokerInv, Types, SessionOK, ShellOK, Broker!Resize
<1>9. SessionOK(s)'  BY <1>2, <1>5, <1>6, <1>7, <1>8 DEF SessionOK
<1> QED  BY <1>3, <1>4, <1>9, OneSession DEF Broker!Resize

LEMMA AskOK ==
    ASSUME BrokerInv, NEW s \in Session, Broker!Ask(s)
    PROVE  BrokerInv'
<1> USE DEF Broker!table, Broker!owner, Broker!control, Broker!sizes, Broker!client,
     Broker!Set, Broker!Goes
<1>1. UNCHANGED said  BY DEF Broker!Ask
<1>2. /\ said' \in [Session -> Seq(Message)] /\ SaidOK(s)'
      /\ (Broker!Finished(s)' <=> Broker!Finished(s))
      /\ \A t \in Session : t # s => said'[t] = said[t]
  BY <1>1, FinishedSame, SaidSame DEF BrokerInv, Types, SessionOK
<1>3. Types'
  <2>1. UNCHANGED <<entry, quitting, job, jobCancel, reader, teller, ender, endAll, present,
                    token, ownerGone, gone, quitReason, shell, closers, printed, settled, ended,
                    forwarding, size, ptySize, shellSize, hungup>>
    BY DEF Broker!Ask
  <2>2. waiting' \in [Session -> BOOLEAN]
    BY DEF BrokerInv, Types, Broker!Ask
  <2>3. asks' \in [Session -> Nat]
    BY DEF BrokerInv, Types, Broker!Ask
  <2>4. worker' \in [Session -> {"none", "over", "done"} \cup Before \cup Inside]
    <3>1. worker' = worker \/ worker' = [worker EXCEPT ![s] = "asking"]  BY DEF Broker!Ask
    <3>2. worker \in [Session -> {"none", "over", "done"} \cup Before \cup Inside]
      BY DEF BrokerInv, Types
    <3>3. "asking" \in {"none", "over", "done"} \cup Before \cup Inside  BY DEF Before, Inside
    <3> QED  BY <3>1, <3>2, <3>3
  <2> QED  BY <1>2, <2>1, <2>2, <2>3, <2>4 DEF BrokerInv, Types
<1>4. \A t \in Session \ {s} : BrokerSame(t)  BY <1>2 DEF BrokerSame, BrokerInv, Types, Broker!Ask
<1>5. EntryOK(s)'
  BY <1>2 DEF BrokerInv, Types, SessionOK, EntryOK, TellerOK, ClientOK, Told, Broker!Entered,
     Broker!NoEntry, Broker!Ask, Before, Inside
<1>6. TellerOK(s)'
  BY <1>2 DEF BrokerInv, Types, SessionOK, EntryOK, TellerOK, Told, Broker!Entered,
     Broker!NoEntry, Broker!Ask, Telling, Before, Inside
<1>7. ClientOK(s)'
  BY <1>2 DEF BrokerInv, Types, SessionOK, EntryOK, TellerOK, ClientOK, Told, Broker!Ask,
     Telling, Before, Inside
<1>8. ShellOK(s)'
  BY DEF BrokerInv, Types, SessionOK, ShellOK, Broker!Ask
<1>9. SessionOK(s)'  BY <1>2, <1>5, <1>6, <1>7, <1>8 DEF SessionOK
<1> QED  BY <1>3, <1>4, <1>9, OneSession DEF Broker!Ask

LEMMA AskWritesOK ==
    ASSUME BrokerInv, NEW s \in Session, Broker!AskWrites(s)
    PROVE  BrokerInv'
<1> USE DEF Broker!table, Broker!owner, Broker!control, Broker!sizes, Broker!client,
     Broker!Set, Broker!Goes
<1>1. Broker!Say(s, <<"question">>) /\ <<"question">> \in Notices
  BY DEF Broker!AskWrites, Notices
<1>2. /\ said' \in [Session -> Seq(Message)] /\ SaidOK(s)'
      /\ (Broker!Finished(s)' <=> Broker!Finished(s))
      /\ \A t \in Session : t # s => said'[t] = said[t]
  BY <1>1, SayNotice DEF BrokerInv, Types, SessionOK
<1>3. Types'
  <2>1. UNCHANGED <<entry, quitting, job, jobCancel, reader, teller, ender, endAll, present,
                    token, ownerGone, gone, quitReason, shell, closers, printed, settled, ended,
                    forwarding, size, ptySize, shellSize, hungup, asks>>
    BY DEF Broker!AskWrites
  <2>2. waiting' \in [Session -> BOOLEAN]
    BY DEF BrokerInv, Types, Broker!AskWrites
  <2>3. worker' \in [Session -> {"none", "over", "done"} \cup Before \cup Inside]
    BY DEF BrokerInv, Types, Before, Inside, Broker!AskWrites
  <2> QED  BY <1>2, <2>1, <2>2, <2>3 DEF BrokerInv, Types
<1>4. \A t \in Session \ {s} : BrokerSame(t)
  BY <1>2 DEF BrokerSame, BrokerInv, Types, Broker!AskWrites
<1>5. EntryOK(s)'
  <2>1. /\ UNCHANGED <<entry, reader, hungup, present>>
        /\ worker[s] = "asking" /\ worker'[s] = "waiting"
    BY DEF BrokerInv, Types, Broker!AskWrites
  <2>2. (Told(s)' <=> Told(s)) /\ (Broker!Entered(s)' <=> Broker!Entered(s))
    BY <1>2, <2>1 DEF Told, Broker!Entered
  <2>3. EntryOK(s)  BY DEF BrokerInv, SessionOK
  <2> QED  BY <2>1, <2>2, <2>3 DEF EntryOK, Inside
<1>6. TellerOK(s)'
  BY <1>2 DEF BrokerInv, Types, SessionOK, EntryOK, TellerOK, Told, Broker!Entered,
     Broker!NoEntry, Broker!AskWrites, Telling, Before, Inside
<1>7. ClientOK(s)'
  BY <1>2 DEF BrokerInv, Types, SessionOK, EntryOK, TellerOK, ClientOK, Told, Broker!AskWrites,
     Telling, Before, Inside
<1>8. ShellOK(s)'
  BY DEF BrokerInv, Types, SessionOK, ShellOK, Broker!AskWrites
<1>9. SessionOK(s)'  BY <1>2, <1>5, <1>6, <1>7, <1>8 DEF SessionOK
<1> QED  BY <1>3, <1>4, <1>9, OneSession DEF Broker!AskWrites

LEMMA AnsweredOK ==
    ASSUME BrokerInv, NEW s \in Session, Broker!Answered(s)
    PROVE  BrokerInv'
<1> USE DEF Broker!table, Broker!owner, Broker!control, Broker!sizes, Broker!client,
     Broker!Set, Broker!Goes
<1>1. UNCHANGED said  BY DEF Broker!Answered
<1>2. /\ said' \in [Session -> Seq(Message)] /\ SaidOK(s)'
      /\ (Broker!Finished(s)' <=> Broker!Finished(s))
      /\ \A t \in Session : t # s => said'[t] = said[t]
  BY <1>1, FinishedSame, SaidSame DEF BrokerInv, Types, SessionOK
<1>3. Types'
  BY <1>2 DEF BrokerInv, Types, Broker!Answered, Before, Inside, Telling, Entries, Broker!NoEntry
<1>4. \A t \in Session \ {s} : BrokerSame(t)
  BY <1>2 DEF BrokerSame, BrokerInv, Types, Broker!Answered
<1>5. EntryOK(s)'
  BY <1>2 DEF BrokerInv, Types, SessionOK, EntryOK, TellerOK, ClientOK, Told, Broker!Entered,
     Broker!NoEntry, Broker!Answered, Before, Inside
<1>6. TellerOK(s)'
  BY <1>2 DEF BrokerInv, Types, SessionOK, EntryOK, TellerOK, Told, Broker!Entered,
     Broker!NoEntry, Broker!Answered, Telling, Before, Inside
<1>7. ClientOK(s)'
  BY <1>2 DEF BrokerInv, Types, SessionOK, EntryOK, TellerOK, ClientOK, Told, Broker!Answered,
     Telling, Before, Inside
<1>8. ShellOK(s)'
  BY DEF BrokerInv, Types, SessionOK, ShellOK, Broker!Answered
<1>9. SessionOK(s)'  BY <1>2, <1>5, <1>6, <1>7, <1>8 DEF SessionOK
<1> QED  BY <1>3, <1>4, <1>9, OneSession DEF Broker!Answered

LEMMA AskReturnsOK ==
    ASSUME BrokerInv, NEW s \in Session, Broker!AskReturns(s)
    PROVE  BrokerInv'
<1> USE DEF Broker!table, Broker!owner, Broker!control, Broker!sizes, Broker!client,
     Broker!Set, Broker!Goes
<1>1. UNCHANGED said  BY DEF Broker!AskReturns
<1>2. /\ said' \in [Session -> Seq(Message)] /\ SaidOK(s)'
      /\ (Broker!Finished(s)' <=> Broker!Finished(s))
      /\ \A t \in Session : t # s => said'[t] = said[t]
  BY <1>1, FinishedSame, SaidSame DEF BrokerInv, Types, SessionOK
<1>3. Types'
  BY <1>2 DEF BrokerInv, Types, Broker!AskReturns, Before, Inside, Telling, Entries,
     Broker!NoEntry
<1>4. \A t \in Session \ {s} : BrokerSame(t)
  BY <1>2 DEF BrokerSame, BrokerInv, Types, Broker!AskReturns
<1>5. EntryOK(s)'
  BY <1>2 DEF BrokerInv, Types, SessionOK, EntryOK, TellerOK, ClientOK, Told, Broker!Entered,
     Broker!NoEntry, Broker!AskReturns, Before, Inside
<1>6. TellerOK(s)'
  BY <1>2 DEF BrokerInv, Types, SessionOK, EntryOK, TellerOK, Told, Broker!Entered,
     Broker!NoEntry, Broker!AskReturns, Telling, Before, Inside
<1>7. ClientOK(s)'
  BY <1>2 DEF BrokerInv, Types, SessionOK, EntryOK, TellerOK, ClientOK, Told, Broker!AskReturns,
     Telling, Before, Inside
<1>8. ShellOK(s)'
  BY DEF BrokerInv, Types, SessionOK, ShellOK, Broker!AskReturns
<1>9. SessionOK(s)'  BY <1>2, <1>5, <1>6, <1>7, <1>8 DEF SessionOK
<1> QED  BY <1>3, <1>4, <1>9, OneSession DEF Broker!AskReturns

LEMMA ConnectReturnsOK ==
    ASSUME BrokerInv, NEW s \in Session, NEW ok \in BOOLEAN, Broker!ConnectReturns(s, ok)
    PROVE  BrokerInv'
<1> USE DEF Broker!table, Broker!owner, Broker!control, Broker!sizes, Broker!client,
     Broker!Set, Broker!Goes
<1>1. UNCHANGED said  BY DEF Broker!ConnectReturns
<1>2. /\ said' \in [Session -> Seq(Message)] /\ SaidOK(s)'
      /\ (Broker!Finished(s)' <=> Broker!Finished(s))
      /\ \A t \in Session : t # s => said'[t] = said[t]
  BY <1>1, FinishedSame, SaidSame DEF BrokerInv, Types, SessionOK
<1>3. Types'
  BY <1>2 DEF BrokerInv, Types, Broker!ConnectReturns, Before, Inside, Telling, Entries,
     Broker!NoEntry
<1>4. \A t \in Session \ {s} : BrokerSame(t)
  BY <1>2 DEF BrokerSame, BrokerInv, Types, Broker!ConnectReturns
<1>5. EntryOK(s)'
  BY <1>2 DEF BrokerInv, Types, SessionOK, EntryOK, TellerOK, ClientOK, Told, Broker!Entered,
     Broker!NoEntry, Broker!ConnectReturns, Before, Inside
<1>6. TellerOK(s)'
  BY <1>2 DEF BrokerInv, Types, SessionOK, EntryOK, TellerOK, Told, Broker!Entered,
     Broker!NoEntry, Broker!ConnectReturns, Telling, Before, Inside
<1>7. ClientOK(s)'
  BY <1>2 DEF BrokerInv, Types, SessionOK, EntryOK, TellerOK, ClientOK, Told,
     Broker!ConnectReturns, Telling, Before, Inside
<1>8. ShellOK(s)'
  BY DEF BrokerInv, Types, SessionOK, ShellOK, Broker!ConnectReturns
<1>9. SessionOK(s)'  BY <1>2, <1>5, <1>6, <1>7, <1>8 DEF SessionOK
<1> QED  BY <1>3, <1>4, <1>9, OneSession DEF Broker!ConnectReturns

LEMMA ClaimOK ==
    ASSUME BrokerInv, NEW s \in Session, Broker!Claim(s)
    PROVE  BrokerInv'
<1> USE DEF Broker!table, Broker!owner, Broker!control, Broker!sizes, Broker!client,
     Broker!Set, Broker!Goes
<1>1. UNCHANGED said  BY DEF Broker!Claim
<1>2. /\ said' \in [Session -> Seq(Message)] /\ SaidOK(s)'
      /\ (Broker!Finished(s)' <=> Broker!Finished(s))
      /\ \A t \in Session : t # s => said'[t] = said[t]
  BY <1>1, FinishedSame, SaidSame DEF BrokerInv, Types, SessionOK
<1>0. PICK x \in Entries : x = entry[s]  BY DEF BrokerInv, Types
<1>3. PICK e : e = [x EXCEPT !.told = "session"]  OBVIOUS
<1>4. e \in Entries /\ e.state = entry[s].state /\ e.told = "session"
  <2>1. x \in [state : {"none", "connecting", "open"}, told : {"no", "session", "end_all"}]
    BY DEF Entries
  <2>2. e \in [state : {"none", "connecting", "open"}, told : {"no", "session", "end_all"}]
    BY <1>3, <2>1
  <2>3. e.state = x.state /\ e.told = "session"  BY <1>3, <2>1
  <2> QED  BY <1>0, <2>2, <2>3 DEF Entries
<1>5. \/ worker' = [worker EXCEPT ![s] = "over"] /\ entry' = entry
         /\ (gone[s] \/ ~Broker!Entered(s) \/ entry[s].told # "no")
      \/ worker' = [worker EXCEPT ![s] = "telling"] /\ entry' = [entry EXCEPT ![s] = e]
         /\ Broker!Entered(s) /\ entry[s].told = "no"
  BY <1>0, <1>3 DEF Broker!Claim
<1>6. /\ worker[s] = "failed" /\ worker'[s] \in {"over", "telling"}
      /\ worker' \in [Session -> {"none", "over", "done"} \cup Before \cup Inside]
      /\ \A t \in Session : t # s => worker'[t] = worker[t] /\ entry'[t] = entry[t]
  BY <1>5 DEF BrokerInv, Types, Broker!Claim, Before, Inside
<1>7. entry' \in [Session -> Entries]
  <2>1. entry \in [Session -> Entries]  BY DEF BrokerInv, Types
  <2>2. entry' = entry \/ entry' = [entry EXCEPT ![s] = e]  BY <1>5
  <2> QED  BY <1>4, <2>1, <2>2
<1>8. UNCHANGED <<quitting, job, jobCancel, reader, teller, ender, endAll, present, token,
                  waiting,
                  ownerGone, gone, quitReason, shell, closers, printed, settled, ended,
                  forwarding, size, ptySize, shellSize, hungup, asks>>
  BY DEF Broker!Claim
<1>9. Types'  BY <1>2, <1>6, <1>7, <1>8 DEF BrokerInv, Types
<1>10. \A t \in Session \ {s} : BrokerSame(t)  BY <1>2, <1>6, <1>8 DEF BrokerSame
<1>11. Told(s)' <=> Told(s)  BY <1>2, <1>8 DEF Told
<1>12. EntryOK(s) /\ TellerOK(s) /\ ClientOK(s) /\ ShellOK(s)  BY DEF BrokerInv, SessionOK
<1>13. CASE worker' = [worker EXCEPT ![s] = "over"] /\ entry' = entry
            /\ (gone[s] \/ ~Broker!Entered(s) \/ entry[s].told # "no")
  <2>1. worker'[s] = "over"  BY <1>13 DEF BrokerInv, Types
  <2>2. Broker!Entered(s)' <=> Broker!Entered(s)  BY <1>13 DEF Broker!Entered
  <2>3. Broker!Entered(s) /\ entry[s].told # "end_all" => Told(s)
    <3>1. entry[s].told # "session"  BY <1>6, <1>12 DEF EntryOK
    <3>2. entry[s].told \in {"no", "session", "end_all"}  BY DEF BrokerInv, Types, Entries
    <3>3. gone[s] => Told(s)  BY <1>12 DEF ClientOK, Told
    <3> QED  BY <3>1, <3>2, <3>3, <1>13
  <2>4. EntryOK(s)'
    BY <1>6, <1>8, <1>11, <1>12, <1>13, <2>1, <2>2, <2>3, <1>1 DEF EntryOK, Inside
  <2>5. TellerOK(s)'  BY <1>6, <1>8, <1>11, <1>12, <1>13, <2>1, <2>2 DEF TellerOK
  <2>6. ClientOK(s)'  BY <1>2, <1>8, <1>11, <1>12, <2>1 DEF ClientOK, Before, Inside
  <2>7. ShellOK(s)'  BY <1>6, <1>8, <1>12, <2>1 DEF ShellOK
  <2>8. SessionOK(s)'  BY <1>2, <2>4, <2>5, <2>6, <2>7 DEF SessionOK
  <2> QED  BY <1>8, <1>9, <1>10, <2>8, OneSession DEF Broker!Claim
<1>14. CASE worker' = [worker EXCEPT ![s] = "telling"] /\ entry' = [entry EXCEPT ![s] = e]
            /\ Broker!Entered(s) /\ entry[s].told = "no"
  <2>1. worker'[s] = "telling" /\ entry'[s] = e  BY <1>14 DEF BrokerInv, Types
  <2>2. Broker!Entered(s)' /\ entry[s].state = "connecting"
    <3>1. entry[s].state \in {"none", "connecting", "open"}  BY DEF BrokerInv, Types, Entries
    <3>2. entry[s].state # "open"  BY <1>6, <1>12 DEF EntryOK, Inside
    <3>3. entry[s].state # "none"
      <4>1. PICK y \in Entries : y = entry[s]  BY DEF BrokerInv, Types
      <4>2. y.state = "none" => y.told = "no"  BY <1>14, <4>1
      <4>3. y.state = "none" => y = Broker!NoEntry  BY <4>2 DEF Entries, Broker!NoEntry
      <4> QED  BY <4>1, <4>3, <1>14 DEF Broker!Entered
    <3> QED  BY <3>1, <3>2, <3>3, <2>1, <1>4 DEF Broker!Entered, Broker!NoEntry
  <2>4. EntryOK(s)'
    BY <1>1, <1>4, <1>6, <1>8, <1>11, <1>12, <2>1, <2>2 DEF EntryOK, Inside
  <2>5. TellerOK(s)'  BY <1>4, <1>6, <1>8, <1>11, <1>12, <1>14, <2>1, <2>2 DEF TellerOK
  <2>6. ClientOK(s)'  BY <1>2, <1>6, <1>8, <1>11, <1>12, <2>1 DEF ClientOK, Before, Inside
  <2>7. ShellOK(s)'  BY <1>6, <1>8, <1>12, <2>1 DEF ShellOK
  <2>8. SessionOK(s)'  BY <1>2, <2>4, <2>5, <2>6, <2>7 DEF SessionOK
  <2> QED  BY <1>8, <1>9, <1>10, <2>8, OneSession DEF Broker!Claim
<1> QED  BY <1>5, <1>13, <1>14

LEMMA TellFailureOK ==
    ASSUME BrokerInv, NEW s \in Session, Broker!TellFailure(s)
    PROVE  BrokerInv'
<1> USE DEF Broker!table, Broker!owner, Broker!control, Broker!sizes, Broker!client,
     Broker!Set, Broker!Goes
<1>1. Broker!Say(s, <<"error", "exited">>) /\ <<"error", "exited">> \in Endings
  BY DEF Broker!TellFailure, Endings
<1>2. /\ said' \in [Session -> Seq(Message)] /\ SaidOK(s)'
      /\ (Broker!Finished(s)' \/ hungup[s]) /\ (Broker!Finished(s) => Broker!Finished(s)')
      /\ \A t \in Session : t # s => said'[t] = said[t]
  BY <1>1, SayEnding DEF BrokerInv, Types, SessionOK
<1>3. Types'
  BY <1>2 DEF BrokerInv, Types, Broker!TellFailure, Before, Inside, Telling, Entries,
     Broker!NoEntry
<1>4. \A t \in Session \ {s} : BrokerSame(t)
  BY <1>2 DEF BrokerSame, BrokerInv, Types, Broker!TellFailure
<1>5. EntryOK(s)'
  BY <1>2 DEF BrokerInv, Types, SessionOK, EntryOK, TellerOK, ClientOK, Told, Broker!Entered,
     Broker!NoEntry, Broker!TellFailure, Before, Inside
<1>6. TellerOK(s)'
  BY <1>2 DEF BrokerInv, Types, SessionOK, EntryOK, TellerOK, Told, Broker!Entered,
     Broker!NoEntry, Broker!TellFailure, Telling, Before, Inside
<1>7. ClientOK(s)'
  BY <1>2 DEF BrokerInv, Types, SessionOK, EntryOK, TellerOK, ClientOK, Told, Broker!TellFailure,
     Telling, Before, Inside
<1>8. ShellOK(s)'
  BY DEF BrokerInv, Types, SessionOK, ShellOK, Broker!TellFailure
<1>9. SessionOK(s)'  BY <1>2, <1>5, <1>6, <1>7, <1>8 DEF SessionOK
<1> QED  BY <1>3, <1>4, <1>9, OneSession DEF Broker!TellFailure

LEMMA PromoteOK ==
    ASSUME BrokerInv, NEW s \in Session, Broker!Promote(s)
    PROVE  BrokerInv'
<1> USE DEF Broker!table, Broker!owner, Broker!control, Broker!sizes, Broker!client,
     Broker!Set, Broker!Goes
<1>1. UNCHANGED said  BY DEF Broker!Promote
<1>2. /\ said' \in [Session -> Seq(Message)] /\ SaidOK(s)'
      /\ (Broker!Finished(s)' <=> Broker!Finished(s))
      /\ \A t \in Session : t # s => said'[t] = said[t]
  BY <1>1, FinishedSame, SaidSame DEF BrokerInv, Types, SessionOK
<1>0. PICK x \in Entries : x = entry[s]  BY DEF BrokerInv, Types
<1>3. PICK e : e = [x EXCEPT !.state = "open"]  OBVIOUS
<1>4. e \in Entries /\ e.state = "open" /\ e.told = entry[s].told
  <2>1. x \in [state : {"none", "connecting", "open"}, told : {"no", "session", "end_all"}]
    BY DEF Entries
  <2>2. e \in [state : {"none", "connecting", "open"}, told : {"no", "session", "end_all"}]
    BY <1>3, <2>1
  <2>3. e.state = "open" /\ e.told = x.told  BY <1>3, <2>1
  <2> QED  BY <1>0, <2>2, <2>3 DEF Entries
<1>5. \/ worker' = [worker EXCEPT ![s] = "over"] /\ entry' = entry
         /\ ~(Broker!Entered(s) /\ entry[s].told = "no")
      \/ worker' = [worker EXCEPT ![s] = "promoted"] /\ entry' = [entry EXCEPT ![s] = e]
         /\ Broker!Entered(s) /\ entry[s].told = "no"
  BY <1>0, <1>3 DEF Broker!Promote
<1>6. /\ worker[s] = "connected" /\ worker'[s] \in {"over", "promoted"}
      /\ worker' \in [Session -> {"none", "over", "done"} \cup Before \cup Inside]
      /\ \A t \in Session : t # s => worker'[t] = worker[t] /\ entry'[t] = entry[t]
  BY <1>5 DEF BrokerInv, Types, Broker!Promote, Before, Inside
<1>7. entry' \in [Session -> Entries]
  <2>1. entry \in [Session -> Entries]  BY DEF BrokerInv, Types
  <2>2. entry' = entry \/ entry' = [entry EXCEPT ![s] = e]  BY <1>5
  <2> QED  BY <1>4, <2>1, <2>2
<1>8. UNCHANGED <<quitting, job, jobCancel, reader, teller, ender, endAll, present, token,
                  waiting,
                  ownerGone, gone, quitReason, shell, closers, printed, settled, ended,
                  forwarding, size, ptySize, shellSize, hungup, asks>>
  BY DEF Broker!Promote
<1>9. Types'  BY <1>2, <1>6, <1>7, <1>8 DEF BrokerInv, Types
<1>10. \A t \in Session \ {s} : BrokerSame(t)  BY <1>2, <1>6, <1>8 DEF BrokerSame
<1>11. Told(s)' <=> Told(s)  BY <1>2, <1>8 DEF Told
<1>12. EntryOK(s) /\ TellerOK(s) /\ ClientOK(s) /\ ShellOK(s)  BY DEF BrokerInv, SessionOK
<1>13. CASE worker' = [worker EXCEPT ![s] = "over"] /\ entry' = entry
            /\ ~(Broker!Entered(s) /\ entry[s].told = "no")
  <2>1. worker'[s] = "over"  BY <1>13 DEF BrokerInv, Types
  <2>2. Broker!Entered(s)' <=> Broker!Entered(s)  BY <1>13 DEF Broker!Entered
  <2>3. ~(Broker!Entered(s) /\ entry[s].told # "end_all")
    <3>1. entry[s].told # "session"  BY <1>6, <1>12 DEF EntryOK
    <3>2. entry[s].told \in {"no", "session", "end_all"}  BY DEF BrokerInv, Types, Entries
    <3> QED  BY <3>1, <3>2, <1>13
  <2>4. EntryOK(s)'
    BY <1>6, <1>8, <1>11, <1>12, <1>13, <2>1, <2>2, <2>3, <1>1 DEF EntryOK, Inside
  <2>5. TellerOK(s)'  BY <1>6, <1>8, <1>11, <1>12, <1>13, <2>1, <2>2 DEF TellerOK
  <2>6. ClientOK(s)'  BY <1>2, <1>8, <1>11, <1>12, <2>1 DEF ClientOK, Before, Inside
  <2>7. ShellOK(s)'  BY <1>6, <1>8, <1>12, <2>1 DEF ShellOK
  <2>8. SessionOK(s)'  BY <1>2, <2>4, <2>5, <2>6, <2>7 DEF SessionOK
  <2> QED  BY <1>8, <1>9, <1>10, <2>8, OneSession DEF Broker!Promote
<1>14. CASE worker' = [worker EXCEPT ![s] = "promoted"] /\ entry' = [entry EXCEPT ![s] = e]
            /\ Broker!Entered(s) /\ entry[s].told = "no"
  <2>1. worker'[s] = "promoted" /\ entry'[s] = e  BY <1>14 DEF BrokerInv, Types
  <2>2. Broker!Entered(s)'  BY <2>1, <1>4 DEF Broker!Entered, Broker!NoEntry
  <2>3. teller[s] = "none"
    <3>1. teller[s] \in {"none", "done"} \cup Telling  BY DEF BrokerInv, Types
    <3> QED  BY <3>1, <1>12, <1>14 DEF TellerOK
  <2>4. EntryOK(s)'
    BY <1>1, <1>4, <1>6, <1>8, <1>11, <1>12, <1>14, <2>1, <2>2 DEF EntryOK, Inside
  <2>5. TellerOK(s)'
    BY <1>4, <1>8, <1>12, <1>14, <2>1, <2>3 DEF TellerOK, Telling
  <2>6. ClientOK(s)'
    BY <1>2, <1>6, <1>8, <1>11, <1>12, <2>1, <2>3 DEF ClientOK, Before, Inside
  <2>7. ShellOK(s)'  BY <1>6, <1>8, <1>12, <2>1 DEF ShellOK
  <2>8. SessionOK(s)'  BY <1>2, <2>4, <2>5, <2>6, <2>7 DEF SessionOK
  <2> QED  BY <1>8, <1>9, <1>10, <2>8, OneSession DEF Broker!Promote
<1> QED  BY <1>5, <1>13, <1>14

LEMMA BeforeShellOK ==
    ASSUME BrokerInv, NEW s \in Session, Broker!BeforeShell(s)
    PROVE  BrokerInv'
<1> USE DEF Broker!table, Broker!owner, Broker!control, Broker!sizes, Broker!client,
     Broker!Set, Broker!Goes
<1>1. /\ worker[s] = "promoted" /\ Broker!Up
      /\ UNCHANGED <<entry, quitting, job, jobCancel, reader, teller, ender, endAll,
                      present, token, waiting, ownerGone, gone, quitReason, shell,
                      closers, printed, settled, ended, forwarding, size,
                      shellSize, hungup, asks>>
  BY DEF Broker!BeforeShell
<1>2. CASE Broker!Over(s)
  <2>1. worker' = [worker EXCEPT ![s] = "over"] /\ ptySize' = ptySize
    BY <1>2 DEF Broker!BeforeShell
  <2>2. (gone[s] /\ said' = said) \/ Broker!Say(s, <<"quit", "exited">>)
    BY <1>2 DEF Broker!BeforeShell, Broker!SayOver
  <2>3. (gone[s] /\ said' = said) \/ \E m \in Endings : Broker!Say(s, m)  BY <2>2 DEF Endings
  <2> QED  BY <1>1, <2>1, <2>3, GoesOver DEF Inside
<1>3. CASE ~Broker!Over(s)
  <2>1. worker' = [worker EXCEPT ![s] = "opening"] /\ ptySize' = [ptySize EXCEPT ![s] = size[s]]
    BY <1>3 DEF Broker!BeforeShell
  <2>2. said' = said  BY <1>3 DEF Broker!BeforeShell
  <2>3. SaidOK(s)' /\ (Broker!Finished(s)' <=> Broker!Finished(s))
    BY <2>2, FinishedSame, SaidSame DEF BrokerInv, SessionOK
  <2>4. /\ worker'[s] = "opening" /\ \A t \in Session : t # s => worker'[t] = worker[t]
        /\ worker' \in [Session -> {"none", "over", "done"} \cup Before \cup Inside]
    BY <2>1 DEF BrokerInv, Types, Inside
  <2>5. ptySize' \in [Session -> Nat]  BY <2>1 DEF BrokerInv, Types
  <2>6. Types'  BY <1>1, <2>2, <2>4, <2>5 DEF BrokerInv, Types
  <2>7. \A t \in Session \ {s} : BrokerSame(t)  BY <1>1, <2>2, <2>4 DEF BrokerSame
  <2>8. EntryOK(s) /\ TellerOK(s) /\ ClientOK(s) /\ ShellOK(s)  BY DEF BrokerInv, SessionOK
  <2>9. (Told(s)' <=> Told(s)) /\ (Broker!Entered(s)' <=> Broker!Entered(s))
    BY <1>1, <2>3 DEF Told, Broker!Entered
  <2>10. EntryOK(s)'  BY <1>1, <2>2, <2>4, <2>8, <2>9 DEF EntryOK, Inside
  <2>11. TellerOK(s)'  BY <1>1, <2>4, <2>8, <2>9 DEF TellerOK
  <2>12. ClientOK(s)'  BY <1>1, <2>3, <2>4, <2>8, <2>9 DEF ClientOK, Before, Inside
  <2>13. ShellOK(s)'  BY <1>1, <2>4, <2>8 DEF ShellOK
  <2>14. SessionOK(s)'  BY <2>3, <2>10, <2>11, <2>12, <2>13 DEF SessionOK
  <2> QED  BY <1>1, <2>6, <2>7, <2>14, OneSession
<1> QED  BY <1>2, <1>3

LEMMA ShellFailsOK ==
    ASSUME BrokerInv, NEW s \in Session, Broker!ShellFails(s)
    PROVE  BrokerInv'
<1> USE DEF Broker!table, Broker!owner, Broker!control, Broker!sizes, Broker!client,
     Broker!Set, Broker!Goes
<1>1. /\ worker[s] = "opening" /\ Broker!Up /\ worker' = [worker EXCEPT ![s] = "over"]
      /\ UNCHANGED <<entry, quitting, job, jobCancel, reader, teller, ender, endAll,
                      present, token, waiting, ownerGone, gone, quitReason, shell,
                      closers, printed, settled, ended, forwarding, size, ptySize,
                      shellSize, hungup, asks>>
  BY DEF Broker!ShellFails
<1>2. \/ gone[s] /\ said' = said
      \/ Broker!Say(s, <<"quit", "exited">>) \/ Broker!Say(s, <<"error", "exited">>)
  BY DEF Broker!ShellFails, Broker!SayOver
<1>3. (gone[s] /\ said' = said) \/ \E m \in Endings : Broker!Say(s, m)  BY <1>2 DEF Endings
<1> QED  BY <1>1, <1>3, GoesOver DEF Inside

LEMMA ShellOpensOK ==
    ASSUME BrokerInv, NEW s \in Session, Broker!ShellOpens(s)
    PROVE  BrokerInv'
<1> USE DEF Broker!table, Broker!owner, Broker!control, Broker!sizes, Broker!client,
     Broker!Set, Broker!Goes
<1>1. UNCHANGED said  BY DEF Broker!ShellOpens
<1>2. /\ said' \in [Session -> Seq(Message)] /\ SaidOK(s)'
      /\ (Broker!Finished(s)' <=> Broker!Finished(s))
      /\ \A t \in Session : t # s => said'[t] = said[t]
  BY <1>1, FinishedSame, SaidSame DEF BrokerInv, Types, SessionOK
<1>3. Types'
  BY <1>2 DEF BrokerInv, Types, Broker!ShellOpens, Before, Inside, ShellStates
<1>4. \A t \in Session \ {s} : BrokerSame(t)
  BY <1>2 DEF BrokerSame, BrokerInv, Types, Broker!ShellOpens
<1>5. EntryOK(s)'
  BY <1>2 DEF BrokerInv, Types, SessionOK, EntryOK, TellerOK, ClientOK, Told, Broker!Entered,
     Broker!NoEntry, Broker!ShellOpens, Before, Inside
<1>6. TellerOK(s)'
  BY <1>2 DEF BrokerInv, Types, SessionOK, EntryOK, TellerOK, Told, Broker!Entered,
     Broker!NoEntry, Broker!ShellOpens, Telling, Before, Inside
<1>7. ClientOK(s)'
  BY <1>2 DEF BrokerInv, Types, SessionOK, EntryOK, TellerOK, ClientOK, Told, Broker!ShellOpens,
     Telling, Before, Inside
<1>8. ShellOK(s)'
  BY DEF BrokerInv, Types, SessionOK, ShellOK, Broker!ShellOpens
<1>9. SessionOK(s)'  BY <1>2, <1>5, <1>6, <1>7, <1>8 DEF SessionOK
<1> QED  BY <1>3, <1>4, <1>9, OneSession DEF Broker!ShellOpens

LEMMA AnnounceOK ==
    ASSUME BrokerInv, NEW s \in Session, Broker!Announce(s)
    PROVE  BrokerInv'
<1> USE DEF Broker!table, Broker!owner, Broker!control, Broker!sizes, Broker!client,
     Broker!Set, Broker!Goes
<1>1. /\ worker[s] = "opened" /\ Broker!Up
      /\ UNCHANGED <<entry, quitting, job, jobCancel, reader, teller, ender, endAll,
                      present, token, waiting, ownerGone, quitReason, printed,
                      settled, ended, size, ptySize, shellSize, hungup, asks>>
  BY DEF Broker!Announce
<1>2. EntryOK(s) /\ TellerOK(s) /\ ClientOK(s) /\ ShellOK(s) /\ SaidOK(s)
  BY DEF BrokerInv, SessionOK
<1>3. CASE /\ ~Broker!Over(s) /\ ~hungup[s] /\ Broker!Say(s, <<"opened">>)
           /\ forwarding' = [forwarding EXCEPT ![s] = TRUE]
           /\ worker' = [worker EXCEPT ![s] = "sizing"] /\ UNCHANGED <<gone, closers, shell>>
  <2>1. /\ said' \in [Session -> Seq(Message)] /\ SaidOK(s)'
        /\ (Broker!Finished(s)' <=> Broker!Finished(s))
        /\ \A t \in Session : t # s => said'[t] = said[t]
    <3>1. <<"opened">> \in Notices  BY DEF Notices
    <3> QED  BY <1>2, <1>3, <3>1, SayNotice DEF BrokerInv, Types
  <2>2. /\ worker'[s] = "sizing" /\ \A t \in Session : t # s => worker'[t] = worker[t]
        /\ worker' \in [Session -> {"none", "over", "done"} \cup Before \cup Inside]
    BY <1>3 DEF BrokerInv, Types, Inside
  <2>3. /\ forwarding' \in [Session -> BOOLEAN]
        /\ \A t \in Session : t # s => forwarding'[t] = forwarding[t]
    BY <1>3 DEF BrokerInv, Types
  <2>4. Types'  BY <1>1, <1>3, <2>1, <2>2, <2>3 DEF BrokerInv, Types
  <2>5. \A t \in Session \ {s} : BrokerSame(t)  BY <1>1, <1>3, <2>1, <2>2, <2>3 DEF BrokerSame
  <2>6. (Told(s)' <=> Told(s)) /\ (Broker!Entered(s)' <=> Broker!Entered(s))
    BY <1>1, <2>1 DEF Told, Broker!Entered
  <2>7. EntryOK(s)'  BY <1>1, <1>2, <2>2, <2>6 DEF EntryOK, Inside
  <2>8. TellerOK(s)'  BY <1>1, <1>2, <2>2, <2>6 DEF TellerOK
  <2>9. ClientOK(s)'  BY <1>1, <1>2, <1>3, <2>1, <2>2, <2>6 DEF ClientOK, Before, Inside
  <2>10. ShellOK(s)'  BY <1>1, <1>2, <1>3, <2>2 DEF ShellOK
  <2>11. SessionOK(s)'  BY <2>1, <2>7, <2>8, <2>9, <2>10 DEF SessionOK
  <2> QED  BY <1>1, <2>4, <2>5, <2>11, OneSession
<1>4. CASE /\ Broker!Over(s) \/ ~present[s]
           /\ gone' = IF Broker!Over(s) THEN gone ELSE [gone EXCEPT ![s] = TRUE]
           /\ Broker!CloseSettled(s, "scope") /\ worker' = [worker EXCEPT ![s] = "running"]
           /\ UNCHANGED <<said, forwarding>>
  <2>1. SaidOK(s)' /\ (Broker!Finished(s)' <=> Broker!Finished(s))
    BY <1>2, <1>4, FinishedSame, SaidSame
  <2>2. /\ worker'[s] = "running" /\ \A t \in Session : t # s => worker'[t] = worker[t]
        /\ worker' \in [Session -> {"none", "over", "done"} \cup Before \cup Inside]
    BY <1>4 DEF BrokerInv, Types, Inside
  <2>3. /\ gone' \in [Session -> BOOLEAN]
        /\ \A t \in Session : t # s => gone'[t] = gone[t]
    BY <1>4 DEF BrokerInv, Types
  <2>4. shell' = shell /\ closers' \in [Session -> SUBSET {"reader", "scope", "quit"}]
    BY <1>4 DEF BrokerInv, Types, Broker!CloseSettled
  <2>5. Types'  BY <1>1, <1>4, <2>2, <2>3, <2>4 DEF BrokerInv, Types
  <2>6. \A t \in Session \ {s} : BrokerSame(t)  BY <1>1, <1>4, <2>2, <2>3, <2>4 DEF BrokerSame
  <2>7. (Told(s)' <=> Told(s)) /\ (Broker!Entered(s)' <=> Broker!Entered(s))
    BY <1>1, <2>1 DEF Told, Broker!Entered
  <2>8. gone'[s] = gone[s] \/ ~present[s]
    BY <1>4 DEF BrokerInv, Types
  <2>9. EntryOK(s)'  BY <1>1, <1>2, <1>4, <2>2, <2>7 DEF EntryOK, Inside
  <2>10. TellerOK(s)'  BY <1>1, <1>2, <2>2, <2>7 DEF TellerOK
  <2>11. ClientOK(s)'  BY <1>1, <1>2, <2>1, <2>2, <2>7, <2>8 DEF ClientOK, Before, Inside
  <2>12. ShellOK(s)'  BY <1>1, <1>2, <1>4, <2>2, <2>4 DEF ShellOK
  <2>13. SessionOK(s)'  BY <2>1, <2>9, <2>10, <2>11, <2>12 DEF SessionOK
  <2> QED  BY <1>1, <2>5, <2>6, <2>13, OneSession
<1> QED  BY <1>3, <1>4 DEF Broker!Announce

LEMMA SendSizeOK ==
    ASSUME BrokerInv, NEW s \in Session, Broker!SendSize(s)
    PROVE  BrokerInv'
<1> USE DEF Broker!table, Broker!owner, Broker!control, Broker!sizes, Broker!client,
     Broker!Set, Broker!Goes
<1>1. UNCHANGED said  BY DEF Broker!SendSize
<1>2. /\ said' \in [Session -> Seq(Message)] /\ SaidOK(s)'
      /\ (Broker!Finished(s)' <=> Broker!Finished(s))
      /\ \A t \in Session : t # s => said'[t] = said[t]
  BY <1>1, FinishedSame, SaidSame DEF BrokerInv, Types, SessionOK
<1>3. Types'
  BY <1>2 DEF BrokerInv, Types, Broker!SendSize, Before, Inside, Telling, Entries, Broker!NoEntry
<1>4. \A t \in Session \ {s} : BrokerSame(t)
  BY <1>2 DEF BrokerSame, BrokerInv, Types, Broker!SendSize
<1>5. EntryOK(s)'
  BY <1>2 DEF BrokerInv, Types, SessionOK, EntryOK, TellerOK, ClientOK, Told, Broker!Entered,
     Broker!NoEntry, Broker!SendSize, Before, Inside
<1>6. TellerOK(s)'
  BY <1>2 DEF BrokerInv, Types, SessionOK, EntryOK, TellerOK, Told, Broker!Entered,
     Broker!NoEntry, Broker!SendSize, Telling, Before, Inside
<1>7. ClientOK(s)'
  BY <1>2 DEF BrokerInv, Types, SessionOK, EntryOK, TellerOK, ClientOK, Told, Broker!SendSize,
     Telling, Before, Inside
<1>8. ShellOK(s)'
  BY DEF BrokerInv, Types, SessionOK, ShellOK, Broker!SendSize
<1>9. SessionOK(s)'  BY <1>2, <1>5, <1>6, <1>7, <1>8 DEF SessionOK
<1> QED  BY <1>3, <1>4, <1>9, OneSession DEF Broker!SendSize

LEMMA OutputOK ==
    ASSUME BrokerInv, NEW s \in Session, Broker!Output(s)
    PROVE  BrokerInv'
<1> USE DEF Broker!table, Broker!owner, Broker!control, Broker!sizes, Broker!client,
     Broker!Set, Broker!Goes
<1>1. UNCHANGED said  BY DEF Broker!Output
<1>2. /\ said' \in [Session -> Seq(Message)] /\ SaidOK(s)'
      /\ (Broker!Finished(s)' <=> Broker!Finished(s))
      /\ \A t \in Session : t # s => said'[t] = said[t]
  BY <1>1, FinishedSame, SaidSame DEF BrokerInv, Types, SessionOK
<1>3. Types'
  <2>1. UNCHANGED <<entry, quitting, job, jobCancel, reader, worker, teller, ender, endAll,
                    present, token, waiting, ownerGone, quitReason, closers, settled, ended,
                    size, ptySize, shellSize, hungup, asks>>
    BY DEF Broker!Output
  <2>2. printed' \in [Session -> BOOLEAN]
    BY DEF BrokerInv, Types, Broker!Output
  <2>3. gone' \in [Session -> BOOLEAN]
    BY DEF BrokerInv, Types, Broker!Output
  <2>4. forwarding' \in [Session -> BOOLEAN]
    BY DEF BrokerInv, Types, Broker!Output
  <2>5. shell' \in [Session -> ShellStates]
    <3>1. shell' = shell \/ shell' = [shell EXCEPT ![s] = "closed"]  BY DEF Broker!Output
    <3>2. shell \in [Session -> ShellStates]  BY DEF BrokerInv, Types
    <3>3. "closed" \in ShellStates  BY DEF ShellStates
    <3> QED  BY <3>1, <3>2, <3>3
  <2> QED  BY <1>2, <2>1, <2>2, <2>3, <2>4, <2>5 DEF BrokerInv, Types
<1>4. \A t \in Session \ {s} : BrokerSame(t)
  BY <1>2 DEF BrokerSame, BrokerInv, Types, Broker!Output
<1>5. EntryOK(s)'
  BY <1>2 DEF BrokerInv, Types, SessionOK, EntryOK, TellerOK, ClientOK, Told, Broker!Entered,
     Broker!NoEntry, Broker!Output, Before, Inside
<1>6. TellerOK(s)'
  BY <1>2 DEF BrokerInv, Types, SessionOK, EntryOK, TellerOK, Told, Broker!Entered,
     Broker!NoEntry, Broker!Output, Telling, Before, Inside
<1>7. ClientOK(s)'
  BY <1>2 DEF BrokerInv, Types, SessionOK, EntryOK, TellerOK, ClientOK, Told, Broker!Output,
     Telling, Before, Inside
<1>8. ShellOK(s)'
  BY DEF BrokerInv, Types, SessionOK, ShellOK, Broker!Output
<1>9. SessionOK(s)'  BY <1>2, <1>5, <1>6, <1>7, <1>8 DEF SessionOK
<1> QED  BY <1>3, <1>4, <1>9, OneSession DEF Broker!Output

LEMMA ShellEndsOK ==
    ASSUME BrokerInv, NEW s \in Session, Broker!ShellEnds(s)
    PROVE  BrokerInv'
<1> USE DEF Broker!table, Broker!owner, Broker!control, Broker!sizes, Broker!client,
     Broker!Set, Broker!Goes
<1>1. UNCHANGED said  BY DEF Broker!ShellEnds
<1>2. /\ said' \in [Session -> Seq(Message)] /\ SaidOK(s)'
      /\ (Broker!Finished(s)' <=> Broker!Finished(s))
      /\ \A t \in Session : t # s => said'[t] = said[t]
  BY <1>1, FinishedSame, SaidSame DEF BrokerInv, Types, SessionOK
<1>10. PICK how \in ShellStates : /\ shell' = [shell EXCEPT ![s] = how]
                                  /\ how \notin {"none", "open"}
                                  /\ how = "closed" => shell[s] = "closed"
  BY DEF Broker!ShellEnds, ShellStates
<1>3. Types'
  <2>1. /\ ended' = [ended EXCEPT ![s] = TRUE] /\ worker' = [worker EXCEPT ![s] = "ended"]
        /\ UNCHANGED <<entry, quitting, job, jobCancel, reader, teller, ender, endAll, present,
                       token, waiting, ownerGone, gone, quitReason, closers, printed, settled,
                       forwarding, size, ptySize, shellSize, hungup, asks>>
    BY DEF Broker!ShellEnds
  <2>2. shell' \in [Session -> ShellStates]
    <3>1. shell \in [Session -> ShellStates]  BY DEF BrokerInv, Types
    <3> QED  BY <1>10, <3>1
  <2>3. ended' \in [Session -> BOOLEAN]  BY <2>1 DEF BrokerInv, Types
  <2>4. worker' \in [Session -> {"none", "over", "done"} \cup Before \cup Inside]
    BY <2>1 DEF BrokerInv, Types, Inside
  <2> QED  BY <1>2, <2>1, <2>2, <2>3, <2>4 DEF BrokerInv, Types
<1>4. \A t \in Session \ {s} : BrokerSame(t)
  BY <1>2, <1>10 DEF BrokerSame, BrokerInv, Types, Broker!ShellEnds
<1>5. EntryOK(s)'
  BY <1>2 DEF BrokerInv, Types, SessionOK, EntryOK, TellerOK, ClientOK, Told, Broker!Entered,
     Broker!NoEntry, Broker!ShellEnds, Before, Inside
<1>6. TellerOK(s)'
  BY <1>2 DEF BrokerInv, Types, SessionOK, EntryOK, TellerOK, Told, Broker!Entered,
     Broker!NoEntry, Broker!ShellEnds, Telling, Before, Inside
<1>7. ClientOK(s)'
  BY <1>2 DEF BrokerInv, Types, SessionOK, EntryOK, TellerOK, ClientOK, Told, Broker!ShellEnds,
     Telling, Before, Inside
<1>8. ShellOK(s)'
  BY <1>10 DEF BrokerInv, Types, SessionOK, ShellOK, Broker!ShellEnds
<1>9. SessionOK(s)'  BY <1>2, <1>5, <1>6, <1>7, <1>8 DEF SessionOK
<1> QED  BY <1>3, <1>4, <1>9, OneSession DEF Broker!ShellEnds

LEMMA TellEndingOK ==
    ASSUME BrokerInv, NEW s \in Session, Broker!TellEnding(s)
    PROVE  BrokerInv'
<1> USE DEF Broker!table, Broker!owner, Broker!control, Broker!sizes, Broker!client,
     Broker!Set, Broker!Goes
<1>1. /\ worker[s] = "ended" /\ Broker!Up /\ worker' = [worker EXCEPT ![s] = "over"]
      /\ UNCHANGED <<entry, quitting, job, jobCancel, reader, teller, ender, endAll,
                      present, token, waiting, ownerGone, gone, quitReason, shell,
                      closers, printed, settled, ended, forwarding, size, ptySize,
                      shellSize, hungup, asks>>
  BY DEF Broker!TellEnding
<1>2. \/ gone[s] /\ said' = said
      \/ Broker!Say(s, <<"exited">>) \/ Broker!Say(s, <<"error", "exited">>)
      \/ Broker!Say(s, <<"quit", "exited">>) \/ Broker!Say(s, <<"lost", "exited">>)
  BY DEF Broker!TellEnding
<1>3. (gone[s] /\ said' = said) \/ \E m \in Endings : Broker!Say(s, m)  BY <1>2 DEF Endings
<1> QED  BY <1>1, <1>3, GoesOver DEF Inside

LEMMA ForgetOK ==
    ASSUME BrokerInv, NEW s \in Session, Broker!Forget(s)
    PROVE  BrokerInv'
<1> USE DEF Broker!table, Broker!owner, Broker!control, Broker!sizes, Broker!client,
     Broker!Set, Broker!Goes
<1>1. UNCHANGED said  BY DEF Broker!Forget
<1>2. /\ said' \in [Session -> Seq(Message)] /\ SaidOK(s)'
      /\ (Broker!Finished(s)' <=> Broker!Finished(s))
      /\ \A t \in Session : t # s => said'[t] = said[t]
  BY <1>1, FinishedSame, SaidSame DEF BrokerInv, Types, SessionOK
<1>3. Types'
  <2>1. UNCHANGED <<quitting, job, jobCancel, reader, teller, ender, endAll, present, token,
                    waiting, ownerGone, gone, quitReason, shell, closers, printed, settled,
                    ended, forwarding, size, ptySize, shellSize, asks>>
    BY DEF Broker!Forget
  <2>2. entry' \in [Session -> Entries]
    <3>1. entry' = entry \/ entry' = [entry EXCEPT ![s] = Broker!NoEntry]  BY DEF Broker!Forget
    <3>2. entry \in [Session -> Entries]  BY DEF BrokerInv, Types
    <3>3. Broker!NoEntry \in Entries  BY DEF Broker!NoEntry, Entries
    <3> QED  BY <3>1, <3>2, <3>3
  <2>3. hungup' \in [Session -> BOOLEAN]
    BY DEF BrokerInv, Types, Broker!Forget
  <2>4. worker' \in [Session -> {"none", "over", "done"} \cup Before \cup Inside]
    BY DEF BrokerInv, Types, Before, Inside, Broker!Forget
  <2> QED  BY <1>2, <2>1, <2>2, <2>3, <2>4 DEF BrokerInv, Types
<1>4. \A t \in Session \ {s} : BrokerSame(t)
  BY <1>2 DEF BrokerSame, BrokerInv, Types, Broker!Forget
<1>5. EntryOK(s)'
  BY <1>2 DEF BrokerInv, Types, SessionOK, EntryOK, TellerOK, ClientOK, Told, Broker!Entered,
     Broker!NoEntry, Broker!Forget, Before, Inside
<1>6. TellerOK(s)'
  BY <1>2 DEF BrokerInv, Types, SessionOK, EntryOK, TellerOK, Told, Broker!Entered,
     Broker!NoEntry, Broker!Forget, Telling, Before, Inside
<1>7. ClientOK(s)'
  BY <1>2 DEF BrokerInv, Types, SessionOK, EntryOK, TellerOK, ClientOK, Told, Broker!Forget,
     Telling, Before, Inside
<1>8. ShellOK(s)'
  BY DEF BrokerInv, Types, SessionOK, ShellOK, Broker!Forget
<1>9. SessionOK(s)'  BY <1>2, <1>5, <1>6, <1>7, <1>8 DEF SessionOK
<1> QED  BY <1>3, <1>4, <1>9, OneSession DEF Broker!Forget

LEMMA SettlePassesOK ==
    ASSUME BrokerInv, NEW s \in Session, Broker!SettlePasses(s)
    PROVE  BrokerInv'
<1> USE DEF Broker!table, Broker!owner, Broker!control, Broker!sizes, Broker!client,
     Broker!Set, Broker!Goes
<1>1. UNCHANGED said  BY DEF Broker!SettlePasses
<1>2. /\ said' \in [Session -> Seq(Message)] /\ SaidOK(s)'
      /\ (Broker!Finished(s)' <=> Broker!Finished(s))
      /\ \A t \in Session : t # s => said'[t] = said[t]
  BY <1>1, FinishedSame, SaidSame DEF BrokerInv, Types, SessionOK
<1>3. Types'
  BY <1>2 DEF BrokerInv, Types, Broker!SettlePasses, Before, Inside, Telling, Entries,
     Broker!NoEntry
<1>4. \A t \in Session \ {s} : BrokerSame(t)
  BY <1>2 DEF BrokerSame, BrokerInv, Types, Broker!SettlePasses
<1>5. EntryOK(s)'
  BY <1>2 DEF BrokerInv, Types, SessionOK, EntryOK, TellerOK, ClientOK, Told, Broker!Entered,
     Broker!NoEntry, Broker!SettlePasses, Before, Inside
<1>6. TellerOK(s)'
  BY <1>2 DEF BrokerInv, Types, SessionOK, EntryOK, TellerOK, Told, Broker!Entered,
     Broker!NoEntry, Broker!SettlePasses, Telling, Before, Inside
<1>7. ClientOK(s)'
  BY <1>2 DEF BrokerInv, Types, SessionOK, EntryOK, TellerOK, ClientOK, Told,
     Broker!SettlePasses, Telling, Before, Inside
<1>8. ShellOK(s)'
  BY DEF BrokerInv, Types, SessionOK, ShellOK, Broker!SettlePasses
<1>9. SessionOK(s)'  BY <1>2, <1>5, <1>6, <1>7, <1>8 DEF SessionOK
<1> QED  BY <1>3, <1>4, <1>9, OneSession DEF Broker!SettlePasses

LEMMA CloseNowOK ==
    ASSUME BrokerInv, NEW s \in Session, NEW who \in {"reader", "scope", "quit"},
           Broker!CloseNow(s, who)
    PROVE  BrokerInv'
<1> USE DEF Broker!table, Broker!owner, Broker!control, Broker!sizes, Broker!client,
     Broker!Set, Broker!Goes
<1>1. UNCHANGED said  BY DEF Broker!CloseNow
<1>2. /\ said' \in [Session -> Seq(Message)] /\ SaidOK(s)'
      /\ (Broker!Finished(s)' <=> Broker!Finished(s))
      /\ \A t \in Session : t # s => said'[t] = said[t]
  BY <1>1, FinishedSame, SaidSame DEF BrokerInv, Types, SessionOK
<1>3. Types'
  BY <1>2 DEF BrokerInv, Types, Broker!CloseNow, ShellStates
<1>4. \A t \in Session \ {s} : BrokerSame(t)
  BY <1>2 DEF BrokerSame, BrokerInv, Types, Broker!CloseNow
<1>5. EntryOK(s)'
  BY <1>2 DEF BrokerInv, Types, SessionOK, EntryOK, TellerOK, ClientOK, Told, Broker!Entered,
     Broker!NoEntry, Broker!CloseNow, Before, Inside
<1>6. TellerOK(s)'
  BY <1>2 DEF BrokerInv, Types, SessionOK, EntryOK, TellerOK, Told, Broker!Entered,
     Broker!NoEntry, Broker!CloseNow, Telling, Before, Inside
<1>7. ClientOK(s)'
  BY <1>2 DEF BrokerInv, Types, SessionOK, EntryOK, TellerOK, ClientOK, Told, Broker!CloseNow,
     Telling, Before, Inside
<1>8. ShellOK(s)'
  BY DEF BrokerInv, Types, SessionOK, ShellOK, Broker!CloseNow
<1>9. SessionOK(s)'  BY <1>2, <1>5, <1>6, <1>7, <1>8 DEF SessionOK
<1> QED  BY <1>3, <1>4, <1>9, OneSession DEF Broker!CloseNow

LEMMA TellerCancelsOK ==
    ASSUME BrokerInv, NEW s \in Session, Broker!TellerCancels(s)
    PROVE  BrokerInv'
<1> USE DEF Broker!table, Broker!owner, Broker!control, Broker!sizes, Broker!client,
     Broker!Set, Broker!Goes
<1>1. UNCHANGED said  BY DEF Broker!TellerCancels
<1>2. /\ said' \in [Session -> Seq(Message)] /\ SaidOK(s)'
      /\ (Broker!Finished(s)' <=> Broker!Finished(s))
      /\ \A t \in Session : t # s => said'[t] = said[t]
  BY <1>1, FinishedSame, SaidSame DEF BrokerInv, Types, SessionOK
<1>3. Types'
  BY <1>2 DEF BrokerInv, Types, Broker!TellerCancels, Before, Inside, Telling, Entries,
     Broker!NoEntry
<1>4. \A t \in Session \ {s} : BrokerSame(t)
  BY <1>2 DEF BrokerSame, BrokerInv, Types, Broker!TellerCancels
<1>5. EntryOK(s)'
  BY <1>2 DEF BrokerInv, Types, SessionOK, EntryOK, TellerOK, ClientOK, Told, Broker!Entered,
     Broker!NoEntry, Broker!TellerCancels, Before, Inside
<1>6. TellerOK(s)'
  BY <1>2 DEF BrokerInv, Types, SessionOK, EntryOK, TellerOK, Told, Broker!Entered,
     Broker!NoEntry, Broker!TellerCancels, Telling, Before, Inside
<1>7. ClientOK(s)'
  BY <1>2 DEF BrokerInv, Types, SessionOK, EntryOK, TellerOK, ClientOK, Told,
     Broker!TellerCancels, Telling, Before, Inside
<1>8. ShellOK(s)'
  BY DEF BrokerInv, Types, SessionOK, ShellOK, Broker!TellerCancels
<1>9. SessionOK(s)'  BY <1>2, <1>5, <1>6, <1>7, <1>8 DEF SessionOK
<1> QED  BY <1>3, <1>4, <1>9, OneSession DEF Broker!TellerCancels

LEMMA TellerSaysOK ==
    ASSUME BrokerInv, NEW s \in Session, Broker!TellerSays(s)
    PROVE  BrokerInv'
<1> USE DEF Broker!table, Broker!owner, Broker!control, Broker!sizes, Broker!client,
     Broker!Set, Broker!Goes
<1>1. Broker!Say(s, <<"quit", "exited">>) /\ <<"quit", "exited">> \in Endings
  BY DEF Broker!TellerSays, Endings
<1>2. /\ said' \in [Session -> Seq(Message)] /\ SaidOK(s)'
      /\ (Broker!Finished(s)' \/ hungup[s]) /\ (Broker!Finished(s) => Broker!Finished(s)')
      /\ \A t \in Session : t # s => said'[t] = said[t]
  BY <1>1, SayEnding DEF BrokerInv, Types, SessionOK
<1>3. Types'
  BY <1>2 DEF BrokerInv, Types, Broker!TellerSays, Before, Inside, Telling, Entries,
     Broker!NoEntry
<1>4. \A t \in Session \ {s} : BrokerSame(t)
  BY <1>2 DEF BrokerSame, BrokerInv, Types, Broker!TellerSays
<1>5. EntryOK(s)'
  BY <1>2 DEF BrokerInv, Types, SessionOK, EntryOK, TellerOK, ClientOK, Told, Broker!Entered,
     Broker!NoEntry, Broker!TellerSays, Before, Inside
<1>6. TellerOK(s)'
  <2>1. UNCHANGED <<entry, worker, present, hungup>> /\ teller[s] = "say" /\ teller'[s] = "hangup"
    BY DEF BrokerInv, Types, Broker!TellerSays
  <2>2. Told(s)'  BY <1>2, <2>1 DEF BrokerInv, SessionOK, ClientOK, Told
  <2> QED  BY <2>1, <2>2 DEF BrokerInv, SessionOK, TellerOK, Telling, Broker!Entered
<1>7. ClientOK(s)'
  <2>1. /\ UNCHANGED <<reader, worker, present, hungup, gone, token>>
        /\ teller[s] = "say" /\ teller'[s] = "hangup"
    BY DEF BrokerInv, Types, Broker!TellerSays
  <2>2. worker[s] \notin Inside
    BY <2>1 DEF BrokerInv, SessionOK, EntryOK, TellerOK, Telling
  <2>3. Told(s)'  BY <1>2, <2>1 DEF BrokerInv, SessionOK, ClientOK, Told
  <2> QED  BY <2>1, <2>2, <2>3 DEF BrokerInv, SessionOK, ClientOK
<1>8. ShellOK(s)'
  BY DEF BrokerInv, Types, SessionOK, ShellOK, Broker!TellerSays
<1>9. SessionOK(s)'  BY <1>2, <1>5, <1>6, <1>7, <1>8 DEF SessionOK
<1> QED  BY <1>3, <1>4, <1>9, OneSession DEF Broker!TellerSays

LEMMA TellerHangsUpOK ==
    ASSUME BrokerInv, NEW s \in Session, Broker!TellerHangsUp(s)
    PROVE  BrokerInv'
<1> USE DEF Broker!table, Broker!owner, Broker!control, Broker!sizes, Broker!client,
     Broker!Set, Broker!Goes
<1>1. UNCHANGED said  BY DEF Broker!TellerHangsUp
<1>2. /\ said' \in [Session -> Seq(Message)] /\ SaidOK(s)'
      /\ (Broker!Finished(s)' <=> Broker!Finished(s))
      /\ \A t \in Session : t # s => said'[t] = said[t]
  BY <1>1, FinishedSame, SaidSame DEF BrokerInv, Types, SessionOK
<1>3. Types'
  BY <1>2 DEF BrokerInv, Types, Broker!TellerHangsUp, Before, Inside, Telling, Entries,
     Broker!NoEntry
<1>4. \A t \in Session \ {s} : BrokerSame(t)
  BY <1>2 DEF BrokerSame, BrokerInv, Types, Broker!TellerHangsUp
<1>5. EntryOK(s)'
  BY <1>2 DEF BrokerInv, Types, SessionOK, EntryOK, TellerOK, ClientOK, Told, Broker!Entered,
     Broker!NoEntry, Broker!TellerHangsUp, Before, Inside
<1>6. TellerOK(s)'
  BY <1>2 DEF BrokerInv, Types, SessionOK, EntryOK, TellerOK, Told, Broker!Entered,
     Broker!NoEntry, Broker!TellerHangsUp, Telling, Before, Inside
<1>7. ClientOK(s)'
  BY <1>2 DEF BrokerInv, Types, SessionOK, EntryOK, TellerOK, ClientOK, Told,
     Broker!TellerHangsUp, Telling, Before, Inside
<1>8. ShellOK(s)'
  BY DEF BrokerInv, Types, SessionOK, ShellOK, Broker!TellerHangsUp
<1>9. SessionOK(s)'  BY <1>2, <1>5, <1>6, <1>7, <1>8 DEF SessionOK
<1> QED  BY <1>3, <1>4, <1>9, OneSession DEF Broker!TellerHangsUp

LEMMA TellerRemovesOK ==
    ASSUME BrokerInv, NEW s \in Session, Broker!TellerRemoves(s)
    PROVE  BrokerInv'
<1> USE DEF Broker!table, Broker!owner, Broker!control, Broker!sizes, Broker!client,
     Broker!Set, Broker!Goes
<1>1. UNCHANGED said  BY DEF Broker!TellerRemoves
<1>2. /\ said' \in [Session -> Seq(Message)] /\ SaidOK(s)'
      /\ (Broker!Finished(s)' <=> Broker!Finished(s))
      /\ \A t \in Session : t # s => said'[t] = said[t]
  BY <1>1, FinishedSame, SaidSame DEF BrokerInv, Types, SessionOK
<1>3. Types'
  BY <1>2 DEF BrokerInv, Types, Broker!TellerRemoves, Before, Inside, Telling, Entries,
     Broker!NoEntry
<1>4. \A t \in Session \ {s} : BrokerSame(t)
  BY <1>2 DEF BrokerSame, BrokerInv, Types, Broker!TellerRemoves
<1>5. EntryOK(s)'
  BY <1>2 DEF BrokerInv, Types, SessionOK, EntryOK, TellerOK, ClientOK, Told, Broker!Entered,
     Broker!NoEntry, Broker!TellerRemoves, Before, Inside
<1>6. TellerOK(s)'
  BY <1>2 DEF BrokerInv, Types, SessionOK, EntryOK, TellerOK, Told, Broker!Entered,
     Broker!NoEntry, Broker!TellerRemoves, Telling, Before, Inside
<1>7. ClientOK(s)'
  BY <1>2 DEF BrokerInv, Types, SessionOK, EntryOK, TellerOK, ClientOK, Told,
     Broker!TellerRemoves, Telling, Before, Inside
<1>8. ShellOK(s)'
  BY DEF BrokerInv, Types, SessionOK, ShellOK, Broker!TellerRemoves
<1>9. SessionOK(s)'  BY <1>2, <1>5, <1>6, <1>7, <1>8 DEF SessionOK
<1> QED  BY <1>3, <1>4, <1>9, OneSession DEF Broker!TellerRemoves

LEMMA EnderEndsOK ==
    ASSUME BrokerInv, NEW s \in Session, Broker!EnderEnds(s)
    PROVE  BrokerInv'
<1> USE DEF Broker!table, Broker!owner, Broker!control, Broker!sizes, Broker!client,
     Broker!Set, Broker!Goes
<1>1. UNCHANGED said  BY DEF Broker!EnderEnds
<1>2. /\ said' \in [Session -> Seq(Message)] /\ SaidOK(s)'
      /\ (Broker!Finished(s)' <=> Broker!Finished(s))
      /\ \A t \in Session : t # s => said'[t] = said[t]
  BY <1>1, FinishedSame, SaidSame DEF BrokerInv, Types, SessionOK
<1>3. Types'
  BY <1>2 DEF BrokerInv, Types, Broker!EnderEnds, Before, Inside, Telling, Entries, Broker!NoEntry
<1>4. \A t \in Session \ {s} : BrokerSame(t)
  BY <1>2 DEF BrokerSame, BrokerInv, Types, Broker!EnderEnds
<1>5. EntryOK(s)'
  BY <1>2 DEF BrokerInv, Types, SessionOK, EntryOK, TellerOK, ClientOK, Told, Broker!Entered,
     Broker!NoEntry, Broker!EnderEnds, Before, Inside
<1>6. TellerOK(s)'
  BY <1>2 DEF BrokerInv, Types, SessionOK, EntryOK, TellerOK, Told, Broker!Entered,
     Broker!NoEntry, Broker!EnderEnds, Telling, Before, Inside
<1>7. ClientOK(s)'
  BY <1>2 DEF BrokerInv, Types, SessionOK, EntryOK, TellerOK, ClientOK, Told, Broker!EnderEnds,
     Telling, Before, Inside
<1>8. ShellOK(s)'
  BY DEF BrokerInv, Types, SessionOK, ShellOK, Broker!EnderEnds
<1>9. SessionOK(s)'  BY <1>2, <1>5, <1>6, <1>7, <1>8 DEF SessionOK
<1> QED  BY <1>3, <1>4, <1>9, OneSession DEF Broker!EnderEnds

LEMMA EnderClosesOK ==
    ASSUME BrokerInv, NEW s \in Session, Broker!EnderCloses(s)
    PROVE  BrokerInv'
<1> USE DEF Broker!table, Broker!owner, Broker!control, Broker!sizes, Broker!client,
     Broker!Set, Broker!Goes
<1>1. UNCHANGED said  BY DEF Broker!EnderCloses
<1>2. /\ said' \in [Session -> Seq(Message)] /\ SaidOK(s)'
      /\ (Broker!Finished(s)' <=> Broker!Finished(s))
      /\ \A t \in Session : t # s => said'[t] = said[t]
  BY <1>1, FinishedSame, SaidSame DEF BrokerInv, Types, SessionOK
<1>3. Types'
  BY <1>2 DEF BrokerInv, Types, Broker!EnderCloses, Broker!CloseSettled, Before, Inside, Telling,
     Entries, Broker!NoEntry
<1>4. \A t \in Session \ {s} : BrokerSame(t)
  BY <1>2 DEF BrokerSame, BrokerInv, Types, Broker!EnderCloses, Broker!CloseSettled
<1>5. EntryOK(s)'
  BY <1>2 DEF BrokerInv, Types, SessionOK, EntryOK, TellerOK, ClientOK, Told, Broker!Entered,
     Broker!NoEntry, Broker!EnderCloses, Broker!CloseSettled, Before, Inside
<1>6. TellerOK(s)'
  BY <1>2 DEF BrokerInv, Types, SessionOK, EntryOK, TellerOK, Told, Broker!Entered,
     Broker!NoEntry, Broker!EnderCloses, Broker!CloseSettled, Telling, Before, Inside
<1>7. ClientOK(s)'
  BY <1>2 DEF BrokerInv, Types, SessionOK, EntryOK, TellerOK, ClientOK, Told, Broker!EnderCloses,
     Broker!CloseSettled, Telling, Before, Inside
<1>8. ShellOK(s)'
  BY DEF BrokerInv, Types, SessionOK, ShellOK, Broker!EnderCloses, Broker!CloseSettled
<1>9. SessionOK(s)'  BY <1>2, <1>5, <1>6, <1>7, <1>8 DEF SessionOK
<1> QED  BY <1>3, <1>4, <1>9, OneSession DEF Broker!EnderCloses

-----------------------------------------------------------------------------
(* The jobs and end_all().                                                 *)

(* A step that touches no session.                                         *)
LEMMA NoSession ==
    ASSUME BrokerInv, UNCHANGED <<entry, reader, worker, teller, ender, Broker!owner,
                                  Broker!control, forwarding,
                                  Broker!sizes, Broker!client, asks>>,
           quitting' \in BOOLEAN, job' \in [Job -> {"new", "running", "over"}],
           jobCancel' \in [Job -> BOOLEAN], endAll' \in {"no", "waiting", "returned", "timedout"},
           Broker!JobsCancelled', endAll' = "returned" => \A s \in Session : ~Broker!Entered(s)
    PROVE  BrokerInv'
<1>1. Types'  BY DEF BrokerInv, Types, Broker!owner, Broker!control, Broker!sizes, Broker!client
<1>2. ASSUME NEW t \in Session PROVE SessionOK(t)'
  <2>1. BrokerSame(t)
    BY DEF BrokerSame, Broker!owner, Broker!control, Broker!sizes, Broker!client
  <2> QED  BY <2>1, BrokerUntouched DEF BrokerInv
<1>3. \A t \in Session : Broker!Entered(t)' <=> Broker!Entered(t)  BY DEF Broker!Entered
<1> QED  BY <1>1, <1>2, <1>3 DEF BrokerInv

LEMMA EnterJobOK ==
    ASSUME BrokerInv, NEW j \in Job, Broker!EnterJob(j) PROVE BrokerInv'
<1>1. /\ UNCHANGED <<entry, quitting, jobCancel, reader, worker, teller, ender, endAll,
                     Broker!owner,
                     Broker!control, forwarding, Broker!sizes, Broker!client, asks>>
      /\ Broker!Up
  BY DEF Broker!EnterJob
<1>2. PICK v \in {"over", "running"} : job' = [job EXCEPT ![j] = v] /\ (quitting => v = "over")
  BY DEF Broker!EnterJob
<1>3. job' \in [Job -> {"new", "running", "over"}]  BY <1>2 DEF BrokerInv, Types
<1>4. Broker!JobsCancelled'
  <2> SUFFICES ASSUME quitting, NEW i \in Job, job'[i] = "running" PROVE jobCancel[i]
    BY <1>1 DEF Broker!JobsCancelled
  <2>1. job[i] = "running"  BY <1>2 DEF BrokerInv, Types
  <2> QED  BY <2>1 DEF BrokerInv, Broker!JobsCancelled
<1>5. endAll # "returned"  BY <1>1 DEF Broker!Up
<1> QED  BY <1>1, <1>3, <1>4, <1>5, NoSession DEF BrokerInv, Types

LEMMA LeaveJobOK ==
    ASSUME BrokerInv, NEW j \in Job, Broker!LeaveJob(j) PROVE BrokerInv'
<1>1. /\ UNCHANGED <<entry, quitting, jobCancel, reader, worker, teller, ender, endAll,
                     Broker!owner,
                     Broker!control, forwarding, Broker!sizes, Broker!client, asks>>
      /\ Broker!Up /\ job' = [job EXCEPT ![j] = "over"]
  BY DEF Broker!LeaveJob
<1>3. job' \in [Job -> {"new", "running", "over"}]  BY <1>1 DEF BrokerInv, Types
<1>4. Broker!JobsCancelled'
  <2> SUFFICES ASSUME quitting, NEW i \in Job, job'[i] = "running" PROVE jobCancel[i]
    BY <1>1 DEF Broker!JobsCancelled
  <2>1. job[i] = "running"  BY <1>1 DEF BrokerInv, Types
  <2> QED  BY <2>1 DEF BrokerInv, Broker!JobsCancelled
<1>5. endAll # "returned"  BY <1>1 DEF Broker!Up
<1> QED  BY <1>1, <1>3, <1>4, <1>5, NoSession DEF BrokerInv, Types

(* end_all() takes every session that is being connected for itself, and   *)
(* leaves the open ones to their workers.                                  *)
LEMMA EndAllOK ==
    ASSUME BrokerInv, Broker!EndAll PROVE BrokerInv'
<1>1. /\ UNCHANGED <<job, reader, worker, Broker!owner, Broker!control, forwarding, Broker!sizes,
                     Broker!client, asks>>
      /\ quitting' = TRUE /\ endAll' = "waiting"
      /\ jobCancel' = [j \in Job |-> job[j] = "running" \/ jobCancel[j]]
  BY DEF Broker!EndAll
<1>2. PICK untold :
         untold = {s \in Session : entry[s].state = "connecting" /\ entry[s].told = "no"}
  OBVIOUS
<1>3. PICK open : open = {s \in Session : entry[s].state = "open"}  OBVIOUS
<1>4. /\ entry' = [s \in Session |-> IF s \in untold THEN [entry[s] EXCEPT !.told = "end_all"]
                                     ELSE entry[s]]
      /\ teller' = [s \in Session |-> IF s \in untold THEN "cancel" ELSE teller[s]]
      /\ ender' = [s \in Session |-> IF s \in open THEN "end" ELSE ender[s]]
  BY <1>2, <1>3 DEF Broker!EndAll
<1>5. Broker!JobsCancelled'  BY <1>1 DEF Broker!JobsCancelled
<1>6. jobCancel' \in [Job -> BOOLEAN]  BY <1>1 DEF BrokerInv, Types
<1>7. ender' \in [Session -> {"none", "end", "close", "done"}]  BY <1>4 DEF BrokerInv, Types
<1>8. teller' \in [Session -> {"none", "done"} \cup Telling]
  BY <1>4 DEF BrokerInv, Types, Telling
<1>9. ASSUME NEW s \in Session
      PROVE  entry'[s] \in Entries /\ SessionOK(s)'
  <2>1. CASE s \notin untold
    <3>1. entry'[s] = entry[s] /\ teller'[s] = teller[s]  BY <2>1, <1>4
    <3>2. BrokerSame(s)
      BY <1>1, <3>1 DEF BrokerSame, Broker!owner, Broker!control, Broker!sizes, Broker!client
    <3> QED  BY <3>1, <3>2, BrokerUntouched DEF BrokerInv, Types
  <2>2. CASE s \in untold
    <3>1. PICK x \in Entries : x = entry[s]  BY DEF BrokerInv, Types
    <3>2. x.state = "connecting" /\ x.told = "no"  BY <2>2, <3>1, <1>2
    <3>3. PICK e : e = [x EXCEPT !.told = "end_all"]  OBVIOUS
    <3>4. e \in Entries /\ e.state = "connecting" /\ e.told = "end_all"
      BY <3>2, <3>3 DEF Entries
    <3>5. entry'[s] = e /\ teller'[s] = "cancel"  BY <2>2, <1>4, <3>1, <3>3
    <3>6. Broker!Entered(s) /\ Broker!Entered(s)'
      BY <3>1, <3>2, <3>4, <3>5 DEF Broker!Entered, Broker!NoEntry
    <3>7. EntryOK(s) /\ TellerOK(s) /\ ClientOK(s) /\ ShellOK(s) /\ SaidOK(s)
      BY DEF BrokerInv, SessionOK
    <3>8. UNCHANGED <<reader, worker, present, token, gone, shell, printed, settled, forwarding,
                      size, shellSize, said, hungup>>
      BY <1>1 DEF Broker!owner, Broker!control, Broker!sizes, Broker!client
    <3>9. SaidOK(s)' /\ (Broker!Finished(s)' <=> Broker!Finished(s))
      BY <3>7, <3>8, FinishedSame, SaidSame
    <3>10. Told(s)' <=> Told(s)  BY <3>8, <3>9 DEF Told
    <3>11. worker[s] \notin Inside /\ worker[s] # "none"
      BY <3>1, <3>2, <3>6, <3>7 DEF EntryOK
    <3>12. EntryOK(s)'  BY <3>4, <3>5, <3>6, <3>7, <3>8, <3>10, <3>11 DEF EntryOK
    <3>13. TellerOK(s)'  BY <3>4, <3>5, <3>8, <3>11 DEF TellerOK, Telling
    <3>14. ClientOK(s)'  BY <3>5, <3>7, <3>8, <3>9, <3>10, <3>11 DEF ClientOK
    <3>15. ShellOK(s)'  BY <3>7, <3>8 DEF ShellOK
    <3> QED  BY <3>4, <3>5, <3>9, <3>12, <3>13, <3>14, <3>15 DEF SessionOK
  <2> QED  BY <2>1, <2>2
<1>10. entry' \in [Session -> Entries]
  <2>1. entry' = [s \in Session |-> entry'[s]]  BY <1>4
  <2> QED  BY <2>1, <1>9
<1>11. Types'
  BY <1>1, <1>6, <1>7, <1>8, <1>10 DEF BrokerInv, Types, Broker!owner, Broker!control,
     Broker!sizes, Broker!client
<1> QED  BY <1>1, <1>5, <1>9, <1>11 DEF BrokerInv

LEMMA EndAllReturnsOK ==
    ASSUME BrokerInv, Broker!EndAllReturns PROVE BrokerInv'
<1>1. Broker!JobsCancelled'
  BY DEF BrokerInv, Broker!JobsCancelled, Broker!EndAllReturns, Broker!table
<1> QED
  BY <1>1, NoSession DEF BrokerInv, Types, Broker!EndAllReturns, Broker!TableEmpty, Broker!table

LEMMA EndAllTimesOutOK ==
    ASSUME BrokerInv, Broker!EndAllTimesOut PROVE BrokerInv'
<1>1. Broker!JobsCancelled'
  BY DEF BrokerInv, Broker!JobsCancelled, Broker!EndAllTimesOut, Broker!table
<1> QED  BY <1>1, NoSession DEF BrokerInv, Types, Broker!EndAllTimesOut, Broker!table

LEMMA StutterOK ==
    ASSUME BrokerInv, UNCHANGED Broker!vars PROVE BrokerInv'
<1>1. Broker!JobsCancelled'  BY DEF BrokerInv, Broker!JobsCancelled, Broker!vars, Broker!table
<1> QED  BY <1>1, NoSession DEF BrokerInv, Types, Broker!vars, Broker!table

-----------------------------------------------------------------------------
(* Before anything is opened there is nothing to tell.                     *)
LEMMA BrokerInitOK ==
    ASSUME Broker!Init PROVE BrokerInv
<1>1. Broker!NoEntry \in Entries  BY DEF Broker!NoEntry, Entries
<1>2. Types
  <2>1. said \in [Session -> Seq(Message)]
    <3>1. <<>> \in Seq(Message)  OBVIOUS
    <3> QED  BY <3>1 DEF Broker!Init
  <2>2. entry \in [Session -> Entries]  BY <1>1 DEF Broker!Init
  <2> QED  BY <2>1, <2>2 DEF Broker!Init, Types, ShellStates
<1>3. ASSUME NEW s \in Session PROVE SessionOK(s)
  <2>1. ~Broker!Entered(s) /\ entry[s].state = "none" /\ entry[s].told = "no"
    BY DEF Broker!Init, Broker!Entered, Broker!NoEntry
  <2>2. said[s] = <<>>  BY DEF Broker!Init
  <2>3. SaidOK(s) /\ ~Broker!Finished(s)  BY <2>2 DEF SaidOK, Broker!Finished, Broker!Contains
  <2>4. EntryOK(s)  BY <2>1, <2>2 DEF Broker!Init, EntryOK, Inside
  <2>5. TellerOK(s)  BY <2>1 DEF Broker!Init, TellerOK, Telling
  <2>6. ClientOK(s)  BY <2>3 DEF Broker!Init, ClientOK, Inside, Before
  <2>7. ShellOK(s)  BY DEF Broker!Init, ShellOK
  <2> QED  BY <2>3, <2>4, <2>5, <2>6, <2>7 DEF SessionOK
<1>4. Broker!JobsCancelled  BY DEF Broker!Init, Broker!JobsCancelled
<1> QED  BY <1>2, <1>3, <1>4 DEF Broker!Init, BrokerInv

(* Every step keeps the invariant.                                         *)
LEMMA BrokerNextOK ==
    ASSUME BrokerInv, Broker!Next PROVE BrokerInv'
<1>1. CASE \E s \in Session : Broker!Thread(s)
  <2>1. PICK s \in Session : Broker!Thread(s)  BY <1>1
  <2> QED
    BY <2>1, ReadEndOK, ReaderGoneOK, ReaderDoneOK, AskWritesOK, AskReturnsOK,
       ConnectReturnsOK, ClaimOK, TellFailureOK, PromoteOK, BeforeShellOK, ShellOpensOK,
       ShellFailsOK, AnnounceOK, SendSizeOK, ShellEndsOK, TellEndingOK, ForgetOK DEF Broker!Thread
<1>2. CASE \E s \in Session : Broker!Teller(s)
  BY <1>2, TellerCancelsOK, TellerSaysOK, TellerHangsUpOK, TellerRemovesOK DEF Broker!Teller
<1>3. CASE \E s \in Session : Broker!Ender(s)
  BY <1>3, EnderEndsOK, EnderClosesOK DEF Broker!Ender
<1>4. CASE \E s \in Session : Broker!Settle(s)
  BY <1>4, SettlePassesOK, CloseNowOK DEF Broker!Settle
<1>5. CASE \E s \in Session : \/ Broker!Open(s) \/ Broker!ClientLeaves(s) \/ Broker!Resize(s)
                              \/ Broker!Ask(s) \/ Broker!Answered(s)
                              \/ Broker!Output(s) \/ Broker!ShellEnds(s)
  BY <1>5, OpenOK, ClientLeavesOK, ResizeOK, AskOK, AnsweredOK, OutputOK, ShellEndsOK
<1>6. CASE \E j \in Job : Broker!EnterJob(j) \/ Broker!LeaveJob(j)
  BY <1>6, EnterJobOK, LeaveJobOK
<1>7. CASE Broker!EndAll \/ Broker!EndAllReturns \/ Broker!EndAllTimesOut
  BY <1>7, EndAllOK, EndAllReturnsOK, EndAllTimesOutOK
<1> QED  BY <1>1, <1>2, <1>3, <1>4, <1>5, <1>6, <1>7 DEF Broker!Next

(* The invariant of the broker, in every state.                            *)
THEOREM BrokerHolds == Broker!Spec => []BrokerInv
<1>1. Broker!Init => BrokerInv  BY BrokerInitOK
<1>2. BrokerInv /\ [Broker!Next]_(Broker!vars) => BrokerInv'  BY BrokerNextOK, StutterOK
<1> QED  BY <1>1, <1>2, PTL DEF Broker!Spec

(* What the invariant says of a state.                                     *)
LEMMA BrokerInvTold ==
    ASSUME BrokerInv
    PROVE  /\ Broker!TypeOK /\ Broker!ToldOnce
           /\ Broker!QuitTellsEveryone /\ Broker!JobsCancelled
<1>1. Broker!TypeOK  BY DEF BrokerInv, Types, Broker!TypeOK, SessionOK, EntryOK, Entries, Inside
<1>2. Broker!ToldOnce  BY DEF BrokerInv, SessionOK, SaidOK, Broker!ToldOnce
<1>3. Broker!QuitTellsEveryone
  BY DEF BrokerInv, SessionOK, EntryOK, Told, Broker!QuitTellsEveryone
<1> QED  BY <1>1, <1>2, <1>3 DEF BrokerInv

(* A shell opens only for a session whose client has not been told.        *)
LEMMA OnlyOpensUntold ==
    ASSUME BrokerInv, Broker!Next, NEW s \in Session, shell[s] = "none", shell'[s] = "open"
    PROVE  worker[s] = "opening"
<1> USE DEF Broker!table, Broker!owner, Broker!control, Broker!sizes, Broker!client,
     Broker!Set, Broker!Goes, Broker!CloseSettled
<1>1. ASSUME NEW t \in Session, Broker!Thread(t) PROVE worker[s] = "opening"
  <2>1. CASE Broker!ShellOpens(t)
    <3>1. t = s  BY <2>1 DEF Broker!ShellOpens, BrokerInv, Types
    <3> QED  BY <2>1, <3>1 DEF Broker!ShellOpens
  <2>2. CASE Broker!ShellEnds(t)  BY <2>2 DEF Broker!ShellEnds, BrokerInv, Types
  <2>3. CASE Broker!ReadEnd(t) \/ Broker!ReaderGone(t) \/ Broker!ReaderDone(t)
    BY <2>3 DEF Broker!ReadEnd, Broker!ReaderGone, Broker!ReaderDone
  <2>4. CASE \/ Broker!AskWrites(t) \/ Broker!AskReturns(t)
             \/ \E ok \in BOOLEAN : Broker!ConnectReturns(t, ok)
    BY <2>4 DEF Broker!AskWrites, Broker!AskReturns, Broker!ConnectReturns
  <2>5. CASE \/ Broker!Claim(t) \/ Broker!TellFailure(t)
             \/ Broker!Promote(t) \/ Broker!BeforeShell(t)
    BY <2>5 DEF Broker!Claim, Broker!TellFailure, Broker!Promote, Broker!BeforeShell
  <2>6. CASE \/ Broker!ShellFails(t) \/ Broker!Announce(t) \/ Broker!SendSize(t)
             \/ Broker!TellEnding(t) \/ Broker!Forget(t)
    BY <2>6 DEF Broker!ShellFails, Broker!Announce, Broker!SendSize, Broker!TellEnding,
       Broker!Forget
  <2> QED  BY <1>1, <2>1, <2>2, <2>3, <2>4, <2>5, <2>6 DEF Broker!Thread
<1>2. ASSUME NEW t \in Session, Broker!Teller(t) \/ Broker!Ender(t) PROVE FALSE
  BY <1>2 DEF Broker!Teller, Broker!Ender, Broker!TellerCancels, Broker!TellerSays,
     Broker!TellerHangsUp, Broker!TellerRemoves, Broker!EnderEnds,
     Broker!EnderCloses
<1>3. ASSUME NEW t \in Session, Broker!Settle(t) PROVE FALSE
  <2>1. CASE Broker!SettlePasses(t)  BY <2>1 DEF Broker!SettlePasses
  <2>2. CASE \E who \in {"reader", "scope", "quit"} : Broker!CloseNow(t, who)
    <3>1. shell' = shell \/ shell' = [shell EXCEPT ![t] = "closed"]  BY <2>2 DEF Broker!CloseNow
    <3> QED  BY <3>1 DEF BrokerInv, Types
  <2> QED  BY <1>3, <2>1, <2>2 DEF Broker!Settle
<1>4. ASSUME NEW t \in Session,
             \/ Broker!Open(t) \/ Broker!ClientLeaves(t) \/ Broker!Resize(t)
             \/ Broker!Ask(t) \/ Broker!Answered(t)
             \/ Broker!Output(t) \/ Broker!ShellEnds(t)
      PROVE  FALSE
  <2>1. CASE Broker!Output(t)  BY <2>1 DEF Broker!Output, BrokerInv, Types
  <2>2. CASE Broker!ShellEnds(t)  BY <2>2 DEF Broker!ShellEnds, BrokerInv, Types
  <2>3. CASE \/ Broker!Open(t) \/ Broker!ClientLeaves(t) \/ Broker!Resize(t)
             \/ Broker!Ask(t) \/ Broker!Answered(t)
    BY <2>3 DEF Broker!Open, Broker!ClientLeaves, Broker!Resize, Broker!Ask, Broker!Answered
  <2> QED  BY <1>4, <2>1, <2>2, <2>3
<1>5. ASSUME NEW j \in Job, Broker!EnterJob(j) \/ Broker!LeaveJob(j) PROVE FALSE
  BY <1>5 DEF Broker!EnterJob, Broker!LeaveJob
<1>6. ~(Broker!EndAll \/ Broker!EndAllReturns \/ Broker!EndAllTimesOut)
  BY DEF Broker!EndAll, Broker!EndAllReturns, Broker!EndAllTimesOut
<1> QED  BY <1>1, <1>2, <1>3, <1>4, <1>5, <1>6 DEF Broker!Next

(* A client that was told the app quits has been told how it ended.        *)
LEMMA QuitIsAnEnding ==
    ASSUME NEW s \in Session, BrokerInv, Broker!Contains(said[s], "quit") PROVE Broker!Finished(s)
<1>1. PICK i \in 1..Len(said[s]) : said[s][i] = "quit"  BY DEF Broker!Contains
<1>2. said[s] \in Seq(Message) /\ SaidOK(s)  BY DEF BrokerInv, Types, SessionOK
<1>3. i = Len(said[s]) - 1 /\ said[s][i + 1] = "exited"  BY <1>1, <1>2 DEF SaidOK
<1>4. i + 1 \in 1..Len(said[s])  BY <1>2, <1>3
<1> QED  BY <1>3, <1>4 DEF Broker!Finished, Broker!Contains

(* For any sessions, jobs and stalled clients, and in any interleaving of  *)
(* readers, workers and end_all(): a client is told once how its session   *)
(* ended and nothing after it, everybody who is there has been told when   *)
(* end_all() returns, whatever runs while the app quits is cancelled, and  *)
(* no shell opens for a client that was told the app quits.                *)
THEOREM Ending == Broker!Spec => EndingTold
<1>1. BrokerInv => /\ Broker!TypeOK /\ Broker!ToldOnce
                   /\ Broker!QuitTellsEveryone /\ Broker!JobsCancelled
  BY BrokerInvTold
<1>2. BrokerInv /\ [Broker!Next]_(Broker!vars) =>
         [\A s \in Session :
             Broker!Contains(said[s], "quit") =>
                 ~(shell[s] = "none" /\ shell'[s] = "open")]_(Broker!vars)
  <2> SUFFICES ASSUME BrokerInv, Broker!Next, NEW s \in Session, Broker!Contains(said[s], "quit"),
                      shell[s] = "none", shell'[s] = "open"
               PROVE  FALSE
    OBVIOUS
  <2>1. worker[s] = "opening"  BY OnlyOpensUntold
  <2>2. Broker!Finished(s)  BY QuitIsAnEnding
  <2> QED  BY <2>1, <2>2 DEF BrokerInv, SessionOK, ClientOK, Inside
<1> QED  BY <1>1, <1>2, BrokerHolds, PTL DEF Broker!Spec, Broker!NoShellOnceTold, EndingTold

(* A shell is closed only after it printed or had its time to settle, and  *)
(* while it runs it has the size the client sent last.                     *)
THEOREM Shells == Broker!Spec => []ShellHandled
<1>1. BrokerInv => ShellHandled
  BY DEF BrokerInv, SessionOK, ShellOK, Broker!ClosedAfterSettle, Broker!SizeReaches,
     ShellHandled
<1> QED  BY <1>1, BrokerHolds, PTL
=============================================================================
