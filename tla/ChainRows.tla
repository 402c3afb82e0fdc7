------------------------------ MODULE ChainRows ------------------------------
(***************************************************************************)
(* The row arithmetic of one relay chain (relay/src/index.ts, ChainStore): *)
(* which items of a push are accepted, which sequence number each one      *)
(* gets, what the table holds afterwards, and what a pull returns.  The    *)
(* operators are shared by ChainStore (the relay itself) and RecordSync    *)
(* (devices synchronising through it).                                     *)
(*                                                                         *)
(* A table is a function from identities to rows [seq, body]; a row with   *)
(* seq = 0 is an identity the table does not hold (accepted rows are       *)
(* numbered from 1).  A push is a function from a set of identities to     *)
(* items [base, body]: the router refuses two items with one identity.     *)
(***************************************************************************)
EXTENDS Naturals, FiniteSets

CONSTANT Key        \* record identities (idHash); ordered as in the request

ASSUME KeyAssumption == Key \subseteq Nat /\ IsFiniteSet(Key)

(* row(): the identity has a row. *)
Present(row) == row.seq > 0

(* Mutant of Accepted: the sender's base is not looked at. *)
AcceptedAlways(rows, items) == DOMAIN items

(* push(), step 1: an item is refused (a conflict) when the stored row is  *)
(* newer than the one the sender has seen.                                 *)
Accepted(rows, items) ==
    {k \in DOMAIN items : ~ (Present(rows[k]) /\ rows[k].seq > items[k].base)}

(* Mutant of SeqOf: numbering starts one too high. *)
SeqOfLate(latest, acc, k) == latest + 1 + Cardinality({j \in acc : j <= k})

(* push(), step 1: accepted items are numbered consecutively. *)
SeqOf(latest, acc, k) == latest + Cardinality({j \in acc : j <= k})

(* push(), step 1 and 3: latest_seq once the accepted items are numbered. *)
LatestAfter(rows, latest, items) == latest + Cardinality(Accepted(rows, items))

(* push(), step 3: the table after the accepted items are written. *)
RowsAfter(rows, latest, items) ==
    LET acc == Accepted(rows, items)
    IN  [k \in Key |->
            IF k \in acc
            THEN [seq |-> SeqOf(latest, acc, k), body |-> items[k].body]
            ELSE rows[k]]

(* pull(): the identities whose row is newer than since. *)
NewerThan(rows, since) == {k \in Key : rows[k].seq > since}
=============================================================================
