---------------------------- MODULE ChainService ----------------------------
(***************************************************************************)
(* What a relay chain promises to the devices that use it: an append-only  *)
(* numbering over a table with one row per identity, a cut-off after which *)
(* nothing is written, and an end at which everything is gone at once.     *)
(* Owners, request limits, quotas, the idle alarm and the rule for         *)
(* conflicts are left to ChainStore, which implements this service; the    *)
(* relay that the devices of RecordSync talk to implements it too.         *)
(***************************************************************************)
EXTENDS Naturals, FiniteSets

CONSTANTS
    Key,        \* record identities
    NoRow       \* the row of an identity that the table does not hold

VARIABLES
    open,       \* the chain exists
    latest,     \* the last number given
    frozen,     \* the cut-off
    rows        \* [Key -> [seq, body]]

vars == <<open, latest, frozen, rows>>

Nothing == [k \in Key |-> NoRow]

Init == open \in BOOLEAN /\ latest = 0 /\ ~frozen /\ rows = Nothing

Open ==
    /\ ~open /\ open'
    /\ UNCHANGED <<latest, frozen, rows>>

(* Some identities get the next numbers, one each; no other row changes. *)
Write ==
    /\ open /\ ~frozen
    /\ \E written \in SUBSET Key :
          /\ latest' = latest + Cardinality(written)
          /\ {rows'[k].seq : k \in written} = (latest + 1)..latest'
          /\ \A k \in Key \ written : rows'[k] = rows[k]
    /\ UNCHANGED <<open, frozen>>

Freeze ==
    /\ open /\ frozen'
    /\ UNCHANGED <<open, latest, rows>>

(* The rows of a frozen chain are removed; its numbering stays. *)
Clear ==
    /\ open /\ frozen /\ rows' = Nothing
    /\ UNCHANGED <<open, latest, frozen>>

Erase ==
    /\ open /\ ~open' /\ latest' = 0 /\ ~frozen' /\ rows' = Nothing

Next == Open \/ Write \/ Freeze \/ Clear \/ Erase

Spec == Init /\ [][Next]_vars
=============================================================================
