----------------------------- MODULE BatchPull -----------------------------
(***************************************************************************)
(* Pulling many chains in one request: pull_all() of sync/round.rs on a    *)
(* device, batchPull() of relay/src/index.ts and the pull() of every chain *)
(* it asks, while other devices push.                                      *)
(*                                                                         *)
(* A chain's rows are numbered 1, 2, ...; a pull answers with the rows     *)
(* after the cursor.  pull() reads the rows, awaits the idle alarm and     *)
(* only then reads latest_seq: between the two the storage's input gate    *)
(* (external) lets no other request of that chain in.  An answer costs its *)
(* rows against the budget of the response.                                *)
(***************************************************************************)
EXTENDS Naturals, Sequences, FiniteSets, SequencesExt

CONSTANTS
    Chain,
    Order,          \* the chains in the order of their space ids
    Broken,         \* chains whose pull always fails: the request answers 5xx
    Gone,           \* chains the relay no longer has: 404
    MaxBatch,       \* MAX_BATCH_PULL
    Budget,         \* PULL_RESPONSE_BUDGET, in rows
    MaxSeq,         \* bound on the rows of a chain
    MaxLimited      \* bound on 429 answers, unsupported batches and lost requests

(* What the module assumes of its constants. *)
BatchPullAssumption ==
    /\ IsFiniteSet(Chain) /\ "none" \notin Chain
    /\ Broken \subseteq Chain /\ Gone \subseteq Chain \ Broken
    /\ Order \in Seq(Chain) /\ ToSet(Order) = Chain /\ Len(Order) = Cardinality(Chain)
    /\ MaxBatch \in Nat \ {0} /\ {Budget, MaxSeq, MaxLimited} \subseteq Nat

(* The chains of a sequence that are in S, in their order. *)
Keep(s, S) ==
    LET kept[i \in 0..Len(s)] ==
            IF i = 0 THEN <<>>
            ELSE IF s[i] \in S THEN Append(kept[i - 1], s[i]) ELSE kept[i - 1]
    IN  kept[Len(s)]

VARIABLES
    latest,         \* latest_seq of every chain; its rows are 1..latest
    cursor, held,   \* the device: cursor and rows of every chain
    missing,        \* spaces the device paused because their chain is gone
    queue,          \* pull_all(): the chains to ask, in order
    mode,           \* "idle", "batch", "single"
    fetched,        \* Pulled.fetched: the entries so far
    limited,        \* Pulled.limited
    batchOk, batchFailed,
    failures,       \* core.batch_failures, counted up to 2
    request,        \* the request at the relay, or NoRequest
    reading,        \* the chain whose pull() is at its await, with its rows
    limits          \* counter for the bound

device == <<cursor, held, missing>>
flags == <<batchOk, batchFailed, failures>>
vars == <<latest, device, queue, mode, fetched, limited, flags, request, reading, limits>>

NoRequest == [items |-> <<>>, entries |-> <<>>, spent |-> 0, open |-> FALSE]
NoRead == [chain |-> "none", records |-> 0]

Ok(c, records, seq) == [chain |-> c, status |-> "ok", records |-> records, latest |-> seq]
Entry(c, status) == [chain |-> c, status |-> status, records |-> 0, latest |-> 0]
Missed(chains) == {Entry(c, "missed") : c \in chains}

Init ==
    /\ latest = [c \in Chain |-> 0]
    /\ cursor = [c \in Chain |-> 0] /\ held = [c \in Chain |-> {}] /\ missing = {}
    /\ queue = <<>> /\ mode = "idle" /\ fetched = {} /\ limited = FALSE
    /\ batchOk = FALSE /\ batchFailed = FALSE /\ failures = 0
    /\ request = NoRequest /\ reading = NoRead /\ limits = 0

(* Mutant of Push: the input gate is taken to be open. *)
PushUngated(c) ==
    /\ latest[c] < MaxSeq /\ c \notin Gone
    /\ latest' = [latest EXCEPT ![c] = @ + 1]
    /\ UNCHANGED <<device, queue, mode, fetched, limited, flags, request, reading, limits>>

(* Another device pushes a row. *)
Push(c) ==
    /\ latest[c] < MaxSeq /\ c \notin Gone /\ reading.chain # c
    /\ latest' = [latest EXCEPT ![c] = @ + 1]
    /\ UNCHANGED <<device, queue, mode, fetched, limited, flags, request, reading, limits>>

(* run_round() asks for every space it has not paused. *)
Start ==
    /\ mode = "idle" /\ Chain # missing
    /\ mode' = "batch" /\ queue' = Keep(Order, Chain \ missing)
    /\ UNCHANGED <<latest, device, fetched, limited, flags, request, reading, limits>>

Take == IF Len(queue) < MaxBatch THEN Len(queue) ELSE MaxBatch
Rest == SubSeq(queue, Take + 1, Len(queue))

SendBatch ==
    /\ mode = "batch" /\ ~request.open /\ queue # <<>>
    /\ request' = [NoRequest EXCEPT !.items = SubSeq(queue, 1, Take), !.open = TRUE]
    /\ UNCHANGED <<latest, device, queue, mode, fetched, limited, flags, reading, limits>>

AtRelay == mode = "batch" /\ request.open /\ reading = NoRead
Item == request.items[1]

(* Items after the first are not executed once the response is over budget. *)
Executed ==
    AtRelay /\ request.items # <<>> /\ (request.entries = <<>> \/ request.spent <= Budget)

Answered(entry) ==
    request' = [request EXCEPT !.items = Tail(@), !.entries = Append(@, entry),
                               !.spent = @ + entry.records - IF entry.status = "ok" THEN cursor[Item] ELSE 0]

(* ChainStore.pull(), up to its await. *)
ReadItem ==
    /\ Executed /\ Item \notin Broken \cup Gone
    /\ reading' = [chain |-> Item, records |-> latest[Item]]
    /\ UNCHANGED <<latest, device, queue, mode, fetched, limited, flags, request, limits>>

(* After the await: latest_seq, and the entry of this chain. *)
AnswerItem ==
    /\ mode = "batch" /\ reading # NoRead
    /\ Answered(Ok(Item, reading.records, latest[Item])) /\ reading' = NoRead
    /\ UNCHANGED <<latest, device, queue, mode, fetched, limited, flags, limits>>

(* The entries that need no rows: not_found, the chain's own 429, deferred. *)
AnswerGone ==
    /\ Executed /\ Item \in Gone
    /\ Answered(Entry(Item, "not_found"))
    /\ UNCHANGED <<latest, device, queue, mode, fetched, limited, flags, reading, limits>>

LimitItem ==
    /\ Executed /\ Item \notin Broken \cup Gone /\ limits < MaxLimited
    /\ limits' = limits + 1 /\ Answered(Entry(Item, "rate_limited"))
    /\ UNCHANGED <<latest, device, queue, mode, fetched, limited, flags, reading>>

DeferItem ==
    /\ AtRelay /\ request.items # <<>> /\ ~Executed
    /\ Answered(Entry(Item, "deferred"))
    /\ UNCHANGED <<latest, device, queue, mode, fetched, limited, flags, reading, limits>>

With(status) == {e \in ToSet(request.entries) : e.status = status}
Deferred == Keep(SubSeq(queue, 1, Take), {e.chain : e \in With("deferred")})

(* Mutant of Receive: a 429 of one chain does not end the round. *)
ReceiveGoesOn ==
    /\ AtRelay /\ request.items = <<>>
    /\ batchOk' = TRUE /\ limited' = (limited \/ With("rate_limited") # {})
    /\ queue' = Deferred \o Rest
    /\ fetched' = fetched \cup With("ok") \cup With("not_found")
                          \cup Missed({e.chain : e \in With("rate_limited")})
    /\ request' = NoRequest
    /\ UNCHANGED <<latest, device, mode, batchFailed, failures, reading, limits>>

(* Mutant of Receive: the deferred chains wait for the next round. *)
ReceiveLater ==
    /\ AtRelay /\ request.items = <<>>
    /\ batchOk' = TRUE /\ limited' = (limited \/ With("rate_limited") # {})
    /\ queue' = IF limited' THEN <<>> ELSE Rest
    /\ fetched' = fetched \cup With("ok") \cup With("not_found")
                          \cup Missed({e.chain : e \in With("rate_limited") \cup With("deferred")}
                                      \cup IF limited' THEN ToSet(Rest) ELSE {})
    /\ request' = NoRequest
    /\ UNCHANGED <<latest, device, mode, batchFailed, failures, reading, limits>>

(* The answer: the deferred chains are asked next; after a 429 nothing     *)
(* more is asked in this round.  (The relay always executes the first      *)
(* item, so the guard against an answer with nothing but deferred entries  *)
(* never acts.)                                                            *)
Receive ==
    /\ AtRelay /\ request.items = <<>>
    /\ batchOk' = TRUE /\ limited' = (limited \/ With("rate_limited") # {})
    /\ queue' = IF limited' THEN <<>> ELSE Deferred \o Rest
    /\ fetched' = fetched \cup With("ok") \cup With("not_found")
                          \cup Missed({e.chain : e \in With("rate_limited")}
                                      \cup IF limited' THEN ToSet(Deferred \o Rest) ELSE {})
    /\ request' = NoRequest
    /\ UNCHANGED <<latest, device, mode, batchFailed, failures, reading, limits>>

(* The limiter of the address refuses the whole batch. *)
LimitBatch ==
    /\ AtRelay /\ request.entries = <<>> /\ limits < MaxLimited
    /\ limits' = limits + 1 /\ limited' = TRUE
    /\ fetched' = fetched \cup Missed(ToSet(queue)) /\ queue' = <<>>
    /\ request' = NoRequest
    /\ UNCHANGED <<latest, device, mode, flags, reading>>

(* Mutant of FailBatch: the failures of earlier rounds are not counted. *)
FailBatchAlways ==
    /\ Executed /\ Item \in Broken
    /\ request' = NoRequest /\ batchFailed' = TRUE
    /\ fetched' = fetched \cup Missed(ToSet(queue)) /\ queue' = <<>>
    /\ UNCHANGED <<latest, device, mode, limited, batchOk, failures, reading, limits>>

(* Mutant of FailBatch: the queue is kept, and the round started over. *)
FailBatchRetries ==
    /\ Executed /\ Item \in Broken
    /\ request' = NoRequest /\ batchFailed' = TRUE
    /\ IF failures + 1 >= 2
       THEN mode' = "single" /\ queue' = queue \o Rest /\ UNCHANGED fetched
       ELSE fetched' = fetched \cup Missed(ToSet(queue)) /\ queue' = <<>> /\ UNCHANGED mode
    /\ UNCHANGED <<latest, device, limited, batchOk, failures, reading, limits>>

(* A chain that fails fails the request: what it had answered is lost; in  *)
(* the second round in a row, the round goes on with one request per chain.*)
FailBatch ==
    /\ Executed /\ Item \in Broken
    /\ request' = NoRequest /\ batchFailed' = TRUE
    /\ IF failures + 1 >= 2
       THEN mode' = "single" /\ UNCHANGED <<fetched, queue>>
       ELSE fetched' = fetched \cup Missed(ToSet(queue)) /\ queue' = <<>> /\ UNCHANGED mode
    /\ UNCHANGED <<latest, device, limited, batchOk, failures, reading, limits>>

(* A relay that has no batch request: the round goes on chain by chain.    *)
Unsupported ==
    /\ AtRelay /\ request.entries = <<>> /\ limits < MaxLimited
    /\ limits' = limits + 1 /\ mode' = "single" /\ request' = NoRequest
    /\ UNCHANGED <<latest, device, queue, fetched, limited, flags, reading>>

(* Any other error of a request, a lost connection among them, ends the    *)
(* round: nothing it fetched is applied, nor its failures counted.         *)
AbortRound ==
    /\ request.open \/ (mode = "single" /\ queue # <<>> /\ ~limited)
    /\ limits < MaxLimited /\ limits' = limits + 1
    /\ mode' = "idle" /\ queue' = <<>> /\ fetched' = {} /\ request' = NoRequest /\ reading' = NoRead
    /\ limited' = FALSE /\ batchOk' = FALSE /\ batchFailed' = FALSE
    /\ UNCHANGED <<latest, device, failures>>

(* One request per chain. *)
ReadSingle ==
    /\ mode = "single" /\ queue # <<>> /\ reading = NoRead /\ ~limited
    /\ queue[1] \notin Broken \cup Gone
    /\ reading' = [chain |-> queue[1], records |-> latest[queue[1]]]
    /\ UNCHANGED <<latest, device, queue, mode, fetched, limited, flags, request, limits>>

AnswerSingle ==
    /\ mode = "single" /\ reading # NoRead
    /\ fetched' = fetched \cup {Ok(queue[1], reading.records, latest[queue[1]])}
    /\ reading' = NoRead /\ queue' = Tail(queue)
    /\ UNCHANGED <<latest, device, mode, limited, flags, request, limits>>

(* A failing chain is missed alone; a 429 ends the requests. *)
MissSingle ==
    /\ mode = "single" /\ queue # <<>> /\ reading = NoRead
    /\ \/ (limited \/ queue[1] \in Broken)
          /\ fetched' = fetched \cup Missed({queue[1]}) /\ UNCHANGED <<limited, limits>>
       \/ ~limited /\ queue[1] \in Gone
          /\ fetched' = fetched \cup {Entry(queue[1], "not_found")} /\ UNCHANGED <<limited, limits>>
       \/ ~limited /\ limits < MaxLimited /\ limits' = limits + 1 /\ limited' = TRUE
          /\ fetched' = fetched \cup Missed({queue[1]})
    /\ queue' = Tail(queue)
    /\ UNCHANGED <<latest, device, mode, flags, request, reading>>

RoundOver == mode # "idle" /\ queue = <<>> /\ ~request.open /\ reading = NoRead

Got(c) == {f \in fetched : f.chain = c /\ f.status = "ok"}

(* The round counts the failed batches in a row, applies the rows it has   *)
(* and pauses the spaces that are gone; the cursor of a missed chain stays.*)
Finish ==
    /\ RoundOver
    /\ failures' = IF batchFailed THEN IF failures < 2 THEN failures + 1 ELSE 2
                   ELSE IF batchOk THEN 0 ELSE failures
    /\ cursor' = [c \in Chain |-> IF Got(c) = {} THEN cursor[c] ELSE (CHOOSE f \in Got(c) : TRUE).latest]
    /\ held' = [c \in Chain |-> held[c] \cup UNION {(cursor[c] + 1)..f.records : f \in Got(c)}]
    /\ missing' = missing \cup {f.chain : f \in {g \in fetched : g.status = "not_found"}}
    /\ mode' = "idle" /\ fetched' = {} /\ limited' = FALSE /\ batchOk' = FALSE /\ batchFailed' = FALSE
    /\ UNCHANGED <<latest, queue, request, reading, limits>>

Round ==
    \/ Start \/ SendBatch \/ ReadItem \/ AnswerItem \/ AnswerGone \/ DeferItem \/ Receive
    \/ FailBatch \/ ReadSingle \/ AnswerSingle \/ MissSingle \/ Finish

Next ==
    \/ Round \/ LimitItem \/ LimitBatch \/ Unsupported \/ AbortRound
    \/ \E c \in Chain : Push(c)

Spec == Init /\ [][Next]_vars

(* The worker starts a round every poll interval and runs it to its end. *)
FairSpec == Spec /\ WF_vars(Round)

-----------------------------------------------------------------------------
(* A queue never names a chain twice, nor one that is already settled: no  *)
(* chain is asked twice in a round for anything but a deferred entry.      *)
TypeOK ==
    /\ latest \in [Chain -> 0..MaxSeq] /\ cursor \in [Chain -> 0..MaxSeq]
    /\ mode \in {"idle", "batch", "single"} /\ failures \in 0..2
    /\ ToSet(queue) \subseteq Chain /\ Len(queue) = Cardinality(ToSet(queue))
    /\ {f.chain : f \in fetched} \cap ToSet(queue) = {}
    /\ reading.chain # "none" => reading.records <= latest[reading.chain]

(* A cursor never passes a row that the device was not given: latest_seq,  *)
(* read after an await, is the number of the last row read before it.      *)
NoRowSkipped == \A c \in Chain : held[c] = 1..cursor[c]

(* A round accounts for every chain: when pull_all() ends, each has one    *)
(* entry, and a chain is missed only after a 429 or a failed request, a    *)
(* request of its own when the round went on with single requests.         *)
RoundIsComplete ==
    RoundOver =>
        /\ {f.chain : f \in fetched} = Chain \ missing
        /\ Cardinality(fetched) = Cardinality(Chain \ missing)
        /\ \A f \in fetched : f.status = "missed" =>
               limited \/ IF mode = "single" THEN f.chain \in Broken ELSE batchFailed

(* After any 429, the round asks the relay for nothing more. *)
QuietAfterLimit ==
    [][limited /\ mode # "idle" => ~(request'.open /\ ~request.open)
                                   /\ ~(mode = "single" /\ reading' # NoRead /\ reading = NoRead)]_vars

(* However large the other chains' answers are, and although some chain    *)
(* fails every time, every other chain's rows arrive.                      *)
RowsArrive == \A c \in Chain \ (Broken \cup Gone) : <>[](cursor[c] = latest[c])
=============================================================================
