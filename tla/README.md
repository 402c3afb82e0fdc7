# A TLA+ model of synchronisation, sessions and approvals

The repository is a desktop SSH client (Tauri: a Rust core under
`src/src-tauri/`, a web interface under `src/src/`) with an optional encrypted
synchronisation between a user's devices through a relay (a Cloudflare Worker,
`src/relay/`). This directory models the parts of it whose mistakes are silent
or permanent:

- **the synchronisation of records**, from the relay's storage to the round a
  device runs and the gate in front of every shared write;
- **the life of an account**: setting it up, changing its sync code, leaving
  it, migrating to it, each a journal that must survive a crash anywhere;
- **the previous generation's change of code**, which an application that has
  not migrated still runs, with a background thread beside its commands;
- **sessions**: connecting with host key and password questions, and the
  threads that serve a terminal and end when the application quits;
- **approvals**: who may sign with a key, what an AI tool may do on a host,
  and the windows that ask.

An edit lost, a row skipped for ever, a sync code that exists nowhere, a pin
written for a key nobody confirmed or a command nobody allowed are not
errors anybody sees in a test; they need several devices or threads, failures
at the wrong moment or a restart.

Contents: [the system](#1-the-system-and-its-parts) ·
[hard behaviours](#2-behaviours-that-are-hard-to-test) ·
[modules](#3-the-modules) · [runs](#4-the-runs) · [fairness](#5-fairness) ·
[proofs](#6-what-is-proved) · [findings](#7-disagreements-found) ·
[limits](#8-what-is-not-modelled) · [plan](#9-plan)

## 1. The system and its parts

Paths below are relative to `src/` for the relay and to `src/src-tauri/src/`
for everything else.

| part | source | state | operations | what makes it correct |
|---|---|---|---|---|
| chain store | `relay/src/index.ts`, `ChainStore` | one chain: owner's token hash, `latest_seq`, `frozen`, rows, an idle alarm; a request counter in memory | create, pull, push, freeze, destroy, alarm | rows are numbered without gaps that hide one, the quota is never exceeded, a freeze holds, a chain in use is not erased |
| address limiter | `relay/src/index.ts`, `IpLimiter` | per address: three counted windows, an alarm | allowMany, alarm | never more than the limit in an hour, no running window erased |
| router, batch pull | `relay/src/index.ts`, `fetch`, `batchPull`; `sync/round.rs`, `pull_all` | a response budget; the queue of a round | asks several chains in one request, defers what does not fit | every chain is accounted for, none is deferred for ever, no cursor passes a row that was not delivered |
| record store | `sync/records_v3/`, `record_runtime.rs`, `runtime.rs` | `SyncStateV3`: per account and per space a section of rows (record, sequence number, dirty), a cursor and flags; in memory and in a state file | persist, keep receipts unsaved, fail closed, load | memory never runs ahead of the disk except for receipts |
| editing | `record_repository.rs`, `record_commands.rs`, `record_groups.rs` | the same | create, update and delete of hosts, groups, keys; a changed endpoint drops the host key pin | an edit is later than what it replaces and is uploaded in the end |
| merge | `record.rs`, `record_merge.rs` | none | last-writer-wins, validation of a pull, merge, outgoing rows, receipts | devices converge; a clean row is stored; nothing below the cursor is missed |
| round | `record_round.rs`, `merge.rs` (batches), `engine.rs` (scheduling) | the values of one round | gate, pull, merge, push in batches, receipts, freeze, failure | any step can fail and any process can stop, and no revision is lost or undone |
| account gate | `record_round.rs`, `record_merge.rs`, `record_groups.rs` | the account section, the newest format seen, a block | prepare (pull), publish, promote the format | an older version never writes past a newer format, groups come after the format that allows them |
| host key confirmation | `session/record_pin.rs` | the prepared proof | confirm in two phases, the pull outside of the lifecycle lock | a stale proof neither opens a closed account nor is refused |
| account set-up | `record_account.rs` | a journal, the staged code | create, join, create a space | an account that exists can be opened; a newer format stops the writes |
| change of code | `record_rotation.rs` | a journal, three keychain entries, two generations of chains | freeze, copy, activate, switch, clean up | every accepted write is in the new account before it is active |
| leaving | `record_leave.rs` | a journal, copied passwords | plan, copy, detach, delete the code | hosts and passwords are kept, the code goes last |
| migration | `record_migration/` | a preview, a journal, a marker shared by all devices | prepare, confirm, publish in batches, activate, switch | the marker means complete; nothing newer is overwritten |
| version 2 sync | `rotation.rs`, `account.rs`, `round.rs`, `slots.rs`, ... | space files, key slots, a state file, two keychain entries | rounds; change of code, yield, rejoin, leave | no edit and no code is lost, every device ends in one account |
| session broker | `session/broker.rs`, `session/relay.rs` | the table of sessions and calls, a reader and a worker thread per session, a shell's control block | open, connect, resize, end, quit | every client is told once how it ended, quitting leaves nobody behind |
| connecting | `session/connect.rs`, `auth.rs`, `pins.rs`, `hostkey_window.rs` | pins, what was asked and typed, the open question | connect in rounds, confirm a key, ask a password | a login goes only to a known key, a pin is what the person confirmed |
| agent | `agent/` | approvals with an expiry, open windows, the opened key | decide, share a window, unlock, remember, pause | nothing is signed that was not allowed, every request is answered |
| MCP server | `mcp.rs`, `mcp/` | a policy, the calls under way, their cancel flags, open windows | run a command, save a host, allow, revoke, switch off, cancel | a call does what was shown and allowed, and none outlives its permission |
| vault, CLI, IPC, config editor, deployment, shell, user interface | `vault/`, `cli/`, `ipc/`, `config/`, ... | secrets, files | - | see section 8 |

How they interact. A device's engine (`worker_loop`) starts a round every
poll interval or when an edit wakes it. A round takes the lifecycle lock, asks
the account gate (always a full pull of the account chain), uploads dirty
account rows, then for the space pulls from its cursor, merges, asks the gate
again if something is dirty, pushes the dirty rows in batches, and applies the
receipts. Edits take the same lock, so a device's rounds and edits exclude
each other; the confirmation of a host key holds it only in its two phases
and not during its pull. The relay sees ciphertext and compares sequence
numbers: a row is accepted if the sender has seen the stored one. Which
revision of a record is the later one (time, tombstone, device) is known to
devices only. That two different orders, one per side, never contradict each
other is the centre of the design and of the proofs below.

The operations of an account's life are commands that hold the lifecycle lock
while they run and leave a journal when they fail; a pending journal refuses
edits, rounds and every other operation until it is resumed. They share the
account chain with the rounds of *other* devices. The version 2 change of code
is different: commands hold the lifecycle lock, the background thread that
drives the change does not, and the two meet under the core lock only.

A session connects through pins kept in the records (or the version 2 files),
asks the person through windows, and then belongs to its broker entry. The
agent answers programs that want a signature; its approvals are cleared when
the version 2 workspace is paused. Calls of AI tools come through the broker
(records) or a bridge of their own (version 2), one thread each; the commands
that change what they may do cancel the calls concerned.

## 2. Behaviours that are hard to test

`PROJECT.json` lists the hazards line by line with the properties that cover
them. In short:

- **Unreliable delivery**: a push is lost, or applied and its answer lost, or
  applied long after its sender gave up and pushed something newer.
- **Partial failure**: a push of several batches stops half way; a freeze is
  recorded by two saves that can each fail; receipts that cannot be saved are
  kept in memory; one chain of a batch fails; a password is copied and the
  detach after it is not saved.
- **Crash and restart** between any two steps: with receipts or a newer
  account format seen but not saved, between the journal and the keychain,
  between freezing the old chains and activating the new ones.
- **Ordering**: receipts carry numbers beyond rows of other devices; two
  devices re-stamp the same host after a group change; the account format
  must be acknowledged before the first grouped record; the code is deleted
  after everything that needs it.
- **Stale state**: the proof of a host key confirmation is prepared outside
  the lock; an idle or limiter alarm was set by an earlier event; a pin was
  changed while the window showed the old one; a preview is confirmed after
  the source changed; a size sent while the shell was being opened; a host
  edited, or a permission withdrawn, while the window about it is open.
- **Races of threads**: quitting while a session is being connected; an answer
  given in the moment a window times out; a request that joins a window about
  to close; the background thread and a command on one keychain slot; two
  devices that change the code at once.
- **Boundaries**: a clock behind the revision it replaces, windows that end
  exactly now, quotas, numbering with conflicts in between, a response budget
  that the first answer exhausts.
- **Liveness**: conflicts leave rows dirty and re-stamped rows make new work;
  a deferred chain must come first some time; a journal must end; a quit must
  end; a request must be answered.

## 3. The modules

| module | models | extends |
|---|---|---|
| `ChainRows` | row arithmetic of a chain: acceptance, numbering, the table after a push, what a pull returns | - |
| `ChainService` | abstract: what a chain promises its devices | - |
| `ChainStore` | the relay's chain object with its quotas, freeze, rate limit and idle alarm | `ChainRows` |
| `IpLimiter` | the relay's limiter object | - |
| `BatchPull` | the pull of many chains: the round's queue, the request with its budget, `pull()` split at its await | - |
| `LwwRecords` | last-writer-wins, the stamp of an edit, `valid_pull`, merge, outgoing rows, receipts | `ChainRows` |
| `RecordSync` | devices, one space chain and the network between them | `LwwRecords` |
| `AccountGate` | devices, the account chain, the format gate, host key confirmation | `LwwRecords` |
| `AccountSetup` | creating an account, joining it, creating a space | - |
| `Rotation` | changing the sync code | - |
| `LeaveAccount` | leaving an account | - |
| `Migration` | migrating version 2 hosts to records | - |
| `LegacyRotation` | changing the sync code of a version 2 account | - |
| `Connecting` | connecting through hops, host keys, passwords | - |
| `SessionBroker` | sessions, calls, shells, quitting | - |
| `AgentBroker` | requests to sign, approvals, windows, pausing | - |
| `McpCalls` | calls of AI tools, their windows, cancellation, the policy | - |
| `RelayFront` | what stands in front of the chains: batch pull and limiter | `BatchPull`, instance of `IpLimiter` |
| `Lifecycle` | the life of an account | `Rotation`, instances of `AccountSetup`, `LeaveAccount`, `Migration` |
| `Sessions` | a terminal's connection and session | `Connecting`, instance of `SessionBroker` |
| `Approvals` | what needs the user's consent | `AgentBroker`, instance of `McpCalls` |
| `ChainStoreProofs`, `RecordSyncProofs`, `AccountGateProofs`, `LegacyRotationProofs`, `RelayFrontProofs`, `LifecycleProofs`, `SessionsProofs`, `ApprovalsProofs` | theorems | the module before `Proofs` |
| `MCChainStore`, `MCRecordSync`, `MCAccountGate`, `MCLegacyRotation`, `MCRelayFront`, `MCLifecycle`, `MCSessions`, `MCApprovals` | instances for TLC | the module after `MC` |

`ChainRows` and `LwwRecords` hold the code that several components run, once:
`RecordSync` and `AccountGate` push through the very operators by which
`ChainStore` models the relay. Definitions that a comment calls "Mutant of X"
are plausible mistakes in X; nothing uses them, they exist to show that a
property notices the mistake. What a module assumes of its constants is its
definition `...Assumption`; the module itself, the module that composes it
with others, or the MC module that instantiates it ASSUMEs it, so that TLC
evaluates it for every instance.

`RelayFront`, `Lifecycle`, `Sessions` and `Approvals` put components side by
side that share no state. Their variables and actions keep the names of the
code and would clash, so one component is extended and the others are
instances; the properties that join what an instance states are defined
there, once for the run and for the theorem.

### Data

A revision is the header that last-writer-wins compares, `[ts, del, dev]`,
and an `id` that stands for the content; ciphertext is the revision itself
(encryption is taken as ideal). A row on the relay is `[seq, body]`, with
`seq = 0` for none. A row of a device is `[rev, seq, dirty]`. Identities and
devices are numbers since both are ordered: identities by the request,
devices as the last tie-breaker. Times are small numbers: a device's clock
reads any value up to `MaxNow` at any edit, so clocks are skewed against each
other and run backwards. Where revisions do not matter (the lifecycle
modules), a row is present or absent, or a counter.

### ChainStore and ChainService

Variables are the meta rows (`token`, `latest`, `frozen`), the table `rows`,
the storage `alarm`, the in-memory `minute`, the clock, and two history
variables no action reads (`lastUse`, `cutOff`). One action per handler, with
its early returns (wrong token, 429, 409, 413) and its effects in order,
`touch()` included; a request with the wrong token changes nothing and is
left out, as is one to a chain that does not exist. `Alarm` is the platform
calling `alarm()` at its time or later; `Evict` is the loss of the instance.
A handler is one step because the object is single threaded and its awaits
are storage operations, during which the platform delivers no other event
(the input gate of durable objects: an assumption about the platform, which
`BatchPull` makes explicit).

`ChainService` is what a device may rely on: numbers are given one after the
other and without gaps, a row changes only by getting such a number, a frozen
chain gets no row, and the end takes everything at once. `ChainStore` is shown
to implement it (`ServiceImplemented`), and so is the relay inside
`RecordSync` (`RelayIsService`), late and repeated deliveries included; the
one step of that relay outside of the service is the operator restoring a
backup (`RestoreChain`). So what is shown of the devices is not shown with a
relay that `ChainStore` could not be.

### IpLimiter

`windows` and `alarm` are what is stored. `opened` and `granted` are history:
they count what was granted per hour from the requests alone, so that the
limit is not stated in terms of the very record the alarm erases. Counts
saturate one above the limit (in the code they go on; no larger value is told
apart).

### BatchPull

`queue`, `fetched`, `limited`, `batchOk`, `batchFailed` are the locals of
`pull_all()`, `failures` is `core.batch_failures`, `request` is a request in
the relay's `batchPull()` and `reading` the chain whose `pull()` has read its
rows and awaits the alarm. `Push` of another device is kept out of that chain
by the input gate only: with the gate open (`PushUngated`), `NoRowSkipped`
breaks, which is what the gate is needed for. `Broken` chains fail every time
and turn the request into a 5xx, after which the round asks chains one by
one; so it does, for the rest of the round, with a relay that lacks the batch
route (`Unsupported`). Any other error ends the round without a result
(`AbortRound`). `Gone` chains answer 404 and are paused. `Keep` is the filter of a
sequence, written as a recursive function so that it can be proved about.

### RecordSync

One space. Per device `mem` and `disk` are the section in `core.records` and
in the state file, `saveBlocked` is `core.save_blocked`, `pc` is the position
in the round; `pulled`, `sent`, `todo`, `accepted` are the round's local
values, gone when it ends. `chain` is the relay's chain and `net` the pushes
still under way whose sender has given up.

| action | code |
|---|---|
| `Edit` | `edit_records()` with its scope guards, `ordered_record()`, and `invalidate_changed_pins()` of the same persist |
| `StartRound` | `run()`, `preflight()`, a compatible gate |
| `Pull`, `PullNotFound` | the pull of the space, from the cursor or in full; 404 |
| `RefusePull`, `Merge` | `section_commit()` of an invalid or a valid merge, re-stamped hosts, `space_outgoing()` |
| `Abort` | an error before anything is pushed |
| `PushBatch`, `PushFails`, `PushFrozen` | one batch of `push_batches()`: answered, failed (not applied, applied, applied later), 409 |
| `Receipt`, `ReceiptFrozen` | `receipt_commit()`, `mark_frozen()`, `fail_closed()`, `note_failure()` |
| `Crash` | the process ends; memory is read from disk |
| `LateDelivery` | a push reaches the relay after its sender gave up |
| `FreezeChain`, `PurgeChain`, `RestoreChain` | what others do to the chain: another device changes the sync code, the idle alarm, an operator's backup |

Whether an edit changes a host's endpoint is data: any subset of the hosts
whose own row or whose group changed is re-stamped. How rows split into
batches depends on sizes: any non-empty initial segment of what is left.

### AccountGate

The account chain with its metadata row and other rows. `goal` says for what
the gate was asked: a round's first gate, the upload of account rows, the
upload of the space, or the promotion of the format; `remote` is the newest
format ever authenticated. `pin` is the confirmation of a host key, whose
pull runs beside the device's rounds. `NewerApp` is a later version of the
application on another device, known only by the format it writes. The space
is reduced to "holds a grouped record". `futureSeen` is history.

### AccountSetup, Rotation, LeaveAccount

Each of the three source files has one `resume_locked()` that carries a
pending operation out step by step; `pc` is the step it is at, `mem.op` and
`disk.op` the journal, `keychain` the entries it uses. Starting a command
saves the journal and runs the steps; `Resume` does so again after a failure
or a restart; `StepFails` is any step that answers an error, `Crash` the end
of the process, and a push can be applied without its answer arriving.

- `AccountSetup`: `rows` and `dirty` of the journal are the prepared account;
  `GateOf` and `ObserveGate` are the fresh gate of every step, which records a
  newer format and stops; after a frozen push it keeps the phase
  `Publishing`. A push is refused row by row where the relay has the row, and
  one whose sender gave up may arrive later (`net`). Other devices freeze the
  account or raise its format at any time.
- `Rotation`: a chain is the set of the writes it accepted. `old` and `new`
  are the two generations; other devices write to the old one and create
  spaces in it until each chain is frozen, and may join the new account as
  soon as its marker is active. The order of the rows in a batch is the
  code's (`KindOrder`): it decides what a failure between batches leaves. A
  conflict does not stop the batches after it (`refused`); the receipts are
  saved, or kept in memory when the save fails, and then the call ends.
- `LeaveAccount`: passwords are kept under a host's old and new names
  (`source`, `target`), and the user may change one while leaving is pending.

### Migration

`preview` is the prepared plan in memory, `journal` the confirmed one on
disk; `seen` is what a call has read before the step at which it is used
(`meta.seq`, the local revision, the generation). `legacy` and `typed` are
the revisions of a host's old and new row, `meta.gate` is the marker. Old
clients write old rows, migrated devices edit new ones, local records change
while a migration publishes, and one device may raise the format. A call that
finds the local records changed at the switch rebases and tries again; after
`Rebases` tries (16 in the code) it answers an error.

### LegacyRotation

`bg` and `cmd` are the two actors of a device: the background thread and the
command that holds the lifecycle lock. `Driving` is the guard with which the
thread looks at the saved step again before it acts; `Yield` and `Unstage`,
`Switch` and `Promote`, `LeaveDecide` and `LeaveClear` are pairs of steps
because the code releases its locks between them. Every save can fail, in
which case the state in memory is ahead of the disk until `Resave`; the
keychain can refuse, in which case `swap` remembers that the code must still
be moved. It can also refuse a deletion (`DeleteStaged`, `LeaveForget`), which
the code ignores: the code stays in its slot. A leave whose files cannot be
kept (`LeaveRefused`) ends before it clears anything, with the change it
cancelled still cancelled.

### Connecting

One behaviour of a connection is a sequence of rounds of `connect_within()`:
`Resolve` and `Prefetch` read the pins, `Handshake` compares the key a server
presents (any, at any time) with the pin the policy holds, `Confirm` asks the
window and `PinConfirmed` writes the pin if it is still the one that was
shown; `LoginRefused` and `AskPassword` count the passwords. Connections
share the pins and the window; the person forgets pins elsewhere.

### SessionBroker

Per session: the reader (`serve()`), the worker (`run_session()`,
`run_shell()`), and the threads that `end_all()` starts for it, over one
table entry and one control block. Every place at which the code releases the
table's lock is a boundary between two actions. A thread that closes a shell
waits in `close_settled()` until the shell printed or the settle time passed.
A shell ends with a status, refused, dropped with its connection, or closed,
and what the client is told depends on which (`TellEnding`). Jobs are calls of
AI tools, of which 16 run at a time (`MaxJobs`, `Busy`), and deployments of
keys, which have no limit and do not count.

### AgentBroker

Every request has its thread: `Check` looks for an approval, `Join` becomes
the leader of a window or the follower of one, `Recheck` looks again once it
leads, `OpenWindow` and `StopWaiting` are `ask()`, `Leave` takes the window
out of the list, `FollowTimesOut` is a follower that waited for
`SHARED_ANSWER_WAIT` and is refused, `Unlock`, `TryKeychain` and `UsePassphrase` open the key,
`Remember` and `Drop` publish the outcome. The user resolves, denies or
closes windows; `Pause`, `PauseDenies`, `Clear` are the three steps of
pausing the version 2 workspace. `checked`, `allowed` and `kept` are history.

### McpCalls

Three kinds of calls share one set of steps: `ssh_exec` and `create_host` of
the records workspace (`execute_context()`, `create()`) and `run` of version 2
(`run_approved()`). A call reads the policy and what the window will show,
in the order its function does (`ReadPolicy`, `Capture`), registers, opens
its window (`Insert`), hears an answer, a cancel or the deadline (`Receive`),
and looks again at everything that may have changed (`Check`,
`ResolveTarget`, `Connect`, `Edit`). An endpoint is a number that grows with
every edit of what the window shows. The thread that watches the policy of an
`ssh_exec` is `Watch`. A settings command saves the policy, cancels the calls
(`CancelActive`) and denies windows (`DenyPending`), three steps between which
calls go on; `cancel_request()` is two, one per lock, and two parties call it
for a `run`: the thread that watches its connection and a client's cancel
(`Canceller`). A `run` may find that version 2 has been left, when it is
dispatched and after its approval. `create_host` compares the proposal twice,
once to see what it changes and once in the save (`Editable`). `ran`, `saved`, `yes`
and `hushed` are history.

## 4. The runs

| run | cfg | explores | checks |
|---|---|---|---|
| `chain_store` | `ChainStore.cfg` | 3 identities, room for 2 rows and 3 units, 2 callers, 6 ticks with an idle time of 3 | `QuotaRespected`, `ActiveChainKept`, `FrozenUntilIdle`, `ServiceImplemented` |
| `relay_front` | `RelayFront.cfg` | the limiter with limits 1, 3, 3, a window of 3 and 11 ticks; or four chains in batches of two, one broken, one gone, every answer with a row exhausting the budget, a healthy chain behind another or in one batch with the broken one | `LimitHolds`, `NoRunningWindowErased`, `NoRowSkipped`, `RoundsAccount`, `EveryRowArrives` |
| `record_sync` | `RecordSync.cfg` | 2 devices; plans `record`, `retry`, `several`, `stops` | `CleanMeansStored`, `HonestPullAccepted`, `CursorCovers`, `HeaderIdentifiesRevision`, `RelayNeverRegresses`, `DeviceNeverRegresses`, `RelayIsService` |
| `record_live` | `RecordLive.cfg` | 2 devices under fairness; plans `group`, `retry`, `frozen` | `Converges`, `FreezeNoticed` |
| `account_gate` | `AccountGate.cfg` | 2 devices and a newer version, 2 account rows; plans `confirming`, `failing`, `healing` | `FutureClosesAccount`, `GroupsAfterSchema`, `SchemaNeverDowngraded`, `FutureStopsWrites`, `BlockLifted` |
| `lifecycle` | `Lifecycle.cfg` | nine scenarios of the four lifecycle modules | `SetupConsistent`, `RotationSafe`, `LeavePreserves`, `MigrationComplete`, `MigrationNeverUndoes`, `OperationsComplete` |
| `legacy_rotation` | `LegacyRotation.cfg` | two devices, two spaces, two edits; both change the code at once, or one does and leaves or cancels with a failed save, a refused keychain and a restart | `NothingLost`, `CodesKept`, `NoneStranded` |
| `sessions` | `Sessions.cfg` | a session with a call or with sizes; two calls and a deployment where one call runs at a time; two connections to one host; one through a jump host with passwords | `EndingTold`, `ShellHandled`, `NobodyWaits`, `ConnectBounded`, `PinsAreConfirmed` |
| `approvals` | `Approvals.cfg` | three requests to sign at once; two of different programs; two of one program while approvals expire and the workspace is paused; a key with a passphrase; a call of each kind with two changes of the settings (one for a `run`, which two parties may cancel) and one of the host | `ConsentHonoured`, `CallsHonoured`, `RequestsAnswered` |
| `freeze_permanent` | `FreezePermanent.cfg` | 1 identity, 7 ticks | `FreezePermanent` is violated (finding 1) |
| `stale_proof` | `StaleProof.cfg` | plan `confirming` | `PreparedProofAccepted` is violated (finding 2) |
| `legacy_rejoin` | `LegacyRejoin.cfg` | both devices change the code, one restart | `KeysKept` is violated (finding 3) |

### What the properties say

Relay.
- `QuotaRespected`, `ActiveChainKept`, `FrozenUntilIdle`: the quota holds
  through conflicts and replacements; a chain in use is not erased although
  `touch()` is throttled; a cut-off holds until the idle alarm.
- `LimitHolds`, `NoRunningWindowErased`: counted from the requests, not from
  the record the alarm erases.
- `NoRowSkipped`: `latest_seq` is read after an await, and a cursor still
  never passes a row that was not delivered. `RoundsAccount`: a round ends
  with exactly one entry per chain, a chain is missed only after a 429 or a
  failed request, and after a 429 nothing more is asked. `EveryRowArrives`
  (`RowsArrive` of the module): a chain late in the order gets its turn, whatever the others answer.

Records.
- `CleanMeansStored`: a row a device does not mean to upload is on the relay
  or superseded there, in memory and on disk. A receipt credited to the wrong
  revision or the wrong batch, or a merge that cleans too much, breaks it.
- `CursorCovers`: what a device will never ask for again, it has. Receipts
  must therefore not move the cursor.
- `RelayNeverRegresses`: the relay's order (sequence numbers) never
  contradicts the devices' (last-writer-wins), late deliveries included.
- `DeviceNeverRegresses`: no confirmed edit is undone, also not by a restart.
- `HonestPullAccepted`: the rollback check never accuses an honest relay,
  whatever was saved or lost.
- `HeaderIdentifiesRevision`: the tie last-writer-wins leaves open never
  hides two contents.
- `Converges`: devices and relay come to one state (`EventuallyConverged` of
  the module, in the plans without a freeze). `FreezeNoticed`: a device with
  something to upload does not knock at a frozen chain for ever.
- `SchemaNeverDowngraded`, `FutureStopsWrites`, `FutureClosesAccount`,
  `GroupsAfterSchema`, `BlockLifted` (`BlockHeals` of the module): what the
  account gate promises towards versions it does not know.

`CleanMeansStored`, `CursorCovers`, `HonestPullAccepted` and
`RelayNeverRegresses` speak of a chain that has not lost rows (`chain.lost`,
a history field that only `PurgeChain` and `RestoreChain` set). No design
could do without that condition: an erased chain has nothing stored. In
the plans without purge and restore the condition is always true.

Account life. Each property joins what the modules state under names of
their own:
- `SetupConsistent`: an account that exists has its code in the creator's
  keychain, a device is in it only once it is listed, a listed space has a
  chain, and once a newer format was authenticated no step writes.
- `RotationSafe`: when the new marker is active, every write the old chains
  ever accepted is in the new ones and every space they list exists; the
  device switches only to an active account; the code a resume needs is in
  the keychain before it is needed.
- `LeavePreserves`: whoever has left has every host on disk with its
  password, and the code is deleted only after that.
- `MigrationComplete`, `MigrationNeverUndoes`: the marker means that every
  planned old row has its new one, a profile is switched only to an active
  account with its original kept; no conversion overwrites a new row, the
  account never goes back, a local change during publication survives.
- `OperationsComplete`: however often it failed, an operation completes. The
  conditions under which that holds are part of the statement, and section 7
  says what happens without them.

Version 2. `NothingLost`: no edit of either device is lost by a change of
code, also not one made while it runs. `CodesKept`: once a device marked the
account its change can no longer be cancelled (`FrozenIsFinal`), and the code
everyone waits for is in its keychain until it leaves (`CodeHeld`).
`NoneStranded`: no device that has not left loses the keys of the account it
is in (`KeysKept`), and two devices that change the code at once both end in
a new account (`RotationEnds`).

Sessions. `EndingTold`: told once how it ended and nothing after it; when
`end_all()` finds the table empty everybody present was told; whatever
registers while the application quits is refused or cancelled; no shell for a
client that was told the application quits. `ShellHandled`: a shell is closed
only after it printed or settled, and has the size sent last. `NobodyWaits`:
quitting empties the table, a client that left is forgotten.
`ConnectBounded`: a login is sent only to a key that is or was pinned, a key
is asked about once and a password `Prompts` times, and the limit on rounds
is never what ends a connect. `PinsAreConfirmed`: a pin is written only for
the key confirmed and over the pin the window showed, whatever other
connections do; nothing is asked or pinned after giving up.

Approvals. `ConsentHonoured`, of the agent: a signature rests on a window the
user allowed or an approval that was still valid when it was looked for
(`SignedIsAllowed`); one window asks per program and host (`OneWindow`); and
an answer that was taken counts, also when the time ran out in that moment
(`AnswerCounts`). `CallsHonoured`, of AI tools: a command of `ssh_exec` runs
only on the endpoint that was approved, and in the mode Ask, as every `run`,
only after a yes in time; a host is saved only as shown and after a yes, in
every mode; a `run` cancelled before it was registered neither asks nor starts
(`CallsAllowed`); and when the command that withdrew a permission has
returned, every `ssh_exec` past its check has been cancelled
(`RevokedIsCancelled`). `RequestsAnswered`: every request to sign is answered,
and a call that was cancelled or is no longer permitted ends although nobody
answers its window and its deadline is not waited for.

### Scenarios and plans

One instance that is large in every direction is out of TLC's reach, and most
combinations show nothing new. So several MC modules choose a *scenario* (or
*plan*) in their initial state and keep it: `MCNext` is the next-state
relation of the module, instantiated with that scenario's constants.

- In `MCRelayFront`, `MCLifecycle`, `MCSessions` and `MCApprovals` there are
  scenarios of
  different modules, whose variables rest in the others'. Nothing is lost by
  not interleaving them: the limiter and the batch pull share no state, a
  connection and a served session neither (the worker of `SessionBroker` sees
  a connect as a step that asks, fails or succeeds), a pending lifecycle
  operation refuses all others, and the agent and the MCP server have windows
  and settings of their own.
- In `MCRecordSync`, `MCAccountGate`, `MCLegacyRotation` the
  scenarios are of one module and differ in their bounds. What is checked is
  the union of their behaviours. A constraint such as `HostOnly` only
  restricts the inputs.

### Why the bounds are enough

Two devices are the least at which orders can disagree; a third one is
covered by the proofs, which fix no number. Three edits let a device edit on
top of another one's edit that was itself on top of an earlier one; two
failures allow a lost answer followed by a crash, or two late deliveries. Two
clock values give ties and clocks that run behind. Two records are needed for
batches, distinct numbers and groups, one for everything else. The relay
instances have quotas that both limits can exceed, and clocks that run past
the idle alarm, so that a chain is erased and created again. A failure in
every step of a journal followed by a crash needs two faults; batches of one
or two rows let a failure fall between batches; a space that is created
during a change of code is the second one. A conversion that is tried once
(`Rebases` = 1, in one scenario) meets the limit, one that is tried twice
rebases. For the agent, two requests of one program share a window or find an
approval that the other left, one of an unknown program may not, and one of
another program asks for itself. Calls of AI tools do not act on each other,
so one at a time is enough; two changes of the settings withdraw a permission
and give it back, or change the mode there and back. `EarlyLimit` is not
reached: at 256 notes of early cancels the code forgets all of them. For jobs,
a limit of one with two calls is the least at which one is refused, and a
deployment beside them shows that it does not count. Four chains in two
batches are the least at which a chain can be deferred behind another batch.
Two disturbances of a pull (`MaxLimited`: a 429, a relay without the batch
route, an aborted round) let one follow another.

Larger instances were explored once, before the latest refinements of the
modules, without a violation: `RecordSync` with three edits and two failures of one record (683 000 states), `Migration` with
two devices, edits, a failure and a raise (5 million), `AgentBroker` with all
four requests and time (2.7 million), `LegacyRotation` with two devices that
both change the code and fail (825 000), `Rotation` with three failures;
the invariants of `McpCalls` with an `ssh_exec` and a `run` at once
(8.6 million).

`CHECK_DEADLOCK FALSE` stands where the system really may stop: devices at a
frozen or missing chain, an operation or a session that is over, and clocks
at their bound.

Bounds named in the modules: `MaxTime`, `MaxSeq`, `MaxNow`, `MaxEdits`,
`MaxFaults`, `MaxPins`, `MaxLimited`, `MaxPassword`, `MaxOldEdits`,
`MaxRaises`, `MaxOpens`, `MaxStarts`, `MaxSaveFailures`,
`MaxKeychainFailures`, `MaxRestarts`, `MaxForgets`, `MaxSize`, `MaxAsks`,
`MaxPauses`, `MaxSettings`, `MaxChanges`.

## 5. Fairness

- **Rounds** (`RecordSync`, `AccountGate`, `BatchPull`): weak fairness of a
  device's round steps. `worker_loop` in `engine.rs` polls every interval
  whatever the last round's outcome was, and a round is awaited to its end;
  it can fail, but failures are separate actions, bounded and not fair.
  `RecordSync` also assumes that a request still on the network arrives in
  the end (`LateDelivery`).
- **Lifecycle** (`AccountSetup`, `Rotation`, `LeaveAccount`): a call runs to
  its end (weak fairness of `Step`) and the user resumes a pending operation
  (weak fairness of `Resume`): the application shows it as pending and
  refuses everything else. Nothing is assumed of failures, which are bounded.
  `Migration` needs strong fairness of `Prepare` and `Confirm`: the user
  reviews again each time a preview went stale.
- **Version 2** (`LegacyRotation`): the background thread keeps taking rounds
  and saving what could not be saved, a command runs to its end, and the user
  of a blocked device enters the code that another device shows.
- **Sessions** (`SessionBroker`): every thread runs, calls to the ssh engine
  return (it has time-outs of its own), settling times pass. Nothing is
  assumed of the client or of the person.
- **Agent** (`AgentBroker`): every thread runs; a window waits no longer than
  60 seconds, so a thread in `ask()` goes on by itself. The user owes nothing,
  and nobody relies on `SHARED_ANSWER_WAIT`.
- **AI tools** (`McpCalls`): every thread runs, a connect and a command end
  (both have time-outs), and a settings command runs to its end. Neither an
  answer nor the deadline of a window is assumed.

`ChainStore`, `IpLimiter` and `Connecting` state no liveness and need no
fairness.

## 6. What is proved

Every theorem holds for every value of the constants that the assumptions
next to their declarations allow (`KeyAssumption`, `DeviceAssumption`,
`StoreAssumption`, `SyncAssumption`, `GateAssumption`, `BatchPullAssumption`,
`LimiterAssumption`, `LegacyRotationAssumption`, `RotationAssumption`,
`SetupAssumption`, `LeaveAssumption`, `MigrationAssumption`,
`ConnectAssumption`, `SessionAssumption`, `AgentAssumption`,
`McpAssumption`): identities and devices are finite sets of numbers, bounds
are natural numbers, what stands for "none" is not one of the things it is
not. TLC evaluates the assumptions in every run. Where a theorem has a further
hypothesis, it is named below.

Every safety property that a run expects to hold is stated by a theorem; what
is left to TLC alone is liveness.

| property of a run | theorem |
|---|---|
| `QuotaRespected`, `ActiveChainKept`, `FrozenUntilIdle`, `ServiceImplemented` | `QuotaKept`, `ActiveKept`, `FreezeHolds`, `Implements` (`ChainStoreProofs`) |
| `LimitHolds`, `NoRunningWindowErased`, `NoRowSkipped`, `RoundsAccount` | `LimitsAreKept`, `AlarmErasesNothingRunning`, `NoneSkipped`, `Accounted` (`RelayFrontProofs`) |
| `CleanMeansStored`, `CursorCovers`, `HonestPullAccepted`, `HeaderIdentifiesRevision`, `RelayNeverRegresses`, `DeviceNeverRegresses`, `RelayIsService` | `NothingForgotten`, `NothingSkipped`, `HonestRelayTrusted`, `HeadersUnambiguous`, `RelayMovesForward`, `DevicesMoveForward`, `RelayWithinService` (`RecordSyncProofs`) |
| `FutureClosesAccount`, `GroupsAfterSchema`, `SchemaNeverDowngraded`, `FutureStopsWrites` | `FutureCloses`, `GroupsWait`, `FormatNeverLowered`, `FutureStops` (`AccountGateProofs`) |
| `NothingLost`, `CodesKept` | `NothingIsLost`, `CodesAreKept` (`LegacyRotationProofs`) |
| `RotationSafe`, `LeavePreserves`, `SetupConsistent`, `MigrationComplete`, `MigrationNeverUndoes` | `Rotating`, `Leaving`, `SetupHolds`, `Migrating`, `MigrationStands` (`LifecycleProofs`) |
| `ConnectBounded`, `PinsAreConfirmed`, `EndingTold`, `ShellHandled` | `Bounded`, `Confirmed`, `Ending`, `Shells` (`SessionsProofs`) |
| `ConsentHonoured`, `CallsHonoured` | `HonoursConsent`, `HonoursPermissions` (`ApprovalsProofs`) |

Every component has an inductive invariant of its own, `IInv` where the
component is extended and with a prefix where it is an instance
(`LimiterInv`, `LeaveInv`, `SetupInv`, `MigInv`, `BrokerInv`, `CallInv`); the
type invariant is a part of it. The invariants were checked with TLC before
they were proved.

**Chains.** `SeqOfFacts` and `NumbersConsecutive`: the numbers that `push()`
gives to the accepted items are all different and exactly the next ones after
`latest_seq`. `ChainStoreProofs`, `RecordSyncProofs` and `AccountGateProofs`
rest on it, and each states the part it needs.

**ChainStoreProofs.** `IInv` is the type, the numbering (`SeqDistinct`, the
theorem `NumberingKept`), the quota, the distance of alarm and last use, and
two facts the properties do not say: a chain without schema has no leftovers,
so that creating it again starts from nothing, and the clock is past zero, so
that an alarm that was set is told from none. `Implements` is the refinement:
with the mapping in `ChainStore` (`Service`) every step of the object, for
any caller, is one of `ChainService` or leaves the abstract chain alone.

**RecordSyncProofs.** For any number of devices and records. None of the
properties is inductive: a push under way can only be harmless because of
what its sender knew when it collected the rows, and that is gone from the
sender's state. The inductive invariant `IInv` is `TypeOK`, `Coherent` and
`MemDisk`:

1. Wherever a revision is kept next to a sequence number (a row in memory or
   on disk, an outgoing row, a push on the network), the pair is `Sound`: as
   long as the relay's row is not newer than the number, it does not beat the
   revision. This ties the relay's order to the devices'.
2. So a push that the relay accepts replaces a row by one that is not beaten
   (`PushGrows`), and the chain only ever `Grows`: numbers rise, and a row
   changes only together with its number and never backwards.
3. `Sound`, and everything else a section or an answer must satisfy
   (`SectionOK`, `PulledOK`, `SentOK`), is kept when the chain grows
   (`SectionGrows`, `PulledGrows`, `SentGrows`): what one device does cannot
   hurt another.
4. What a device does keeps its own part: `AdvanceOK` (edits), `PullOK`,
   `MergeOK`, `OutgoingOK`, `ReceiptOK`, `AcceptedOK`.
5. For a crash, `MemDisk`: memory and disk hold the same revisions (they may
   differ in receipts), since everything else is saved before it counts.

If the chain is erased or restored, `Coherent` claims nothing from then on
(`chain.lost`), while `TypeOK` and `MemDisk` go on to hold; so
`DevicesMoveForward` holds without that condition. `HeadersUnambiguous` needs
one invariant more, `OwnNewest`: a device holds the latest revision it ever
made, wherever the others have travelled, and stamps the next one later; with
`MemDisk` a crash does not change that. `RelayWithinService` shows that the
relay of this module stays within the same `ChainService` that `ChainStore`
implements, so what the devices rely on and what the relay does meet in one
specification.

**AccountGateProofs.** The relay compares sequence numbers and cannot see
formats; last-writer-wins looks at times. The argument is about the metadata
row: local rows, answers, prepared proofs and outgoing rows are `Sound` (while
the relay's row is not newer than the number kept with them, their format is
not below the relay's), so an accepted push never lowers the format. A merge
keeps this because formats rise with the stamps up to `ACCOUNT_SCHEMA`
(`MetaRev`) and an answer with a newer one is not merged. `SeenOK` is the
part about newer formats: a device that saw one has it in memory, or a crash
took it and the relay shows it again before anything is written.

**LegacyRotationProofs.** For any number of devices that change the code at
once, spaces, edits, failed saves, refused keychain writes and restarts. A
device acts on a progress record that it saved long ago or finds again in an
older form, so `StateOK` says of memory and file alike what the relay looks
like at the step they name: from the copy on everything the account lists is
frozen (`Sealed`), hence what was copied stays complete (`Complete`), and once
a space is deleted there is one marker and its device is past the copy. That
gives `NothingIsLost` and `MarkIsFinal`. `CodesOK` is the second invariant,
on top of the first: a change that cannot be cancelled any more has its code
in the staging slot, memory is not behind the file about it, and a thread
that will delete or promote a code after it released the locks belongs to a
device without a marker, or to the very code that was marked. It gives
`CodeIsHeld`. `KeysKept` is not provable: finding 3 violates it when two
devices change the code and one restarts. Where one device changes it, TLC
checks it (`NoneStranded`).

**LifecycleProofs.** Four operations that are carried out by a journal.

- *Rotation*, for any writes, spaces, batch sizes and failures. The journal is
  in memory and on disk, and the two may differ, since a save can fail after
  the relay acted. So `OpOK` says of a journal, wherever it is kept, what its
  step means at the relay: from the copy on every old chain is frozen and what
  was read from it is in the new chains or still to be pushed; an activation
  has everything copied. It is stable whatever other devices and late pushes
  do (`Grows`). `StateOK` adds the account a state names and the codes in the
  keychain, `PlaceOK` what each place of `resume_locked()` relies on, and
  `ActiveOK` that no push that activates is under way before the copy is
  complete. `Rotating` follows.
- *Leaving*. `LeaveJournalOK`: memory and disk agree, the plan covers the hosts
  the device has, and the account is left when the plan was carried out;
  `LeavePlaceOK`: whatever of the plan is not left to copy has its password
  under the new name, and the code is deleted only with an activated journal.
- *Setting up*, for any devices and spaces. A step of a device changes its own
  state and lets the account only grow (`SetupGrows`), which keeps what the
  other devices rely on; `SetupDeviceOK` is what a device's journal, memory,
  file and place say of the relay. `SettingUp` is the invariant part,
  `SetupStops` the action part about newer formats; `SetupHolds` joins them.
- *Migration*, for any devices, old clients and faults. What a call read may be
  stale when it writes: `MigPlaceAt` says what is still true of it at each
  place, `MigJournalAt` what the confirmed plan means at the relay (its rows
  are converted once it is past publishing), and `MigProfileAt` what a switched
  profile keeps. New rows, formats and the marker only grow (`MigGrows`), so
  another device's step cannot take this back.

**SessionsProofs.**

- *Connecting*, for any number of connections, hops, keys and prompts,
  whatever servers present and other connections pin meanwhile. `PlaceOK` says
  what each place of a connect relies on. `Bounded` is a counting argument:
  each way back to the start of the loop uses up one of the things that
  `Spent` lists (per hop: its key was asked about, its pin is known, its
  restriction to the pin's key types was lifted, each password prompt), and
  there is one fewer of them than `round_limit()`; so the limit is never what
  ends a connect.
- *SessionBroker*, for any number of sessions and calls, whichever clients
  leave or stop reading. Three threads may come to tell one client how its
  session ended. `EntryOK` and `TellerOK` say whose turn it is and that a
  session leaves the table only when its client has been told or is gone;
  `SaidOK` that nothing follows an ending; `ShellOK` that a closed shell
  printed or settled, and that a worker forwards sizes only once the shell has
  the last one.

**RelayFrontProofs.**

- *BatchPull*, for any chains in any order, any of them failing or gone, and
  all limits. `FetchedOK`: during a round every chain that is not paused is
  fetched or in the queue, and only once; `RequestOK`: the request at the
  relay works through the head of that queue. `NoneSkipped` rests on what an
  entry says of its chain (`AnswerOK`), and that on `ReadingOK`: no row is
  added while `pull()` is at its await.
- What `Keep` computes is an induction over the sequence. The library's
  induction principles take an operator, which the provers cannot
  instantiate; but that a set of numbers has a least one does not
  (`LeastNumber`, from the well-foundedness of `<`), and the argument about
  the shortest prefix on which the recursion fails (`KeptExists`, `KeepFacts`)
  uses that only.
- *IpLimiter*, for all limits, windows and batch sizes. The invariant relates
  the stored windows to the independently counted hours: while an hour runs,
  the stored count covers what was granted in it, and the alarm lies no
  earlier than the end of every stored window (`AlarmFollowsLastWindow`).

**ApprovalsProofs.**

- *The agent*, for any number of requests, programs, hosts, pauses and
  attempts. A request signs on an answer it need not have seen itself.
  `LeaderOK` and `AskingOK` say who asks for whom, `PlaceOK` what each place
  of a thread relies on, `OpenOK` that the leader opened the key before
  anybody shares its answer, `KeptOK` from which allowed window a remembered
  approval is and that it lasts no longer than it was kept for.
- *AI tools*, for any number of calls, hosts and changes of settings. `CallOK`
  says what each place of a call's thread relies on: a yes or the mode Auto,
  an endpoint that is the one shown, an entry in the table of active calls,
  and, past its check, that a withdrawn permission has cancelled it or is
  about to (`ToCancel`). `ConsentFirst` and `RevocationCancels` follow.
  `OnlyAllowedCalls` and `HonoursPermissions` speak of the behaviours in which
  the notes of early cancels are never full (`[]NotesFit`), for any number of
  calls: `cancel_request()` forgets all its notes when there are 256 of them,
  and a call whose note was forgotten does start. A run's second cancel, or
  one that comes too late, leaves a note that nothing takes away, so in a
  long session the notes can fill up.

**Only model-checked**:

- the liveness properties (`Converges`, `FreezeNoticed`, `BlockLifted`,
  `EveryRowArrives`, `OperationsComplete`, `NobodyWaits`, `RequestsAnswered`,
  the second half of `NoneStranded`): they need fairness and `ENABLED`, which
  the proof system does not treat;
- `KeysKept`, the first half of `NoneStranded`: finding 3 violates it in
  general, and TLC checks it where one device changes the code;
- what the violation runs show, which is false.

## 7. Disagreements found

1. **A freeze is not permanent** (`freeze_permanent`). A comment in
   `relay/src/index.ts` and the relay's README say a freeze cannot be lifted.
   The idle alarm erases the freeze with the chain, and `freeze()` does not
   renew the alarm; afterwards the old token creates an open chain under the
   same identity. What does hold is checked as `FrozenUntilIdle`.
2. **A prepared account proof can be refused** (`stale_proof`). The comment
   in `session/record_pin.rs` says a background round between the two phases
   of a host key confirmation does no harm, because the proof is merged into
   the current state. If that round advances the account's cursor or one of
   its sequence numbers, `valid_pull()` takes the older answer for a rollback,
   the confirmation fails and shared edits are blocked. `BlockLifted` shows
   that the next rounds lift the block.
3. **A rejoining device can lose the new code** (`legacy_rejoin`).
   `yield_to_other_rotation()` (`rotation.rs:463`) records the freeze under
   the locks and deletes the staged code after it has released them. Once the
   freeze is recorded the user may enter the new code, which
   `rejoin_account()` stages in the same slot; the late deletion removes it,
   and if the process ends before the code is promoted, or the keychain
   refuses, the state names an account whose code no slot has. A comment at
   `rotation.rs:739` says the new code is not lost when it is interrupted
   between the two.

What else was met while modelling is visible in the conditions of
`OperationsComplete`, `MigrationComplete` and `NoneStranded`; the scenarios are
restricted to what these conditions say.

- `record_rotation.rs:1475`: the journal is saved before the new code is put
  into the keychain. A crash in between leaves a pending rotation whose code
  exists nowhere; every resume asks for it. Hence "whose new code is known".
- `record_rotation.rs:803`: a device that joins the new account once its
  marker is active uploads its device row, which `target_proof()` of a later
  resume calls unexpected. Hence "nobody joins before".
- `record_rotation.rs:725`: with more rows than a batch, device rows go out
  before the metadata row; a failure after the first batch leaves an account
  that `target_proof()` reads as in need of migration. Hence "fit one batch".
- `record_leave.rs:694`: the plan of leaving is compared with the shared hosts
  at every resume and never made again. Hence "if nobody changes the hosts".
- `record_migration/publication.rs:343`: every format above 3 is refused, so a
  device that has not migrated when another one enabled groups stays paused.
- `record_migration/publication.rs:1190`: the journal holds a generation that
  counts within one process. If the old workspace was opened and paused before
  the plan was confirmed, the number differs after a restart, and every
  resume is refused; preparing and confirming again gets past it.
- `record_migration/publication.rs:629`: only rows of the confirmed plan are
  compared with their source. A row an old client adds later is in no plan.
- `rotation.rs:788`: the switch writes the new code into the keychain after
  it released the lock; leaving in between deletes both slots, and the write
  puts the code back.
- `mcp.rs:961`: after its approval a `run` looks at the policy again, but not
  at the configuration: ssh reads the file of that moment, and nothing
  cancels a `run` whose host is revoked once it started. `CallsAllowed` and
  `RevokedIsCancelled` say what they say of `ssh_exec` only.
- `mcp.rs:961`: a `run` whose cancel comes after the user's yes but before
  the answer is heard is started and then killed.

## 8. What is not modelled

- **Encryption, formats, validation of contents.** A body is its revision.
  Rows that cannot be opened or are not understood (opaque rows), the group
  order kept with them (`record_merge.rs:953`), kinds of records and
  relationship reviews are data; a review only appears as "this round may
  stop before it pushes".
- **Several spaces in one round of records**: one space, pulled alone.
  `BatchPull` has the several chains of a version 2 round, not what is done
  with their rows.
- **The composition of a lifecycle operation with the rounds of the same
  device**: a pending operation refuses them. Other devices appear in the
  lifecycle modules by what they do to the chains, not by their rounds. Account
  formats and storage budgets are left out of `Rotation`.
- **Local-only records** that an enabled library takes over while persisting:
  on the chain they are creations. Key records, device and account names are
  left out of `AccountSetup`; the version 1 chain, keys, pins and passwords
  out of `Migration`.
- **A relay restored from a backup that then grows past a device's cursor**
  (`record_merge.rs:673`). `valid_pull()` cannot tell; the properties are
  conditional on a chain that has not lost rows.
- **`push()` of the relay is a single step** by the platform's input gate, see
  section 3.
- **Back-off, wake-ups, status events** of the engine: they change when a
  round starts, and a round may start at any time here.
- **The order of the locks** (`runtime.rs:105`): lifecycle, vault,
  publication, document and core lock. Which call takes which while holding
  another is spread over the program; the modules take a locked region as a
  step.
- **Version 2 beyond the change of code**: merging of host blocks, key slots
  and their set-up (`slots.rs`, `slot_setup.rs`, `local_keys.rs`), the upgrade
  from version 1. In `LegacyRotation`: deleting the account on leaving, the
  later retry of a code that leaving could not delete
  (`phrase_cleanup_pending`), read-only formats, key slots, and changing the
  new account's code in turn.
- **Agent**: the protocol, wiring of the configuration, key names that no
  longer match the vault.
- **Sessions**: framing, who may connect to the socket, the ssh library.
- **MCP server**: confirming a host key for a tool, listing hosts, the audit
  log, the bridge and the stdio adapter; a second call with the id of one that
  is active, which is refused; the limit of 16 calls and quitting, which are
  jobs in `SessionBroker`.
- **Vault, CLI, IPC, configuration editor, deployment, known hosts,
  discovery, shell, user interface**: secrets at rest, input and output, text
  formats, presentation. Most of the repository's lines are these, tests and
  data conversions; the modules cover the parts with state that several
  actors share.

## 9. Plan

Done: the relay with its abstract service, the space round, the account gate,
batch pulls, the life of an account in both generations, sessions, the agent,
AI tools; and proofs of every safety property that a run checks, but for
`KeysKept`. What would say most next:

1. `KeysKept` of `LegacyRotation` where at most one device changes the code:
   the condition under which finding 3 cannot happen.
2. A round of records over several spaces, with the account gate between them.
3. Key slots of version 2 and their set-up (`slots.rs`, `slot_setup.rs`),
   the largest part with shared state that no module has.
