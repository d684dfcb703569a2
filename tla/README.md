# A TLA+ verification of mcp-writ

mcp-writ runs an MCP server under a policy.  The **Auditor** relays JSON-RPC
between the client and the server and decides every frame; the **Warden**
confines the server process and, on Linux, its connections; the **DNS gate**
resolves the names the policy allows and grants the addresses they resolve to;
the **Verifier** pins what the server is and what it advertises; the **audit
log** records decisions and is itself part of enforcement (fail-closed); the
**runtime** launches, watches and reaps the child.  This directory holds TLA+
models of the parts whose correctness depends on orders of events, TLC
configurations that check them, and TLAPS proofs.

## The system and its parts

| Part | State | Why it is hard |
|---|---|---|
| tools/list gate (`auditor/proxy_tools_list.rs`, `proxy_list_state.rs`, `proxy_state.rs`, parts of the two loops) | busy gate, dispatch epoch, kick, pending and held listings, page collection, verified set | two loops interleave at every await; answers, cancellations and notifications cross |
| wire table (`auditor/proxy_rpc/wire.rs`, `policy/mcp/decide.rs`) | in-flight requests per direction, initialization stage, subscriptions, elicitations, byte ledger | ids reused, late answers, cancelled and answered at once |
| session tracking (`auditor/session.rs`) | trajectory of verified calls, pending calls, listed paths | the verdict on a call depends on which earlier answers have arrived |
| audit log (`audit_log.rs`, `audit_log/*`) | bounded queue, writer task, files, failed flag | partial failure, rotation, a crash between file and directory sync, shutdown against producers |
| DNS gate (`dnsgate/server.rs`, `dnsgate/allowlist.rs`) | TTL-scoped grants, staged resolutions, the snapshot file | tasks race from the reply through record, commit and export |
| seccomp route (`warden/unotify/*`, `warden/ip_eval.rs`) | parked calls, workers, cached grants | a verdict outlives the grant it rests on; the worker, the stop and the task race |
| eBPF route (`warden/ebpf/*`) | kernel maps, ring buffer, drain thread | a program reads slots in the middle of a rewrite; the ring overflows; the drain ends |
| namespaced route (`warden/namespaced/*`, `warden/flow_gate.rs`) | NAT table, stack sockets, connections, backend tasks, credit | the loop and the backends share channels, a counter and a `Notify` |
| runtime, policy, verifier, container, legislator, inspector, command line | | sequential, or pure, or the platform's: not modelled |

How they interact.  The relay loops share the wire table, the session state and
the tools/list gate under async locks and meet at awaits.  Every verdict awaits
the audit log before it takes effect.  The DNS gate writes its grants to a
snapshot file, which the seccomp and eBPF routes read; the namespaced route
reads the table in memory.  The gate and a route use one audit log.

## Modules

| Module | Models |
|---|---|
| `ToolsListGate` | the tools/list gate: both proxy loops, `ProxyShared`, `S2cListState`, `run_proxy`'s abort |
| `WireState` | the request table and the decisions that read it |
| `SessionState` | `SessionState` of `session.rs` with its callers in the two loops |
| `AuditLog` | `AuditLogger` and the file writer task |
| `GrantTable` | the data of the grant table: keys, expiries, images with whole seconds |
| `GrantLedger` | the abstract specification: what the DNS gate promises the readers of its grants |
| `DnsGate` | `serve` and `process_query` over the allow list; implements `GrantLedger` |
| `EgressEnv` | what the routes share: rules, evaluator, the gate as `GrantLedger` steps, the audit log as a sink that may fail for good |
| `Unotify`, `Ebpf` | the two routes that read the snapshot file |
| `Egress` | a launch on one of the two routes, composed with the gate and the log |
| `Namespaced` | the TCP stack loop with its backends, composed with the gate and the log |
| `*Proofs` | theorems about the module they are named after; `EgressProofs` is about `Unotify`, `Ebpf` and `Egress` |
| `MC*` | instances for TLC (symmetry, policies, initial situations) |

Definitions are named after the functions and fields they model; PROJECT.json
gives the lines of each.  An operator named "Mutated form of ..." in its comment
is a plausible bug of the definition that follows it; no specification uses it.

### ToolsListGate

Both loops are futures of one `select!`, so code between two awaits is atomic.
`s2c` and `c2s` are program counters that stand at the awaits where the other
loop may run; `cur`, `req` and `call` are the locals alive across them.  `st` is
`S2cListState`, the other variables are fields of `ProxyShared`, `hist` records
what the environment did and what the client has received.  A server frame is
abstracted to the kinds the handlers tell apart (a page with or without a
cursor, an error, an unacceptable page, a response that policy or the size limit
rejects); tools are a set; the byte and tool budgets are one page budget.

### WireState

`wire` is the Rust struct as one record, and its methods are operators from a
table to a table.  A handler registers a request in one step and writes it, or
rolls it back, in a later one (`c2s`, `s2c` hold the undo token in between).
`owed` is the environment: the requests a peer has received and not answered.
Every retained string weighs one unit of the byte ledger.  `Pipelined` lets the
client send `initialize` while one is unanswered, which the decision table
admits; `Revisions` is what the client may speak.

### SessionState

`state` is the trajectory marker, the tombstones of calls without a verdict with
their overflow, the pending calls and discoveries, and the known paths.  `c2s`
stands between the session gates and the write, `s2c` between the taking of the
wire entry and the session update, where the code awaits the audit record.
`wire` is what this component sees of the request table.  The constant `Reuse`
says which ids the client uses again: `"any"` is what `can_register` admits;
`"answered"` excludes only an id whose answer has left the request table and not
yet reached the client, which a client that waits for its answers does not use.
The id of a refused, cancelled or failed call is used again in both.

### AuditLog

A producer inside `log_ordered` or `log_committed` stands at its awaits
(budget, send, acknowledgement); `log` is one step.  The writer polls the record
channel and, when it finds nothing, the request channel: these are two steps
(`WriterPolls`, then an arm), because the runtime has several threads and a
producer may queue a record in between.  An arm's body is one step: it signals
a waiter last.  `files` is every file the sink
has had, with how much of it is flushed and synced and whether its directory
entry is.  There is no crash action: `Durable` is what a crash at the present
state leaves, and the invariants bound it in every state.  `Faulty` is the set
of system calls that may fail.  The `biased` order is in the guards: the writer
comes to a rotation only when its poll of the record channel found nothing.

### DnsGate and GrantLedger

A query is a task of its own.  Its steps are: forward upstream, judge the reply
(names of the alias chain, addresses and their dialed forms), stage each
address, commit the resolution record, commit the staged grants, export the
snapshot, answer; each step ends where another task can be seen.  `serve` may
return with tasks still running (the drain has a timeout); they go on, or are
aborted with the runtime.  An address is in the form `socket_endpoint` leaves it.  The table's
cap, expiry and pruning, the export lock, the permits, the failed sink, shutdown
and aborted tasks are modelled.  `commits`, `nth`, `tmpAt` and `fileAt` are
history: how many commits an image reflects.

`GrantLedger` says the same without staging: grants appear in one step, behind
their record, capped, and the file is replaced whole.  `DnsGate` implements it
under the mapping `recorded <- journal`, `published <-` the queries that
committed, `draft <-` the temporary file of the lock's holder.

### EgressEnv, Unotify, Ebpf, Egress

`EgressEnv` contains the variables of `GrantLedger`, so that a route is checked
against every behaviour the gate may have, and not against one gate.  `high` is
history: the latest expiry the table ever had for a key, the ground a verdict on
a cached grant must have.

`Unotify`: a call parks in the kernel (`call`), the loop receives it, refreshes
its cache when the signature of the file moved, judges, commits the authorize
record, re-checks that the notification is alive, and hands the call to a worker;
the result of the worker is recorded before the call is answered.  The stop, the
death of the task and the worker cap can intervene at each step.  A worker may
report that the task is gone while the call is still parked: the notification
carries a thread's id, and `pidfd_open` of a thread that does not lead its group
fails, with an error some kernels share with a dead task.  The loop then sends no
answer.

`Ebpf`: a program reads the sequence counter, scans the slots word by word,
re-reads the counter, and leaves a ring record when it denies; the drain audits
the records and rewrites the slots when the signature moved.  Map updates may
fail (`MaxFaults`), and a file that cannot be read is loaded as an empty set.

### Namespaced

A call is a flow of the workload.  The loop admits a SYN (mapping, listening
socket), judges the established connection on the table, commits the record and
splices; `todo` is the list of ports it has still to serve in a round.  A backend
dials, reads under the credit, parks on the `Notify` when the credit is spent, and
writes what the channel holds.  Data is counted in reads.  A port is used once
(the cursor does not wrap within the bound).

## Runs

| Run | Question | Bounds |
|---|---|---|
| `gate_pinned` | with a pin, in every interleaving: is a call written only against the current verified set behind a lowered gate; is the gate owned while a listing is in flight; is each listing answered at most once; is nothing published but behind the gate | 2 client and 2 internal ids, 1 tool, 2 pages, 2 pending listings, 1 list_changed |
| `gate_liveness` | is a held listing settled, does the gate come down, and is a forwarded list_changed backed by a listing requested after the last change | dry-run, 1 client and 1 internal id, 1 page, 2 list_changed |
| `wire_sessions` | is the ledger the sum of what is retained; are the limits kept; can a late answer complete another request; does the handshake leave no offer behind; does the entry of a listen live exactly as long as its subscription; is the revision settled by the first request that reaches the server | both revisions, 2 client, 1 internal and 1 server id, table of 2, 1 retired id, 2 URIs, 8 units |
| `session_calls` | is the trajectory check never more lenient than the calls that may have run; is the marker the last success; does every pending record belong to a call in flight; is a path used only after its discovery was delivered | 3 ids, used again once answered, 3 tools, 1 path, 2 calls in flight, room for 1 tombstone, 1 discovery and 1 path |
| `audit_log` | does what was committed, or accepted before a successful shutdown, survive a crash; is no loss silent; does a rotation separate earlier from later records; does every accepted record become durable, or the fault flag go up; does every caller return | fail-closed, 2 producers, 2 records, queue of 1 record and 2 bytes, 1 rotation; syncs and opens may fail |
| `dns_gate` | are grants judged and capped, and published only behind their record; is an answered query covered by the file; does each query and the gate settle; is `GrantLedger` implemented | 2 queries for one name, 5 addresses, 6 replies, 1 grant, 2 ticks to the second, 2 ticks of time |
| `egress` | does a connect rest on a recorded verdict and a grant that was live at the verdict; is success answered only when recorded; is no torn or stale slot believed; are denials accounted for; is no worker's result lost; are failed rewrites made good | 2 calls, 2 workers, 2 slots, a ring of 1, 1 failed map update; four initial situations |
| `namespaced` | does a spliced connection own its mapping and a recorded verdict; is the credit exactly what is on its way; is a throttled backend woken | 3 flows, 3 ports, 2 mappings, 1 listening socket, 1 connection, buffers of 1 or 2; two initial situations |
| `gate_unwound`, `gate_held_cancel`, `wire_offers`, `session_reuse` | violated: see Findings | |

Why these bounds are enough for the cases that matter: two client ids give a
listing in flight and one behind it, in either order, and two internal ids let a
stale internal answer meet a new internal request.  Every cap (table, retired
set, tombstones, queue, budget, grants, workers, slots, ring, mappings, sockets,
connections, channels) is reached with the ids at hand, so reclaim, refusal and
overflow happen.  A queue of one record makes every producer wait, and a record
of size two exhausts the byte budget alone.  Two resolutions and room for one
grant make commits compete; two ticks to the second make the file's expiry
differ from the table's.

`egress` and `namespaced` start in situations the system reaches from its
initial state (a grant published and loaded, a file being exported, a flow just
spliced, two flows competing), so that the bounds on time and queries are spent
on the cases of interest.  The situation with two seccomp calls at once starts
with the audit log stopped.  The proofs below start from `Init`.

Three cases are left to the proofs, which have no bounds: the failures of
writes, flushes, looks at the path's entry and syncs of the directory, and a
second rotation, in `AuditLog`; and a path beyond the cap in `SessionState`,
whose run has room for the one path it knows.

Deadlock is not checked in the runs where the system may stop: a session ends,
ids, calls and time are used up, a shutdown logger is final.

### Fairness

* `gate_liveness`: weak fairness of both loops' steps and of the abort, because
  one `select!` polls both loops; strong fairness of the server's response,
  because `s2c_loop` prefers a kick to a frame and every client cancellation is
  a kick.  So the server is assumed to answer the requests it has and the client
  not to cancel without end.
* `audit_log`: weak fairness of the writer's polls and arms, of the producers' awaits
  and of rotation and shutdown, which the runtime polls.
* `dns_gate`: weak fairness of each query's task, of the watch on the audit log
  and of the return of `serve`; tasks are spawned on the runtime.
* `egress`: weak fairness of the supervisor loop or its workers together, or of
  the drain: each is a thread of its own.  The sandboxed task, the gate, the
  clock and the stop are under no fairness.
* `namespaced`: weak fairness of the stack loop and of the backends.

## Findings

* `gate_unwound`: when the initial internal listing fails with a JSON-RPC error
  after a `list_changed` was held, the gate drops but the queued revalidation
  stays; a later kick starts it behind the lowered gate, against the contract
  in `begin_revalidation`'s doc.  `GateOwned`, `NoDispatchWhileHeld`, the gate
  in `PublishBehindGate` and the internal ids in `AtMostOneAnswer` are stated
  for histories without this unwinding (`hist.unwound`); `DispatchVerified`,
  `FreshNotification` and the client ids in `AtMostOneAnswer` for all.
* `gate_held_cancel`: a cancellation of a held listing is dropped as
  uncorrelated, so the code that should drop the hold is never reached.
* `wire_offers`: two `initialize` requests may be in flight, and they share one
  slot for the offered capabilities: the first answer commits the second offer.
* `session_reuse`: the tombstone of a refused call is gone once a second call
  under its id is refused by a gate, whose release finds no pending call and
  takes the tombstone instead.  The docs of `session.rs` (64-67 and 356-358) let
  only the call's own response, or the end of the session, do that.  So
  `TrajectorySound` is stated for the calls whose id was not used again.

One divergence has no run of its own.  A rotation request that arrives between
the writer's polls of its two channels, together with a record queued before it,
is handled first, and the record lands in the new file.  The comment at
`audit_log/writer.rs:268-271` says "rotation can never interleave a pre-signal
record into the new file", and the guide the same (`docs/guide.md`, Log
rotation).  `RotationSplits` excepts exactly these records (`Overlooked`); none
of them is lost.

Two properties are conditional because the code is.  `CallersReturn` promises
the end of a rotation only when the queue stays empty at last: the guide says
that a rotation waits for a lull.  `CallsSettle` excepts a call whose worker
reported a dead task: the comment at `warden/unotify/supervisor.rs:683-685` says
the kernel has released it, and the loop sends nothing.

Met while modelling, and stated by no doc, so not findings: a grants
file that becomes unreadable between the eBPF drain's signature and its load
empties the slots until the file changes again; a commit of a resolution may shorten a live grant of the same name and
address; the staging bucket of an aborted task stays until the gate is torn
down; a FIN of the workload is not passed on when the channel of the backend is
full; the backend of a removed connection may stay parked on its credit.

## Proofs

Every theorem holds for every value of the constants that meets the named
assumptions; each rests on an inductive invariant `I` with `Init => I`,
`I /\ [Next]_vars => I'` and `I => property`.

| Theorem (module) | Says | Inductive invariant |
|---|---|---|
| `TypeCorrect`, `DispatchCorrect` (`ToolsListGateProofs`) | `TypeOK`; `DispatchVerified` | `DispatchInv` |
| `GateHasOwner`, `HeldNotificationBlocksDispatch`, `OneAnswerEach`, `PublishedBehindGate` (same) | `GateOwned`, `NoDispatchWhileHeld`, `AtMostOneAnswer`, `PublishBehindGate` | `ListingInv` |
| `ForwardedFresh` (same) | `FreshNotification` | `FreshInv` beside `TypeOK` |
| `GateCorrect`, `AnswersExported`, `LiveGrantsJudged` (`DnsGateProofs`) | `GateInv`, `AnsweredExported`, `GrantsJudged` | `GateInv`, then `ExportInv`, `JudgedInv` |
| `GateImplementsLedger` (same) | `DnsGate` implements `GrantLedger` | `GateInv` |
| `CommitsSurvive`, `ShutdownLosesNothing`, `LossesShow`, `RotationAtSignal` (`AuditLogProofs`) | `CommittedDurable`, `ShutdownComplete`, `NoSilentLoss`, `RotationSplits` | `LogInv` |
| `WorkersAuthorised`, `SuccessDurable`, `SupervisorEndsQuiet` (`EgressProofs`) | `ConnectsAuthorised`, `SuccessRecorded`, `EndIsQuiet` of the seccomp route | `UInv`, then `QuietInv`, in `LaunchInv` |
| `GrantsNeverTorn`, `DenialsAccounted` (same) | `GrantAllowSound`, `DenyAccounted` of the eBPF route | `EInv`, `DenyInv`, in `LaunchInv` |
| `ConnectionsAuthorised`, `CreditCounted` (`NamespacedProofs`) | `SplicesAuthorised`, `CreditExact` | `NInv`, then `CreditInv` |
| `PendingCallsOwned`, `UsedPathsDiscovered`, `MarkerSettled`, `TrajectoryChecked` (`SessionStateProofs`) | `PendingOwned`, `UsedWereDiscovered`, `MarkerIsLastSuccess`, `TrajectorySound` | `OwnedInv`, `OnePlace`, `DeputyInv`, `CallsInv`, `TombInv` |
| `TableBounded`, `LateAnswersNeverMatch`, `OffersEndWithHandshake`, `CompletedEntriesStayLive`, `VersionStaysSettled` (`WireStateProofs`) | `Bounded`, `LateAnswersHarmless`, `NoOfferAfterHandshake`, `CompletedEntriesLive`, `VersionSettled` | `WireInv` |
| `LedgerExact` (`WireLedgerProofs`) | `LedgerBalanced` | `Off(wire, 0)` beside `WireInv` |

**The tools/list gate.**  `DispatchVerified` is not inductive: that nothing is
published under a call being written needs `CollectionInv` (a collection, and its
result until it is published, is behind the gate as soon as there is a verified
set), and that the admission is still current needs `AdmissionInv` (the captured
generation is never ahead of the published one, and a tool admitted in the
current generation is in its set).  `ListingInv` follows each listing: a client
listing is at one place (held, in the table, in flight at a loop, owed by the
server, answered), in every history; and, without the unwinding of Findings, a
raised gate has exactly one owner, an armed listing is the one in flight, and an
internal id is bound to the collection it was sent for.  `FreshInv` says that a
stale collection with a held notification has a revalidation queued, or is just
about to start it: that is why the drain never meets a stale one.

**The DNS gate.**  `GateInv` ties each program counter to what the task has done
(a staged bucket only between judging and commit, a committed query only behind
its record, one draft, of the lock's holder).  `ExportInv` adds how many commits
each image reflects: an answered query's own commit is among them.  `JudgedInv`
adds that what is staged passed the judgement of names and addresses.  The
refinement takes each step to a step of `GrantLedger` or a stutter.

**The routes.**  The snapshot a route holds is older than the table; `EnvInv`
says every image, in the file or in a draft, lies within the history `high`,
whose entries were recorded.  (`Namespaced` reads the table in memory, so
`NamespacedProofs` has an `EnvInv` of its own that says it of the table alone.)  On it `UInv` says a cached entry
does too, and that a call from its verdict on carries its ground.  `QuietInv`
adds that a running worker is pending, so that the end joins it, and that a
result is recorded and answered only once its worker has exited, after which
nothing touches its outcome.  `EInv` is the argument of the sequence counter: it
is odd while slots are rewritten (`SeqInv`), every slot that is not dead is a
grant the table has had (`Backed`), and a program in the middle of its scan has
an even snapshot and, as long as the counter has not moved, registers that are
the words of its slot (`Scan`).  `DenyInv` puts each denial in one place
(`PlacesInv`) and counts the places (`CountInv`).  `LaunchInv` joins the two
routes in `Egress`: one runs, the other stays as it was made.  `NInv` says
the NAT tables are inverse to each other, a connection's flow owns its port, and
a verdict stands until the splice.  `CreditInv` says a port is used once, and
that the credit of a spliced port is the event being sent, the events queued and
the bytes pending, with the lemmas that count the events of a port in a sequence.

**The audit log.**  `LogInv` ties the queue to the order of acceptance
(`OrderInv`) and each waiting producer to its own record and acknowledgement
(`ProducerInv`).  A file the writer has left is durable (`SinkInv`); what was
taken from the queue is in a file unless the fault flag is up (`WrittenInv`); an
acknowledgement stands behind its record and all before it (`AckInv`); the
writer ends behind the last sender (`EndInv`); a new file begins behind the
records its signal was behind, those of `Overlooked` apart (`RotationInv`); each record offered is accepted,
with a producer, or counted (`OfferInv`).  The theorems hold for fail-closed and
best-effort loggers, both durability modes and every set of failing calls.

**Session tracking.**  An id is at one place on the way to the server and back
(`OnePlace`), so a pending record belongs to one call; `TombInv` says every call
that may have run without a verdict, and whose id was not used again, has a
tombstone or has overflowed, and the
marker is the last success otherwise.  `PendingCallsOwned` holds for any
`Reuse`; `UsedPathsDiscovered` when ids in flight are not reused;
`MarkerSettled` and `TrajectoryChecked` under `Reuse = "answered"`, as in the
run.  `CallHistory` is the lemma on what one step does to a call's history.

**The wire table.**  `WireInv` says what the entries of each direction, the
retired ids and the peers' debts have to do with one another (`TableInv`,
`OwedInv`), and which stage the handshake is in (`VersionInv`, `OfferInv`).  It
holds for pipelined `initialize` requests as well.  `LedgerBalanced` counts the
strings of the entries as one set of (key, place, string) triples, `Kept`, so
that the change by one entry is a fact about cardinalities and needs no
induction over a sum.  `Off(w, d)` says the books of table `w` are wrong by
`d`: each edit of a collection shifts `d` by the weight it adds or removes, the
charge or refund beside it shifts it back, and every method of the table takes
`Off(w, 0)` to `Off(w', 0)`.  It needs that no live id is retired and that a
`setLevel` entry names its level (`Apart`), or a refund would be lost.

Assumptions.  `GrantTable`: `AsksTyped`, `LimitsTyped`, `KeysFinite` (types of the
policy's constants, a finite set of keys).  `DnsGate`: `DialTyped`,
`RepliesTyped`, `NoQueryFresh`, and `DialCanonical` (the dialed form of an
address embeds no further address: `src/policy/host.rs:542-547`).  `EgressEnv`:
`RouteTyped`.  `Namespaced`: `PortsTyped`.  `AuditLog`: `RecordsTyped`,
`BoundsTyped`, `ModesTyped`, `FaultyTyped`, `RecordsFinite` (the marker is no
record, positive capacity and threshold, a byte budget that admits each record
alone, finitely many records).  `ToolsListGate`: ids of the two
namespaces are disjoint, the allowed tools are tools, the bounds are natural
numbers.  `SessionState`: `PolicyTyped`, `BoundsAreNat`.  `WireState`:
`BoundsAreNat`, `RevisionsKnown`, `NonesApart`, `IdsFinite`.

Only model-checked:

* the liveness properties (`HeldSettles`, `GateSettles`, `RecordsSettle`,
  `CallersReturn`, `QueriesSettle`, `GateStops`, `CallsSettle`, `RewritesLand`,
  `ParkedResumes`): the proof system does not handle fairness and ENABLED;
* the violated properties of Findings.

Every safety property of a passing run has a theorem.

## Not modelled

PROJECT.json lists every part with the reason.  In short: parsing, formatting,
path and Unicode functions, hashing, command-line construction, policy documents,
the verifier's and the legislator's analyses and the construction of the sandbox
and the container are sequential, pure or the kernel's; they and the tests are
most of the repository's lines, so the share of lines with a model stays small
by nature.  The runtime's wait and teardown, the pipes to the child and the
Windows Sandbox relay are not modelled either.

Within the modelled parts: dry-run outside the gate, progress tokens, the
tracing sink of the audit log, the bytes of frames, rule qualifiers (protocol and
port), the macOS proxy, the UDP side of the stack and DNS over TCP, the kernel's
clock synchronisation of the eBPF route and the one-shot `sync_grants_once`.
`AuditLog` also describes a best-effort logger (`FailClosed = FALSE`) and the
`EveryEvent` mode; the runs keep to fail-closed, where a lost record means
unaudited traffic; the proofs cover both kinds and
both modes.
