-------------------------------- MODULE DnsGate --------------------------------
(***************************************************************************)
(* The DNS gate: src/dnsgate/server.rs (serve, process_query) over the     *)
(* table of src/dnsgate/allowlist.rs.  Every query runs in a task of its   *)
(* own; the tasks share the table behind its mutex, the export lock, the   *)
(* in-flight permits and the audit sink.  A step is what one task does     *)
(* between two points where another task can be seen: a lock acquisition,  *)
(* an await, a file system operation.                                      *)
(*                                                                         *)
(* A query asks for one name.  A reply of the upstream resolver carries    *)
(* what process_query judges: whether it arrived and was fully decoded,    *)
(* the alias chain, the addresses and the time to live, and the names and  *)
(* addresses of the other sections.  Rule qualifiers (protocol and port)   *)
(* are a function of the name and the address and are left out.            *)
(***************************************************************************)
EXTENDS GrantTable, Sequences

CONSTANTS AllowedNames, \* names an allow rule covers (deny_all_others)
          DeniedNames,  \* names an explicit deny rule matches
          DeniedAddrs,  \* addresses a deny literal or CIDR matches
          Protected,    \* endpoint_is_protected
          OptIn,        \* protected endpoints an allow literal or CIDR names
          Dial,         \* dialed_endpoint, of an address as socket_endpoint leaves it
          Replies,      \* what the upstream resolver may answer
          MaxInflight,  \* MAX_INFLIGHT_QUERIES
          NoQuery

ASSUME DialTyped == Dial \in [Addrs -> Addrs]
\* The dialed form is canonical: it embeds no further address.
ASSUME DialCanonical == \A a \in Addrs : Dial[Dial[a]] = Dial[a]
ASSUME RepliesTyped ==
  \A r \in Replies : /\ r.ttl \in 0..MaxTTL
                     /\ r.addrs \in Seq(Addrs)
ASSUME NoQueryFresh == NoQuery \notin Queries

VARIABLES now,     \* Instant::now(), in ticks
          grants,  \* inner.grants: the expiry of each grant, 0 for none
          staged,  \* inner.staged: the bucket of q's token, as grants
          journal, \* the queries whose resolution record is durable
          sink,    \* "failed" once writer_failed of the fail-closed sink latched
          pc,      \* where q's task stands
          todo,    \* the addresses of q's answer still to register
          dialing, \* whether the dialed form of Head(todo[q]) is the next one
          ttl,     \* grant_ttl
          result,  \* what q's client got
          lock,    \* the holder of export_lock
          tmp,     \* the temporary file of q's export
          file,    \* the snapshot file, NoImage before the first export
          gate,    \* the serve loop: "serving", "stopping", "returned"
          commits, \* history: the commits made so far; the number of q's
          nth,     \* own commit; and how many commits q's temporary file
          tmpAt,   \* and the snapshot file reflect
          fileAt

table == <<grants, staged>>
export == <<lock, tmp, file, tmpAt, fileAt>>
committed == <<commits, nth>>
task == <<pc, todo, dialing, ttl, result>>
vars == <<now, table, journal, sink, task, export, gate, committed>>

Waiting == {"forward", "refusing", "recording"}
Running == Waiting \cup {"register", "commit", "export", "write"}

Init ==
  /\ now = 0 /\ journal = {} /\ sink = "up" /\ gate = "serving"
  /\ grants = NoGrants /\ staged = [q \in Queries |-> NoGrants]
  /\ pc = [q \in Queries |-> "new"] /\ todo = [q \in Queries |-> <<>>]
  /\ dialing = [q \in Queries |-> FALSE] /\ ttl = [q \in Queries |-> 0]
  /\ result = [q \in Queries |-> "none"]
  /\ lock = NoQuery /\ tmp = [q \in Queries |-> NoImage] /\ file = NoImage
  /\ commits = 0 /\ nth = [q \in Queries |-> 0]
  /\ tmpAt = [q \in Queries |-> 0] /\ fileAt = 0

-------------------------------------------------------------------------------
(* The task of a query *)

Inflight == {q \in Queries : pc[q] \in Running}

Goto(q, l) == pc' = [pc EXCEPT ![q] = l]

\* The task ends, and its client gets r.
Finish(q, r) == Goto(q, "done") /\ result' = [result EXCEPT ![q] = r]

\* emit_denied, or the record of a failed exchange: awaited, its error only
\* logged.  The client gets r once it returns.
RecordThen(q, r) == Goto(q, "refusing") /\ result' = [result EXCEPT ![q] = r]

\* name_policy::evaluate under deny_all_others.
AllowsName(n) == n \in AllowedNames \ DeniedNames

\* A packet arrives: no permit is free; or it is dropped or refused on its
\* own (parse errors, classes, the name); or the sink has latched; or it is
\* forwarded.
Admit(q) ==
  /\ pc[q] = "new" /\ gate = "serving"
  /\ \/ Cardinality(Inflight) >= MaxInflight /\ Finish(q, "refused")
     \/ Cardinality(Inflight) < MaxInflight /\ Finish(q, "dropped")
     \/ Cardinality(Inflight) < MaxInflight /\ RecordThen(q, "refused")
     \/ /\ Cardinality(Inflight) < MaxInflight /\ AllowsName(Asks[q])
        /\ sink = "failed" /\ Finish(q, "servfail")
     \/ /\ Cardinality(Inflight) < MaxInflight /\ AllowsName(Asks[q])
        /\ sink = "up" /\ Goto(q, "forward") /\ UNCHANGED result
  /\ UNCHANGED <<todo, dialing, ttl>>
  /\ UNCHANGED <<now, table, journal, sink, export, gate, committed>>

Refused(q) ==
  /\ pc[q] = "refusing" /\ Finish(q, result[q])
  /\ UNCHANGED <<todo, dialing, ttl>>
  /\ UNCHANGED <<now, table, journal, sink, export, gate, committed>>

\* denied_addr: a deny binds every spelling of the destination.
DeniedAddr(a) == {a, Dial[a]} \cap DeniedAddrs # {}

\* The alias chain and the addresses of the answer, then the names and the
\* addresses of the other sections, which only an explicit deny refuses.
Forbidden(r) ==
  \/ \E n \in r.chain : ~AllowsName(n)
  \/ \E i \in DOMAIN r.addrs : DeniedAddr(r.addrs[i])
  \/ \E n \in r.extra : n \in DeniedNames
  \/ \E a \in r.glue : DeniedAddr(a)

\* The exchange ends (UPSTREAM_TIMEOUT bounds it) and its answer is judged.
Reply(q) ==
  /\ pc[q] = "forward"
  /\ \E r \in Replies :
       \/ /\ ~(r.arrived /\ r.whole)
          /\ RecordThen(q, "servfail") /\ UNCHANGED <<todo, ttl>>
       \/ /\ r.arrived /\ r.whole /\ Forbidden(r)
          /\ RecordThen(q, "refused") /\ UNCHANGED <<todo, ttl>>
       \/ /\ r.arrived /\ r.whole /\ ~Forbidden(r) /\ sink = "failed"
          /\ Finish(q, "servfail") /\ UNCHANGED <<todo, ttl>>
       \/ /\ r.arrived /\ r.whole /\ ~Forbidden(r) /\ sink = "up"
          /\ Goto(q, "register") /\ UNCHANGED result
          /\ ttl' = [ttl EXCEPT ![q] = r.ttl]
          /\ todo' = [todo EXCEPT ![q] = IF r.ttl > 0 THEN r.addrs ELSE <<>>]
  /\ UNCHANGED <<now, table, journal, sink, dialing, export, gate, committed>>

\* The keys of the live table g and of every staging bucket.
Claimed(g) == Held(g) \cup UNION {Held(staged[p]) : p \in Queries}

\* Mutant: capacity looks at the live table alone.
RegisterStagedLiveOnly(q, k) ==
  LET g == Swept(grants, now)
      room == staged[q][k] > 0 \/ g[k] > 0 \/ Cardinality(Held(g)) < MaxGrants
  IN /\ grants' = g
     /\ staged' = IF room THEN [staged EXCEPT ![q][k] = now + ttl[q]] ELSE staged

\* register_staged_at: expired grants are swept, a key of the same token is
\* refreshed, a live key is staged as a refresh, and a new key needs room
\* among the live and the staged ones.
RegisterStaged(q, k) ==
  LET g == Swept(grants, now)
      room == \/ staged[q][k] > 0 \/ g[k] > 0
              \/ Cardinality(Claimed(g)) < MaxGrants
  IN /\ grants' = g
     /\ staged' = IF room THEN [staged EXCEPT ![q][k] = now + ttl[q]] ELSE staged

\* Mutant: the socket form alone is looked up in protected space.
GrantableAsSpelled(a) == a \in Protected => a \in OptIn

\* A protected endpoint is granted only to an explicit opt-in.
Grantable(a) == Dial[a] \in Protected => Dial[a] \in OptIn

\* One endpoint form of one address: the socket form first, then the dialed
\* one when it differs.  A protected address without opt-in is passed over.
Register(q) ==
  /\ pc[q] = "register" /\ todo[q] # <<>>
  /\ LET a == Head(todo[q])
         k == [addr |-> IF dialing[q] THEN Dial[a] ELSE a, name |-> Asks[q]]
         both == Grantable(a) /\ ~dialing[q] /\ Dial[a] # a
     IN /\ IF Grantable(a) THEN RegisterStaged(q, k) ELSE UNCHANGED table
        /\ dialing' = [dialing EXCEPT ![q] = both]
        /\ todo' = [todo EXCEPT ![q] = IF both THEN todo[q] ELSE Tail(todo[q])]
  /\ UNCHANGED <<now, journal, sink, pc, ttl, result, export, gate, committed>>

\* Mutant: the grants go live without waiting for the record.
EmitUnrecorded(q) ==
  /\ pc[q] = "register" /\ todo[q] = <<>> /\ Goto(q, "commit")
  /\ UNCHANGED <<todo, dialing, ttl, result>>
  /\ UNCHANGED <<now, table, journal, sink, export, gate, committed>>

\* emit_resolved is called; the task waits for its record.
Emit(q) ==
  /\ pc[q] = "register" /\ todo[q] = <<>> /\ Goto(q, "recording")
  /\ UNCHANGED <<todo, dialing, ttl, result>>
  /\ UNCHANGED <<now, table, journal, sink, export, gate, committed>>

\* The record is durable, and emit_resolved returns Ok.
Recorded(q) ==
  /\ pc[q] = "recording" /\ sink = "up" /\ Goto(q, "commit")
  /\ journal' = journal \cup {q}
  /\ UNCHANGED <<todo, dialing, ttl, result>>
  /\ UNCHANGED <<now, table, sink, export, gate, committed>>

\* emit_resolved returns an error: drop_staged.  The bytes of the record may
\* or may not have reached the sink.
Unrecorded(q) ==
  /\ pc[q] = "recording" /\ sink = "failed" /\ Finish(q, "servfail")
  /\ staged' = [staged EXCEPT ![q] = NoGrants]
  /\ journal' \in {journal, journal \cup {q}}
  /\ UNCHANGED <<todo, dialing, ttl>>
  /\ UNCHANGED <<now, grants, sink, export, gate, committed>>

\* commit_staged: the bucket moves into the live table under one lock.
Commit(q) ==
  /\ pc[q] = "commit" /\ Goto(q, "export")
  /\ grants' = [k \in Keys |-> IF staged[q][k] > 0 THEN staged[q][k]
                                                    ELSE grants[k]]
  /\ staged' = [staged EXCEPT ![q] = NoGrants]
  /\ commits' = commits + 1 /\ nth' = [nth EXCEPT ![q] = commits + 1]
  /\ UNCHANGED <<todo, dialing, ttl, result>>
  /\ UNCHANGED <<now, journal, sink, export, gate>>

\* Mutant: the snapshot is taken and written without the lock.
ExportUnlocked(q) ==
  /\ pc[q] = "export" /\ Goto(q, "write")
  /\ lock' = q /\ tmp' = [tmp EXCEPT ![q] = Image(grants, now)]
  /\ tmpAt' = [tmpAt EXCEPT ![q] = commits]
  /\ UNCHANGED <<todo, dialing, ttl, result>>
  /\ UNCHANGED <<now, table, journal, sink, file, fileAt, gate, committed>>

\* export_to: the lock, then the snapshot into the temporary file.
Export(q) ==
  /\ pc[q] = "export" /\ lock = NoQuery /\ Goto(q, "write")
  /\ lock' = q /\ tmp' = [tmp EXCEPT ![q] = Image(grants, now)]
  /\ tmpAt' = [tmpAt EXCEPT ![q] = commits]
  /\ UNCHANGED <<todo, dialing, ttl, result>>
  /\ UNCHANGED <<now, table, journal, sink, file, fileAt, gate, committed>>

Rename(q) ==
  /\ pc[q] = "write" /\ Finish(q, "answered")
  /\ file' = tmp[q] /\ lock' = NoQuery /\ tmp' = [tmp EXCEPT ![q] = NoImage]
  /\ fileAt' = tmpAt[q]
  /\ UNCHANGED <<todo, dialing, ttl>>
  /\ UNCHANGED <<now, table, journal, sink, tmpAt, gate, committed>>

\* Mutant: the error path keeps the lock.
ExportFailsLocked(q) ==
  /\ pc[q] = "write" /\ Finish(q, "unexported")
  /\ tmp' = [tmp EXCEPT ![q] = NoImage]
  /\ UNCHANGED <<todo, dialing, ttl, lock, file, tmpAt, fileAt>>
  /\ UNCHANGED <<now, table, journal, sink, gate, committed>>

\* A failed create, write or rename is only logged: the answer goes out.
ExportFails(q) ==
  /\ pc[q] = "write" /\ Finish(q, "unexported")
  /\ lock' = NoQuery /\ tmp' = [tmp EXCEPT ![q] = NoImage]
  /\ UNCHANGED <<todo, dialing, ttl, file, tmpAt, fileAt>>
  /\ UNCHANGED <<now, table, journal, sink, gate, committed>>

-------------------------------------------------------------------------------
(* The serve loop and its surroundings *)

Clock ==
  /\ now < MaxTime /\ now' = now + 1
  /\ UNCHANGED <<table, journal, sink, task, export, gate, committed>>

\* The fail-closed sink latches.
SinkFails ==
  /\ sink = "up" /\ sink' = "failed"
  /\ UNCHANGED <<now, table, journal, task, export, gate, committed>>

Shutdown ==
  /\ gate = "serving" /\ gate' = "stopping"
  /\ UNCHANGED <<now, table, journal, sink, task, export, committed>>

\* Mutant: the loop looks at the sink only while a query is in flight.
AuditWatchOnTraffic == sink = "failed" /\ Inflight # {} /\ Shutdown

\* The failure watch of the serve loop sees the latch.
AuditWatch == sink = "failed" /\ Shutdown

\* Teardown aborts the TCP sessions, and when serve returns it drops the UDP
\* tasks that outlive TASK_DRAIN_TIMEOUT: a task is dropped where it awaits, and its staging
\* bucket has nobody to commit or to drop it.
Abort(q) ==
  /\ gate # "serving" /\ pc[q] \in Waiting /\ Goto(q, "aborted")
  /\ result' = [result EXCEPT ![q] = "none"]
  /\ UNCHANGED <<todo, dialing, ttl>>
  /\ UNCHANGED <<now, table, journal, sink, export, gate, committed>>

\* The tasks are drained, or TASK_DRAIN_TIMEOUT is over and some still run.
Returned ==
  /\ gate = "stopping" /\ gate' = "returned"
  /\ UNCHANGED <<now, table, journal, sink, task, export, committed>>

Step(q) ==
  \/ Refused(q) \/ Reply(q) \/ Register(q) \/ Emit(q) \/ Recorded(q)
  \/ Unrecorded(q) \/ Commit(q) \/ Export(q) \/ Rename(q) \/ ExportFails(q)

Next ==
  \/ \E q \in Queries : Admit(q) \/ Step(q) \/ Abort(q)
  \/ Clock \/ SinkFails \/ Shutdown \/ AuditWatch \/ Returned

Spec == Init /\ [][Next]_vars

\* An await ends: the exchange by its timeout, a record by its commit or by
\* the latch, a lock by its holder's short critical section.  The failure
\* watch, and the drain or its timeout, wake the serve loop.
FairSpec ==
  /\ Spec
  /\ \A q \in Queries : WF_vars(Step(q))
  /\ WF_vars(AuditWatch) /\ WF_vars(Returned)

-------------------------------------------------------------------------------
(* Properties *)

\* Expiries a bucket or the table may hold.
Expiries == 0..(MaxTime + MaxTTL)

TypeOK ==
  /\ now \in 0..MaxTime /\ journal \subseteq Queries /\ sink \in {"up", "failed"}
  /\ grants \in [Keys -> Expiries] /\ staged \in [Queries -> [Keys -> Expiries]]
  /\ pc \in [Queries -> Running \cup {"new", "done", "aborted"}]
  /\ todo \in [Queries -> Seq(Addrs)] /\ dialing \in [Queries -> BOOLEAN]
  /\ ttl \in [Queries -> 0..MaxTTL]
  /\ result \in [Queries -> {"none", "dropped", "refused", "servfail",
                             "answered", "unexported"}]
  /\ tmp \in [Queries -> [Keys -> Int]] /\ file \in [Keys -> Int]
  /\ commits \in Nat /\ nth \in [Queries -> Nat]
  /\ tmpAt \in [Queries -> Nat] /\ fileAt \in Nat
  /\ lock \in Queries \cup {NoQuery} /\ gate \in {"serving", "stopping", "returned"}

\* What holds of one task.
TaskInv(q) ==
  /\ \A k \in Keys : staged[q][k] > 0 =>
       /\ k.name = Asks[q] /\ staged[q][k] <= now + MaxTTL
       /\ pc[q] \in {"register", "recording", "commit", "aborted"}
  /\ pc[q] = "commit" => q \in journal
  /\ pc[q] = "new" => result[q] = "none"
  /\ pc[q] # "done" => result[q] \notin {"answered", "unexported"}
  /\ nth[q] > 0 <=> \/ pc[q] \in {"export", "write"}
                    \/ result[q] \in {"answered", "unexported"}
  /\ pc[q] = "write" <=> lock = q
  /\ tmp[q] # NoImage <=> lock = q

\* The live grants and the staged ones together never exceed max_grants,
\* whatever tasks register, sweep, commit, drop or are aborted in between, so
\* commit_staged needs no second look at the capacity.  A bucket holds only
\* grants under the name its query asked for that end within the longest time
\* to live; a task that commits has its record in the journal; and the export
\* lock is held exactly by the task that writes its temporary file.
GateInv ==
  /\ TypeOK
  /\ Cardinality(Claimed(grants)) <= MaxGrants
  /\ \A k \in Keys : grants[k] <= now + MaxTTL
  /\ \A q \in Queries : TaskInv(q)

\* The detailed gate implements the ledger its consumers rely on: staging is
\* invisible, a resolution is published once and after its record, the
\* capacity holds, and one export at a time replaces the file.
Ledger == INSTANCE GrantLedger WITH
  recorded <- journal,
  published <- {q \in Queries : nth[q] > 0},
  draft <- IF lock = NoQuery THEN NoImage ELSE tmp[lock]

\* process_query and DynamicAllowList implement GrantLedger.
ImplementsLedger == Ledger!Spec

\* When a client has its answer and the export did not fail, the snapshot
\* file reflects the commit of that answer, now and later: a slower export
\* never renames an older snapshot over a newer one, so the address a client
\* was given is known to the readers of the file.
AnsweredExported ==
  \A q \in Queries : result[q] = "answered" => fileAt >= nth[q]

\* A live grant is one the policy lets stand in every spelling: an allowed
\* name, no address deny on either form, protected space only by opt-in,
\* although the judging and the commit are steps apart and registration
\* works on both forms of an address.
GrantsJudged ==
  \A k \in Held(grants) :
    AllowsName(k.name) /\ ~DeniedAddr(k.addr) /\ Grantable(k.addr)

\* An admitted query ends: answered, refused or aborted, never stuck behind
\* the export lock, the sink or a full table.
QueriesSettle ==
  \A q \in Queries : pc[q] \in Running ~> pc[q] \in {"done", "aborted"}

\* Once the fail-closed sink has latched, serve returns and its tasks end, also
\* those that outlive the drain.
GateStops == sink = "failed" ~> gate = "returned" /\ Inflight = {}
================================================================================
