--------------------------------- MODULE Unotify ---------------------------------
(***************************************************************************)
(* The seccomp user-notification route of src/warden/unotify: every        *)
(* connect(2) of the sandboxed task parks in the kernel until the          *)
(* supervisor loop answers it.  The loop (supervisor.rs, Loop) polls the   *)
(* listener, a stop event and a done event; it judges a destination with   *)
(* the evaluator of src/warden/ip_eval.rs and the grants of the snapshot   *)
(* file (grants.rs), commits an authorize record, and hands the connect to *)
(* a worker thread; the result of the worker is recorded before the parked *)
(* call is answered.                                                       *)
(*                                                                         *)
(* The snapshot is written by the DNS gate, here the steps of GrantLedger, *)
(* which share the audit log with the supervisor.                          *)
(***************************************************************************)
EXTENDS EgressEnv

VARIABLES call,    \* the kernel's side of a call
          reply,   \* what the call returned
          basis,   \* what the verdict on a call rested on
          pc, cur, back, \* the loop: its step, its call, where it returns to
          ready,   \* what the last poll reported
          sig, entries,  \* Grants: the cached snapshot and its signature
          pending, \* the calls with an emulation in flight
          worker,  \* the worker thread of a call
          outcome, \* what it reports
          sent,    \* the results in the channel
          counter  \* the done eventfd

kernel == <<call, reply>>
loop == <<pc, cur, back, ready>>
cache == <<sig, entries>>
verdict == <<dest, judged, basis>>
pool == <<pending, worker, outcome, sent, counter>>
unotify == <<kernel, basis, loop, cache, pool>>

Parked == {"queued", "received"}

\* The supervisor before its first poll.
SupervisorFresh ==
  /\ RouteInit
  /\ reply = [c \in Calls |-> "none"] /\ basis = [c \in Calls |-> "none"]
  /\ pc = "poll" /\ cur = NoCall /\ back = "poll" /\ ready = {}
  /\ pending = {} /\ worker = [c \in Calls |-> "none"]
  /\ outcome = [c \in Calls |-> "none"] /\ sent = {} /\ counter = 0

\* The task may make any of the calls.
UnotifyInit ==
  /\ EnvInit /\ SupervisorFresh /\ call \in [Calls -> {"idle", "never"}]
  /\ sig = NoSig /\ entries = NoGrants

--------------------------------------------------------------------------------
(* The environment.                                                        *)

UnotifyOutside ==
  /\ Gate \/ SinkFails \/ AskStop
  /\ UNCHANGED <<kernel, basis, loop, cache, pool>>

\* The task calls connect: with the listener gone the kernel answers itself.
Issue ==
  /\ \E c \in Calls :
       /\ call[c] = "idle"
       /\ IF pc = "ended"
            THEN /\ call' = [call EXCEPT ![c] = "answered"]
                 /\ reply' = [reply EXCEPT ![c] = "enosys"]
            ELSE /\ call' = [call EXCEPT ![c] = "queued"]
                 /\ UNCHANGED reply
  /\ UNCHANGED <<env, sink, verdict, loop, cache, pool, stop, records>>

\* The task is killed, or a signal ends the wait: the notification is gone.
Die ==
  /\ \E c \in Calls : call[c] \in Parked /\ call' = [call EXCEPT ![c] = "gone"]
  /\ UNCHANGED <<env, sink, reply, verdict, loop, cache, pool, stop, records>>

--------------------------------------------------------------------------------
(* The grants cache.                                                       *)

\* refresh_entries: a file that cannot be opened is an empty grant set; the
\* body is read again only when the signature moved, and one that cannot be
\* read is an empty set under the new signature.
Refresh ==
  \/ sig' = NoSig /\ entries' = NoGrants
  \/ file # NoImage /\ FileSig = sig /\ UNCHANGED cache
  \/ file # NoImage /\ FileSig # sig /\ sig' = FileSig /\ entries' \in {file, NoGrants}

\* Mutant: a grant counts until the end of the second it expires in.
CoveredThisSecond(a) == \E k \in Keys : k.addr = a /\ entries[k] >= Secs(now)

\* has_grant: the reader applies the expiry to its own clock, in seconds.
Covered(a) == \E k \in Keys : k.addr = a /\ entries[k] > Secs(now)

--------------------------------------------------------------------------------
(* The supervisor loop.                                                    *)

Goto(step, c) == pc' = step /\ cur' = c

\* notify_send: a call that is gone stays gone.
Respond(S, r) ==
  /\ call' = [c \in Calls |-> IF c \in S /\ call[c] = "received" THEN "answered" ELSE call[c]]
  /\ reply' = [c \in Calls |-> IF c \in S /\ call[c] = "received" THEN r ELSE reply[c]]

\* run: one poll.  The stop event comes first; a listener without a task left
\* behind it hangs up.
Poll ==
  /\ pc = "poll"
  /\ \/ stop = "asked" /\ Goto("flush", NoCall) /\ UNCHANGED ready
     \/ /\ stop = "no" /\ \A c \in Calls : call[c] \in {"answered", "gone", "never"}
        /\ counter = 0 /\ Goto("flush", NoCall) /\ UNCHANGED ready
     \/ /\ stop = "no"
        /\ ready' = {e \in {"done", "listener"} :
                       IF e = "done" THEN counter > 0 ELSE \E c \in Calls : call[c] = "queued"}
        /\ ready' # {}
        /\ Goto(IF "done" \in ready' THEN "drain" ELSE "recv", NoCall)
  /\ UNCHANGED <<env, sink, kernel, verdict, back, cache, pool, stop, records>>

\* drain_worker_results: the counter first, the channel after.
DrainResults ==
  /\ pc = "drain" /\ counter' = 0 /\ Goto("results", NoCall)
  /\ UNCHANGED <<env, sink, kernel, verdict, back, ready, cache, pending, worker, outcome,
                 sent, stop, records>>

\* try_recv, in the drain and in end.
Take ==
  /\ pc \in {"results", "flush"} /\ sent # {}
  /\ \E c \in sent : sent' = sent \ {c} /\ Goto("join", c)
  /\ back' = pc
  /\ UNCHANGED <<env, sink, kernel, verdict, ready, cache, pending, worker, outcome, counter,
                 stop, records>>

\* ... until the channel is empty.
Drained ==
  /\ pc = "results" /\ sent = {}
  /\ Goto(IF "listener" \in ready THEN "recv" ELSE "poll", NoCall)
  /\ UNCHANGED <<env, sink, kernel, verdict, back, ready, cache, pool, stop, records>>

\* Mutant: the channel first, the counter after.
DrainReversed ==
  \/ /\ pc \in {"drain", "flush"} /\ sent # {} /\ back' = pc
     /\ \E c \in sent : sent' = sent \ {c} /\ Goto("join", c)
     /\ UNCHANGED <<env, sink, kernel, verdict, ready, cache, pending, worker, outcome, counter,
                    stop, records>>
  \/ /\ pc = "drain" /\ sent = {} /\ Goto("results", NoCall)
     /\ UNCHANGED <<env, sink, kernel, verdict, back, ready, cache, pool, stop, records>>
  \/ /\ pc = "results" /\ counter' = 0
     /\ Goto(IF "listener" \in ready THEN "recv" ELSE "poll", NoCall)
     /\ UNCHANGED <<env, sink, kernel, verdict, back, ready, cache, pending, worker, outcome,
                    sent, stop, records>>

Drain == DrainResults \/ Take \/ Drained

\* notify_recv, or ENOENT when the task died since the poll.
Recv ==
  /\ pc = "recv" /\ back' = "poll"
  /\ \/ \E c \in Calls :
          call[c] = "queued" /\ call' = [call EXCEPT ![c] = "received"] /\ Goto("inspect", c)
     \/ (\A c \in Calls : call[c] # "queued") /\ Goto("poll", NoCall) /\ UNCHANGED call
  /\ UNCHANGED <<env, sink, reply, verdict, ready, cache, pool, stop, records>>

\* handle, up to the verdict (the filter traps connect alone, so the branch
\* for other calls is not taken): the destination is read from the memory of the
\* task, and the notification must still stand afterwards.
Inspect ==
  /\ pc = "inspect"
  /\ IF call[cur] # "received"
       THEN Goto("poll", NoCall) /\ UNCHANGED verdict
       ELSE \/ /\ Goto("names", cur)
               /\ \E a \in Dests : dest' = [dest EXCEPT ![cur] = a]
               /\ UNCHANGED <<judged, basis>>
            \/ \* a socket of another family, emulated without a record
               /\ Goto("queue", cur) /\ basis' = [basis EXCEPT ![cur] = "family"]
               /\ UNCHANGED <<dest, judged>>
            \/ \* an unreadable address, a family the socket does not have,
               \* a unix pathname
               Goto("deny", cur) /\ UNCHANGED verdict
  /\ UNCHANGED <<env, sink, kernel, back, ready, cache, pool, stop, records>>

\* live_names and has_grant each refresh the cache.
LiveNames ==
  /\ pc = "names" /\ Refresh /\ Goto("grants", cur)
  /\ UNCHANGED <<env, sink, kernel, verdict, back, ready, pool, stop, records>>

HasGrant ==
  /\ pc = "grants" /\ Refresh /\ Goto("verdict", cur)
  /\ UNCHANGED <<env, sink, kernel, verdict, back, ready, pool, stop, records>>

Verdict ==
  /\ pc = "verdict"
  /\ judged' = [judged EXCEPT ![cur] = now]
  /\ basis' = [basis EXCEPT ![cur] = Basis(dest[cur], Covered(dest[cur]))]
  /\ Goto(IF basis'[cur] = "deny" THEN "deny" ELSE "authorize", cur)
  /\ UNCHANGED <<env, sink, kernel, dest, back, ready, cache, pool, stop, records>>

\* The authorize record is durable before the connect is queued.
Authorize ==
  /\ pc = "authorize" /\ Committed("authorize", cur)
  /\ Goto(IF sink = "up" THEN "queue" ELSE "deny", cur)
  /\ UNCHANGED <<env, sink, kernel, verdict, back, ready, cache, pool, stop>>

\* queue_emulation: saturation or a thread that does not start is a denial.
Queue ==
  /\ pc = "queue"
  /\ \/ /\ Cardinality(pending) < MaxWorkers
        /\ pending' = pending \cup {cur} /\ worker' = [worker EXCEPT ![cur] = "start"]
        /\ Goto("poll", NoCall)
     \/ Goto("deny", cur) /\ UNCHANGED <<pending, worker>>
  /\ UNCHANGED <<env, sink, kernel, verdict, back, ready, cache, outcome, sent, counter,
                 stop, records>>

\* deny: the record first, whatever becomes of it.
Deny ==
  /\ pc = "deny" /\ Committed("denied", cur) /\ Goto("refuse", cur)
  /\ UNCHANGED <<env, sink, kernel, verdict, back, ready, cache, pool, stop>>

\* ... then the answer; the verdict of a call that never had a worker is dead.
Refuse ==
  /\ pc = "refuse" /\ Respond({cur}, "eacces") /\ Goto(back, NoCall)
  /\ IF worker[cur] = "none"
       THEN /\ dest' = [dest EXCEPT ![cur] = NoAddr] /\ judged' = [judged EXCEPT ![cur] = -1]
            /\ basis' = [basis EXCEPT ![cur] = "none"]
       ELSE UNCHANGED verdict
  /\ UNCHANGED <<env, sink, back, ready, cache, pool, stop, records>>

\* take_pending, and the classes of failure of emulated_result.
Join ==
  /\ pc = "join" /\ worker[cur] = "exited"
  /\ pending' = pending \ {cur}
  /\ CASE outcome[cur] = "dead" -> Goto(back, NoCall)
       [] outcome[cur] = "unavailable" -> Goto("deny", cur)
       [] OTHER -> Goto("established", cur)
  /\ UNCHANGED <<env, sink, kernel, verdict, back, ready, cache, worker, outcome, sent,
                 counter, stop, records>>

\* The result is durable before the task learns it.
Established ==
  /\ pc = "established" /\ Committed("established", cur) /\ Goto("answer", cur)
  /\ UNCHANGED <<env, sink, kernel, verdict, back, ready, cache, pool, stop>>

\* Mutant: the result is answered whether or not its record was accepted.
AnswerUnchecked ==
  /\ pc = "answer" /\ Goto(back, NoCall)
  /\ Respond({cur}, IF outcome[cur] = "connected" THEN "ok" ELSE "errno")
  /\ UNCHANGED <<env, sink, verdict, back, ready, cache, pool, stop, records>>

\* Success is answered only when its record was accepted.
Answer ==
  /\ pc = "answer" /\ Goto(back, NoCall)
  /\ Respond({cur}, IF outcome[cur] # "connected" THEN "errno"
                    ELSE IF <<"established", cur>> \in records THEN "ok" ELSE "eacces")
  /\ UNCHANGED <<env, sink, verdict, back, ready, cache, pool, stop, records>>

\* end: every parked call is refused before any worker is joined.
Release ==
  /\ pc = "flush" /\ sent = {}
  /\ Respond(pending, "eacces") /\ Goto("joinall", NoCall)
  /\ UNCHANGED <<env, sink, verdict, back, ready, cache, pool, stop, records>>

\* Mutant: the loop returns without joining the workers in flight.
EndUnjoined ==
  /\ pc = "joinall" /\ pending' = {} /\ Goto("ended", NoCall)
  /\ call' = [c \in Calls |-> IF call[c] \in Parked THEN "answered" ELSE call[c]]
  /\ reply' = [c \in Calls |-> IF call[c] \in Parked THEN "enosys" ELSE reply[c]]
  /\ UNCHANGED <<env, sink, verdict, back, ready, cache, worker, outcome, sent, counter,
                 stop, records>>

\* The loop returns and drops the listener: the kernel answers what is left.
End ==
  /\ pc = "joinall" /\ \A c \in pending : worker[c] = "exited"
  /\ pending' = {} /\ Goto("ended", NoCall)
  /\ call' = [c \in Calls |-> IF call[c] \in Parked THEN "answered" ELSE call[c]]
  /\ reply' = [c \in Calls |-> IF call[c] \in Parked THEN "enosys" ELSE reply[c]]
  /\ UNCHANGED <<env, sink, verdict, back, ready, cache, worker, outcome, sent, counter,
                 stop, records>>

--------------------------------------------------------------------------------
(* The worker threads.                                                     *)

\* emulate_connect: duplicate the socket, connect it, within
\* EMU_CONNECT_TIMEOUT.  "dead": no process has the id of the task, because
\* the task is gone, or because the id is that of a thread.
Emulate ==
  /\ \E c \in Calls :
       /\ worker[c] = "start" /\ worker' = [worker EXCEPT ![c] = "send"]
       /\ \E o \in {"connected", "errno", "unavailable", "dead"} :
            outcome' = [outcome EXCEPT ![c] = o]
  /\ UNCHANGED <<env, sink, kernel, verdict, loop, cache, pending, sent, counter, stop, records>>

\* The result goes to the channel, then the eventfd wakes the loop.
Send ==
  /\ \E c \in Calls :
       /\ worker[c] = "send" /\ worker' = [worker EXCEPT ![c] = "wake"]
       /\ sent' = sent \cup {c}
  /\ UNCHANGED <<env, sink, kernel, verdict, loop, cache, pending, outcome, counter, stop, records>>

Wake ==
  /\ \E c \in Calls :
       worker[c] = "wake" /\ worker' = [worker EXCEPT ![c] = "exited"]
  /\ counter' = counter + 1
  /\ UNCHANGED <<env, sink, kernel, verdict, loop, cache, pending, outcome, sent, stop, records>>

--------------------------------------------------------------------------------
Loop ==
  \/ Poll \/ Drain \/ Recv \/ Inspect \/ LiveNames \/ HasGrant \/ Verdict
  \/ Authorize \/ Queue \/ Deny \/ Refuse \/ Join \/ Established \/ Answer \/ Release \/ End

Worker == Emulate \/ Send \/ Wake

UnotifyNext == UnotifyOutside \/ Issue \/ Die \/ Loop \/ Worker


--------------------------------------------------------------------------------
(* Properties.                                                             *)

\* queue_emulation is reached by calls that were judged: no worker connects a
\* socket to an address unless the authorize record is durable, and when the
\* basis is a grant, the grant was live on the clock of the gate although the
\* supervisor read it from a cached file with expiries in whole seconds.
ConnectsAuthorised ==
  \A c \in Calls : worker[c] # "none" =>
    \/ basis[c] = "family"
    \/ /\ basis[c] \in {"rule", "open", "grant"} /\ <<"authorize", c>> \in records
       /\ basis[c] = "grant" => LiveGrant(c)

\* emulated_result: the task sees success only for a connect that happened and
\* whose result is durable, whatever happens to the sink in between.
SuccessRecorded ==
  \A c \in Calls : reply[c] = "ok" =>
    outcome[c] = "connected" /\ <<"established", c>> \in records

\* end: when the loop has returned, no worker runs and no call is parked on a
\* listener nobody reads.
EndIsQuiet ==
  pc = "ended" =>
    \A c \in Calls : worker[c] \in {"none", "exited"} /\ call[c] \notin Parked

\* Every parked call is answered, its task is gone, or its worker found no
\* process under its id: no order of one worker's send and wake-up with the
\* loop's poll, and with its drain of another's result, loses a result.
CallsSettle ==
  \A c \in Calls : call[c] \in Parked ~> call[c] \notin Parked \/ outcome[c] = "dead"
================================================================================
