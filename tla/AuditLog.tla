------------------------------- MODULE AuditLog -------------------------------
(***************************************************************************)
(* The audit logger (src/audit_log.rs) and its file writer task            *)
(* (src/audit_log/writer.rs): producers on any thread queue records under  *)
(* a count and a byte bound, one task writes them through a buffer, a      *)
(* rotation swaps the file under it, and shutdown joins the task.          *)
(*                                                                         *)
(* One arm of the writer's select! is one step: it holds no lock and       *)
(* signals a waiter last, so the producers see only its end.  The polls    *)
(* of the record channel and of the request channel are two steps, since   *)
(* other threads send between them.  Every system                          *)
(* call in an arm may fail (Faulty).  A crash may come at any state: Durable   *)
(* is what it leaves, the synced part of the files whose directory entry   *)
(* was synced, and the invariants are about it in every state.             *)
(*                                                                         *)
(* Data: a record is a model value, of size 1 or 2, severe or not.         *)
(***************************************************************************)
EXTENDS Integers, Sequences, FiniteSets, FiniteSetsExt

CONSTANTS Producers, Records,
          Big,         \* the records of size 2
          High,        \* the records at or above IMMEDIATE_SYNC_SEVERITY
          Marker,      \* an audit.reopened record
          FailClosed,  \* fail_closed
          EveryEvent,  \* AuditSyncMode::EveryEvent
          Capacity,    \* CHANNEL_CAPACITY
          Budget,      \* QUEUE_BYTE_BUDGET
          Threshold,   \* FLUSH_EVENT_THRESHOLD
          MaxReopens,  \* bound on the rotation signals
          Faulty       \* the system calls that may fail

ASSUME RecordsTyped == Big \cup High \subseteq Records /\ Marker \notin Records
ASSUME BoundsTyped == /\ {Capacity, Threshold} \subseteq Nat \ {0}
                      /\ Budget \in Nat /\ Budget >= 2 /\ MaxReopens \in Nat
ASSUME ModesTyped == {FailClosed, EveryEvent} \subseteq BOOLEAN
ASSUME RecordsFinite == IsFiniteSet(Records)
ASSUME FaultyTyped == Faulty \subseteq {"write", "flush", "sync", "dir", "open", "entry"}

VARIABLES tx,          \* the sender is there: shutdown takes it
          queue,       \* the record channel
          prod,        \* the producers inside log_ordered and log_committed
          failed,      \* writer_failed
          dropped,     \* the dropped counter
          writer,      \* the writer task: at the top of its loop, past the poll of an
                       \* empty record channel, or ended
          files,       \* every file the sink had, the current one last
          named,       \* the audit path names the current file
          dir_synced, events_since_flush,   \* the writer's locals
          reopen,      \* the rotation request
          closer,      \* the caller of shutdown
          hist         \* history: the records accepted, in order, and those committed

vars == <<tx, queue, prod, failed, dropped, writer, files, named, dir_synced,
          events_since_flush, reopen, closer, hist>>
sink == <<files, named, dir_synced, events_since_flush>>

Idle == [pc |-> "idle"]
Busy == [pc : {"budget", "send", "ack", "acked", "nacked"}, rec : Records, committed : BOOLEAN]
Item == [rec : Records, ack : Producers \cup {"none"}]
Lines == Records \cup {Marker}
Size(r) == IF r \in Big THEN 2 ELSE 1

NewFile == [recs |-> <<>>, flushed |-> 0, synced |-> 0, entry |-> FALSE]

TypeOK ==
  /\ {tx, failed, named, dir_synced} \subseteq BOOLEAN
  /\ queue \in Seq(Item) /\ Len(queue) <= Capacity
  /\ prod \in [Producers -> {Idle} \cup Busy]
  /\ dropped \in 0..Cardinality(Records)
  /\ writer \in {"running", "polled", "done"}
  /\ files # <<>>
  /\ \A i \in DOMAIN files : LET f == files[i]
                             IN /\ f.recs \in Seq(Lines) /\ f.entry \in BOOLEAN
                                /\ 0 <= f.synced /\ f.synced <= f.flushed
                                /\ f.flushed <= Len(f.recs)
  /\ events_since_flush \in 0..(Threshold - 1)
  /\ reopen \in [pc : {"idle", "queued"}, count : 0..MaxReopens]
  /\ closer \in {"none", "joining", "ok", "err"}
  /\ hist.accepted \in Seq(Records) /\ hist.offered \in SUBSET Records
  /\ hist.committed \in SUBSET Records
  /\ hist.signalled \in SUBSET Records /\ hist.before \in Seq(SUBSET Records)

Init ==
  /\ tx = TRUE /\ queue = <<>> /\ prod = [p \in Producers |-> Idle]
  /\ failed = FALSE /\ dropped = 0 /\ writer = "running"
  /\ files = <<NewFile>> /\ named = TRUE /\ dir_synced = FALSE /\ events_since_flush = 0
  /\ reopen = [pc |-> "idle", count |-> 0] /\ closer = "none"
  /\ hist = [accepted |-> <<>>, offered |-> {}, committed |-> {}, signalled |-> {},
             before |-> <<{}>>]

-----------------------------------------------------------------------------
(* The logger.                                                             *)

(* The permits out: one share per queued record and per waiting sender.    *)
UsedBytes ==
  LET senders == {p \in Producers : prod[p].pc = "send"}
  IN MapThenSumSet(LAMBDA i : Size(queue[i].rec), DOMAIN queue)
     + MapThenSumSet(LAMBDA p : Size(prod[p].rec), senders)

HasBudget(r) == UsedBytes + Size(r) <= Budget

HasRoom == Len(queue) < Capacity

(* ensure_available *)
Available == ~(FailClosed /\ (failed \/ ~tx))

Enqueue(r, ack) ==
  /\ queue' = Append(queue, [rec |-> r, ack |-> ack])
  /\ hist' = [hist EXCEPT !.accepted = Append(@, r), !.offered = @ \cup {r}]

Offer(r) == hist' = [hist EXCEPT !.offered = @ \cup {r}]

(* Mutated form of Refused: a full queue is only counted.                  *)
RefusedCounted(r) == /\ dropped' = dropped + 1
                     /\ failed' = failed
                     /\ Offer(r) /\ UNCHANGED queue

(* A record log cannot queue: counted, and a fault under fail_closed.      *)
Refused(r) == /\ dropped' = dropped + 1
              /\ failed' = (failed \/ FailClosed)
              /\ Offer(r) /\ UNCHANGED queue

(* log; log_ordered and log_committed of a best-effort logger end here.    *)
Log(p, r) ==
  /\ prod[p] = Idle /\ r \notin hist.offered
  /\ \/ ~HasBudget(r) /\ Refused(r)
     \/ HasBudget(r) /\ tx /\ ~HasRoom /\ Refused(r)
     \/ HasBudget(r) /\ tx /\ HasRoom /\ Enqueue(r, "none") /\ UNCHANGED <<failed, dropped>>
     \/ HasBudget(r) /\ ~tx /\ failed' = TRUE /\ Offer(r) /\ UNCHANGED <<queue, dropped>>
  /\ UNCHANGED <<tx, prod, writer, sink, reopen, closer>>

(* log_ordered and log_committed of a fail-closed logger: first the byte   *)
(* budget, then a clone of the sender and a slot of the channel.           *)
LogWaiting(p, r, committed) ==
  /\ FailClosed /\ prod[p] = Idle /\ r \notin hist.offered
  /\ prod' = [prod EXCEPT ![p] = [pc |-> "budget", rec |-> r, committed |-> committed]]
  /\ Offer(r)
  /\ UNCHANGED <<tx, queue, failed, dropped, writer, sink, reopen, closer>>

Acquire(p) ==
  /\ prod[p].pc = "budget" /\ HasBudget(prod[p].rec)
  /\ \/ tx /\ prod' = [prod EXCEPT ![p].pc = "send"] /\ UNCHANGED failed
     \/ ~tx /\ prod' = [prod EXCEPT ![p] = Idle] /\ failed' = TRUE
  /\ UNCHANGED <<tx, queue, dropped, writer, sink, reopen, closer, hist>>

Send(p) ==
  /\ prod[p].pc = "send" /\ HasRoom
  /\ Enqueue(prod[p].rec, IF prod[p].committed THEN p ELSE "none")
  /\ prod' = [prod EXCEPT ![p] = IF prod[p].committed THEN [@ EXCEPT !.pc = "ack"] ELSE Idle]
  /\ UNCHANGED <<tx, failed, dropped, writer, sink, reopen, closer>>

Commits(p) == prod[p].pc = "acked" /\ Available

(* log_committed returns: Ok only when acknowledged and still available.   *)
Return(p) ==
  /\ prod[p].pc \in {"acked", "nacked"}
  /\ prod' = [prod EXCEPT ![p] = Idle]
  /\ failed' = (failed \/ prod[p].pc = "nacked")
  /\ hist' = IF Commits(p) THEN [hist EXCEPT !.committed = @ \cup {prod[p].rec}] ELSE hist
  /\ UNCHANGED <<tx, queue, dropped, writer, sink, reopen, closer>>

(* The records that wait while the writer is past the poll of their        *)
(* channel.                                                                *)
Overlooked == {queue[i].rec : i \in DOMAIN queue}

(* SIGUSR1 with a live file sink.  A writer past the poll of the record    *)
(* channel still has to poll the request channel, or has done so too,      *)
(* found nothing and starts again when woken: the request settles which.   *)
Reopen ==
  /\ tx /\ reopen.pc = "idle" /\ reopen.count < MaxReopens
  /\ reopen' = [pc |-> "queued", count |-> reopen.count + 1]
  /\ \/ writer = "polled" /\ UNCHANGED writer
        /\ hist' = [hist EXCEPT !.signalled = Range(hist.accepted) \ Overlooked]
     \/ writer' = (IF writer = "polled" THEN "running" ELSE writer)
        /\ hist' = [hist EXCEPT !.signalled = Range(hist.accepted)]
  /\ UNCHANGED <<tx, queue, prod, failed, dropped, sink, closer>>

(* The writer ended with the request in its channel.                       *)
ReopenLost ==
  /\ reopen.pc = "queued" /\ writer = "done"
  /\ reopen' = [reopen EXCEPT !.pc = "idle"] /\ failed' = TRUE
  /\ UNCHANGED <<tx, queue, prod, dropped, writer, sink, closer, hist>>

Shutdown ==
  /\ closer = "none"
  /\ tx' = FALSE /\ closer' = "joining"
  /\ UNCHANGED <<queue, prod, failed, dropped, writer, sink, reopen, hist>>

ShutdownReturns ==
  /\ closer = "joining" /\ writer = "done"
  /\ closer' = IF FailClosed /\ failed THEN "err" ELSE "ok"
  /\ UNCHANGED <<tx, queue, prod, failed, dropped, writer, sink, reopen, hist>>

-----------------------------------------------------------------------------
(* The file and the writer task.                                           *)

Last(fs) == fs[Len(fs)]
Current == files[Len(files)]
WithLine(f, r) == [f EXCEPT !.recs = Append(@, r)]
Flush(f) == [f EXCEPT !.flushed = Len(f.recs)]
SyncAll(f) == [f EXCEPT !.synced = f.flushed]
SyncDir(f) == [f EXCEPT !.entry = TRUE]

(* Mutated form of Durably: the directory entry is left to the interval.   *)
DurablyButEntry(f, anchored, visible, faults) ==
  LET flushed == IF "flush" \in faults THEN f ELSE Flush(f)
      kept == faults \cap {"write", "flush", "sync"} = {}
  IN [file |-> IF kept THEN SyncAll(flushed) ELSE flushed, dir_synced |-> anchored,
      ok |-> kept /\ visible /\ "entry" \notin faults]

(* The durable path: flush, fsync, the directory unless it is anchored,    *)
(* then the visible entry; a failure skips what follows it.                *)
Durably(f, anchored, visible, faults) ==
  LET flushed == IF "flush" \in faults THEN f ELSE Flush(f)
      kept == faults \cap {"write", "flush", "sync"} = {}
      synced == IF kept THEN SyncAll(flushed) ELSE flushed
      entry == anchored \/ (kept /\ "dir" \notin faults)
  IN [file |-> IF kept /\ entry THEN SyncDir(synced) ELSE synced,
      dir_synced |-> entry,
      ok |-> kept /\ entry /\ visible /\ "entry" \notin faults]

MustSync(item) == item.ack # "none" \/ EveryEvent \/ item.rec \in High

(* Mutated form of Acked: a failed record's waiter is not let go.          *)
AckedOnSuccess(ack, ok) == IF ack = "none" \/ ~ok THEN prod
                           ELSE [prod EXCEPT ![ack].pc = "acked"]

(* The waiter sees its sender used or dropped.                             *)
Acked(ack, ok) == IF ack = "none" THEN prod
                  ELSE [prod EXCEPT ![ack].pc = IF ok THEN "acked" ELSE "nacked"]

FlushDue == events_since_flush + 1 >= Threshold

(* Mutated form of EventsAfter: the record is not counted.                 *)
EventsAfterForgotten == IF FlushDue THEN 0 ELSE events_since_flush

EventsAfter == IF FlushDue THEN 0 ELSE events_since_flush + 1

(* The faults of calls that are skipped after the first failure.           *)
AtMostOne(S) == {{}} \cup {{f} : f \in S}

(* The loop is at its top, or parked with no request there and woken.      *)
PollsRecords == writer = "running" \/ (writer = "polled" /\ reopen.pc = "idle")

(* The record arm.                                                         *)
WriterRecord ==
  /\ PollsRecords /\ queue # <<>>
  /\ \E early \in SUBSET (Faulty \cap {"write", "flush"}),
        late \in AtMostOne(Faulty \cap {"sync", "dir", "entry"}) :
       LET faults == early \cup late
           item == Head(queue)
           line == IF "write" \in faults THEN Current ELSE WithLine(Current, item.rec)
           path == Durably(line, dir_synced, named, faults)
       IN IF MustSync(item)
          THEN /\ files' = [files EXCEPT ![Len(files)] = path.file]
               /\ dir_synced' = path.dir_synced
               /\ failed' = (failed \/ ~path.ok)
               /\ prod' = Acked(item.ack, path.ok)
               /\ events_since_flush' = 0
          ELSE /\ files' = [files EXCEPT ![Len(files)] =
                              IF FlushDue /\ "flush" \notin faults THEN Flush(line) ELSE line]
               /\ failed' = (failed \/ "write" \in faults \/ (FlushDue /\ "flush" \in faults))
               /\ events_since_flush' = EventsAfter
               /\ UNCHANGED <<dir_synced, prod>>
  /\ queue' = Tail(queue) /\ writer' = "running"
  /\ UNCHANGED <<tx, dropped, named, reopen, closer, hist>>

(* Every sender is gone: shutdown took the logger's, no producer holds a   *)
(* clone.  log_committed keeps its own until its wait for the              *)
(* acknowledgement is over.                                                *)
ChannelClosed == ~tx /\ \A p \in Producers : prod[p].pc \in {"idle", "budget"}

(* The end of the stream: each step is tried whatever the others did.      *)
FinalSync(f, faults) ==
  LET flushed == IF "flush" \in faults THEN f ELSE Flush(f)
      synced == IF "sync" \in faults THEN flushed ELSE SyncAll(flushed)
  IN IF dir_synced \/ "dir" \in faults THEN synced ELSE SyncDir(synced)

WriterEnds ==
  /\ PollsRecords /\ queue = <<>> /\ ChannelClosed
  /\ \E faults \in SUBSET (Faulty \ {"write", "open"}) :
       /\ files' = [files EXCEPT ![Len(files)] = FinalSync(Current, faults)]
       /\ failed' = (failed \/ faults \cap {"flush", "sync", "entry"} # {} \/ ~named
                     \/ ("dir" \in faults /\ ~dir_synced))
  /\ writer' = "done"
  /\ UNCHANGED <<tx, queue, prod, dropped, named, dir_synced, events_since_flush, reopen,
                 closer, hist>>

(* Mutated form of ArmsBelowRecords: the arms are polled in any order.     *)
ArmsUnbiased == ~(queue = <<>> /\ ChannelClosed)

(* biased: the other arms are polled only when the record arm has nothing. *)
ArmsBelowRecords == queue = <<>> /\ ~ChannelClosed

(* The poll of the record channel that finds nothing.                      *)
WriterPolls ==
  /\ writer = "running" /\ ArmsBelowRecords
  /\ writer' = "polled"
  /\ UNCHANGED <<tx, queue, prod, failed, dropped, sink, reopen, closer, hist>>

(* Mutated form of RetiredSafely: the swap does not wait for the old file. *)
RetiredFlushed(faults) == "flush" \notin faults

(* reopen_sink up to the open: the old file is durable, entry included.    *)
RetiredSafely(faults) == /\ faults \cap {"flush", "sync"} = {}
                         /\ dir_synced \/ "dir" \notin faults

(* What the old file holds when the path is opened again.                  *)
Retired(faults) ==
  LET flushed == IF "flush" \in faults THEN Current ELSE Flush(Current)
      synced == IF faults \cap {"flush", "sync"} # {} THEN flushed ELSE SyncAll(flushed)
  IN IF RetiredSafely(faults) THEN SyncDir(synced) ELSE synced

(* The rotation arm: the poll of the request channel finds one, whatever   *)
(* was queued since the other was polled.  The open finds the same file when nothing was moved  *)
(* away; the new entry's own sync may fail after the swap.  The marker     *)
(* goes to whatever handle survives, and no flush follows a failed write.  *)
WriterReopens ==
  /\ writer = "polled" /\ reopen.pc = "queued"
  /\ \E faults \in AtMostOne(Faulty \cap {"flush", "sync", "dir", "open"}),
        entry \in {"dir" \notin Faulty, TRUE}, late \in AtMostOne(Faulty \ {"open"}) :
       LET retired == [files EXCEPT ![Len(files)] = Retired(faults)]
           swapped == RetiredSafely(faults) /\ "open" \notin faults
           opened == IF swapped /\ ~named THEN Append(retired, NewFile) ELSE retired
           anchored == IF swapped THEN entry ELSE dir_synced \/ RetiredSafely(faults)
           handle == IF anchored THEN SyncDir(Last(opened)) ELSE Last(opened)
           path == IF "write" \in late
                   THEN Durably(handle, anchored, FALSE, late \cup {"flush"})
                   ELSE Durably(WithLine(handle, Marker), anchored, swapped \/ named, late)
       IN /\ files' = [opened EXCEPT ![Len(opened)] = path.file]
          /\ dir_synced' = path.dir_synced
          /\ named' = (swapped \/ named)
          /\ failed' = (failed \/ ~swapped \/ ~entry \/ ~path.ok)
          /\ hist' = IF Len(opened) > Len(files)
                     THEN [hist EXCEPT !.before = Append(@, hist.signalled)] ELSE hist
  /\ events_since_flush' = 0
  /\ reopen' = [reopen EXCEPT !.pc = "idle"] /\ writer' = "running"
  /\ UNCHANGED <<tx, queue, prod, dropped, closer>>

(* The flush interval, polled after both channels; a request that comes    *)
(* after its poll might as well come after the tick.                       *)
WriterFlushes ==
  /\ writer = "polled" /\ reopen.pc = "idle" /\ events_since_flush > 0
  /\ \E faults \in SUBSET (Faulty \cap {"flush"}) :
       /\ files' = [files EXCEPT ![Len(files)] = IF faults = {} THEN Flush(Current) ELSE @]
       /\ failed' = (failed \/ faults # {})
  /\ events_since_flush' = 0 /\ writer' = "running"
  /\ UNCHANGED <<tx, queue, prod, dropped, named, dir_synced, reopen, closer, hist>>

(* The fsync interval has something to write.                              *)
SyncDue == ~dir_synced \/ Current.synced < Current.flushed

(* The fsync interval.  A tick that changes nothing is no step: the writer *)
(* is back where it was.                                                   *)
WriterSyncs ==
  /\ writer = "polled" /\ reopen.pc = "idle" /\ writer' = "running"
  /\ \E faults \in SUBSET (Faulty \cap {"sync", "dir"}) :
       LET synced == IF "sync" \in faults THEN Current ELSE SyncAll(Current)
       IN /\ files' = [files EXCEPT ![Len(files)] =
                         IF dir_synced \/ "dir" \in faults THEN synced ELSE SyncDir(synced)]
          /\ dir_synced' = (dir_synced \/ "dir" \notin faults)
          /\ failed' = (failed \/ "sync" \in faults \/ ("dir" \in faults /\ ~dir_synced))
  /\ <<files', dir_synced', failed'>> # <<files, dir_synced, failed>>
  /\ UNCHANGED <<tx, queue, prod, dropped, named, events_since_flush, reopen, closer, hist>>

-----------------------------------------------------------------------------
(* The world around it.                                                    *)

(* A rotator renames the current file.                                     *)
MoveAway ==
  /\ named /\ MaxReopens > 0 /\ named' = FALSE
  /\ UNCHANGED <<tx, queue, prod, failed, dropped, writer, files, dir_synced,
                 events_since_flush, reopen, closer, hist>>

Calls(p) == \E r \in Records : Log(p, r) \/ \E c \in BOOLEAN : LogWaiting(p, r, c)
Waits(p) == Acquire(p) \/ Send(p) \/ Return(p)
Arms == WriterRecord \/ WriterEnds \/ WriterPolls \/ WriterReopens \/ WriterFlushes
Writer == Arms \/ WriterSyncs

Next ==
  \/ \E p \in Producers : Calls(p) \/ Waits(p)
  \/ Reopen \/ ReopenLost \/ Shutdown \/ ShutdownReturns \/ Writer \/ MoveAway

Spec == Init /\ [][Next]_vars

(* The runtime polls every task that can run, and the intervals keep       *)
(* ticking; nothing makes a caller log, rotate or shut down, or a system   *)
(* call fail.                                                              *)
Fairness ==
  /\ \A p \in Producers : WF_vars(Waits(p))
  /\ WF_vars(ReopenLost \/ ShutdownReturns) /\ WF_vars(Arms \/ (SyncDue /\ WriterSyncs))

FairSpec == Spec /\ Fairness

-----------------------------------------------------------------------------
(* Properties.                                                             *)

(* What a reader finds after a crash at this moment.                       *)
Durable == UNION {{files[i].recs[j] : j \in 1..files[i].synced} :
                    i \in {k \in DOMAIN files : files[k].entry}}

(* When log_committed has returned Ok, its record and every record queued  *)
(* before it survive a crash, across rotations and whatever failed before. *)
CommittedDurable ==
  FailClosed => \A n \in DOMAIN hist.accepted :
                  hist.accepted[n] \in hist.committed =>
                    \A m \in 1..n : hist.accepted[m] \in Durable

(* A shutdown that reports success leaves every accepted record durable; a *)
(* best-effort one does when the fault flag is clear.                      *)
ShutdownComplete ==
  closer = "ok" /\ (FailClosed \/ ~failed) => Range(hist.accepted) \subseteq Durable

(* No record disappears in silence: while the fault flag is clear, each    *)
(* record offered is counted as dropped, waiting, queued, or in a file, and *)
(* the queue keeps to its capacity.                                        *)
NoSilentLoss ==
  TypeOK /\ LET waiting == {prod[p].rec : p \in {q \in Producers : prod[q].pc \in {"budget", "send"}}}
                queued == {queue[i].rec : i \in DOMAIN queue}
                written == (UNION {Range(files[i].recs) : i \in DOMAIN files}) \ {Marker}
            IN ~failed => Cardinality(hist.offered \ (waiting \cup queued \cup written)) =
                          IF FailClosed THEN 0 ELSE dropped

(* Rotation never writes a record queued before the signal into the new    *)
(* file, unless the record and the signal both came between the writer's   *)
(* polls of the two channels; and the new file begins with the marker      *)
(* unless a fault is shown.                                                *)
RotationSplits ==
  \A k \in 2..Len(files) :
    LET recs == files[k].recs
    IN /\ Range(recs) \cap hist.before[k] = {}
       /\ failed \/ (recs # <<>> /\ recs[1] = Marker)

(* An accepted record becomes durable, or the fault flag goes up.          *)
RecordsSettle ==
  \A r \in Records : r \in Range(hist.accepted) ~> (r \in Durable \/ failed)

(* No producer and no shutdown waits for ever, with the queue full or the  *)
(* logger closing under it; nor does a rotation, once the stream of        *)
(* records pauses.                                                         *)
CallersReturn ==
  /\ \A p \in Producers : prod[p] # Idle ~> (prod[p] = Idle)
  /\ <>[](queue = <<>>) => (reopen.pc = "queued" ~> (reopen.pc = "idle"))
  /\ closer = "joining" ~> (closer \in {"ok", "err"})
=============================================================================
