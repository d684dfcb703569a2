----------------------------- MODULE AuditLogProofs -----------------------------
(***************************************************************************)
(* Proofs about AuditLog: what was committed survives a crash, a clean     *)
(* shutdown loses nothing, no loss is silent, and a rotation splits the    *)
(* records at its signal.                                                  *)
(***************************************************************************)
EXTENDS AuditLog, TLAPS

--------------------------------------------------------------------------------
(* The inductive invariant.                                                *)

File == [recs : Seq(Lines), flushed : Nat, synced : Nat, entry : BOOLEAN]

Sound == {f \in File : f.synced <= f.flushed /\ f.flushed <= Len(f.recs)}

\* All of a file survives a crash.
Settled(f) == f.synced = Len(f.recs) /\ f.entry

\* A file the writer has left is durable; the directory flag is about the
\* entry of the current one.
SinkInv ==
  /\ files \in Seq(Sound) /\ files # <<>>
  /\ named \in BOOLEAN /\ dir_synced \in BOOLEAN /\ events_since_flush \in 0..(Threshold - 1)
  /\ dir_synced => Current.entry
  /\ \A i \in 1..(Len(files) - 1) : Settled(files[i])

Hist == [accepted : Seq(Records), offered : SUBSET Records, committed : SUBSET Records,
         signalled : SUBSET Records, before : Seq(SUBSET Records)]

LogTyped ==
  /\ tx \in BOOLEAN /\ failed \in BOOLEAN
  /\ queue \in Seq(Item) /\ Len(queue) <= Capacity
  /\ prod \in [Producers -> {Idle} \cup Busy]
  /\ dropped \in Nat /\ writer \in {"running", "polled", "done"}
  /\ reopen \in [pc : {"idle", "queued"}, count : 0..MaxReopens]
  /\ closer \in {"none", "joining", "ok", "err"}
  /\ hist \in Hist

Waiting == {"budget", "send"}
Sent == {"ack", "acked", "nacked"}

\* The records the writer has taken from the queue are a prefix of those
\* accepted.
Taken == Len(hist.accepted) - Len(queue)
TakenRecs == {hist.accepted[n] : n \in 1..Taken}

Written == UNION {Range(files[i].recs) : i \in DOMAIN files}

\* A record is accepted once, in the order of the queue.
OrderInv ==
  /\ Taken \in Nat
  /\ \A i \in DOMAIN queue : queue[i].rec = hist.accepted[Taken + i]
  /\ \A m, n \in DOMAIN hist.accepted : hist.accepted[m] = hist.accepted[n] => m = n
  /\ Range(hist.accepted) \subseteq hist.offered

\* A producer that waits has a record of its own, not accepted yet; one that
\* has sent its record waits for the acknowledgement the queue holds.
ProducerInv ==
  /\ \A p \in Producers : prod[p].pc \in Waiting =>
       prod[p].rec \in hist.offered \ Range(hist.accepted)
  /\ \A p, q \in Producers :
       prod[p].pc \in Waiting /\ prod[q].pc \in Waiting /\ prod[p].rec = prod[q].rec => p = q
  /\ \A p \in Producers : prod[p].pc \in Sent => prod[p].rec \in Range(hist.accepted)
  /\ \A i \in DOMAIN queue : queue[i].ack # "none" =>
       prod[queue[i].ack].pc = "ack" /\ prod[queue[i].ack].rec = queue[i].rec
  /\ FailClosed \/ \A p \in Producers : prod[p] = Idle

\* What was taken is in a file unless the fault flag is up, and nothing else
\* but markers is.
WrittenInv ==
  /\ Written \subseteq TakenRecs \cup {Marker}
  /\ ~failed => TakenRecs \subseteq Written

\* The records up to r survive a crash.
DurableUpTo(r) ==
  \A n \in DOMAIN hist.accepted :
    hist.accepted[n] = r => \A m \in 1..n : hist.accepted[m] \in Durable

\* An acknowledgement is given behind the record and all before it.
AckInv ==
  /\ \A p \in Producers : prod[p].pc = "acked" /\ ~failed => DurableUpTo(prod[p].rec)
  /\ hist.committed \subseteq Range(hist.accepted)
  /\ FailClosed => \A r \in hist.committed : DurableUpTo(r)

\* The writer ends after the last sender, with every record taken.
EndInv ==
  /\ writer = "done" => /\ ~tx /\ queue = <<>>
                        /\ \A p \in Producers : prod[p].pc \in {"idle", "budget"}
                        /\ ~failed => Range(hist.accepted) \subseteq Durable
  /\ closer \in {"ok", "err"} => writer = "done"
  /\ ShutdownComplete

\* A new file starts behind the records its signal was behind.
RotationInv ==
  /\ hist.signalled \subseteq Range(hist.accepted)
  /\ Len(hist.before) = Len(files)
  /\ \A k \in DOMAIN hist.before : hist.before[k] \subseteq TakenRecs
  /\ RotationSplits

\* A writer about to meet a request it was sent behind its back has taken
\* every record the request is behind.
PolledInv == writer = "polled" /\ reopen.pc = "queued" => hist.signalled \subseteq TakenRecs

\* Each record offered is accepted, with a producer that waits, or counted.
OfferInv ==
  /\ dropped <= Cardinality(hist.offered)
  /\ FailClosed /\ ~failed =>
       \A r \in hist.offered \ Range(hist.accepted) :
         \E p \in Producers : prod[p].pc \in Waiting /\ prod[p].rec = r
  /\ ~FailClosed /\ ~failed => Cardinality(hist.offered \ Range(hist.accepted)) = dropped

LogInv ==
  /\ SinkInv /\ LogTyped /\ OrderInv /\ ProducerInv /\ WrittenInv /\ AckInv /\ EndInv
  /\ RotationInv /\ PolledInv /\ OfferInv

--------------------------------------------------------------------------------
(* What the operations of the writer make of a file.                       *)

Prefix(s, t) == Len(s) <= Len(t) /\ \A j \in 1..Len(s) : t[j] = s[j]

\* g holds what f held, and no less of it survives a crash.
Extends(f, g) ==
  /\ f \in Sound /\ g \in Sound
  /\ Prefix(f.recs, g.recs) /\ f.synced <= g.synced /\ (f.entry => g.entry)

\* ... and holds nothing else.
Keeps(f, g) == Extends(f, g) /\ g.recs = f.recs

LEMMA ExtendsSelf == ASSUME NEW f \in Sound PROVE Keeps(f, f)
  BY DEF Keeps, Extends, Prefix, Sound, File

LEMMA ExtendsOn ==
  ASSUME NEW f, NEW g, NEW h, Extends(f, g), Extends(g, h)
  PROVE  Extends(f, h)
<1>1. f.synced \in Nat /\ g.synced \in Nat /\ h.synced \in Nat
      /\ Len(f.recs) \in Nat /\ Len(g.recs) \in Nat /\ Len(h.recs) \in Nat
  BY DEF Extends, Sound, File
<1>2. Prefix(f.recs, h.recs)
  BY <1>1 DEF Extends, Prefix
<1>. QED BY <1>1, <1>2 DEF Extends

LEMMA KeepsOn ==
  ASSUME NEW f, NEW g, NEW h, Keeps(f, g), Keeps(g, h)
  PROVE  Keeps(f, h)
  BY ExtendsOn, Zenon DEF Keeps

LEMMA FlushKeeps ==
  ASSUME NEW f \in Sound
  PROVE  /\ Keeps(f, Flush(f)) /\ Flush(f).flushed = Len(f.recs)
         /\ Flush(f).entry = f.entry /\ Flush(f).synced = f.synced
<1>1. Flush(f) \in Sound /\ Flush(f).recs = f.recs /\ Flush(f).synced = f.synced
      /\ Flush(f).entry = f.entry /\ Flush(f).flushed = Len(f.recs)
  BY DEF Flush, Sound, File
<1>. QED BY <1>1, ExtendsSelf DEF Keeps, Extends

LEMMA SyncAllKeeps ==
  ASSUME NEW f \in Sound
  PROVE  /\ Keeps(f, SyncAll(f)) /\ SyncAll(f).synced = f.flushed
         /\ SyncAll(f).entry = f.entry /\ SyncAll(f).flushed = f.flushed
<1>1. SyncAll(f) \in Sound /\ SyncAll(f).recs = f.recs /\ SyncAll(f).synced = f.flushed
      /\ SyncAll(f).entry = f.entry /\ SyncAll(f).flushed = f.flushed
  BY DEF SyncAll, Sound, File
<1>2. f.synced <= f.flushed
  BY DEF Sound
<1>. QED BY <1>1, <1>2, ExtendsSelf DEF Keeps, Extends

LEMMA SyncDirKeeps ==
  ASSUME NEW f \in Sound
  PROVE  /\ Keeps(f, SyncDir(f)) /\ SyncDir(f).entry = TRUE
         /\ SyncDir(f).synced = f.synced /\ SyncDir(f).flushed = f.flushed
<1>1. SyncDir(f) \in Sound /\ SyncDir(f).recs = f.recs /\ SyncDir(f).synced = f.synced
      /\ SyncDir(f).entry = TRUE /\ SyncDir(f).flushed = f.flushed
  BY Zenon DEF SyncDir, Sound, File
<1>. QED BY <1>1, ExtendsSelf DEF Keeps, Extends

LEMMA WithLineExtends ==
  ASSUME NEW f \in Sound, NEW r \in Lines
  PROVE  /\ Extends(f, WithLine(f, r)) /\ WithLine(f, r).recs = Append(f.recs, r)
         /\ WithLine(f, r).entry = f.entry
<1>1. f.recs \in Seq(Lines) /\ Len(f.recs) \in Nat /\ f.flushed \in Nat /\ f.synced \in Nat
      /\ f.synced <= f.flushed /\ f.flushed <= Len(f.recs)
  BY DEF Sound, File
<1>2. /\ Append(f.recs, r) \in Seq(Lines) /\ Len(Append(f.recs, r)) = Len(f.recs) + 1
      /\ \A j \in 1..Len(f.recs) : Append(f.recs, r)[j] = f.recs[j]
  BY <1>1
<1>3. WithLine(f, r) = [f EXCEPT !.recs = Append(f.recs, r)]
  BY Zenon DEF WithLine
<1>4. /\ WithLine(f, r) \in File /\ WithLine(f, r).recs = Append(f.recs, r)
      /\ WithLine(f, r).flushed = f.flushed
      /\ WithLine(f, r).synced = f.synced /\ WithLine(f, r).entry = f.entry
  BY <1>2, <1>3, Zenon DEF Sound, File
<1>5. WithLine(f, r) \in Sound
  BY <1>1, <1>2, <1>4 DEF Sound
<1>6. Prefix(f.recs, WithLine(f, r).recs)
  BY <1>1, <1>2, <1>4 DEF Prefix
<1>. QED BY <1>1, <1>4, <1>5, <1>6 DEF Extends

\* The durable path: it keeps the lines, and when it succeeds the file is
\* durable; the flag it returns is about the entry.
DurablyDone(f, path) ==
  /\ Keeps(f, path.file) /\ path.dir_synced \in BOOLEAN /\ path.ok \in BOOLEAN
  /\ path.dir_synced => path.file.entry
  /\ path.ok => Settled(path.file)

LEMMA DurablyKeeps ==
  ASSUME NEW f \in Sound, NEW anchored \in BOOLEAN, NEW visible \in BOOLEAN, NEW faults,
         anchored => f.entry
  PROVE  DurablyDone(f, Durably(f, anchored, visible, faults))
<1>. DEFINE flushed == IF "flush" \in faults THEN f ELSE Flush(f)
            kept == faults \cap {"write", "flush", "sync"} = {}
            synced == IF kept THEN SyncAll(flushed) ELSE flushed
            entry == anchored \/ (kept /\ "dir" \notin faults)
            file == IF kept /\ entry THEN SyncDir(synced) ELSE synced
            path == Durably(f, anchored, visible, faults)
<1>1. /\ path.file = file /\ path.dir_synced = entry
      /\ path.ok = (kept /\ entry /\ visible /\ "entry" \notin faults)
  BY DEF Durably
<1>2. Keeps(f, flushed) /\ (kept => flushed.flushed = Len(f.recs)) /\ flushed.entry = f.entry
  <2>1. CASE "flush" \in faults
    <3>1. ~kept
      BY <2>1, Zenon
    <3>. QED BY <2>1, <3>1, ExtendsSelf, Zenon
  <2>2. CASE "flush" \notin faults
    BY <2>2, FlushKeeps, Zenon
  <2>. QED BY <2>1, <2>2, Zenon
<1>3. flushed \in Sound /\ flushed.recs = f.recs
  BY <1>2, Zenon DEF Keeps, Extends
<1>. HIDE DEF flushed
<1>4. Keeps(f, synced) /\ (kept => synced.synced = Len(f.recs)) /\ synced.entry = f.entry
  BY <1>2, <1>3, SyncAllKeeps, KeepsOn, Zenon
<1>5. synced \in Sound /\ synced.recs = f.recs
  BY <1>4, Zenon DEF Keeps, Extends
<1>. HIDE DEF synced
<1>6. Keeps(f, file) /\ (kept => file.synced = Len(f.recs)) /\ (entry => file.entry)
  <2>1. CASE kept /\ entry
    BY <1>4, <1>5, <2>1, SyncDirKeeps, KeepsOn, Zenon
  <2>2. CASE ~(kept /\ entry)
    <3>1. file = synced
      BY <2>2, Zenon
    <3>2. entry => f.entry
      BY <2>2, Zenon
    <3>. QED BY <1>4, <3>1, <3>2, Zenon
  <2>. QED BY <2>1, <2>2, Zenon
<1>7. file.recs = f.recs
  BY <1>6, Zenon DEF Keeps
<1>8. entry \in BOOLEAN /\ (kept /\ entry /\ visible /\ "entry" \notin faults) \in BOOLEAN
  BY Zenon
<1>. HIDE DEF file, entry, kept, path
<1>. QED BY <1>1, <1>6, <1>7, <1>8, Zenon DEF DurablyDone, Settled, path

LEMMA DurablyOk ==
  ASSUME NEW f, NEW anchored, NEW visible, NEW faults, NEW path,
         path = Durably(f, anchored, visible, faults), path.ok
  PROVE  faults \cap {"write", "flush", "sync"} = {}
  BY Zenon DEF Durably

--------------------------------------------------------------------------------
(* A step of the writer on its files.                                      *)

FilesGrow ==
  /\ Len(files) <= Len(files')
  /\ \A i \in 1..Len(files) : Extends(files[i], files'[i])

\* The files there were hold what they held, and lines of X.
Adds(X) == \A i \in 1..Len(files) : Range(files'[i].recs) \subseteq Range(files[i].recs) \cup X

LEMMA UpTo ==
  \A n \in Nat : /\ n + 1 \in 1..(n + 1) /\ 1..(n + 1) = 1..n \cup {n + 1} /\ n <= n + 1
                 /\ (n + 1) - 1 = n /\ \A i \in 1..n : i # n + 1
  OBVIOUS

LEMMA LastOrBefore ==
  \A n \in Nat : /\ \A i \in 1..n : i = n \/ i \in 1..(n - 1)
                 /\ \A i \in 1..(n - 1) : i \in 1..n /\ i # n
  OBVIOUS

LEMMA SeqDomain == \A S : \A s \in Seq(S) : Len(s) \in Nat /\ DOMAIN s = 1..Len(s)
  OBVIOUS

\* Replacing one element of a sequence, and adding one.
LEMMA UpToBound ==
  ASSUME NEW d \in Nat, NEW c \in Nat, NEW n \in Nat, d <= c, c <= n
  PROVE  d \in 0..n
  OBVIOUS

IsReplaced(S, s, k, e, t) ==
  /\ t \in Seq(S) /\ Len(t) = Len(s) /\ t[k] = e /\ t # <<>>
  /\ \A i \in 1..Len(s) : i # k => t[i] = s[i]

LEMMA Replaced ==
  ASSUME NEW S, NEW s \in Seq(S), NEW k \in 1..Len(s), NEW e \in S
  PROVE  IsReplaced(S, s, k, e, [s EXCEPT ![k] = e])
  BY DEF IsReplaced

IsAdded(S, s, e, t) ==
  /\ t \in Seq(S) /\ Len(t) = Len(s) + 1 /\ t[Len(s) + 1] = e /\ t # <<>>
  /\ \A i \in 1..Len(s) : t[i] = s[i]
  /\ Range(t) = Range(s) \cup {e} /\ (s = <<>> => t[1] = e)

LEMMA Added ==
  ASSUME NEW S, NEW s \in Seq(S), NEW e \in S
  PROVE  IsAdded(S, s, e, Append(s, e))
<1>1. PICK t : t = Append(s, e)
  BY Zenon
<1>2. /\ t \in Seq(S) /\ Len(t) = Len(s) + 1 /\ t[Len(s) + 1] = e /\ t # <<>>
      /\ \A i \in 1..Len(s) : t[i] = s[i]
      /\ s = <<>> => t[1] = e
  BY <1>1
<1>3. DOMAIN t = 1..(Len(s) + 1) /\ DOMAIN s = 1..Len(s) /\ Len(s) \in Nat
  BY <1>2, SeqDomain, Zenon
<1>4. DOMAIN t = DOMAIN s \cup {Len(s) + 1}
  BY <1>3, UpTo, Zenon
<1>5. \A k \in DOMAIN s : t[k] = s[k]
  BY <1>2, <1>3, Zenon
<1>6. Range(t) = Range(s) \cup {e}
  <2>1. ASSUME NEW x \in Range(t) PROVE x \in Range(s) \cup {e}
    <3>1. PICK k \in DOMAIN t : x = t[k]
      BY <2>1, Zenon DEF Range
    <3>2. CASE k \in DOMAIN s
      BY <1>5, <3>1, <3>2, Zenon DEF Range
    <3>3. CASE k = Len(s) + 1
      BY <1>2, <3>1, <3>3, Zenon
    <3>. QED BY <1>4, <3>2, <3>3, Zenon
  <2>2. ASSUME NEW x \in Range(s) PROVE x \in Range(t)
    <3>1. PICK k \in DOMAIN s : x = s[k]
      BY <2>2, Zenon DEF Range
    <3>2. k \in DOMAIN t /\ x = t[k]
      BY <1>4, <1>5, <3>1, Zenon
    <3>. QED BY <3>2, Zenon DEF Range
  <2>3. e \in Range(t)
    <3>1. Len(s) + 1 \in DOMAIN t /\ t[Len(s) + 1] = e
      BY <1>2, <1>4, Zenon
    <3>. QED BY <3>1, Zenon DEF Range
  <2>. QED BY <2>1, <2>2, <2>3, Zenon
<1>7. IsAdded(S, s, e, t)
  BY <1>2, <1>6, Zenon DEF IsAdded
<1>. QED BY <1>1, <1>7, Zenon

\* What survives a crash of given files, and what is in them.
SyncedOf(f) == {f.recs[j] : j \in 1..f.synced}
DurableOf(fs) == UNION {SyncedOf(fs[i]) : i \in {k \in DOMAIN fs : fs[k].entry}}
WrittenOf(fs) == UNION {Range(fs[i].recs) : i \in DOMAIN fs}

LEMMA InDurable ==
  ASSUME NEW fs, NEW i \in DOMAIN fs, fs[i].entry, NEW j \in 1..fs[i].synced
  PROVE  fs[i].recs[j] \in DurableOf(fs)
<1>1. fs[i].recs[j] \in SyncedOf(fs[i])
  BY Zenon DEF SyncedOf
<1>2. SyncedOf(fs[i]) \in {SyncedOf(fs[k]) : k \in {l \in DOMAIN fs : fs[l].entry}}
  BY Zenon
<1>. QED BY <1>1, <1>2, Zenon DEF DurableOf

LEMMA SameFiles ==
  ASSUME files' = files
  PROVE  Current' = Current /\ Written' = Written /\ Durable' = Durable
<1>1. Durable' = DurableOf(files') /\ Durable = DurableOf(files)
  BY Zenon DEF Durable, DurableOf, SyncedOf
<1>2. Written' = WrittenOf(files') /\ Written = WrittenOf(files)
  BY Zenon DEF Written, WrittenOf
<1>3. Current' = Current
  BY Zenon DEF Current
<1>. QED BY <1>1, <1>2, <1>3, Zenon

LEMMA FilesSeq ==
  ASSUME SinkInv
  PROVE  /\ Len(files) \in Nat \ {0} /\ DOMAIN files = 1..Len(files)
         /\ \A i \in 1..Len(files) : files[i] \in Sound
         /\ Current \in Sound /\ Len(files) \in 1..Len(files)
<1>1. files \in Seq(Sound) /\ files # <<>>
  BY Zenon DEF SinkInv
<1>2. Len(files) \in Nat \ {0} /\ DOMAIN files = 1..Len(files)
      /\ \A i \in 1..Len(files) : files[i] \in Sound
  BY <1>1
<1>. QED BY <1>2 DEF Current

LEMMA LineNumbers ==
  ASSUME NEW f \in Sound
  PROVE  /\ f.recs \in Seq(Lines) /\ Len(f.recs) \in Nat /\ DOMAIN f.recs = 1..Len(f.recs)
         /\ f.synced \in Nat /\ 1..f.synced \subseteq DOMAIN f.recs
<1>1. f.recs \in Seq(Lines) /\ f.flushed \in Nat /\ f.synced \in Nat
      /\ f.synced <= f.flushed /\ f.flushed <= Len(f.recs)
  BY DEF Sound, File
<1>. QED BY <1>1

LEMMA ExtendsRange ==
  ASSUME NEW f, NEW g, Extends(f, g)
  PROVE  /\ Range(f.recs) \subseteq Range(g.recs)
         /\ \A j \in 1..f.synced : g.recs[j] = f.recs[j] /\ j \in 1..g.synced
         /\ f.recs # <<>> => g.recs # <<>> /\ g.recs[1] = f.recs[1]
<1>1. f \in Sound /\ g \in Sound
  BY Zenon DEF Extends
<1>2. /\ Len(f.recs) \in Nat /\ DOMAIN f.recs = 1..Len(f.recs) /\ f.synced \in Nat
      /\ 1..f.synced \subseteq DOMAIN f.recs /\ f.recs \in Seq(Lines)
      /\ Len(g.recs) \in Nat /\ DOMAIN g.recs = 1..Len(g.recs) /\ g.synced \in Nat
      /\ g.recs \in Seq(Lines)
  BY <1>1, LineNumbers, Zenon
<1>3. /\ Len(f.recs) <= Len(g.recs) /\ f.synced <= g.synced
      /\ \A j \in 1..Len(f.recs) : g.recs[j] = f.recs[j]
  BY Zenon DEF Extends, Prefix
<1>4. DOMAIN f.recs \subseteq DOMAIN g.recs /\ 1..f.synced \subseteq 1..g.synced
  BY <1>2, <1>3
<1>5. f.recs # <<>> => 1 \in 1..Len(f.recs) /\ g.recs # <<>>
  BY <1>2, <1>3
<1>. QED BY <1>2, <1>3, <1>4, <1>5, Zenon DEF Range

LEMMA DurableGrows ==
  ASSUME FilesGrow, SinkInv, SinkInv'
  PROVE  Durable \subseteq Durable' /\ Written \subseteq Written'
<1>1. /\ DOMAIN files = 1..Len(files) /\ DOMAIN files' = 1..Len(files')
      /\ Len(files) \in Nat /\ Len(files') \in Nat
  <2>1. files \in Seq(Sound) /\ files' \in Seq(Sound)
    BY Zenon DEF SinkInv
  <2>. QED BY <2>1
<1>2. DOMAIN files \subseteq DOMAIN files'
  BY <1>1 DEF FilesGrow
<1>3. \A i \in DOMAIN files : Extends(files[i], files'[i])
  BY <1>1, Zenon DEF FilesGrow
<1>4. ASSUME NEW r \in Durable PROVE r \in Durable'
  <2>1. PICK i \in DOMAIN files : files[i].entry /\ r \in {files[i].recs[j] : j \in 1..files[i].synced}
    BY <1>4, Zenon DEF Durable
  <2>2. PICK j \in 1..files[i].synced : r = files[i].recs[j]
    BY <2>1, Zenon
  <2>3. Extends(files[i], files'[i])
    BY <1>3, Zenon
  <2>4. files'[i].recs[j] = r /\ j \in 1..files'[i].synced
    BY <2>2, <2>3, ExtendsRange, Zenon
  <2>5. files'[i].entry /\ i \in DOMAIN files'
    BY <1>2, <2>1, <2>3, Zenon DEF Extends
  <2>6. r \in DurableOf(files')
    BY <2>4, <2>5, InDurable, Zenon
  <2>7. Durable' = DurableOf(files')
    BY Zenon DEF Durable, DurableOf, SyncedOf
  <2>. QED BY <2>6, <2>7, Zenon
<1>5. ASSUME NEW r \in Written PROVE r \in Written'
  <2>1. PICK i \in DOMAIN files : r \in Range(files[i].recs)
    BY <1>5, Zenon DEF Written
  <2>2. r \in Range(files'[i].recs)
    BY <1>3, <2>1, ExtendsRange, Zenon
  <2>. QED BY <1>2, <2>2, Zenon DEF Written
<1>. QED BY <1>4, <1>5, Zenon

\* When the current file is durable, all the files are.
LEMMA AllSettled ==
  ASSUME SinkInv', Settled(Current')
  PROVE  Written' \subseteq Durable'
<1>. SUFFICES ASSUME NEW r \in Written' PROVE r \in Durable'
  BY Zenon
<1>0. files' \in Seq(Sound) /\ files' # <<>>
  BY Zenon DEF SinkInv
<1>1. PICK i \in DOMAIN files' : r \in Range(files'[i].recs)
  BY Zenon DEF Written
<1>2. PICK j \in DOMAIN files'[i].recs : r = files'[i].recs[j]
  BY <1>1, Zenon DEF Range
<1>3. Settled(files'[i]) /\ files'[i] \in Sound
  <2>1. (i = Len(files') \/ i \in 1..(Len(files') - 1)) /\ files'[i] \in Sound
    BY <1>0
  <2>. QED BY <2>1, Zenon DEF SinkInv, Current
<1>4. DOMAIN files'[i].recs = 1..files'[i].synced /\ files'[i].entry
  BY <1>3, LineNumbers, Zenon DEF Settled
<1>5. r \in {files'[i].recs[k] : k \in 1..files'[i].synced}
  BY <1>2, <1>4, Zenon
<1>6. i \in {k \in DOMAIN files' : files'[k].entry}
  BY <1>4, Zenon
<1>. QED BY <1>5, <1>6, Zenon DEF Durable

\* A step that replaces the current file only.
LEMMA TouchGrows ==
  ASSUME SinkInv, NEW g, Extends(Current, g), files' = [files EXCEPT ![Len(files)] = g]
  PROVE  /\ files' \in Seq(Sound) /\ files' # <<>> /\ Len(files') = Len(files)
         /\ Current' = g /\ FilesGrow
         /\ \A i \in 1..(Len(files) - 1) : files'[i] = files[i]
<1>1. /\ Len(files) \in Nat \ {0} /\ DOMAIN files = 1..Len(files) /\ Len(files) \in 1..Len(files)
      /\ \A i \in 1..Len(files) : files[i] \in Sound
  BY FilesSeq, Zenon
<1>2. g \in Sound /\ files \in Seq(Sound)
  BY Zenon DEF Extends, SinkInv
<1>3. /\ files' \in Seq(Sound) /\ Len(files') = Len(files) /\ files'[Len(files)] = g /\ files' # <<>>
      /\ \A i \in 1..Len(files) : i # Len(files) => files'[i] = files[i]
  <2>1. IsReplaced(Sound, files, Len(files), g, [files EXCEPT ![Len(files)] = g])
    BY <1>1, <1>2, Replaced, Zenon
  <2>2. IsReplaced(Sound, files, Len(files), g, files')
    BY <2>1, Zenon
  <2>. QED BY <2>2, Zenon DEF IsReplaced
<1>4. files' # <<>> /\ Len(files) <= Len(files') /\ \A i \in 1..(Len(files) - 1) : files'[i] = files[i]
  <2>1. \A i \in 1..(Len(files) - 1) : i \in 1..Len(files) /\ i # Len(files)
    BY <1>1, LastOrBefore, Zenon
  <2>2. \A n \in Nat : n <= n
    OBVIOUS
  <2>. QED BY <1>1, <1>3, <2>1, <2>2, Zenon
<1>5. Current' = g
  BY <1>3, Zenon DEF Current
<1>6. ASSUME NEW i \in 1..Len(files) PROVE Extends(files[i], files'[i])
  <2>1. CASE i = Len(files)
    BY <1>3, <2>1, Zenon DEF Current
  <2>2. CASE i # Len(files)
    BY <1>1, <1>3, <2>2, ExtendsSelf, Zenon DEF Keeps
  <2>. QED BY <2>1, <2>2, Zenon
<1>. QED BY <1>3, <1>4, <1>5, <1>6, Zenon DEF FilesGrow

\* The files after a step without a rotation.
LEMMA TouchSink ==
  ASSUME SinkInv, NEW g, Extends(Current, g), files' = [files EXCEPT ![Len(files)] = g],
         NEW X, Range(g.recs) \subseteq Range(Current.recs) \cup X
  PROVE  /\ \A i \in 1..(Len(files') - 1) : Settled(files'[i])
         /\ Adds(X) /\ Written' \subseteq Written \cup X
         /\ Range(g.recs) \subseteq Written'
<1>1. /\ files' \in Seq(Sound) /\ Len(files') = Len(files)
      /\ \A i \in 1..(Len(files) - 1) : files'[i] = files[i]
      /\ Current' = g
  BY TouchGrows, Zenon
<1>2. \A i \in 1..(Len(files') - 1) : Settled(files'[i])
  BY <1>1, Zenon DEF SinkInv
<1>3. DOMAIN files' = 1..Len(files) /\ Len(files) \in Nat \ {0} /\ DOMAIN files = 1..Len(files)
      /\ Len(files) \in 1..Len(files)
  <2>1. DOMAIN files' = 1..Len(files')
    BY <1>1, SeqDomain, Zenon
  <2>. QED BY <1>1, <2>1, FilesSeq, Zenon
<1>4. files'[Len(files)] = g
  BY <1>1, Zenon DEF Current
<1>5. ASSUME NEW i \in 1..Len(files)
      PROVE  Range(files'[i].recs) \subseteq Range(files[i].recs) \cup X
  <2>1. CASE i = Len(files)
    BY <1>4, <2>1, Zenon DEF Current
  <2>2. CASE i # Len(files)
    <3>1. i \in 1..(Len(files) - 1)
      BY <1>3, <2>2, LastOrBefore, Zenon
    <3>. QED BY <1>1, <3>1, Zenon
  <2>. QED BY <2>1, <2>2, Zenon
<1>6. Written' \subseteq Written \cup X
  <2>. SUFFICES ASSUME NEW r \in Written' PROVE r \in Written \cup X
    BY Zenon
  <2>1. PICK i \in 1..Len(files) : r \in Range(files'[i].recs)
    BY <1>3, Zenon DEF Written
  <2>2. r \in Range(files[i].recs) \/ r \in X
    BY <1>5, <2>1, Zenon
  <2>. QED BY <1>3, <2>2, Zenon DEF Written
<1>7. Range(g.recs) \subseteq Written'
  BY <1>3, <1>4, Zenon DEF Written
<1>. QED BY <1>2, <1>5, <1>6, <1>7, Zenon DEF Adds

--------------------------------------------------------------------------------
(* The effects of the arms of the writer.                                  *)

LEMMA LogTypes ==
  ASSUME LogTyped
  PROVE  /\ failed \in BOOLEAN /\ queue \in Seq(Item) /\ hist.accepted \in Seq(Records)
         /\ hist.before \in Seq(SUBSET Records) /\ hist.offered \subseteq Records
         /\ \A p \in Producers : prod[p] \in {Idle} \cup Busy
  BY DEF LogTyped, Hist

\* The events since the last flush stay below the threshold.
LEMMA EventsBounded ==
  ASSUME SinkInv
  PROVE  0 \in 0..(Threshold - 1) /\ EventsAfter \in 0..(Threshold - 1)
  BY BoundsTyped DEF SinkInv, EventsAfter, FlushDue

\* The line of r in the current file, unless its write fails.
LEMMA LineWritten ==
  ASSUME SinkInv, NEW r \in Lines, NEW line, NEW faults,
         line = IF "write" \in faults THEN Current ELSE WithLine(Current, r)
  PROVE  /\ Extends(Current, line) /\ line.entry = Current.entry
         /\ Range(line.recs) \subseteq Range(Current.recs) \cup {r}
         /\ "write" \notin faults => r \in Range(line.recs)
<1>1. Current \in Sound
  BY FilesSeq, Zenon
<1>2. CASE "write" \in faults
  BY <1>1, <1>2, ExtendsSelf, Zenon DEF Keeps
<1>3. CASE "write" \notin faults
  <2>1. /\ Extends(Current, line) /\ line.entry = Current.entry
        /\ line.recs = Append(Current.recs, r)
    BY <1>1, <1>3, WithLineExtends, Zenon
  <2>2. Current.recs \in Seq(Lines)
    BY <1>1, LineNumbers, Zenon
  <2>3. Range(Append(Current.recs, r)) = Range(Current.recs) \cup {r}
    <3>1. IsAdded(Lines, Current.recs, r, Append(Current.recs, r))
      BY <2>2, Added, Zenon
    <3>. QED BY <3>1, Zenon DEF IsAdded
  <2>. QED BY <2>1, <2>3, Zenon
<1>. QED BY <1>2, <1>3, Zenon

RecordDone(ok) ==
  LET item == Head(queue)
  IN /\ SinkInv' /\ FilesGrow /\ Len(files') = Len(files)
     /\ Adds({item.rec}) /\ Written' \subseteq Written \cup {item.rec}
     /\ item.rec \in Written' \/ failed'
     /\ failed' \in BOOLEAN /\ (failed => failed') /\ (~ok => failed')
     /\ prod' = Acked(item.ack, ok)
     /\ ok /\ item.ack # "none" => Settled(Current')

LEMMA AckedNone ==
  ASSUME NEW ack, NEW ok, ack = "none"
  PROVE  Acked(ack, ok) = prod
  BY Zenon DEF Acked

LEMMA AckedSome ==
  ASSUME NEW ack, NEW ok, ack # "none"
  PROVE  Acked(ack, ok) =
           [prod EXCEPT ![ack] = [prod[ack] EXCEPT !.pc = IF ok THEN "acked" ELSE "nacked"]]
  BY Zenon DEF Acked

LEMMA RecordEffects ==
  ASSUME SinkInv, LogTyped, WriterRecord
  PROVE  \E ok \in BOOLEAN : RecordDone(ok)
<1>1. PICK early \in SUBSET (Faulty \cap {"write", "flush"}),
           late \in AtMostOne(Faulty \cap {"sync", "dir", "entry"}) :
        LET faults == early \cup late
            item == Head(queue)
            line == IF "write" \in faults THEN Current ELSE WithLine(Current, item.rec)
            path == Durably(line, dir_synced, named, faults)
        IN IF MustSync(item)
           THEN /\ files' = [files EXCEPT ![Len(files)] = path.file]
                /\ dir_synced' = path.dir_synced
                /\ failed' = (failed \/ ~path.ok)
                /\ prod' = Acked(item.ack, path.ok)
                /\ events_since_flush' = 0
           ELSE /\ files' = [files EXCEPT ![Len(files)] =
                               IF FlushDue /\ "flush" \notin faults THEN Flush(line) ELSE line]
                /\ failed' = (failed \/ "write" \in faults \/ (FlushDue /\ "flush" \in faults))
                /\ events_since_flush' = EventsAfter
                /\ UNCHANGED <<dir_synced, prod>>
  BY Zenon DEF WriterRecord
<1>. DEFINE faults == early \cup late
            item == Head(queue)
<1>2. PICK line : line = IF "write" \in faults THEN Current ELSE WithLine(Current, item.rec)
  BY Zenon
<1>3. item \in Item
  <2>1. queue \in Seq(Item) /\ queue # <<>>
    BY LogTypes, Zenon DEF WriterRecord
  <2>. QED BY <2>1
<1>4. item.rec \in Lines
  BY <1>3 DEF Item, Lines
<1>5. named' = named
  BY Zenon DEF WriterRecord
<1>6. PICK path : path = Durably(line, dir_synced, named, faults)
  BY Zenon
<1>7. IF MustSync(item)
      THEN /\ files' = [files EXCEPT ![Len(files)] = path.file]
           /\ dir_synced' = path.dir_synced
           /\ failed' = (failed \/ ~path.ok)
           /\ prod' = Acked(item.ack, path.ok)
           /\ events_since_flush' = 0
      ELSE /\ files' = [files EXCEPT ![Len(files)] =
                          IF FlushDue /\ "flush" \notin faults THEN Flush(line) ELSE line]
           /\ failed' = (failed \/ "write" \in faults \/ (FlushDue /\ "flush" \in faults))
           /\ events_since_flush' = EventsAfter
           /\ UNCHANGED <<dir_synced, prod>>
  BY <1>1, <1>2, <1>6, Zenon
<1>. HIDE DEF faults, item
<1>8. /\ Extends(Current, line) /\ line.entry = Current.entry
      /\ Range(line.recs) \subseteq Range(Current.recs) \cup {item.rec}
      /\ "write" \notin faults => item.rec \in Range(line.recs)
  BY <1>2, <1>4, LineWritten, Zenon
<1>9. line \in Sound /\ named \in BOOLEAN /\ dir_synced \in BOOLEAN /\ (dir_synced => line.entry)
  BY <1>8, Zenon DEF Extends, SinkInv
<1>10. ASSUME NEW g, Keeps(line, g), files' = [files EXCEPT ![Len(files)] = g],
              dir_synced' \in BOOLEAN, dir_synced' => g.entry,
              events_since_flush' \in 0..(Threshold - 1)
       PROVE  /\ SinkInv' /\ FilesGrow /\ Len(files') = Len(files)
              /\ Adds({item.rec}) /\ Written' \subseteq Written \cup {item.rec}
              /\ "write" \notin faults => item.rec \in Written'
              /\ Current' = g
  <2>1. Extends(Current, g) /\ g.recs = line.recs
    BY <1>8, <1>10, ExtendsOn, Zenon DEF Keeps
  <2>2. /\ files' \in Seq(Sound) /\ files' # <<>> /\ Len(files') = Len(files)
        /\ Current' = g /\ FilesGrow
    BY <1>10, <2>1, TouchGrows, Zenon
  <2>3. /\ \A i \in 1..(Len(files') - 1) : Settled(files'[i])
        /\ Adds({item.rec}) /\ Written' \subseteq Written \cup {item.rec}
        /\ Range(g.recs) \subseteq Written'
    BY <1>8, <1>10, <2>1, TouchSink, Zenon
  <2>4. SinkInv'
    BY <1>5, <1>9, <1>10, <2>2, <2>3, Zenon DEF SinkInv
  <2>. QED BY <1>8, <2>1, <2>2, <2>3, <2>4, Zenon
<1>11. CASE MustSync(item)
  <2>1. /\ files' = [files EXCEPT ![Len(files)] = path.file]
        /\ dir_synced' = path.dir_synced /\ failed' = (failed \/ ~path.ok)
        /\ prod' = Acked(item.ack, path.ok) /\ events_since_flush' = 0
    BY <1>7, <1>11, Zenon
  <2>2. DurablyDone(line, path)
    BY <1>6, <1>9, DurablyKeeps, Zenon
  <2>3. "write" \in faults => ~path.ok
    <3>1. path.ok => faults \cap {"write", "flush", "sync"} = {}
      BY <1>6, DurablyOk, Zenon
    <3>. QED BY <3>1, Zenon
  <2>4. /\ SinkInv' /\ FilesGrow /\ Len(files') = Len(files)
        /\ Adds({item.rec}) /\ Written' \subseteq Written \cup {item.rec}
        /\ "write" \notin faults => item.rec \in Written'
        /\ Current' = path.file
    BY <1>10, <2>1, <2>2, EventsBounded, Zenon DEF DurablyDone
  <2>5. failed' \in BOOLEAN /\ (failed => failed') /\ (~path.ok => failed')
    BY <2>1, LogTypes, Zenon
  <2>6. RecordDone(path.ok)
    BY <2>1, <2>2, <2>3, <2>4, <2>5, Zenon DEF RecordDone, DurablyDone, item
  <2>. QED BY <2>2, <2>6, Zenon DEF DurablyDone
<1>12. CASE ~MustSync(item)
  <2>1. PICK g : g = IF FlushDue /\ "flush" \notin faults THEN Flush(line) ELSE line
    BY Zenon
  <2>2. /\ files' = [files EXCEPT ![Len(files)] = g]
        /\ failed' = (failed \/ "write" \in faults \/ (FlushDue /\ "flush" \in faults))
        /\ events_since_flush' = EventsAfter /\ dir_synced' = dir_synced /\ prod' = prod
    BY <1>7, <1>12, <2>1, Zenon
  <2>3. Keeps(line, g) /\ g.entry = line.entry
    BY <1>9, <2>1, FlushKeeps, ExtendsSelf, Zenon
  <2>4. /\ SinkInv' /\ FilesGrow /\ Len(files') = Len(files)
        /\ Adds({item.rec}) /\ Written' \subseteq Written \cup {item.rec}
        /\ "write" \notin faults => item.rec \in Written'
    BY <1>9, <1>10, <2>2, <2>3, EventsBounded, Zenon
  <2>5. failed' \in BOOLEAN /\ (failed => failed') /\ ("write" \in faults => failed')
    BY <2>2, LogTypes, Zenon
  <2>6. item.ack = "none" /\ prod' = Acked(item.ack, TRUE)
    BY <1>12, <2>2, Zenon DEF MustSync, Acked
  <2>7. RecordDone(TRUE)
    BY <2>4, <2>5, <2>6, Zenon DEF RecordDone, item
  <2>. QED BY <2>7, Zenon
<1>. QED BY <1>11, <1>12, Zenon

\* The arms that write no line.
QuietDone ==
  /\ SinkInv' /\ FilesGrow /\ Len(files') = Len(files) /\ Adds({}) /\ Written' \subseteq Written
  /\ failed' \in BOOLEAN /\ (failed => failed')

LEMMA QuietTouch ==
  ASSUME SinkInv, LogTyped, NEW g, Keeps(Current, g), files' = [files EXCEPT ![Len(files)] = g],
         dir_synced' \in BOOLEAN, dir_synced' => g.entry,
         events_since_flush' \in 0..(Threshold - 1), named' \in BOOLEAN,
         failed' \in BOOLEAN, failed => failed'
  PROVE  QuietDone /\ Current' = g
<1>1. Extends(Current, g) /\ Range(g.recs) \subseteq Range(Current.recs) \cup {}
  BY Zenon DEF Keeps
<1>2. /\ files' \in Seq(Sound) /\ files' # <<>> /\ Len(files') = Len(files)
      /\ Current' = g /\ FilesGrow
  BY <1>1, TouchGrows, Zenon
<1>3. /\ \A i \in 1..(Len(files') - 1) : Settled(files'[i])
      /\ Adds({}) /\ Written' \subseteq Written \cup {}
  BY <1>1, TouchSink, Zenon
<1>4. SinkInv'
  BY <1>2, <1>3, Zenon DEF SinkInv
<1>. QED BY <1>2, <1>3, <1>4, Zenon DEF QuietDone

LEMMA FlushesEffects ==
  ASSUME SinkInv, LogTyped, WriterFlushes
  PROVE  QuietDone
<1>1. PICK faults \in SUBSET (Faulty \cap {"flush"}) :
        /\ files' = [files EXCEPT ![Len(files)] = IF faults = {} THEN Flush(Current) ELSE @]
        /\ failed' = (failed \/ faults # {})
  BY Zenon DEF WriterFlushes
<1>2. PICK g : g = IF faults = {} THEN Flush(Current) ELSE Current
  BY Zenon
<1>3. files' = [files EXCEPT ![Len(files)] = g]
  BY <1>1, <1>2, Zenon DEF Current
<1>4. Keeps(Current, g) /\ g.entry = Current.entry
  BY <1>2, FilesSeq, FlushKeeps, ExtendsSelf, Zenon
<1>5. events_since_flush' = 0 /\ named' = named /\ dir_synced' = dir_synced
  BY Zenon DEF WriterFlushes
<1>6. named \in BOOLEAN /\ dir_synced \in BOOLEAN /\ (dir_synced => Current.entry)
  BY Zenon DEF SinkInv
<1>7. failed' \in BOOLEAN /\ (failed => failed')
  BY <1>1, LogTypes, Zenon
<1>. QED BY <1>3, <1>4, <1>5, <1>6, <1>7, QuietTouch, EventsBounded, Zenon

LEMMA SyncsEffects ==
  ASSUME SinkInv, LogTyped, WriterSyncs
  PROVE  QuietDone
<1>1. PICK faults \in SUBSET (Faulty \cap {"sync", "dir"}) :
        LET synced == IF "sync" \in faults THEN Current ELSE SyncAll(Current)
        IN /\ files' = [files EXCEPT ![Len(files)] =
                          IF dir_synced \/ "dir" \in faults THEN synced ELSE SyncDir(synced)]
           /\ dir_synced' = (dir_synced \/ "dir" \notin faults)
           /\ failed' = (failed \/ "sync" \in faults \/ ("dir" \in faults /\ ~dir_synced))
  BY Zenon DEF WriterSyncs
<1>2. PICK synced : synced = IF "sync" \in faults THEN Current ELSE SyncAll(Current)
  BY Zenon
<1>3. PICK g : g = IF dir_synced \/ "dir" \in faults THEN synced ELSE SyncDir(synced)
  BY Zenon
<1>4. /\ files' = [files EXCEPT ![Len(files)] = g]
      /\ dir_synced' = (dir_synced \/ "dir" \notin faults)
      /\ failed' = (failed \/ "sync" \in faults \/ ("dir" \in faults /\ ~dir_synced))
  BY <1>1, <1>2, <1>3, Zenon
<1>5. Keeps(Current, synced) /\ synced.entry = Current.entry /\ synced \in Sound
  BY <1>2, FilesSeq, SyncAllKeeps, ExtendsSelf, Zenon DEF Keeps, Extends
<1>6. Keeps(Current, g) /\ (~(dir_synced \/ "dir" \in faults) => g.entry) /\ (synced.entry => g.entry)
  BY <1>3, <1>5, SyncDirKeeps, KeepsOn, Zenon
<1>7. named' = named /\ events_since_flush' = events_since_flush
  BY Zenon DEF WriterSyncs
<1>8. /\ named \in BOOLEAN /\ dir_synced \in BOOLEAN /\ (dir_synced => Current.entry)
      /\ events_since_flush \in 0..(Threshold - 1)
  BY Zenon DEF SinkInv
<1>9. failed' \in BOOLEAN /\ (failed => failed') /\ dir_synced' \in BOOLEAN
  BY <1>4, LogTypes, Zenon
<1>10. dir_synced' => g.entry
  BY <1>4, <1>5, <1>6, <1>8, Zenon
<1>. QED BY <1>4, <1>6, <1>7, <1>8, <1>9, <1>10, QuietTouch, Zenon

\* The last arm leaves everything durable, or a fault.
LEMMA EndsEffects ==
  ASSUME SinkInv, LogTyped, WriterEnds
  PROVE  QuietDone /\ (~failed' => Settled(Current'))
<1>1. PICK faults \in SUBSET (Faulty \ {"write", "open"}) :
        /\ files' = [files EXCEPT ![Len(files)] = FinalSync(Current, faults)]
        /\ failed' = (failed \/ faults \cap {"flush", "sync", "entry"} # {} \/ ~named
                      \/ ("dir" \in faults /\ ~dir_synced))
  BY Zenon DEF WriterEnds
<1>2. PICK flushed : flushed = IF "flush" \in faults THEN Current ELSE Flush(Current)
  BY Zenon
<1>3. PICK synced : synced = IF "sync" \in faults THEN flushed ELSE SyncAll(flushed)
  BY Zenon
<1>4. PICK g : g = IF dir_synced \/ "dir" \in faults THEN synced ELSE SyncDir(synced)
  BY Zenon
<1>5. files' = [files EXCEPT ![Len(files)] = g]
  BY <1>1, <1>2, <1>3, <1>4, Zenon DEF FinalSync
<1>6. /\ Keeps(Current, flushed) /\ flushed.entry = Current.entry /\ flushed \in Sound
      /\ "flush" \notin faults => flushed.flushed = Len(Current.recs)
  BY <1>2, FilesSeq, FlushKeeps, ExtendsSelf, Zenon DEF Keeps, Extends
<1>7. /\ Keeps(Current, synced) /\ synced.entry = Current.entry /\ synced \in Sound
      /\ "sync" \notin faults => synced.synced = flushed.flushed
  BY <1>3, <1>6, SyncAllKeeps, ExtendsSelf, KeepsOn, Zenon DEF Keeps, Extends
<1>8. /\ Keeps(Current, g) /\ g.synced = synced.synced /\ (synced.entry => g.entry)
      /\ ~(dir_synced \/ "dir" \in faults) => g.entry
  BY <1>4, <1>7, SyncDirKeeps, KeepsOn, Zenon
<1>9. named' = named /\ events_since_flush' = events_since_flush /\ dir_synced' = dir_synced
  BY Zenon DEF WriterEnds
<1>10. /\ named \in BOOLEAN /\ dir_synced \in BOOLEAN /\ (dir_synced => Current.entry)
       /\ events_since_flush \in 0..(Threshold - 1)
  BY Zenon DEF SinkInv
<1>11. failed' \in BOOLEAN /\ (failed => failed')
  BY <1>1, LogTypes, Zenon
<1>12. QuietDone /\ Current' = g
  BY <1>5, <1>7, <1>8, <1>9, <1>10, <1>11, QuietTouch, Zenon
<1>13. ASSUME ~failed' PROVE Settled(g)
  <2>1. "flush" \notin faults /\ "sync" \notin faults /\ ("dir" \in faults => dir_synced)
    BY <1>1, <1>13, Zenon
  <2>2. g.synced = Len(Current.recs) /\ g.recs = Current.recs
    BY <1>6, <1>7, <1>8, <2>1, Zenon DEF Keeps
  <2>3. g.entry
    BY <1>7, <1>8, <1>10, <2>1, Zenon
  <2>. QED BY <2>2, <2>3, Zenon DEF Settled
<1>. QED BY <1>12, <1>13, Zenon

\* The old file at the swap.
LEMMA RetiredKeeps ==
  ASSUME SinkInv, NEW faults
  PROVE  /\ Keeps(Current, Retired(faults))
         /\ RetiredSafely(faults) => Settled(Retired(faults))
<1>1. PICK flushed : flushed = IF "flush" \in faults THEN Current ELSE Flush(Current)
  BY Zenon
<1>2. PICK synced : synced = IF faults \cap {"flush", "sync"} # {} THEN flushed ELSE SyncAll(flushed)
  BY Zenon
<1>3. Retired(faults) = IF RetiredSafely(faults) THEN SyncDir(synced) ELSE synced
  BY <1>1, <1>2, Zenon DEF Retired
<1>4. /\ Keeps(Current, flushed) /\ flushed \in Sound
      /\ "flush" \notin faults => flushed.flushed = Len(Current.recs)
  BY <1>1, FilesSeq, FlushKeeps, ExtendsSelf, Zenon DEF Keeps, Extends
<1>5. /\ Keeps(Current, synced) /\ synced \in Sound
      /\ faults \cap {"flush", "sync"} = {} => synced.synced = flushed.flushed
  BY <1>2, <1>4, SyncAllKeeps, KeepsOn, Zenon DEF Keeps, Extends
<1>6. Keeps(Current, Retired(faults))
  BY <1>3, <1>5, SyncDirKeeps, KeepsOn, Zenon
<1>7. ASSUME RetiredSafely(faults) PROVE Settled(Retired(faults))
  <2>1. faults \cap {"flush", "sync"} = {} /\ "flush" \notin faults
    BY <1>7, Zenon DEF RetiredSafely
  <2>2. synced.synced = Len(Current.recs)
    BY <1>4, <1>5, <2>1, Zenon
  <2>3. Retired(faults).synced = Len(Current.recs) /\ Retired(faults).entry = TRUE
    BY <1>3, <1>5, <1>7, <2>2, SyncDirKeeps, Zenon
  <2>4. Retired(faults).recs = Current.recs
    BY <1>6, Zenon DEF Keeps
  <2>. QED BY <2>3, <2>4, Zenon DEF Settled
<1>. QED BY <1>6, <1>7, Zenon

LEMMA NewFileSound == NewFile \in Sound /\ NewFile.recs = <<>> /\ Range(NewFile.recs) = {}
<1>1. NewFile \in Sound /\ NewFile.recs = <<>>
  BY DEF NewFile, Sound, File
<1>2. DOMAIN NewFile.recs = {}
  BY <1>1
<1>. QED BY <1>1, <1>2, Zenon DEF Range

\* The marker goes to a sound handle.
MarkerDone(f, path) ==
  /\ Extends(f, path.file) /\ Range(path.file.recs) \subseteq Range(f.recs) \cup {Marker}
  /\ path.dir_synced \in BOOLEAN /\ (path.dir_synced => path.file.entry) /\ path.ok \in BOOLEAN
  /\ path.ok /\ f.recs = <<>> => path.file.recs # <<>> /\ path.file.recs[1] = Marker

LEMMA MarkerWritten ==
  ASSUME NEW f \in Sound, NEW anchored \in BOOLEAN, NEW visible \in BOOLEAN, NEW late, NEW handle,
         handle = (IF anchored THEN SyncDir(f) ELSE f), NEW path,
         path = IF "write" \in late
                THEN Durably(handle, anchored, FALSE, late \cup {"flush"})
                ELSE Durably(WithLine(handle, Marker), anchored, visible, late)
  PROVE  MarkerDone(f, path)
<1>1. Keeps(f, handle) /\ (anchored => handle.entry) /\ handle \in Sound
  BY SyncDirKeeps, ExtendsSelf, Zenon DEF Keeps, Extends
<1>2. CASE "write" \in late
  <2>1. path = Durably(handle, anchored, FALSE, late \cup {"flush"})
    BY <1>2, Zenon
  <2>2. DurablyDone(handle, path)
    BY <1>1, <2>1, DurablyKeeps, Zenon
  <2>3. ~path.ok
    <3>1. path.ok => (late \cup {"flush"}) \cap {"write", "flush", "sync"} = {}
      BY <2>1, DurablyOk, Zenon
    <3>. QED BY <3>1, Zenon
  <2>4. Extends(f, path.file) /\ path.file.recs = f.recs
    BY <1>1, <2>2, KeepsOn, Zenon DEF DurablyDone, Keeps
  <2>. QED BY <2>2, <2>3, <2>4, Zenon DEF MarkerDone, DurablyDone
<1>3. CASE "write" \notin late
  <2>. DEFINE line == WithLine(handle, Marker)
  <2>1. path = Durably(line, anchored, visible, late)
    BY <1>3, Zenon
  <2>2. /\ Extends(handle, line) /\ line.recs = Append(handle.recs, Marker)
        /\ line.entry = handle.entry
    BY <1>1, WithLineExtends, Zenon DEF Lines
  <2>3. line \in Sound /\ handle.recs = f.recs
    BY <1>1, <2>2, Zenon DEF Extends, Keeps
  <2>. HIDE DEF line
  <2>4. DurablyDone(line, path)
    BY <1>1, <2>1, <2>2, <2>3, DurablyKeeps, Zenon
  <2>5. Extends(f, path.file) /\ path.file.recs = Append(f.recs, Marker)
    <3>1. Extends(line, path.file) /\ path.file.recs = line.recs /\ Extends(f, handle)
      BY <1>1, <2>4, Zenon DEF DurablyDone, Keeps
    <3>2. Extends(f, line)
      BY <2>2, <3>1, ExtendsOn, Zenon
    <3>3. Extends(f, path.file)
      BY <3>1, <3>2, ExtendsOn, Zenon
    <3>. QED BY <2>2, <2>3, <3>1, <3>3, Zenon
  <2>6. f.recs \in Seq(Lines)
    BY LineNumbers, Zenon
  <2>7. Marker \in Lines
    BY Zenon DEF Lines
  <2>8. /\ Range(path.file.recs) \subseteq Range(f.recs) \cup {Marker}
        /\ f.recs = <<>> => path.file.recs # <<>> /\ path.file.recs[1] = Marker
    <3>1. IsAdded(Lines, f.recs, Marker, Append(f.recs, Marker))
      BY <2>6, <2>7, Added, Zenon
    <3>2. IsAdded(Lines, f.recs, Marker, path.file.recs)
      BY <2>5, <3>1, Zenon
    <3>. QED BY <3>2, Zenon DEF IsAdded
  <2>. QED BY <2>4, <2>5, <2>8, Zenon DEF MarkerDone, DurablyDone
<1>. QED BY <1>2, <1>3, Zenon

ReopenDone ==
  /\ SinkInv' /\ FilesGrow /\ Adds({Marker}) /\ Written' \subseteq Written \cup {Marker}
  /\ failed' \in BOOLEAN /\ (failed => failed')
  /\ \/ Len(files') = Len(files) /\ hist' = hist
     \/ /\ Len(files') = Len(files) + 1
        /\ hist' = [hist EXCEPT !.before = Append(@, hist.signalled)]
        /\ Range(files'[Len(files')].recs) \subseteq {Marker}
        /\ failed' \/ (files'[Len(files')].recs # <<>> /\ files'[Len(files')].recs[1] = Marker)

\* The old file settled, a new one opened behind it and left as g.
Swaps(old, retired, opened, g) ==
  /\ retired = [files EXCEPT ![Len(files)] = old]
  /\ opened = Append(retired, NewFile)
  /\ files' = [opened EXCEPT ![Len(opened)] = g]

SwapDone(opened, g, X) ==
  /\ Len(opened) = Len(files) + 1 /\ opened[Len(opened)] = NewFile
  /\ files' \in Seq(Sound) /\ files' # <<>> /\ Len(files') = Len(files) + 1
  /\ Current' = g /\ FilesGrow /\ Adds(X) /\ Written' \subseteq Written \cup X
  /\ \A i \in 1..(Len(files') - 1) : Settled(files'[i])

\* A swap puts a new file behind the old ones.
LEMMA SwapGrows ==
  ASSUME SinkInv, NEW old, NEW g, Keeps(Current, old), Settled(old), g \in Sound,
         NEW retired, NEW opened, Swaps(old, retired, opened, g),
         NEW X, Range(g.recs) \subseteq X
  PROVE  SwapDone(opened, g, X)
<1>1. /\ Len(files) \in Nat \ {0} /\ DOMAIN files = 1..Len(files) /\ Len(files) \in 1..Len(files)
      /\ \A i \in 1..Len(files) : files[i] \in Sound
  BY FilesSeq, Zenon
<1>2. old \in Sound /\ files \in Seq(Sound) /\ NewFile \in Sound
  BY NewFileSound, Zenon DEF Keeps, Extends, SinkInv
<1>3. PICK n : n = Len(files)
  BY Zenon
<1>4. /\ retired \in Seq(Sound) /\ Len(retired) = n /\ retired[n] = old
      /\ \A i \in 1..n : i # n => retired[i] = files[i]
  <2>1. IsReplaced(Sound, files, Len(files), old, [files EXCEPT ![Len(files)] = old])
    BY <1>1, <1>2, Replaced, Zenon
  <2>2. IsReplaced(Sound, files, n, old, retired)
    BY <1>3, <2>1, Zenon DEF Swaps
  <2>. QED BY <1>3, <2>2, Zenon DEF IsReplaced
<1>5. /\ opened \in Seq(Sound) /\ Len(opened) = n + 1 /\ opened[n + 1] = NewFile
      /\ \A i \in 1..n : opened[i] = retired[i]
  <2>1. IsAdded(Sound, retired, NewFile, Append(retired, NewFile))
    BY <1>2, <1>4, Added, Zenon
  <2>2. IsAdded(Sound, retired, NewFile, opened)
    BY <2>1, Zenon DEF Swaps
  <2>. QED BY <1>4, <2>2, Zenon DEF IsAdded
<1>6. /\ n + 1 \in 1..(n + 1) /\ 1..(n + 1) = 1..n \cup {n + 1} /\ n <= n + 1 /\ (n + 1) - 1 = n
      /\ \A i \in 1..n : i # n + 1
  <2>1. n \in Nat
    BY <1>1, <1>3, Zenon
  <2>. QED BY <2>1, UpTo, Zenon
<1>7. /\ files' \in Seq(Sound) /\ Len(files') = n + 1 /\ files'[n + 1] = g /\ files' # <<>>
      /\ \A i \in 1..n : files'[i] = opened[i]
  <2>1. /\ files' \in Seq(Sound) /\ Len(files') = n + 1 /\ files'[n + 1] = g /\ files' # <<>>
        /\ \A i \in 1..(n + 1) : i # n + 1 => files'[i] = opened[i]
    <3>1. IsReplaced(Sound, opened, Len(opened), g, [opened EXCEPT ![Len(opened)] = g])
      BY <1>5, <1>6, Replaced, Zenon
    <3>2. IsReplaced(Sound, opened, n + 1, g, files')
      BY <1>5, <3>1, Zenon DEF Swaps
    <3>. QED BY <1>5, <3>2, Zenon DEF IsReplaced
  <2>. QED BY <1>6, <2>1, Zenon
<1>8. ASSUME NEW i \in 1..n PROVE Keeps(files[i], files'[i]) /\ Settled(files'[i])
  <2>1. files'[i] = retired[i]
    BY <1>5, <1>7, Zenon
  <2>2. CASE i = n
    BY <1>3, <1>4, <2>1, <2>2, Zenon DEF Current
  <2>3. CASE i # n
    <3>1. i \in 1..(n - 1)
      BY <1>1, <1>3, <2>3, LastOrBefore, Zenon
    <3>2. Settled(files[i])
      BY <1>3, <3>1, Zenon DEF SinkInv
    <3>. QED BY <1>1, <1>3, <1>4, <2>1, <2>3, <3>2, ExtendsSelf, Zenon
  <2>. QED BY <2>2, <2>3, Zenon
<1>9. FilesGrow
  BY <1>3, <1>6, <1>7, <1>8, Zenon DEF FilesGrow, Keeps
<1>10. Adds(X)
  BY <1>3, <1>8, Zenon DEF Adds, Keeps
<1>11. Written' \subseteq Written \cup X
  <2>. SUFFICES ASSUME NEW r \in Written' PROVE r \in Written \cup X
    BY Zenon
  <2>1. DOMAIN files' = 1..(n + 1)
    BY <1>7, SeqDomain, Zenon
  <2>2. PICK i \in 1..(n + 1) : r \in Range(files'[i].recs)
    BY <2>1, Zenon DEF Written
  <2>3. CASE i = n + 1
    BY <1>7, <2>2, <2>3, Zenon
  <2>4. CASE i \in 1..n
    <3>1. r \in Range(files[i].recs)
      BY <1>8, <2>2, <2>4, Zenon DEF Keeps
    <3>. QED BY <1>1, <1>3, <2>4, <3>1, Zenon DEF Written
  <2>. QED BY <1>6, <2>2, <2>3, <2>4, Zenon
<1>12. Current' = g
  BY <1>7, Zenon DEF Current
<1>. QED BY <1>3, <1>5, <1>6, <1>7, <1>8, <1>9, <1>10, <1>11, <1>12, Zenon DEF SwapDone

LEMMA ReopensEffects ==
  ASSUME SinkInv, LogTyped, WriterReopens
  PROVE  ReopenDone
<1>1. PICK faults \in AtMostOne(Faulty \cap {"flush", "sync", "dir", "open"}),
           entry \in {"dir" \notin Faulty, TRUE}, late \in AtMostOne(Faulty \ {"open"}) :
        LET retired == [files EXCEPT ![Len(files)] = Retired(faults)]
            swapped == RetiredSafely(faults) /\ "open" \notin faults
            opened == IF swapped /\ ~named THEN Append(retired, NewFile) ELSE retired
            anchored == IF swapped THEN entry ELSE dir_synced \/ RetiredSafely(faults)
            handle == IF anchored THEN SyncDir(Last(opened)) ELSE Last(opened)
            path == IF "write" \in late
                    THEN Durably(handle, anchored, FALSE, late \cup {"flush"})
                    ELSE Durably(WithLine(handle, Marker), anchored, swapped \/ named, late)
        IN /\ files' = [opened EXCEPT ![Len(opened)] = path.file]
           /\ dir_synced' = path.dir_synced
           /\ named' = (swapped \/ named)
           /\ failed' = (failed \/ ~swapped \/ ~entry \/ ~path.ok)
           /\ hist' = IF Len(opened) > Len(files)
                      THEN [hist EXCEPT !.before = Append(@, hist.signalled)] ELSE hist
  BY Zenon DEF WriterReopens
<1>2. PICK retired : retired = [files EXCEPT ![Len(files)] = Retired(faults)]
  BY Zenon
<1>3. PICK swapped \in BOOLEAN : swapped = (RetiredSafely(faults) /\ "open" \notin faults)
  BY Zenon
<1>4. PICK opened : opened = IF swapped /\ ~named THEN Append(retired, NewFile) ELSE retired
  BY Zenon
<1>5. PICK anchored : anchored = IF swapped THEN entry ELSE dir_synced \/ RetiredSafely(faults)
  BY Zenon
<1>6. PICK handle : handle = IF anchored THEN SyncDir(Last(opened)) ELSE Last(opened)
  BY Zenon
<1>7. PICK path : path = IF "write" \in late
                         THEN Durably(handle, anchored, FALSE, late \cup {"flush"})
                         ELSE Durably(WithLine(handle, Marker), anchored, swapped \/ named, late)
  BY Zenon
<1>8. /\ files' = [opened EXCEPT ![Len(opened)] = path.file]
      /\ dir_synced' = path.dir_synced /\ named' = (swapped \/ named)
      /\ failed' = (failed \/ ~swapped \/ ~entry \/ ~path.ok)
      /\ hist' = IF Len(opened) > Len(files)
                 THEN [hist EXCEPT !.before = Append(@, hist.signalled)] ELSE hist
  BY <1>1, <1>2, <1>3, <1>4, <1>5, <1>6, <1>7, Zenon
<1>9. events_since_flush' = 0
  BY Zenon DEF WriterReopens
<1>10. named \in BOOLEAN /\ dir_synced \in BOOLEAN /\ failed \in BOOLEAN /\ entry \in BOOLEAN
  BY LogTypes, Zenon DEF SinkInv
<1>11. anchored \in BOOLEAN /\ (swapped \/ named) \in BOOLEAN
  BY <1>5, <1>10, Zenon
<1>12. named' \in BOOLEAN /\ failed' \in BOOLEAN /\ (failed => failed') /\ (~path.ok => failed')
  BY <1>8, <1>10, Zenon
<1>13. /\ Keeps(Current, Retired(faults)) /\ (swapped => Settled(Retired(faults)))
       /\ Retired(faults) \in Sound
  BY <1>3, RetiredKeeps, Zenon DEF Keeps, Extends
<1>14. Len(files) \in Nat \ {0} /\ DOMAIN files = 1..Len(files) /\ Len(files) \in 1..Len(files)
  BY FilesSeq, Zenon
<1>15. Len(retired) = Len(files) /\ retired[Len(files)] = Retired(faults)
  <2>1. files \in Seq(Sound)
    BY Zenon DEF SinkInv
  <2>. QED BY <1>2, <1>13, <1>14, <2>1
<1>16. CASE swapped /\ ~named
  <2>1. opened = Append(retired, NewFile)
    BY <1>4, <1>16, Zenon
  <2>2. Len(opened) = Len(files) + 1 /\ opened[Len(opened)] = NewFile
    <3>1. retired \in Seq(Sound)
      <4>1. files \in Seq(Sound)
        BY Zenon DEF SinkInv
      <4>. QED BY <1>2, <1>13, <1>14, <4>1
    <3>. QED BY <1>14, <1>15, <2>1, <3>1
  <2>3. MarkerDone(NewFile, path)
    BY <1>6, <1>7, <1>11, <2>2, MarkerWritten, NewFileSound, Zenon DEF Last
  <2>4. path.file \in Sound /\ Range(path.file.recs) \subseteq {Marker}
    BY <2>3, NewFileSound, Zenon DEF MarkerDone, Extends
  <2>5. /\ files' \in Seq(Sound) /\ files' # <<>> /\ Len(files') = Len(files) + 1
        /\ Current' = path.file /\ FilesGrow /\ Adds({Marker})
        /\ Written' \subseteq Written \cup {Marker}
        /\ \A i \in 1..(Len(files') - 1) : Settled(files'[i])
    <3>1. Swaps(Retired(faults), retired, opened, path.file)
      BY <1>2, <1>8, <2>1, Zenon DEF Swaps
    <3>2. Keeps(Current, Retired(faults)) /\ Settled(Retired(faults))
      BY <1>13, <1>16, Zenon
    <3>3. SwapDone(opened, path.file, {Marker})
      BY <2>4, <3>1, <3>2, SwapGrows, Zenon
    <3>. QED BY <3>3, Zenon DEF SwapDone
  <2>6. SinkInv'
    BY <1>8, <1>9, <1>12, <2>3, <2>5, EventsBounded, Zenon DEF SinkInv, MarkerDone
  <2>7. hist' = [hist EXCEPT !.before = Append(@, hist.signalled)]
    <3>1. Len(opened) > Len(files)
      BY <1>14, <2>2
    <3>. QED BY <1>8, <3>1, Zenon
  <2>8. /\ Range(files'[Len(files')].recs) \subseteq {Marker}
        /\ failed' \/ (files'[Len(files')].recs # <<>> /\ files'[Len(files')].recs[1] = Marker)
    <3>1. files'[Len(files')] = path.file
      BY <2>5, Zenon DEF Current
    <3>2. path.ok => path.file.recs # <<>> /\ path.file.recs[1] = Marker
      BY <2>3, NewFileSound, Zenon DEF MarkerDone
    <3>. QED BY <1>12, <2>4, <3>1, <3>2, Zenon
  <2>. QED BY <1>12, <2>5, <2>6, <2>7, <2>8, Zenon DEF ReopenDone
<1>17. CASE ~(swapped /\ ~named)
  <2>1. opened = retired
    BY <1>4, <1>17, Zenon
  <2>2. Last(opened) = Retired(faults) /\ Len(opened) = Len(files)
    BY <1>15, <2>1, Zenon DEF Last
  <2>3. MarkerDone(Retired(faults), path)
    BY <1>6, <1>7, <1>11, <1>13, <2>2, MarkerWritten, Zenon
  <2>4. files' = [files EXCEPT ![Len(files)] = path.file]
    <3>1. files' = [retired EXCEPT ![Len(files)] = path.file]
      BY <1>8, <2>1, <2>2, Zenon
    <3>. QED BY <1>2, <1>14, <3>1, Zenon
  <2>5. Extends(Current, path.file) /\ Range(path.file.recs) \subseteq Range(Current.recs) \cup {Marker}
    BY <1>13, <2>3, ExtendsOn, Zenon DEF MarkerDone, Keeps
  <2>6. /\ files' \in Seq(Sound) /\ files' # <<>> /\ Len(files') = Len(files)
        /\ Current' = path.file /\ FilesGrow
    BY <2>4, <2>5, TouchGrows, Zenon
  <2>7. /\ \A i \in 1..(Len(files') - 1) : Settled(files'[i])
        /\ Adds({Marker}) /\ Written' \subseteq Written \cup {Marker}
    BY <2>4, <2>5, TouchSink, Zenon
  <2>8. SinkInv'
    BY <1>8, <1>9, <1>12, <2>3, <2>6, <2>7, EventsBounded, Zenon DEF SinkInv, MarkerDone
  <2>9. hist' = hist
    <3>1. ~(Len(opened) > Len(files))
      BY <1>14, <2>2
    <3>. QED BY <1>8, <3>1, Zenon
  <2>. QED BY <1>12, <2>6, <2>7, <2>8, <2>9, Zenon DEF ReopenDone
<1>. QED BY <1>16, <1>17, Zenon

--------------------------------------------------------------------------------
(* The queue and the history.                                              *)

LEMMA TakenNat ==
  ASSUME LogTyped, OrderInv
  PROVE  /\ Taken \in Nat /\ Len(queue) \in Nat /\ DOMAIN queue = 1..Len(queue)
         /\ DOMAIN hist.accepted = 1..Len(hist.accepted) /\ Len(hist.accepted) \in Nat
         /\ Len(hist.accepted) = Taken + Len(queue)
         /\ 1..Taken \subseteq DOMAIN hist.accepted
         /\ \A i \in DOMAIN queue : Taken + i \in DOMAIN hist.accepted /\ queue[i] \in Item
         /\ TakenRecs \subseteq Range(hist.accepted)
<1>1. queue \in Seq(Item) /\ hist.accepted \in Seq(Records) /\ Taken \in Nat
  BY LogTypes, Zenon DEF OrderInv
<1>2. /\ Len(queue) \in Nat /\ DOMAIN queue = 1..Len(queue) /\ Len(hist.accepted) \in Nat
      /\ DOMAIN hist.accepted = 1..Len(hist.accepted)
      /\ \A i \in DOMAIN queue : queue[i] \in Item
  BY <1>1
<1>3. Len(hist.accepted) = Taken + Len(queue)
  BY <1>2 DEF Taken
<1>4. /\ 1..Taken \subseteq DOMAIN hist.accepted
      /\ \A i \in DOMAIN queue : Taken + i \in DOMAIN hist.accepted
  BY <1>1, <1>2, <1>3
<1>5. TakenRecs \subseteq Range(hist.accepted)
  BY <1>4, Zenon DEF TakenRecs, Range
<1>. QED BY <1>1, <1>2, <1>3, <1>4, <1>5, Zenon

LEMMA OrderKept ==
  ASSUME LogTyped, OrderInv, queue' = queue, hist'.accepted = hist.accepted,
         hist.offered \subseteq hist'.offered
  PROVE  OrderInv' /\ TakenRecs' = TakenRecs
<1>1. Taken' = Taken
  BY Zenon DEF Taken
<1>2. TakenRecs' = TakenRecs
  BY <1>1, Zenon DEF TakenRecs
<1>3. Range(hist'.accepted) \subseteq hist'.offered
  BY Zenon DEF OrderInv
<1>. QED BY <1>1, <1>2, <1>3, Zenon DEF OrderInv

Enqueued(r, ack) ==
  /\ queue' \in Seq(Item) /\ hist' \in Hist /\ Len(queue') = Len(queue) + 1
  /\ OrderInv' /\ TakenRecs' = TakenRecs
  /\ Range(hist'.accepted) = Range(hist.accepted) \cup {r}
  /\ hist'.offered = hist.offered \cup {r} /\ hist'.committed = hist.committed
  /\ hist'.signalled = hist.signalled /\ hist'.before = hist.before
  /\ \A i \in DOMAIN queue' : \/ i \in DOMAIN queue /\ queue'[i] = queue[i]
                              \/ queue'[i] = [rec |-> r, ack |-> ack]
  /\ \A x : x # r /\ DurableUpTo(x) /\ files' = files => DurableUpTo(x)'

IsUpdated(h, A, O, g) ==
  /\ g \in Hist /\ g.accepted = A /\ g.offered = O /\ g.committed = h.committed
  /\ g.signalled = h.signalled /\ g.before = h.before

LEMMA HistUpdated ==
  ASSUME NEW h \in Hist, NEW A \in Seq(Records), NEW O \in SUBSET Records
  PROVE  IsUpdated(h, A, O, [h EXCEPT !.accepted = A, !.offered = O])
  BY Zenon DEF Hist, IsUpdated

LEMMA EnqueueEffects ==
  ASSUME LogTyped, OrderInv, NEW r \in Records, r \notin Range(hist.accepted),
         NEW ack \in Producers \cup {"none"}, Enqueue(r, ack)
  PROVE  Enqueued(r, ack)
<1>. DEFINE acc == hist.accepted
            item == [rec |-> r, ack |-> ack]
            L == Len(acc)
<1>1. /\ queue' = Append(queue, item)
      /\ hist' = [hist EXCEPT !.accepted = Append(@, r), !.offered = @ \cup {r}]
  BY Zenon DEF Enqueue
<1>2. hist \in Hist /\ queue \in Seq(Item) /\ acc \in Seq(Records)
  BY LogTypes, Zenon DEF LogTyped
<1>3. /\ hist'.accepted = Append(acc, r) /\ hist'.offered = hist.offered \cup {r}
      /\ hist'.committed = hist.committed /\ hist'.signalled = hist.signalled
      /\ hist'.before = hist.before /\ hist' \in Hist
  <2>1. PICK A : A = Append(acc, r)
    BY Zenon
  <2>2. PICK O : O = hist.offered \cup {r}
    BY Zenon
  <2>3. A \in Seq(Records) /\ O \in SUBSET Records
    <3>1. hist.offered \in SUBSET Records
      BY LogTypes, Zenon
    <3>2. IsAdded(Records, acc, r, Append(acc, r))
      BY <1>2, Added, Zenon
    <3>. QED BY <2>1, <2>2, <3>1, <3>2, Zenon DEF IsAdded
  <2>4. hist' = [hist EXCEPT !.accepted = A, !.offered = O]
    BY <1>1, <2>1, <2>2, Zenon
  <2>5. /\ hist'.accepted = A /\ hist'.offered = O /\ hist' \in Hist
        /\ hist'.committed = hist.committed /\ hist'.signalled = hist.signalled
        /\ hist'.before = hist.before
    <3>1. IsUpdated(hist, A, O, [hist EXCEPT !.accepted = A, !.offered = O])
      BY <1>2, <2>3, HistUpdated, Zenon
    <3>2. IsUpdated(hist, A, O, hist')
      BY <2>4, <3>1, Zenon
    <3>. QED BY <3>2, Zenon DEF IsUpdated
  <2>. QED BY <2>1, <2>2, <2>5, Zenon
<1>4. item \in Item
  BY DEF Item
<1>. HIDE DEF item
<1>5. /\ queue' \in Seq(Item) /\ Len(queue') = Len(queue) + 1 /\ Len(queue) \in Nat
      /\ DOMAIN queue = 1..Len(queue) /\ DOMAIN queue' = 1..(Len(queue) + 1)
      /\ queue'[Len(queue) + 1] = item
      /\ \A i \in 1..Len(queue) : queue'[i] = queue[i]
  BY <1>1, <1>2, <1>4
<1>6. /\ L \in Nat /\ DOMAIN acc = 1..L /\ DOMAIN hist'.accepted = 1..(L + 1)
      /\ Len(hist'.accepted) = L + 1 /\ hist'.accepted[L + 1] = r
      /\ \A n \in 1..L : hist'.accepted[n] = acc[n]
  BY <1>2, <1>3
<1>. HIDE DEF acc, L
<1>7. Taken' = Taken /\ Taken \in Nat /\ Taken + Len(queue) = L /\ 1..Taken \subseteq 1..L
  BY <1>5, <1>6, TakenNat DEF Taken, acc, L
<1>8. TakenRecs' = TakenRecs
  BY <1>6, <1>7, Zenon DEF TakenRecs, acc
<1>9. 1..(L + 1) = 1..L \cup {L + 1} /\ 1..(Len(queue) + 1) = 1..Len(queue) \cup {Len(queue) + 1}
      /\ L + 1 \notin 1..L
  BY <1>5, <1>6
<1>10. Range(hist'.accepted) = Range(acc) \cup {r}
  <2>1. IsAdded(Records, acc, r, Append(acc, r))
    BY <1>2, Added, Zenon
  <2>. QED BY <1>3, <2>1, Zenon DEF IsAdded
<1>11. OrderInv'
  <2>1. ASSUME NEW i \in DOMAIN queue' PROVE queue'[i].rec = hist'.accepted[Taken' + i]
    <3>1. CASE i \in 1..Len(queue)
      <4>1. queue[i].rec = acc[Taken + i]
        BY <1>5, <3>1, Zenon DEF OrderInv, acc
      <4>2. Taken + i \in 1..L
        BY <1>5, <1>7, <3>1
      <4>. QED BY <1>5, <1>6, <1>7, <3>1, <4>1, <4>2, Zenon
    <3>2. CASE i = Len(queue) + 1
      <4>1. Taken + i = L + 1
        BY <1>5, <1>6, <1>7, <3>2
      <4>2. queue'[i].rec = r
        BY <1>5, <3>2 DEF item
      <4>. QED BY <1>6, <1>7, <4>1, <4>2, Zenon
    <3>. QED BY <1>5, <1>9, <2>1, <3>1, <3>2, Zenon
  <2>2. ASSUME NEW m \in DOMAIN hist'.accepted, NEW n \in DOMAIN hist'.accepted,
               hist'.accepted[m] = hist'.accepted[n]
        PROVE  m = n
    <3>1. \A k \in 1..L : hist'.accepted[k] # r
      BY <1>6, Zenon DEF Range, acc
    <3>2. \A k, l \in 1..L : acc[k] = acc[l] => k = l
      BY <1>6, Zenon DEF OrderInv, acc
    <3>3. ASSUME NEW k \in DOMAIN hist'.accepted PROVE k \in 1..L \/ k = L + 1
      <4>1. k \in 1..(L + 1)
        BY <1>6, Zenon
      <4>. QED BY <1>9, <4>1, Zenon
    <3>4. CASE m = L + 1
      BY <1>6, <2>2, <3>1, <3>3, <3>4, Zenon
    <3>5. CASE m \in 1..L /\ n = L + 1
      BY <1>6, <2>2, <3>1, <3>5, Zenon
    <3>6. CASE m \in 1..L /\ n \in 1..L
      BY <1>6, <2>2, <3>2, <3>6, Zenon
    <3>. QED BY <3>3, <3>4, <3>5, <3>6, Zenon
  <2>3. Range(hist'.accepted) \subseteq hist'.offered
    BY <1>3, <1>10, Zenon DEF OrderInv, acc
  <2>4. Taken' \in Nat
    BY <1>7, Zenon
  <2>. QED BY <2>1, <2>2, <2>3, <2>4, Zenon DEF OrderInv
<1>12. ASSUME NEW x, x # r, DurableUpTo(x), files' = files PROVE DurableUpTo(x)'
  <2>. SUFFICES ASSUME NEW n \in DOMAIN hist'.accepted, hist'.accepted[n] = x, NEW m \in 1..n
                PROVE  hist'.accepted[m] \in Durable'
    BY Zenon DEF DurableUpTo
  <2>1. n \in 1..L
    BY <1>6, <1>9, <1>12, Zenon
  <2>2. m \in 1..L
    BY <1>6, <2>1
  <2>3. acc[m] \in Durable
    BY <1>6, <1>12, <2>1, Zenon DEF DurableUpTo, acc
  <2>4. Durable' = Durable
    BY <1>12, SameFiles, Zenon
  <2>. QED BY <1>6, <2>2, <2>3, <2>4, Zenon
<1>13. \A i \in DOMAIN queue' : \/ i \in DOMAIN queue /\ queue'[i] = queue[i]
                                \/ queue'[i] = [rec |-> r, ack |-> ack]
  <2>. SUFFICES ASSUME NEW i \in DOMAIN queue'
                PROVE  \/ i \in DOMAIN queue /\ queue'[i] = queue[i]
                       \/ queue'[i] = item
    BY Zenon DEF item
  <2>1. i \in 1..Len(queue) \/ i = Len(queue) + 1
    <3>1. i \in 1..(Len(queue) + 1)
      BY <1>5, Zenon
    <3>. QED BY <1>9, <3>1, Zenon
  <2>2. CASE i \in 1..Len(queue)
    BY <1>5, <2>2, Zenon
  <2>3. CASE i = Len(queue) + 1
    BY <1>5, <2>3, Zenon
  <2>. QED BY <2>1, <2>2, <2>3, Zenon
<1>. QED BY <1>3, <1>5, <1>8, <1>10, <1>11, <1>12, <1>13, Zenon DEF Enqueued, acc

Dequeued ==
  LET item == Head(queue)
  IN /\ queue' \in Seq(Item) /\ Len(queue') <= Len(queue) /\ item = queue[1] /\ 1 \in DOMAIN queue
     /\ item \in Item
     /\ OrderInv' /\ TakenRecs' = TakenRecs \cup {item.rec}
     /\ item.rec \in Range(hist.accepted) \ TakenRecs
     /\ \A i \in DOMAIN queue' : /\ \E j \in DOMAIN queue : queue'[i] = queue[j]
                                 /\ queue'[i].rec # item.rec
     /\ \A r : r = item.rec /\ TakenRecs' \subseteq Durable' => DurableUpTo(r)'

LEMMA DequeueEffects ==
  ASSUME LogTyped, OrderInv, queue # <<>>, queue' = Tail(queue), hist' = hist
  PROVE  Dequeued
<1>. DEFINE acc == hist.accepted
            item == Head(queue)
            L == Len(queue)
<1>1. /\ queue \in Seq(Item) /\ Taken \in Nat /\ L \in Nat /\ DOMAIN queue = 1..L
      /\ Len(acc) = Taken + L /\ DOMAIN acc = 1..Len(acc) /\ Len(acc) \in Nat
  BY TakenNat, LogTypes, Zenon
<1>2. /\ L >= 1 /\ item = queue[1] /\ item \in Item /\ 1 \in DOMAIN queue
      /\ queue' \in Seq(Item) /\ Len(queue') = L - 1 /\ DOMAIN queue' = 1..(L - 1)
      /\ \A i \in 1..(L - 1) : queue'[i] = queue[i + 1]
  BY <1>1
<1>. HIDE DEF L, item
<1>3. Taken' = Taken + 1
  BY <1>1, <1>2 DEF Taken, acc, L
<1>. HIDE DEF acc
<1>4. item.rec = acc[Taken + 1]
  BY <1>2, Zenon DEF OrderInv, acc
<1>5. 1..(Taken + 1) = 1..Taken \cup {Taken + 1} /\ Taken + 1 \notin 1..Taken
      /\ Taken + 1 \in DOMAIN acc /\ 1..(Taken + 1) \subseteq DOMAIN acc
  BY <1>1, <1>2
<1>6. \A m, n \in DOMAIN acc : acc[m] = acc[n] => m = n
  BY Zenon DEF OrderInv, acc
<1>7. TakenRecs' = TakenRecs \cup {item.rec} /\ TakenRecs' = {acc[n] : n \in 1..(Taken + 1)}
  <2>1. TakenRecs' = {acc[n] : n \in 1..(Taken + 1)}
    BY <1>3, Zenon DEF TakenRecs, acc
  <2>. QED BY <1>4, <1>5, <2>1, Zenon DEF TakenRecs, acc
<1>8. item.rec \in Range(acc) \ TakenRecs
  <2>1. ASSUME item.rec \in TakenRecs PROVE FALSE
    <3>1. PICK n \in 1..Taken : item.rec = acc[n]
      BY <2>1, Zenon DEF TakenRecs, acc
    <3>2. n \in DOMAIN acc /\ n # Taken + 1
      BY <1>5, Zenon
    <3>. QED BY <1>4, <1>5, <1>6, <3>1, <3>2, Zenon
  <2>. QED BY <1>4, <1>5, <2>1, Zenon DEF Range
<1>9. ASSUME NEW i \in DOMAIN queue'
      PROVE  /\ i + 1 \in DOMAIN queue /\ queue'[i] = queue[i + 1]
             /\ queue'[i].rec = acc[Taken' + i] /\ queue'[i].rec # item.rec
  <2>1. i + 1 \in DOMAIN queue /\ Taken + (i + 1) = Taken' + i
        /\ Taken + (i + 1) # Taken + 1 /\ Taken + (i + 1) \in DOMAIN acc
    <3>1. i \in 1..(L - 1)
      BY <1>2, Zenon
    <3>2. \A a, b \in Nat : \A k \in 1..(b - 1) :
            /\ k + 1 \in 1..b /\ a + (k + 1) = (a + 1) + k /\ a + (k + 1) # a + 1
            /\ a + (k + 1) \in 1..(a + b)
      OBVIOUS
    <3>3. Taken \in Nat /\ L \in Nat
      BY <1>1, <1>3, Zenon
    <3>4. /\ i + 1 \in 1..L /\ Taken + (i + 1) = (Taken + 1) + i
          /\ Taken + (i + 1) # Taken + 1 /\ Taken + (i + 1) \in 1..(Taken + L)
      BY <3>1, <3>2, <3>3, Zenon
    <3>. QED BY <1>1, <1>3, <3>4, Zenon
  <2>2. queue'[i] = queue[i + 1]
    BY <1>2, Zenon
  <2>3. queue[i + 1].rec = acc[Taken + (i + 1)]
    BY <2>1, Zenon DEF OrderInv, acc
  <2>. QED BY <1>4, <1>5, <1>6, <2>1, <2>2, <2>3, Zenon
<1>10. OrderInv'
  <2>1. Taken' \in Nat
    BY <1>1, <1>3
  <2>. QED BY <1>6, <1>9, <2>1, Zenon DEF OrderInv, acc
<1>11. ASSUME NEW r, r = item.rec, TakenRecs' \subseteq Durable' PROVE DurableUpTo(r)'
  <2>. SUFFICES ASSUME NEW n \in DOMAIN acc, acc[n] = r, NEW m \in 1..n
                PROVE  acc[m] \in Durable'
    BY Zenon DEF DurableUpTo, acc
  <2>1. n = Taken + 1
    BY <1>4, <1>5, <1>6, <1>11, Zenon
  <2>. QED BY <1>7, <1>11, <2>1, Zenon
<1>12. Len(queue') <= L
  BY <1>1, <1>2
<1>. QED BY <1>2, <1>7, <1>8, <1>9, <1>10, <1>11, <1>12, Zenon DEF Dequeued, item, acc, L

--------------------------------------------------------------------------------
(* What a step leaves of each part of the invariant.                       *)

Mono == failed' \in BOOLEAN /\ (failed => failed')

LEMMA MonoStep ==
  ASSUME LogTyped, failed' = failed \/ failed' = TRUE
  PROVE  Mono
<1>1. failed \in BOOLEAN
  BY LogTypes, Zenon
<1>2. CASE failed' = failed
  BY <1>1, <1>2, Zenon DEF Mono
<1>3. CASE failed' = TRUE
  BY <1>3, Zenon DEF Mono
<1>. QED BY <1>2, <1>3, Zenon

LEMMA SinkUnchanged ==
  ASSUME SinkInv, UNCHANGED sink
  PROVE  /\ SinkInv' /\ FilesGrow /\ Len(files') = Len(files) /\ Adds({})
         /\ Written' = Written /\ Durable' = Durable /\ files' = files
<1>1. /\ files' = files /\ named' = named /\ dir_synced' = dir_synced
      /\ events_since_flush' = events_since_flush
  BY DEF sink
<1>2. Current' = Current /\ Written' = Written /\ Durable' = Durable
  BY <1>1, SameFiles, Zenon
<1>3. SinkInv'
  BY <1>1, <1>2, Zenon DEF SinkInv
<1>4. Len(files) <= Len(files') /\ \A i \in 1..Len(files) : files[i] \in Sound
  BY <1>1, FilesSeq
<1>5. FilesGrow
  BY <1>1, <1>4, ExtendsSelf, Zenon DEF FilesGrow, Keeps
<1>. QED BY <1>1, <1>2, <1>3, <1>5, Zenon DEF Adds

LEMMA WrittenKept ==
  ASSUME WrittenInv, TakenRecs' = TakenRecs, Written' \subseteq Written \cup {Marker},
         Written \subseteq Written', Mono
  PROVE  WrittenInv'
  BY Zenon DEF WrittenInv, Mono

LEMMA UpToKept ==
  ASSUME NEW r, DurableUpTo(r), hist'.accepted = hist.accepted, Durable \subseteq Durable'
  PROVE  DurableUpTo(r)'
  BY Zenon DEF DurableUpTo

LEMMA AckKept ==
  ASSUME AckInv, hist'.accepted = hist.accepted, hist'.committed = hist.committed,
         Durable \subseteq Durable', Mono,
         \A p \in Producers : prod'[p].pc = "acked" => prod'[p] = prod[p]
  PROVE  AckInv'
<1>1. ASSUME NEW p \in Producers, prod'[p].pc = "acked", ~failed' PROVE DurableUpTo(prod[p].rec)'
  <2>1. PICK r : r = prod[p].rec /\ r = prod'[p].rec
    BY <1>1, Zenon
  <2>2. prod[p].pc = "acked" /\ ~failed
    BY <1>1, Zenon DEF Mono
  <2>3. DurableUpTo(r)
    BY <2>1, <2>2, Zenon DEF AckInv
  <2>4. DurableUpTo(r)'
    BY <2>3, UpToKept, Zenon
  <2>. QED BY <2>1, <2>4, Zenon
<1>2. FailClosed => \A r \in hist'.committed : DurableUpTo(r)'
  BY UpToKept, Zenon DEF AckInv
<1>3. hist'.committed \subseteq Range(hist'.accepted)
  BY Zenon DEF AckInv
<1>. QED BY <1>1, <1>2, <1>3, Zenon DEF AckInv

LEMMA EndKept ==
  ASSUME EndInv, hist'.accepted = hist.accepted, Durable \subseteq Durable', Mono,
         writer' = "done" <=> writer = "done", closer' = closer, tx' => tx, queue = <<>> => queue' = <<>>,
         writer = "done" => \A p \in Producers : prod'[p].pc \in {"idle", "budget"}
  PROVE  EndInv'
  BY Zenon DEF EndInv, ShutdownComplete, Mono

LEMMA EndRunning ==
  ASSUME EndInv, writer # "done", writer' # "done", closer' = closer
  PROVE  EndInv'
<1>1. closer' \notin {"ok", "err"}
  BY DEF EndInv
<1>2. closer' # "ok"
  BY <1>1
<1>. QED BY <1>1, <1>2, Zenon DEF EndInv, ShutdownComplete

LEMMA OfferKept ==
  ASSUME OfferInv, dropped' = dropped, hist'.offered = hist.offered, Mono,
         hist'.accepted = hist.accepted,
         \A p \in Producers : prod[p].pc \in Waiting =>
            failed' \/ (prod'[p].pc \in Waiting /\ prod'[p].rec = prod[p].rec)
  PROVE  OfferInv'
<1>1. dropped' <= Cardinality(hist'.offered)
  BY Zenon DEF OfferInv
<1>2. ASSUME FailClosed, ~failed', NEW r \in hist'.offered \ Range(hist'.accepted)
      PROVE  \E p \in Producers : prod'[p].pc \in Waiting /\ prod'[p].rec = r
  BY <1>2, Zenon DEF OfferInv, Mono
<1>3. ~FailClosed /\ ~failed' => Cardinality(hist'.offered \ Range(hist'.accepted)) = dropped'
  BY Zenon DEF OfferInv, Mono
<1>. QED BY <1>1, <1>2, <1>3, Zenon DEF OfferInv

LEMMA RotationKept ==
  ASSUME LogTyped, SinkInv, RotationInv, hist'.before = hist.before,
         hist'.signalled \subseteq Range(hist'.accepted),
         TakenRecs \subseteq TakenRecs', FilesGrow, Len(files') = Len(files),
         NEW X, Adds(X), X \cap TakenRecs = {}, Mono
  PROVE  RotationInv'
<1>1. Len(hist'.before) = Len(files') /\ \A k \in DOMAIN hist'.before : hist'.before[k] \subseteq TakenRecs'
  BY Zenon DEF RotationInv
<1>2. ASSUME NEW k \in 2..Len(files')
      PROVE  /\ Range(files'[k].recs) \cap hist'.before[k] = {}
             /\ failed' \/ (files'[k].recs # <<>> /\ files'[k].recs[1] = Marker)
  <2>1. k \in 1..Len(files) /\ k \in 2..Len(files) /\ k \in DOMAIN hist.before
    <3>1. hist.before \in Seq(SUBSET Records) /\ Len(hist.before) = Len(files)
      BY LogTypes, Zenon DEF RotationInv
    <3>. QED BY <1>2, <3>1, FilesSeq
  <2>2. /\ Range(files[k].recs) \cap hist.before[k] = {}
        /\ failed \/ (files[k].recs # <<>> /\ files[k].recs[1] = Marker)
        /\ hist.before[k] \subseteq TakenRecs
    BY <2>1, Zenon DEF RotationInv, RotationSplits
  <2>3. Range(files'[k].recs) \subseteq Range(files[k].recs) \cup X
    BY <2>1, Zenon DEF Adds
  <2>4. files[k].recs # <<>> => files'[k].recs # <<>> /\ files'[k].recs[1] = files[k].recs[1]
    BY <2>1, ExtendsRange, Zenon DEF FilesGrow
  <2>. QED BY <2>2, <2>3, <2>4, Zenon DEF Mono
<1>3. RotationSplits'
  BY <1>2, Zenon DEF RotationSplits
<1>. QED BY <1>1, <1>3, Zenon DEF RotationInv

\* The steps that do not bring a polled writer and a request together.
Unpolled ==
  \/ writer' # "polled" \/ reopen'.pc # "queued"
  \/ writer' = writer /\ reopen' = reopen /\ hist'.signalled = hist.signalled
  \/ hist'.signalled \subseteq TakenRecs

LEMMA PolledKept ==
  ASSUME PolledInv, Unpolled, TakenRecs \subseteq TakenRecs'
  PROVE  PolledInv'
  BY Zenon DEF PolledInv, Unpolled

LEMMA QueueItems ==
  ASSUME LogTyped
  PROVE  \A i \in DOMAIN queue : queue[i] \in Item /\ queue[i].rec \in Records
                                 /\ (queue[i].ack # "none" => queue[i].ack \in Producers)
<1>1. queue \in Seq(Item)
  BY LogTypes, Zenon
<1>2. \A x \in Item : x.rec \in Records /\ (x.ack # "none" => x.ack \in Producers)
  BY DEF Item
<1>3. \A i \in DOMAIN queue : queue[i] \in Item
  BY <1>1
<1>. QED BY <1>2, <1>3, Zenon

LEMMA BusyProd ==
  ASSUME LogTyped, NEW p \in Producers, prod[p].pc # "idle"
  PROVE  prod[p] \in Busy /\ prod[p].rec \in Records /\ prod[p].committed \in BOOLEAN
<1>1. prod[p] \in {Idle} \cup Busy
  BY LogTypes, Zenon
<1>2. prod[p] # Idle
  BY DEF Idle
<1>. QED BY <1>1, <1>2 DEF Busy

LEMMA IdlePc == Idle.pc = "idle" /\ "idle" \notin Waiting \cup Sent /\ Waiting \cap Sent = {}
  BY DEF Idle, Waiting, Sent

\* A producer that leaves, or moves on with its record.
LEMMA ProducerKept ==
  ASSUME LogTyped, ProducerInv, queue' = queue, hist'.accepted = hist.accepted,
         hist'.offered = hist.offered,
         \A p \in Producers : \/ prod'[p] = prod[p]
                              \/ prod'[p] = Idle /\ prod[p].pc # "ack"
                              \/ prod[p].pc = "budget" /\ prod'[p].pc = "send"
                                 /\ prod'[p].rec = prod[p].rec
  PROVE  ProducerInv'
<1>1. \A p \in Producers : prod'[p].pc \in Waiting => prod[p].pc \in Waiting /\ prod'[p].rec = prod[p].rec
  BY IdlePc, Zenon DEF Waiting
<1>2. \A p \in Producers : prod'[p].pc \in Sent => prod'[p] = prod[p]
  BY IdlePc DEF Sent
<1>3. \A p \in Producers : prod[p].pc = "ack" => prod'[p] = prod[p]
  OBVIOUS
<1>4. \A i \in DOMAIN queue : queue[i].ack # "none" => queue[i].ack \in Producers
  BY QueueItems, Zenon
<1>5. FailClosed \/ \A p \in Producers : prod'[p] = Idle
  <2>1. ~FailClosed => \A p \in Producers : prod[p] = Idle
    BY Zenon DEF ProducerInv
  <2>2. Idle.pc # "budget"
    BY DEF Idle
  <2>. QED BY <2>1, <2>2, Zenon
<1>6. ASSUME NEW i \in DOMAIN queue', queue'[i].ack # "none"
      PROVE  prod'[queue'[i].ack].pc = "ack" /\ prod'[queue'[i].ack].rec = queue'[i].rec
  <2>1. /\ queue[i].ack \in Producers
        /\ prod[queue[i].ack].pc = "ack" /\ prod[queue[i].ack].rec = queue[i].rec
    BY <1>4, <1>6, Zenon DEF ProducerInv
  <2>. QED BY <1>3, <2>1, Zenon
<1>7. \A p \in Producers : prod'[p].pc \in Waiting =>
        prod'[p].rec \in hist'.offered \ Range(hist'.accepted)
  BY <1>1, Zenon DEF ProducerInv
<1>8. ASSUME NEW p \in Producers, NEW q \in Producers, prod'[p].pc \in Waiting,
             prod'[q].pc \in Waiting, prod'[p].rec = prod'[q].rec
      PROVE  p = q
  <2>1. prod[p].pc \in Waiting /\ prod[q].pc \in Waiting /\ prod[p].rec = prod[q].rec
    BY <1>1, <1>8, Zenon
  <2>. QED BY <2>1, Zenon DEF ProducerInv
<1>9. \A p \in Producers : prod'[p].pc \in Sent => prod'[p].rec \in Range(hist'.accepted)
  BY <1>2, Zenon DEF ProducerInv
<1>. QED BY <1>5, <1>6, <1>7, <1>8, <1>9, Zenon DEF ProducerInv

\* A record offered and not accepted.
Offered(r) ==
  /\ hist' \in Hist /\ hist'.offered = hist.offered \cup {r} /\ hist'.accepted = hist.accepted
  /\ hist'.committed = hist.committed /\ hist'.signalled = hist.signalled
  /\ hist'.before = hist.before

LEMMA OfferEffects == ASSUME LogTyped, NEW r \in Records, Offer(r) PROVE Offered(r)
<1>1. hist \in Hist /\ hist' = [hist EXCEPT !.offered = hist.offered \cup {r}]
  BY Zenon DEF LogTyped, Offer
<1>. QED BY <1>1 DEF Hist, Offered

\* The other parts of the invariant after an offer, or an acceptance.
LEMMA ProducerOffered ==
  ASSUME ProducerInv, NEW r, Offered(r), queue' = queue, prod' = prod
  PROVE  ProducerInv'
  BY Zenon DEF ProducerInv, Offered

LEMMA ProducerEnqueued ==
  ASSUME LogTyped, ProducerInv, NEW r, NEW ack, Enqueued(r, ack),
         \A q \in Producers : prod'[q].pc \in Waiting => prod'[q] = prod[q] /\ prod[q].rec # r,
         \A q \in Producers : prod'[q].pc \in Sent => prod'[q] = prod[q] \/ prod'[q].rec = r,
         \A q \in Producers : prod[q].pc = "ack" => prod'[q] = prod[q],
         ack # "none" => prod'[ack].pc = "ack" /\ prod'[ack].rec = r,
         FailClosed \/ \A q \in Producers : prod'[q] = Idle
  PROVE  ProducerInv'
<1>1. /\ Range(hist'.accepted) = Range(hist.accepted) \cup {r}
      /\ hist'.offered = hist.offered \cup {r}
      /\ \A i \in DOMAIN queue' : \/ i \in DOMAIN queue /\ queue'[i] = queue[i]
                                  \/ queue'[i] = [rec |-> r, ack |-> ack]
  BY Zenon DEF Enqueued
<1>2. \A p \in Producers : prod'[p].pc \in Waiting =>
        prod'[p].rec \in hist'.offered \ Range(hist'.accepted)
  BY <1>1, Zenon DEF ProducerInv
<1>3. ASSUME NEW p \in Producers, NEW q \in Producers,
             prod'[p].pc \in Waiting, prod'[q].pc \in Waiting, prod'[p].rec = prod'[q].rec
      PROVE  p = q
  <2>1. prod'[p] = prod[p] /\ prod'[q] = prod[q]
    BY <1>3, Zenon
  <2>2. prod[p].pc \in Waiting /\ prod[q].pc \in Waiting /\ prod[p].rec = prod[q].rec
    BY <1>3, <2>1, Zenon
  <2>. QED BY <2>2, Zenon DEF ProducerInv
<1>4. \A p \in Producers : prod'[p].pc \in Sent => prod'[p].rec \in Range(hist'.accepted)
  BY <1>1, Zenon DEF ProducerInv
<1>5. ASSUME NEW i \in DOMAIN queue', queue'[i].ack # "none"
      PROVE  prod'[queue'[i].ack].pc = "ack" /\ prod'[queue'[i].ack].rec = queue'[i].rec
  <2>1. CASE i \in DOMAIN queue /\ queue'[i] = queue[i]
    <3>1. prod[queue[i].ack].pc = "ack" /\ prod[queue[i].ack].rec = queue[i].rec
      BY <1>5, <2>1, Zenon DEF ProducerInv
    <3>2. queue[i].ack \in Producers
      BY <1>5, <2>1, QueueItems, Zenon
    <3>. QED BY <2>1, <3>1, <3>2, Zenon
  <2>2. CASE queue'[i] = [rec |-> r, ack |-> ack]
    <3>1. queue'[i].rec = r /\ queue'[i].ack = ack
      BY <2>2
    <3>. QED BY <1>5, <3>1, Zenon
  <2>. QED BY <1>1, <2>1, <2>2, Zenon
<1>. QED BY <1>2, <1>3, <1>4, <1>5, Zenon DEF ProducerInv

LEMMA AckEnqueued ==
  ASSUME ProducerInv, AckInv, NEW r, NEW ack, Enqueued(r, ack), r \notin Range(hist.accepted),
         files' = files, Mono,
         \A p \in Producers : prod'[p].pc = "acked" => prod'[p] = prod[p]
  PROVE  AckInv'
<1>1. /\ Range(hist'.accepted) = Range(hist.accepted) \cup {r}
      /\ hist'.committed = hist.committed
      /\ \A x : x # r /\ DurableUpTo(x) /\ files' = files => DurableUpTo(x)'
  BY Zenon DEF Enqueued
<1>2. ASSUME NEW p \in Producers, prod'[p].pc = "acked", ~failed' PROVE DurableUpTo(prod[p].rec)'
  <2>1. PICK x : x = prod[p].rec /\ x = prod'[p].rec
    BY <1>2, Zenon
  <2>2. prod[p].pc = "acked" /\ ~failed
    BY <1>2, Zenon DEF Mono
  <2>3. DurableUpTo(x) /\ x \in Range(hist.accepted)
    BY <2>1, <2>2, Zenon DEF AckInv, ProducerInv, Sent
  <2>4. DurableUpTo(x)'
    BY <1>1, <2>3, Zenon
  <2>. QED BY <2>1, <2>4, Zenon
<1>3. ASSUME FailClosed, NEW x \in hist'.committed PROVE DurableUpTo(x)'
  <2>1. DurableUpTo(x) /\ x \in Range(hist.accepted)
    BY <1>1, <1>3, Zenon DEF AckInv
  <2>. QED BY <1>1, <2>1, Zenon
<1>4. hist'.committed \subseteq Range(hist'.accepted)
  BY <1>1, Zenon DEF AckInv
<1>. QED BY <1>2, <1>3, <1>4, Zenon DEF AckInv

--------------------------------------------------------------------------------
(* Each action preserves the invariant.                                    *)

\* A producer that stays, leaves after the acknowledgement or on a fault, or
\* goes from the budget to the send.
Moves ==
  \A q \in Producers :
    \/ prod'[q] = prod[q]
    \/ prod'[q] = Idle /\ prod[q].pc # "ack" /\ (prod[q].pc \in Waiting => failed')
    \/ prod[q].pc = "budget" /\ prod'[q].pc = "send" /\ prod'[q].rec = prod[q].rec

\* The steps that take no record and accept none.
CalmStep ==
  /\ SinkInv' /\ FilesGrow /\ Len(files') = Len(files) /\ Adds({}) /\ Written' \subseteq Written
  /\ LogTyped' /\ Mono /\ queue' = queue /\ dropped' = dropped /\ Moves
  /\ hist'.accepted = hist.accepted /\ hist'.offered = hist.offered
  /\ hist'.before = hist.before /\ hist'.signalled \subseteq Range(hist.accepted)

LEMMA CalmKeeps ==
  ASSUME LogInv, CalmStep, Unpolled, AckInv', EndInv'
  PROVE  LogInv'
<1>. USE DEF LogInv, CalmStep
<1>1. OrderInv' /\ TakenRecs' = TakenRecs
  BY OrderKept, Zenon
<1>2. ProducerInv'
  BY ProducerKept, Zenon DEF Moves
<1>3. WrittenInv'
  <2>1. Written \subseteq Written'
    BY DurableGrows, Zenon
  <2>. QED BY <1>1, <2>1, WrittenKept, Zenon
<1>4. RotationInv'
  <2>1. hist'.signalled \subseteq Range(hist'.accepted) /\ TakenRecs \subseteq TakenRecs'
        /\ {} \cap TakenRecs = {}
    BY <1>1, Zenon
  <2>. QED BY <2>1, RotationKept, Zenon
<1>5. OfferInv'
  <2>1. \A q \in Producers : prod[q].pc \in Waiting =>
          failed' \/ (prod'[q].pc \in Waiting /\ prod'[q].rec = prod[q].rec)
    BY Zenon DEF Moves, Waiting
  <2>. QED BY <2>1, OfferKept, Zenon
<1>6. PolledInv'
  BY <1>1, PolledKept, Zenon
<1>. QED BY <1>1, <1>2, <1>3, <1>4, <1>5, <1>6, Zenon

\* The calm steps that leave the history of commits alone.
LEMMA CalmAck ==
  ASSUME LogInv, CalmStep, hist'.committed = hist.committed
  PROVE  AckInv' /\ Durable \subseteq Durable'
<1>1. Durable \subseteq Durable'
  BY DurableGrows, Zenon DEF LogInv, CalmStep
<1>2. \A q \in Producers : prod'[q].pc = "acked" => prod'[q] = prod[q]
  BY IdlePc DEF CalmStep, Moves
<1>. QED BY <1>1, <1>2, AckKept, Zenon DEF LogInv, CalmStep

LEMMA AcquireKeeps ==
  ASSUME LogInv, NEW p \in Producers, Acquire(p)
  PROVE  LogInv'
<1>. USE DEF LogInv
<1>1. /\ prod[p].pc = "budget"
      /\ \/ tx /\ prod' = [prod EXCEPT ![p].pc = "send"] /\ failed' = failed
         \/ ~tx /\ prod' = [prod EXCEPT ![p] = Idle] /\ failed' = TRUE
      /\ tx' = tx /\ queue' = queue /\ dropped' = dropped /\ writer' = writer /\ UNCHANGED sink
      /\ reopen' = reopen /\ closer' = closer /\ hist' = hist
  BY Zenon DEF Acquire
<1>2. /\ SinkInv' /\ FilesGrow /\ Len(files') = Len(files) /\ Adds({})
      /\ Written' = Written /\ Durable' = Durable
  BY <1>1, SinkUnchanged, Zenon
<1>3. prod[p] \in Busy
  <2>1. prod[p].pc # "idle"
    BY <1>1
  <2>. QED BY <2>1, BusyProd, Zenon
<1>4. prod \in [Producers -> {Idle} \cup Busy]
  BY Zenon DEF LogTyped
<1>5. /\ prod' \in [Producers -> {Idle} \cup Busy]
      /\ \A q \in Producers : q # p => prod'[q] = prod[q]
      /\ \/ tx /\ prod'[p].pc = "send" /\ prod'[p].rec = prod[p].rec
         \/ ~tx /\ failed' /\ prod'[p] = Idle
  <2>1. CASE tx /\ prod' = [prod EXCEPT ![p].pc = "send"]
    <3>. DEFINE b == [prod[p] EXCEPT !.pc = "send"]
    <3>1. b \in Busy /\ b.pc = "send" /\ b.rec = prod[p].rec
      BY <1>3 DEF Busy
    <3>2. prod' = [prod EXCEPT ![p] = b]
      BY <2>1, Zenon
    <3>. HIDE DEF b
    <3>. QED BY <1>4, <2>1, <3>1, <3>2, Zenon
  <2>2. CASE ~tx /\ prod' = [prod EXCEPT ![p] = Idle] /\ failed' = TRUE
    BY <1>4, <2>2, Zenon
  <2>. QED BY <1>1, <2>1, <2>2, Zenon
<1>6. Mono
  <2>1. failed' = failed \/ failed' = TRUE
    BY <1>1, Zenon
  <2>. QED BY <2>1, MonoStep, Zenon
<1>7. Moves
  <2>1. "budget" # "ack"
    OBVIOUS
  <2>. QED BY <1>1, <1>5, <2>1, Zenon DEF Moves
<1>8. LogTyped'
  BY <1>1, <1>5, <1>6, Zenon DEF LogTyped, Mono
<1>9. CalmStep
  <2>1. Written' \subseteq Written /\ hist'.signalled \subseteq Range(hist.accepted)
    BY <1>1, <1>2, Zenon DEF RotationInv
  <2>. QED BY <1>1, <1>2, <1>6, <1>7, <1>8, <2>1, Zenon DEF CalmStep
<1>10. AckInv' /\ Durable \subseteq Durable'
  BY <1>1, <1>9, CalmAck, Zenon
<1>11. EndInv'
  <2>1. writer = "done" => \A q \in Producers : prod'[q].pc \in {"idle", "budget"}
    <3>1. writer = "done" => ~tx /\ \A q \in Producers : prod[q].pc \in {"idle", "budget"}
      BY Zenon DEF EndInv
    <3>. QED BY <1>5, <3>1, IdlePc, Zenon
  <2>. QED BY <1>1, <1>6, <1>10, <2>1, EndKept, Zenon
<1>12. Unpolled
  BY <1>1, Zenon DEF Unpolled
<1>. QED BY <1>9, <1>10, <1>11, <1>12, CalmKeeps, Zenon

LEMMA ReturnKeeps ==
  ASSUME LogInv, NEW p \in Producers, Return(p)
  PROVE  LogInv'
<1>. USE DEF LogInv
<1>1. /\ prod[p].pc \in {"acked", "nacked"} /\ prod' = [prod EXCEPT ![p] = Idle]
      /\ failed' = (failed \/ prod[p].pc = "nacked")
      /\ hist' = IF Commits(p) THEN [hist EXCEPT !.committed = @ \cup {prod[p].rec}] ELSE hist
      /\ tx' = tx /\ queue' = queue /\ dropped' = dropped /\ writer' = writer /\ UNCHANGED sink
      /\ reopen' = reopen /\ closer' = closer
  BY Zenon DEF Return
<1>2. /\ SinkInv' /\ FilesGrow /\ Len(files') = Len(files) /\ Adds({})
      /\ Written' = Written /\ Durable' = Durable
  BY <1>1, SinkUnchanged, Zenon
<1>3. prod \in [Producers -> {Idle} \cup Busy] /\ hist \in Hist /\ failed \in BOOLEAN
  BY Zenon DEF LogTyped
<1>4. /\ prod' \in [Producers -> {Idle} \cup Busy] /\ prod'[p] = Idle
      /\ \A q \in Producers : q # p => prod'[q] = prod[q]
  BY <1>1, <1>3, Zenon
<1>5. Mono
  BY <1>1, <1>3, Zenon DEF Mono
<1>6. prod[p].pc # "ack" /\ prod[p].pc \notin Waiting /\ prod[p].pc \in Sent /\ prod[p].pc # "idle"
  BY <1>1 DEF Waiting, Sent
<1>7. prod[p].rec \in Records
  BY <1>6, BusyProd, Zenon
<1>8. PICK r : r = prod[p].rec
  BY Zenon
<1>9. /\ hist' \in Hist /\ hist'.accepted = hist.accepted /\ hist'.offered = hist.offered
      /\ hist'.before = hist.before /\ hist'.signalled = hist.signalled
      /\ hist'.committed = IF Commits(p) THEN hist.committed \cup {r} ELSE hist.committed
  <2>1. CASE Commits(p)
    <3>1. hist' = [hist EXCEPT !.committed = hist.committed \cup {r}]
      BY <1>1, <1>8, <2>1, Zenon
    <3>. QED BY <1>3, <1>7, <1>8, <2>1, <3>1, Zenon DEF Hist
  <2>2. CASE ~Commits(p)
    BY <1>1, <1>3, <2>2, Zenon
  <2>. QED BY <2>1, <2>2, Zenon
<1>10. LogTyped'
  BY <1>1, <1>4, <1>5, <1>9, Zenon DEF LogTyped, Mono
<1>11. CalmStep
  <2>1. Moves
    BY <1>4, <1>6, Zenon DEF Moves
  <2>2. Written' \subseteq Written /\ hist'.signalled \subseteq Range(hist.accepted)
    BY <1>2, <1>9, Zenon DEF RotationInv
  <2>. QED BY <1>1, <1>2, <1>5, <1>9, <1>10, <2>1, <2>2, Zenon DEF CalmStep
<1>12. EndInv'
  <2>1. writer = "done" => \A q \in Producers : prod'[q].pc \in {"idle", "budget"}
    BY <1>4, IdlePc, Zenon DEF EndInv
  <2>2. Durable \subseteq Durable'
    BY <1>2, Zenon
  <2>. QED BY <1>1, <1>5, <1>9, <2>1, <2>2, EndKept, Zenon
<1>13. AckInv'
  <2>1. CASE ~Commits(p)
    BY <1>9, <1>11, <2>1, CalmAck, Zenon
  <2>2. CASE Commits(p)
    <3>1. FailClosed => ~failed /\ prod[p].pc = "acked"
      BY <2>2, Zenon DEF Commits, Available
    <3>2. FailClosed => DurableUpTo(r)
      BY <1>8, <3>1, Zenon DEF AckInv
    <3>3. r \in Range(hist.accepted)
      BY <1>6, <1>8, Zenon DEF ProducerInv
    <3>4. Durable \subseteq Durable'
      BY <1>2, Zenon
    <3>5. FailClosed => \A x \in hist'.committed : DurableUpTo(x)'
      <4>. SUFFICES ASSUME FailClosed, NEW x \in hist'.committed PROVE DurableUpTo(x)'
        BY Zenon
      <4>1. DurableUpTo(x)
        BY <1>9, <2>2, <3>2, Zenon DEF AckInv
      <4>. QED BY <1>9, <3>4, <4>1, UpToKept, Zenon
    <3>6. hist'.committed \subseteq Range(hist'.accepted)
      BY <1>9, <2>2, <3>3, Zenon DEF AckInv
    <3>7. ASSUME NEW q \in Producers, prod'[q].pc = "acked", ~failed' PROVE DurableUpTo(prod[q].rec)'
      <4>1. q # p
        BY <1>4, <3>7, IdlePc
      <4>2. PICK x : x = prod[q].rec /\ x = prod'[q].rec /\ prod[q].pc = "acked"
        BY <1>4, <3>7, <4>1, Zenon
      <4>3. DurableUpTo(x)
        BY <1>5, <3>7, <4>2, Zenon DEF AckInv, Mono
      <4>4. DurableUpTo(x)'
        BY <1>9, <3>4, <4>3, UpToKept, Zenon
      <4>. QED BY <4>2, <4>4, Zenon
    <3>. QED BY <3>5, <3>6, <3>7, Zenon DEF AckInv
  <2>. QED BY <2>1, <2>2, Zenon
<1>14. Unpolled
  BY <1>1, <1>9, Zenon DEF Unpolled
<1>. QED BY <1>11, <1>12, <1>13, <1>14, CalmKeeps, Zenon

\* What a polled writer has not overlooked it has taken.
LEMMA NotOverlooked ==
  ASSUME LogTyped, OrderInv
  PROVE  Range(hist.accepted) \ Overlooked \subseteq TakenRecs
<1>1. ASSUME NEW n \in DOMAIN hist.accepted PROVE hist.accepted[n] \in Overlooked \cup TakenRecs
  <2>1. n \in 1..Taken \/ (n - Taken \in DOMAIN queue /\ Taken + (n - Taken) = n)
    BY TakenNat
  <2>2. CASE n \in 1..Taken
    BY <2>2, Zenon DEF TakenRecs
  <2>3. CASE n - Taken \in DOMAIN queue /\ Taken + (n - Taken) = n
    <3>1. queue[n - Taken].rec = hist.accepted[n]
      BY <2>3, Zenon DEF OrderInv
    <3>. QED BY <2>3, <3>1, Zenon DEF Overlooked
  <2>. QED BY <2>1, <2>2, <2>3, Zenon
<1>. QED BY <1>1, Zenon DEF Range

\* With an empty queue every accepted record has been taken.
LEMMA AllTaken ==
  ASSUME LogTyped, OrderInv, queue = <<>>
  PROVE  TakenRecs = Range(hist.accepted)
<1>1. Len(queue) = 0
  OBVIOUS
<1>2. Taken = Len(hist.accepted) /\ DOMAIN hist.accepted = 1..Len(hist.accepted)
  BY <1>1, TakenNat
<1>. QED BY <1>2, Zenon DEF TakenRecs, Range

\* The steps of the callers of reopen and shutdown, and of the rotator.
LEMMA CallersKeep ==
  ASSUME LogInv, Reopen \/ ReopenLost \/ Shutdown \/ ShutdownReturns \/ MoveAway
  PROVE  LogInv'
<1>. USE DEF LogInv
<1>1. /\ queue' = queue /\ prod' = prod /\ dropped' = dropped /\ files' = files
      /\ dir_synced' = dir_synced /\ events_since_flush' = events_since_flush /\ (tx' => tx)
  BY DEF Reopen, ReopenLost, Shutdown, ShutdownReturns, MoveAway, sink
<1>2. Mono
  <2>1. CASE Reopen
    BY <2>1, MonoStep, Zenon DEF Reopen
  <2>2. CASE ReopenLost
    BY <2>2, MonoStep, Zenon DEF ReopenLost
  <2>3. CASE Shutdown
    BY <2>3, MonoStep, Zenon DEF Shutdown
  <2>4. CASE ShutdownReturns
    BY <2>4, MonoStep, Zenon DEF ShutdownReturns
  <2>5. CASE MoveAway
    BY <2>5, MonoStep, Zenon DEF MoveAway
  <2>. QED BY <2>1, <2>2, <2>3, <2>4, <2>5, Zenon
<1>3. /\ SinkInv' /\ FilesGrow /\ Len(files') = Len(files) /\ Adds({})
      /\ Written' = Written /\ Durable' = Durable
  <2>1. CASE named' = named
    <3>1. UNCHANGED sink
      BY <1>1, <2>1 DEF sink
    <3>. QED BY <3>1, SinkUnchanged, Zenon
  <2>2. CASE named' = FALSE
    <3>1. Current' = Current /\ Written' = Written /\ Durable' = Durable
      BY <1>1, SameFiles, Zenon
    <3>2. SinkInv'
      BY <1>1, <2>2, <3>1, Zenon DEF SinkInv
    <3>3. Len(files) <= Len(files') /\ \A i \in 1..Len(files) : files[i] \in Sound
      BY <1>1, FilesSeq
    <3>4. FilesGrow
      BY <1>1, <3>3, ExtendsSelf, Zenon DEF FilesGrow, Keeps
    <3>. QED BY <1>1, <3>1, <3>2, <3>4, Zenon DEF Adds
  <2>3. named' = named \/ named' = FALSE
    BY DEF Reopen, ReopenLost, Shutdown, ShutdownReturns, MoveAway, sink
  <2>. QED BY <2>1, <2>2, <2>3, Zenon
<1>4. /\ hist' \in Hist /\ hist'.accepted = hist.accepted /\ hist'.offered = hist.offered
      /\ hist'.before = hist.before /\ hist'.committed = hist.committed
      /\ hist'.signalled \subseteq Range(hist.accepted)
  <2>1. hist \in Hist /\ hist.signalled \subseteq Range(hist.accepted)
    BY Zenon DEF LogTyped, RotationInv
  <2>2. CASE hist' = hist
    BY <2>1, <2>2, Zenon
  <2>3. ASSUME NEW S, S \subseteq Range(hist.accepted), hist' = [hist EXCEPT !.signalled = S]
        PROVE  /\ hist' \in Hist /\ hist'.accepted = hist.accepted /\ hist'.offered = hist.offered
               /\ hist'.before = hist.before /\ hist'.committed = hist.committed
               /\ hist'.signalled = S
    <3>1. S \in SUBSET Records
      BY <2>3, LogTypes, Zenon DEF OrderInv
    <3>. QED BY <2>1, <2>3, <3>1 DEF Hist
  <2>4. CASE Reopen
    <3>1. PICK S : S \subseteq Range(hist.accepted) /\ hist' = [hist EXCEPT !.signalled = S]
      <4>1. Range(hist.accepted) \ Overlooked \subseteq Range(hist.accepted)
        BY Zenon
      <4>. QED BY <2>4, <4>1, Zenon DEF Reopen
    <3>. QED BY <2>3, <3>1, Zenon
  <2>. QED BY <2>2, <2>4, Zenon DEF ReopenLost, Shutdown, ShutdownReturns, MoveAway
<1>5. tx' \in BOOLEAN /\ reopen' \in [pc : {"idle", "queued"}, count : 0..MaxReopens]
      /\ closer' \in {"none", "joining", "ok", "err"}
  <2>1. /\ tx \in BOOLEAN /\ reopen \in [pc : {"idle", "queued"}, count : 0..MaxReopens]
        /\ closer \in {"none", "joining", "ok", "err"}
    BY Zenon DEF LogTyped
  <2>2. CASE Reopen
    <3>1. /\ tx' = tx /\ closer' = closer /\ reopen.count < MaxReopens
          /\ reopen' = [pc |-> "queued", count |-> reopen.count + 1]
      BY <2>2, Zenon DEF Reopen
    <3>. QED BY <2>1, <3>1, BoundsTyped
  <2>3. CASE ReopenLost
    <3>1. tx' = tx /\ closer' = closer /\ reopen' = [reopen EXCEPT !.pc = "idle"]
      BY <2>3, Zenon DEF ReopenLost
    <3>. QED BY <2>1, <3>1
  <2>4. CASE Shutdown
    BY <2>1, <2>4, Zenon DEF Shutdown
  <2>5. CASE ShutdownReturns
    BY <2>1, <2>5, Zenon DEF ShutdownReturns
  <2>6. CASE MoveAway
    BY <2>1, <2>6, Zenon DEF MoveAway
  <2>. QED BY <2>2, <2>3, <2>4, <2>5, <2>6, Zenon
<1>6. (writer' = "done" <=> writer = "done") /\ writer' \in {"running", "polled", "done"}
  <2>1. writer \in {"running", "polled", "done"}
    BY Zenon DEF LogTyped
  <2>2. CASE Reopen
    <3>1. writer' = writer \/ writer' = (IF writer = "polled" THEN "running" ELSE writer)
      BY <2>2, Zenon DEF Reopen
    <3>. QED BY <2>1, <3>1
  <2>3. CASE writer' = writer
    BY <2>1, <2>3, Zenon
  <2>. QED BY <2>2, <2>3, Zenon DEF ReopenLost, Shutdown, ShutdownReturns, MoveAway
<1>7. Unpolled
  <2>1. CASE Reopen
    <3>1. CASE writer = "polled" /\ hist' = [hist EXCEPT !.signalled = Range(hist.accepted) \ Overlooked]
      <4>1. PICK S : S = Range(hist.accepted) \ Overlooked
        BY Zenon
      <4>2. hist'.signalled = S
        <5>1. hist \in Hist /\ hist' = [hist EXCEPT !.signalled = S]
          BY <3>1, <4>1, Zenon DEF LogTyped
        <5>. QED BY <5>1 DEF Hist
      <4>. QED BY <4>1, <4>2, NotOverlooked, Zenon DEF Unpolled
    <3>2. CASE writer' = (IF writer = "polled" THEN "running" ELSE writer)
      <4>1. writer' # "polled"
        BY <3>2
      <4>. QED BY <4>1, Zenon DEF Unpolled
    <3>. QED BY <2>1, <3>1, <3>2, Zenon DEF Reopen
  <2>2. CASE ReopenLost
    <3>1. writer' # "polled"
      BY <2>2 DEF ReopenLost
    <3>. QED BY <3>1, Zenon DEF Unpolled
  <2>3. CASE writer' = writer /\ reopen' = reopen /\ hist' = hist
    BY <2>3, Zenon DEF Unpolled
  <2>. QED BY <2>1, <2>2, <2>3, Zenon DEF Shutdown, ShutdownReturns, MoveAway
<1>8. LogTyped'
  BY <1>1, <1>2, <1>4, <1>5, <1>6, Zenon DEF LogTyped, Mono
<1>9. CalmStep
  <2>1. Moves
    BY <1>1, Zenon DEF Moves
  <2>2. Written' \subseteq Written
    BY <1>3, Zenon
  <2>. QED BY <1>1, <1>2, <1>3, <1>4, <1>8, <2>1, <2>2, Zenon DEF CalmStep
<1>10. AckInv' /\ Durable \subseteq Durable'
  BY <1>4, <1>9, CalmAck, Zenon
<1>11. EndInv'
  <2>1. writer = "done" => \A q \in Producers : prod'[q].pc \in {"idle", "budget"}
    BY <1>1, Zenon DEF EndInv
  <2>2. CASE closer' = closer
    BY <1>1, <1>2, <1>4, <1>10, <1>6, <2>1, <2>2, EndKept, Zenon
  <2>3. CASE closer' = "joining"
    <3>1. closer' \notin {"ok", "err"} /\ closer' # "ok"
      BY <2>3
    <3>2. writer' = "done" => /\ ~tx' /\ queue' = <<>>
                              /\ \A q \in Producers : prod'[q].pc \in {"idle", "budget"}
                              /\ ~failed' => Range(hist'.accepted) \subseteq Durable'
      BY <1>1, <1>2, <1>4, <1>10, <1>6, <2>1, Zenon DEF EndInv, Mono
    <3>. QED BY <3>1, <3>2, Zenon DEF EndInv, ShutdownComplete
  <2>4. CASE ShutdownReturns
    <3>1. writer = "done" /\ failed' = failed /\ closer' = IF FailClosed /\ failed THEN "err" ELSE "ok"
      BY <2>4, Zenon DEF ShutdownReturns
    <3>2. writer' = "done" => /\ ~tx' /\ queue' = <<>>
                              /\ \A q \in Producers : prod'[q].pc \in {"idle", "budget"}
                              /\ ~failed' => Range(hist'.accepted) \subseteq Durable'
      BY <1>1, <1>2, <1>4, <1>10, <1>6, <2>1, Zenon DEF EndInv, Mono
    <3>3. closer' = "ok" => ~(FailClosed /\ failed')
      BY <3>1
    <3>4. ShutdownComplete'
      BY <1>1, <1>6, <3>1, <3>2, <3>3, Zenon DEF ShutdownComplete
    <3>. QED BY <1>1, <1>6, <3>1, <3>2, <3>4, Zenon DEF EndInv
  <2>. QED BY <2>2, <2>3, <2>4, Zenon DEF Reopen, ReopenLost, Shutdown, ShutdownReturns, MoveAway
<1>. QED BY <1>9, <1>10, <1>11, <1>7, CalmKeeps, Zenon

\* The intervals, and the poll that finds no record.
LEMMA IntervalsKeep ==
  ASSUME LogInv, WriterFlushes \/ WriterSyncs \/ WriterPolls
  PROVE  LogInv'
<1>. USE DEF LogInv
<1>1. QuietDone
  <2>1. CASE WriterPolls
    <3>1. UNCHANGED sink /\ failed' = failed
      BY <2>1, Zenon DEF WriterPolls
    <3>. QED BY <3>1, SinkUnchanged, LogTypes, Zenon DEF QuietDone
  <2>. QED BY <2>1, FlushesEffects, SyncsEffects, Zenon
<1>2. /\ queue' = queue /\ prod' = prod /\ dropped' = dropped /\ tx' = tx
      /\ reopen' = reopen /\ closer' = closer /\ hist' = hist
      /\ \/ writer' = "running" \/ (writer' = "polled" /\ queue = <<>>)
      /\ writer \in {"running", "polled"}
  BY Zenon DEF WriterFlushes, WriterSyncs, WriterPolls, ArmsBelowRecords
<1>3. writer # "done" /\ writer' # "done" /\ writer' \in {"running", "polled", "done"}
  BY <1>2
<1>4. Unpolled
  <2>1. CASE writer' = "running"
    <3>1. writer' # "polled"
      BY <2>1
    <3>. QED BY <3>1, Zenon DEF Unpolled
  <2>2. CASE queue = <<>>
    BY <1>2, <2>2, AllTaken, Zenon DEF Unpolled, RotationInv
  <2>. QED BY <1>2, <2>1, <2>2, Zenon
<1>5. Mono
  BY <1>1, Zenon DEF QuietDone, Mono
<1>6. LogTyped'
  BY <1>2, <1>5, <1>3, Zenon DEF LogTyped, Mono
<1>7. CalmStep
  <2>1. Moves /\ hist'.signalled \subseteq Range(hist.accepted)
    BY <1>2, Zenon DEF Moves, RotationInv
  <2>. QED BY <1>1, <1>2, <1>5, <1>6, <2>1, Zenon DEF CalmStep, QuietDone
<1>8. AckInv' /\ Durable \subseteq Durable'
  BY <1>2, <1>7, CalmAck, Zenon
<1>9. EndInv'
  BY <1>2, <1>3, EndRunning, Zenon
<1>. QED BY <1>7, <1>8, <1>9, <1>4, CalmKeeps, Zenon

LEMMA EndsKeeps ==
  ASSUME LogInv, WriterEnds
  PROVE  LogInv'
<1>. USE DEF LogInv
<1>1. QuietDone /\ (~failed' => Settled(Current'))
  BY EndsEffects, Zenon
<1>2. /\ writer \in {"running", "polled"} /\ queue = <<>> /\ ChannelClosed /\ writer' = "done"
      /\ queue' = queue /\ prod' = prod /\ dropped' = dropped /\ tx' = tx
      /\ reopen' = reopen /\ closer' = closer /\ hist' = hist
  BY Zenon DEF WriterEnds, PollsRecords
<1>3. Unpolled
  <2>1. writer' # "polled"
    BY <1>2
  <2>. QED BY <2>1, Zenon DEF Unpolled
<1>4. Mono
  BY <1>1, Zenon DEF QuietDone, Mono
<1>5. LogTyped'
  BY <1>2, <1>4, Zenon DEF LogTyped, Mono
<1>6. CalmStep
  <2>1. Moves /\ hist'.signalled \subseteq Range(hist.accepted)
    BY <1>2, Zenon DEF Moves, RotationInv
  <2>. QED BY <1>1, <1>2, <1>4, <1>5, <2>1, Zenon DEF CalmStep, QuietDone
<1>7. AckInv' /\ Durable \subseteq Durable'
  BY <1>2, <1>6, CalmAck, Zenon
<1>8. ASSUME ~failed' PROVE Range(hist'.accepted) \subseteq Durable'
  <2>1. Written' \subseteq Durable'
    BY <1>1, <1>8, AllSettled, Zenon DEF QuietDone
  <2>2. Written \subseteq Written'
    BY <1>1, DurableGrows, Zenon DEF QuietDone
  <2>3. TakenRecs \subseteq Written
    BY <1>4, <1>8, Zenon DEF WrittenInv, Mono
  <2>. QED BY <1>2, <2>1, <2>2, <2>3, AllTaken, Zenon
<1>9. EndInv'
  <2>1. ~tx /\ \A q \in Producers : prod[q].pc \in {"idle", "budget"}
    BY <1>2, Zenon DEF ChannelClosed
  <2>2. closer \notin {"ok", "err"}
    BY <1>2 DEF EndInv
  <2>3. closer' # "ok"
    BY <1>2, <2>2
  <2>. QED BY <1>2, <1>8, <2>1, <2>3, Zenon DEF EndInv, ShutdownComplete
<1>. QED BY <1>6, <1>7, <1>9, <1>3, CalmKeeps, Zenon

LEMMA ReopensKeeps ==
  ASSUME LogInv, WriterReopens
  PROVE  LogInv'
<1>. USE DEF LogInv
<1>1. ReopenDone
  BY ReopensEffects, Zenon
<1>2. /\ writer = "polled" /\ reopen.pc = "queued" /\ reopen' = [reopen EXCEPT !.pc = "idle"]
      /\ tx' = tx /\ queue' = queue /\ prod' = prod /\ dropped' = dropped /\ writer' = "running"
      /\ closer' = closer
  BY Zenon DEF WriterReopens
<1>3. writer # "done" /\ writer' # "done" /\ writer' # "polled"
  BY <1>2
<1>4. Mono /\ SinkInv' /\ FilesGrow
  BY <1>1, Zenon DEF ReopenDone, Mono
<1>5. hist \in Hist /\ hist.signalled \subseteq Range(hist.accepted)
  BY Zenon DEF LogTyped, RotationInv
<1>6. /\ hist' \in Hist /\ hist'.accepted = hist.accepted /\ hist'.offered = hist.offered
      /\ hist'.committed = hist.committed /\ hist'.signalled = hist.signalled
      /\ \/ Len(files') = Len(files) /\ hist'.before = hist.before
         \/ Len(files') = Len(files) + 1 /\ hist'.before = Append(hist.before, hist.signalled)
  <2>1. CASE hist' = hist /\ Len(files') = Len(files)
    BY <1>5, <2>1, Zenon
  <2>2. CASE /\ hist' = [hist EXCEPT !.before = Append(@, hist.signalled)]
             /\ Len(files') = Len(files) + 1
    <3>1. hist.before \in Seq(SUBSET Records) /\ hist.signalled \in SUBSET Records
      BY <1>5 DEF Hist
    <3>2. PICK B : B = Append(hist.before, hist.signalled)
      BY Zenon
    <3>3. B \in Seq(SUBSET Records)
      BY <3>1, <3>2
    <3>4. hist' = [hist EXCEPT !.before = B]
      BY <2>2, <3>2, Zenon
    <3>5. /\ hist' \in Hist /\ hist'.accepted = hist.accepted /\ hist'.offered = hist.offered
          /\ hist'.committed = hist.committed /\ hist'.signalled = hist.signalled
          /\ hist'.before = B
      BY <1>5, <3>3, <3>4, Zenon DEF Hist
    <3>. QED BY <2>2, <3>2, <3>5, Zenon
  <2>. QED BY <1>1, <2>1, <2>2, Zenon DEF ReopenDone
<1>7. reopen' \in [pc : {"idle", "queued"}, count : 0..MaxReopens]
  <2>1. reopen \in [pc : {"idle", "queued"}, count : 0..MaxReopens]
    BY Zenon DEF LogTyped
  <2>. QED BY <1>2, <2>1
<1>8. LogTyped'
  <2>1. writer' \in {"running", "polled", "done"}
    BY <1>2
  <2>. QED BY <1>2, <1>4, <1>6, <1>7, <2>1, Zenon DEF LogTyped, Mono
<1>9. OrderInv' /\ TakenRecs' = TakenRecs
  BY <1>2, <1>6, OrderKept, Zenon
<1>10. Durable \subseteq Durable' /\ Written \subseteq Written'
  BY <1>4, DurableGrows, Zenon
<1>11. ProducerInv'
  BY <1>2, <1>6, ProducerKept, Zenon
<1>12. WrittenInv'
  BY <1>1, <1>4, <1>9, <1>10, WrittenKept, Zenon DEF ReopenDone
<1>13. AckInv'
  BY <1>2, <1>4, <1>6, <1>10, AckKept, Zenon
<1>14. EndInv'
  BY <1>2, <1>3, EndRunning, Zenon
<1>15. OfferInv'
  BY <1>2, <1>4, <1>6, OfferKept, Zenon
<1>16. hist.signalled \subseteq TakenRecs
  BY <1>2, Zenon DEF PolledInv
<1>17. RotationInv'
  <2>1. CASE Len(files') = Len(files) /\ hist'.before = hist.before
    <3>1. {Marker} \cap TakenRecs = {}
      <4>1. TakenRecs \subseteq Records
        BY TakenNat, LogTypes, Zenon DEF OrderInv
      <4>. QED BY <4>1, RecordsTyped, Zenon
    <3>2. hist'.signalled \subseteq Range(hist'.accepted) /\ TakenRecs \subseteq TakenRecs'
      BY <1>5, <1>6, <1>9, Zenon
    <3>3. Adds({Marker})
      BY <1>1, Zenon DEF ReopenDone
    <3>. QED BY <1>4, <2>1, <3>1, <3>2, <3>3, RotationKept, Zenon
  <2>2. CASE Len(files') = Len(files) + 1 /\ hist'.before = Append(hist.before, hist.signalled)
    <3>. DEFINE B == hist.before
                n == Len(files)
    <3>1. B \in Seq(SUBSET Records) /\ Len(B) = n /\ n \in Nat \ {0}
      BY LogTypes, FilesSeq, Zenon DEF RotationInv
    <3>2. hist.signalled \in SUBSET Records
      BY <1>5 DEF Hist
    <3>3. /\ Len(hist'.before) = n + 1 /\ DOMAIN hist'.before = 1..(n + 1)
          /\ hist'.before[n + 1] = hist.signalled /\ DOMAIN B = 1..n
          /\ \A k \in 1..n : hist'.before[k] = B[k]
      BY <2>2, <3>1, <3>2
    <3>. HIDE DEF B
    <3>4. 1..(n + 1) = 1..n \cup {n + 1} /\ 2..(n + 1) = 2..n \cup {n + 1} /\ 2..n \subseteq 1..n
      BY <3>1
    <3>5. \A k \in DOMAIN hist'.before : hist'.before[k] \subseteq TakenRecs'
      BY <1>9, <1>16, <3>3, <3>4, Zenon DEF RotationInv, B
    <3>6. ASSUME NEW k \in 2..(n + 1)
          PROVE  /\ Range(files'[k].recs) \cap hist'.before[k] = {}
                 /\ failed' \/ (files'[k].recs # <<>> /\ files'[k].recs[1] = Marker)
      <4>1. CASE k = n + 1
        <5>1. /\ Range(files'[k].recs) \subseteq {Marker}
              /\ failed' \/ (files'[k].recs # <<>> /\ files'[k].recs[1] = Marker)
          <6>1. Len(files') # Len(files)
            BY <2>2, <3>1
          <6>. QED BY <1>1, <2>2, <4>1, <6>1, Zenon DEF ReopenDone
        <5>2. Marker \notin hist'.before[k]
          BY <3>2, <3>3, <4>1, RecordsTyped, Zenon
        <5>. QED BY <5>1, <5>2, Zenon
      <4>2. CASE k \in 2..n
        <5>1. k \in 1..n /\ hist'.before[k] = hist.before[k]
          BY <3>3, <3>4, <4>2, Zenon DEF B
        <5>2. /\ Range(files[k].recs) \cap hist.before[k] = {}
              /\ failed \/ (files[k].recs # <<>> /\ files[k].recs[1] = Marker)
          BY <4>2, Zenon DEF RotationInv, RotationSplits
        <5>3. Range(files'[k].recs) \subseteq Range(files[k].recs) \cup {Marker}
          BY <1>1, <5>1, Zenon DEF ReopenDone, Adds
        <5>4. files[k].recs # <<>> => files'[k].recs # <<>> /\ files'[k].recs[1] = files[k].recs[1]
          BY <1>4, <5>1, ExtendsRange, Zenon DEF FilesGrow
        <5>5. Marker \notin hist.before[k]
          <6>1. hist.before[k] \in SUBSET Records
            BY <3>1, <5>1 DEF B
          <6>. QED BY <6>1, RecordsTyped, Zenon
        <5>. QED BY <1>4, <5>1, <5>2, <5>3, <5>4, <5>5, Zenon DEF Mono
      <4>. QED BY <3>4, <3>6, <4>1, <4>2, Zenon
    <3>7. RotationSplits'
      BY <2>2, <3>6, Zenon DEF RotationSplits
    <3>. QED BY <1>5, <1>6, <2>2, <3>3, <3>5, <3>7, Zenon DEF RotationInv
  <2>. QED BY <1>6, <2>1, <2>2, Zenon
<1>18. PolledInv'
  BY <1>3, Zenon DEF PolledInv
<1>. QED BY <1>4, <1>8, <1>9, <1>11, <1>12, <1>13, <1>14, <1>15, <1>17, <1>18, Zenon

LEMMA RecordKeeps ==
  ASSUME LogInv, WriterRecord
  PROVE  LogInv'
<1>. USE DEF LogInv
<1>1. PICK ok \in BOOLEAN : RecordDone(ok)
  BY RecordEffects, Zenon
<1>2. /\ writer \in {"running", "polled"} /\ queue # <<>> /\ queue' = Tail(queue) /\ tx' = tx
      /\ writer' = "running" /\ reopen' = reopen /\ closer' = closer /\ hist' = hist
      /\ dropped' = dropped
  BY Zenon DEF WriterRecord, PollsRecords
<1>3. /\ writer # "done" /\ writer' # "done" /\ writer' # "polled"
       /\ writer' \in {"running", "polled", "done"}
  BY <1>2
<1>4. Dequeued
  BY <1>2, DequeueEffects, Zenon
<1>5. PICK r : r = Head(queue).rec
  BY Zenon
<1>6. PICK ack : ack = Head(queue).ack
  BY Zenon
<1>7. /\ SinkInv' /\ FilesGrow /\ Len(files') = Len(files) /\ Adds({r})
      /\ Written' \subseteq Written \cup {r} /\ (r \in Written' \/ failed') /\ Mono
      /\ (~ok => failed') /\ prod' = Acked(ack, ok) /\ (ok /\ ack # "none" => Settled(Current'))
  BY <1>1, <1>5, <1>6, Zenon DEF RecordDone, Mono
<1>8. /\ queue' \in Seq(Item) /\ Len(queue') <= Len(queue) /\ Head(queue) = queue[1]
      /\ 1 \in DOMAIN queue /\ Head(queue) \in Item
      /\ OrderInv' /\ TakenRecs' = TakenRecs \cup {r} /\ r \in Range(hist.accepted) \ TakenRecs
      /\ \A i \in DOMAIN queue' : /\ \E j \in DOMAIN queue : queue'[i] = queue[j]
                                  /\ queue'[i].rec # r
      /\ TakenRecs' \subseteq Durable' => DurableUpTo(r)'
  BY <1>4, <1>5, Zenon DEF Dequeued
<1>9. ack # "none" => ack \in Producers /\ prod[ack].pc = "ack" /\ prod[ack].rec = r
  <2>1. ack # "none" => ack \in Producers
    BY <1>6, <1>8 DEF Item
  <2>. QED BY <1>5, <1>6, <1>8, <2>1, Zenon DEF ProducerInv
<1>10. prod \in [Producers -> {Idle} \cup Busy]
  BY Zenon DEF LogTyped
<1>11. /\ prod' \in [Producers -> {Idle} \cup Busy]
       /\ \A q \in Producers : \/ prod'[q] = prod[q]
                               \/ /\ q = ack /\ ack # "none" /\ prod'[q].rec = r
                                  /\ prod'[q].pc = IF ok THEN "acked" ELSE "nacked"
       /\ \A q \in Producers : q # ack => prod'[q] = prod[q]
  <2>1. CASE ack = "none"
    <3>1. prod' = prod
      BY <1>7, <2>1, AckedNone, Zenon
    <3>. QED BY <1>10, <3>1, Zenon
  <2>2. CASE ack # "none"
    <3>. DEFINE new == IF ok THEN "acked" ELSE "nacked"
                b == [prod[ack] EXCEPT !.pc = new]
    <3>1. prod[ack] \in Busy
      <4>1. ack \in Producers /\ prod[ack].pc # "idle"
        BY <1>9, <2>2
      <4>. QED BY <4>1, BusyProd, Zenon
    <3>2. new \in {"acked", "nacked"}
      OBVIOUS
    <3>. HIDE DEF new
    <3>3. b \in Busy /\ b.pc = new /\ b.rec = prod[ack].rec
      BY <3>1, <3>2 DEF Busy
    <3>4. prod' = [prod EXCEPT ![ack] = b]
      <4>1. prod' = Acked(ack, ok)
        BY <1>7, Zenon
      <4>. QED BY <2>2, <4>1, AckedSome, Zenon DEF new
    <3>. HIDE DEF b
    <3>5. prod'[ack] = b /\ \A q \in Producers : q # ack => prod'[q] = prod[q]
      BY <1>9, <1>10, <2>2, <3>4, Zenon
    <3>6. prod' \in [Producers -> {Idle} \cup Busy]
      BY <1>9, <1>10, <2>2, <3>3, <3>4, Zenon
    <3>. QED BY <1>9, <2>2, <3>3, <3>5, <3>6, Zenon DEF new
  <2>. QED BY <2>1, <2>2, Zenon
<1>12. ~("acked" \in Waiting) /\ ~("nacked" \in Waiting) /\ "ack" \in Sent /\ "ack" \notin Waiting
  BY DEF Waiting, Sent
<1>13. LogTyped'
  <2>1. Len(queue') <= Capacity
    <3>1. Len(queue) <= Capacity /\ Len(queue) \in Nat /\ Len(queue') \in Nat
      <4>1. queue \in Seq(Item) /\ queue' \in Seq(Item) /\ Len(queue) <= Capacity
        BY <1>8, Zenon DEF LogTyped
      <4>. QED BY <4>1
    <3>. QED BY <1>8, <3>1, BoundsTyped
  <2>. QED BY <1>2, <1>7, <1>8, <1>11, <2>1, Zenon DEF LogTyped, Mono
<1>14. ProducerInv'
  <2>1. \A q \in Producers : prod'[q].pc \in Waiting => prod'[q] = prod[q]
    BY <1>11, <1>12, Zenon
  <2>2. \A q \in Producers : prod'[q].pc \in Sent => prod'[q].rec \in Range(hist'.accepted)
    BY <1>2, <1>8, <1>11, Zenon DEF ProducerInv
  <2>3. ASSUME NEW i \in DOMAIN queue', queue'[i].ack # "none"
        PROVE  prod'[queue'[i].ack].pc = "ack" /\ prod'[queue'[i].ack].rec = queue'[i].rec
    <3>1. PICK j \in DOMAIN queue : queue'[i] = queue[j]
      BY <1>8, Zenon
    <3>2. prod[queue[j].ack].pc = "ack" /\ prod[queue[j].ack].rec = queue[j].rec
      BY <2>3, <3>1, Zenon DEF ProducerInv
    <3>3. queue[j].ack \in Producers
      BY <2>3, <3>1, QueueItems, Zenon
    <3>4. queue[j].ack # ack
      BY <1>8, <1>9, <2>3, <3>1, <3>2, Zenon
    <3>. QED BY <1>11, <3>1, <3>2, <3>3, <3>4, Zenon
  <2>4. FailClosed \/ \A q \in Producers : prod'[q] = Idle
    <3>1. ~FailClosed => ack = "none"
      <4>1. Idle.pc # "ack"
        BY DEF Idle
      <4>. QED BY <1>9, <4>1, Zenon DEF ProducerInv
    <3>. QED BY <1>11, <3>1, Zenon DEF ProducerInv
  <2>5. /\ \A q \in Producers : prod'[q].pc \in Waiting =>
             prod'[q].rec \in hist'.offered \ Range(hist'.accepted)
        /\ \A q, s \in Producers :
             prod'[q].pc \in Waiting /\ prod'[s].pc \in Waiting /\ prod'[q].rec = prod'[s].rec => q = s
    BY <1>2, <2>1, Zenon DEF ProducerInv
  <2>. QED BY <2>2, <2>3, <2>4, <2>5, Zenon DEF ProducerInv
<1>15. Durable \subseteq Durable' /\ Written \subseteq Written'
  BY <1>7, DurableGrows, Zenon
<1>16. WrittenInv'
  BY <1>7, <1>8, <1>15, Zenon DEF WrittenInv, Mono
<1>17. AckInv'
  <2>1. ASSUME NEW q \in Producers, prod'[q].pc = "acked", ~failed' PROVE DurableUpTo(prod[q].rec)'
    <3>1. CASE prod'[q] = prod[q]
      <4>1. PICK x : x = prod[q].rec /\ x = prod'[q].rec
        BY <3>1, Zenon
      <4>2. DurableUpTo(x)
        BY <1>7, <2>1, <3>1, <4>1, Zenon DEF AckInv, Mono
      <4>3. DurableUpTo(x)'
        BY <1>2, <1>15, <4>2, UpToKept, Zenon
      <4>. QED BY <4>1, <4>3, Zenon
    <3>2. CASE q = ack /\ ack # "none" /\ prod'[q].rec = r
      <4>1. ok
        BY <1>7, <2>1, Zenon
      <4>2. Written' \subseteq Durable'
        <5>1. SinkInv' /\ Settled(Current')
          BY <1>7, <3>2, <4>1, Zenon
        <5>. QED BY <5>1, AllSettled, Zenon
      <4>3. TakenRecs' \subseteq Durable'
        BY <1>16, <2>1, <4>2, Zenon DEF WrittenInv
      <4>4. DurableUpTo(r)'
        BY <1>8, <4>3, Zenon
      <4>. QED BY <3>2, <4>4, Zenon
    <3>. QED BY <1>11, <3>1, <3>2, Zenon
  <2>2. FailClosed => \A x \in hist'.committed : DurableUpTo(x)'
    BY <1>2, <1>15, UpToKept, Zenon DEF AckInv
  <2>3. hist'.committed \subseteq Range(hist'.accepted)
    BY <1>2, Zenon DEF AckInv
  <2>. QED BY <2>1, <2>2, <2>3, Zenon DEF AckInv
<1>18. EndInv'
  BY <1>2, <1>3, EndRunning, Zenon
<1>19. PolledInv'
  BY <1>3, Zenon DEF PolledInv
<1>20. RotationInv'
  <2>1. /\ hist'.before = hist.before /\ hist'.signalled \subseteq Range(hist'.accepted)
        /\ TakenRecs \subseteq TakenRecs' /\ {r} \cap TakenRecs = {}
    BY <1>2, <1>8, Zenon DEF RotationInv
  <2>. QED BY <1>7, <2>1, RotationKept, Zenon
<1>21. OfferInv'
  <2>1. \A q \in Producers : prod[q].pc \in Waiting => prod'[q] = prod[q]
    BY <1>9, <1>11, <1>12, Zenon
  <2>. QED BY <1>2, <1>7, <2>1, OfferKept, Zenon
<1>. QED BY <1>7, <1>8, <1>13, <1>14, <1>16, <1>17, <1>18, <1>20, <1>21, <1>19, Zenon

--------------------------------------------------------------------------------
(* The steps that offer a record, which count the ones not accepted.       *)

\* What is used of the sizes of sets of records.
Counting ==
  /\ Cardinality({}) = 0
  /\ \A S \in SUBSET Records : Cardinality(S) \in Nat /\ Cardinality(S) <= Cardinality(Records)
  /\ \A S \in SUBSET Records : \A r \in Records \ S :
       Cardinality(S \cup {r}) = Cardinality(S) + 1

LEMMA CardAdd ==
  ASSUME Counting, NEW S \in SUBSET Records, NEW r \in Records, r \notin S
  PROVE  Cardinality(S) \in Nat /\ Cardinality(S \cup {r}) = Cardinality(S) + 1
  BY Zenon DEF Counting

LEMMA OfferEnqueued ==
  ASSUME Counting, LogTyped, OrderInv, OfferInv, NEW r \in Records, NEW ack, Enqueued(r, ack),
         dropped' = dropped, failed' = failed, FailClosed \/ r \notin hist.offered,
         \A p \in Producers : prod[p].pc \in Waiting /\ prod[p].rec # r => prod'[p] = prod[p]
  PROVE  OfferInv'
<1>1. /\ Range(hist'.accepted) = Range(hist.accepted) \cup {r}
      /\ hist'.offered = hist.offered \cup {r}
  BY Zenon DEF Enqueued
<1>2. dropped' <= Cardinality(hist'.offered)
  <2>1. hist.offered \in SUBSET Records /\ dropped \in Nat
    BY LogTypes, Zenon DEF LogTyped
  <2>2. CASE r \in hist.offered
    <3>1. hist'.offered = hist.offered
      BY <1>1, <2>2, Zenon
    <3>. QED BY <3>1, Zenon DEF OfferInv
  <2>3. CASE r \notin hist.offered
    <3>1. /\ Cardinality(hist.offered) \in Nat
          /\ Cardinality(hist'.offered) = Cardinality(hist.offered) + 1
      BY <1>1, <2>1, <2>3, CardAdd, Zenon
    <3>2. dropped <= Cardinality(hist.offered)
      BY Zenon DEF OfferInv
    <3>. QED BY <2>1, <3>1, <3>2
  <2>. QED BY <2>2, <2>3, Zenon
<1>3. hist'.offered \ Range(hist'.accepted) = (hist.offered \ Range(hist.accepted)) \ {r}
  BY <1>1, Zenon
<1>4. ASSUME FailClosed, ~failed', NEW x \in hist'.offered \ Range(hist'.accepted)
      PROVE  \E p \in Producers : prod'[p].pc \in Waiting /\ prod'[p].rec = x
  <2>1. x \in hist.offered \ Range(hist.accepted) /\ x # r
    BY <1>3, <1>4, Zenon
  <2>2. PICK p \in Producers : prod[p].pc \in Waiting /\ prod[p].rec = x
    BY <1>4, <2>1, Zenon DEF OfferInv
  <2>. QED BY <2>1, <2>2, Zenon
<1>5. ~FailClosed /\ ~failed' => Cardinality(hist'.offered \ Range(hist'.accepted)) = dropped'
  <2>1. ~FailClosed => hist'.offered \ Range(hist'.accepted) = hist.offered \ Range(hist.accepted)
    BY <1>3, Zenon
  <2>. QED BY <2>1, Zenon DEF OfferInv
<1>. QED BY <1>2, <1>4, <1>5, Zenon DEF OfferInv

LEMMA LogKeeps ==
  ASSUME Counting, LogInv, NEW p \in Producers, NEW r \in Records, Log(p, r)
  PROVE  LogInv'
<1>. USE DEF LogInv
<1>1. /\ r \notin hist.offered /\ prod' = prod /\ tx' = tx /\ writer' = writer
      /\ UNCHANGED sink /\ reopen' = reopen /\ closer' = closer
  BY Zenon DEF Log
<1>2. r \notin Range(hist.accepted)
  BY <1>1, Zenon DEF OrderInv
<1>3. /\ SinkInv' /\ FilesGrow /\ Len(files') = Len(files) /\ Adds({})
      /\ Written' = Written /\ Durable' = Durable /\ files' = files
  BY <1>1, SinkUnchanged, Zenon
<1>4. CASE tx /\ HasRoom /\ Enqueue(r, "none") /\ UNCHANGED <<failed, dropped>>
  <2>1. Enqueued(r, "none")
    BY <1>2, <1>4, EnqueueEffects, Zenon
  <2>2. failed' = failed /\ dropped' = dropped /\ Mono
    BY <1>4, LogTypes, Zenon DEF Mono
  <2>3. Len(queue') <= Capacity
    <3>1. Len(queue) \in Nat /\ Len(queue') = Len(queue) + 1
      BY <2>1, TakenNat, Zenon DEF Enqueued
    <3>. QED BY <1>4, <3>1, BoundsTyped DEF HasRoom
  <2>4. LogTyped'
    BY <1>1, <2>1, <2>2, <2>3, Zenon DEF LogTyped, Enqueued
  <2>5. \A q \in Producers : prod[q].pc \in Waiting => prod[q].rec # r
    BY <1>1, Zenon DEF ProducerInv
  <2>6. ProducerInv'
    <3>1. FailClosed \/ \A q \in Producers : prod'[q] = Idle
      BY <1>1, Zenon DEF ProducerInv
    <3>2. \A q \in Producers : prod'[q] = prod[q]
      BY <1>1, Zenon
    <3>. QED BY <2>1, <2>5, <3>1, <3>2, ProducerEnqueued, Zenon
  <2>7. AckInv'
    BY <1>1, <1>2, <1>3, <2>1, <2>2, AckEnqueued, Zenon
  <2>8. EndInv'
    <3>1. writer # "done"
      BY <1>4, Zenon DEF EndInv
    <3>. QED BY <1>1, <3>1, EndRunning, Zenon
  <2>9. RotationInv'
    <3>1. hist'.before = hist.before /\ hist'.signalled \subseteq Range(hist'.accepted)
          /\ TakenRecs \subseteq TakenRecs' /\ {} \cap TakenRecs = {}
      BY <2>1, Zenon DEF Enqueued, RotationInv
    <3>. QED BY <1>3, <2>2, <3>1, RotationKept, Zenon
  <2>10. OfferInv'
    BY <1>1, <2>1, <2>2, OfferEnqueued, Zenon
  <2>11. WrittenInv'
    BY <1>3, <2>1, <2>2, WrittenKept, Zenon DEF Enqueued
  <2>12. PolledInv'
    BY <1>1, <2>1, PolledKept, Zenon DEF Enqueued, Unpolled
  <2>. QED BY <1>3, <2>1, <2>4, <2>6, <2>7, <2>8, <2>9, <2>10, <2>11, <2>12, Zenon DEF Enqueued
<1>5. CASE /\ Offer(r) /\ queue' = queue /\ failed' \in BOOLEAN /\ (failed => failed')
           /\ \/ failed' /\ dropped' = dropped
              \/ dropped' = dropped + 1 /\ failed' = (failed \/ FailClosed)
  <2>1. Offered(r)
    BY <1>5, OfferEffects, Zenon
  <2>2. Mono /\ hist'.accepted = hist.accepted /\ hist.offered \subseteq hist'.offered
    BY <1>5, <2>1, Zenon DEF Mono, Offered
  <2>3. hist.offered \in SUBSET Records /\ dropped \in Nat
    BY LogTypes, Zenon DEF LogTyped
  <2>4. /\ Cardinality(hist.offered) \in Nat /\ dropped <= Cardinality(hist.offered)
        /\ Cardinality(hist'.offered) = Cardinality(hist.offered) + 1
    BY <1>1, <2>1, <2>3, CardAdd, Zenon DEF Offered, OfferInv
  <2>5. dropped' \in Nat /\ dropped' <= Cardinality(hist'.offered)
    BY <1>5, <2>3, <2>4
  <2>6. LogTyped'
    BY <1>1, <1>5, <2>1, <2>5, Zenon DEF LogTyped, Offered
  <2>7. OrderInv' /\ TakenRecs' = TakenRecs
    BY <1>5, <2>2, OrderKept, Zenon
  <2>8. ProducerInv'
    BY <1>1, <1>5, <2>1, ProducerOffered, Zenon
  <2>9. WrittenInv'
    BY <1>3, <2>2, <2>7, WrittenKept, Zenon
  <2>10. AckInv'
    BY <1>1, <1>3, <2>1, <2>2, AckKept, Zenon DEF Offered
  <2>11. EndInv'
    <3>1. writer = "done" => \A q \in Producers : prod'[q].pc \in {"idle", "budget"}
      BY <1>1, Zenon DEF EndInv
    <3>. QED BY <1>1, <1>3, <1>5, <2>2, <3>1, EndKept, Zenon
  <2>12. RotationInv'
    <3>1. hist'.before = hist.before /\ hist'.signalled \subseteq Range(hist'.accepted)
          /\ TakenRecs \subseteq TakenRecs' /\ {} \cap TakenRecs = {}
      BY <2>1, <2>7, Zenon DEF Offered, RotationInv
    <3>. QED BY <1>3, <2>2, <3>1, RotationKept, Zenon
  <2>13. OfferInv'
    <3>1. FailClosed => failed'
      BY <1>5, Zenon
    <3>2. ASSUME ~FailClosed, ~failed'
          PROVE  Cardinality(hist'.offered \ Range(hist'.accepted)) = dropped'
      <4>1. dropped' = dropped + 1 /\ ~failed
        BY <1>5, <3>2, Zenon
      <4>2. hist'.offered \ Range(hist'.accepted) = (hist.offered \ Range(hist.accepted)) \cup {r}
        BY <1>2, <2>1, Zenon DEF Offered
      <4>3. hist.offered \ Range(hist.accepted) \in SUBSET Records
            /\ r \notin hist.offered \ Range(hist.accepted)
        BY <1>1, <2>3, Zenon
      <4>4. Cardinality(hist'.offered \ Range(hist'.accepted))
              = Cardinality(hist.offered \ Range(hist.accepted)) + 1
        BY <4>2, <4>3, CardAdd, Zenon
      <4>5. Cardinality(hist.offered \ Range(hist.accepted)) = dropped
        BY <3>2, <4>1, Zenon DEF OfferInv
      <4>. QED BY <4>1, <4>4, <4>5, Zenon
    <3>. QED BY <2>5, <3>1, <3>2, Zenon DEF OfferInv
  <2>14. PolledInv'
    BY <1>1, <2>1, <2>7, PolledKept, Zenon DEF Offered, Unpolled
  <2>. QED BY <1>3, <2>6, <2>7, <2>8, <2>9, <2>10, <2>11, <2>12, <2>13, <2>14, Zenon
<1>. QED
  <2>1. failed \in BOOLEAN /\ FailClosed \in BOOLEAN
    BY LogTypes, ModesTyped, Zenon
  <2>2. CASE Refused(r)
    <3>1. /\ Offer(r) /\ queue' = queue /\ dropped' = dropped + 1
          /\ failed' = (failed \/ FailClosed)
      BY <2>2, Zenon DEF Refused
    <3>2. failed' \in BOOLEAN /\ (failed => failed')
      BY <2>1, <3>1, Zenon
    <3>. QED BY <1>5, <3>1, <3>2, Zenon
  <2>3. CASE failed' = TRUE /\ Offer(r) /\ UNCHANGED <<queue, dropped>>
    <3>1. queue' = queue /\ dropped' = dropped /\ failed' \in BOOLEAN
      BY <2>3, Zenon
    <3>. QED BY <1>5, <2>3, <3>1, Zenon
  <2>. QED BY <1>4, <2>2, <2>3, Zenon DEF Log

LEMMA LogWaitingKeeps ==
  ASSUME Counting, LogInv, NEW p \in Producers, NEW r \in Records, NEW c \in BOOLEAN, LogWaiting(p, r, c)
  PROVE  LogInv'
<1>. USE DEF LogInv
<1>1. /\ FailClosed /\ prod[p] = Idle /\ r \notin hist.offered
      /\ prod' = [prod EXCEPT ![p] = [pc |-> "budget", rec |-> r, committed |-> c]]
      /\ Offer(r) /\ tx' = tx /\ writer' = writer /\ queue' = queue /\ failed' = failed
      /\ dropped' = dropped /\ UNCHANGED sink /\ reopen' = reopen /\ closer' = closer
  BY Zenon DEF LogWaiting
<1>2. Offered(r)
  BY <1>1, OfferEffects, Zenon
<1>3. /\ SinkInv' /\ FilesGrow /\ Len(files') = Len(files) /\ Adds({})
      /\ Written' = Written /\ Durable' = Durable /\ files' = files
  BY <1>1, SinkUnchanged, Zenon
<1>4. Mono /\ hist'.accepted = hist.accepted /\ hist.offered \subseteq hist'.offered
  BY <1>1, <1>2, LogTypes, Zenon DEF Mono, Offered
<1>5. prod \in [Producers -> {Idle} \cup Busy]
  BY Zenon DEF LogTyped
<1>6. [pc |-> "budget", rec |-> r, committed |-> c] \in Busy
  BY DEF Busy
<1>7. /\ prod' \in [Producers -> {Idle} \cup Busy]
      /\ prod'[p] = [pc |-> "budget", rec |-> r, committed |-> c]
      /\ \A q \in Producers : q # p => prod'[q] = prod[q]
  BY <1>1, <1>5, <1>6, Zenon
<1>8. prod'[p].pc = "budget" /\ prod'[p].rec = r
  BY <1>7
<1>9. LogTyped'
  BY <1>1, <1>2, <1>7, Zenon DEF LogTyped, Offered
<1>10. OrderInv' /\ TakenRecs' = TakenRecs
  BY <1>1, <1>4, OrderKept, Zenon
<1>11. prod[p].pc = "idle" /\ "idle" # "ack" /\ "budget" # "acked" /\ "idle" \notin Waiting
  BY <1>1 DEF Idle, Waiting
<1>12. ProducerInv'
  <2>1. r \notin Range(hist.accepted) /\ hist'.offered = hist.offered \cup {r}
    BY <1>1, <1>2, Zenon DEF OrderInv, Offered
  <2>2. \A q \in Producers : prod'[q].pc \in Waiting =>
          prod'[q].rec \in hist'.offered \ Range(hist'.accepted)
    BY <1>4, <1>7, <1>8, <2>1, Zenon DEF ProducerInv
  <2>3. \A q \in Producers : q # p /\ prod'[q].pc \in Waiting => prod'[q].rec # r
    BY <1>1, <1>7, Zenon DEF ProducerInv
  <2>4. \A q, s \in Producers :
          prod'[q].pc \in Waiting /\ prod'[s].pc \in Waiting /\ prod'[q].rec = prod'[s].rec => q = s
    BY <1>7, <1>8, <2>3, Zenon DEF ProducerInv
  <2>5. \A q \in Producers : prod'[q].pc \in Sent => prod'[q].rec \in Range(hist'.accepted)
    <3>1. prod'[p].pc \notin Sent
      BY <1>8 DEF Sent
    <3>. QED BY <1>4, <1>7, <3>1, Zenon DEF ProducerInv
  <2>6. \A i \in DOMAIN queue' : queue'[i].ack # "none" =>
          prod'[queue'[i].ack].pc = "ack" /\ prod'[queue'[i].ack].rec = queue'[i].rec
    <3>1. \A i \in DOMAIN queue : queue[i].ack # "none" => queue[i].ack \in Producers
      BY QueueItems, Zenon
    <3>. QED BY <1>1, <1>7, <1>11, <3>1, Zenon DEF ProducerInv
  <2>. QED BY <1>1, <2>2, <2>4, <2>5, <2>6, Zenon DEF ProducerInv
<1>13. WrittenInv'
  BY <1>3, <1>4, <1>10, WrittenKept, Zenon
<1>14. AckInv'
  <2>1. \A q \in Producers : prod'[q].pc = "acked" => prod'[q] = prod[q]
    BY <1>7, <1>8, <1>11, Zenon
  <2>. QED BY <1>2, <1>3, <1>4, <2>1, AckKept, Zenon DEF Offered
<1>15. EndInv'
  <2>1. writer = "done" => \A q \in Producers : prod'[q].pc \in {"idle", "budget"}
    BY <1>7, <1>8, Zenon DEF EndInv
  <2>. QED BY <1>1, <1>3, <1>4, <2>1, EndKept, Zenon
<1>16. RotationInv'
  <2>1. hist'.before = hist.before /\ hist'.signalled \subseteq Range(hist'.accepted)
        /\ TakenRecs \subseteq TakenRecs' /\ {} \cap TakenRecs = {}
    BY <1>2, <1>10, Zenon DEF Offered, RotationInv
  <2>. QED BY <1>3, <1>4, <2>1, RotationKept, Zenon
<1>17. OfferInv'
  <2>1. hist.offered \in SUBSET Records /\ dropped \in Nat
    BY LogTypes, Zenon DEF LogTyped
  <2>2. /\ Cardinality(hist.offered) \in Nat /\ dropped <= Cardinality(hist.offered)
        /\ Cardinality(hist'.offered) = Cardinality(hist.offered) + 1
    BY <1>1, <1>2, <2>1, CardAdd, Zenon DEF Offered, OfferInv
  <2>3. dropped' <= Cardinality(hist'.offered)
    BY <1>1, <2>1, <2>2
  <2>4. ASSUME ~failed', NEW x \in hist'.offered \ Range(hist'.accepted)
        PROVE  \E q \in Producers : prod'[q].pc \in Waiting /\ prod'[q].rec = x
    <3>1. CASE x = r
      <4>1. prod'[p].pc \in Waiting
        BY <1>8 DEF Waiting
      <4>. QED BY <1>8, <3>1, <4>1, Zenon
    <3>2. CASE x # r
      <4>1. x \in hist.offered \ Range(hist.accepted) /\ ~failed
        BY <1>1, <1>2, <2>4, <3>2, Zenon DEF Offered
      <4>2. PICK q \in Producers : prod[q].pc \in Waiting /\ prod[q].rec = x
        BY <1>1, <4>1, Zenon DEF OfferInv
      <4>. QED BY <1>7, <1>11, <4>2, Zenon
    <3>. QED BY <3>1, <3>2, Zenon
  <2>. QED BY <1>1, <2>3, <2>4, Zenon DEF OfferInv
<1>18. PolledInv'
  BY <1>1, <1>2, <1>10, PolledKept, Zenon DEF Offered, Unpolled
<1>. QED BY <1>3, <1>9, <1>10, <1>12, <1>13, <1>14, <1>15, <1>16, <1>17, <1>18, Zenon

LEMMA SendKeeps ==
  ASSUME Counting, LogInv, NEW p \in Producers, Send(p)
  PROVE  LogInv'
<1>. USE DEF LogInv
<1>1. /\ prod[p].pc = "send" /\ HasRoom
      /\ Enqueue(prod[p].rec, IF prod[p].committed THEN p ELSE "none")
      /\ prod' = [prod EXCEPT ![p] = IF prod[p].committed THEN [@ EXCEPT !.pc = "ack"] ELSE Idle]
      /\ tx' = tx /\ failed' = failed /\ dropped' = dropped /\ writer' = writer /\ UNCHANGED sink
      /\ reopen' = reopen /\ closer' = closer
  BY Zenon DEF Send
<1>2. PICK r : r = prod[p].rec
  BY Zenon
<1>3. PICK ack : ack = IF prod[p].committed THEN p ELSE "none"
  BY Zenon
<1>4. prod[p].pc # "idle" /\ prod[p].pc # "ack" /\ prod[p].pc \in Waiting
      /\ prod[p].pc \notin {"idle", "budget"}
  BY <1>1 DEF Waiting
<1>5. prod[p] \in Busy /\ r \in Records /\ prod[p].committed \in BOOLEAN
  BY <1>2, <1>4, BusyProd, Zenon
<1>6. r \notin Range(hist.accepted)
  BY <1>2, <1>4, Zenon DEF ProducerInv
<1>7. Enqueued(r, ack)
  <2>1. ack \in Producers \cup {"none"} /\ Enqueue(r, ack)
    BY <1>1, <1>2, <1>3, Zenon
  <2>. QED BY <1>5, <1>6, <2>1, EnqueueEffects, Zenon
<1>8. /\ SinkInv' /\ FilesGrow /\ Len(files') = Len(files) /\ Adds({})
      /\ Written' = Written /\ Durable' = Durable /\ files' = files
  BY <1>1, SinkUnchanged, Zenon
<1>9. Mono
  BY <1>1, LogTypes, Zenon DEF Mono
<1>10. prod \in [Producers -> {Idle} \cup Busy]
  BY Zenon DEF LogTyped
<1>11. /\ prod' \in [Producers -> {Idle} \cup Busy]
       /\ \A q \in Producers : q # p => prod'[q] = prod[q]
       /\ \/ prod[p].committed /\ prod'[p].pc = "ack" /\ prod'[p].rec = r
          \/ ~prod[p].committed /\ prod'[p] = Idle
  <2>1. CASE prod[p].committed
    <3>. DEFINE b == [prod[p] EXCEPT !.pc = "ack"]
    <3>1. b \in Busy /\ b.pc = "ack" /\ b.rec = r
      BY <1>2, <1>5 DEF Busy
    <3>2. prod' = [prod EXCEPT ![p] = b]
      BY <1>1, <2>1, Zenon
    <3>. HIDE DEF b
    <3>. QED BY <1>10, <2>1, <3>1, <3>2, Zenon
  <2>2. CASE ~prod[p].committed
    <3>1. prod' = [prod EXCEPT ![p] = Idle]
      BY <1>1, <2>2, Zenon
    <3>. QED BY <1>10, <2>2, <3>1, Zenon
  <2>. QED BY <2>1, <2>2, Zenon
<1>12. Len(queue') <= Capacity
  <2>1. Len(queue) \in Nat /\ Len(queue') = Len(queue) + 1
    BY <1>7, TakenNat, Zenon DEF Enqueued
  <2>. QED BY <1>1, <2>1, BoundsTyped DEF HasRoom
<1>13. LogTyped'
  BY <1>1, <1>7, <1>11, <1>12, Zenon DEF LogTyped, Enqueued
<1>14. prod'[p].pc \notin Waiting /\ prod'[p].pc # "acked" /\ (prod'[p].pc \in Sent => prod'[p].rec = r)
  <2>1. "ack" \notin Waiting /\ "ack" # "acked" /\ Idle.pc \notin Waiting /\ Idle.pc # "acked"
        /\ Idle.pc \notin Sent
    BY DEF Waiting, Sent, Idle
  <2>. QED BY <1>11, <2>1, Zenon
<1>15. FailClosed
  <2>1. ~FailClosed => prod[p] = Idle
    BY Zenon DEF ProducerInv
  <2>. QED BY <1>4, <2>1, IdlePc, Zenon
<1>16. ProducerInv'
  <2>1. \A q \in Producers : prod'[q].pc \in Waiting => prod'[q] = prod[q] /\ prod[q].rec # r
    BY <1>2, <1>4, <1>11, <1>14, Zenon DEF ProducerInv
  <2>2. \A q \in Producers : prod'[q].pc \in Sent => prod'[q] = prod[q] \/ prod'[q].rec = r
    BY <1>11, <1>14, Zenon
  <2>3. \A q \in Producers : prod[q].pc = "ack" => prod'[q] = prod[q]
    BY <1>4, <1>11, Zenon
  <2>4. ack # "none" => prod'[ack].pc = "ack" /\ prod'[ack].rec = r
    BY <1>3, <1>11, Zenon
  <2>. QED BY <1>7, <1>15, <2>1, <2>2, <2>3, <2>4, ProducerEnqueued, Zenon
<1>17. AckInv'
  <2>1. \A q \in Producers : prod'[q].pc = "acked" => prod'[q] = prod[q]
    BY <1>11, <1>14, Zenon
  <2>. QED BY <1>6, <1>7, <1>8, <1>9, <2>1, AckEnqueued, Zenon
<1>18. EndInv'
  <2>1. writer # "done"
    BY <1>4, Zenon DEF EndInv
  <2>. QED BY <1>1, <2>1, EndRunning, Zenon
<1>19. RotationInv'
  <2>1. hist'.before = hist.before /\ hist'.signalled \subseteq Range(hist'.accepted)
        /\ TakenRecs \subseteq TakenRecs' /\ {} \cap TakenRecs = {}
    BY <1>7, Zenon DEF Enqueued, RotationInv
  <2>. QED BY <1>8, <1>9, <2>1, RotationKept, Zenon
<1>20. OfferInv'
  <2>1. \A q \in Producers : prod[q].pc \in Waiting /\ prod[q].rec # r => prod'[q] = prod[q]
    BY <1>2, <1>11, Zenon
  <2>. QED BY <1>1, <1>5, <1>7, <1>15, <2>1, OfferEnqueued, Zenon
<1>21. WrittenInv'
  BY <1>7, <1>8, <1>9, WrittenKept, Zenon DEF Enqueued
<1>22. PolledInv'
  BY <1>1, <1>7, PolledKept, Zenon DEF Enqueued, Unpolled
<1>. QED BY <1>7, <1>8, <1>13, <1>16, <1>17, <1>18, <1>19, <1>20, <1>21, <1>22, Zenon DEF Enqueued

--------------------------------------------------------------------------------
(* The invariant holds at the start and is kept, and gives the properties. *)

LEMMA LogInit ==
  ASSUME Counting, Init
  PROVE  LogInv
<1>1. /\ tx = TRUE /\ queue = <<>> /\ prod = [p \in Producers |-> Idle]
      /\ failed = FALSE /\ dropped = 0 /\ writer = "running"
      /\ files = <<NewFile>> /\ named = TRUE /\ dir_synced = FALSE /\ events_since_flush = 0
      /\ reopen = [pc |-> "idle", count |-> 0] /\ closer = "none"
      /\ hist = [accepted |-> <<>>, offered |-> {}, committed |-> {}, signalled |-> {},
                 before |-> <<{}>>]
  BY Zenon DEF Init
<1>2. /\ hist.accepted = <<>> /\ hist.offered = {} /\ hist.committed = {} /\ hist.signalled = {}
      /\ hist.before = <<{}>> /\ hist \in Hist
  BY <1>1 DEF Hist
<1>3. /\ Len(files) = 1 /\ files \in Seq(Sound) /\ files # <<>> /\ DOMAIN files = {1} /\ files[1] = NewFile
  BY <1>1, NewFileSound
<1>4. SinkInv
  <2>1. \A i \in 1..(Len(files) - 1) : Settled(files[i])
    BY <1>3
  <2>2. events_since_flush \in 0..(Threshold - 1)
    BY <1>1, BoundsTyped
  <2>. QED BY <1>1, <1>3, <2>1, <2>2, Zenon DEF SinkInv
<1>5. LogTyped
  <2>1. queue \in Seq(Item) /\ Len(queue) <= Capacity /\ dropped \in Nat
        /\ reopen \in [pc : {"idle", "queued"}, count : 0..MaxReopens]
    BY <1>1, BoundsTyped
  <2>2. prod \in [Producers -> {Idle} \cup Busy]
    BY <1>1, Zenon
  <2>. QED BY <1>1, <1>2, <2>1, <2>2, Zenon DEF LogTyped
<1>6. /\ Taken = 0 /\ DOMAIN queue = {} /\ DOMAIN hist.accepted = {} /\ 1..0 = {}
      /\ Range(hist.accepted) = {} /\ TakenRecs = {}
  <2>1. Taken = 0 /\ DOMAIN queue = {} /\ DOMAIN hist.accepted = {} /\ 1..0 = {}
    BY <1>1, <1>2 DEF Taken
  <2>. QED BY <2>1, Zenon DEF Range, TakenRecs
<1>7. OrderInv
  <2>1. Taken \in Nat
    BY <1>6
  <2>. QED BY <1>2, <1>6, <2>1, Zenon DEF OrderInv
<1>8. \A p \in Producers : prod[p] = Idle /\ prod[p].pc = "idle" /\ prod[p].pc \notin Waiting
                           /\ prod[p].pc \notin Sent /\ prod[p].pc # "acked"
  <2>1. Idle.pc = "idle" /\ "idle" \notin Waiting /\ "idle" \notin Sent /\ "idle" # "acked"
    BY DEF Idle, Waiting, Sent
  <2>. QED BY <1>1, <2>1, Zenon
<1>9. ProducerInv
  BY <1>6, <1>8, Zenon DEF ProducerInv
<1>10. WrittenInv
  <2>1. Written = {}
    BY <1>3, NewFileSound, Zenon DEF Written
  <2>. QED BY <1>6, <2>1, Zenon DEF WrittenInv
<1>11. AckInv
  BY <1>2, <1>6, <1>8, Zenon DEF AckInv
<1>12. EndInv
  <2>1. writer # "done" /\ closer \notin {"ok", "err"} /\ closer # "ok"
    BY <1>1
  <2>. QED BY <2>1, Zenon DEF EndInv, ShutdownComplete
<1>13. RotationInv
  <2>1. Len(hist.before) = Len(files) /\ DOMAIN hist.before = {1} /\ hist.before[1] = {}
        /\ 2..Len(files) = {}
    BY <1>2, <1>3
  <2>. QED BY <1>2, <1>6, <2>1, Zenon DEF RotationInv, RotationSplits
<1>14. PolledInv
  <2>1. writer # "polled"
    BY <1>1
  <2>. QED BY <2>1, Zenon DEF PolledInv
<1>15. OfferInv
  <2>1. Cardinality({}) = 0
    BY Zenon DEF Counting
  <2>2. dropped <= Cardinality(hist.offered)
    BY <1>1, <1>2, <2>1
  <2>3. hist.offered \ Range(hist.accepted) = {}
    BY <1>2, Zenon
  <2>. QED BY <1>1, <2>1, <2>2, <2>3, Zenon DEF OfferInv
<1>. QED BY <1>4, <1>5, <1>7, <1>9, <1>10, <1>11, <1>12, <1>13, <1>15, <1>14, Zenon DEF LogInv

LEMMA StutterKeeps ==
  ASSUME LogInv, UNCHANGED vars
  PROVE  LogInv'
<1>. USE DEF LogInv
<1>1. /\ queue' = queue /\ prod' = prod /\ dropped' = dropped /\ writer' = writer /\ tx' = tx
      /\ reopen' = reopen /\ closer' = closer /\ hist' = hist /\ failed' = failed
      /\ UNCHANGED sink
  BY DEF vars, sink
<1>2. /\ SinkInv' /\ FilesGrow /\ Len(files') = Len(files) /\ Adds({})
      /\ Written' = Written /\ Durable' = Durable
  BY <1>1, SinkUnchanged, Zenon
<1>3. Mono
  BY <1>1, LogTypes, Zenon DEF Mono
<1>4. LogTyped'
  BY <1>1, Zenon DEF LogTyped
<1>5. CalmStep
  <2>1. Moves /\ hist'.signalled \subseteq Range(hist.accepted) /\ Written' \subseteq Written
    BY <1>1, <1>2, Zenon DEF Moves, RotationInv
  <2>. QED BY <1>1, <1>2, <1>3, <1>4, <2>1, Zenon DEF CalmStep
<1>6. AckInv' /\ Durable \subseteq Durable'
  BY <1>1, <1>5, CalmAck, Zenon
<1>7. EndInv'
  <2>1. writer = "done" => \A q \in Producers : prod'[q].pc \in {"idle", "budget"}
    BY <1>1, Zenon DEF EndInv
  <2>. QED BY <1>1, <1>3, <1>6, <2>1, EndKept, Zenon
<1>8. Unpolled
  BY <1>1, Zenon DEF Unpolled
<1>. QED BY <1>5, <1>6, <1>7, <1>8, CalmKeeps, Zenon

LEMMA LogStep ==
  ASSUME Counting, LogInv, [Next]_vars
  PROVE  LogInv'
<1>1. ASSUME NEW p \in Producers, Calls(p) PROVE LogInv'
  BY <1>1, LogKeeps, LogWaitingKeeps, Zenon DEF Calls
<1>2. ASSUME NEW p \in Producers, Waits(p) PROVE LogInv'
  BY <1>2, AcquireKeeps, SendKeeps, ReturnKeeps, Zenon DEF Waits
<1>3. CASE Reopen \/ ReopenLost \/ Shutdown \/ ShutdownReturns \/ MoveAway
  BY <1>3, CallersKeep, Zenon
<1>4. CASE Writer
  BY <1>4, RecordKeeps, EndsKeeps, ReopensKeeps, IntervalsKeep, Zenon DEF Writer, Arms
<1>5. CASE UNCHANGED vars
  BY <1>5, StutterKeeps, Zenon
<1>. QED BY <1>1, <1>2, <1>3, <1>4, <1>5, Zenon DEF Next

LEMMA LogTypeOK ==
  ASSUME Counting, LogInv
  PROVE  TypeOK
<1>. USE DEF LogInv
<1>1. {tx, failed, named, dir_synced} \subseteq BOOLEAN
  BY Zenon DEF LogTyped, SinkInv
<1>2. dropped \in 0..Cardinality(Records)
  <2>1. /\ hist.offered \in SUBSET Records /\ dropped \in Nat
        /\ dropped <= Cardinality(hist.offered)
    BY LogTypes, Zenon DEF LogTyped, OfferInv
  <2>2. /\ Cardinality(hist.offered) \in Nat /\ Cardinality(Records) \in Nat
        /\ Cardinality(hist.offered) <= Cardinality(Records)
    BY <2>1, Zenon DEF Counting
  <2>. QED BY <2>1, <2>2, UpToBound, Zenon
<1>3. ASSUME NEW i \in DOMAIN files
      PROVE  /\ files[i].recs \in Seq(Lines) /\ files[i].entry \in BOOLEAN
             /\ 0 <= files[i].synced /\ files[i].synced <= files[i].flushed
             /\ files[i].flushed <= Len(files[i].recs)
  <2>1. files[i] \in Sound
    BY FilesSeq, Zenon
  <2>. QED BY <2>1 DEF Sound, File
<1>4. /\ hist.accepted \in Seq(Records) /\ hist.offered \in SUBSET Records
      /\ hist.committed \in SUBSET Records /\ hist.signalled \in SUBSET Records
      /\ hist.before \in Seq(SUBSET Records)
  <2>1. hist \in Hist
    BY Zenon DEF LogTyped
  <2>. QED BY <2>1 DEF Hist
<1>. QED BY <1>1, <1>2, <1>3, <1>4, Zenon DEF TypeOK, LogTyped, SinkInv

LEMMA LogShowsLosses ==
  ASSUME Counting, LogInv
  PROVE  NoSilentLoss
<1>. DEFINE waiting == {prod[p].rec : p \in {q \in Producers : prod[q].pc \in {"budget", "send"}}}
            queued == {queue[i].rec : i \in DOMAIN queue}
            written == (UNION {Range(files[i].recs) : i \in DOMAIN files}) \ {Marker}
            lost == hist.offered \ (waiting \cup queued \cup written)
<1>. USE DEF LogInv
<1>1. ASSUME ~failed PROVE queued \cup written = Range(hist.accepted)
  <2>1. written = TakenRecs
    <3>1. TakenRecs \subseteq Records
      BY TakenNat, LogTypes, Zenon DEF OrderInv
    <3>2. Marker \notin TakenRecs
      BY <3>1, RecordsTyped, Zenon
    <3>3. written = Written \ {Marker}
      BY Zenon DEF Written
    <3>. HIDE DEF written
    <3>. QED BY <1>1, <3>2, <3>3, Zenon DEF WrittenInv
  <2>. HIDE DEF written
  <2>2. queued \subseteq Range(hist.accepted)
    <3>1. ASSUME NEW i \in DOMAIN queue PROVE queue[i].rec \in Range(hist.accepted)
      <4>1. Taken + i \in DOMAIN hist.accepted
        BY TakenNat, Zenon
      <4>2. queue[i].rec = hist.accepted[Taken + i]
        BY Zenon DEF OrderInv
      <4>. QED BY <4>1, <4>2, Zenon DEF Range
    <3>. QED BY <3>1, Zenon
  <2>3. ASSUME NEW n \in DOMAIN hist.accepted PROVE hist.accepted[n] \in queued \cup written
    <3>1. n \in 1..Taken \/ (n - Taken \in DOMAIN queue /\ Taken + (n - Taken) = n)
      BY TakenNat
    <3>2. CASE n \in 1..Taken
      BY <2>1, <3>2, Zenon DEF TakenRecs
    <3>3. CASE n - Taken \in DOMAIN queue /\ Taken + (n - Taken) = n
      <4>1. queue[n - Taken].rec = hist.accepted[n]
        BY <3>3, Zenon DEF OrderInv
      <4>. QED BY <3>3, <4>1, Zenon
    <3>. QED BY <3>1, <3>2, <3>3, Zenon
  <2>4. written \subseteq Range(hist.accepted)
    BY <2>1, TakenNat, Zenon
  <2>. HIDE DEF queued
  <2>. QED BY <2>2, <2>3, <2>4, Zenon DEF Range
<1>. HIDE DEF queued, written
<1>2. ASSUME ~failed PROVE lost = (hist.offered \ Range(hist.accepted)) \ waiting
  BY <1>1, <1>2, Zenon
<1>3. ASSUME ~failed, FailClosed PROVE Cardinality(lost) = 0
  <2>1. hist.offered \ Range(hist.accepted) \subseteq waiting
    BY <1>3, Zenon DEF OfferInv, Waiting
  <2>2. lost = {}
    BY <1>2, <1>3, <2>1, Zenon
  <2>. QED BY <2>2, Zenon DEF Counting
<1>4. ASSUME ~failed, ~FailClosed PROVE Cardinality(lost) = dropped
  <2>1. \A p \in Producers : prod[p].pc \notin {"budget", "send"}
    <3>1. \A p \in Producers : prod[p] = Idle
      BY <1>4, Zenon DEF ProducerInv
    <3>2. Idle.pc \notin {"budget", "send"}
      BY DEF Idle
    <3>. QED BY <3>1, <3>2, Zenon
  <2>2. waiting = {}
    BY <2>1, Zenon
  <2>3. lost = hist.offered \ Range(hist.accepted)
    BY <1>2, <1>4, <2>2, Zenon
  <2>. QED BY <1>4, <2>3, Zenon DEF OfferInv
<1>5. ~failed => Cardinality(lost) = IF FailClosed THEN 0 ELSE dropped
  BY <1>3, <1>4, Zenon
<1>. QED BY <1>5, LogTypeOK, Zenon DEF NoSilentLoss, queued, written

--------------------------------------------------------------------------------
(* The theorems.                                                           *)

INSTANCE FiniteSetTheorems

LEMMA CountingHolds == Counting
<1>1. ASSUME NEW S \in SUBSET Records
      PROVE  /\ IsFiniteSet(S) /\ Cardinality(S) \in Nat
             /\ Cardinality(S) <= Cardinality(Records)
  <2>1. IsFiniteSet(S) /\ Cardinality(S) <= Cardinality(Records)
    BY RecordsFinite, FS_Subset, Zenon
  <2>. QED BY <2>1, FS_CardinalityType, Zenon
<1>2. ASSUME NEW S \in SUBSET Records, NEW r \in Records \ S
      PROVE  Cardinality(S \cup {r}) = Cardinality(S) + 1
  BY <1>1, FS_AddElement, Zenon
<1>3. Cardinality({}) = 0
  BY FS_EmptySet, Zenon
<1>. QED BY <1>1, <1>2, <1>3, Zenon DEF Counting

LEMMA LogCorrect == Spec => []LogInv
<1>1. Init => LogInv
  BY CountingHolds, LogInit, Zenon
<1>2. LogInv /\ [Next]_vars => LogInv'
  BY CountingHolds, LogStep, Zenon
<1>. QED BY <1>1, <1>2, PTL DEF Spec

\* log_committed: when it has returned Ok, its record and every record queued
\* before it survive a crash, across rotations and whatever failed before.
THEOREM CommitsSurvive == Spec => []CommittedDurable
<1>1. LogInv => CommittedDurable
  BY Zenon DEF LogInv, AckInv, DurableUpTo, CommittedDurable
<1>. QED BY <1>1, LogCorrect, PTL

\* shutdown: when it reports success, every accepted record survives a crash.
THEOREM ShutdownLosesNothing == Spec => []ShutdownComplete
<1>1. LogInv => ShutdownComplete
  BY Zenon DEF LogInv, EndInv
<1>. QED BY <1>1, LogCorrect, PTL

\* The rotation arm: no record queued before the signal is in the new file,
\* unless both came between the writer's polls of its two channels, and the
\* new file begins with the marker unless a fault is shown.
THEOREM RotationAtSignal == Spec => []RotationSplits
<1>1. LogInv => RotationInv
  BY Zenon DEF LogInv
<1>2. RotationInv => RotationSplits
  BY Zenon DEF RotationInv
<1>. QED BY <1>1, <1>2, LogCorrect, PTL

\* log, log_ordered, log_committed and the writer: while the fault flag is
\* clear, every record offered is waiting, queued or in a file, or counted as
\* dropped by a best-effort logger; and the state is well typed.
THEOREM LossesShow == Spec => []NoSilentLoss
<1>1. LogInv => NoSilentLoss
  BY CountingHolds, LogShowsLosses, Zenon
<1>. QED BY <1>1, LogCorrect, PTL
================================================================================
