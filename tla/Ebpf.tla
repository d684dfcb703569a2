---------------------------------- MODULE Ebpf ----------------------------------
(***************************************************************************)
(* The cgroup eBPF route of src/warden/ebpf: the connect hooks are         *)
(* programs (prog.rs) that judge a destination in the kernel, against the  *)
(* static rules and the slots of a grant map; denials leave a record in a  *)
(* ring buffer.  A drain thread (supervisor.rs, Loop) audits the records   *)
(* and rewrites the slots when the snapshot file of the DNS gate changes.  *)
(* An update of a slot is a copy of several words that a program may read  *)
(* in the middle: the rewrite goes through dead expiries and is bracketed  *)
(* by a sequence counter, odd while it runs.                               *)
(***************************************************************************)
EXTENDS EgressEnv, Sequences

CONSTANTS FlushTries, \* the waits of shutdown_flush for a busy head (50)
          MaxFaults   \* bound on the map updates that fail

VARIABLES prog,    \* the program run by a call: its step
          seen, at, latch, \* its seqlock snapshot, its slot, the expiry it read
          ruling,  \* the verdict: "none", "rule", "grant" or "deny"
          seq,     \* the seq map
          slots,   \* the grant map
          ring,    \* the ring buffer: calls, with their record "busy" or "ready"
          denied, dropped, \* the stats map
          dpc, rec, \* the drain: its step, the record it audits
          slot, ok, \* the slot a rewrite is at, and whether it failed
          tries,   \* waits left of shutdown_flush
          statSig, \* the signature maybe_resync_grants read
          base,    \* the value of the counter the rewrite started from
          want,    \* the entries it writes (the last rewrite's afterwards)
          allowSig,\* the signature of the last complete rewrite
          drained, \* denials taken from the ring
          faults

run == <<prog, seen, at, latch, ruling>>
maps == <<seq, slots>>
stats == <<ring, denied, dropped>>
sync == <<statSig, base, want, allowSig, slot, ok, faults>>
dloop == <<dpc, rec, tries, drained>>
route == <<sink, dest, judged, stop, records>>
ebpf == <<run, maps, stats, sync, dloop>>

Slots == 1..GrantSlots
Sentinel == [addr |-> NoAddr, exp |-> 0]
Dead(e) == [e EXCEPT !.exp = 0]
Odd(n) == n % 2 = 1

Cleared == [i \in Slots |-> Sentinel]

\* The drain and the programs before their first step ...
DrainFresh ==
  /\ RouteInit
  /\ seen = [c \in Calls |-> 0] /\ at = [c \in Calls |-> 0] /\ latch = [c \in Calls |-> 0]
  /\ ruling = [c \in Calls |-> "none"]
  /\ ring = <<>> /\ denied = 0 /\ dropped = 0
  /\ dpc = "poll" /\ rec = NoCall /\ tries = FlushTries /\ drained = {}
  /\ slot = 0 /\ ok = "yes" /\ faults = 0

\* ... and the maps of Runtime::prepare: every slot dead.  The task may make
\* any of the calls.
EbpfInit ==
  /\ EnvInit /\ DrainFresh /\ prog \in [Calls -> {"idle", "never"}]
  /\ seq = 0 /\ slots = Cleared /\ want = Cleared
  /\ statSig = NoSig /\ base = 0 /\ allowSig = NoSig

EbpfOutside ==
  /\ Gate \/ SinkFails \/ AskStop
  /\ UNCHANGED <<run, maps, stats, sync, dloop>>

--------------------------------------------------------------------------------
(* The program.                                                            *)

Step(c, s) == prog' = [prog EXCEPT ![c] = s]
Rule(c, v) == ruling' = [ruling EXCEPT ![c] = v]

\* The default verdict is a denial: its tail bumps the counter next, and the
\* registers of the program are dead.
Default(c) ==
  /\ Step(c, "bump") /\ Rule(c, "deny")
  /\ seen' = [seen EXCEPT ![c] = 0] /\ at' = [at EXCEPT ![c] = 0]
  /\ latch' = [latch EXCEPT ![c] = 0]
  /\ dest' = [dest EXCEPT ![c] = NoAddr] /\ judged' = [judged EXCEPT ![c] = -1]

\* A slot that does not match: the next one, or the default.
NextSlot(c) ==
  IF at[c] < GrantSlots
    THEN /\ at' = [at EXCEPT ![c] = @ + 1] /\ latch' = [latch EXCEPT ![c] = 0]
         /\ Step(c, "exp") /\ UNCHANGED <<seen, ruling, dest, judged>>
    ELSE Default(c)

\* The prologue and the static rules, denies first.  Under an open posture a
\* grant can only allow what the default allows, so the scan is left out.
Enter ==
  /\ \E c \in Calls, a \in Dests :
       /\ prog[c] = "idle"
       /\ \/ a \in DeniedAddrs /\ Default(c)
          \/ /\ a \notin DeniedAddrs
             /\ dest' = [dest EXCEPT ![c] = a] /\ judged' = [judged EXCEPT ![c] = now]
             /\ IF a \in AllowedAddrs \/ ~DenyAllOthers
                  THEN Step(c, "done") /\ Rule(c, "rule")
                  ELSE Step(c, "seq") /\ UNCHANGED ruling
             /\ UNCHANGED <<seen, at, latch>>
  /\ UNCHANGED <<env, sink, stop, records, maps, stats, sync, dloop>>

\* The snapshot of the counter before the scan; an odd one ends it.
ReadSeq ==
  /\ \E c \in Calls :
       /\ prog[c] = "seq"
       /\ IF Odd(seq)
            THEN Default(c)
            ELSE /\ Step(c, "exp") /\ seen' = [seen EXCEPT ![c] = seq]
                 /\ at' = [at EXCEPT ![c] = 1] /\ UNCHANGED <<ruling, latch, dest, judged>>
  /\ UNCHANGED <<env, sink, stop, records, maps, stats, sync, dloop>>

\* rule_block_ex on a grant slot: the expiry is read first, once ...
ReadExp ==
  /\ \E c \in Calls :
       /\ prog[c] = "exp"
       /\ IF slots[at[c]].exp * SecTicks > judged[c]
            THEN /\ Step(c, "addr") /\ latch' = [latch EXCEPT ![c] = slots[at[c]].exp]
                 /\ UNCHANGED <<seen, at, ruling, dest, judged>>
            ELSE NextSlot(c)
  /\ UNCHANGED <<env, sink, stop, records, maps, stats, sync, dloop>>

\* ... then the words that must match the flow.
ReadAddr ==
  /\ \E c \in Calls :
       /\ prog[c] = "addr"
       /\ IF slots[at[c]].addr = dest[c]
            THEN Step(c, "recheck") /\ UNCHANGED <<seen, at, latch, ruling, dest, judged>>
            ELSE NextSlot(c)
  /\ UNCHANGED <<env, sink, stop, records, maps, stats, sync, dloop>>

\* Mutant: a match is taken without a second look at the counter.
RecheckSkipped ==
  /\ \E c \in Calls : prog[c] = "recheck" /\ Step(c, "done") /\ Rule(c, "grant")
  /\ UNCHANGED <<env, route, seen, at, latch, maps, stats, sync, dloop>>

\* GrantAllow: the match holds only if the counter did not move.
Recheck ==
  /\ \E c \in Calls :
       /\ prog[c] = "recheck"
       /\ IF seq = seen[c]
            THEN Step(c, "done") /\ Rule(c, "grant") /\ UNCHANGED <<seen, at, latch, dest, judged>>
            ELSE Default(c)
  /\ UNCHANGED <<env, sink, stop, records, maps, stats, sync, dloop>>

\* The deny tail: the counter, then a record, or a drop when the ring is full.
Bump ==
  /\ \E c \in Calls : prog[c] = "bump" /\ Step(c, "reserve")
  /\ denied' = denied + 1
  /\ UNCHANGED <<env, route, seen, at, latch, ruling, maps, ring, dropped, sync, dloop>>

Reserve ==
  /\ \E c \in Calls :
       /\ prog[c] = "reserve"
       /\ IF Len(ring) < RingSize
            THEN ring' = Append(ring, [call |-> c, state |-> "busy"]) /\ Step(c, "submit")
            ELSE UNCHANGED ring /\ Step(c, "drop")
  /\ UNCHANGED <<env, route, seen, at, latch, ruling, maps, denied, dropped, sync, dloop>>

Submit ==
  /\ \E c \in Calls :
       /\ prog[c] = "submit" /\ Step(c, "done")
       /\ ring' = [i \in DOMAIN ring |->
                     IF ring[i].call = c THEN [ring[i] EXCEPT !.state = "ready"] ELSE ring[i]]
  /\ UNCHANGED <<env, route, seen, at, latch, ruling, maps, denied, dropped, sync, dloop>>

\* Mutant: a denial that finds the ring full is not counted.
DropUncounted ==
  /\ \E c \in Calls : prog[c] = "drop" /\ Step(c, "done")
  /\ UNCHANGED <<env, route, seen, at, latch, ruling, maps, stats, sync, dloop>>

Drop ==
  /\ \E c \in Calls : prog[c] = "drop" /\ Step(c, "done")
  /\ dropped' = dropped + 1
  /\ UNCHANGED <<env, route, seen, at, latch, ruling, maps, ring, denied, sync, dloop>>

Program == Enter \/ ReadSeq \/ ReadExp \/ ReadAddr \/ Recheck \/ Bump \/ Reserve \/ Submit \/ Drop

--------------------------------------------------------------------------------
(* The drain.                                                              *)

Fault == faults < MaxFaults /\ faults' = faults + 1

\* run: the stop event, before the ring is read.
Stop ==
  /\ dpc = "poll" /\ stop = "asked" /\ dpc' = "flush"
  /\ UNCHANGED <<env, route, run, maps, stats, sync, rec, tries, drained>>

\* A dead ring ends the loop.
Lost ==
  /\ dpc = "poll" /\ stop = "no" /\ dpc' = "ended"
  /\ UNCHANGED <<env, route, run, maps, stats, sync, rec, tries, drained>>

\* drain_pending, in a pass of the loop (after its check of the stop event) and
\* in shutdown_flush.
Passing == dpc = "drain" \/ (dpc = "poll" /\ stop = "no")
HeadReady == ring # <<>> /\ Head(ring).state = "ready"

Pop ==
  /\ Passing \/ dpc = "flush"
  /\ HeadReady /\ rec' = Head(ring).call /\ ring' = Tail(ring)
  /\ dpc' = IF dpc = "flush" THEN "emitlast" ELSE "emit"
  /\ UNCHANGED <<env, route, run, maps, denied, dropped, sync, tries, drained>>

\* The ring is empty, or its head is busy: the flush waits for it a bounded
\* number of times.
Flushed ==
  /\ dpc = "flush" /\ ~HeadReady
  /\ IF ring # <<>> /\ tries > 1 THEN tries' = tries - 1 /\ UNCHANGED dpc
                                 ELSE dpc' = "ended" /\ UNCHANGED tries
  /\ UNCHANGED <<env, route, run, maps, stats, sync, rec, drained>>

\* emit_deny: the record is committed; a failure is counted.
Emit ==
  /\ dpc \in {"emit", "emitlast"} /\ Committed("denied", rec)
  /\ drained' = drained \cup {rec} /\ rec' = NoCall
  /\ dpc' = IF dpc = "emit" THEN "drain" ELSE "flush"
  /\ UNCHANGED <<env, sink, dest, judged, stop, run, maps, stats, sync, tries>>

\* The pass leaves a busy head for the next one and goes on to
\* maybe_resync_grants: the signature of the file, by its path.
Stat ==
  /\ Passing /\ ~HeadReady
  /\ IF FileSig = allowSig THEN dpc' = "poll" /\ UNCHANGED statSig
                           ELSE dpc' = "load" /\ statSig' = FileSig
  /\ UNCHANGED <<env, route, run, maps, stats, base, want, allowSig, slot, ok, faults, rec, tries,
                 drained>>

\* load_grants_filtered and flatten_grants: the file is opened again, its
\* entries come in no order, and those beyond the slots are left out.  A file
\* that cannot be opened or read now is an empty grant set, and the rewrite
\* goes on.
Load ==
  /\ dpc = "load" /\ dpc' = "lift"
  /\ LET Loaded == IF statSig = NoSig \/ file = NoImage THEN {}
                   ELSE {k \in Keys : file[k] > 0 /\ k.addr \notin Protected}
     IN  \E F \in {Loaded, {}}, n \in 0..GrantSlots, ks \in [Slots -> Keys] :
           /\ n = IF Cardinality(F) < GrantSlots THEN Cardinality(F) ELSE GrantSlots
           /\ \A i \in 1..n : ks[i] \in F /\ \A j \in 1..n : ks[i] = ks[j] => i = j
           /\ want' = [i \in Slots |-> IF i <= n THEN [addr |-> ks[i].addr, exp |-> file[ks[i]]]
                                                 ELSE Sentinel]
  /\ UNCHANGED <<env, route, run, maps, stats, statSig, base, allowSig, slot, ok, faults, rec, tries,
                 drained>>

\* write_grant_maps: seq | 1 is published before the first slot.
Lift ==
  /\ dpc = "lift"
  /\ \/ /\ base' = seq /\ seq' = IF Odd(seq) THEN seq ELSE seq + 1
        /\ slot' = 1 /\ ok' = "yes" /\ dpc' = "write" /\ UNCHANGED faults
     \/ Fault /\ dpc' = "poll" /\ UNCHANGED <<base, seq, slot, ok>>
  /\ statSig' = IF dpc' = "poll" THEN NoSig ELSE statSig
  /\ UNCHANGED <<env, route, run, slots, stats, want, allowSig, rec, tries, drained>>

\* write_all, one update a step: kill the slot, land the new words under the
\* dead expiry, publish the expiry.  The first failure ends the rewrite.
Phase(old, new) ==
  IF old.exp # 0 THEN Dead(old) ELSE IF old # Dead(new) THEN Dead(new) ELSE new

Write ==
  /\ dpc = "write"
  /\ \/ /\ slot > GrantSlots /\ dpc' = "land" /\ UNCHANGED <<slots, slot, ok, faults>>
     \/ /\ slot <= GrantSlots /\ slots[slot] = want[slot] /\ slot' = slot + 1
        /\ UNCHANGED <<dpc, slots, ok, faults>>
     \/ /\ slot <= GrantSlots /\ slots[slot] # want[slot]
        /\ slots' = [slots EXCEPT ![slot] = Phase(@, want[slot])]
        /\ UNCHANGED <<dpc, slot, ok, faults>>
     \/ /\ slot <= GrantSlots /\ slots[slot] # want[slot] /\ Fault
        /\ ok' = "no" /\ dpc' = "land" /\ UNCHANGED <<slots, slot>>
  /\ UNCHANGED <<env, route, run, seq, stats, statSig, base, want, allowSig, rec, tries, drained>>

\* Mutant: the signature is kept although a slot was not written.
LandEager ==
  /\ dpc = "land" /\ dpc' = "poll"
  /\ seq' = (IF Odd(base) THEN base ELSE base + 1) + 1 /\ allowSig' = statSig
  /\ statSig' = NoSig /\ base' = 0 /\ slot' = 0 /\ ok' = "yes"
  /\ UNCHANGED <<env, route, run, slots, stats, want, faults, rec, tries, drained>>

\* (seq | 1) + 1 is published whatever became of the slots; the signature is
\* kept only when everything was written.
Land ==
  /\ dpc = "land" /\ dpc' = "poll"
  /\ \/ /\ seq' = (IF Odd(base) THEN base ELSE base + 1) + 1 /\ UNCHANGED faults
        /\ allowSig' = IF ok = "yes" THEN statSig ELSE allowSig
     \/ Fault /\ UNCHANGED <<seq, allowSig>>
  /\ statSig' = NoSig /\ base' = 0 /\ slot' = 0 /\ ok' = "yes"
  /\ UNCHANGED <<env, route, run, slots, stats, want, rec, tries, drained>>

DrainLoop == Stop \/ Pop \/ Flushed \/ Emit \/ Stat \/ Load \/ Lift \/ Write \/ Land

--------------------------------------------------------------------------------
EbpfNext == EbpfOutside \/ Program \/ DrainLoop \/ Lost


--------------------------------------------------------------------------------
(* Properties.                                                             *)

\* The seqlock of write_grant_maps and the grant scan: a flow passes on a grant
\* only when the expiry and the address the program read, in two reads that a
\* rewrite may separate, are together those of a grant the gate had committed,
\* and that grant was live on the clock of the program.
GrantAllowSound ==
  \A c \in Calls : ruling[c] = "grant" =>
    /\ LiveGrant(c)
    /\ \E k \in Keys : k.addr = dest[c] /\ latch[c] <= Secs(high[k])

\* The stats of end: each denial of the kernel is audited, or counted as
\* dropped, or in the ring, or still in the tail of its program; none is lost
\* or counted twice.
DenyAccounted ==
  /\ denied = Cardinality(drained) + dropped + Len(ring)
              + Cardinality({c \in Calls : prog[c] \in {"reserve", "drop"}})
              + (IF dpc \in {"emit", "emitlast"} THEN 1 ELSE 0)
  /\ \A c \in drained : ruling[c] = "deny" /\ (sink = "up" => <<"denied", c>> \in records)
================================================================================
