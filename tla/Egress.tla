--------------------------------- MODULE Egress ---------------------------------
(***************************************************************************)
(* A launch with network rules takes one of two routes for its connects,   *)
(* beside the DNS gate it shares a snapshot file and an audit log with:    *)
(* the seccomp notifications of Unotify, or the kernel programs of Ebpf    *)
(* (the two launch commands, src/commands/unotify_run.rs and ebpf_run.rs). *)
(***************************************************************************)
EXTENDS Unotify, Ebpf

VARIABLE backend

vars == <<env, sink, dest, judged, stop, records, unotify, ebpf, backend>>

\* The route is fixed by the launch; the other one is never started.
Routes ==
  /\ SupervisorFresh /\ DrainFresh /\ backend \in {"unotify", "ebpf"}

Init == Routes /\ UnotifyInit /\ EbpfInit

OnUnotify(A) == backend = "unotify" /\ A /\ UNCHANGED <<backend, ebpf>>
OnEbpf(A) == backend = "ebpf" /\ A /\ UNCHANGED <<backend, unotify>>

Next == OnUnotify(UnotifyNext) \/ OnEbpf(EbpfNext)

\* The threads of the route that was taken run while one of them can: with
\* finitely many calls, that is all the scheduling the properties need.
Fairness == WF_vars(OnUnotify(Loop \/ Worker) \/ OnEbpf(DrainLoop))

Spec == Init /\ [][Next]_vars

--------------------------------------------------------------------------------
(* Properties, besides those of the two routes.                            *)

\* maybe_resync_grants: a rewrite in which a map update failed is tried again,
\* until the slots hold what was loaded, the counter is even and the signature
\* is the file's.  What was loaded is nothing when the file could not be read,
\* and then the grants stay dead until it changes.
RewritesLand ==
  backend = "ebpf" =>
    <>[](dpc = "ended" \/ (~Odd(seq) /\ slots = want /\ allowSig = FileSig))
================================================================================
