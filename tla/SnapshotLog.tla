---------------------------- MODULE SnapshotLog ----------------------------
(***************************************************************************)
(* What an engine promises about the snapshots it produces, whatever the   *)
(* goroutines inside it do: they form an append-only log with at most one  *)
(* entry per second, written only when the second and the late-arrival     *)
(* grace are over, and what is carried forward is a price, never zero.     *)
(***************************************************************************)
EXTENDS Integers, Sequences

CONSTANTS Second, Grace

VARIABLES now, log

vars == <<now, log>>

Init == now = 0 /\ log = <<>>

TimePasses == now' > now /\ UNCHANGED log

\* The second e stands for is over, grace included, and has no entry yet.
MayPublish(e) ==
    /\ now >= (e.second + 1) * Second + Grace
    /\ \A i \in DOMAIN log : log[i].second # e.second
    /\ e.stale => e.price # 0

Publish ==
    /\ Len(log') = Len(log) + 1
    /\ \A i \in DOMAIN log : log'[i] = log[i]
    /\ MayPublish(log'[Len(log')])
    /\ UNCHANGED now

Next == TimePasses \/ Publish

Spec == Init /\ [][Next]_vars
=============================================================================
