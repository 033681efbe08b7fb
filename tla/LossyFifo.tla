----------------------------- MODULE LossyFifo -----------------------------
(***************************************************************************)
(* What the pipeline promises each of its consumers: events arrive in the  *)
(* order they were sent, at most once each; any may be lost on the way.    *)
(***************************************************************************)
EXTENDS Integers, Sequences

CONSTANT Events

VARIABLES
    transit,   \* sent and neither lost nor delivered, the oldest first
    got        \* delivered

vars == <<transit, got>>

Without(i) == SubSeq(transit, 1, i - 1) \o SubSeq(transit, i + 1, Len(transit))

Init == transit = <<>> /\ got = <<>>

Send(e) == transit' = Append(transit, e) /\ UNCHANGED got

Lose(i) == transit' = Without(i) /\ UNCHANGED got

Deliver ==
    /\ transit # <<>>
    /\ got' = Append(got, Head(transit))
    /\ transit' = Tail(transit)

Next ==
    \/ \E e \in Events : Send(e)
    \/ \E i \in DOMAIN transit : Lose(i)
    \/ Deliver

Spec == Init /\ [][Next]_vars
=============================================================================
