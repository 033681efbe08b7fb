------------------------------ MODULE TickFeed -------------------------------
(***************************************************************************)
(* What the WebSocket hub relies on, of the way from the engines to it: a  *)
(* tick is in the latest state before it is broadcast, and the ticks of a  *)
(* symbol are broadcast in order, some of them left out.                   *)
(***************************************************************************)
EXTENDS Naturals

CONSTANT Symbols

VARIABLES latest, published

feedVars == <<latest, published>>

FeedInit == latest = [s \in Symbols |-> 0] /\ published = [s \in Symbols |-> 0]

EngineTick(s) ==
    /\ latest' = [latest EXCEPT ![s] = @ + 1]
    /\ UNCHANGED published

BroadcastTick(s) ==
    /\ published[s] < published'[s] /\ published'[s] <= latest[s]
    /\ published' = [published EXCEPT ![s] = published'[s]]
    /\ UNCHANGED latest

FeedNext == \E s \in Symbols : EngineTick(s) \/ BroadcastTick(s)

FeedSpec == FeedInit /\ [][FeedNext]_feedVars
=============================================================================
