---------------------------- MODULE ClientStream ----------------------------
(***************************************************************************)
(* What the WebSocket hub promises its clients: a client is a member once, *)
(* no more than MaxClients are at a time, only a member is queued a        *)
(* message, each broadcaster's messages in the order of their numbers, and *)
(* a queue is closed by taking its client away, never otherwise.           *)
(***************************************************************************)
EXTENDS Naturals, Sequences, FiniteSets

CONSTANTS Clients, MaxClients

VARIABLES members, former, closed, stream

streamVars == <<members, former, closed, stream>>

StreamInit ==
    /\ members = {} /\ former = {} /\ closed = {}
    /\ stream = [c \in Clients |-> <<>>]

Join(c) ==
    /\ c \notin members \cup former
    /\ Cardinality(members) < MaxClients
    /\ members' = members \cup {c}
    /\ UNCHANGED <<former, closed, stream>>

Follows(msg, s) == \A i \in DOMAIN s : s[i].by = msg.by => s[i].seq < msg.seq

Push(c, msg) ==
    /\ c \in members
    /\ Follows(msg, stream[c])
    /\ stream' = [stream EXCEPT ![c] = Append(@, msg)]
    /\ UNCHANGED <<members, former, closed>>

Leave(gone, queues) ==
    /\ gone \subseteq members
    /\ queues \subseteq gone
    /\ members' = members \ gone
    /\ former' = former \cup gone
    /\ closed' = closed \cup queues
    /\ UNCHANGED stream

\* The quantifiers name the only message, clients and queues a step can be about.
StreamNext ==
    \/ \E c \in Clients : Join(c)
    \/ \E c \in Clients : Len(stream'[c]) = Len(stream[c]) + 1
                          /\ Push(c, stream'[c][Len(stream[c]) + 1])
    \/ Leave(members \ members', closed' \ closed)

StreamSpec == StreamInit /\ [][StreamNext]_streamVars
=============================================================================
