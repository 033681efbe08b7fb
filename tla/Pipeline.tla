------------------------------ MODULE Pipeline ------------------------------
(***************************************************************************)
(* The way of an event of one symbol from the exchanges to the engine and  *)
(* to the raw event writer (cmd/btick/main.go, startRuntime): adapters,    *)
(* normalizer and fan-out are goroutines joined by buffered channels, and  *)
(* every send has a default branch that drops the event.  The drops of the *)
(* normalizer and of the fan-out are counted in the metrics; an adapter    *)
(* only logs its own, and a duplicate is refused without a trace.          *)
(***************************************************************************)
EXTENDS DedupShard, Sequences

CONSTANTS
    Sources,      \* the exchanges of the symbol
    MaxMessages,  \* a bound of the model: messages read from one exchange
    RawCap, NormalizedCap, WriterCap, EngineCap,  \* the channels' buffers
    HasDB         \* ingestDB # nil: there is a raw event writer

ASSUME PipelineAssumption ==
    /\ IsFiniteSet(Sources)
    /\ MaxMessages \in Nat
    /\ {RawCap, NormalizedCap, WriterCap, EngineCap} \subseteq Nat \ {0}
    /\ HasDB \in BOOLEAN

VARIABLES
    read,          \* how many messages each adapter has read
    rawCh, normalizedCh, writerCh, engineCh,
    shards,        \* the dedup shard of each source
    normalizing,   \* the event in process() past the duplicate test, or none
    fanning,       \* the event in the fan-out, as a sequence of at most one
    fanStage,      \* the send the fan-out is at
    cancelled,     \* ctx
    running,       \* the goroutines that have not returned
    engineClosed,  \* close(engineCh)
    drops,         \* btick_channel_drops_total, by channel
    accepted,      \* history: how many events were past the duplicate test
    engineGot, writerGot  \* history: the events each consumer took

queues == <<rawCh, normalizedCh, writerCh, engineCh>>
hands == <<normalizing, fanning, fanStage>>
life == <<cancelled, running, engineClosed>>
history == <<accepted, engineGot, writerGot>>
vars == <<read, queues, shards, hands, life, drops, history>>

Workers == {"normalizer", "fan-out", "engine", "writer"}
Channels == {"normalizer", "writer", "engine"}

\* A trade, or an event without an id; n tells the messages of a source apart.
Event == [source : Sources, key : Keys \cup {NoKey}, n : 1..MaxMessages]

Init ==
    /\ read = [s \in Sources |-> 0]
    /\ rawCh = <<>> /\ normalizedCh = <<>> /\ writerCh = <<>> /\ engineCh = <<>>
    /\ shards = [s \in Sources |-> NewShard]
    /\ normalizing = <<>> /\ fanning = <<>> /\ fanStage = "idle"
    /\ cancelled = FALSE
    /\ running = Sources \cup (IF HasDB THEN Workers ELSE Workers \ {"writer"})
    /\ engineClosed = FALSE
    /\ drops = [c \in Channels |-> 0]
    /\ accepted = 0 /\ engineGot = <<>> /\ writerGot = <<>>

IncChannelDrop(c) == drops' = [drops EXCEPT ![c] = @ + 1]

-----------------------------------------------------------------------------
\* An adapter reads a message; after a reconnection the exchange may repeat
\* trades, so any id may come again.
Receive(s, key) ==
    LET evt == [source |-> s, key |-> key, n |-> read[s] + 1]
    IN  /\ s \in running
        /\ read[s] < MaxMessages
        /\ read' = [read EXCEPT ![s] = @ + 1]
        /\ rawCh' = IF Len(rawCh) < RawCap THEN Append(rawCh, evt) ELSE rawCh
        /\ UNCHANGED <<normalizedCh, writerCh, engineCh, shards, hands, life, drops, history>>

Duplicate(evt) == evt.key # NoKey /\ IsDuplicate(shards[evt.source], evt.key)

\* Run takes an event; process() refuses it or remembers its id.
Normalize ==
    LET evt == Head(rawCh)
    IN  /\ "normalizer" \in running
        /\ normalizing = <<>>
        /\ rawCh # <<>>
        /\ rawCh' = Tail(rawCh)
        /\ \/ Duplicate(evt) /\ UNCHANGED <<shards, normalizing, accepted>>
           \/ /\ ~Duplicate(evt)
              /\ normalizing' = <<evt>>
              /\ shards' = IF evt.key = NoKey THEN shards
                           ELSE [shards EXCEPT ![evt.source] = Remember(@, evt.key)]
              /\ accepted' = accepted + 1
        /\ UNCHANGED <<read, normalizedCh, writerCh, engineCh, fanning, fanStage,
                       life, drops, engineGot, writerGot>>

\* The send of process().
Forward ==
    /\ normalizing # <<>>
    /\ normalizing' = <<>>
    /\ \/ /\ Len(normalizedCh) < NormalizedCap
          /\ normalizedCh' = normalizedCh \o normalizing
          /\ UNCHANGED drops
       \/ /\ Len(normalizedCh) = NormalizedCap
          /\ IncChannelDrop("normalizer") /\ UNCHANGED normalizedCh
    /\ UNCHANGED <<read, rawCh, writerCh, engineCh, shards, fanning, fanStage, life, history>>

-----------------------------------------------------------------------------
FanTake ==
    /\ "fan-out" \in running
    /\ fanStage = "idle"
    /\ normalizedCh # <<>>
    /\ fanning' = <<Head(normalizedCh)>>
    /\ normalizedCh' = Tail(normalizedCh)
    /\ fanStage' = IF HasDB THEN "writer" ELSE "engine"
    /\ UNCHANGED <<read, rawCh, writerCh, engineCh, shards, normalizing, life, drops, history>>

\* Mutant: an event the writer has no room for goes back to the queue.
FanToWriterRequeue ==
    /\ fanStage = "writer"
    /\ \/ /\ Len(writerCh) < WriterCap
          /\ writerCh' = writerCh \o fanning /\ fanStage' = "engine"
          /\ UNCHANGED <<fanning, normalizedCh>>
       \/ /\ Len(writerCh) = WriterCap
          /\ normalizedCh' = normalizedCh \o fanning
          /\ fanStage' = "idle" /\ fanning' = <<>> /\ UNCHANGED writerCh
    /\ UNCHANGED <<read, rawCh, engineCh, shards, normalizing, life, drops, history>>

FanToWriter ==
    /\ fanStage = "writer"
    /\ fanStage' = "engine"
    /\ \/ Len(writerCh) < WriterCap /\ writerCh' = writerCh \o fanning /\ UNCHANGED drops
       \/ Len(writerCh) = WriterCap /\ IncChannelDrop("writer") /\ UNCHANGED writerCh
    /\ UNCHANGED <<read, rawCh, normalizedCh, engineCh, shards, normalizing, fanning,
                   life, history>>

\* Mutant: an event the engine has no room for goes back to the queue.
FanToEngineRequeue ==
    /\ fanStage = "engine"
    /\ fanStage' = "idle" /\ fanning' = <<>>
    /\ \/ Len(engineCh) < EngineCap /\ engineCh' = engineCh \o fanning /\ UNCHANGED normalizedCh
       \/ /\ Len(engineCh) = EngineCap
          /\ normalizedCh' = normalizedCh \o fanning /\ UNCHANGED engineCh
    /\ UNCHANGED <<read, rawCh, writerCh, shards, normalizing, life, drops, history>>

\* Mutant: the drop is not counted.
FanToEngineSilent ==
    /\ fanStage = "engine"
    /\ fanStage' = "idle" /\ fanning' = <<>>
    /\ engineCh' = IF Len(engineCh) < EngineCap THEN engineCh \o fanning ELSE engineCh
    /\ UNCHANGED <<read, rawCh, normalizedCh, writerCh, shards, normalizing, life, drops, history>>

FanToEngine ==
    /\ fanStage = "engine"
    /\ fanStage' = "idle" /\ fanning' = <<>>
    /\ \/ Len(engineCh) < EngineCap /\ engineCh' = engineCh \o fanning /\ UNCHANGED drops
       \/ Len(engineCh) = EngineCap /\ IncChannelDrop("engine") /\ UNCHANGED engineCh
    /\ UNCHANGED <<read, rawCh, normalizedCh, writerCh, shards, normalizing, life, history>>

EngineTake ==
    /\ "engine" \in running
    /\ engineCh # <<>>
    /\ engineGot' = Append(engineGot, Head(engineCh))
    /\ engineCh' = Tail(engineCh)
    /\ UNCHANGED <<read, rawCh, normalizedCh, writerCh, shards, hands, life, drops,
                   accepted, writerGot>>

WriterTake ==
    /\ "writer" \in running
    /\ writerCh # <<>>
    /\ writerGot' = Append(writerGot, Head(writerCh))
    /\ writerCh' = Tail(writerCh)
    /\ UNCHANGED <<read, rawCh, normalizedCh, engineCh, shards, hands, life, drops,
                   accepted, engineGot>>

-----------------------------------------------------------------------------
Cancel ==
    /\ ~cancelled
    /\ cancelled' = TRUE
    /\ UNCHANGED <<read, queues, shards, hands, running, engineClosed, drops, history>>

\* Mutant: the normalizer waits for its input to be closed, which nobody does.
MayReturnOnClose(w) ==
    CASE w = "fan-out" -> cancelled /\ fanStage = "idle"
      [] w = "engine"  -> cancelled \/ (engineClosed /\ engineCh = <<>>)
      [] OTHER         -> cancelled /\ w # "normalizer"

\* Mutant: the fan-out returns when it has nothing to do.
MayReturnIdle(w) ==
    CASE w = "fan-out"    -> fanStage = "idle"
      [] w = "normalizer" -> cancelled /\ normalizing = <<>>
      [] OTHER            -> cancelled

\* What makes a goroutine return, seen between two of its events.
MayReturn(w) ==
    CASE w = "normalizer" -> cancelled /\ normalizing = <<>>
      [] w = "fan-out"    -> cancelled /\ fanStage = "idle"
      [] w = "engine"     -> cancelled \/ (engineClosed /\ engineCh = <<>>)
      [] OTHER            -> cancelled

Stop(w) ==
    /\ w \in running
    /\ MayReturn(w)
    /\ running' = running \ {w}
    /\ engineClosed' = (engineClosed \/ w = "fan-out")
    /\ UNCHANGED <<read, queues, shards, hands, cancelled, drops, history>>

Next ==
    \/ \E s \in Sources, key \in Keys \cup {NoKey} : Receive(s, key)
    \/ Normalize \/ Forward
    \/ FanTake \/ FanToWriter \/ FanToEngine
    \/ EngineTake \/ WriterTake
    \/ Cancel
    \/ \E w \in Sources \cup Workers : Stop(w)

Spec == Init /\ [][Next]_vars

\* Every goroutine runs: a select with a ready case proceeds and no send blocks.
\* Messages and cancellation are not assumed to come.
FairSpec ==
    /\ Spec
    /\ WF_vars(Normalize) /\ WF_vars(Forward)
    /\ WF_vars(FanTake) /\ WF_vars(FanToWriter) /\ WF_vars(FanToEngine)
    /\ WF_vars(EngineTake) /\ WF_vars(WriterTake)
    /\ \A w \in Sources \cup Workers : WF_vars(Stop(w))

-----------------------------------------------------------------------------
\* Types; the queues stay within their buffers, a hand holds one event.
TypeOK ==
    /\ read \in [Sources -> 0..MaxMessages]
    /\ rawCh \in Seq(Event) /\ Len(rawCh) <= RawCap
    /\ normalizedCh \in Seq(Event) /\ Len(normalizedCh) <= NormalizedCap
    /\ writerCh \in Seq(Event) /\ Len(writerCh) <= WriterCap
    /\ engineCh \in Seq(Event) /\ Len(engineCh) <= EngineCap
    /\ shards \in [Sources -> Shard]
    /\ normalizing \in Seq(Event) /\ Len(normalizing) <= 1
    /\ fanning \in Seq(Event)
    /\ fanStage \in {"idle", "writer", "engine"}
    /\ Len(fanning) = IF fanStage = "idle" THEN 0 ELSE 1
    /\ cancelled \in BOOLEAN /\ engineClosed \in BOOLEAN
    /\ running \subseteq Sources \cup Workers
    /\ drops \in [Channels -> Nat] /\ accepted \in Nat
    /\ engineGot \in Seq(Event) /\ writerGot \in Seq(Event)

\* On the way to a consumer, the oldest first.
Upstream == normalizedCh \o normalizing \o rawCh
ToEngine == engineCh \o fanning \o Upstream
ToWriter == writerCh \o (IF fanStage = "writer" THEN fanning ELSE <<>>) \o Upstream

EngineQueue == INSTANCE LossyFifo WITH Events <- Event, transit <- ToEngine, got <- engineGot
WriterQueue == INSTANCE LossyFifo WITH Events <- Event, transit <- ToWriter, got <- writerGot

\* The engine gets events in the order the adapters queued them, each at most
\* once, whatever the writer's queue does.
EngineFifo == EngineQueue!Spec

\* So does the raw event writer.
WriterFifo == WriterQueue!Spec

\* A trade id a consumer gets twice has at least MaxEntries other messages of
\* its source between the two: every replay inside the window is caught, drops
\* on the way do not reopen it.
Apart(got) ==
    \A i, j \in DOMAIN got :
        (i < j /\ got[i].source = got[j].source /\ got[i].key = got[j].key
               /\ got[i].key # NoKey)
            => got[j].n - got[i].n > MaxEntries

DuplicatesApart == Apart(engineGot) /\ Apart(writerGot)

\* Past the duplicate test, on the way to the engine and to the writer.
AcceptedForEngine == Len(engineCh) + Len(fanning) + Len(normalizedCh) + Len(normalizing)
AcceptedForWriter ==
    Len(writerCh) + (IF fanStage = "writer" THEN 1 ELSE 0) + Len(normalizedCh) + Len(normalizing)

\* The drop counters in the metrics account for every event past the duplicate test
\* that a consumer will not get: of the others each has been taken or is on its way,
\* whatever the other consumer's queue does.
Balanced ==
    /\ accepted = drops["normalizer"] + drops["engine"] + AcceptedForEngine + Len(engineGot)
    /\ HasDB =>
          accepted = drops["normalizer"] + drops["writer"] + AcceptedForWriter + Len(writerGot)

\* After the context is cancelled every goroutine returns.
PipelineStops == cancelled ~> running = {}

\* What has been read is delivered, dropped or refused; nothing stays behind
\* while the process runs.
Drained == ToEngine = <<>> /\ ToWriter = <<>>
PipelineDrains == []<>(Drained \/ cancelled)
=============================================================================
