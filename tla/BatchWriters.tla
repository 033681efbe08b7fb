---------------------------- MODULE BatchWriters ----------------------------
(***************************************************************************)
(* The goroutines that write to the database in batches and the end of the *)
(* process: the tick and snapshot writers of the engines                   *)
(* (runBatchedDBWriter in internal/engine/persistence.go) and the raw      *)
(* event writer (internal/storage/writer.go), the context, the engine's    *)
(* deferred stop of its writers, and the connection pool that is closed as *)
(* soon as the context is cancelled (cmd/btick/main.go). The tables have   *)
(* unique keys and every insert says ON CONFLICT DO NOTHING; the engines   *)
(* of all symbols write to the same ones (migrations/001_init.sql).        *)
(***************************************************************************)
EXTENDS Naturals, Sequences, FiniteSets

CONSTANTS
    EngineWriters,         \* the tick and snapshot writers of the engines
    RawWriter,             \* the raw event writer
    QueueCap, MaxRows,     \* the channels' buffers; rows of a batch
    Key,                   \* the key of a writer's n-th item in its table
    MaxItems, MaxFaults    \* bounds: items offered to each writer, database errors

ASSUME WriterAssumption ==
    /\ RawWriter \notin EngineWriters
    /\ {QueueCap, MaxRows} \subseteq Nat \ {0}
    /\ MaxItems \in [EngineWriters \cup {RawWriter} -> Nat] /\ MaxFaults \in Nat
    /\ \A w \in EngineWriters \cup {RawWriter} : DOMAIN Key[w] = 1..MaxItems[w]

VARIABLES
    offered,      \* items each writer's producer has made so far
    queue,        \* writerCh, ticksToWrite, snapshotsToWrite
    batch,        \* the batch a writer fills
    flush,        \* the flush a writer is in
    mode,         \* running, draining after ctx.Done(), done
    rows,         \* the tables: the items they hold, by the writer they are from
    failed,       \* the items whose single insert was logged as failed
    dropped,      \* the items their producer found no room for
    producing,    \* the producers that still run
    cancelled,    \* ctx
    pool,         \* the connection pool is open
    faults        \* database errors so far

data == <<offered, queue, batch, flush, mode, dropped>>
tables == <<rows, failed, faults>>
process == <<producing, cancelled, pool>>
vars == <<data, tables, process>>

Writers == EngineWriters \cup {RawWriter}
Items == Nat \ {0}
Elements(s) == {s[i] : i \in DOMAIN s}

\* fresh: the context of the flush is not derived from the writer's own.
\* expired: its deadline has passed.
Flush(step, left, fresh, expired) ==
    [step |-> step, left |-> left, fresh |-> fresh, expired |-> expired]
NoFlush == Flush("none", <<>>, FALSE, FALSE)
FlushOf(items, fresh) == Flush(IF items = <<>> THEN "none" ELSE "batch", items, fresh, FALSE)

Init ==
    /\ offered = [w \in Writers |-> 0]
    /\ queue = [w \in Writers |-> <<>>] /\ batch = [w \in Writers |-> <<>>]
    /\ flush = [w \in Writers |-> NoFlush]
    /\ mode = [w \in Writers |-> "running"]
    /\ rows = [w \in Writers |-> {}] /\ failed = [w \in Writers |-> {}]
    /\ dropped = [w \in Writers |-> {}]
    /\ producing = Writers
    /\ cancelled = FALSE /\ pool = TRUE /\ faults = 0

\* The raw writer runs under the context of the process; the writers of an
\* engine under one that Run cancels when its loop and finalizers have ended.
Done(w) == IF w = RawWriter THEN cancelled ELSE w \notin producing

-----------------------------------------------------------------------------
\* The fan-out, emitTick and finalizeSnapshot: a send that drops when full.
Produce(w) ==
    LET item == offered[w] + 1
    IN  /\ w \in producing
        /\ offered[w] < MaxItems[w]
        /\ offered' = [offered EXCEPT ![w] = item]
        /\ \/ /\ Len(queue[w]) < QueueCap
              /\ queue' = [queue EXCEPT ![w] = Append(@, item)] /\ UNCHANGED dropped
           \/ /\ Len(queue[w]) >= QueueCap
              /\ dropped' = [dropped EXCEPT ![w] = @ \cup {item}] /\ UNCHANGED queue
        /\ UNCHANGED <<batch, flush, mode, tables, process>>

\* An item joins the batch; a full batch is flushed at once.
Add(w, fresh) ==
    LET filled == Append(batch[w], Head(queue[w]))
        full == Len(filled) >= MaxRows
    IN  /\ queue[w] # <<>>
        /\ queue' = [queue EXCEPT ![w] = Tail(@)]
        /\ batch' = [batch EXCEPT ![w] = IF full THEN <<>> ELSE filled]
        /\ flush' = [flush EXCEPT ![w] = FlushOf(IF full THEN filled ELSE <<>>, fresh)]

Free(w, m) == mode[w] = m /\ flush[w].step = "none"

Take(w) ==
    /\ Free(w, "running")
    /\ Add(w, FALSE)
    /\ UNCHANGED <<offered, mode, dropped, tables, process>>

FlushBatch(w, fresh) ==
    /\ flush' = [flush EXCEPT ![w] = FlushOf(batch[w], fresh)]
    /\ batch' = [batch EXCEPT ![w] = <<>>]

FlushTimer(w) ==
    /\ Free(w, "running")
    /\ batch[w] # <<>>
    /\ FlushBatch(w, FALSE)
    /\ UNCHANGED <<offered, queue, mode, dropped, tables, process>>

\* The raw writer sees ctx.Done(): a last flush, and it returns.
LastFlush(w) ==
    /\ w = RawWriter
    /\ Free(w, "running") /\ Done(w)
    /\ FlushBatch(w, TRUE)
    /\ mode' = [mode EXCEPT ![w] = "done"]
    /\ UNCHANGED <<offered, queue, dropped, tables, process>>

\* Mutant: the writers of an engine do not drain either.
StartDrainLast(w) ==
    /\ w \in EngineWriters
    /\ Free(w, "running") /\ Done(w)
    /\ FlushBatch(w, TRUE)
    /\ mode' = [mode EXCEPT ![w] = "done"]
    /\ UNCHANGED <<offered, queue, dropped, tables, process>>

\* The writers of an engine drain their queue first.
StartDrain(w) ==
    /\ w \in EngineWriters
    /\ Free(w, "running") /\ Done(w)
    /\ mode' = [mode EXCEPT ![w] = "draining"]
    /\ UNCHANGED <<offered, queue, batch, flush, dropped, tables, process>>

Drain(w) ==
    /\ Free(w, "draining")
    /\ \/ Add(w, TRUE) /\ UNCHANGED mode
       \/ /\ queue[w] = <<>>
          /\ FlushBatch(w, TRUE)
          /\ mode' = [mode EXCEPT ![w] = "done"] /\ UNCHANGED queue
    /\ UNCHANGED <<offered, dropped, tables, process>>

-----------------------------------------------------------------------------
(* flush: one transaction for the batch, then one insert per item *)

\* The database can be reached under the context of the flush.
Usable(w) == pool /\ ~flush[w].expired /\ (flush[w].fresh \/ ~Done(w))

\* A row with this key is in the table, whoever wrote it: the snapshots of two
\* symbols have the same key when they are of the same second.
HasRow(k) == \E w \in Writers : \E i \in rows[w] : Key[w][i] = k

\* ON CONFLICT DO NOTHING: the items that become rows when a sequence is inserted.
\* The others are left out without an error.
NewRows(w, items) == {items[n] : n \in {n \in DOMAIN items :
    /\ ~HasRow(Key[w][items[n]])
    /\ \A m \in 1..(n - 1) : Key[w][items[m]] # Key[w][items[n]]}}

\* An error of the database itself, or its answer comes too late.
Fault == faults < MaxFaults /\ faults' = faults + 1

BatchInsert(w) ==
    /\ flush[w].step = "batch" /\ Usable(w)
    /\ rows' = [rows EXCEPT ![w] = @ \cup NewRows(w, flush[w].left)]
    /\ flush' = [flush EXCEPT ![w] = NoFlush]
    /\ UNCHANGED <<offered, queue, batch, mode, dropped, failed, faults, process>>

\* Mutant: a failed batch is given up.
BatchFailsGivingUp(w) ==
    /\ flush[w].step = "batch"
    /\ IF Usable(w) THEN Fault ELSE UNCHANGED faults
    /\ flush' = [flush EXCEPT ![w] = NoFlush]
    /\ UNCHANGED <<offered, queue, batch, mode, dropped, rows, failed, process>>

\* Flushes have a deadline, except those of the raw writer while it runs.
HasDeadline(w) == w # RawWriter \/ flush[w].fresh

\* The batch fails; the deadline may have passed, and the commit may have
\* happened although its answer was lost.
BatchFails(w) ==
    /\ flush[w].step = "batch"
    /\ \/ ~Usable(w) /\ UNCHANGED <<rows, faults>>
          /\ flush' = [flush EXCEPT ![w] = Flush("single", @.left, @.fresh, @.expired)]
       \/ /\ Usable(w) /\ Fault
          /\ \E late \in BOOLEAN :
                /\ late => HasDeadline(w)
                /\ flush' = [flush EXCEPT ![w] = Flush("single", @.left, @.fresh, late)]
          /\ \/ UNCHANGED rows
             \/ rows' = [rows EXCEPT ![w] = @ \cup NewRows(w, flush[w].left)]
    /\ UNCHANGED <<offered, queue, batch, mode, dropped, failed, process>>

NextSingle(w) ==
    flush' = [flush EXCEPT ![w] = IF Len(@.left) = 1 THEN NoFlush
                                  ELSE Flush("single", Tail(@.left), @.fresh, @.expired)]

\* One insert; an item whose key has a row already is let go of silently.
SingleInsert(w) ==
    /\ flush[w].step = "single" /\ Usable(w)
    /\ rows' = [rows EXCEPT ![w] = @ \cup NewRows(w, <<Head(flush[w].left)>>)]
    /\ NextSingle(w)
    /\ UNCHANGED <<offered, queue, batch, mode, dropped, failed, faults, process>>

\* Mutant: an insert that fails is tried again.
SingleFailsRetrying(w) ==
    /\ flush[w].step = "single"
    /\ IF Usable(w) THEN Fault ELSE UNCHANGED faults
    /\ UNCHANGED <<data, rows, failed, process>>

SingleFails(w) ==
    /\ flush[w].step = "single"
    /\ IF Usable(w) THEN Fault ELSE UNCHANGED faults
    /\ failed' = [failed EXCEPT ![w] = @ \cup {Head(flush[w].left)}]
    /\ NextSingle(w)
    /\ UNCHANGED <<offered, queue, batch, mode, dropped, rows, process>>

-----------------------------------------------------------------------------
(* The end of the process *)

Cancel ==
    /\ ~cancelled /\ cancelled' = TRUE
    /\ UNCHANGED <<data, tables, producing, pool>>

\* waitForDatabaseAndStart returns from <-ctx.Done(): its deferred Close.
ClosePool ==
    /\ cancelled /\ pool /\ pool' = FALSE
    /\ UNCHANGED <<data, tables, producing, cancelled>>

\* The fan-out returns; the engine's loop does and its finalizers have ended.
ProducerStops(w) ==
    /\ cancelled /\ w \in producing
    /\ producing' = producing \ {w}
    /\ UNCHANGED <<data, tables, cancelled, pool>>

Write(w) ==
    \/ Take(w) \/ FlushTimer(w) \/ LastFlush(w) \/ StartDrain(w) \/ Drain(w)
    \/ BatchInsert(w) \/ BatchFails(w) \/ SingleInsert(w) \/ SingleFails(w)

Next ==
    \/ \E w \in Writers : Produce(w) \/ Write(w) \/ ProducerStops(w)
    \/ Cancel \/ ClosePool

Spec == Init /\ [][Next]_vars

\* Timers fire, the database answers or the deadline passes, goroutines return.
FairSpec ==
    /\ Spec /\ WF_vars(ClosePool)
    /\ \A w \in Writers : WF_vars(Write(w))
    /\ \A w \in EngineWriters : WF_vars(ProducerStops(w))
-----------------------------------------------------------------------------
(* Properties *)

TypeOK ==
    /\ offered \in [Writers -> Nat]
    /\ queue \in [Writers -> Seq(Items)] /\ batch \in [Writers -> Seq(Items)]
    /\ flush \in [Writers -> [step : {"none", "batch", "single"}, left : Seq(Items),
                              fresh : BOOLEAN, expired : BOOLEAN]]
    /\ mode \in [Writers -> {"running", "draining", "done"}]
    /\ rows \in [Writers -> SUBSET Items] /\ failed \in [Writers -> SUBSET Items]
    /\ dropped \in [Writers -> SUBSET Items]
    /\ producing \subseteq Writers
    /\ cancelled \in BOOLEAN /\ pool \in BOOLEAN /\ faults \in 0..MaxFaults

Waiting(w) == Elements(queue[w]) \cup Elements(batch[w]) \cup Elements(flush[w].left)

\* Nothing is forgotten on the way: an item that was accepted waits, or was
\* reported, or there is a row with its key (its own, or the one of another symbol
\* that was there first), through batches, failed batches, lost answers, conflicts
\* of two writers and the end of the process.
KeyAt == [p \in Writers \X Items |-> Key[p[1]][p[2]]]
AllOf(itemsOf) == UNION {{w} \X itemsOf[w] : w \in Writers}
Store == INSTANCE StoreOnce WITH
    Items <- Writers \X Items, KeyOf <- KeyAt,
    waiting <- AllOf([w \in Writers |-> Waiting(w)]),
    stored <- AllOf(rows), failed <- AllOf(failed), dropped <- AllOf(dropped)
StoresOnce == Store!StoreSpec

\* When a writer of an engine has returned, nothing is left in its queue and
\* nothing can be added to it: Run cancels it after the last finalizer, and it
\* drains. (The raw writer does leave items in its queue.)
NothingLeftBehind == \A w \in EngineWriters :
    (mode[w] = "done" /\ flush[w].step = "none") => (Waiting(w) = {} /\ w \notin producing)

\* For an item an engine queued there is a row with its key or it is reported,
\* whenever the process ends.
Settled == \A w \in EngineWriters : \A i \in 1..MaxItems[w] :
    (i \in Waiting(w)) ~> (HasRow(Key[w][i]) \/ i \in failed[w])

\* The process ends: every writer returns after a cancellation, whatever the
\* database does.
WritersReturn == cancelled ~> \A w \in Writers : mode[w] = "done" /\ flush[w].step = "none"

\* docs/OPTIMIZATION.md:41: the writers drain "so batched writes are not lost on
\* shutdown"; with a database that makes no error.
ShutdownWrites == \A w \in EngineWriters : faults = 0 => failed[w] = {}
=============================================================================
