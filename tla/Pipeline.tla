------------------------------ MODULE Pipeline ------------------------------
(***************************************************************************)
(* The collector's goroutines and channels, from App.Start to App.Stop     *)
(* (app/app.go), with the worker pool (poller/worker.go) and the trap      *)
(* receiver (trapreceiver/receiver.go):                                    *)
(*                                                                         *)
(*  scheduler -jobs-> workers -raw-> decode -decoded-> produce -metric->   *)
(*     format --formatted--> transport            trap listener -trap->    *)
(*     trapformat -^                                                       *)
(*                                                                         *)
(* A channel is its buffer and whether it is closed.  A send blocks while  *)
(* the buffer is full; a send to a closed channel, or closing one twice,   *)
(* ends the process (panicked).  The work of a stage on one message is     *)
(* local, so a stage receives and transforms in one step and sends in a    *)
(* second.  A message is a number: which poll, or which trap, it stands    *)
(* for; what the stages compute is the subject of other modules.           *)
(***************************************************************************)
EXTENDS Integers, Sequences, FiniteSets, Ranking

CONSTANTS
    Workers,       \* the worker goroutines
    BufferSize,    \* Config.BufferSize: capacity of raw .. formatted
    TrapBuffer,    \* trapreceiver.Config.OutputBufferSize
    TrapEnabled,   \* Config.TrapEnabled
    MaxJobs,       \* bound: jobs the scheduler fires
    MaxTraps,      \* bound: traps that arrive
    NoMsg, Nobody

ASSUME PipelineAssumption ==
    /\ IsFiniteSet(Workers) /\ Workers # {}
    /\ BufferSize \in Nat \ {0} /\ TrapBuffer \in Nat \ {0}
    /\ TrapEnabled \in BOOLEAN
    /\ MaxJobs \in Nat /\ MaxTraps \in Nat
    /\ NoMsg \notin [lane : {"poll", "trap"}, id : Nat]
    /\ Nobody \notin {"app", "watcher"}

Message == [lane : {"poll", "trap"}, id : Nat]
Chans   == {"jobs", "raw", "decoded", "metric", "formatted", "trap"}
Stages  == {"decode", "produce", "format", "trapformat", "transport"}

\* Goroutines that call TrapReceiver.Stop: App.Stop and the context watcher.
Stoppers == {"app", "watcher"}

VARIABLES
    apc,        \* position in App.Start and App.Stop
    cancelled,  \* the pipeline context is done
    ch, closed, \* contents of each channel; the channels that are closed
    sched,      \* the scheduler goroutine: "new", "wait", "fire", "exited"
    fired,      \* jobs fired so far
    wpc, wmsg,  \* each worker: "new", "select", "poll", "emit", "exited"; its message
    st, buf,    \* each stage: "new", "recv", "send", "exited"; its message
    formatWg,   \* the counter of App.formatWg
    gate,       \* the goroutine that closes formatted: "new", "wait", "exited"
    listener,   \* the listen goroutine: "new", "up", "exited"
    running,    \* TrapReceiver.running
    tmu, tpc,   \* holder of TrapReceiver.mu; each stopper: "idle", "drain", "done"
    arrived,    \* traps received so far
    panicked    \* the process died of a send to, or a close of, a closed channel

appVars   == <<apc, cancelled>>
schedVars == <<sched, fired>>
workVars  == <<wpc, wmsg>>
stageVars == <<st, buf, formatWg, gate>>
trapVars  == <<listener, running, tmu, tpc, arrived>>
vars == <<appVars, ch, closed, schedVars, workVars, stageVars, trapVars, panicked>>

In(s) == CASE s = "decode"     -> "raw"
           [] s = "produce"    -> "decoded"
           [] s = "format"     -> "metric"
           [] s = "trapformat" -> "trap"
           [] s = "transport"  -> "formatted"

Out(s) == CASE s = "decode"     -> "decoded"
            [] s = "produce"    -> "metric"
            [] s = "format"     -> "formatted"
            [] s = "trapformat" -> "formatted"

Cap(c) == CASE c = "jobs" -> 2 * Cardinality(Workers)
            [] c = "trap" -> TrapBuffer
            [] OTHER      -> BufferSize

Push(c, m) == [ch EXCEPT ![c] = Append(@, m)]
Pop(c)     == [ch EXCEPT ![c] = Tail(@)]

\* close(c)
CloseChan(c) ==
    /\ closed' = closed \cup {c}
    /\ panicked' = (c \in closed)
-----------------------------------------------------------------------------
\* App.Start has loaded its configuration and made its channels.
Init ==
    /\ apc = "trapstart"
    /\ cancelled = FALSE
    /\ ch = [c \in Chans |-> <<>>]
    /\ closed = {}
    /\ sched = "new" /\ fired = 0
    /\ wpc = [w \in Workers |-> "new"]
    /\ wmsg = [w \in Workers |-> NoMsg]
    /\ st = [s \in Stages |-> "new"]
    /\ buf = [s \in Stages |-> NoMsg]
    /\ formatWg = 0
    /\ gate = "new"
    /\ listener = "new" /\ running = FALSE
    /\ tmu = Nobody
    /\ tpc = [p \in Stoppers |-> "idle"]
    /\ arrived = 0
    /\ panicked = FALSE
-----------------------------------------------------------------------------
(* App.Start *)

\* The trap receiver is disabled, or its Start fails; the app goes on without.
StartWithoutTrap ==
    /\ apc = "trapstart"
    /\ apc' = "add"
    /\ UNCHANGED <<cancelled, ch, closed, schedVars, workVars, stageVars, trapVars, panicked>>

\* TrapReceiver.Start succeeds: listener and context watcher run.
StartTrap ==
    /\ apc = "trapstart"
    /\ TrapEnabled
    /\ apc' = "add"
    /\ listener' = "up"
    /\ running' = TRUE
    /\ UNCHANGED <<cancelled, ch, closed, schedVars, workVars, stageVars, tmu, tpc, arrived, panicked>>

\* App.Start's trapStarted (and App.Stop's a.trapReceiver != nil).
trapStarted == listener # "new"

\* formatWg.Add(numFormatters), before any goroutine can wait for it.
AddFormatters ==
    /\ apc = "add"
    /\ formatWg' = IF trapStarted THEN 2 ELSE 1
    /\ apc' = "transport"
    /\ UNCHANGED <<cancelled, ch, closed, schedVars, workVars, st, buf, gate, trapVars, panicked>>

\* The stage goroutines are launched last stage first.
AfterLaunch(s) == CASE s = "transport"  -> "format"
                    [] s = "format"     -> IF trapStarted THEN "trapformat" ELSE "produce"
                    [] s = "trapformat" -> "produce"
                    [] s = "produce"    -> "decode"
                    [] s = "decode"     -> "workers"

Launch(s) ==
    /\ apc = s
    /\ st' = [st EXCEPT ![s] = "recv"]
    /\ gate' = IF s = "transport" THEN "wait" ELSE gate
    /\ apc' = AfterLaunch(s)
    /\ UNCHANGED <<cancelled, ch, closed, schedVars, workVars, buf, formatWg, trapVars, panicked>>

\* workerPool.Start
StartWorkers ==
    /\ apc = "workers"
    /\ wpc' = [w \in Workers |-> "select"]
    /\ apc' = "sched"
    /\ UNCHANGED <<cancelled, ch, closed, schedVars, wmsg, stageVars, trapVars, panicked>>

StartScheduler ==
    /\ apc = "sched"
    /\ sched' = "wait"
    /\ apc' = "running"
    /\ UNCHANGED <<cancelled, ch, closed, fired, workVars, stageVars, trapVars, panicked>>

\* SIGINT or SIGTERM cancels the parent context, at any time.
Signal ==
    /\ ~cancelled
    /\ cancelled' = TRUE
    /\ UNCHANGED <<apc, ch, closed, schedVars, workVars, stageVars, trapVars, panicked>>
-----------------------------------------------------------------------------
(* The scheduler, as far as the pipeline sees it *)

\* The timer of the next due entry fires.
SchedWake ==
    /\ sched = "wait"
    /\ fired < MaxJobs
    /\ sched' = "fire"
    /\ UNCHANGED <<appVars, ch, closed, fired, workVars, stageVars, trapVars, panicked>>

\* fireEntry: TrySubmit one job, dropping it when the channel is full; then
\* the next job of the due entries or the next wait.
SchedFire ==
    /\ sched = "fire"
    /\ LET m == [lane |-> "poll", id |-> fired] IN
       IF "jobs" \in closed \/ Len(ch["jobs"]) < Cap("jobs")
         THEN ch' = Push("jobs", m) /\ panicked' = ("jobs" \in closed)
         ELSE UNCHANGED <<ch, panicked>>
    /\ fired' = fired + 1
    /\ \/ sched' = "wait"
       \/ fired' < MaxJobs /\ UNCHANGED sched
    /\ UNCHANGED <<appVars, closed, workVars, stageVars, trapVars>>

\* Mutant of SchedExit: a break that leaves the select but not the loop.
SchedExitBreak ==
    /\ sched = "wait"
    /\ cancelled
    /\ UNCHANGED vars

\* ctx.Done() while waiting: Start returns and Scheduler.done is closed.
SchedExit ==
    /\ sched = "wait"
    /\ cancelled
    /\ sched' = "exited"
    /\ UNCHANGED <<appVars, ch, closed, fired, workVars, stageVars, trapVars, panicked>>
-----------------------------------------------------------------------------
(* Workers *)

\* case job, ok := <-w.jobs
WorkerTake(w) ==
    /\ wpc[w] = "select"
    /\ ch["jobs"] # <<>>
    /\ ch' = Pop("jobs")
    /\ wmsg' = [wmsg EXCEPT ![w] = Head(ch["jobs"])]
    /\ wpc' = [wpc EXCEPT ![w] = "poll"]
    /\ UNCHANGED <<appVars, closed, schedVars, stageVars, trapVars, panicked>>

\* The job channel is closed and empty, or the context is done.
WorkerExit(w) ==
    /\ wpc[w] = "select"
    /\ cancelled \/ ("jobs" \in closed /\ ch["jobs"] = <<>>)
    /\ wpc' = [wpc EXCEPT ![w] = "exited"]
    /\ UNCHANGED <<appVars, ch, closed, schedVars, wmsg, stageVars, trapVars, panicked>>

\* Poll returns a result, or an error and some varbinds.
WorkerResult(w) ==
    /\ wpc[w] = "poll"
    /\ wpc' = [wpc EXCEPT ![w] = "emit"]
    /\ UNCHANGED <<appVars, ch, closed, schedVars, wmsg, stageVars, trapVars, panicked>>

\* Mutant of WorkerFail: the missing result is emitted all the same.
WorkerFailEmit(w) ==
    /\ wpc[w] = "poll"
    /\ wpc' = [wpc EXCEPT ![w] = "emit"]
    /\ wmsg' = [wmsg EXCEPT ![w] = NoMsg]
    /\ UNCHANGED <<appVars, ch, closed, schedVars, stageVars, trapVars, panicked>>

\* Poll fails and there are no varbinds to emit.
WorkerFail(w) ==
    /\ wpc[w] = "poll"
    /\ wpc' = [wpc EXCEPT ![w] = "select"]
    /\ wmsg' = [wmsg EXCEPT ![w] = NoMsg]
    /\ UNCHANGED <<appVars, ch, closed, schedVars, stageVars, trapVars, panicked>>

\* case w.output <- result
WorkerEmit(w) ==
    /\ wpc[w] = "emit"
    /\ "raw" \in closed \/ Len(ch["raw"]) < Cap("raw")
    /\ ch' = Push("raw", wmsg[w])
    /\ panicked' = ("raw" \in closed)
    /\ wmsg' = [wmsg EXCEPT ![w] = NoMsg]
    /\ wpc' = [wpc EXCEPT ![w] = "select"]
    /\ UNCHANGED <<appVars, closed, schedVars, stageVars, trapVars>>

\* case <-ctx.Done() while the result waits for room: it is dropped.
WorkerAbandon(w) ==
    /\ wpc[w] = "emit"
    /\ cancelled
    /\ wmsg' = [wmsg EXCEPT ![w] = NoMsg]
    /\ wpc' = [wpc EXCEPT ![w] = "exited"]
    /\ UNCHANGED <<appVars, ch, closed, schedVars, stageVars, trapVars, panicked>>
-----------------------------------------------------------------------------
(* Stages *)

\* A message is received and will be passed on.
StageRecv(s) ==
    /\ st[s] = "recv"
    /\ ch[In(s)] # <<>>
    /\ ch' = Pop(In(s))
    /\ buf' = [buf EXCEPT ![s] = Head(ch[In(s)])]
    /\ st' = [st EXCEPT ![s] = "send"]
    /\ UNCHANGED <<appVars, closed, schedVars, workVars, formatWg, gate, trapVars, panicked>>

\* A message is received and comes to nothing: an error or an empty result.
StageDrop(s) ==
    /\ st[s] = "recv"
    /\ s # "transport"
    /\ ch[In(s)] # <<>>
    /\ ch' = Pop(In(s))
    /\ UNCHANGED <<appVars, closed, schedVars, workVars, stageVars, trapVars, panicked>>

\* The send to the next channel.
StageSend(s) ==
    /\ st[s] = "send"
    /\ s # "transport"
    /\ Out(s) \in closed \/ Len(ch[Out(s)]) < Cap(Out(s))
    /\ ch' = Push(Out(s), buf[s])
    /\ panicked' = (Out(s) \in closed)
    /\ buf' = [buf EXCEPT ![s] = NoMsg]
    /\ st' = [st EXCEPT ![s] = "recv"]
    /\ UNCHANGED <<appVars, closed, schedVars, workVars, formatWg, gate, trapVars>>

\* Mutant of TransportSend: a failed Send is repeated, and the sink stays broken.
TransportRetry ==
    /\ st["transport"] = "send"
    /\ UNCHANGED vars

\* Mutant of TransportSend: a message whose Send failed is queued again.
TransportRequeue ==
    /\ st["transport"] = "send"
    /\ "formatted" \notin closed /\ ch["formatted"] = <<>>
    /\ ch' = Push("formatted", buf["transport"])
    /\ buf' = [buf EXCEPT !["transport"] = NoMsg]
    /\ st' = [st EXCEPT !["transport"] = "recv"]
    /\ UNCHANGED <<appVars, closed, schedVars, workVars, formatWg, gate, trapVars, panicked>>

\* transport.Send, whose error is logged only.
TransportSend ==
    /\ st["transport"] = "send"
    /\ buf' = [buf EXCEPT !["transport"] = NoMsg]
    /\ st' = [st EXCEPT !["transport"] = "recv"]
    /\ UNCHANGED <<appVars, ch, closed, schedVars, workVars, formatWg, gate, trapVars, panicked>>

\* Mutant of StageExit: a stage leaves as soon as its input is closed.
StageExitEarly(s) ==
    /\ st[s] = "recv"
    /\ In(s) \in closed
    /\ st' = [st EXCEPT ![s] = "exited"]
    /\ IF s \in {"decode", "produce"}
         THEN CloseChan(Out(s))
         ELSE UNCHANGED <<closed, panicked>>
    /\ formatWg' = IF s \in {"format", "trapformat"} THEN formatWg - 1 ELSE formatWg
    /\ UNCHANGED <<appVars, ch, schedVars, workVars, buf, gate, trapVars>>

\* The input is closed and empty.  The deferred calls close the output (decode,
\* produce) or count the formatter down, and the goroutine ends.
StageExit(s) ==
    /\ st[s] = "recv"
    /\ In(s) \in closed
    /\ ch[In(s)] = <<>>
    /\ st' = [st EXCEPT ![s] = "exited"]
    /\ IF s \in {"decode", "produce"}
         THEN CloseChan(Out(s))
         ELSE UNCHANGED <<closed, panicked>>
    /\ formatWg' = IF s \in {"format", "trapformat"} THEN formatWg - 1 ELSE formatWg
    /\ UNCHANGED <<appVars, ch, schedVars, workVars, buf, gate, trapVars>>

\* formatWg.Wait() returns and formatted is closed.
GateClose ==
    /\ gate = "wait"
    /\ formatWg = 0
    /\ CloseChan("formatted")
    /\ gate' = "exited"
    /\ UNCHANGED <<appVars, ch, schedVars, workVars, st, buf, formatWg, trapVars>>
-----------------------------------------------------------------------------
(* The trap receiver *)

\* handleTrap: a parsed trap is offered to the output channel without blocking.
TrapArrive ==
    /\ listener = "up"
    /\ arrived < MaxTraps
    /\ arrived' = arrived + 1
    /\ IF "trap" \in closed \/ Len(ch["trap"]) < Cap("trap")
         THEN /\ ch' = Push("trap", [lane |-> "trap", id |-> arrived])
              /\ panicked' = ("trap" \in closed)
         ELSE UNCHANGED <<ch, panicked>>
    /\ UNCHANGED <<appVars, closed, schedVars, workVars, stageVars, listener, running, tmu, tpc>>

\* Listen returns, because Stop closed the listener or the socket failed, and
\* doneCh is closed.
ListenerExit ==
    /\ listener = "up"
    /\ listener' = "exited"
    /\ UNCHANGED <<appVars, ch, closed, schedVars, workVars, stageVars, running, tmu, tpc, arrived, panicked>>

\* Stop takes the mutex; whoever finds the receiver stopped returns.
TrapStop(p) ==
    /\ tpc[p] = "idle"
    /\ tmu = Nobody
    /\ IF running
         THEN /\ running' = FALSE
              /\ tmu' = p
              /\ tpc' = [tpc EXCEPT ![p] = "drain"]
         ELSE /\ tpc' = [tpc EXCEPT ![p] = "done"]
              /\ UNCHANGED <<running, tmu>>
    /\ UNCHANGED <<appVars, ch, closed, schedVars, workVars, stageVars, listener, arrived, panicked>>

\* Mutant of TrapStopped: the output is closed without waiting for doneCh.
TrapStoppedEarly(p) ==
    /\ tpc[p] = "drain"
    /\ CloseChan("trap")
    /\ tmu' = Nobody
    /\ tpc' = [tpc EXCEPT ![p] = "done"]
    /\ UNCHANGED <<appVars, ch, schedVars, workVars, stageVars, listener, running, arrived>>

\* <-r.doneCh, close(r.output), unlock.
TrapStopped(p) ==
    /\ tpc[p] = "drain"
    /\ listener = "exited"
    /\ CloseChan("trap")
    /\ tmu' = Nobody
    /\ tpc' = [tpc EXCEPT ![p] = "done"]
    /\ UNCHANGED <<appVars, ch, schedVars, workVars, stageVars, listener, running, arrived>>

\* The watcher goroutine, and the call in App.Stop.
WatcherStop == cancelled /\ trapStarted /\ TrapStop("watcher")
AppTrapStop == apc = "stoptrap" /\ trapStarted /\ TrapStop("app")
-----------------------------------------------------------------------------
(* App.Stop *)

StopStep(from, to) ==
    /\ apc = from
    /\ apc' = to
    /\ UNCHANGED <<schedVars, workVars, stageVars, trapVars, ch>>

\* a.cancel()
StopCancel ==
    /\ StopStep("running", "waitsched")
    /\ cancelled' = TRUE
    /\ UNCHANGED <<closed, panicked>>

\* sched.Stop() returns.
StopSched ==
    /\ sched = "exited"
    /\ StopStep("waitsched", "closejobs")
    /\ UNCHANGED <<cancelled, closed, panicked>>

\* workerPool.Stop(): close(w.jobs) ...
StopJobs ==
    /\ StopStep("closejobs", "waitworkers")
    /\ CloseChan("jobs")
    /\ UNCHANGED cancelled

\* ... and w.wg.Wait().
StopWorkers ==
    /\ \A w \in Workers : wpc[w] = "exited"
    /\ StopStep("waitworkers", "closeraw")
    /\ UNCHANGED <<cancelled, closed, panicked>>

StopRaw ==
    /\ StopStep("closeraw", "stoptrap")
    /\ CloseChan("raw")
    /\ UNCHANGED cancelled

\* trapReceiver.Stop() has returned, or there is no receiver.
StopTrap ==
    /\ trapStarted => tpc["app"] = "done"
    /\ StopStep("stoptrap", "waitwg")
    /\ UNCHANGED <<cancelled, closed, panicked>>

\* a.wg.Wait(): the scheduler and every stage that was launched have returned.
StopWait ==
    /\ \A s \in Stages : st[s] \in {"new", "exited"}
    /\ StopStep("waitwg", "closetransport")
    /\ UNCHANGED <<cancelled, closed, panicked>>

\* transport.Close()
StopTransport ==
    /\ StopStep("closetransport", "closepool")
    /\ UNCHANGED <<cancelled, closed, panicked>>

\* connPool.Close()
StopPool ==
    /\ StopStep("closepool", "done")
    /\ UNCHANGED <<cancelled, closed, panicked>>
-----------------------------------------------------------------------------
Start == \/ StartWithoutTrap \/ StartTrap \/ AddFormatters
         \/ \E s \in Stages : Launch(s)
         \/ StartWorkers \/ StartScheduler

Scheduler == SchedWake \/ SchedFire \/ SchedExit

Worker(w) == \/ WorkerTake(w) \/ WorkerExit(w) \/ WorkerResult(w)
             \/ WorkerFail(w) \/ WorkerEmit(w) \/ WorkerAbandon(w)

Stage(s) == StageRecv(s) \/ StageDrop(s) \/ StageSend(s) \/ StageExit(s)

Receiver == \/ TrapArrive \/ ListenerExit \/ WatcherStop \/ AppTrapStop
            \/ \E p \in Stoppers : TrapStopped(p)

Stop == \/ StopCancel \/ StopSched \/ StopJobs \/ StopWorkers \/ StopRaw
        \/ StopTrap \/ StopWait \/ StopTransport \/ StopPool

\* main returns.
Terminated == apc = "done" /\ UNCHANGED vars

Next ==
    /\ ~panicked
    /\ \/ Start \/ Signal \/ Scheduler
       \/ \E w \in Workers : Worker(w)
       \/ \E s \in Stages : Stage(s)
       \/ TransportSend \/ GateClose \/ Receiver \/ Stop \/ Terminated

Spec == Init /\ [][Next]_vars

\* Goroutines that can run do run.  Stop is called once the context is done
\* (main blocks on it); Listen returns once Stop has closed the listener; a
\* select with several ready cases takes each of them sooner or later.
Fairness ==
    /\ WF_vars(~panicked /\ Start)
    /\ WF_vars(~panicked /\ SchedFire) /\ SF_vars(~panicked /\ SchedExit)
    /\ \A w \in Workers : WF_vars(~panicked /\ Worker(w))
    /\ \A s \in Stages : WF_vars(~panicked /\ Stage(s))
    /\ WF_vars(~panicked /\ TransportSend)
    /\ WF_vars(~panicked /\ GateClose)
    /\ WF_vars(~panicked /\ ~running /\ ListenerExit)
    /\ WF_vars(~panicked /\ WatcherStop) /\ WF_vars(~panicked /\ AppTrapStop)
    /\ \A p \in Stoppers : WF_vars(~panicked /\ TrapStopped(p))
    /\ WF_vars(~panicked /\ cancelled /\ Stop)

FairSpec == Spec /\ Fairness
-----------------------------------------------------------------------------
(* Properties *)

\* Contents of a stage's hand, as a sequence.
Hand(s) == IF buf[s] = NoMsg THEN <<>> ELSE <<buf[s]>>

\* The messages of one lane among those of both.
OfLane(q, l) == Picked(q, {i \in DOMAIN q : q[i].lane = l})

\* What the transport has still to take, in order, lane by lane.
Pending ==
    [l \in {"poll", "trap"} |->
       IF l = "trap"
         THEN OfLane(ch["formatted"], l) \o Hand("trapformat") \o ch["trap"]
         ELSE OfLane(ch["formatted"], l) \o Hand("format") \o ch["metric"]
                \o Hand("produce") \o ch["decoded"] \o Hand("decode") \o ch["raw"]]

\* Every variable has the type of the Go value it stands for, and no channel
\* holds more than its capacity.
TypeOK ==
    /\ apc \in {"trapstart", "add", "workers", "sched", "running", "waitsched",
               "closejobs", "waitworkers", "closeraw", "stoptrap", "waitwg",
               "closetransport", "closepool", "done"} \cup Stages
    /\ cancelled \in BOOLEAN /\ panicked \in BOOLEAN /\ running \in BOOLEAN
    /\ ch \in [Chans -> Seq(Message)]
    /\ \A c \in Chans : Len(ch[c]) <= Cap(c)
    /\ closed \subseteq Chans
    /\ sched \in {"new", "wait", "fire", "exited"}
    /\ fired \in Nat /\ arrived \in Nat
    /\ wpc \in [Workers -> {"new", "select", "poll", "emit", "exited"}]
    /\ wmsg \in [Workers -> Message \cup {NoMsg}]
    /\ \A w \in Workers : wmsg[w] # NoMsg <=> wpc[w] \in {"poll", "emit"}
    /\ st \in [Stages -> {"new", "recv", "send", "exited"}]
    /\ buf \in [Stages -> Message \cup {NoMsg}]
    /\ \A s \in Stages : buf[s] # NoMsg <=> st[s] = "send"
    /\ formatWg \in Nat
    /\ gate \in {"new", "wait", "exited"}
    /\ listener \in {"new", "up", "exited"}
    /\ tmu \in Stoppers \cup {Nobody}
    /\ tpc \in [Stoppers -> {"idle", "drain", "done"}]

\* Nobody sends to a closed channel or closes one twice: the scheduler is
\* gone before jobs is closed, the workers before raw, each stage before its
\* output, both formatters before formatted, and the listener before trap.
NoPanic == ~panicked

\* When the transport is closed, and after it the connection pool, nobody
\* uses them any more and nothing that reached raw or the trap channel is
\* left behind in a channel or in a goroutine's hand.
DrainedAtStop ==
    apc \in {"closetransport", "closepool", "done"} =>
       /\ \A c \in Chans \ {"jobs"} : ch[c] = <<>>
       /\ \A s \in Stages : st[s] \in {"new", "exited"}
       /\ \A w \in Workers : wpc[w] = "exited"
       /\ listener # "up"

\* A signal, whenever it comes, leads to a complete shutdown: no goroutine of
\* the shutdown chain waits for ever for another.
ShutdownCompletes == cancelled ~> apc = "done"

\* Whatever enters the pipeline is taken by the transport or dropped with an
\* error; nothing is stuck behind a full channel.  (Arrivals are bounded, so each
\* lane runs empty.)
ResultsMove == \A l \in {"poll", "trap"} : Pending[l] # <<>> ~> Pending[l] = <<>>

Queue == INSTANCE CollectorQueue WITH
            Lanes <- {"poll", "trap"},
            queue <- Pending,
            writing <- buf["transport"],
            stopped <- apc \in {"closepool", "done"}

\* The pipeline implements the two queues: order is kept per lane from raw, or
\* from the trap channel, to the transport, nothing is written twice, and the
\* transport is closed only when there is nothing left to write.
ImplementsQueue == Queue!Spec
=============================================================================
