--------------------------- MODULE PipelineProofs ---------------------------
(***************************************************************************)
(* Proofs about Pipeline, for any number of workers, any buffer sizes and  *)
(* with or without the trap receiver.                                      *)
(*                                                                         *)
(* NoPanic is not inductive: that a send meets an open channel follows     *)
(* from who has left before the channel was closed.  The inductive         *)
(* invariant says, hand-over by hand-over, which goroutines have left at   *)
(* each position of App.Stop and which channels are closed by then.        *)
(*                                                                         *)
(* ImplementsQueue maps the channels and hands that a message passes to a  *)
(* queue; with Laned, which keeps polls and traps apart, each step moves a *)
(* message within that chain, or appends or removes one at its ends.       *)
(***************************************************************************)
EXTENDS Pipeline, RankingProofs

\* Positions of App.Start at which a stage is not yet launched.
Before(s) ==
    {"trapstart", "add", "transport"} \cup
      CASE s = "transport"  -> {}
        [] s = "format"     -> {"format"}
        [] s = "trapformat" -> {"format", "trapformat"}
        [] s = "produce"    -> {"format", "trapformat", "produce"}
        [] s = "decode"     -> {"format", "trapformat", "produce", "decode"}

BeforeWorkers == Before("decode") \cup {"workers"}

\* Positions of App.Stop after each of its waits and closes.
PastWait    == {"closetransport", "closepool", "done"}
PastRaw     == {"stoptrap", "waitwg"} \cup PastWait
PastWorkers == {"closeraw"} \cup PastRaw
PastJobs    == {"waitworkers"} \cup PastWorkers
PastSched   == {"closejobs"} \cup PastJobs

\* The scheduler leaves before jobs is closed, the workers before raw is.
SourcesLeave ==
    /\ apc \in PastSched => sched = "exited"
    /\ "jobs" \in closed <=> apc \in PastJobs
    /\ apc \in BeforeWorkers => \A w \in Workers : wpc[w] = "new"
    /\ apc \in PastWorkers => \A w \in Workers : wpc[w] = "exited"
    /\ "raw" \in closed <=> apc \in PastRaw

\* The stages that App.Start launches: trapformat only with a receiver.
StagesLaunched ==
    \A s \in Stages :
       st[s] = "new" <=> apc \in Before(s) \/ (s = "trapformat" /\ ~trapStarted)

\* A stage leaves when its input is closed and empty, and nothing comes after.
StagesDrain ==
    \A s \in Stages : st[s] = "exited" => In(s) \in closed /\ ch[In(s)] = <<>>

\* Who closes the channels between the stages, and when.
StagesClose ==
    /\ "decoded" \in closed <=> st["decode"] = "exited"
    /\ "metric" \in closed <=> st["produce"] = "exited"
    /\ "formatted" \in closed <=> gate = "exited"

\* A formatter the gate has still to wait for.
Live(s) == IF st[s] = "exited" \/ (s = "trapformat" /\ ~trapStarted) THEN 0 ELSE 1

\* formatWg counts the formatters that have not returned.
GateWaits ==
    /\ gate = "new" <=> apc \in Before("transport")
    /\ apc \in {"trapstart", "add"} => formatWg = 0
    /\ apc \notin {"trapstart", "add"} => formatWg = Live("format") + Live("trapformat")
    /\ gate = "exited" => Live("format") = 0 /\ Live("trapformat") = 0

\* The receiver is stopped once: whoever finds it running owns the close of
\* the trap channel, and closes it after the listener has gone.
ReceiverStops ==
    /\ apc = "trapstart" => ~trapStarted
    /\ apc = "trapformat" => trapStarted
    /\ ~trapStarted => /\ ~running /\ tmu = Nobody /\ "trap" \notin closed
                       /\ ch["trap"] = <<>>
                       /\ \A p \in Stoppers : tpc[p] = "idle"
    /\ \A p \in Stoppers : tpc[p] = "drain" <=> tmu = p
    /\ tmu # Nobody => ~running /\ "trap" \notin closed
    /\ "trap" \in closed => ~running /\ listener = "exited"

\* App.Stop goes past wg.Wait() when every stage has returned.
AllReturned == apc \in PastWait => \A s \in Stages : st[s] \in {"new", "exited"}

IInv ==
    /\ TypeOK /\ NoPanic
    /\ SourcesLeave
    /\ StagesLaunched /\ StagesDrain /\ StagesClose /\ GateWaits
    /\ ReceiverStops
    /\ AllReturned
-----------------------------------------------------------------------------
(* Channels *)

\* A channel's capacity is a number.
LEMMA CapType == ASSUME NEW c \in Chans PROVE Cap(c) \in Nat
BY PipelineAssumption, FS_CardinalityType DEF Cap

\* The contents of the channels are well typed and within capacity.
ChansOK(x) == x \in [Chans -> Seq(Message)] /\ \A c \in Chans : Len(x[c]) <= Cap(c)

\* A receive takes a message off one channel; an empty channel stays empty.
LEMMA PopOK ==
    ASSUME ChansOK(ch), NEW c \in Chans, ch[c] # <<>>
    PROVE  /\ ChansOK(Pop(c))
           /\ Head(ch[c]) \in Message
           /\ \A d \in Chans : ch[d] = <<>> => Pop(c)[d] = <<>>
<1>1. ch[c] \in Seq(Message) /\ Len(ch[c]) <= Cap(c) /\ Cap(c) \in Nat
  BY CapType DEF ChansOK
<1>2. /\ Head(ch[c]) \in Message
      /\ Tail(ch[c]) \in Seq(Message)
      /\ Len(Tail(ch[c])) = Len(ch[c]) - 1
  BY <1>1
<1>3. Len(Tail(ch[c])) <= Cap(c)
  BY <1>1, <1>2
<1> QED BY <1>2, <1>3 DEF ChansOK, Pop

\* A send that finds room changes the contents of one channel.
LEMMA PushOK ==
    ASSUME ChansOK(ch), NEW c \in Chans, NEW m \in Message, Len(ch[c]) < Cap(c)
    PROVE  /\ ChansOK(Push(c, m))
           /\ \A d \in Chans : d # c => Push(c, m)[d] = ch[d]
<1>1. ch[c] \in Seq(Message) /\ Cap(c) \in Nat
  BY CapType DEF ChansOK
<1>2. /\ Append(ch[c], m) \in Seq(Message)
      /\ Len(Append(ch[c], m)) = Len(ch[c]) + 1
  BY <1>1
<1>3. Len(Append(ch[c], m)) <= Cap(c)
  BY <1>1, <1>2
<1> QED BY <1>2, <1>3 DEF ChansOK, Push

\* TypeOK without the channels.
LEMMA TypeParts == TypeOK => ChansOK(ch)
BY DEF TypeOK, ChansOK

\* The channels at a stage's ends.
LEMMA EndsType ==
    ASSUME NEW s \in Stages
    PROVE  /\ In(s) \in Chans
           /\ s # "transport" => Out(s) \in Chans
BY DEF Stages, In, Out, Chans
-----------------------------------------------------------------------------
(* The inductive invariant *)

\* App.Start has made its channels; no goroutine runs.
LEMMA InitIInv == Init => IInv
<1> SUFFICES ASSUME Init PROVE IInv
  OBVIOUS
<1> USE DEF Init
<1>1. \A c \in Chans : ch[c] = <<>> /\ Len(ch[c]) <= Cap(c)
  BY CapType
<1>2. ch \in [Chans -> Seq(Message)]
  OBVIOUS
<1>3. TypeOK
  BY <1>1, <1>2 DEF TypeOK
<1>4. SourcesLeave
  BY DEF SourcesLeave, PastSched, PastJobs, PastWorkers, PastRaw, PastWait
<1>5. StagesLaunched /\ StagesDrain
  BY DEF StagesLaunched, StagesDrain, Before, Stages
<1>6. StagesClose /\ GateWaits
  BY DEF StagesClose, GateWaits, Before, Stages
<1>7. ReceiverStops /\ AllReturned
  BY <1>1, PipelineAssumption DEF ReceiverStops, AllReturned, PastWait, trapStarted, Chans, Stoppers
<1> QED BY <1>3, <1>4, <1>5, <1>6, <1>7 DEF IInv, NoPanic

\* Each step of App.Start keeps the invariant.
LEMMA StartIInv == ASSUME IInv, Start PROVE IInv'
<1> USE DEF appVars, schedVars, workVars, stageVars, trapVars
<1>1. CASE StartWithoutTrap
  <2> USE <1>1 DEF IInv, StartWithoutTrap
  <2>1. TypeOK'
    BY DEF TypeOK
  <2>2. SourcesLeave'
    BY DEF SourcesLeave, BeforeWorkers, Before, PastSched, PastJobs, PastWorkers, PastRaw, PastWait
  <2>3. StagesLaunched' /\ StagesDrain' /\ StagesClose'
    BY DEF StagesLaunched, StagesDrain, StagesClose, Before, trapStarted
  <2>4. GateWaits'
    BY DEF GateWaits, Before, Live, trapStarted
  <2>5. ReceiverStops' /\ AllReturned' /\ NoPanic'
    BY DEF ReceiverStops, AllReturned, PastWait, trapStarted, NoPanic
  <2> QED BY <2>1, <2>2, <2>3, <2>4, <2>5
<1>2. CASE StartTrap
  <2> USE <1>2 DEF IInv, StartTrap
  <2>1. TypeOK'
    BY DEF TypeOK
  <2>2. SourcesLeave'
    BY DEF SourcesLeave, BeforeWorkers, Before, PastSched, PastJobs, PastWorkers, PastRaw, PastWait
  <2>3. StagesLaunched' /\ StagesDrain' /\ StagesClose'
    BY DEF StagesLaunched, StagesDrain, StagesClose, Before, trapStarted, Stages
  <2>4. GateWaits'
    BY DEF GateWaits, Before, Live, trapStarted
  <2>5. ReceiverStops' /\ AllReturned' /\ NoPanic'
    BY PipelineAssumption DEF ReceiverStops, AllReturned, PastWait, trapStarted, NoPanic, Stoppers
  <2> QED BY <2>1, <2>2, <2>3, <2>4, <2>5
<1>3. CASE AddFormatters
  <2> USE <1>3 DEF IInv, AddFormatters
  <2>1. TypeOK'
    BY DEF TypeOK, Stages
  <2>2. SourcesLeave'
    BY DEF SourcesLeave, BeforeWorkers, Before, PastSched, PastJobs, PastWorkers, PastRaw, PastWait
  <2>3. StagesLaunched' /\ StagesDrain' /\ StagesClose'
    BY DEF StagesLaunched, StagesDrain, StagesClose, Before, trapStarted, Stages
  <2>4. st["format"] = "new" /\ st["trapformat"] = "new"
    BY DEF StagesLaunched, Before, Stages
  <2>5. GateWaits'
    BY <2>4 DEF GateWaits, Before, Live, trapStarted
  <2>6. ReceiverStops' /\ AllReturned' /\ NoPanic'
    BY DEF ReceiverStops, AllReturned, PastWait, trapStarted, NoPanic
  <2> QED BY <2>1, <2>2, <2>3, <2>5, <2>6
<1>4. ASSUME NEW s \in Stages, Launch(s) PROVE IInv'
  <2> USE <1>4 DEF IInv, Launch
  <2>1. st[s] = "new" /\ buf[s] = NoMsg
    BY DEF StagesLaunched, ReceiverStops, Before, Stages, TypeOK
  <2>2. TypeOK'
    BY <2>1 DEF TypeOK, AfterLaunch, Stages
  <2>3. SourcesLeave'
    BY DEF SourcesLeave, BeforeWorkers, Before, PastSched, PastJobs, PastWorkers, PastRaw, PastWait, AfterLaunch, Stages
  <2>4. StagesLaunched'
    BY DEF StagesLaunched, Before, trapStarted, Stages, AfterLaunch, TypeOK, ReceiverStops
  <2>5. StagesDrain' /\ StagesClose'
    BY <2>1 DEF StagesDrain, StagesClose, Stages, TypeOK, GateWaits, Before
  <2>6. GateWaits'
    BY <2>1 DEF GateWaits, Before, Live, trapStarted, AfterLaunch, Stages, TypeOK
  <2>7. ReceiverStops' /\ AllReturned' /\ NoPanic'
    BY DEF ReceiverStops, AllReturned, PastWait, trapStarted, NoPanic, AfterLaunch, Stages
  <2> QED BY <2>2, <2>3, <2>4, <2>5, <2>6, <2>7
<1>5. CASE StartWorkers
  <2> USE <1>5 DEF IInv, StartWorkers
  <2>1. TypeOK'
    BY DEF TypeOK, SourcesLeave, BeforeWorkers
  <2>2. SourcesLeave'
    BY DEF SourcesLeave, BeforeWorkers, Before, PastSched, PastJobs, PastWorkers, PastRaw, PastWait
  <2>3. StagesLaunched' /\ StagesDrain' /\ StagesClose'
    BY DEF StagesLaunched, StagesDrain, StagesClose, Before, trapStarted, Stages
  <2>4. GateWaits'
    BY DEF GateWaits, Before, Live, trapStarted
  <2>5. ReceiverStops' /\ AllReturned' /\ NoPanic'
    BY DEF ReceiverStops, AllReturned, PastWait, trapStarted, NoPanic
  <2> QED BY <2>1, <2>2, <2>3, <2>4, <2>5
<1>6. CASE StartScheduler
  <2> USE <1>6 DEF IInv, StartScheduler
  <2>1. TypeOK'
    BY DEF TypeOK
  <2>2. SourcesLeave'
    BY DEF SourcesLeave, BeforeWorkers, Before, PastSched, PastJobs, PastWorkers, PastRaw, PastWait
  <2>3. StagesLaunched' /\ StagesDrain' /\ StagesClose'
    BY DEF StagesLaunched, StagesDrain, StagesClose, Before, trapStarted, Stages
  <2>4. GateWaits'
    BY DEF GateWaits, Before, Live, trapStarted
  <2>5. ReceiverStops' /\ AllReturned' /\ NoPanic'
    BY DEF ReceiverStops, AllReturned, PastWait, trapStarted, NoPanic
  <2> QED BY <2>1, <2>2, <2>3, <2>4, <2>5
<1> QED BY <1>1, <1>2, <1>3, <1>4, <1>5, <1>6 DEF Start

\* What a step leaves true that starts, stops and closes nothing, and sends
\* nothing on a channel that is closed or has no receiver behind it.
LEMMA QuietStep ==
    ASSUME IInv, UNCHANGED <<apc, closed, st, formatWg, gate, listener, running, tmu, tpc>>,
           \A c \in Chans : ch[c] = <<>> => \/ ch'[c] = <<>>
                                            \/ c \notin closed /\ (c = "trap" => trapStarted)
    PROVE  /\ StagesLaunched' /\ StagesDrain' /\ StagesClose'
           /\ GateWaits' /\ ReceiverStops' /\ AllReturned'
<1> USE DEF IInv
<1>1. StagesLaunched' /\ StagesClose'
  BY DEF StagesLaunched, StagesClose, trapStarted
<1>2. StagesDrain'
  BY EndsType DEF StagesDrain
<1>3. GateWaits' /\ AllReturned'
  BY DEF GateWaits, Live, trapStarted, AllReturned
<1>4. ReceiverStops'
  BY DEF ReceiverStops, trapStarted, Chans
<1> QED BY <1>1, <1>2, <1>3, <1>4

\* A signal, and each step of the scheduler.
LEMMA SchedulerIInv == ASSUME IInv, Signal \/ Scheduler PROVE IInv'
<1> USE DEF appVars, schedVars, workVars, stageVars, trapVars
<1>1. CASE Signal
  <2> USE <1>1 DEF IInv, Signal
  <2>1. TypeOK' /\ NoPanic'
    BY DEF TypeOK, NoPanic
  <2>2. SourcesLeave'
    BY DEF SourcesLeave
  <2> QED BY <2>1, <2>2, QuietStep
<1>2. CASE SchedWake
  <2> USE <1>2 DEF IInv, SchedWake
  <2>1. TypeOK' /\ NoPanic'
    BY DEF TypeOK, NoPanic
  <2>2. SourcesLeave'
    BY DEF SourcesLeave
  <2> QED BY <2>1, <2>2, QuietStep
<1>3. CASE SchedFire
  <2> DEFINE m == [lane |-> "poll", id |-> fired]
  <2> USE <1>3 DEF IInv, SchedFire
  <2>1. "jobs" \notin closed
    BY DEF SourcesLeave, PastSched
  <2>2. m \in Message /\ "jobs" \in Chans
    BY DEF TypeOK, Message, Chans
  <2>3. /\ ChansOK(ch')
        /\ \A d \in Chans : d # "jobs" => ch'[d] = ch[d]
    BY <2>1, <2>2, PushOK, TypeParts
  <2>4. panicked' = FALSE
    BY <2>1 DEF NoPanic, TypeOK
  <2>5. TypeOK'
    <3>1. fired' \in Nat /\ sched' \in {"new", "wait", "fire", "exited"}
      BY DEF TypeOK
    <3>2. ch' \in [Chans -> Seq(Message)] /\ \A c \in Chans : Len(ch'[c]) <= Cap(c)
      BY <2>3 DEF ChansOK
    <3> QED BY <2>4, <3>1, <3>2, ZenonT(30) DEF TypeOK
  <2>6. SourcesLeave'
    BY DEF SourcesLeave
  <2>7. StagesLaunched' /\ StagesDrain' /\ StagesClose' /\ GateWaits' /\ ReceiverStops' /\ AllReturned'
    BY <2>1, <2>3, QuietStep
  <2> QED BY <2>4, <2>5, <2>6, <2>7 DEF NoPanic
<1>4. CASE SchedExit
  <2> USE <1>4 DEF IInv, SchedExit
  <2>1. TypeOK' /\ NoPanic'
    BY DEF TypeOK, NoPanic
  <2>2. SourcesLeave'
    BY DEF SourcesLeave
  <2> QED BY <2>1, <2>2, QuietStep
<1> QED BY <1>1, <1>2, <1>3, <1>4 DEF Scheduler

\* Each step of a worker: it has left before raw is closed.
LEMMA WorkerIInv == ASSUME IInv, NEW w \in Workers, Worker(w) PROVE IInv'
<1> USE DEF appVars, schedVars, workVars, stageVars, trapVars
<1>1. CASE WorkerTake(w)
  <2> USE <1>1 DEF IInv, WorkerTake
  <2>1. "jobs" \in Chans
    BY DEF Chans
  <2>2. /\ ChansOK(ch') /\ Head(ch["jobs"]) \in Message
        /\ \A d \in Chans : ch[d] = <<>> => ch'[d] = <<>>
    BY <2>1, PopOK, TypeParts
  <2>3. Head(ch["jobs"]) # NoMsg
    BY <2>2, PipelineAssumption DEF Message
  <2>4. TypeOK'
    BY <2>2, <2>3 DEF TypeOK, ChansOK
  <2>5. SourcesLeave'
    BY DEF SourcesLeave, TypeOK
  <2>6. StagesLaunched' /\ StagesDrain' /\ StagesClose' /\ GateWaits' /\ ReceiverStops' /\ AllReturned'
    BY <2>2, QuietStep
  <2> QED BY <2>4, <2>5, <2>6 DEF NoPanic
<1>2. CASE WorkerExit(w)
  <2> USE <1>2 DEF IInv, WorkerExit
  <2>1. TypeOK' /\ NoPanic'
    BY DEF TypeOK, NoPanic
  <2>2. SourcesLeave'
    BY DEF SourcesLeave, TypeOK
  <2> QED BY <2>1, <2>2, QuietStep
<1>3. CASE WorkerResult(w)
  <2> USE <1>3 DEF IInv, WorkerResult
  <2>1. TypeOK' /\ NoPanic'
    BY DEF TypeOK, NoPanic
  <2>2. SourcesLeave'
    BY DEF SourcesLeave, TypeOK
  <2> QED BY <2>1, <2>2, QuietStep
<1>4. CASE WorkerFail(w)
  <2> USE <1>4 DEF IInv, WorkerFail
  <2>1. TypeOK' /\ NoPanic'
    BY DEF TypeOK, NoPanic
  <2>2. SourcesLeave'
    BY DEF SourcesLeave, TypeOK
  <2> QED BY <2>1, <2>2, QuietStep
<1>5. CASE WorkerEmit(w)
  <2> USE <1>5 DEF IInv, WorkerEmit
  <2>1. "raw" \notin closed
    BY DEF SourcesLeave, PastWorkers
  <2>2. wmsg[w] \in Message /\ "raw" \in Chans
    BY DEF TypeOK, Chans
  <2>3. /\ ChansOK(ch')
        /\ \A d \in Chans : d # "raw" => ch'[d] = ch[d]
    BY <2>1, <2>2, PushOK, TypeParts
  <2>4. TypeOK' /\ NoPanic'
    BY <2>1, <2>3 DEF TypeOK, ChansOK, NoPanic
  <2>5. SourcesLeave'
    BY DEF SourcesLeave, TypeOK
  <2>6. StagesLaunched' /\ StagesDrain' /\ StagesClose' /\ GateWaits' /\ ReceiverStops' /\ AllReturned'
    BY <2>1, <2>3, QuietStep
  <2> QED BY <2>4, <2>5, <2>6
<1>6. CASE WorkerAbandon(w)
  <2> USE <1>6 DEF IInv, WorkerAbandon
  <2>1. TypeOK' /\ NoPanic'
    BY DEF TypeOK, NoPanic
  <2>2. SourcesLeave'
    BY DEF SourcesLeave, TypeOK
  <2> QED BY <2>1, <2>2, QuietStep
<1> QED BY <1>1, <1>2, <1>3, <1>4, <1>5, <1>6 DEF Worker

\* Each step of a stage: its output is open until it leaves, and its input is
\* closed and empty when it does.
LEMMA StageIInv == ASSUME IInv, NEW s \in Stages, Stage(s) PROVE IInv'
<1> USE DEF appVars, schedVars, workVars, stageVars, trapVars
<1>1. CASE StageRecv(s)
  <2> USE <1>1 DEF IInv, StageRecv
  <2>1. /\ ChansOK(ch') /\ Head(ch[In(s)]) \in Message
        /\ \A d \in Chans : ch[d] = <<>> => ch'[d] = <<>>
    BY EndsType, PopOK, TypeParts
  <2>2. Head(ch[In(s)]) # NoMsg
    BY <2>1, PipelineAssumption DEF Message
  <2>3. TypeOK' /\ NoPanic'
    BY <2>1, <2>2 DEF TypeOK, ChansOK, NoPanic
  <2>4. SourcesLeave' /\ ReceiverStops'
    BY <2>1 DEF SourcesLeave, ReceiverStops, trapStarted, Chans
  <2>5. StagesLaunched'
    BY DEF StagesLaunched, TypeOK, trapStarted
  <2>6. StagesDrain'
    BY <2>1, EndsType DEF StagesDrain, TypeOK
  <2>7. StagesClose' /\ GateWaits' /\ AllReturned'
    BY DEF StagesClose, GateWaits, Live, AllReturned, TypeOK, trapStarted, Stages
  <2> QED BY <2>3, <2>4, <2>5, <2>6, <2>7
<1>2. CASE StageDrop(s)
  <2> USE <1>2 DEF IInv, StageDrop
  <2>1. /\ ChansOK(ch')
        /\ \A d \in Chans : ch[d] = <<>> => ch'[d] = <<>>
    BY EndsType, PopOK, TypeParts
  <2>2. TypeOK' /\ NoPanic'
    BY <2>1 DEF TypeOK, ChansOK, NoPanic
  <2>3. SourcesLeave'
    BY DEF SourcesLeave
  <2> QED BY <2>1, <2>2, <2>3, QuietStep
<1>3. CASE StageSend(s)
  <2> USE <1>3 DEF IInv, StageSend
  <2>1. Out(s) \in Chans \ closed
    BY DEF Stages, Out, Chans, StagesClose, GateWaits, Live, StagesLaunched
  <2>2. buf[s] \in Message
    BY DEF TypeOK
  <2>3. /\ ChansOK(ch')
        /\ \A d \in Chans : d # Out(s) => ch'[d] = ch[d]
    BY <2>1, <2>2, PushOK, TypeParts
  <2>4. TypeOK' /\ NoPanic'
    BY <2>1, <2>3 DEF TypeOK, ChansOK, NoPanic
  <2>5. Out(s) # "trap"
    BY DEF Stages, Out
  <2>6. SourcesLeave' /\ ReceiverStops'
    BY <2>3, <2>5 DEF SourcesLeave, ReceiverStops, trapStarted, Chans
  <2>7. StagesLaunched'
    BY DEF StagesLaunched, TypeOK, trapStarted
  <2>8. StagesDrain'
    BY <2>1, <2>3, EndsType DEF StagesDrain, TypeOK
  <2>9. StagesClose' /\ GateWaits' /\ AllReturned'
    BY DEF StagesClose, GateWaits, Live, AllReturned, TypeOK, trapStarted, Stages
  <2> QED BY <2>4, <2>6, <2>7, <2>8, <2>9
<1>4. CASE StageExit(s)
  <2> USE <1>4 DEF IInv, StageExit
  <2>1. s \in {"decode", "produce"} => Out(s) \in Chans \ closed
    BY DEF Stages, Out, Chans, StagesClose
  <2>2. panicked' = FALSE
    BY <2>1 DEF CloseChan, NoPanic, TypeOK
  <2>3. closed' = closed \cup (IF s = "decode" THEN {"decoded"} ELSE
                               IF s = "produce" THEN {"metric"} ELSE {})
    BY DEF CloseChan, Out
  <2>4. s = "trapformat" => trapStarted
    BY DEF StagesLaunched
  <2>5. apc \notin Before(s)
    BY DEF StagesLaunched
  <2>6. s \in {"format", "trapformat"} =>
           apc \notin {"trapstart", "add"} /\ Live(s) = 1
    BY <2>4, <2>5 DEF Before, Live
  <2>7. formatWg' \in Nat
    BY <2>6 DEF TypeOK, GateWaits, Live
  <2>8. TypeOK' /\ NoPanic'
    <3>1. /\ st' \in [Stages -> {"new", "recv", "send", "exited"}]
          /\ \A r \in Stages : buf'[r] # NoMsg <=> st'[r] = "send"
          /\ closed' \subseteq Chans
      BY <2>3 DEF TypeOK, Chans
    <3>2. UNCHANGED <<apc, cancelled, ch, sched, fired, wpc, wmsg, buf, gate,
                      listener, running, tmu, tpc, arrived>>
      OBVIOUS
    <3>3. cancelled' \in BOOLEAN /\ panicked' \in BOOLEAN /\ running' \in BOOLEAN
      BY <2>2, <3>2 DEF TypeOK
    <3> HIDE <1>4 DEF StageExit
    <3>4. TypeOK'
      BY <2>7, <3>1, <3>2, <3>3 DEF TypeOK
    <3> QED BY <2>2, <3>4 DEF NoPanic
  <2>9. SourcesLeave'
    BY <2>3 DEF SourcesLeave
  <2>10. StagesLaunched'
    BY <2>4 DEF StagesLaunched, TypeOK, trapStarted
  <2>11. StagesDrain'
    BY <2>3 DEF StagesDrain, TypeOK
  <2>12. StagesClose'
    BY <2>3 DEF StagesClose, TypeOK, Stages
  <2>13. GateWaits'
    <3>1. ASSUME s \in {"format", "trapformat"} PROVE GateWaits'
      BY <2>6, <3>1 DEF GateWaits, Live, TypeOK, trapStarted, Stages
    <3>2. ASSUME s \notin {"format", "trapformat"} PROVE GateWaits'
      BY <3>2 DEF GateWaits, Live, TypeOK, trapStarted, Stages
    <3> QED BY <3>1, <3>2
  <2>14. ReceiverStops' /\ AllReturned'
    BY <2>3 DEF ReceiverStops, AllReturned, trapStarted, TypeOK
  <2> QED BY <2>8, <2>9, <2>10, <2>11, <2>12, <2>13, <2>14
<1> QED BY <1>1, <1>2, <1>3, <1>4 DEF Stage

\* The end of the pipeline: the transport's send, and the gate that closes
\* formatted behind both formatters.
LEMMA SinkIInv == ASSUME IInv, TransportSend \/ GateClose PROVE IInv'
<1> USE DEF appVars, schedVars, workVars, stageVars, trapVars
<1>1. CASE TransportSend
  <2> USE <1>1 DEF IInv, TransportSend
  <2>1. TypeOK' /\ NoPanic'
    BY DEF TypeOK, NoPanic, Stages
  <2>2. SourcesLeave' /\ ReceiverStops'
    BY DEF SourcesLeave, ReceiverStops, trapStarted
  <2>3. StagesLaunched' /\ StagesDrain'
    BY DEF StagesLaunched, StagesDrain, TypeOK, trapStarted
  <2>4. StagesClose' /\ GateWaits' /\ AllReturned'
    BY DEF StagesClose, GateWaits, Live, AllReturned, TypeOK, trapStarted, Stages
  <2> QED BY <2>1, <2>2, <2>3, <2>4
<1>2. CASE GateClose
  <2> USE <1>2 DEF IInv, GateClose, CloseChan
  <2>1. "formatted" \notin closed
    BY DEF StagesClose
  <2>2. TypeOK' /\ NoPanic'
    BY <2>1 DEF TypeOK, NoPanic, Chans
  <2>3. SourcesLeave' /\ ReceiverStops'
    BY DEF SourcesLeave, ReceiverStops, trapStarted
  <2>4. StagesLaunched' /\ StagesDrain' /\ StagesClose' /\ AllReturned'
    BY DEF StagesLaunched, StagesDrain, StagesClose, AllReturned, trapStarted
  <2>5. apc \notin {"trapstart", "add"}
    BY DEF GateWaits, Before
  <2>6. GateWaits'
    BY <2>5 DEF GateWaits, Live, trapStarted
  <2> QED BY <2>2, <2>3, <2>4, <2>6
<1> QED BY <1>1, <1>2

\* Each step of the trap receiver: one stopper drains it, and closes the trap
\* channel when the listener has gone.
LEMMA ReceiverIInv == ASSUME IInv, Receiver PROVE IInv'
<1> USE DEF appVars, schedVars, workVars, stageVars, trapVars
<1>1. CASE TrapArrive
  <2> DEFINE m == [lane |-> "trap", id |-> arrived]
  <2> USE <1>1 DEF IInv, TrapArrive
  <2>1. "trap" \notin closed
    BY DEF ReceiverStops
  <2>2. m \in Message /\ "trap" \in Chans
    BY DEF TypeOK, Message, Chans
  <2>3. /\ ChansOK(ch')
        /\ \A d \in Chans : d # "trap" => ch'[d] = ch[d]
    BY <2>1, <2>2, PushOK, TypeParts
  <2>4. panicked' = FALSE
    BY <2>1 DEF NoPanic, TypeOK
  <2>5. TypeOK' /\ NoPanic'
    <3>1. arrived' \in Nat
      BY DEF TypeOK
    <3>2. ch' \in [Chans -> Seq(Message)] /\ \A c \in Chans : Len(ch'[c]) <= Cap(c)
      BY <2>3 DEF ChansOK
    <3> QED BY <2>4, <3>1, <3>2, ZenonT(30) DEF TypeOK, NoPanic
  <2>6. SourcesLeave'
    BY DEF SourcesLeave
  <2>7. StagesLaunched' /\ StagesDrain' /\ StagesClose' /\ GateWaits' /\ ReceiverStops' /\ AllReturned'
    BY <2>1, <2>3, QuietStep DEF trapStarted
  <2> QED BY <2>5, <2>6, <2>7
<1>2. CASE ListenerExit
  <2> USE <1>2 DEF IInv, ListenerExit
  <2>1. TypeOK' /\ NoPanic' /\ SourcesLeave'
    BY DEF TypeOK, NoPanic, SourcesLeave
  <2>2. StagesLaunched' /\ StagesDrain' /\ StagesClose' /\ AllReturned'
    BY DEF StagesLaunched, StagesDrain, StagesClose, AllReturned, trapStarted
  <2>3. GateWaits'
    BY DEF GateWaits, Live, trapStarted
  <2>4. ReceiverStops'
    BY DEF ReceiverStops, trapStarted
  <2> QED BY <2>1, <2>2, <2>3, <2>4
<1>3. ASSUME NEW p \in Stoppers, trapStarted, TrapStop(p) PROVE IInv'
  <2> USE <1>3 DEF IInv, TrapStop
  <2>1. TypeOK' /\ NoPanic' /\ SourcesLeave'
    <3>1. /\ running' \in BOOLEAN /\ tmu' \in Stoppers \cup {Nobody}
          /\ tpc' \in [Stoppers -> {"idle", "drain", "done"}]
      BY DEF TypeOK
    <3> QED BY <3>1 DEF TypeOK, NoPanic, SourcesLeave
  <2>2. StagesLaunched' /\ StagesDrain' /\ StagesClose' /\ AllReturned'
    BY DEF StagesLaunched, StagesDrain, StagesClose, AllReturned, trapStarted
  <2>3. GateWaits'
    BY DEF GateWaits, Live, trapStarted
  <2>4. ReceiverStops'
    BY PipelineAssumption DEF ReceiverStops, trapStarted, Stoppers, TypeOK
  <2> QED BY <2>1, <2>2, <2>3, <2>4
<1>4. ASSUME NEW p \in Stoppers, TrapStopped(p) PROVE IInv'
  <2> USE <1>4 DEF IInv, TrapStopped, CloseChan
  <2>1. "trap" \notin closed /\ tmu = p
    BY PipelineAssumption DEF ReceiverStops, Stoppers
  <2>2. TypeOK' /\ NoPanic' /\ SourcesLeave'
    BY <2>1 DEF TypeOK, NoPanic, SourcesLeave, Chans
  <2>3. StagesLaunched' /\ StagesDrain' /\ StagesClose' /\ AllReturned'
    BY DEF StagesLaunched, StagesDrain, StagesClose, AllReturned, trapStarted
  <2>4. GateWaits'
    BY DEF GateWaits, Live, trapStarted
  <2>5. ReceiverStops'
    BY <2>1, PipelineAssumption DEF ReceiverStops, trapStarted, Stoppers, TypeOK
  <2> QED BY <2>2, <2>3, <2>4, <2>5
<1>5. CASE WatcherStop
  BY <1>3, <1>5 DEF WatcherStop, Stoppers
<1>6. CASE AppTrapStop
  BY <1>3, <1>6 DEF AppTrapStop, Stoppers
<1> QED BY <1>1, <1>2, <1>4, <1>5, <1>6 DEF Receiver

\* Each step of App.Stop: a channel is closed once, and behind its senders.
LEMMA StopIInv == ASSUME IInv, Stop PROVE IInv'
<1> USE DEF appVars, schedVars, workVars, stageVars, trapVars, StopStep, CloseChan,
            PastSched, PastJobs, PastWorkers, PastRaw, PastWait
<1>1. ASSUME NEW a \in PastSched \cup {"waitsched"}, StopStep(apc, a),
             apc \in {"running", "waitsched"} \cup PastSched
      PROVE  StagesLaunched' /\ GateWaits'
  BY <1>1 DEF IInv, StagesLaunched, GateWaits, Before, Live, Stages, trapStarted
<1>2. ASSUME UNCHANGED closed, UNCHANGED panicked,
             NEW a \in PastSched \cup {"waitsched"}, StopStep(apc, a),
             cancelled' \in BOOLEAN
      PROVE  TypeOK' /\ NoPanic' /\ StagesDrain' /\ StagesClose' /\ ReceiverStops'
  BY <1>2 DEF IInv, TypeOK, NoPanic, StagesDrain, StagesClose, ReceiverStops, trapStarted
<1>3. CASE StopCancel
  <2> USE <1>3 DEF StopCancel
  <2>1. SourcesLeave' /\ AllReturned'
    BY DEF IInv, SourcesLeave, AllReturned, BeforeWorkers, Before
  <2> QED BY <1>1, <1>2, <2>1 DEF IInv
<1>4. CASE StopSched
  <2> USE <1>4 DEF StopSched
  <2>1. SourcesLeave' /\ AllReturned'
    BY DEF IInv, SourcesLeave, AllReturned, BeforeWorkers, Before
  <2> QED BY <1>1, <1>2, <2>1 DEF IInv, TypeOK
<1>5. CASE StopJobs
  <2> USE <1>5 DEF StopJobs
  <2>1. "jobs" \notin closed
    BY DEF IInv, SourcesLeave
  <2>2. SourcesLeave' /\ AllReturned'
    BY DEF IInv, SourcesLeave, AllReturned, BeforeWorkers, Before
  <2>3. TypeOK' /\ NoPanic'
    BY <2>1 DEF IInv, TypeOK, NoPanic, Chans
  <2>4. StagesDrain' /\ StagesClose' /\ ReceiverStops'
    BY DEF IInv, StagesDrain, StagesClose, ReceiverStops, trapStarted
  <2> QED BY <1>1, <2>2, <2>3, <2>4 DEF IInv
<1>6. CASE StopWorkers
  <2> USE <1>6 DEF StopWorkers
  <2>1. SourcesLeave' /\ AllReturned'
    BY DEF IInv, SourcesLeave, AllReturned, BeforeWorkers, Before
  <2> QED BY <1>1, <1>2, <2>1 DEF IInv, TypeOK
<1>7. CASE StopRaw
  <2> USE <1>7 DEF StopRaw
  <2>1. "raw" \notin closed
    BY DEF IInv, SourcesLeave
  <2>2. SourcesLeave' /\ AllReturned'
    BY DEF IInv, SourcesLeave, AllReturned, BeforeWorkers, Before
  <2>3. TypeOK' /\ NoPanic'
    BY <2>1 DEF IInv, TypeOK, NoPanic, Chans
  <2>4. StagesDrain' /\ StagesClose' /\ ReceiverStops'
    BY DEF IInv, StagesDrain, StagesClose, ReceiverStops, trapStarted
  <2> QED BY <1>1, <2>2, <2>3, <2>4 DEF IInv
<1>8. CASE StopTrap \/ StopWait \/ StopTransport \/ StopPool
  <2> USE <1>8 DEF StopTrap, StopWait, StopTransport, StopPool
  <2>1. SourcesLeave' /\ AllReturned'
    BY DEF IInv, SourcesLeave, AllReturned, BeforeWorkers, Before
  <2> QED BY <1>1, <1>2, <2>1 DEF IInv, TypeOK
<1> QED BY <1>3, <1>4, <1>5, <1>6, <1>7, <1>8 DEF Stop

\* The invariant is inductive.
LEMMA NextIInv == IInv /\ [Next]_vars => IInv'
<1> SUFFICES ASSUME IInv, [Next]_vars PROVE IInv'
  OBVIOUS
<1>1. ASSUME UNCHANGED vars PROVE IInv'
  <2>1. UNCHANGED <<apc, cancelled, ch, closed, sched, fired, wpc, wmsg, st, buf, formatWg,
                    gate, listener, running, tmu, tpc, arrived, panicked>>
    BY <1>1 DEF vars, appVars, schedVars, workVars, stageVars, trapVars
  <2>2. TypeOK' /\ NoPanic' /\ SourcesLeave'
    BY <2>1 DEF IInv, TypeOK, NoPanic, SourcesLeave
  <2> QED BY <2>1, <2>2, QuietStep DEF IInv
<1> QED BY <1>1, StartIInv, SchedulerIInv, WorkerIInv, StageIInv, SinkIInv,
           ReceiverIInv, StopIInv DEF Next, Terminated

\* The invariant holds in every reachable state.
LEMMA Invariance == Spec => []IInv
BY InitIInv, NextIInv, PTL DEF Spec

\* When App.Stop closes the transport, no message is left in a channel or in a
\* hand: every stage that was launched has left behind an empty closed input.
LEMMA IInvDrained == IInv => DrainedAtStop
<1> SUFFICES ASSUME IInv, apc \in PastWait
             PROVE  /\ \A c \in Chans \ {"jobs"} : ch[c] = <<>>
                    /\ \A s \in Stages : st[s] \in {"new", "exited"}
                    /\ \A w \in Workers : wpc[w] = "exited"
                    /\ listener # "up"
  BY DEF DrainedAtStop, PastWait
<1> USE DEF IInv
<1>1. \A s \in Stages : s # "trapformat" \/ trapStarted => st[s] = "exited"
  BY DEF AllReturned, StagesLaunched, Before, PastWait, Stages
<1>2. \A s \in Stages : s # "trapformat" \/ trapStarted => ch[In(s)] = <<>> /\ In(s) \in closed
  BY <1>1 DEF StagesDrain
<1>3. \A c \in Chans \ {"jobs"} : ch[c] = <<>>
  BY <1>2 DEF Chans, Stages, In, ReceiverStops
<1>4. listener # "up"
  BY <1>2 DEF Stages, In, ReceiverStops, trapStarted
<1>5. \A w \in Workers : wpc[w] = "exited"
  BY DEF SourcesLeave, PastWorkers, PastRaw
<1> QED BY <1>3, <1>4, <1>5 DEF AllReturned
-----------------------------------------------------------------------------
\* Every goroutine's state stays of its type, and no channel ever holds more
\* than its capacity, for any number of workers and any buffer sizes.
THEOREM TypeCorrect == Spec => []TypeOK
<1>1. IInv => TypeOK
  BY DEF IInv
<1> QED BY <1>1, Invariance, PTL

\* The collector never sends to a closed channel and closes none twice,
\* whenever the signal comes and whatever the goroutines' schedule.
THEOREM NoPanicCorrect == Spec => []NoPanic
<1>1. IInv => NoPanic
  BY DEF IInv
<1> QED BY <1>1, Invariance, PTL

\* App.Stop closes the transport and the session pool only when the workers,
\* the stages and the trap listener have left and every result and trap that
\* was accepted has been taken out of the channels.
THEOREM DrainCorrect == Spec => []DrainedAtStop
BY Invariance, IInvDrained, PTL
-----------------------------------------------------------------------------
(* The pipeline implements the two queues.  What the transport has still   *)
(* to take is a chain of buffers and hands, so each step of a stage moves  *)
(* one message along the chain, takes one out, or appends one.             *)

\* A message at the head of a buffer passes to an empty hand before it.
LEMMA IntoHand ==
    ASSUME NEW T, NEW X \in Seq(T), NEW b \in Seq(T), b # <<>>
    PROVE  X \o <<>> \o b = X \o <<Head(b)>> \o Tail(b)
<1>1. b = <<Head(b)>> \o Tail(b) /\ <<Head(b)>> \in Seq(T) /\ Tail(b) \in Seq(T)
  OBVIOUS
<1>2. X \o <<>> = X
  BY ConcatEmptySeq
<1>3. (X \o <<Head(b)>>) \o Tail(b) = X \o (<<Head(b)>> \o Tail(b))
  BY <1>1, ConcatAssociative
<1> QED BY <1>1, <1>2, <1>3

\* A message in a hand passes to the end of the buffer before it.
LEMMA OutOfHand ==
    ASSUME NEW T, NEW X \in Seq(T), NEW a \in Seq(T), NEW m \in T
    PROVE  X \o a \o <<m>> = X \o Append(a, m) \o <<>>
<1>1. Append(a, m) = a \o <<m>> /\ Append(a, m) \in Seq(T) /\ <<m>> \in Seq(T)
  BY AppendIsConcat
<1>2. (X \o a) \o <<m>> = X \o (a \o <<m>>)
  BY <1>1, ConcatAssociative
<1>3. X \o Append(a, m) \in Seq(T)
  BY <1>1, ConcatProperties
<1>4. X \o Append(a, m) \o <<>> = X \o Append(a, m)
  BY <1>3, ConcatEmptySeq
<1> QED BY <1>1, <1>2, <1>4

\* A message appended to the last buffer of a chain is appended to the chain.
LEMMA AtEnd ==
    ASSUME NEW T, NEW X \in Seq(T), NEW a \in Seq(T), NEW m \in T
    PROVE  X \o Append(a, m) = Append(X \o a, m)
<1>1. Append(a, m) = a \o <<m>> /\ <<m>> \in Seq(T)
  BY AppendIsConcat
<1>2. (X \o a) \o <<m>> = X \o (a \o <<m>>)
  BY <1>1, ConcatAssociative
<1>3. X \o a \in Seq(T)
  BY ConcatProperties
<1>4. Append(X \o a, m) = (X \o a) \o <<m>>
  BY <1>3, AppendIsConcat
<1> QED BY <1>1, <1>2, <1>4

\* Sequence p is q less one of its messages.
Less(T, q, p) ==
    \E A \in Seq(T) : \E B \in Seq(T) : \E m \in T :
       q = A \o <<m>> \o B /\ p = A \o B

\* The head of the last buffer of a chain is lost ...
LEMMA LessTail ==
    ASSUME NEW T, NEW X \in Seq(T), NEW b \in Seq(T), b # <<>>
    PROVE  Less(T, X \o b, X \o Tail(b))
<1>1. b = <<Head(b)>> \o Tail(b) /\ <<Head(b)>> \in Seq(T) /\ Tail(b) \in Seq(T) /\ Head(b) \in T
  OBVIOUS
<1>2. (X \o <<Head(b)>>) \o Tail(b) = X \o (<<Head(b)>> \o Tail(b))
  BY <1>1, ConcatAssociative
<1> QED BY <1>1, <1>2 DEF Less

\* ... or one of a chain that is followed by more.
LEMMA LessMore ==
    ASSUME NEW T, NEW q, NEW p, Less(T, q, p), NEW c \in Seq(T)
    PROVE  Less(T, q \o c, p \o c)
<1>1. PICK A \in Seq(T) : \E B \in Seq(T) : \E m \in T :
                             q = A \o <<m>> \o B /\ p = A \o B
  BY DEF Less
<1>2. PICK B \in Seq(T) : \E m \in T : q = A \o <<m>> \o B /\ p = A \o B
  BY <1>1
<1>3. PICK m \in T : q = A \o <<m>> \o B /\ p = A \o B
  BY <1>2
<1>4. A \o <<m>> \in Seq(T) /\ B \o c \in Seq(T)
  BY ConcatProperties
<1>5. (A \o <<m>> \o B) \o c = A \o <<m>> \o (B \o c)
  BY <1>4, ConcatAssociative, SMTT(30)
<1>6. (A \o B) \o c = A \o (B \o c)
  BY ConcatAssociative
<1> QED BY <1>3, <1>4, <1>5, <1>6 DEF Less

\* What is less one message is what it was without one of its positions.
LEMMA LessIsWithout ==
    ASSUME NEW T, NEW q, NEW p, Less(T, q, p)
    PROVE  \E i \in DOMAIN q : p = Queue!Without(q, i)
<1>1. PICK A \in Seq(T) : \E B \in Seq(T) : \E m \in T :
                             q = A \o <<m>> \o B /\ p = A \o B
  BY DEF Less
<1>2. PICK B \in Seq(T) : \E m \in T : q = A \o <<m>> \o B /\ p = A \o B
  BY <1>1
<1>3. PICK m \in T : q = A \o <<m>> \o B /\ p = A \o B
  BY <1>2
<1> DEFINE i == Len(A) + 1
<1>4. A \o <<m>> \in Seq(T) /\ Len(A \o <<m>>) = i /\ Len(A) \in Nat /\ Len(B) \in Nat
  BY ConcatProperties
<1>5. q \in Seq(T) /\ Len(q) = i + Len(B)
  BY <1>3, <1>4, ConcatProperties
<1>6. i \in DOMAIN q
  BY <1>4, <1>5
<1>7. \A n \in 1..Len(A) : q[n] = A[n]
  BY <1>3, <1>4, ConcatProperties
<1>8. \A n \in 1..Len(B) : q[i + n] = B[n]
  BY <1>3, <1>4, ConcatProperties
<1>9. SubSeq(q, 1, i - 1) = A
  BY <1>4, <1>5, <1>7
<1>10. SubSeq(q, i + 1, Len(q)) = B
  BY <1>4, <1>5, <1>8
<1>11. Queue!Without(q, i) = A \o B
  BY <1>9, <1>10 DEF Queue!Without
<1> QED BY <1>3, <1>6, <1>11

\* The head of the first of a chain of buffers is the head of the chain.
LEMMA FromHead ==
    ASSUME NEW T, NEW q \in Seq(T), q # <<>>, NEW c \in Seq(T)
    PROVE  /\ q \o c # <<>>
           /\ Head(q \o c) = Head(q)
           /\ Tail(q) \o c = Tail(q \o c)
<1>1. q \o c \in Seq(T) /\ Len(q \o c) = Len(q) + Len(c) /\ Len(q) \in Nat \ {0} /\ Len(c) \in Nat
  BY ConcatProperties
<1>2. q \o c # <<>> /\ Head(q \o c) = Head(q)
  BY <1>1, ConcatProperties
<1>3. /\ Tail(q) \in Seq(T) /\ Len(Tail(q)) = Len(q) - 1
      /\ Tail(q \o c) \in Seq(T) /\ Len(Tail(q \o c)) = Len(q \o c) - 1
  BY <1>1, <1>2
<1>4. Tail(q) \o c \in Seq(T) /\ Len(Tail(q) \o c) = Len(Tail(q \o c))
  BY <1>1, <1>3, ConcatProperties
<1>5. ASSUME NEW n \in 1..Len(Tail(q \o c)) PROVE (Tail(q) \o c)[n] = Tail(q \o c)[n]
  <2>1. n + 1 \in 1..Len(q \o c) /\ Tail(q \o c)[n] = (q \o c)[n + 1]
    BY <1>1, <1>2, <1>3
  <2>2. CASE n <= Len(q) - 1
    <3>1. (Tail(q) \o c)[n] = Tail(q)[n] /\ Tail(q)[n] = q[n + 1]
      BY <1>1, <1>3, <2>2, ConcatProperties
    <3>2. (q \o c)[n + 1] = q[n + 1]
      BY <1>1, <2>1, <2>2, ConcatProperties
    <3> QED BY <2>1, <3>1, <3>2
  <2>3. CASE n > Len(q) - 1
    <3>1. (Tail(q) \o c)[n] = c[n - (Len(q) - 1)]
      BY <1>1, <1>3, <2>3, ConcatProperties
    <3>2. (q \o c)[n + 1] = c[n + 1 - Len(q)]
      BY <1>1, <2>1, <2>3, ConcatProperties
    <3> QED BY <1>1, <2>1, <3>1, <3>2
  <2> QED BY <1>1, <2>2, <2>3
<1> QED BY <1>2, <1>3, <1>4, <1>5, SeqEqual

\* What a channel carries: traps come together with poll results at formatted.
Polls == [lane : {"poll"}, id : Nat]
Traps == [lane : {"trap"}, id : Nat]
Carries(c) == CASE c = "trap"      -> Traps
                [] c = "formatted" -> Message
                [] OTHER           -> Polls

\* A poll result stays in the poll lane, a trap in the trap lane.
Laned ==
    /\ \A c \in Chans : ch[c] \in Seq(Carries(c))
    /\ wmsg \in [Workers -> Polls \cup {NoMsg}]
    /\ \A s \in Stages : buf[s] \in Carries(In(s)) \cup {NoMsg}

\* Both lanes carry messages.
LEMMA CarriesType ==
    /\ Polls \subseteq Message /\ Traps \subseteq Message
    /\ NoMsg \notin Message
    /\ \A c : Carries(c) \subseteq Message
    /\ \A m \in Polls : m.lane = "poll"
    /\ \A m \in Traps : m.lane = "trap"
    /\ \A m \in Message : m.lane \in {"poll", "trap"}
<1>1. Polls \subseteq Message /\ Traps \subseteq Message
  BY DEF Polls, Traps, Message
<1> QED BY <1>1, PipelineAssumption DEF Polls, Traps, Message, Carries

\* A send of a message of its lane, and a receive, keep the lanes apart.
LEMMA LanePushPop ==
    ASSUME \A c \in Chans : ch[c] \in Seq(Carries(c)), ch \in [Chans -> Seq(Message)],
           NEW d \in Chans
    PROVE  /\ \A m \in Carries(d) : \A c \in Chans : Push(d, m)[c] \in Seq(Carries(c))
           /\ ch[d] # <<>> => /\ Head(ch[d]) \in Carries(d)
                              /\ \A c \in Chans : Pop(d)[c] \in Seq(Carries(c))
<1>1. \A m \in Carries(d) : Append(ch[d], m) \in Seq(Carries(d))
  OBVIOUS
<1>2. ch[d] # <<>> => Head(ch[d]) \in Carries(d) /\ Tail(ch[d]) \in Seq(Carries(d))
  OBVIOUS
<1> QED BY <1>1, <1>2 DEF Push, Pop

\* At first the channels and the hands are empty.
LEMMA InitLaned == Init => Laned
<1> SUFFICES ASSUME Init PROVE Laned
  OBVIOUS
<1>1. \A c \in Chans : ch[c] \in Seq(Carries(c))
  BY DEF Init
<1> QED BY <1>1 DEF Init, Laned

\* Each step keeps the lanes apart.
LEMMA NextLaned == ASSUME IInv, Laned, [Next]_vars PROVE Laned'
<1> USE DEF Laned, appVars, schedVars, workVars, stageVars, trapVars
<1>0. ch \in [Chans -> Seq(Message)]
  BY DEF IInv, TypeOK
<1>1. ASSUME UNCHANGED <<ch, wmsg, buf>> PROVE Laned'
  BY <1>1
<1>2. ASSUME NEW d \in Chans, NEW m \in Carries(d), ch' = Push(d, m) \/ UNCHANGED ch
      PROVE  \A c \in Chans : ch'[c] \in Seq(Carries(c))
  BY <1>0, <1>2, LanePushPop
<1>3. ASSUME NEW d \in Chans, ch[d] # <<>>, ch' = Pop(d)
      PROVE  Head(ch[d]) \in Carries(d) /\ \A c \in Chans : ch'[c] \in Seq(Carries(c))
  BY <1>0, <1>3, LanePushPop
<1>4. CASE Scheduler
  <2>1. CASE SchedFire
    <3> DEFINE m == [lane |-> "poll", id |-> fired]
    <3>1. m \in Carries("jobs") /\ "jobs" \in Chans
      BY DEF IInv, TypeOK, Carries, Polls, Chans
    <3>2. ch' = Push("jobs", m) \/ UNCHANGED ch
      BY <2>1 DEF SchedFire
    <3> QED BY <1>2, <2>1, <3>1, <3>2 DEF SchedFire
  <2> QED BY <1>1, <1>4, <2>1 DEF Scheduler, SchedWake, SchedExit
<1>5. ASSUME NEW w \in Workers, Worker(w) PROVE Laned'
  <2>1. CASE WorkerTake(w)
    <3>1. "jobs" \in Chans /\ Carries("jobs") = Polls
      BY DEF Chans, Carries
    <3> QED BY <1>3, <2>1, <3>1 DEF WorkerTake
  <2>2. CASE WorkerEmit(w)
    <3>1. "raw" \in Chans /\ Carries("raw") = Polls
      BY DEF Chans, Carries
    <3>2. wmsg[w] \in Polls
      BY <2>2 DEF WorkerEmit, IInv, TypeOK
    <3> QED BY <1>2, <2>2, <3>1, <3>2 DEF WorkerEmit
  <2>3. CASE WorkerFail(w) \/ WorkerAbandon(w)
    BY <2>3 DEF WorkerFail, WorkerAbandon
  <2> QED BY <1>1, <1>5, <2>1, <2>2, <2>3 DEF Worker, WorkerExit, WorkerResult
<1>6. ASSUME NEW s \in Stages, Stage(s) PROVE Laned'
  <2>1. CASE StageRecv(s)
    BY <1>3, <2>1, EndsType DEF StageRecv
  <2>2. CASE StageDrop(s)
    BY <1>3, <2>2, EndsType DEF StageDrop
  <2>3. CASE StageSend(s)
    <3>1. s # "transport" /\ buf[s] \in Carries(In(s))
      BY <2>3 DEF StageSend, IInv, TypeOK
    <3>2. Carries(In(s)) \subseteq Carries(Out(s))
      BY <3>1, CarriesType DEF Stages, In, Out, Carries
    <3> QED BY <1>2, <2>3, <3>1, <3>2, EndsType DEF StageSend
  <2>4. CASE StageExit(s)
    BY <1>1, <2>4 DEF StageExit
  <2> QED BY <1>6, <2>1, <2>2, <2>3, <2>4 DEF Stage
<1>7. CASE TransportSend
  BY <1>7 DEF TransportSend
<1>8. CASE Receiver
  <2>1. CASE TrapArrive
    <3> DEFINE m == [lane |-> "trap", id |-> arrived]
    <3>1. m \in Carries("trap") /\ "trap" \in Chans
      BY DEF IInv, TypeOK, Carries, Traps, Chans
    <3>2. ch' = Push("trap", m) \/ UNCHANGED ch
      BY <2>1 DEF TrapArrive
    <3> QED BY <1>2, <2>1, <3>1, <3>2 DEF TrapArrive
  <2> QED BY <1>1, <1>8, <2>1 DEF Receiver, ListenerExit, WatcherStop, AppTrapStop, TrapStop, TrapStopped
<1>9. CASE Start \/ Signal \/ GateClose \/ Stop \/ Terminated \/ UNCHANGED vars
  BY <1>1, <1>9 DEF Start, StartWithoutTrap, StartTrap, AddFormatters, Launch, StartWorkers,
     StartScheduler, Signal, GateClose, Stop, StopStep, StopCancel, StopSched, StopJobs,
     StopWorkers, StopRaw, StopTrap, StopWait, StopTransport, StopPool, Terminated, vars
<1> QED BY <1>4, <1>5, <1>6, <1>7, <1>8, <1>9 DEF Next

\* The messages of a lane follow an append and a receive.
LEMMA LaneAppend ==
    ASSUME NEW q \in Seq(Message), NEW m \in Message, NEW l
    PROVE  OfLane(Append(q, m), l) = IF m.lane = l THEN Append(OfLane(q, l), m) ELSE OfLane(q, l)
<1> DEFINE I == {i \in DOMAIN q : q[i].lane = l}
           r == Append(q, m)
           J == {i \in DOMAIN r : r[i].lane = l}
<1>1. DOMAIN q = 1..Len(q) /\ DOMAIN r = 1..(Len(q) + 1) /\ Len(q) \in Nat
  BY AppendProperties
<1>2. r[Len(q) + 1] = m /\ \A i \in 1..Len(q) : r[i] = q[i]
  BY AppendProperties
<1>3. CASE m.lane = l
  <2>1. J = I \cup {Len(q) + 1} /\ I \subseteq DOMAIN q
    BY <1>1, <1>2, <1>3
  <2>2. OfLane(r, l) = Picked(r, J) /\ OfLane(q, l) = Picked(q, I)
    BY DEF OfLane
  <2> HIDE DEF I, J
  <2>3. Picked(r, J) = Append(Picked(q, I), m)
    BY <2>1, PickedAppendIn
  <2> QED BY <1>3, <2>2, <2>3
<1>4. CASE m.lane # l
  <2>1. J = I /\ I \subseteq DOMAIN q
    BY <1>1, <1>2, <1>4
  <2>2. OfLane(r, l) = Picked(r, J) /\ OfLane(q, l) = Picked(q, I)
    BY DEF OfLane
  <2> HIDE DEF I, J
  <2>3. Picked(r, I) = Picked(q, I)
    BY <2>1, PickedAppendOut
  <2> QED BY <1>4, <2>1, <2>2, <2>3
<1> QED BY <1>3, <1>4

\* They are messages, and the first of all is the first of its lane.
LEMMA LaneTail ==
    ASSUME NEW q \in Seq(Message), NEW l
    PROVE  /\ OfLane(q, l) \in Seq(Message)
           /\ q # <<>> => IF Head(q).lane = l
                            THEN /\ OfLane(q, l) # <<>>
                                 /\ Head(OfLane(q, l)) = Head(q)
                                 /\ OfLane(Tail(q), l) = Tail(OfLane(q, l))
                            ELSE OfLane(Tail(q), l) = OfLane(q, l)
<1> DEFINE I == {i \in DOMAIN q : q[i].lane = l}
           r == Tail(q)
           J == {i \in DOMAIN r : r[i].lane = l}
<1>1. I \subseteq DOMAIN q /\ OfLane(q, l) = Picked(q, I)
  BY DEF OfLane
<1>2. OfLane(q, l) \in Seq(Message)
  BY <1>1, PickedType
<1>3. ASSUME q # <<>>
      PROVE  /\ OfLane(r, l) = Picked(r, Down(I))
             /\ 1 \in I <=> Head(q).lane = l
  <2>1. DOMAIN q = 1..Len(q) /\ DOMAIN r = 1..(Len(q) - 1) /\ Len(q) \in Nat \ {0}
    BY <1>3, HeadTailProperties
  <2>2. Head(q) = q[1] /\ \A i \in 1..(Len(q) - 1) : r[i] = q[i + 1]
    BY <1>3, HeadTailProperties
  <2>3. ASSUME NEW i \in J PROVE i \in Down(I)
    <3>1. i + 1 \in I \ {1} /\ i = (i + 1) - 1
      BY <2>1, <2>2
    <3> QED BY <3>1 DEF Down
  <2>4. ASSUME NEW i \in Down(I) PROVE i \in J
    <3>1. PICK j \in I \ {1} : i = j - 1
      BY DEF Down
    <3>2. i \in 1..(Len(q) - 1) /\ r[i] = q[j]
      BY <2>1, <2>2, <3>1
    <3> QED BY <2>1, <3>1, <3>2
  <2>5. J = Down(I)
    BY <2>3, <2>4
  <2>6. 1 \in I <=> Head(q).lane = l
    BY <2>1, <2>2
  <2> QED BY <2>5, <2>6 DEF OfLane
<1> HIDE DEF I, r
<1>4. ASSUME q # <<>>, Head(q).lane = l
      PROVE  /\ OfLane(q, l) # <<>>
             /\ Head(OfLane(q, l)) = Head(q)
             /\ OfLane(r, l) = Tail(OfLane(q, l))
  BY <1>1, <1>3, <1>4, PickedTailIn DEF r
<1>5. ASSUME q # <<>>, Head(q).lane # l
      PROVE  OfLane(r, l) = OfLane(q, l)
  BY <1>1, <1>3, <1>5, PickedTailOut DEF r
<1> QED BY <1>2, <1>4, <1>5 DEF r

\* The poll lane from formatted back to raw, and the trap lane.
PollQ(F, hf, me, hp, de, hd, ra) == F \o hf \o me \o hp \o de \o hd \o ra
TrapQ(F, ht, tr) == F \o ht \o tr

\* The prefixes of the chain are sequences of messages.
LEMMA PollPrefixes ==
    ASSUME NEW F \in Seq(Message), NEW hf \in Seq(Message), NEW me \in Seq(Message),
           NEW hp \in Seq(Message), NEW de \in Seq(Message), NEW hd \in Seq(Message),
           NEW ra \in Seq(Message)
    PROVE  /\ F \o hf \in Seq(Message)
           /\ F \o hf \o me \in Seq(Message)
           /\ F \o hf \o me \o hp \in Seq(Message)
           /\ F \o hf \o me \o hp \o de \in Seq(Message)
           /\ F \o hf \o me \o hp \o de \o hd \in Seq(Message)
           /\ PollQ(F, hf, me, hp, de, hd, ra) \in Seq(Message)
BY ConcatProperties DEF PollQ

\* A message that moves one place along the poll lane leaves it as it is.
PollMoving(F, hf, me, hp, de, hd, ra, m) ==
    /\ ra # <<>> => PollQ(F, hf, me, hp, de, <<Head(ra)>>, Tail(ra))
                      = PollQ(F, hf, me, hp, de, <<>>, ra)
    /\ de # <<>> => PollQ(F, hf, me, <<Head(de)>>, Tail(de), hd, ra)
                      = PollQ(F, hf, me, <<>>, de, hd, ra)
    /\ me # <<>> => PollQ(F, <<Head(me)>>, Tail(me), hp, de, hd, ra)
                      = PollQ(F, <<>>, me, hp, de, hd, ra)
    /\ PollQ(F, hf, me, hp, Append(de, m), <<>>, ra) = PollQ(F, hf, me, hp, de, <<m>>, ra)
    /\ PollQ(F, hf, Append(me, m), <<>>, de, hd, ra) = PollQ(F, hf, me, <<m>>, de, hd, ra)
    /\ PollQ(Append(F, m), <<>>, me, hp, de, hd, ra) = PollQ(F, <<m>>, me, hp, de, hd, ra)

\* Moving a message along the poll lane leaves it as it was.
LEMMA PollMoves ==
    ASSUME NEW F \in Seq(Message), NEW hf \in Seq(Message), NEW me \in Seq(Message),
           NEW hp \in Seq(Message), NEW de \in Seq(Message), NEW hd \in Seq(Message),
           NEW ra \in Seq(Message), NEW m \in Message
    PROVE  PollMoving(F, hf, me, hp, de, hd, ra, m)
<1> DEFINE X2 == F \o hf
           X3 == F \o hf \o me
           X4 == F \o hf \o me \o hp
           X5 == F \o hf \o me \o hp \o de
           X6 == F \o hf \o me \o hp \o de \o hd
<1>0. X2 \in Seq(Message) /\ X3 \in Seq(Message) /\ X4 \in Seq(Message) /\ X5 \in Seq(Message) /\ X6 \in Seq(Message)
  BY PollPrefixes
<1> HIDE DEF X2, X3, X4, X5, X6
<1>1. ra # <<>> => X5 \o <<Head(ra)>> \o Tail(ra) = X5 \o <<>> \o ra
  <2>1. X5 \in Seq(Message)
    BY <1>0
  <2> QED BY <2>1, IntoHand, SMTT(30)
<1>2. de # <<>> => X3 \o <<Head(de)>> \o Tail(de) = X3 \o <<>> \o de
  <2>1. X3 \in Seq(Message)
    BY <1>0
  <2> QED BY <2>1, IntoHand, SMTT(30)
<1>3. me # <<>> => F \o <<Head(me)>> \o Tail(me) = F \o <<>> \o me
  BY IntoHand
<1>4. X4 \o Append(de, m) \o <<>> = X4 \o de \o <<m>>
  <2>1. X4 \in Seq(Message)
    BY <1>0
  <2> QED BY <2>1, OutOfHand, SMTT(30)
<1>5. X2 \o Append(me, m) \o <<>> = X2 \o me \o <<m>>
  <2>1. X2 \in Seq(Message)
    BY <1>0
  <2> QED BY <2>1, OutOfHand, SMTT(30)
<1>6. Append(F, m) \o <<>> = F \o <<m>>
  BY AppendIsConcat, AppendProperties, ConcatEmptySeq
<1> QED BY <1>1, <1>2, <1>3, <1>4, <1>5, <1>6 DEF X2, X3, X4, X5, PollQ, PollMoving

\* A message that is dropped is lost to the poll lane.
PollLosing(F, hf, me, hp, de, hd, ra) ==
    LET q == PollQ(F, hf, me, hp, de, hd, ra)
    IN  /\ ra # <<>> => Less(Message, q, PollQ(F, hf, me, hp, de, hd, Tail(ra)))
        /\ de # <<>> => Less(Message, q, PollQ(F, hf, me, hp, Tail(de), hd, ra))
        /\ me # <<>> => Less(Message, q, PollQ(F, hf, Tail(me), hp, de, hd, ra))

\* Dropping the head of one of its buffers takes one message out of it.
LEMMA PollLoses ==
    ASSUME NEW F \in Seq(Message), NEW hf \in Seq(Message), NEW me \in Seq(Message),
           NEW hp \in Seq(Message), NEW de \in Seq(Message), NEW hd \in Seq(Message),
           NEW ra \in Seq(Message)
    PROVE  PollLosing(F, hf, me, hp, de, hd, ra)
<1> DEFINE X2 == F \o hf
           X3 == F \o hf \o me
           X4 == F \o hf \o me \o hp
           X5 == F \o hf \o me \o hp \o de
           X6 == F \o hf \o me \o hp \o de \o hd
<1>0. X2 \in Seq(Message) /\ X3 \in Seq(Message) /\ X4 \in Seq(Message) /\ X5 \in Seq(Message) /\ X6 \in Seq(Message)
  BY PollPrefixes
<1> HIDE DEF X2, X3, X4, X5, X6
<1>1. ra # <<>> => Less(Message, X6 \o ra, X6 \o Tail(ra))
  <2>1. X6 \in Seq(Message)
    BY <1>0
  <2> QED BY <2>1, LessTail, SMTT(30)
<1>2. de # <<>> => Less(Message, X4 \o de, X4 \o Tail(de))
  <2>1. X4 \in Seq(Message)
    BY <1>0
  <2> QED BY <2>1, LessTail, SMTT(30)
<1>3. me # <<>> => Less(Message, X2 \o me, X2 \o Tail(me))
  <2>1. X2 \in Seq(Message)
    BY <1>0
  <2> QED BY <2>1, LessTail, SMTT(30)
<1>4. de # <<>> => Less(Message, X4 \o de \o hd \o ra, X4 \o Tail(de) \o hd \o ra)
  BY <1>2, LessMore
<1>5. me # <<>> => Less(Message, X2 \o me \o hp \o de, X2 \o Tail(me) \o hp \o de)
  BY <1>3, LessMore
<1>6. me # <<>> => Less(Message, X2 \o me \o hp \o de \o hd \o ra, X2 \o Tail(me) \o hp \o de \o hd \o ra)
  BY <1>5, LessMore
<1> QED BY <1>1, <1>4, <1>6 DEF X2, X4, X6, PollQ, PollLosing

\* A message that enters the poll lane is its last, and the first leaves it.
PollEnding(F, hf, me, hp, de, hd, ra, m) ==
    LET q == PollQ(F, hf, me, hp, de, hd, ra)
    IN  /\ PollQ(F, hf, me, hp, de, hd, Append(ra, m)) = Append(q, m)
        /\ F # <<>> => /\ q # <<>>
                       /\ Head(q) = Head(F)
                       /\ PollQ(Tail(F), hf, me, hp, de, hd, ra) = Tail(q)

\* A message enters it at raw and leaves it from formatted.
LEMMA PollEnds ==
    ASSUME NEW F \in Seq(Message), NEW hf \in Seq(Message), NEW me \in Seq(Message),
           NEW hp \in Seq(Message), NEW de \in Seq(Message), NEW hd \in Seq(Message),
           NEW ra \in Seq(Message), NEW m \in Message
    PROVE  PollEnding(F, hf, me, hp, de, hd, ra, m)
<1> DEFINE X2 == F \o hf
           X3 == F \o hf \o me
           X4 == F \o hf \o me \o hp
           X5 == F \o hf \o me \o hp \o de
           X6 == F \o hf \o me \o hp \o de \o hd
<1>0. X2 \in Seq(Message) /\ X3 \in Seq(Message) /\ X4 \in Seq(Message) /\ X5 \in Seq(Message) /\ X6 \in Seq(Message)
  BY PollPrefixes
<1> DEFINE q == X6 \o ra
           Y2 == Tail(F) \o hf
           Y3 == Y2 \o me
           Y4 == Y3 \o hp
           Y5 == Y4 \o de
           Y6 == Y5 \o hd
<1>1. X3 = X2 \o me /\ X4 = X3 \o hp /\ X5 = X4 \o de /\ X6 = X5 \o hd
  OBVIOUS
<1>2. q = PollQ(F, hf, me, hp, de, hd, ra) /\ Y6 \o ra = PollQ(Tail(F), hf, me, hp, de, hd, ra)
  BY DEF PollQ
<1>3. PollQ(F, hf, me, hp, de, hd, Append(ra, m)) = X6 \o Append(ra, m)
  BY DEF PollQ
<1>4. ASSUME F # <<>> PROVE X2 # <<>> /\ Head(X2) = Head(F) /\ Y2 = Tail(X2)
  BY <1>4, FromHead
<1> HIDE DEF X2, X3, X4, X5, X6
<1>5. X6 \o Append(ra, m) = Append(q, m)
  <2>1. X6 \in Seq(Message)
    BY <1>0
  <2> QED BY <2>1, AtEnd
<1>6. ASSUME F # <<>> PROVE X3 # <<>> /\ Head(X3) = Head(F) /\ Y3 = Tail(X3)
  <2> HIDE DEF Y2
  <2>1. /\ X2 \o me # <<>> /\ Head(X2 \o me) = Head(X2)
        /\ Tail(X2) \o me = Tail(X2 \o me)
    BY <1>0, <1>4, <1>6, FromHead
  <2> QED BY <1>1, <1>4, <1>6, <2>1
<1>7. ASSUME F # <<>> PROVE X4 # <<>> /\ Head(X4) = Head(F) /\ Y4 = Tail(X4)
  <2> HIDE DEF Y3
  <2>1. /\ X3 \o hp # <<>> /\ Head(X3 \o hp) = Head(X3)
        /\ Tail(X3) \o hp = Tail(X3 \o hp)
    BY <1>0, <1>6, <1>7, FromHead
  <2> QED BY <1>1, <1>6, <1>7, <2>1
<1>8. ASSUME F # <<>> PROVE X5 # <<>> /\ Head(X5) = Head(F) /\ Y5 = Tail(X5)
  <2> HIDE DEF Y4
  <2>1. /\ X4 \o de # <<>> /\ Head(X4 \o de) = Head(X4)
        /\ Tail(X4) \o de = Tail(X4 \o de)
    BY <1>0, <1>7, <1>8, FromHead
  <2> QED BY <1>1, <1>7, <1>8, <2>1
<1>9. ASSUME F # <<>> PROVE X6 # <<>> /\ Head(X6) = Head(F) /\ Y6 = Tail(X6)
  <2> HIDE DEF Y5
  <2>1. /\ X5 \o hd # <<>> /\ Head(X5 \o hd) = Head(X5)
        /\ Tail(X5) \o hd = Tail(X5 \o hd)
    BY <1>0, <1>8, <1>9, FromHead
  <2> QED BY <1>1, <1>8, <1>9, <2>1
<1>10. ASSUME F # <<>> PROVE q # <<>> /\ Head(q) = Head(F) /\ Y6 \o ra = Tail(q)
  <2> HIDE DEF Y6
  <2> QED BY <1>0, <1>9, <1>10, FromHead
<1> HIDE DEF q, Y6
<1> QED BY <1>2, <1>3, <1>5, <1>10 DEF PollEnding

\* What the steps of a message do to the trap lane.
TrapMoving(F, ht, tr, m) ==
    LET q == TrapQ(F, ht, tr)
    IN  /\ q \in Seq(Message)
        /\ tr # <<>> => /\ TrapQ(F, <<Head(tr)>>, Tail(tr)) = TrapQ(F, <<>>, tr)
                        /\ Less(Message, q, TrapQ(F, ht, Tail(tr)))
        /\ TrapQ(Append(F, m), <<>>, tr) = TrapQ(F, <<m>>, tr)
        /\ TrapQ(F, ht, Append(tr, m)) = Append(q, m)
        /\ F # <<>> => /\ q # <<>>
                       /\ Head(q) = Head(F)
                       /\ TrapQ(Tail(F), ht, tr) = Tail(q)

\* The same of the trap lane.
LEMMA TrapMoves ==
    ASSUME NEW F \in Seq(Message), NEW ht \in Seq(Message), NEW tr \in Seq(Message),
           NEW m \in Message
    PROVE  TrapMoving(F, ht, tr, m)
<1> USE DEF TrapQ
<1>1. F \o ht \in Seq(Message) /\ F \o ht \o tr \in Seq(Message)
  BY ConcatProperties
<1>2. tr # <<>> => /\ F \o <<Head(tr)>> \o Tail(tr) = F \o <<>> \o tr
                   /\ Less(Message, F \o ht \o tr, F \o ht \o Tail(tr))
  BY <1>1, IntoHand, LessTail
<1>3. Append(F, m) \o <<>> = F \o <<m>>
  BY AppendIsConcat, AppendProperties, ConcatEmptySeq
<1>4. F \o ht \o Append(tr, m) = Append(F \o ht \o tr, m)
  BY <1>1, AtEnd
<1>5. ASSUME F # <<>>
      PROVE  F \o ht # <<>> /\ Head(F \o ht) = Head(F) /\ Tail(F) \o ht = Tail(F \o ht)
  BY <1>5, FromHead
<1>6. ASSUME F # <<>>
      PROVE  /\ F \o ht \o tr # <<>>
             /\ Head(F \o ht \o tr) = Head(F)
             /\ Tail(F) \o ht \o tr = Tail(F \o ht \o tr)
  BY <1>1, <1>5, <1>6, FromHead
<1> QED BY <1>1, <1>2, <1>3, <1>4, <1>6 DEF TrapMoving

\* Both lanes as they are now.
PollNow == PollQ(OfLane(ch["formatted"], "poll"), Hand("format"), ch["metric"],
                 Hand("produce"), ch["decoded"], Hand("decode"), ch["raw"])
TrapNow == TrapQ(OfLane(ch["formatted"], "trap"), Hand("trapformat"), ch["trap"])

\* Pending holds one sequence of messages for each lane.
LEMMA PendingNow ==
    ASSUME TypeOK
    PROVE  /\ Pending = [l \in {"poll", "trap"} |-> IF l = "trap" THEN TrapNow ELSE PollNow]
           /\ \A s \in Stages : Hand(s) \in Seq(Message)
           /\ \A c \in Chans : ch[c] \in Seq(Message)
           /\ \A l : OfLane(ch["formatted"], l) \in Seq(Message)
           /\ PollNow \in Seq(Message) /\ TrapNow \in Seq(Message)
<1>1. \A c \in Chans : ch[c] \in Seq(Message)
  BY DEF TypeOK
<1>2. \A s \in Stages : Hand(s) \in Seq(Message)
  <2> SUFFICES ASSUME NEW s \in Stages PROVE Hand(s) \in Seq(Message)
    OBVIOUS
  <2>1. buf[s] \in Message \cup {NoMsg}
    BY DEF TypeOK
  <2>2. CASE buf[s] = NoMsg
    BY <2>2 DEF Hand
  <2>3. CASE buf[s] # NoMsg
    BY <2>1, <2>3 DEF Hand
  <2> QED BY <2>2, <2>3
<1>3. \A l : OfLane(ch["formatted"], l) \in Seq(Message)
  BY <1>1, LaneTail DEF Chans
<1>4. PollNow \in Seq(Message)
  BY <1>1, <1>2, <1>3, PollPrefixes DEF PollNow, Chans, Stages
<1>5. TrapNow \in Seq(Message)
  BY <1>1, <1>2, <1>3, ConcatProperties DEF TrapNow, TrapQ, Chans, Stages
<1>6. Pending = [l \in {"poll", "trap"} |-> IF l = "trap" THEN TrapNow ELSE PollNow]
  BY DEF Pending, PollNow, TrapNow, PollQ, TrapQ
<1> QED BY <1>1, <1>2, <1>3, <1>4, <1>5, <1>6

\* When one lane stays as it is, the other one is all that changes.
LEMMA PendingUpdates ==
    /\ TrapNow' = TrapNow => Pending' = [Pending EXCEPT !["poll"] = PollNow']
    /\ PollNow' = PollNow => Pending' = [Pending EXCEPT !["trap"] = TrapNow']
<1>1. Pending = [l \in {"poll", "trap"} |-> IF l = "trap" THEN TrapNow ELSE PollNow]
  BY DEF Pending, PollNow, TrapNow, PollQ, TrapQ
<1>2. Pending' = [l \in {"poll", "trap"} |-> IF l = "trap" THEN TrapNow' ELSE PollNow']
  BY DEF Pending, PollNow, TrapNow, PollQ, TrapQ
<1> QED BY <1>1, <1>2

\* The transport is closed.
Stopped == apc \in {"closepool", "done"}

\* Nothing that the queues see changes.
LEMMA QueueStutters ==
    ASSUME TypeOK, TypeOK', PollNow' = PollNow, TrapNow' = TrapNow,
           buf'["transport"] = buf["transport"], Stopped' <=> Stopped
    PROVE  UNCHANGED Queue!qvars
<1>1. Pending' = Pending
  BY PendingNow DEF Pending, PollNow, TrapNow, PollQ, TrapQ
<1>2. (apc \in {"closepool", "done"})' = (apc \in {"closepool", "done"})
  BY DEF Stopped
<1> QED BY <1>1, <1>2 DEF Queue!qvars

\* A step that touches no channel but jobs and no hand of a stage.
LEMMA SourceStutters ==
    ASSUME TypeOK, TypeOK', \A c \in Chans \ {"jobs"} : ch'[c] = ch[c], UNCHANGED buf,
           Stopped' <=> Stopped
    PROVE  UNCHANGED Queue!qvars
<1>1. PollNow' = PollNow /\ TrapNow' = TrapNow
  BY DEF PollNow, TrapNow, Hand, Chans
<1> QED BY <1>1, QueueStutters

\* Lane q becomes p by a message that is appended, lost, or taken in hand.
Accepted(q, p) == \E m \in Message : p = Append(q, m)

\* A message enters a lane.
LEMMA QueueAccepts ==
    ASSUME TypeOK, TypeOK', ~Stopped, UNCHANGED apc, buf'["transport"] = buf["transport"],
           \/ Accepted(PollNow, PollNow') /\ TrapNow' = TrapNow
           \/ Accepted(TrapNow, TrapNow') /\ PollNow' = PollNow
    PROVE  \E l \in {"poll", "trap"} : Queue!Accept(l)
<1>1. ASSUME NEW l \in {"poll", "trap"}, NEW m \in Message, Pending[l] \in Seq(Message),
             Pending' = [Pending EXCEPT ![l] = Append(Pending[l], m)]
      PROVE  Queue!Accept(l)
  <2>1. l \in DOMAIN Pending
    BY DEF Pending
  <2>2. Pending'[l] = Append(Pending[l], m)
    BY <1>1, <2>1
  <2>3. Len(Pending'[l]) = Len(Pending[l]) + 1 /\ Pending'[l][Len(Pending[l]) + 1] = m
    BY <1>1, <2>2, AppendProperties
  <2>4. ~(apc \in {"closepool", "done"})
    BY DEF Stopped
  <2> QED BY <1>1, <2>3, <2>4 DEF Queue!Accept
<1>2. CASE Accepted(PollNow, PollNow') /\ TrapNow' = TrapNow
  <2>1. PICK m \in Message : PollNow' = Append(PollNow, m)
    BY <1>2 DEF Accepted
  <2>2. Pending["poll"] = PollNow /\ PollNow \in Seq(Message)
    BY PendingNow
  <2>3. Pending' = [Pending EXCEPT !["poll"] = Append(Pending["poll"], m)]
    BY <1>2, <2>1, <2>2, PendingUpdates
  <2> QED BY <1>1, <2>2, <2>3
<1>3. CASE Accepted(TrapNow, TrapNow') /\ PollNow' = PollNow
  <2>1. PICK m \in Message : TrapNow' = Append(TrapNow, m)
    BY <1>3 DEF Accepted
  <2>2. Pending["trap"] = TrapNow /\ TrapNow \in Seq(Message)
    BY PendingNow
  <2>3. Pending' = [Pending EXCEPT !["trap"] = Append(Pending["trap"], m)]
    BY <1>3, <2>1, <2>2, PendingUpdates
  <2> QED BY <1>1, <2>2, <2>3
<1> QED BY <1>2, <1>3

\* A message of a lane is lost.
LEMMA QueueLoses ==
    ASSUME TypeOK, TypeOK', UNCHANGED apc, buf'["transport"] = buf["transport"],
           \/ Less(Message, PollNow, PollNow') /\ TrapNow' = TrapNow
           \/ Less(Message, TrapNow, TrapNow') /\ PollNow' = PollNow
    PROVE  \E l \in {"poll", "trap"} : Queue!Lose(l)
<1>1. ASSUME NEW l \in {"poll", "trap"}, NEW p, Less(Message, Pending[l], p),
             Pending' = [Pending EXCEPT ![l] = p]
      PROVE  Queue!Lose(l)
  <2>1. PICK i \in DOMAIN Pending[l] : p = Queue!Without(Pending[l], i)
    BY <1>1, LessIsWithout
  <2>2. Pending' = [Pending EXCEPT ![l] = Queue!Without(Pending[l], i)]
    BY <1>1, <2>1
  <2> QED BY <2>2 DEF Queue!Lose
<1>2. CASE Less(Message, PollNow, PollNow') /\ TrapNow' = TrapNow
  <2>1. Pending["poll"] = PollNow
    BY PendingNow
  <2>2. Pending' = [Pending EXCEPT !["poll"] = PollNow']
    BY <1>2, PendingUpdates
  <2> QED BY <1>1, <1>2, <2>1, <2>2
<1>3. CASE Less(Message, TrapNow, TrapNow') /\ PollNow' = PollNow
  <2>1. Pending["trap"] = TrapNow
    BY PendingNow
  <2>2. Pending' = [Pending EXCEPT !["trap"] = TrapNow']
    BY <1>3, PendingUpdates
  <2> QED BY <1>1, <1>3, <2>1, <2>2
<1> QED BY <1>2, <1>3

\* The transport takes the head of lane q in hand.
Taken(q, p, m) == q # <<>> /\ m = Head(q) /\ p = Tail(q)

\* The head of a lane is taken by the transport.
LEMMA QueueTakes ==
    ASSUME TypeOK, TypeOK', UNCHANGED apc, buf["transport"] = NoMsg,
           \/ Taken(PollNow, PollNow', buf'["transport"]) /\ TrapNow' = TrapNow
           \/ Taken(TrapNow, TrapNow', buf'["transport"]) /\ PollNow' = PollNow
    PROVE  \E l \in {"poll", "trap"} : Queue!Take(l)
<1>1. CASE Taken(PollNow, PollNow', buf'["transport"]) /\ TrapNow' = TrapNow
  <2>1. Pending["poll"] = PollNow
    BY PendingNow
  <2>2. Pending' = [Pending EXCEPT !["poll"] = Tail(Pending["poll"])]
    BY <1>1, <2>1, PendingUpdates DEF Taken
  <2> QED BY <1>1, <2>1, <2>2 DEF Queue!Take, Taken
<1>2. CASE Taken(TrapNow, TrapNow', buf'["transport"]) /\ PollNow' = PollNow
  <2>1. Pending["trap"] = TrapNow
    BY PendingNow
  <2>2. Pending' = [Pending EXCEPT !["trap"] = Tail(Pending["trap"])]
    BY <1>2, <2>1, PendingUpdates DEF Taken
  <2> QED BY <1>2, <2>1, <2>2 DEF Queue!Take, Taken
<1> QED BY <1>1, <1>2

\* The parts of the lanes are sequences of messages.
LaneParts(P, T, hf, ht, hp, hd, me, de, ra, tr) ==
    /\ P = OfLane(ch["formatted"], "poll") /\ T = OfLane(ch["formatted"], "trap")
    /\ hf = Hand("format") /\ ht = Hand("trapformat")
    /\ hp = Hand("produce") /\ hd = Hand("decode")
    /\ me = ch["metric"] /\ de = ch["decoded"] /\ ra = ch["raw"] /\ tr = ch["trap"]

\* The parts are sequences of messages, and the lanes are made of them.
LEMMA PartsType ==
    ASSUME TypeOK, NEW P, NEW T, NEW hf, NEW ht, NEW hp, NEW hd, NEW me, NEW de, NEW ra, NEW tr,
           LaneParts(P, T, hf, ht, hp, hd, me, de, ra, tr)
    PROVE  /\ P \in Seq(Message) /\ T \in Seq(Message)
           /\ hf \in Seq(Message) /\ ht \in Seq(Message)
           /\ hp \in Seq(Message) /\ hd \in Seq(Message)
           /\ me \in Seq(Message) /\ de \in Seq(Message)
           /\ ra \in Seq(Message) /\ tr \in Seq(Message)
           /\ PollNow = PollQ(P, hf, me, hp, de, hd, ra)
           /\ TrapNow = TrapQ(T, ht, tr)
BY PendingNow DEF LaneParts, PollNow, TrapNow, Stages, Chans

\* So what is known of the lanes holds of the parts.
LEMMA PartsMove ==
    ASSUME TypeOK, NEW P, NEW T, NEW hf, NEW ht, NEW hp, NEW hd, NEW me, NEW de, NEW ra, NEW tr,
           LaneParts(P, T, hf, ht, hp, hd, me, de, ra, tr), NEW m \in Message
    PROVE  /\ PollNow = PollQ(P, hf, me, hp, de, hd, ra)
           /\ TrapNow = TrapQ(T, ht, tr)
           /\ PollMoving(P, hf, me, hp, de, hd, ra, m)
           /\ PollLosing(P, hf, me, hp, de, hd, ra)
           /\ PollEnding(P, hf, me, hp, de, hd, ra, m)
           /\ TrapMoving(T, ht, tr, m)
<1>1. /\ P \in Seq(Message) /\ T \in Seq(Message)
      /\ hf \in Seq(Message) /\ ht \in Seq(Message)
      /\ hp \in Seq(Message) /\ hd \in Seq(Message)
      /\ me \in Seq(Message) /\ de \in Seq(Message)
      /\ ra \in Seq(Message) /\ tr \in Seq(Message)
      /\ PollNow = PollQ(P, hf, me, hp, de, hd, ra)
      /\ TrapNow = TrapQ(T, ht, tr)
  BY PartsType
<1> QED BY <1>1, PollMoves, PollLoses, PollEnds, TrapMoves

\* A stage takes a message in hand: it moves along its lane, or, at the
\* transport, leaves it.
LEMMA RecvQueue ==
    ASSUME IInv, IInv', NEW s \in Stages, StageRecv(s)
    PROVE  [Queue!Next]_(Queue!qvars)
<1>0. TypeOK /\ TypeOK'
  BY DEF IInv
<1>1. /\ ch[In(s)] # <<>> /\ ch'[In(s)] = Tail(ch[In(s)])
      /\ \A c \in Chans : c # In(s) => ch'[c] = ch[c]
  BY <1>0, EndsType DEF StageRecv, Pop, TypeOK
<1>2. /\ buf[s] = NoMsg /\ buf'[s] = Head(ch[In(s)]) /\ buf'[s] # NoMsg
      /\ \A r \in Stages : r # s => buf'[r] = buf[r]
  BY <1>0 DEF StageRecv, TypeOK
<1>3. /\ Hand(s) = <<>> /\ Hand(s)' = <<Head(ch[In(s)])>>
      /\ \A r \in Stages : r # s => Hand(r)' = Hand(r)
  BY <1>2 DEF Hand
<1>4. PICK P, T, hf, ht, hp, hd, me, de, ra, tr :
              LaneParts(P, T, hf, ht, hp, hd, me, de, ra, tr)
  BY DEF LaneParts
<1>5. UNCHANGED apc /\ (Stopped' <=> Stopped)
  BY DEF StageRecv, appVars, Stopped
<1>6. PICK m : m \in Message
  <2>1. ch[In(s)] \in Seq(Message)
    BY <1>0, EndsType, PendingNow
  <2> QED BY <1>1, <2>1
<1>7. /\ PollNow = PollQ(P, hf, me, hp, de, hd, ra) /\ TrapNow = TrapQ(T, ht, tr)
      /\ PollMoving(P, hf, me, hp, de, hd, ra, m) /\ PollLosing(P, hf, me, hp, de, hd, ra)
      /\ PollEnding(P, hf, me, hp, de, hd, ra, m) /\ TrapMoving(T, ht, tr, m)
  BY <1>0, <1>4, <1>6, PartsMove
<1> USE <1>0, <1>1, <1>3, <1>6 DEF In, Stages, Chans
<1>8. CASE s = "decode"
  <2>1. ra # <<>> /\ PollNow' = PollQ(P, hf, me, hp, de, <<Head(ra)>>, Tail(ra))
    BY <1>4, <1>8 DEF PollNow, LaneParts
  <2>2. PollNow = PollQ(P, hf, me, hp, de, <<>>, ra)
    BY <1>4, <1>8 DEF PollNow, LaneParts
  <2>3. PollNow' = PollNow
    BY <1>4, <2>1, <2>2, <1>7 DEF PollMoving
  <2>4. TrapNow' = TrapNow
    BY <1>8 DEF TrapNow
  <2> QED BY <1>2, <1>5, <1>8, <2>3, <2>4, QueueStutters
<1>9. CASE s = "produce"
  <2>1. de # <<>> /\ PollNow' = PollQ(P, hf, me, <<Head(de)>>, Tail(de), hd, ra)
    BY <1>4, <1>9 DEF PollNow, LaneParts
  <2>2. PollNow = PollQ(P, hf, me, <<>>, de, hd, ra)
    BY <1>4, <1>9 DEF PollNow, LaneParts
  <2>3. PollNow' = PollNow
    BY <1>4, <2>1, <2>2, <1>7 DEF PollMoving
  <2>4. TrapNow' = TrapNow
    BY <1>9 DEF TrapNow
  <2> QED BY <1>2, <1>5, <1>9, <2>3, <2>4, QueueStutters
<1>10. CASE s = "format"
  <2>1. me # <<>> /\ PollNow' = PollQ(P, <<Head(me)>>, Tail(me), hp, de, hd, ra)
    BY <1>4, <1>10 DEF PollNow, LaneParts
  <2>2. PollNow = PollQ(P, <<>>, me, hp, de, hd, ra)
    BY <1>4, <1>10 DEF PollNow, LaneParts
  <2>3. PollNow' = PollNow
    BY <1>4, <2>1, <2>2, <1>7 DEF PollMoving
  <2>4. TrapNow' = TrapNow
    BY <1>10 DEF TrapNow
  <2> QED BY <1>2, <1>5, <1>10, <2>3, <2>4, QueueStutters
<1>11. CASE s = "trapformat"
  <2>1. tr # <<>> /\ TrapNow' = TrapQ(T, <<Head(tr)>>, Tail(tr))
    BY <1>4, <1>11 DEF TrapNow, LaneParts
  <2>2. TrapNow = TrapQ(T, <<>>, tr)
    BY <1>4, <1>11 DEF TrapNow, LaneParts
  <2>3. TrapNow' = TrapNow
    BY <1>4, <2>1, <2>2, <1>7 DEF TrapMoving
  <2>4. PollNow' = PollNow
    BY <1>11 DEF PollNow
  <2> QED BY <1>2, <1>5, <1>11, <2>3, <2>4, QueueStutters
<1>12. CASE s = "transport"
  <2> DEFINE q == ch["formatted"]
  <2>1. q \in Seq(Message) /\ q # <<>> /\ ch'["formatted"] = Tail(q) /\ Head(q) \in Message
    <3>1. q \in Seq(Message)
      BY PendingNow
    <3> QED BY <1>12, <3>1
  <2>2. \A l : OfLane(Tail(q), l) = IF Head(q).lane = l THEN Tail(OfLane(q, l)) ELSE OfLane(q, l)
    BY <2>1, LaneTail
  <2>3. \A l : Head(q).lane = l => OfLane(q, l) # <<>> /\ Head(OfLane(q, l)) = Head(q)
    BY <2>1, LaneTail
  <2>4. ASSUME Head(q).lane = "poll" PROVE Taken(PollNow, PollNow', Head(q)) /\ TrapNow' = TrapNow
    <3>1. TrapNow' = TrapNow
      BY <1>12, <2>1, <2>2, <2>4 DEF TrapNow
    <3>2. P # <<>> /\ Head(P) = Head(q)
      BY <1>4, <2>3, <2>4 DEF LaneParts
    <3>3. PollNow' = PollQ(Tail(P), hf, me, hp, de, hd, ra)
      BY <1>4, <1>12, <2>1, <2>2, <2>4 DEF PollNow, LaneParts
    <3>4. PollNow # <<>> /\ Head(PollNow) = Head(P) /\ PollNow' = Tail(PollNow)
      BY <1>4, <3>2, <3>3, <1>7 DEF PollEnding
    <3> QED BY <3>1, <3>2, <3>4 DEF Taken
  <2>5. ASSUME Head(q).lane = "trap" PROVE Taken(TrapNow, TrapNow', Head(q)) /\ PollNow' = PollNow
    <3>1. PollNow' = PollNow
      BY <1>12, <2>1, <2>2, <2>5 DEF PollNow
    <3>2. T # <<>> /\ Head(T) = Head(q)
      BY <1>4, <2>3, <2>5 DEF LaneParts
    <3>3. TrapNow' = TrapQ(Tail(T), ht, tr)
      BY <1>4, <1>12, <2>1, <2>2, <2>5 DEF TrapNow, LaneParts
    <3>4. TrapNow # <<>> /\ Head(TrapNow) = Head(T) /\ TrapNow' = Tail(TrapNow)
      BY <1>4, <3>2, <3>3, <1>7 DEF TrapMoving
    <3> QED BY <3>1, <3>2, <3>4 DEF Taken
  <2>6. buf'["transport"] = Head(q) /\ buf["transport"] = NoMsg
    BY <1>2, <1>12
  <2>7. Head(q).lane \in {"poll", "trap"}
    BY <2>1, CarriesType
  <2> HIDE DEF q
  <2>8. \E l \in {"poll", "trap"} : Queue!Take(l)
    BY <1>5, <2>4, <2>5, <2>6, <2>7, QueueTakes
  <2> QED BY <2>8 DEF Queue!Next
<1> QED BY <1>8, <1>9, <1>10, <1>11, <1>12

\* A stage passes its message on: it moves along its lane.
LEMMA SendQueue ==
    ASSUME IInv, IInv', Laned, NEW s \in Stages, StageSend(s)
    PROVE  [Queue!Next]_(Queue!qvars)
<1>0. TypeOK /\ TypeOK' /\ s # "transport" /\ Out(s) \in Chans
  BY EndsType DEF IInv, StageSend
<1>1. /\ ch'[Out(s)] = Append(ch[Out(s)], buf[s])
      /\ \A c \in Chans : c # Out(s) => ch'[c] = ch[c]
  BY <1>0 DEF StageSend, Push, TypeOK
<1>2. /\ buf[s] # NoMsg /\ buf[s] \in Carries(In(s)) /\ buf'[s] = NoMsg
      /\ \A r \in Stages : r # s => buf'[r] = buf[r]
  BY <1>0 DEF StageSend, TypeOK, Laned
<1>3. PICK m : m = buf[s]
  OBVIOUS
<1>4. /\ Hand(s) = <<m>> /\ Hand(s)' = <<>>
      /\ \A r \in Stages : r # s => Hand(r)' = Hand(r)
  BY <1>2, <1>3 DEF Hand
<1>5. PICK P, T, hf, ht, hp, hd, me, de, ra, tr :
              LaneParts(P, T, hf, ht, hp, hd, me, de, ra, tr)
  BY DEF LaneParts
<1>6. (Stopped' <=> Stopped) /\ buf'["transport"] = buf["transport"]
  BY <1>0, <1>2 DEF StageSend, appVars, Stopped, Stages
<1>7. m \in Message /\ (s = "trapformat" => m.lane = "trap") /\ (s = "format" => m.lane = "poll")
  BY <1>2, <1>3, CarriesType DEF Carries, In
<1>8. ASSUME Out(s) = "formatted", NEW l
      PROVE  OfLane(ch'["formatted"], l) = IF m.lane = l THEN Append(OfLane(ch["formatted"], l), m)
                                           ELSE OfLane(ch["formatted"], l)
  <2>1. ch["formatted"] \in Seq(Message) /\ ch'["formatted"] = Append(ch["formatted"], m)
    BY <1>0, <1>1, <1>3, <1>8, PendingNow
  <2>2. OfLane(Append(ch["formatted"], m), l) = IF m.lane = l THEN Append(OfLane(ch["formatted"], l), m)
                                                ELSE OfLane(ch["formatted"], l)
    BY <1>7, <2>1, LaneAppend
  <2> QED BY <2>1, <2>2
<1>9. /\ PollNow = PollQ(P, hf, me, hp, de, hd, ra) /\ TrapNow = TrapQ(T, ht, tr)
      /\ PollMoving(P, hf, me, hp, de, hd, ra, m) /\ PollLosing(P, hf, me, hp, de, hd, ra)
      /\ PollEnding(P, hf, me, hp, de, hd, ra, m) /\ TrapMoving(T, ht, tr, m)
  BY <1>0, <1>5, <1>7, PartsMove
<1> USE <1>0, <1>1, <1>3, <1>4, <1>7 DEF Out, Stages, Chans
<1>10. CASE s = "decode"
  <2>1. PollNow' = PollQ(P, hf, me, hp, Append(de, m), <<>>, ra)
    BY <1>5, <1>10 DEF PollNow, LaneParts
  <2>2. PollNow = PollQ(P, hf, me, hp, de, <<m>>, ra)
    BY <1>5, <1>10 DEF PollNow, LaneParts
  <2>3. PollNow' = PollNow
    BY <1>5, <2>1, <2>2, <1>9 DEF PollMoving
  <2>4. TrapNow' = TrapNow
    BY <1>10 DEF TrapNow
  <2> QED BY <1>6, <2>3, <2>4, QueueStutters
<1>11. CASE s = "produce"
  <2>1. PollNow' = PollQ(P, hf, Append(me, m), <<>>, de, hd, ra)
    BY <1>5, <1>11 DEF PollNow, LaneParts
  <2>2. PollNow = PollQ(P, hf, me, <<m>>, de, hd, ra)
    BY <1>5, <1>11 DEF PollNow, LaneParts
  <2>3. PollNow' = PollNow
    BY <1>5, <2>1, <2>2, <1>9 DEF PollMoving
  <2>4. TrapNow' = TrapNow
    BY <1>11 DEF TrapNow
  <2> QED BY <1>6, <2>3, <2>4, QueueStutters
<1>12. CASE s = "format"
  <2>1. OfLane(ch'["formatted"], "poll") = Append(P, m)
    BY <1>5, <1>8, <1>12 DEF LaneParts
  <2>2. PollNow' = PollQ(Append(P, m), <<>>, me, hp, de, hd, ra)
    BY <1>5, <1>12, <2>1 DEF PollNow, LaneParts
  <2>3. PollNow = PollQ(P, <<m>>, me, hp, de, hd, ra)
    BY <1>5, <1>12 DEF PollNow, LaneParts
  <2>4. PollNow' = PollNow
    BY <1>5, <2>2, <2>3, <1>9 DEF PollMoving
  <2>5. OfLane(ch'["formatted"], "trap") = T
    BY <1>5, <1>8, <1>12 DEF LaneParts
  <2>6. TrapNow' = TrapNow
    BY <1>5, <1>12, <2>5 DEF TrapNow, LaneParts
  <2> QED BY <1>6, <2>4, <2>6, QueueStutters
<1>13. CASE s = "trapformat"
  <2>1. OfLane(ch'["formatted"], "trap") = Append(T, m)
    BY <1>5, <1>8, <1>13 DEF LaneParts
  <2>2. TrapNow' = TrapQ(Append(T, m), <<>>, tr)
    BY <1>5, <1>13, <2>1 DEF TrapNow, LaneParts
  <2>3. TrapNow = TrapQ(T, <<m>>, tr)
    BY <1>5, <1>13 DEF TrapNow, LaneParts
  <2>4. TrapNow' = TrapNow
    BY <1>5, <2>2, <2>3, <1>9 DEF TrapMoving
  <2>5. OfLane(ch'["formatted"], "poll") = P
    BY <1>5, <1>8, <1>13 DEF LaneParts
  <2>6. PollNow' = PollNow
    BY <1>5, <1>13, <2>5 DEF PollNow, LaneParts
  <2> QED BY <1>6, <2>4, <2>6, QueueStutters
<1> QED BY <1>10, <1>11, <1>12, <1>13

\* A stage drops its message: its lane loses it.
LEMMA DropQueue ==
    ASSUME IInv, IInv', NEW s \in Stages, StageDrop(s)
    PROVE  [Queue!Next]_(Queue!qvars)
<1>0. TypeOK /\ TypeOK' /\ s # "transport"
  BY DEF IInv, StageDrop
<1>1. /\ ch[In(s)] # <<>> /\ ch'[In(s)] = Tail(ch[In(s)])
      /\ \A c \in Chans : c # In(s) => ch'[c] = ch[c]
  BY <1>0, EndsType DEF StageDrop, Pop, TypeOK
<1>2. UNCHANGED <<apc, buf>>
  BY DEF StageDrop, stageVars, appVars
<1>3. \A r \in Stages : Hand(r)' = Hand(r)
  BY <1>2 DEF Hand
<1>4. PICK P, T, hf, ht, hp, hd, me, de, ra, tr :
              LaneParts(P, T, hf, ht, hp, hd, me, de, ra, tr)
  BY DEF LaneParts
<1>5. PICK m : m \in Message
  <2>1. ch[In(s)] \in Seq(Message)
    BY <1>0, EndsType, PendingNow
  <2> QED BY <1>1, <2>1
<1>6. /\ PollNow = PollQ(P, hf, me, hp, de, hd, ra) /\ TrapNow = TrapQ(T, ht, tr)
      /\ PollMoving(P, hf, me, hp, de, hd, ra, m) /\ PollLosing(P, hf, me, hp, de, hd, ra)
      /\ PollEnding(P, hf, me, hp, de, hd, ra, m) /\ TrapMoving(T, ht, tr, m)
  BY <1>0, <1>4, <1>5, PartsMove
<1> USE <1>0, <1>1, <1>3 DEF In, Stages, Chans
<1>7. ASSUME s \in {"decode", "produce", "format"}
      PROVE  Less(Message, PollNow, PollNow') /\ TrapNow' = TrapNow
  <2>1. TrapNow' = TrapNow
    BY <1>7 DEF TrapNow
  <2>2. CASE s = "decode"
    <3>1. ra # <<>> /\ PollNow' = PollQ(P, hf, me, hp, de, hd, Tail(ra))
      BY <1>4, <2>2 DEF PollNow, LaneParts
    <3> QED BY <1>4, <2>1, <3>1, <1>6 DEF PollLosing
  <2>3. CASE s = "produce"
    <3>1. de # <<>> /\ PollNow' = PollQ(P, hf, me, hp, Tail(de), hd, ra)
      BY <1>4, <2>3 DEF PollNow, LaneParts
    <3> QED BY <1>4, <2>1, <3>1, <1>6 DEF PollLosing
  <2>4. CASE s = "format"
    <3>1. me # <<>> /\ PollNow' = PollQ(P, hf, Tail(me), hp, de, hd, ra)
      BY <1>4, <2>4 DEF PollNow, LaneParts
    <3> QED BY <1>4, <2>1, <3>1, <1>6 DEF PollLosing
  <2> QED BY <1>7, <2>2, <2>3, <2>4
<1>8. ASSUME s = "trapformat"
      PROVE  Less(Message, TrapNow, TrapNow') /\ PollNow' = PollNow
  <2>1. PollNow' = PollNow
    BY <1>8 DEF PollNow
  <2>2. tr # <<>> /\ TrapNow' = TrapQ(T, ht, Tail(tr))
    BY <1>4, <1>8 DEF TrapNow, LaneParts
  <2>3. Head(tr) \in Message
    BY <1>4, <2>2, PartsType
  <2> QED BY <1>4, <2>1, <2>2, <2>3, <1>6 DEF TrapMoving
<1>9. \E l \in {"poll", "trap"} : Queue!Lose(l)
  BY <1>2, <1>7, <1>8, QueueLoses
<1> QED BY <1>9 DEF Queue!Next

\* A result enters the poll lane at raw; what else a worker does is not seen.
LEMMA WorkerQueue ==
    ASSUME IInv, IInv', Laned, NEW w \in Workers, Worker(w)
    PROVE  [Queue!Next]_(Queue!qvars)
<1>0. TypeOK /\ TypeOK'
  BY DEF IInv
<1>1. UNCHANGED <<apc, buf>> /\ (Stopped' <=> Stopped)
  BY DEF Worker, WorkerTake, WorkerExit, WorkerResult, WorkerFail, WorkerEmit, WorkerAbandon,
     appVars, stageVars, Stopped
<1>2. CASE WorkerEmit(w)
  <2>1. "raw" \in Chans /\ wmsg[w] \in Message /\ ~Stopped
    BY <1>0, <1>2 DEF WorkerEmit, TypeOK, Chans, Stopped, IInv, SourcesLeave, PastWorkers, PastRaw, PastWait
  <2>2. /\ ch'["raw"] = Append(ch["raw"], wmsg[w])
        /\ \A c \in Chans : c # "raw" => ch'[c] = ch[c]
    BY <1>0, <1>2, <2>1 DEF WorkerEmit, Push, TypeOK
  <2>3. PICK m \in Message : m = wmsg[w]
    BY <2>1
  <2>4. \A s \in Stages : Hand(s)' = Hand(s)
    BY <1>1 DEF Hand
  <2>5. TrapNow' = TrapNow
    BY <2>2, <2>4 DEF TrapNow, Stages, Chans
  <2>6. PICK P, T, hf, ht, hp, hd, me, de, ra, tr :
                LaneParts(P, T, hf, ht, hp, hd, me, de, ra, tr)
    BY DEF LaneParts
  <2>7. PollNow = PollQ(P, hf, me, hp, de, hd, ra) /\ PollEnding(P, hf, me, hp, de, hd, ra, m)
    BY <1>0, <2>6, PartsMove
  <2>8. PollNow' = PollQ(P, hf, me, hp, de, hd, Append(ra, m))
    BY <2>2, <2>3, <2>4, <2>6 DEF PollNow, LaneParts, Stages, Chans
  <2>9. PollNow' = Append(PollNow, m)
    BY <2>7, <2>8 DEF PollEnding
  <2>10. \E l \in {"poll", "trap"} : Queue!Accept(l)
    BY <1>0, <1>1, <2>1, <2>5, <2>9, QueueAccepts DEF Accepted
  <2> QED BY <2>10 DEF Queue!Next
<1>3. CASE WorkerTake(w)
  <2>1. \A c \in Chans \ {"jobs"} : ch'[c] = ch[c]
    BY <1>0, <1>3 DEF WorkerTake, Pop, TypeOK
  <2> QED BY <1>0, <1>1, <2>1, SourceStutters
<1>4. CASE WorkerExit(w) \/ WorkerResult(w) \/ WorkerFail(w) \/ WorkerAbandon(w)
  <2>1. UNCHANGED ch
    BY <1>4 DEF WorkerExit, WorkerResult, WorkerFail, WorkerAbandon
  <2> QED BY <1>0, <1>1, <2>1, SourceStutters
<1> QED BY <1>2, <1>3, <1>4 DEF Worker

\* A trap enters the trap lane, if there is room for it.
LEMMA TrapQueue ==
    ASSUME IInv, IInv', TrapArrive
    PROVE  [Queue!Next]_(Queue!qvars)
<1> DEFINE new == [lane |-> "trap", id |-> arrived]
<1>0. TypeOK /\ TypeOK'
  BY DEF IInv
<1>1. UNCHANGED <<apc, buf>> /\ (Stopped' <=> Stopped)
  BY DEF TrapArrive, appVars, stageVars, Stopped
<1>2. CASE UNCHANGED ch
  BY <1>0, <1>1, <1>2, SourceStutters
<1>3. CASE ch' = Push("trap", new)
  <2>1. "trap" \in Chans /\ new \in Message
    BY <1>0 DEF TypeOK, Chans, Message
  <2>2. /\ ch'["trap"] = Append(ch["trap"], new)
        /\ \A c \in Chans : c # "trap" => ch'[c] = ch[c]
    BY <1>0, <1>3, <2>1 DEF Push, TypeOK
  <2>3. PICK m \in Message : m = new
    BY <2>1
  <2> HIDE DEF new
  <2>4. \A s \in Stages : Hand(s)' = Hand(s)
    BY <1>1 DEF Hand
  <2>5. PollNow' = PollNow
    BY <2>2, <2>4 DEF PollNow, Stages, Chans
  <2>6. PICK P, T, hf, ht, hp, hd, me, de, ra, tr :
                LaneParts(P, T, hf, ht, hp, hd, me, de, ra, tr)
    BY DEF LaneParts
  <2>7. TrapNow = TrapQ(T, ht, tr) /\ TrapMoving(T, ht, tr, m)
    BY <1>0, <2>6, PartsMove
  <2>8. TrapNow' = TrapQ(T, ht, Append(tr, m))
    BY <2>2, <2>3, <2>4, <2>6 DEF TrapNow, LaneParts, Stages, Chans
  <2>9. TrapNow' = Append(TrapNow, m)
    BY <2>7, <2>8 DEF TrapMoving
  <2>10. ~Stopped
    <3>1. Stopped => apc \in PastWait
      BY DEF Stopped, PastWait
    <3> QED BY <3>1, IInvDrained DEF DrainedAtStop, PastWait, TrapArrive
  <2>11. \E l \in {"poll", "trap"} : Queue!Accept(l)
    BY <1>0, <1>1, <2>5, <2>9, <2>10, QueueAccepts DEF Accepted
  <2> QED BY <2>11 DEF Queue!Next
<1> QED BY <1>2, <1>3 DEF TrapArrive

\* The transport is closed when both lanes are empty and its hand is.
LEMMA FinishQueue ==
    ASSUME IInv, IInv', StopTransport
    PROVE  [Queue!Next]_(Queue!qvars)
<1>0. TypeOK /\ TypeOK'
  BY DEF IInv
<1>1. /\ \A c \in Chans \ {"jobs"} : ch[c] = <<>>
      /\ \A s \in Stages : st[s] \in {"new", "exited"}
  BY IInvDrained DEF StopTransport, StopStep, DrainedAtStop
<1>2. \A s \in Stages : buf[s] = NoMsg /\ Hand(s) = <<>>
  BY <1>0, <1>1 DEF TypeOK, Hand
<1>3. \A l : OfLane(ch["formatted"], l) = <<>>
  <2> SUFFICES ASSUME NEW l PROVE OfLane(ch["formatted"], l) = <<>>
    OBVIOUS
  <2>1. ch["formatted"] = <<>>
    BY <1>1 DEF Chans
  <2>2. {i \in DOMAIN <<>> : <<>>[i].lane = l} = {}
    OBVIOUS
  <2> QED BY <2>1, <2>2, PickedNone DEF OfLane
<1>4. PollNow = <<>>
  BY <1>1, <1>2, <1>3 DEF PollNow, PollQ, Chans, Stages
<1>5. TrapNow = <<>>
  BY <1>1, <1>2, <1>3 DEF TrapNow, TrapQ, Chans, Stages
<1>6. \A l \in {"poll", "trap"} : Pending[l] = <<>>
  BY <1>0, <1>4, <1>5, PendingNow
<1>7. UNCHANGED <<ch, buf>> /\ apc' = "closepool"
  BY DEF StopTransport, StopStep, stageVars
<1>8. Pending' = Pending
  BY <1>7 DEF Pending, Hand
<1>9. (apc \in {"closepool", "done"})' = TRUE
  BY <1>7
<1>10. Queue!Finish
  BY <1>2, <1>6, <1>7, <1>8, <1>9 DEF Queue!Finish, Stages
<1> QED BY <1>10 DEF Queue!Next

\* Every step of the pipeline is a step of the queues, or is not seen by them.
LEMMA NextQueue ==
    ASSUME IInv, IInv', Laned, [Next]_vars
    PROVE  [Queue!Next]_(Queue!qvars)
<1>0. TypeOK /\ TypeOK'
  BY DEF IInv
<1> USE DEF appVars, schedVars, workVars, stageVars, trapVars
<1>1. ASSUME UNCHANGED <<apc, ch, buf>> PROVE [Queue!Next]_(Queue!qvars)
  <2>1. Stopped' <=> Stopped
    BY <1>1 DEF Stopped
  <2> QED BY <1>0, <1>1, <2>1, SourceStutters
<1>2. ASSUME UNCHANGED <<ch, buf>>, ~Stopped, ~Stopped' PROVE [Queue!Next]_(Queue!qvars)
  BY <1>0, <1>2, SourceStutters
<1>3. CASE Start
  <2>1. UNCHANGED <<ch, buf>>
    BY <1>3 DEF Start, StartWithoutTrap, StartTrap, AddFormatters, Launch, StartWorkers, StartScheduler
  <2>2. ~Stopped /\ ~Stopped'
    BY <1>3 DEF Start, StartWithoutTrap, StartTrap, AddFormatters, Launch, StartWorkers,
       StartScheduler, Stopped, AfterLaunch, Stages
  <2> QED BY <1>2, <2>1, <2>2
<1>4. CASE Scheduler
  <2>1. UNCHANGED <<apc, buf>> /\ \A c \in Chans \ {"jobs"} : ch'[c] = ch[c]
    BY <1>0, <1>4 DEF Scheduler, SchedWake, SchedFire, SchedExit, Push, TypeOK
  <2>2. Stopped' <=> Stopped
    BY <2>1 DEF Stopped
  <2> QED BY <1>0, <2>1, <2>2, SourceStutters
<1>5. ASSUME NEW s \in Stages, Stage(s) PROVE [Queue!Next]_(Queue!qvars)
  <2>1. CASE StageExit(s)
    BY <1>1, <2>1 DEF StageExit
  <2> QED BY <1>5, <2>1, RecvQueue, SendQueue, DropQueue DEF Stage
<1>6. CASE TransportSend
  <2>1. UNCHANGED <<apc, ch>> /\ buf["transport"] # NoMsg /\ buf'["transport"] = NoMsg
    BY <1>0, <1>6 DEF TransportSend, TypeOK, Stages
  <2>2. \A s \in Stages \ {"transport"} : buf'[s] = buf[s]
    BY <1>0, <1>6 DEF TransportSend, TypeOK
  <2>3. Pending' = Pending
    <3>1. \A s \in Stages \ {"transport"} : Hand(s)' = Hand(s)
      BY <2>2 DEF Hand
    <3>2. /\ Hand("decode")' = Hand("decode") /\ Hand("produce")' = Hand("produce")
          /\ Hand("format")' = Hand("format") /\ Hand("trapformat")' = Hand("trapformat")
      BY <3>1 DEF Stages
    <3> QED BY <2>1, <3>2 DEF Pending
  <2>4. (apc \in {"closepool", "done"})' = (apc \in {"closepool", "done"})
    BY <2>1
  <2>5. Queue!Written
    BY <2>1, <2>3, <2>4 DEF Queue!Written
  <2> QED BY <2>5 DEF Queue!Next
<1>7. CASE Receiver
  <2>1. CASE ListenerExit \/ WatcherStop \/ AppTrapStop \/ \E p \in Stoppers : TrapStopped(p)
    BY <1>1, <2>1 DEF ListenerExit, WatcherStop, AppTrapStop, TrapStop, TrapStopped
  <2> QED BY <1>7, <2>1, TrapQueue DEF Receiver
<1>8. CASE Stop
  <2>1. UNCHANGED <<ch, buf>>
    BY <1>8 DEF Stop, StopStep, StopCancel, StopSched, StopJobs, StopWorkers, StopRaw, StopTrap,
       StopWait, StopTransport, StopPool
  <2>2. CASE StopTransport
    BY <2>2, FinishQueue
  <2>3. CASE StopPool
    <3>1. Stopped' <=> Stopped
      BY <2>3 DEF StopPool, StopStep, Stopped
    <3> QED BY <1>0, <2>1, <3>1, SourceStutters
  <2>4. CASE StopCancel \/ StopSched \/ StopJobs \/ StopWorkers \/ StopRaw \/ StopTrap \/ StopWait
    <3>1. ~Stopped /\ ~Stopped'
      BY <2>4 DEF StopStep, StopCancel, StopSched, StopJobs, StopWorkers, StopRaw, StopTrap,
         StopWait, Stopped
    <3> QED BY <1>2, <2>1, <3>1
  <2> QED BY <1>8, <2>2, <2>3, <2>4 DEF Stop
<1>9. CASE Signal \/ GateClose \/ Terminated \/ UNCHANGED vars
  BY <1>1, <1>9 DEF Signal, GateClose, Terminated, vars
<1> QED BY <1>3, <1>4, <1>5, <1>6, <1>7, <1>8, <1>9, WorkerQueue DEF Next

\* The queues are empty when the collector starts.
LEMMA InitQueue == Init => Queue!Init
<1> SUFFICES ASSUME Init PROVE Queue!Init
  OBVIOUS
<1>0. TypeOK
  BY InitIInv DEF IInv
<1>1. /\ \A c \in Chans : ch[c] = <<>>
      /\ \A s \in Stages : buf[s] = NoMsg /\ Hand(s) = <<>>
  BY DEF Init, Hand
<1>2. \A l : OfLane(ch["formatted"], l) = <<>>
  <2> SUFFICES ASSUME NEW l PROVE OfLane(ch["formatted"], l) = <<>>
    OBVIOUS
  <2>1. ch["formatted"] = <<>>
    BY <1>1 DEF Chans
  <2>2. {i \in DOMAIN <<>> : <<>>[i].lane = l} = {}
    OBVIOUS
  <2> QED BY <2>1, <2>2, PickedNone DEF OfLane
<1>3. PollNow = <<>> /\ TrapNow = <<>>
  BY <1>1, <1>2 DEF PollNow, PollQ, TrapNow, TrapQ, Chans, Stages
<1>4. Pending = [l \in {"poll", "trap"} |-> <<>>]
  BY <1>0, <1>3, PendingNow
<1>5. (apc \in {"closepool", "done"}) = FALSE
  BY DEF Init
<1> QED BY <1>1, <1>4, <1>5 DEF Queue!Init, Stages

\* The collector keeps the promise of the two queues, for any number of
\* workers and any buffer sizes: per lane, results and traps are written in the
\* order in which they were accepted, each at most once, and the transport is
\* closed only when there is nothing left to write.
THEOREM QueueCorrect == Spec => ImplementsQueue
<1>1. Init => IInv /\ Laned
  BY InitIInv, InitLaned
<1>2. IInv /\ Laned /\ [Next]_vars => (IInv /\ Laned)'
  BY NextIInv, NextLaned
<1>3. IInv /\ Laned /\ IInv' /\ [Next]_vars => [Queue!Next]_(Queue!qvars)
  BY NextQueue
<1> QED BY <1>1, <1>2, <1>3, InitQueue, PTL DEF Spec, ImplementsQueue, Queue!Spec
=============================================================================
