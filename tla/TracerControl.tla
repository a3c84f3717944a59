--------------------------- MODULE TracerControl ---------------------------
(***************************************************************************)
(* The life of a blktrace client run (blktrace.c): the main thread creates *)
(* one tracer thread per CPU, waits until each is ready or has failed,     *)
(* lets them run, starts the kernel trace, and at the end tells them to    *)
(* quit and waits for them.  SIGINT, SIGTERM, SIGHUP and the -w alarm end  *)
(* the run through handle_sigint, which the main thread executes: while it *)
(* runs, the main thread's own code does not.                              *)
(*                                                                         *)
(* mt_mutex is held across a step only by a tracer between its test of     *)
(* is_done/tracers_run and its pthread_cond_wait; every other critical     *)
(* section is one step that needs the mutex to be free.                    *)
(*                                                                         *)
(* A unit of `avail' is one relay sub-buffer the kernel has filled for a   *)
(* CPU and nobody has read.  What the tracers do with the data is in       *)
(* TraceBufs (pipe, network send) and MmapOutput (files).                  *)
(***************************************************************************)
EXTENDS Integers, FiniteSets

CONSTANTS
    NCpus,          \* number of CPUs, hence of tracers
    MaxData,        \* bound: sub-buffers the kernel fills per CPU
    MaxSignals,     \* bound: how often the run is interrupted
    EarlySignals,   \* may a signal arrive before the trace was started?
    CanFail,        \* may thread creation, open_ios or the set-up fail?
    UseDevpaths     \* use_tracer_devpaths(): output to a pipe or by send()

ASSUME NCpusAssumption   == NCpus \in Nat \ {0}
ASSUME MaxDataAssumption == MaxData \in Nat
ASSUME SignalsAssumption == MaxSignals \in Nat
ASSUME ModesAssumption   == /\ EarlySignals \in BOOLEAN
                            /\ CanFail \in BOOLEAN
                            /\ UseDevpaths \in BOOLEAN

Cpus == 1 .. NCpus

Master  == 0                    \* the main thread, as a waiter on mt_cond
NoOwner == -1                   \* mt_mutex is free
Stoppers == {"main", "handler"} \* who may be inside stop_tracers

VARIABLES
    main,             \* where the main thread is in run_tracers
    created,          \* length of the list `tracers'
    pc,               \* where each tracer is in thread_main
    is_done,          \* tp->is_done
    tracers_run,
    nthreads_running,
    nthreads_error,
    nthreads_leaving,
    mt_owner,         \* the tracer that holds mt_mutex, or NoOwner
    waiting,          \* threads blocked on mt_cond
    done,             \* the flag handle_sigint sets
    stop,             \* progress of stop_tracers, per stopper
    told,             \* tracers already told to quit, per stopper
    signals,          \* signals still to come
    trace,            \* kernel side: state of the block trace
    avail,            \* kernel side: filled, unread sub-buffers per CPU
    produced          \* sub-buffers filled so far per CPU

mainVars   == <<main, created>>
tracerVars == <<pc, is_done>>
countVars  == <<tracers_run, nthreads_running, nthreads_error, nthreads_leaving>>
mtVars     == <<mt_owner, waiting>>
stopVars   == <<done, stop, told, signals>>
kernelVars == <<trace, avail, produced>>
vars == <<mainVars, tracerVars, countVars, mtVars, stopVars, kernelVars>>

TypeOK ==
    /\ main \in {"setup", "create", "ready", "decide", "start", "stop",
                 "process", "leaving", "join", "atexit", "exited"}
    /\ created \in 0 .. NCpus
    /\ pc \in [Cpus -> {"none", "init", "check", "block", "loop",
                        "poll", "drain", "close", "left", "error"}]
    /\ is_done \in [Cpus -> BOOLEAN]
    /\ tracers_run \in BOOLEAN
    /\ nthreads_running \in 0 .. NCpus
    /\ nthreads_error \in 0 .. NCpus
    /\ nthreads_leaving \in 0 .. NCpus
    /\ mt_owner \in Cpus \cup {NoOwner}
    /\ waiting \subseteq Cpus \cup {Master}
    /\ done \in BOOLEAN
    /\ stop \in [Stoppers -> {"idle", "ioctl", "tell", "broadcast"}]
    /\ told \in [Stoppers -> 0 .. NCpus]
    /\ signals \in 0 .. MaxSignals
    /\ trace \in {"setup", "running", "stopped"}
    /\ avail \in [Cpus -> 0 .. MaxData]
    /\ produced \in [Cpus -> 0 .. MaxData]

Init ==
    /\ main = "setup"
    /\ created = 0
    /\ pc = [c \in Cpus |-> "none"]
    /\ is_done = [c \in Cpus |-> FALSE]
    /\ tracers_run = FALSE
    /\ nthreads_running = 0
    /\ nthreads_error = 0
    /\ nthreads_leaving = 0
    /\ mt_owner = NoOwner
    /\ waiting = {}
    /\ done = FALSE
    /\ stop = [s \in Stoppers |-> "idle"]
    /\ told = [s \in Stoppers |-> 0]
    /\ signals = MaxSignals
    /\ trace = "setup"
    /\ avail = [c \in Cpus |-> 0]
    /\ produced = [c \in Cpus |-> 0]

-----------------------------------------------------------------------------
(* Condition variable mt_cond. *)

MtFree == mt_owner = NoOwner

\* pthread_cond_signal wakes one thread blocked on mt_cond, if there is one:
\* the main thread or any tracer, whichever the library picks.
SignalOne ==
    \/ waiting = {} /\ UNCHANGED waiting
    \/ \E w \in waiting : waiting' = waiting \ {w}

SignalAll == waiting' = {}

-----------------------------------------------------------------------------
(* The kernel: fills sub-buffers while the trace runs. *)

Produce(c) ==
    /\ trace = "running"
    /\ produced[c] < MaxData
    /\ produced' = [produced EXCEPT ![c] = @ + 1]
    /\ avail' = [avail EXCEPT ![c] = @ + 1]
    /\ UNCHANGED <<mainVars, tracerVars, countVars, mtVars, stopVars, trace>>

-----------------------------------------------------------------------------
(* stop_tracers, run by the main thread or by the signal handler. It takes *)
(* no lock: BLKTRACESTOP, then is_done of every listed tracer in order,    *)
(* then a broadcast.                                                       *)

\* The main thread does not run its own code while the handler interrupts it.
MainRuns == stop["handler"] = "idle" /\ stop["main"] = "idle"
Stopping(s) == s = "main" => stop["handler"] = "idle"

StopIoctl(s) ==
    /\ stop[s] = "ioctl"
    /\ Stopping(s)
    /\ trace' = IF trace = "running" THEN "stopped" ELSE trace
    /\ stop' = [stop EXCEPT ![s] = "tell"]
    /\ told' = [told EXCEPT ![s] = 0]
    /\ UNCHANGED <<mainVars, tracerVars, countVars, mtVars, done, signals,
                   avail, produced>>

StopTell(s) ==
    /\ stop[s] = "tell"
    /\ Stopping(s)
    /\ told[s] < created
    /\ is_done' = [is_done EXCEPT ![told[s] + 1] = TRUE]
    /\ told' = [told EXCEPT ![s] = @ + 1]
    /\ UNCHANGED <<mainVars, pc, countVars, mtVars, done, stop, signals,
                   kernelVars>>

StopTold(s) ==
    /\ stop[s] = "tell"
    /\ Stopping(s)
    /\ told[s] = created
    /\ stop' = [stop EXCEPT ![s] = "broadcast"]
    /\ UNCHANGED <<mainVars, tracerVars, countVars, mtVars, done, told,
                   signals, kernelVars>>

StopBroadcast(s) ==
    /\ stop[s] = "broadcast"
    /\ Stopping(s)
    /\ SignalAll
    /\ stop' = [stop EXCEPT ![s] = "idle"]
    /\ UNCHANGED <<mainVars, tracerVars, countVars, mt_owner, done, told,
                   signals, kernelVars>>

\* A signal is delivered: done = 1 and the handler enters stop_tracers. Once
\* exit_tracing has set the dispositions to SIG_IGN nothing is delivered.
HandleSigint ==
    /\ signals > 0
    /\ main \notin {"atexit", "exited"}
    /\ EarlySignals \/ trace # "setup"
    /\ stop["handler"] = "idle"
    /\ signals' = signals - 1
    /\ done' = TRUE
    /\ stop' = [stop EXCEPT !["handler"] = "ioctl"]
    /\ UNCHANGED <<mainVars, tracerVars, countVars, mtVars, told, kernelVars>>

-----------------------------------------------------------------------------
(* The main thread: run_tracers, then main's rel_devpaths and exit_tracing. *)

MainAt(l) == main = l /\ MainRuns /\ Master \notin waiting

\* setup_buts and setup_tracer_devpaths; the latter fails when the client's
\* connections cannot be opened, and run_tracers then returns at once.
SetUp ==
    /\ MainAt("setup")
    /\ \/ main' = "create"
       \/ CanFail /\ UseDevpaths /\ main' = "atexit"
    /\ UNCHANGED <<created, tracerVars, countVars, mtVars, stopVars, kernelVars>>

\* start_tracer: pthread_create; the thread runs before it is on the list.
CreateThread ==
    /\ MainAt("create")
    /\ created < NCpus
    /\ pc[created + 1] = "none"
    /\ pc' = [pc EXCEPT ![created + 1] = "init"]
    /\ UNCHANGED <<mainVars, is_done, countVars, mtVars, stopVars, kernelVars>>

\* start_tracer: list_add_tail(&tp->head, &tracers).
ListTracer ==
    /\ MainAt("create")
    /\ created < NCpus
    /\ pc[created + 1] # "none"
    /\ created' = created + 1
    /\ UNCHANGED <<main, tracerVars, countVars, mtVars, stopVars, kernelVars>>

\* All threads are created, or pthread_create failed and the loop breaks.
CreateEnds ==
    /\ MainAt("create")
    /\ \/ created = NCpus
       \/ CanFail /\ created < NCpus /\ pc[created + 1] = "none"
    /\ main' = "ready"
    /\ UNCHANGED <<created, tracerVars, countVars, mtVars, stopVars, kernelVars>>

\* Mutants: the comparisons of the two waits are off by one.
AllLeaving_OffByOne == nthreads_leaving + 1 >= nthreads_running

AllReady   == nthreads_running + nthreads_error >= created
AllLeaving == nthreads_leaving >= nthreads_running

\* One turn of a loop around t_pthread_cond_wait, under mt_mutex.
MtWaitLoop(at, cond, next) ==
    /\ MainAt(at)
    /\ MtFree
    /\ IF cond
       THEN main' = next /\ UNCHANGED waiting
       ELSE waiting' = waiting \cup {Master} /\ UNCHANGED main
    /\ UNCHANGED <<created, tracerVars, countVars, mt_owner, stopVars, kernelVars>>

WaitTracersReady   == MtWaitLoop("ready", AllReady, "decide")
WaitTracersLeaving == MtWaitLoop("leaving", AllLeaving, "join")

\* The 50 ms of t_pthread_cond_wait are over.
WaitTimesOut ==
    /\ Master \in waiting
    /\ waiting' = waiting \ {Master}
    /\ UNCHANGED <<mainVars, tracerVars, countVars, mt_owner, stopVars, kernelVars>>

\* Mutant of UnblockTracers: does not ask whether every tracer runs.
UnblockTracers_Unchecked ==
    /\ MainAt("decide")
    /\ MtFree
    /\ tracers_run' = TRUE
    /\ SignalAll
    /\ main' = "start"
    /\ UNCHANGED <<created, tracerVars, nthreads_running, nthreads_error,
                   nthreads_leaving, mt_owner, stopVars, kernelVars>>

\* nthreads_running == ncpus: unblock_tracers.
UnblockTracers ==
    /\ MainAt("decide")
    /\ nthreads_running = NCpus
    /\ MtFree
    /\ tracers_run' = TRUE
    /\ SignalAll
    /\ main' = "start"
    /\ UNCHANGED <<created, tracerVars, nthreads_running, nthreads_error,
                   nthreads_leaving, mt_owner, stopVars, kernelVars>>

\* start_buts: BLKTRACESTART.
StartButs ==
    /\ MainAt("start")
    /\ trace' = "running"
    /\ main' = "process"
    /\ UNCHANGED <<created, tracerVars, countVars, mtVars, stopVars,
                   avail, produced>>

\* Some tracer did not start: stop_tracers.
GiveUp ==
    /\ MainAt("decide")
    /\ nthreads_running # NCpus
    /\ stop' = [stop EXCEPT !["main"] = "ioctl"]
    /\ main' = "process"
    /\ UNCHANGED <<created, tracerVars, countVars, mtVars, done, told, signals,
                   kernelVars>>

\* wait_tracers: process_trace_bufs, which handles buffers until `done'.
ProcessTraceBufs ==
    /\ MainAt("process")
    /\ UseDevpaths => done
    /\ main' = "leaving"
    /\ UNCHANGED <<created, tracerVars, countVars, mtVars, stopVars, kernelVars>>

\* wait_tracers: pthread_join of every listed tracer; then del_tracers, and
\* rel_devpaths stops and tears down the trace.
JoinTracers ==
    /\ MainAt("join")
    /\ \A c \in 1 .. created : pc[c] \in {"left", "error"}
    /\ trace' = IF trace = "running" THEN "stopped" ELSE trace
    /\ main' = "atexit"
    /\ UNCHANGED <<created, tracerVars, countVars, mtVars, stopVars,
                   avail, produced>>

\* exit_tracing runs wait_tracers once more, now with signals ignored and
\* with no tracer left on the list.
ExitTracing ==
    /\ MainAt("atexit")
    /\ UseDevpaths => done
    /\ AllLeaving
    /\ main' = "exited"
    /\ UNCHANGED <<created, tracerVars, countVars, mtVars, stopVars, kernelVars>>

\* A turn of process_trace_bufs that changes nothing here: its timed wait
\* ends and it waits again.
KeepWaiting ==
    /\ main \in {"process", "atexit"}
    /\ UseDevpaths /\ ~done
    /\ UNCHANGED vars

Exited == main = "exited" /\ UNCHANGED vars

-----------------------------------------------------------------------------
(* A tracer thread: thread_main. *)

\* lock_on_cpu and open_ios, then tracer_signal_ready with the outcome.
TracerReady(c) ==
    /\ pc[c] = "init"
    /\ MtFree
    /\ \/ /\ pc' = [pc EXCEPT ![c] = "check"]
          /\ nthreads_running' = nthreads_running + 1
          /\ UNCHANGED nthreads_error
       \/ /\ CanFail
          /\ pc' = [pc EXCEPT ![c] = "error"]
          /\ nthreads_error' = nthreads_error + 1
          /\ UNCHANGED nthreads_running
    /\ SignalOne
    /\ UNCHANGED <<mainVars, is_done, tracers_run, nthreads_leaving, mt_owner,
                   stopVars, kernelVars>>

\* tracer_wait_unblock: the test of the while, on entry or after a wake-up.
TracerCheck(c) ==
    /\ pc[c] = "check"
    /\ c \notin waiting
    /\ MtFree
    /\ IF is_done[c] \/ tracers_run
       THEN pc' = [pc EXCEPT ![c] = "loop"] /\ UNCHANGED mt_owner
       ELSE pc' = [pc EXCEPT ![c] = "block"] /\ mt_owner' = c
    /\ UNCHANGED <<mainVars, is_done, countVars, waiting, stopVars, kernelVars>>

\* tracer_wait_unblock: pthread_cond_wait, which frees mt_mutex. No timer here.
TracerBlock(c) ==
    /\ pc[c] = "block"
    /\ pc' = [pc EXCEPT ![c] = "check"]
    /\ mt_owner' = NoOwner
    /\ waiting' = waiting \cup {c}
    /\ UNCHANGED <<mainVars, is_done, countVars, stopVars, kernelVars>>

\* The test of `while (!tp->is_done)'.
TracerLoop(c) ==
    /\ pc[c] = "loop"
    /\ pc' = [pc EXCEPT ![c] = IF is_done[c] THEN "drain" ELSE "poll"]
    /\ UNCHANGED <<mainVars, is_done, countVars, mtVars, stopVars, kernelVars>>

\* handle_pfds reads a sub-buffer if the kernel has one.
Read(c) ==
    /\ avail[c] > 0
    /\ avail' = [avail EXCEPT ![c] = @ - 1]

TracerPoll(c) ==
    /\ pc[c] = "poll"
    /\ \/ Read(c)
       \/ avail[c] = 0 /\ UNCHANGED avail
    /\ pc' = [pc EXCEPT ![c] = "loop"]
    /\ UNCHANGED <<mainVars, is_done, countVars, mtVars, stopVars, trace, produced>>

\* Mutant of TracerDrain: one read instead of a loop.
TracerDrain_Once(c) ==
    /\ pc[c] = "drain"
    /\ pc' = [pc EXCEPT ![c] = "close"]
    /\ \/ Read(c)
       \/ avail[c] = 0 /\ UNCHANGED avail
    /\ UNCHANGED <<mainVars, is_done, countVars, mtVars, stopVars, trace, produced>>

\* Mutant of TracerDrain: goes on after a read that returned nothing.
TracerDrain_Forever(c) ==
    /\ pc[c] = "drain"
    /\ \/ Read(c)
       \/ avail[c] = 0 /\ UNCHANGED avail
    /\ UNCHANGED <<mainVars, tracerVars, countVars, mtVars, stopVars, trace, produced>>

\* `while (handle_pfds(tp, ndevs, 1) > 0)': until a read returns nothing.
TracerDrain(c) ==
    /\ pc[c] = "drain"
    /\ \/ Read(c) /\ UNCHANGED pc
       \/ avail[c] = 0 /\ UNCHANGED avail /\ pc' = [pc EXCEPT ![c] = "close"]
    /\ UNCHANGED <<mainVars, is_done, countVars, mtVars, stopVars, trace, produced>>

\* Mutant of TracerLeave: leaves without counting itself.
TracerLeave_Uncounted(c) ==
    /\ pc[c] = "close"
    /\ MtFree
    /\ pc' = [pc EXCEPT ![c] = "left"]
    /\ SignalOne
    /\ UNCHANGED <<mainVars, is_done, countVars, mt_owner, stopVars, kernelVars>>

\* close_ios, then tracer_signal_ready(Th_leaving).
TracerLeave(c) ==
    /\ pc[c] = "close"
    /\ MtFree
    /\ pc' = [pc EXCEPT ![c] = "left"]
    /\ nthreads_leaving' = nthreads_leaving + 1
    /\ SignalOne
    /\ UNCHANGED <<mainVars, is_done, tracers_run, nthreads_running,
                   nthreads_error, mt_owner, stopVars, kernelVars>>

-----------------------------------------------------------------------------
MainStep == \/ SetUp \/ CreateThread \/ ListTracer \/ CreateEnds
            \/ WaitTracersReady \/ UnblockTracers \/ StartButs \/ GiveUp
            \/ ProcessTraceBufs \/ WaitTracersLeaving \/ JoinTracers
            \/ ExitTracing

StopStep(s) == StopIoctl(s) \/ StopTell(s) \/ StopTold(s) \/ StopBroadcast(s)

TracerStep(c) == \/ TracerReady(c) \/ TracerCheck(c) \/ TracerBlock(c)
                 \/ TracerLoop(c) \/ TracerPoll(c) \/ TracerDrain(c)
                 \/ TracerLeave(c)

Next ==
    \/ MainStep
    \/ WaitTimesOut
    \/ HandleSigint
    \/ \E s \in Stoppers : StopStep(s)
    \/ \E c \in Cpus : TracerStep(c) \/ Produce(c)
    \/ KeepWaiting \/ Exited

Spec == Init /\ [][Next]_vars

\* The scheduler runs every thread that can run, and a timed wait ends. No
\* fairness for signals, and none for the kernel's trace.
FairSpec ==
    /\ Spec
    /\ WF_vars(MainStep)
    /\ WF_vars(WaitTimesOut)
    /\ \A s \in Stoppers : WF_vars(StopStep(s))
    /\ \A c \in Cpus : WF_vars(TracerStep(c))

-----------------------------------------------------------------------------
(* Properties. *)

\* thread_main's drain ("Trace is stopped, pull data until we get a short
\* read"): when a tracer has left and the trace does not run, the kernel holds
\* no sub-buffer of that CPU that nobody has read. It rests on stop_tracers
\* stopping the trace before it tells anybody to quit, and on the trace never
\* being started after that; the second is only so when no signal arrives
\* during start-up (EarlySignals = FALSE, as with -w).
NothingLeftBehind ==
    \A c \in Cpus : pc[c] = "left" /\ trace # "running" => avail[c] = 0

\* wait_tracers_leaving lets the main thread go on (to join, and then to read
\* statistics and free the devices) only when no tracer will touch its files
\* any more, although it only compares two counters which tracers that failed
\* to start, and tracers that have yet to start, also bear upon.
LeavingMeansAll ==
    main = "join" => \A c \in Cpus : pc[c] \in {"none", "left", "error"}

\* run_tracers: the kernel trace is started only when every CPU has a tracer
\* that has its files open and is not in the error path.
StartsWhenAllReady ==
    [][trace # "running" /\ trace' = "running"
       => \A c \in Cpus : pc[c] \notin {"none", "init", "error"}]_vars

\* What the counters of mt_mutex count.
Running == {c \in Cpus : pc[c] \in {"check", "block", "loop", "poll", "drain",
                                    "close", "left"}}
Failed  == {c \in Cpus : pc[c] = "error"}
Gone    == {c \in Cpus : pc[c] = "left"}

Counted ==
    /\ nthreads_running = Cardinality(Running)
    /\ nthreads_error = Cardinality(Failed)
    /\ nthreads_leaving = Cardinality(Gone)

\* The threads that exist are those on the list and at most one that
\* start_tracer is about to add; wait_tracers_ready waits for all of them.
Listed ==
    /\ main = "setup" => created = 0
    /\ \A c \in 1 .. created : pc[c] # "none"
    /\ \A c \in Cpus : pc[c] # "none" =>
          c <= created \/ (main = "create" /\ c = created + 1)
    /\ main \notin {"setup", "create", "ready"} => \A c \in Cpus : pc[c] # "init"
    /\ main = "start" => Running = Cpus

\* No thread is told to quit while the trace runs, and whoever leaves was told
\* and has drained its CPU.
QuitOrder ==
    /\ main \in {"setup", "create", "ready", "decide", "start"} =>
          /\ trace = "setup"
          /\ \A s \in Stoppers : stop[s] = "idle"
          /\ \A c \in Cpus : ~is_done[c]
    /\ \A s \in Stoppers : stop[s] \in {"tell", "broadcast"} => trace # "running"
    /\ \A c \in Cpus :
          /\ is_done[c] => trace # "running"
          /\ pc[c] \in {"drain", "close", "left"} => is_done[c]
          /\ pc[c] \in {"close", "left"} => avail[c] = 0

\* The inductive invariant; its last part needs that no signal arrives before
\* the trace was started.
IInv ==
    /\ TypeOK
    /\ \A c \in Cpus : avail[c] <= produced[c]
    /\ Counted
    /\ Listed
    /\ LeavingMeansAll
    /\ ~EarlySignals => QuitOrder

\* run_tracers came to start the trace: every tracer runs.
Started == <>(main = "start")

\* handle_sigint ends the run: in a run that was started, once a signal was
\* handled the process exits.
InterruptEndsRun == Started => (done ~> main = "exited")

\* stop_tracers ("Tell each tracer to quit"): a tracer that was told quits. It
\* does in a run that was started, which InterruptEndsRun includes.
ToldTracersQuit ==
    \A c \in Cpus : is_done[c] ~> pc[c] \in {"left", "error"}

=============================================================================
