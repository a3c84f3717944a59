---------------------------- MODULE WatchTracers ----------------------------
(***************************************************************************)
(* iowatcher with -d: it starts blktrace and mpstat, runs a program or     *)
(* waits to be interrupted, waits for both and then reads what they wrote. *)
(* The handler of SIGINT and SIGTERM waits for them as well, in the middle *)
(* of whatever main does; each of the two signals is blocked only in its   *)
(* own handler. What the tracers do is left open: they may end at any time.*)
(***************************************************************************)
EXTENDS Integers, Sequences, FiniteSets

CONSTANT
    MaxSignals       \* bound: signals to iowatcher

ASSUME SignalsAssumption == MaxSignals \in Nat

Tracers == <<"blktrace", "mpstat">>      \* in the order they are started and waited for
Nrs     == DOMAIN Tracers
Signals == {"SIGINT", "SIGTERM"}

VARIABLES
    main,            \* where main is: "start" and "save", one tracer after the other, then
                     \* "prog", "wait" and "plot", or "exit"
    with_prog,       \* -p: a program to run while they trace
    child,           \* per tracer: "none", "running", a status, "reaped"
    status,          \* history, per tracer: how it ended, "none" if it has not
    pid_saved,       \* blktrace_pid and mpstat_pid are set
    frames,          \* the calls of wait_for_tracers that are under way, the innermost
                     \* last: [of, sig, nr, at]; a handler's lies on what it interrupted
    nsignals,
    known            \* history: tracers known when a handler began

tracingVars == <<main, with_prog, child, status, pid_saved, frames, nsignals, known>>

\* Exited with 0 or not, or killed by a signal.
Statuses == {"ok", "bad"} \cup Signals

WatchInit ==
    /\ main = "start" /\ with_prog \in BOOLEAN
    /\ child = [c \in Nrs |-> "none"] /\ status = [c \in Nrs |-> "none"]
    /\ pid_saved = [c \in Nrs |-> FALSE]
    /\ frames = <<>> /\ nsignals = 0 /\ known = {}

-----------------------------------------------------------------------------
(* run_program: the tracer runs before its pid is saved. *)

\* start_blktrace or start_mpstat; what cannot be run ends iowatcher, and leaves
\* a blktrace that it has started behind.
Started    == Cardinality({c \in Nrs : child[c] # "none"})
NotYet     == {c \in Nrs : child[c] = "none"}

Spawn ==
    /\ main = "start" /\ frames = <<>>
    /\ \/ child' = [child EXCEPT ![Started + 1] = "running"] /\ main' = "save"
       \/ main' = "exit" /\ UNCHANGED child
    /\ UNCHANGED <<with_prog, status, pid_saved, frames, nsignals, known>>

SavePid ==
    /\ main = "save" /\ frames = <<>>
    /\ pid_saved' = [pid_saved EXCEPT ![Started] = TRUE]
    /\ main' = IF NotYet = {} THEN "prog" ELSE "start"
    /\ UNCHANGED <<with_prog, child, status, frames, nsignals, known>>

Call(of, sig) == Append(frames, [of |-> of, sig |-> sig, nr |-> 1, at |-> "test"])

\* main: the program is run and waited for, whether it could be or not; then the
\* tracers are told to stop. Without one they are waited for as they are.
AfterProg ==
    /\ main = "prog" /\ frames = <<>>
    /\ main' = "wait"
    /\ frames' = Call("main", IF with_prog THEN "SIGINT" ELSE "none")
    /\ UNCHANGED <<with_prog, child, status, pid_saved, nsignals, known>>

-----------------------------------------------------------------------------
(* wait_for_tracers, by whoever called it last. *)

Top        == frames[Len(frames)]
At(nr, at) == [frames EXCEPT ![Len(frames)] = [@ EXCEPT !.nr = nr, !.at = at]]

Returns ==
    /\ frames' = SubSeq(frames, 1, Len(frames) - 1)
    /\ main' = IF Top.of = "main" THEN "plot" ELSE main

\* Mutant of Passed: mpstat is waited for only if there is no blktrace.
Passed_First ==
    IF Top.nr < Len(Tracers) /\ ~pid_saved[Top.nr]
    THEN frames' = At(Top.nr + 1, "test") /\ UNCHANGED main
    ELSE Returns

\* The next tracer, or back to the caller: main goes on to the traces.
Passed ==
    IF Top.nr < Len(Tracers) THEN frames' = At(Top.nr + 1, "test") /\ UNCHANGED main
    ELSE Returns

Exits == main' = "exit" /\ frames' = <<>>

Test ==
    /\ Top.at = "test"
    /\ IF pid_saved[Top.nr]
       THEN frames' = At(Top.nr, IF Top.sig = "none" THEN "wait" ELSE "kill") /\ UNCHANGED main
       ELSE Passed
    /\ UNCHANGED <<child, status, pid_saved>>

\* kill fails when the tracer has been waited for.
Kill ==
    /\ Top.at = "kill"
    /\ IF child[Top.nr] = "reaped" THEN Exits
       ELSE frames' = At(Top.nr, "wait") /\ UNCHANGED main
    /\ UNCHANGED <<child, status, pid_saved>>

\* wait_program with the status s: not 0, or killed by another signal than ours.
Fails(s) == s = "bad" \/ (s \in Signals /\ Top.sig # "none" /\ s # Top.sig)

\* waitpid, restarted after a handler. When a handler has waited for the tracer
\* itself it fails and leaves the status uninitialized, which may look like any.
Wait ==
    /\ Top.at = "wait" /\ child[Top.nr] # "running"
    /\ \E s \in IF child[Top.nr] = "reaped" THEN Statuses ELSE {child[Top.nr]} :
          IF Fails(s) THEN Exits ELSE frames' = At(Top.nr, "clear") /\ UNCHANGED main
    /\ child' = [child EXCEPT ![Top.nr] = "reaped"]
    /\ UNCHANGED <<status, pid_saved>>

Clear ==
    /\ Top.at = "clear"
    /\ pid_saved' = [pid_saved EXCEPT ![Top.nr] = FALSE]
    /\ Passed
    /\ UNCHANGED <<child, status>>

WaitForTracers ==
    /\ frames # <<>>
    /\ Test \/ Kill \/ Wait \/ Clear
    /\ UNCHANGED <<with_prog, nsignals, known>>

-----------------------------------------------------------------------------
\* A tracer ends, told or not (the terminal interrupts it as well).
TracerEnds(c) ==
    /\ child[c] = "running" /\ main # "exit"
    /\ \E s \in Statuses :
          child' = [child EXCEPT ![c] = s] /\ status' = [status EXCEPT ![c] = s]
    /\ UNCHANGED <<main, with_prog, pid_saved, frames, nsignals, known>>

\* sig_handler_for_quit, from start_blktrace on until iowatcher ends.
SigHandler(sig) ==
    /\ main # "exit" /\ nsignals < MaxSignals
    /\ \A n \in DOMAIN frames : frames[n].of # sig
    /\ nsignals' = nsignals + 1
    /\ frames' = Call(sig, "SIGTERM")
    /\ known' = known \cup {c \in Nrs : pid_saved[c]}
    /\ UNCHANGED <<main, with_prog, child, status, pid_saved>>

WatchNext ==
    \/ Spawn \/ SavePid \/ AfterProg \/ WaitForTracers
    \/ \E c \in Nrs : TracerEnds(c)
    \/ \E sig \in Signals : SigHandler(sig)

WatchSpec == WatchInit /\ [][WatchNext]_tracingVars

-----------------------------------------------------------------------------
\* wait_for_tracers, however its calls interrupt each other: the traces are read
\* only when both tracers have ended and have been waited for; a handler that has
\* returned leaves none running that iowatcher knew of when it began; and unless
\* it is interrupted, iowatcher gives up only if a tracer cannot be run or ends badly.
TracesAreComplete ==
    /\ main = "plot" => \A c \in Nrs : child[c] = "reaped"
    /\ frames = <<>> /\ main # "exit" => \A c \in known : child[c] = "reaped"
    /\ main = "exit" /\ nsignals = 0 => NotYet # {} \/ \E c \in Nrs : status[c] # "ok"

=============================================================================
