--------------------------- MODULE IoTools_proofs ---------------------------
(***************************************************************************)
(* What is proved of the tools that read the same traces.                  *)
(*   blkparse, btt and iowatcher, for any contexts, sectors, bios and      *)
(* losses: as long as no trace is lost, what each keeps of the block       *)
(* layer's IOs is the IOs there are, and whatever is lost no depth goes    *)
(* below zero.  The inductive invariant IInv says so of every counter and  *)
(* set at once: that of one leans on those of the others, and all on no    *)
(* two IOs being at one sector.                                            *)
(*   btt's window, for every length of a file and of its traces, every     *)
(* page size and every window that takes a trace wherever in its first     *)
(* page it begins: btt reads each trace out of its window, and all.        *)
(*   iowatcher's tracers, for any number of signals: it plots what both    *)
(* have finished writing, however its handler interrupts its waiting.      *)
(***************************************************************************)
EXTENDS IoTools, FiniteSetTheorems, SequenceTheorems, TLAPS

\* A window begins less than a page before the next trace (cur & ~(pgsz-1)).
LEMMA NewMinArith ==
    ASSUME cur \in Nat
    PROVE  NewMin \in Nat /\ NewMin <= cur /\ cur < NewMin + PageSize
<1>1. PageSize \in Nat /\ PageSize > 0
  BY InputAssumption
<1>2. (cur % PageSize) \in 0 .. PageSize - 1 /\ (cur % PageSize) <= cur
  BY <1>1
<1> QED
  BY <1>1, <1>2 DEF NewMin

\* move_map, whoever calls it: the next trace is in the new window, or there is
\* none.
LEMMA MovedMap ==
    ASSUME InputInv, MoveMap
    PROVE  InputInv'
<1>1. /\ NewMin \in Nat /\ NewMin <= cur /\ cur < NewMin + PageSize
      /\ cur \in Nat /\ total_size \in Nat /\ cur_max \in Nat /\ cur <= total_size
      /\ cur_max <= total_size
      /\ total_size - cur = 0 \/ total_size - cur >= TraceLen
  BY NewMinArith DEF InputInv, WholeTraces
<1>2. /\ TraceLen \in Nat /\ TraceLen > 0 /\ Margin \in Nat /\ TraceLen <= Margin
      /\ DEF_LEN \in Nat /\ PageSize \in Nat /\ PageSize > 0
      /\ PageSize - 1 + Margin <= DEF_LEN
  BY InputAssumption, InputWindowAssumption
<1>3. /\ cur_min' = NewMin /\ len' = NewLen /\ total_size' = total_size /\ cur' = cur
      /\ cur_max' = IF NewLen < TraceLen THEN cur_max ELSE NewMin + NewLen
      /\ reader' = IF NewLen >= TraceLen /\ cur < cur_max' THEN "read" ELSE "end"
  BY DEF MoveMap
<1>4. /\ NewLen \in Int /\ NewLen <= total_size - NewMin
      /\ NewLen = DEF_LEN \/ NewLen = total_size - NewMin
  BY <1>1, <1>2 DEF NewLen
<1>5. CASE NewLen < TraceLen
  <2>1. cur' = total_size'
    BY <1>1, <1>2, <1>3, <1>4, <1>5
  <2>2. reader' = "end" /\ cur_max' = cur_max
    BY <1>2, <1>3, <1>4, <1>5
  <2> QED
    BY <1>1, <1>3, <1>4, <2>1, <2>2 DEF InputInv, ReadsEveryTrace, WholeTraces
<1>6. CASE NewLen >= TraceLen
  <2>1. cur_max' = NewMin + NewLen /\ cur_max' \in Nat /\ cur_max' <= total_size
    <3>1. ~(NewLen < TraceLen)
      BY <1>2, <1>4, <1>6
    <3> QED
      BY <1>1, <1>2, <1>3, <1>4, <1>6, <3>1
  <2>2. cur_max' = total_size \/ cur + Margin <= cur_max'
    BY <1>1, <1>2, <1>4, <2>1
  <2>3. CASE cur < cur_max'
    <3>1. reader' = "read"
      BY <1>3, <1>6, <2>3
    <3> QED
      BY <1>1, <1>3, <1>4, <2>1, <2>2, <2>3, <3>1 DEF InputInv, ReadsEveryTrace, WholeTraces
  <2>4. CASE ~(cur < cur_max')
    <3>1. reader' = "end"
      BY <1>3, <2>4
    <3>2. cur = total_size
      BY <1>1, <1>2, <2>1, <2>2, <2>4
    <3> QED
      BY <1>1, <1>3, <1>4, <2>1, <3>1, <3>2 DEF InputInv, ReadsEveryTrace, WholeTraces
  <2> QED
    BY <2>3, <2>4
<1> QED
  BY <1>2, <1>4, <1>5, <1>6

\* The window and what is left of the file, through any number of traces and moves.
THEOREM InputInvariant == InputSpec => []InputInv
<1>1. InputInit => InputInv
  BY InputAssumption DEF InputInit, InputInv, ReadsEveryTrace, WholeTraces
<1>2. InputInv /\ [InputNext]_inputVars => InputInv'
  <2> SUFFICES ASSUME InputInv, [InputNext]_inputVars
               PROVE  InputInv'
    OBVIOUS
  <2>1. CASE SetupIfile
    BY <2>1, MovedMap DEF SetupIfile
  <2>2. CASE NextTrace
    <3>1. CASE NearEnd
      BY <2>2, <3>1, MovedMap DEF NextTrace
    <3>2. CASE ~NearEnd
      BY <2>2, <3>2, InputAssumption DEF NextTrace, NearEnd, InputInv, ReadsEveryTrace, WholeTraces
    <3> QED
      BY <3>1, <3>2
  <2>3. CASE ConvertToCpu
    BY <2>3, InputAssumption DEF ConvertToCpu, InputInv, ReadsEveryTrace, WholeTraces
  <2>4. CASE UNCHANGED inputVars
    BY <2>4 DEF inputVars, InputInv, ReadsEveryTrace, WholeTraces
  <2> QED
    BY <2>1, <2>2, <2>3, <2>4 DEF InputNext
<1> QED
  BY <1>1, <1>2, PTL DEF InputSpec

\* What next_trace copies lies in the window, and reading ends with the file.
THEOREM InputIsRead == InputSpec => []ReadsEveryTrace
<1>1. InputInv => ReadsEveryTrace
  BY DEF InputInv
<1> QED
  BY <1>1, InputInvariant, PTL

-----------------------------------------------------------------------------
(* iowatcher's tracers: the invariant TracesAreComplete rests on. *)

Mains    == {"start", "save", "prog", "wait", "plot", "exit"}
Children == {"none", "running", "reaped"} \cup Statuses
Frames   == [of : {"main"} \cup Signals, sig : {"none"} \cup Signals, nr : Nrs,
             at : {"test", "kill", "wait", "clear"}]

WatchTypeOK ==
    /\ main \in Mains
    /\ child \in [Nrs -> Children] /\ status \in [Nrs -> {"none"} \cup Statuses]
    /\ pid_saved \in [Nrs -> BOOLEAN]
    /\ frames \in Seq(Frames) /\ nsignals \in Nat /\ known \in SUBSET Nrs

\* The tracers are started in their order, and a pid is saved after its tracer is.
InTheirOrder ==
    /\ child[1] = "none" => child[2] = "none"
    /\ main \in {"prog", "wait", "plot"} => child[2] # "none"
    /\ main = "start" => child[2] = "none"
    /\ main = "save" => child[1] # "none" /\ ~pid_saved[Started]
    /\ \A c \in Nrs : pid_saved[c] => child[c] # "none"

\* A tracer whose pid is not saved has been waited for, but for the one that main
\* is about to save; and one that a handler knew of keeps its pid until then.
SavedUntilReaped ==
    /\ \A c \in Nrs : \/ child[c] \in {"none", "reaped"} \/ pid_saved[c]
                      \/ main = "save" /\ c = Started
                      \/ main = "exit"
    /\ \A c \in known : pid_saved[c] \/ child[c] = "reaped"

\* Each call has passed only tracers without a pid, and no pid is saved meanwhile.
FramesGoOn ==
    /\ main = "exit" => frames = <<>>
    /\ main = "wait" <=> frames # <<>> /\ frames[1].of = "main"
    /\ \A n \in DOMAIN frames :
          /\ frames[n].of = "main" => n = 1
          /\ \A c \in Nrs : c < frames[n].nr => ~pid_saved[c]
          /\ frames[n].at \in {"kill", "wait"} => child[frames[n].nr] # "none"
          /\ frames[n].at = "clear" => child[frames[n].nr] = "reaped"

\* Without a signal only main's call waits, and only for those it comes to.
Undisturbed ==
    /\ \A c \in Nrs : child[c] \in Statuses => status[c] = child[c]
    /\ nsignals = 0 =>
          /\ \A n \in DOMAIN frames : frames[n].of = "main"
          /\ main \in {"start", "save", "prog"} => \A c \in Nrs : child[c] # "reaped"
          /\ main = "wait" =>
                \A c \in Nrs : child[c] = "reaped" =>
                    c < frames[1].nr \/ (c = frames[1].nr /\ frames[1].at = "clear")

WatchInv ==
    /\ WatchTypeOK /\ InTheirOrder /\ SavedUntilReaped /\ FramesGoOn /\ Undisturbed
    /\ TracesAreComplete

-----------------------------------------------------------------------------
(* What the steps do to the calls that are under way. *)

\* blktrace and mpstat.
LEMMA TwoTracers == Nrs = {1, 2} /\ Len(Tracers) = 2
BY DEF Nrs, Tracers

\* The tracer that run_program has started last.
LEMMA LastStarted ==
    ASSUME WatchTypeOK, InTheirOrder
    PROVE  Started = IF child[1] = "none" THEN 0 ELSE IF child[2] = "none" THEN 1 ELSE 2
<1>1. {c \in Nrs : child[c] # "none"}
          = IF child[1] = "none" THEN {} ELSE IF child[2] = "none" THEN {1} ELSE {1, 2}
  BY TwoTracers DEF InTheirOrder
<1>2. Cardinality({}) = 0 /\ Cardinality({1}) = 1 /\ Cardinality({1, 2}) = 2
  BY FS_EmptySet, FS_Singleton, FS_AddElement
<1> QED
  BY <1>1, <1>2 DEF Started

\* The innermost call.
LEMMA TopFrame ==
    ASSUME frames \in Seq(Frames), frames # <<>>
    PROVE  /\ Len(frames) \in Nat /\ DOMAIN frames = 1 .. Len(frames)
           /\ Len(frames) \in DOMAIN frames /\ Top = frames[Len(frames)]
           /\ Top \in Frames
           /\ Top.of \in {"main"} \cup Signals /\ Top.sig \in {"none"} \cup Signals
           /\ Top.nr \in Nrs /\ Top.at \in {"test", "kill", "wait", "clear"}
<1>1. /\ Len(frames) \in Nat /\ DOMAIN frames = 1 .. Len(frames)
      /\ Len(frames) \in DOMAIN frames /\ Top = frames[Len(frames)]
      /\ Top \in Frames
  BY DEF Top
<1> QED
  BY <1>1 DEF Frames

\* A call of wait_for_tracers lies on those it interrupts.
LEMMA CalledFrames ==
    ASSUME frames \in Seq(Frames), NEW of \in {"main"} \cup Signals,
           NEW sig \in {"none"} \cup Signals, frames' = Call(of, sig)
    PROVE  /\ frames' \in Seq(Frames) /\ DOMAIN frames' = 1 .. Len(frames) + 1
           /\ frames' # <<>>
           /\ \A n \in DOMAIN frames : frames'[n] = frames[n]
           /\ frames'[Len(frames) + 1] = [of |-> of, sig |-> sig, nr |-> 1, at |-> "test"]
<1>1. [of |-> of, sig |-> sig, nr |-> 1, at |-> "test"] \in Frames
  BY TwoTracers DEF Frames
<1> QED
  BY <1>1 DEF Call

\* Only the innermost goes on.
LEMMA MovedFrames ==
    ASSUME frames \in Seq(Frames), frames # <<>>, NEW nr \in Nrs,
           NEW at \in {"test", "kill", "wait", "clear"}, frames' = At(nr, at)
    PROVE  /\ frames' \in Seq(Frames) /\ DOMAIN frames' = DOMAIN frames /\ frames' # <<>>
           /\ \A n \in DOMAIN frames : n # Len(frames) => frames'[n] = frames[n]
           /\ frames'[Len(frames)] = [of |-> Top.of, sig |-> Top.sig, nr |-> nr, at |-> at]
<1>1. Len(frames) \in DOMAIN frames /\ Top \in Frames
  BY DEF Top
<1>2. [Top EXCEPT !.nr = nr, !.at = at] = [of |-> Top.of, sig |-> Top.sig, nr |-> nr, at |-> at]
  <2>1. PICK o \in {"main"} \cup Signals, s \in {"none"} \cup Signals, k \in Nrs,
             a \in {"test", "kill", "wait", "clear"} :
             Top = [of |-> o, sig |-> s, nr |-> k, at |-> a]
    BY <1>1, Zenon DEF Frames
  <2>2. [Top EXCEPT !.nr = nr] = [of |-> o, sig |-> s, nr |-> nr, at |-> a]
    BY <2>1
  <2>3. [[of |-> o, sig |-> s, nr |-> nr, at |-> a] EXCEPT !.at = at]
            = [of |-> o, sig |-> s, nr |-> nr, at |-> at]
    OBVIOUS
  <2>4. [Top EXCEPT !.nr = nr, !.at = at] = [[Top EXCEPT !.nr = nr] EXCEPT !.at = at]
    OBVIOUS
  <2>5. Top.of = o /\ Top.sig = s
    BY <2>1
  <2> QED
    BY <2>2, <2>3, <2>4, <2>5, Zenon
<1>3. [of |-> Top.of, sig |-> Top.sig, nr |-> nr, at |-> at] \in Frames
  BY <1>1 DEF Frames
<1>4. frames' = [frames EXCEPT ![Len(frames)]
                   = [of |-> Top.of, sig |-> Top.sig, nr |-> nr, at |-> at]]
  BY <1>2 DEF At, Top
<1> QED
  BY <1>1, <1>3, <1>4

\* A sequence without its last element.
LEMMA FrontIsSeq ==
    ASSUME NEW S, NEW s \in Seq(S), s # <<>>
    PROVE  /\ SubSeq(s, 1, Len(s) - 1) \in Seq(S)
           /\ Len(SubSeq(s, 1, Len(s) - 1)) = Len(s) - 1
           /\ \A n \in 1 .. Len(s) - 1 : SubSeq(s, 1, Len(s) - 1)[n] = s[n]
<1>1. Len(s) \in Nat /\ Len(s) > 0 /\ \A n \in 1 .. Len(s) : s[n] \in S
  OBVIOUS
<1> DEFINE m == Len(s) - 1
<1>2. m \in Nat /\ (\A n \in 1 .. m : s[n] \in S) /\ m - 1 + 1 = m
      /\ \A n \in 1 .. m : 1 + n - 1 = n
  BY <1>1
<1> HIDE DEF m
<1>3. SubSeq(s, 1, m) \in Seq(S) /\ Len(SubSeq(s, 1, m)) = m
      /\ \A n \in 1 .. m : SubSeq(s, 1, m)[n] = s[n]
  BY <1>2, SubSeqProperties
<1> QED
  BY <1>3 DEF m

\* The others stay as they are when it returns.
LEMMA ReturnedFrames ==
    ASSUME frames \in Seq(Frames), frames # <<>>,
           frames' = SubSeq(frames, 1, Len(frames) - 1)
    PROVE  /\ frames' \in Seq(Frames) /\ DOMAIN frames' = 1 .. Len(frames) - 1
           /\ frames' = <<>> <=> Len(frames) = 1
           /\ \A n \in DOMAIN frames' : frames'[n] = frames[n]
<1>1. Len(frames) \in Nat \ {0}
  OBVIOUS
<1>2. /\ frames' \in Seq(Frames) /\ Len(frames') = Len(frames) - 1
      /\ \A n \in 1 .. Len(frames) - 1 : frames'[n] = frames[n]
  BY FrontIsSeq
<1>3. frames' = <<>> <=> Len(frames') = 0
  BY <1>2, EmptySeq, Zenon
<1>4. DOMAIN frames' = 1 .. Len(frames) - 1
  BY <1>2
<1>5. Len(frames) - 1 = 0 <=> Len(frames) = 1
  BY <1>1
<1> QED
  BY <1>2, <1>3, <1>4, <1>5, Zenon

-----------------------------------------------------------------------------
(* Each step of wait_for_tracers keeps the invariant. *)

\* The tracer it is at is none that it need wait for: on to the next, or back.
LEMMA Passes ==
    ASSUME WatchInv, frames # <<>>, Passed, Top.at \in {"test", "clear"},
           Top.at = "test" => ~pid_saved[Top.nr],
           pid_saved' = [pid_saved EXCEPT ![Top.nr] = FALSE],
           UNCHANGED <<with_prog, child, status, nsignals, known>>
    PROVE  WatchInv'
<1>1. /\ WatchTypeOK /\ InTheirOrder /\ SavedUntilReaped /\ FramesGoOn /\ Undisturbed
      /\ TracesAreComplete
  BY DEF WatchInv
<1>2. /\ Top \in Frames /\ Top = frames[Len(frames)] /\ Len(frames) \in DOMAIN frames
      /\ Top.nr \in {1, 2} /\ Len(frames) \in Nat /\ DOMAIN frames = 1 .. Len(frames)
      /\ Top.of \in {"main"} \cup Signals
  BY <1>1, TopFrame, TwoTracers DEF WatchTypeOK
<1>3. /\ \A c \in Nrs : c <= Top.nr => ~pid_saved'[c]
      /\ \A c \in Nrs : pid_saved'[c] => pid_saved[c]
      /\ \A c \in Nrs : pid_saved[c] => pid_saved'[c] \/ child[c] = "reaped"
      /\ pid_saved' \in [Nrs -> BOOLEAN]
  BY <1>1, <1>2, TwoTracers DEF FramesGoOn, WatchTypeOK
<1>4. /\ main # "exit"
      /\ \A c \in Nrs : c <= Top.nr =>
            child[c] \in {"none", "reaped"} \/ (main = "save" /\ c = Started)
      /\ Started' = Started
  BY <1>1, <1>2, <1>3, TwoTracers DEF FramesGoOn, SavedUntilReaped, Started
<1>5. CASE Top.nr = 1
  <2>1. /\ frames' = At(2, "test") /\ main' = main
    BY <1>5, TwoTracers DEF Passed
  <2>2. /\ frames' \in Seq(Frames) /\ DOMAIN frames' = DOMAIN frames /\ frames' # <<>>
        /\ \A n \in DOMAIN frames : n # Len(frames) => frames'[n] = frames[n]
        /\ frames'[Len(frames)] = [of |-> Top.of, sig |-> Top.sig, nr |-> 2, at |-> "test"]
    BY <1>1, <2>1, MovedFrames, TwoTracers DEF WatchTypeOK
  <2>3. WatchTypeOK' /\ InTheirOrder' /\ SavedUntilReaped'
    BY <1>1, <1>3, <1>4, <2>1, <2>2 DEF WatchTypeOK, InTheirOrder, SavedUntilReaped
  <2>4. FramesGoOn'
    <3>1. \A n \in DOMAIN frames' :
            /\ frames'[n].of = frames[n].of
            /\ \A c \in Nrs : c < frames'[n].nr => ~pid_saved'[c]
            /\ frames'[n].at \in {"kill", "wait"} => child'[frames'[n].nr] # "none"
            /\ frames'[n].at = "clear" => child'[frames'[n].nr] = "reaped"
      BY <1>1, <1>2, <1>3, <1>5, <2>2, TwoTracers DEF FramesGoOn
    <3> QED
      BY <1>1, <1>2, <1>4, <2>1, <2>2, <3>1 DEF FramesGoOn
  <2>5. Undisturbed'
    BY <1>1, <1>2, <1>5, <2>1, <2>2, TwoTracers DEF Undisturbed, FramesGoOn
  <2>6. TracesAreComplete'
    BY <1>1, <1>4, <2>1, <2>2 DEF TracesAreComplete
  <2> QED
    BY <2>3, <2>4, <2>5, <2>6 DEF WatchInv
<1>6. CASE Top.nr = 2
  <2>1. /\ frames' = SubSeq(frames, 1, Len(frames) - 1)
        /\ main' = IF Top.of = "main" THEN "plot" ELSE main
    BY <1>6, TwoTracers DEF Passed, Returns
  <2>2. /\ frames' \in Seq(Frames) /\ DOMAIN frames' = 1 .. Len(frames) - 1
        /\ frames' = <<>> <=> Len(frames) = 1
        /\ \A n \in DOMAIN frames' : frames'[n] = frames[n] /\ n \in DOMAIN frames
    BY <1>1, <1>2, <2>1, ReturnedFrames DEF WatchTypeOK
  <2>3. /\ Top.of = "main" => main = "wait" /\ Len(frames) = 1
        /\ Top.of # "main" /\ Len(frames) = 1 => main # "wait"
    BY <1>1, <1>2 DEF FramesGoOn
  <2>4. /\ \A c \in Nrs : ~pid_saved'[c]
        /\ \A c \in known : c \in Nrs /\ child[c] = "reaped"
    BY <1>1, <1>2, <1>3, <1>6, TwoTracers DEF SavedUntilReaped, WatchTypeOK
  <2>5. Top.of = "main" => \A c \in Nrs : child[c] = "reaped"
    BY <1>1, <1>4, <1>6, <2>3, TwoTracers DEF InTheirOrder
  <2>6. WatchTypeOK' /\ InTheirOrder'
    BY <1>1, <1>3, <1>4, <2>1, <2>2, <2>3 DEF WatchTypeOK, InTheirOrder, Mains
  <2>7. SavedUntilReaped'
    BY <1>1, <1>3, <1>4, <2>1, <2>3, <2>4, <2>5 DEF SavedUntilReaped
  <2>8. FramesGoOn'
    <3>1. \A n \in DOMAIN frames' :
            /\ frames'[n].of = "main" => n = 1
            /\ \A c \in Nrs : c < frames'[n].nr => ~pid_saved'[c]
            /\ frames'[n].at \in {"kill", "wait"} => child'[frames'[n].nr] # "none"
            /\ frames'[n].at = "clear" => child'[frames'[n].nr] = "reaped"
      BY <1>1, <2>2, <2>4 DEF FramesGoOn
    <3>2. main' # "exit" /\ (main' = "wait" <=> frames' # <<>> /\ frames'[1].of = "main")
      BY <1>1, <1>2, <1>4, <2>1, <2>2, <2>3 DEF FramesGoOn
    <3> QED
      BY <3>1, <3>2 DEF FramesGoOn
  <2>9. Undisturbed'
    BY <1>1, <1>2, <2>1, <2>2, <2>3 DEF Undisturbed, FramesGoOn
  <2>10. TracesAreComplete'
    BY <1>1, <1>4, <2>1, <2>4, <2>5 DEF TracesAreComplete
  <2> QED
    BY <2>6, <2>7, <2>8, <2>9, <2>10 DEF WatchInv
<1> QED
  BY <1>2, <1>5, <1>6

\* kill or wait_program failed: a signal came in between or a tracer ended badly.
LEMMA GivesUp ==
    ASSUME WatchInv, frames # <<>>, Exits,
           nsignals = 0 => \E c \in Nrs : status[c] # "ok",
           Top.at \in {"kill", "wait"}, child' \in {child, [child EXCEPT ![Top.nr] = "reaped"]},
           UNCHANGED <<with_prog, status, pid_saved, nsignals, known>>
    PROVE  WatchInv'
<1>1. /\ WatchTypeOK /\ InTheirOrder /\ SavedUntilReaped /\ FramesGoOn /\ Undisturbed
      /\ TracesAreComplete
  BY DEF WatchInv
<1>2. /\ main' = "exit" /\ frames' = <<>> /\ DOMAIN frames' = {}
      /\ frames' \in Seq(Frames)
  BY DEF Exits
<1>3. Top.nr \in Nrs /\ child[Top.nr] # "none"
  BY <1>1, TopFrame DEF WatchTypeOK, FramesGoOn
<1>4. /\ child' \in [Nrs -> Children]
      /\ \A c \in Nrs :
            /\ child'[c] = child[c] \/ child'[c] = "reaped"
            /\ child'[c] = "none" <=> child[c] = "none"
            /\ child[c] = "reaped" => child'[c] = "reaped"
  BY <1>1, <1>3 DEF WatchTypeOK, Children
<1>5. "reaped" \notin Statuses
  BY DEF Statuses, Signals
<1>6. WatchTypeOK' /\ InTheirOrder'
  BY <1>1, <1>2, <1>4, TwoTracers DEF WatchTypeOK, InTheirOrder, Mains
<1>7. SavedUntilReaped'
  BY <1>1, <1>2, <1>4 DEF SavedUntilReaped, WatchTypeOK
<1>8. FramesGoOn' /\ Undisturbed'
  BY <1>1, <1>2, <1>4, <1>5 DEF FramesGoOn, Undisturbed
<1>9. TracesAreComplete'
  BY <1>2 DEF TracesAreComplete
<1> QED
  BY <1>6, <1>7, <1>8, <1>9 DEF WatchInv

\* The innermost call goes on with the tracer it is at, which runs or has run.
LEMMA GoesOn ==
    ASSUME WatchInv, frames # <<>>, NEW at \in {"kill", "wait", "clear"},
           frames' = At(Top.nr, at), child[Top.nr] # "none",
           child' \in {child, [child EXCEPT ![Top.nr] = "reaped"]},
           at = "clear" => child'[Top.nr] = "reaped",
           at # "clear" => child' = child,
           Top.at # "clear",
           UNCHANGED <<main, with_prog, status, pid_saved, nsignals, known>>
    PROVE  WatchInv'
<1>1. /\ WatchTypeOK /\ InTheirOrder /\ SavedUntilReaped /\ FramesGoOn /\ Undisturbed
      /\ TracesAreComplete
  BY DEF WatchInv
<1>2. /\ Len(frames) \in Nat /\ DOMAIN frames = 1 .. Len(frames)
      /\ Len(frames) \in DOMAIN frames /\ Top = frames[Len(frames)] /\ Top.nr \in Nrs
  BY <1>1, TopFrame DEF WatchTypeOK
<1>3. /\ frames' \in Seq(Frames) /\ DOMAIN frames' = DOMAIN frames /\ frames' # <<>>
      /\ \A n \in DOMAIN frames : n # Len(frames) => frames'[n] = frames[n]
      /\ frames'[Len(frames)] = [of |-> Top.of, sig |-> Top.sig, nr |-> Top.nr, at |-> at]
  <2>1. frames \in Seq(Frames) /\ at \in {"test", "kill", "wait", "clear"}
    BY <1>1 DEF WatchTypeOK
  <2> QED
    BY <1>2, <2>1, MovedFrames, Zenon
<1>4. /\ child' \in [Nrs -> Children]
      /\ \A c \in Nrs :
            /\ child'[c] = child[c] \/ child'[c] = "reaped"
            /\ child'[c] = "none" <=> child[c] = "none"
            /\ child[c] = "reaped" => child'[c] = "reaped"
            /\ c # Top.nr \/ at # "clear" => child'[c] = child[c]
  BY <1>1, <1>2 DEF WatchTypeOK, Children
<1>5. "reaped" \notin Statuses
  BY DEF Statuses, Signals
<1>6. main # "exit" /\ Started' = Started
  <2>1. {c \in Nrs : child'[c] # "none"} = {c \in Nrs : child[c] # "none"}
    BY <1>4
  <2> QED
    BY <1>1, <2>1 DEF FramesGoOn, Started
<1>7. WatchTypeOK' /\ InTheirOrder'
  BY <1>1, <1>3, <1>4, <1>6, TwoTracers DEF WatchTypeOK, InTheirOrder
<1>8. SavedUntilReaped'
  BY <1>1, <1>4, <1>6 DEF SavedUntilReaped, WatchTypeOK
<1>9. FramesGoOn'
  <2>1. \A n \in DOMAIN frames' :
          /\ frames'[n].of = frames[n].of /\ frames'[n].nr = frames[n].nr
          /\ frames'[n].at \in {"kill", "wait"} => child'[frames'[n].nr] # "none"
          /\ frames'[n].at = "clear" => child'[frames'[n].nr] = "reaped"
    <3> SUFFICES ASSUME NEW n \in DOMAIN frames
                 PROVE  /\ frames'[n].of = frames[n].of /\ frames'[n].nr = frames[n].nr
                        /\ frames'[n].at \in {"kill", "wait"} => child'[frames'[n].nr] # "none"
                        /\ frames'[n].at = "clear" => child'[frames'[n].nr] = "reaped"
      BY <1>3
    <3>1. CASE n = Len(frames)
      BY <1>2, <1>3, <1>4, <3>1
    <3>2. CASE n # Len(frames)
      <4>1. frames[n] \in Frames /\ frames'[n] = frames[n]
        BY <1>1, <1>3, <3>2 DEF WatchTypeOK
      <4>2. frames[n].nr \in Nrs
        BY <4>1 DEF Frames
      <4> QED
        BY <1>1, <1>4, <4>1, <4>2 DEF FramesGoOn
    <3> QED
      BY <3>1, <3>2
  <2> QED
    BY <1>1, <1>2, <1>3, <2>1 DEF FramesGoOn
<1>10. Undisturbed'
  <2>1. \A c \in Nrs : child'[c] \in Statuses => status'[c] = child'[c]
    BY <1>1, <1>4, <1>5 DEF Undisturbed
  <2>2. ASSUME nsignals = 0
        PROVE  /\ \A n \in DOMAIN frames' : frames'[n].of = "main"
               /\ main = "wait" /\ Len(frames) = 1
    BY <1>1, <1>2, <1>3, <2>2 DEF Undisturbed, FramesGoOn
  <2>3. ASSUME nsignals = 0, NEW c \in Nrs, child'[c] = "reaped"
        PROVE  c < frames'[1].nr \/ (c = frames'[1].nr /\ frames'[1].at = "clear")
    BY <1>1, <1>2, <1>3, <1>4, <2>2, <2>3 DEF Undisturbed
  <2> QED
    BY <2>1, <2>2, <2>3 DEF Undisturbed
<1>11. TracesAreComplete'
  BY <1>1, <1>3, <1>4, <1>6 DEF TracesAreComplete
<1> QED
  BY <1>7, <1>8, <1>9, <1>10, <1>11 DEF WatchInv

\* One step of wait_for_tracers, called by main or by a handler.
LEMMA WaitStep ==
    ASSUME WatchInv, WaitForTracers
    PROVE  WatchInv'
<1>1. /\ WatchTypeOK /\ InTheirOrder /\ SavedUntilReaped /\ FramesGoOn /\ Undisturbed
      /\ frames # <<>> /\ UNCHANGED <<with_prog, nsignals, known>>
  BY DEF WatchInv, WaitForTracers
<1>2. /\ Len(frames) \in Nat /\ DOMAIN frames = 1 .. Len(frames)
      /\ Len(frames) \in DOMAIN frames /\ Top = frames[Len(frames)] /\ Top.nr \in Nrs
      /\ Top.at \in {"test", "kill", "wait", "clear"}
  BY <1>1, TopFrame DEF WatchTypeOK
<1>3. nsignals = 0 => Len(frames) = 1 /\ main = "wait" /\ Top = frames[1]
  BY <1>1, <1>2 DEF Undisturbed, FramesGoOn
<1>4. CASE Test
  <2>1. CASE pid_saved[Top.nr]
    <3>1. PICK at \in {"kill", "wait"} : frames' = At(Top.nr, at)
      BY <1>4, <2>1 DEF Test
    <3>2. /\ UNCHANGED <<main, child, status, pid_saved>> /\ Top.at = "test"
          /\ child[Top.nr] # "none"
      BY <1>1, <1>2, <1>4, <2>1 DEF Test, InTheirOrder
    <3> QED
      BY <1>1, <3>1, <3>2, GoesOn
  <2>2. CASE ~pid_saved[Top.nr]
    <3>1. Passed /\ UNCHANGED <<child, status, pid_saved>> /\ Top.at = "test"
      BY <1>4, <2>2 DEF Test
    <3>2. pid_saved' = [pid_saved EXCEPT ![Top.nr] = FALSE]
      BY <1>1, <2>2, <3>1 DEF WatchTypeOK
    <3> QED
      BY <1>1, <2>2, <3>1, <3>2, Passes
  <2> QED
    BY <2>1, <2>2
<1>5. CASE Kill
  <2>1. Top.at = "kill" /\ child[Top.nr] # "none" /\ UNCHANGED <<child, status, pid_saved>>
    BY <1>1, <1>2, <1>5 DEF Kill, FramesGoOn
  <2>2. CASE child[Top.nr] = "reaped"
    <3>1. Exits /\ nsignals # 0
      BY <1>1, <1>2, <1>3, <1>5, <2>1, <2>2, TwoTracers DEF Kill, Undisturbed
    <3> QED
      BY <1>1, <2>1, <3>1, GivesUp
  <2>3. CASE child[Top.nr] # "reaped"
    <3>1. frames' = At(Top.nr, "wait") /\ main' = main
      BY <1>5, <2>3 DEF Kill
    <3> QED
      BY <1>1, <2>1, <3>1, GoesOn
  <2> QED
    BY <2>2, <2>3
<1>6. CASE Wait
  <2>1. /\ Top.at = "wait" /\ child[Top.nr] # "running" /\ child[Top.nr] # "none"
        /\ child' = [child EXCEPT ![Top.nr] = "reaped"] /\ UNCHANGED <<status, pid_saved>>
        /\ child'[Top.nr] = "reaped"
    BY <1>1, <1>2, <1>6 DEF Wait, FramesGoOn, WatchTypeOK
  <2>2. PICK s \in IF child[Top.nr] = "reaped" THEN Statuses ELSE {child[Top.nr]} :
           IF Fails(s) THEN Exits ELSE frames' = At(Top.nr, "clear") /\ UNCHANGED main
    BY <1>6 DEF Wait
  <2>3. CASE Fails(s)
    <3>1. ASSUME nsignals = 0
          PROVE  status[Top.nr] # "ok"
      <4>1. child[Top.nr] # "reaped" /\ s = child[Top.nr]
        BY <1>1, <1>2, <1>3, <2>1, <2>2, <3>1, TwoTracers DEF Undisturbed
      <4>2. child[Top.nr] \in Statuses
        BY <1>1, <1>2, <2>1, <4>1 DEF WatchTypeOK, Children
      <4>3. s # "ok"
        BY <2>3 DEF Fails, Signals
      <4> QED
        BY <1>1, <1>2, <4>1, <4>2, <4>3 DEF Undisturbed
    <3> QED
      BY <1>1, <1>2, <2>1, <2>2, <2>3, <3>1, GivesUp
  <2>4. CASE ~Fails(s)
    BY <1>1, <2>1, <2>2, <2>4, GoesOn
  <2> QED
    BY <2>3, <2>4
<1>7. CASE Clear
  BY <1>1, <1>7, Passes DEF Clear
<1> QED
  BY <1>4, <1>5, <1>6, <1>7 DEF WaitForTracers

-----------------------------------------------------------------------------
(* The other steps, and the theorems. *)

\* run_program, which may fail.
LEMMA SpawnStep ==
    ASSUME WatchInv, Spawn
    PROVE  WatchInv'
<1>1. /\ WatchTypeOK /\ InTheirOrder /\ SavedUntilReaped /\ FramesGoOn /\ Undisturbed
      /\ TracesAreComplete
      /\ main = "start" /\ frames = <<>> /\ DOMAIN frames = {}
      /\ UNCHANGED <<with_prog, status, pid_saved, frames, nsignals, known>>
  BY DEF WatchInv, Spawn
<1>2. child[2] = "none" /\ Started = IF child[1] = "none" THEN 0 ELSE 1
  BY <1>1, LastStarted DEF InTheirOrder
<1>3. "reaped" \notin Statuses /\ "none" \notin Statuses /\ "running" \notin Statuses
  BY DEF Statuses, Signals
<1>4. CASE child' = [child EXCEPT ![Started + 1] = "running"] /\ main' = "save"
  <2>1. /\ Started + 1 \in {1, 2} /\ child[Started + 1] = "none"
        /\ Started = 1 => child[1] # "none"
    BY <1>2
  <2>2. /\ child' \in [Nrs -> Children] /\ child'[Started + 1] = "running"
        /\ \A c \in Nrs : c # Started + 1 => child'[c] = child[c]
    BY <1>1, <1>4, <2>1, TwoTracers DEF WatchTypeOK, Children
  <2>3. WatchTypeOK'
    BY <1>1, <1>4, <2>2 DEF WatchTypeOK, Mains
  <2>4. child'[1] # "none" /\ (child'[2] # "none" <=> Started = 1)
    BY <1>2, <2>1, <2>2, TwoTracers
  <2>5. Started' = Started + 1
    <3>1. {c \in Nrs : child'[c] # "none"} = IF child'[2] = "none" THEN {1} ELSE {1, 2}
      BY <2>4, TwoTracers
    <3>2. Cardinality({1}) = 1 /\ Cardinality({1, 2}) = 2
      BY FS_EmptySet, FS_Singleton, FS_AddElement
    <3> QED
      BY <1>2, <2>4, <3>1, <3>2 DEF Started
  <2>6. ~pid_saved[Started + 1]
    BY <1>1, <2>1, TwoTracers DEF InTheirOrder
  <2>7. InTheirOrder'
    BY <1>1, <1>4, <2>2, <2>4, <2>5, <2>6 DEF InTheirOrder
  <2>8. SavedUntilReaped'
    BY <1>1, <1>4, <2>1, <2>2, <2>5, <2>6 DEF SavedUntilReaped, WatchTypeOK
  <2>9. FramesGoOn'
    BY <1>1, <1>4 DEF FramesGoOn
  <2>10. Undisturbed'
    BY <1>1, <1>3, <1>4, <2>2, <2>1 DEF Undisturbed
  <2>11. TracesAreComplete'
    BY <1>1, <1>4, <2>1, <2>2 DEF TracesAreComplete, WatchTypeOK
  <2> QED
    BY <2>3, <2>7, <2>8, <2>9, <2>10, <2>11 DEF WatchInv
<1>5. CASE main' = "exit" /\ UNCHANGED child
  <2>1. NotYet' # {}
    BY <1>2, <1>5, TwoTracers DEF NotYet
  <2>2. WatchTypeOK' /\ InTheirOrder' /\ SavedUntilReaped'
    BY <1>1, <1>5 DEF WatchTypeOK, Mains, InTheirOrder, SavedUntilReaped
  <2>3. FramesGoOn' /\ Undisturbed'
    BY <1>1, <1>5 DEF FramesGoOn, Undisturbed
  <2>4. TracesAreComplete'
    BY <1>5, <2>1 DEF TracesAreComplete
  <2> QED
    BY <2>2, <2>3, <2>4 DEF WatchInv
<1> QED
  BY <1>4, <1>5 DEF Spawn

\* Its pid is saved.
LEMMA SavePidStep ==
    ASSUME WatchInv, SavePid
    PROVE  WatchInv'
<1>1. /\ WatchTypeOK /\ InTheirOrder /\ SavedUntilReaped /\ FramesGoOn /\ Undisturbed
      /\ TracesAreComplete
      /\ main = "save" /\ frames = <<>> /\ DOMAIN frames = {}
      /\ pid_saved' = [pid_saved EXCEPT ![Started] = TRUE]
      /\ main' = IF NotYet = {} THEN "prog" ELSE "start"
      /\ UNCHANGED <<with_prog, child, status, frames, nsignals, known>>
  BY DEF WatchInv, SavePid
<1>2. /\ child[1] # "none" /\ Started = IF child[2] = "none" THEN 1 ELSE 2
      /\ Started \in Nrs /\ child[Started] # "none"
  BY <1>1, LastStarted, TwoTracers DEF InTheirOrder
<1>3. NotYet = {} <=> child[2] # "none"
  BY <1>2, TwoTracers DEF NotYet
<1>4. /\ pid_saved' \in [Nrs -> BOOLEAN] /\ pid_saved'[Started]
      /\ \A c \in Nrs : c # Started => pid_saved'[c] = pid_saved[c]
  BY <1>1, <1>2 DEF WatchTypeOK
<1>5. WatchTypeOK' /\ InTheirOrder'
  BY <1>1, <1>2, <1>3, <1>4 DEF WatchTypeOK, Mains, InTheirOrder
<1>6. SavedUntilReaped'
  BY <1>1, <1>2, <1>4 DEF SavedUntilReaped, WatchTypeOK
<1>7. FramesGoOn' /\ Undisturbed'
  BY <1>1 DEF FramesGoOn, Undisturbed
<1>8. TracesAreComplete'
  BY <1>1 DEF TracesAreComplete
<1> QED
  BY <1>5, <1>6, <1>7, <1>8 DEF WatchInv

\* main waits.
LEMMA AfterProgStep ==
    ASSUME WatchInv, AfterProg
    PROVE  WatchInv'
<1>1. /\ WatchTypeOK /\ InTheirOrder /\ SavedUntilReaped /\ FramesGoOn /\ Undisturbed
      /\ TracesAreComplete
      /\ main = "prog" /\ frames = <<>> /\ main' = "wait" /\ Len(frames) = 0
      /\ UNCHANGED <<with_prog, child, status, pid_saved, nsignals, known>>
  BY DEF WatchInv, AfterProg
<1>2. PICK sig \in {"none"} \cup Signals : frames' = Call("main", sig)
  BY DEF AfterProg, Signals
<1>3. /\ frames' \in Seq(Frames) /\ DOMAIN frames' = {1} /\ frames' # <<>>
      /\ frames'[1] = [of |-> "main", sig |-> sig, nr |-> 1, at |-> "test"]
  <2>1. 1 .. 0 + 1 = {1}
    OBVIOUS
  <2> QED
    BY <1>1, <1>2, <2>1, CalledFrames DEF WatchTypeOK
<1>4. WatchTypeOK' /\ InTheirOrder' /\ SavedUntilReaped'
  BY <1>1, <1>3 DEF WatchTypeOK, Mains, InTheirOrder, SavedUntilReaped
<1>5. FramesGoOn'
  BY <1>1, <1>3, TwoTracers DEF FramesGoOn
<1>6. Undisturbed'
  BY <1>1, <1>3 DEF Undisturbed
<1>7. TracesAreComplete'
  BY <1>1, <1>3 DEF TracesAreComplete
<1> QED
  BY <1>4, <1>5, <1>6, <1>7 DEF WatchInv

\* A tracer ends by itself or by a signal.
LEMMA TracerEndsStep ==
    ASSUME WatchInv, NEW k \in Nrs, TracerEnds(k)
    PROVE  WatchInv'
<1>1. /\ WatchTypeOK /\ InTheirOrder /\ SavedUntilReaped /\ FramesGoOn /\ Undisturbed
      /\ TracesAreComplete
      /\ child[k] = "running" /\ main # "exit"
      /\ UNCHANGED <<main, with_prog, pid_saved, frames, nsignals, known>>
  BY DEF WatchInv, TracerEnds
<1>2. PICK s \in Statuses : child' = [child EXCEPT ![k] = s] /\ status' = [status EXCEPT ![k] = s]
  BY DEF TracerEnds
<1>3. "reaped" \notin Statuses /\ "none" \notin Statuses
  BY DEF Statuses, Signals
<1>4. /\ child' \in [Nrs -> Children] /\ status' \in [Nrs -> {"none"} \cup Statuses]
      /\ child'[k] = s /\ status'[k] = s
      /\ \A c \in Nrs : c # k => child'[c] = child[c] /\ status'[c] = status[c]
      /\ \A c \in Nrs :
            /\ child'[c] = "none" <=> child[c] = "none"
            /\ child'[c] = "reaped" <=> child[c] = "reaped"
  BY <1>1, <1>2, <1>3 DEF WatchTypeOK, Children
<1>5. Started' = Started
  <2>1. {c \in Nrs : child'[c] # "none"} = {c \in Nrs : child[c] # "none"}
    BY <1>4
  <2> QED
    BY <2>1 DEF Started
<1>6. WatchTypeOK' /\ InTheirOrder'
  BY <1>1, <1>4, <1>5, TwoTracers DEF WatchTypeOK, InTheirOrder
<1>7. SavedUntilReaped'
  <2>1. pid_saved[k] \/ (main = "save" /\ k = Started)
    BY <1>1 DEF SavedUntilReaped
  <2> QED
    BY <1>1, <1>4, <1>5, <2>1 DEF SavedUntilReaped, WatchTypeOK
<1>8. FramesGoOn'
  <2>1. \A n \in DOMAIN frames : frames[n].nr \in Nrs
    <3>1. \A n \in DOMAIN frames : frames[n] \in Frames
      BY <1>1 DEF WatchTypeOK
    <3> QED
      BY <3>1 DEF Frames
  <2> QED
    BY <1>1, <1>4, <2>1 DEF FramesGoOn
<1>9. Undisturbed'
  BY <1>1, <1>4 DEF Undisturbed
<1>10. TracesAreComplete'
  BY <1>1, <1>4 DEF TracesAreComplete, WatchTypeOK
<1> QED
  BY <1>6, <1>7, <1>8, <1>9, <1>10 DEF WatchInv

\* A handler interrupts main, or the other signal's handler.
LEMMA SigHandlerStep ==
    ASSUME WatchInv, NEW sig \in Signals, SigHandler(sig)
    PROVE  WatchInv'
<1>1. /\ WatchTypeOK /\ InTheirOrder /\ SavedUntilReaped /\ FramesGoOn /\ Undisturbed
      /\ TracesAreComplete
      /\ main # "exit" /\ frames' = Call(sig, "SIGTERM") /\ nsignals' = nsignals + 1
      /\ known' = known \cup {c \in Nrs : pid_saved[c]}
      /\ UNCHANGED <<main, with_prog, child, status, pid_saved>>
  BY DEF WatchInv, SigHandler
<1>2. sig # "main"
  BY DEF Signals
<1>3. /\ Len(frames) \in Nat /\ DOMAIN frames = 1 .. Len(frames)
      /\ frames = <<>> <=> Len(frames) = 0
  BY <1>1 DEF WatchTypeOK
<1>4. /\ frames' \in Seq(Frames) /\ DOMAIN frames' = 1 .. Len(frames) + 1 /\ frames' # <<>>
      /\ \A n \in DOMAIN frames : frames'[n] = frames[n]
      /\ frames'[Len(frames) + 1] = [of |-> sig, sig |-> "SIGTERM", nr |-> 1, at |-> "test"]
  BY <1>1, CalledFrames DEF WatchTypeOK, Signals
<1>5. nsignals' \in Nat /\ nsignals' # 0
  BY <1>1 DEF WatchTypeOK
<1>6. WatchTypeOK' /\ InTheirOrder' /\ SavedUntilReaped'
  <2>1. known' \in SUBSET Nrs
    BY <1>1 DEF WatchTypeOK
  <2>2. WatchTypeOK'
    BY <1>1, <1>4, <1>5, <2>1 DEF WatchTypeOK
  <2>3. Started' = Started
    BY <1>1 DEF Started
  <2>4. InTheirOrder' /\ SavedUntilReaped'
    BY <1>1, <2>3 DEF InTheirOrder, SavedUntilReaped
  <2> QED
    BY <2>2, <2>4
<1>7. FramesGoOn'
  <2>1. frames'[1].of = "main" <=> frames # <<>> /\ frames[1].of = "main"
    BY <1>2, <1>3, <1>4
  <2>2. \A n \in DOMAIN frames' : n \in DOMAIN frames \/ n = Len(frames) + 1
    BY <1>3, <1>4
  <2>3. \A n \in DOMAIN frames' :
            /\ frames'[n].of = "main" => n = 1
            /\ \A c \in Nrs : c < frames'[n].nr => ~pid_saved'[c]
            /\ frames'[n].at \in {"kill", "wait"} => child'[frames'[n].nr] # "none"
            /\ frames'[n].at = "clear" => child'[frames'[n].nr] = "reaped"
    BY <1>1, <1>2, <1>4, <2>2, TwoTracers DEF FramesGoOn
  <2> QED
    BY <1>1, <1>4, <2>1, <2>3 DEF FramesGoOn
<1>8. Undisturbed'
  BY <1>1, <1>5 DEF Undisturbed
<1>9. TracesAreComplete'
  BY <1>1, <1>4, <1>5 DEF TracesAreComplete
<1> QED
  BY <1>6, <1>7, <1>8, <1>9 DEF WatchInv

\* What every step of iowatcher and its tracers keeps.
THEOREM WatchInvariant == WatchSpec => []WatchInv
<1>1. WatchInit => WatchInv
  <2> SUFFICES ASSUME WatchInit
               PROVE  WatchInv
    OBVIOUS
  <2>1. /\ frames \in Seq(Frames) /\ DOMAIN frames = {} /\ "none" \notin Statuses
        /\ \A c \in Nrs : child[c] = "none" /\ ~pid_saved[c]
    BY DEF WatchInit, Statuses, Signals
  <2>2. WatchTypeOK
    BY <2>1 DEF WatchInit, WatchTypeOK, Mains, Children
  <2>3. InTheirOrder /\ SavedUntilReaped
    BY <2>1, TwoTracers DEF WatchInit, InTheirOrder, SavedUntilReaped
  <2>4. FramesGoOn /\ Undisturbed /\ TracesAreComplete
    BY <2>1 DEF WatchInit, FramesGoOn, Undisturbed, TracesAreComplete
  <2> QED
    BY <2>2, <2>3, <2>4 DEF WatchInv
<1>2. WatchInv /\ [WatchNext]_tracingVars => WatchInv'
  <2> SUFFICES ASSUME WatchInv, [WatchNext]_tracingVars
               PROVE  WatchInv'
    OBVIOUS
  <2>1. CASE Spawn
    BY <2>1, SpawnStep
  <2>2. CASE SavePid
    BY <2>2, SavePidStep
  <2>3. CASE AfterProg
    BY <2>3, AfterProgStep
  <2>4. CASE WaitForTracers
    BY <2>4, WaitStep
  <2>5. CASE \E c \in Nrs : TracerEnds(c)
    BY <2>5, TracerEndsStep
  <2>6. CASE \E sig \in Signals : SigHandler(sig)
    BY <2>6, SigHandlerStep
  <2>7. CASE UNCHANGED tracingVars
    BY <2>7 DEF tracingVars, WatchInv, WatchTypeOK, InTheirOrder, SavedUntilReaped, FramesGoOn,
                Undisturbed, TracesAreComplete, Started, NotYet
  <2> QED
    BY <2>1, <2>2, <2>3, <2>4, <2>5, <2>6, <2>7 DEF WatchNext
<1> QED
  BY <1>1, <1>2, PTL DEF WatchSpec

\* Whatever the signals interrupt, iowatcher plots what both tracers have finished
\* writing, and a handler that returns leaves none running that it knew of.
THEOREM CompleteTraces == WatchSpec => []TracesAreComplete
<1>1. WatchInv => TracesAreComplete
  BY DEF WatchInv
<1> QED
  BY <1>1, WatchInvariant, PTL

-----------------------------------------------------------------------------
(* The block layer's traces: what blkparse, btt and iowatcher keep of them. *)

AnyBio   == [sec : Sectors, w : Dirs, ctx : Contexts]
AnyReq   == [sec : Nat, n : Nat, w : Dirs, pc : BOOLEAN,
             state : {"new", "inserted", "issued", "requeued"}]
AnyTrack == [sec : Nat, alloc : BOOLEAN, queue : BOOLEAN, dispatch : BOOLEAN]
AnyQ     == [sec : Nat, g : BOOLEAN, i : BOOLEAN, m : BOOLEAN, d : BOOLEAN]

\* Whatever is lost.
KernelTypes ==
    /\ bios \subseteq AnyBio /\ IsFiniteSet(bios)
    /\ reqs \subseteq AnyReq /\ IsFiniteSet(reqs)
    /\ \A r \in reqs : /\ r.pc => r.sec = 0 /\ r.n = 0
                       /\ ~r.pc => r.sec > 0 /\ r.n > 0
    /\ nrequeues \in Nat

TrackTypes == rb_track \subseteq AnyTrack /\ cur_depth \in [Dirs -> Nat]
PendTypes  == ios_in_flight \in Nat
BttTypes   == /\ q_tree \subseteq AnyQ /\ IsFiniteSet(q_tree)
              /\ n_qs \in Nat /\ n_ds \in Nat /\ n_act_q \in Nat /\ na \in Nat
              /\ rqm \in Nat /\ cur_qusz \in Int /\ cur_dev \in Int

\* No two IOs are at one sector.
Apart ==
    /\ \A b1, b2 \in bios : b1.sec = b2.sec => b1 = b2
    /\ \A b \in bios : \A r \in reqs : b.sec \notin SectorsOf(r)
    /\ \A r1, r2 \in reqs : r1 # r2 =>
          /\ r1.sec # r2.sec
          /\ \A s \in SectorsOf(r1) : s \notin SectorsOf(r2)

\* blkparse tracks the requests, where they begin.
TrackInv ==
    /\ \A t \in rb_track : \E r \in reqs : ~r.pc /\ r.sec = t.sec
    /\ \A r \in reqs : ~r.pc => \E t \in rb_track : t.sec = r.sec
    /\ \A r \in reqs : \A t \in rb_track : ~r.pc /\ t.sec = r.sec =>
          /\ t.alloc
          /\ r.state = "inserted" => t.queue
          /\ r.state = "issued" => t.dispatch

IssuedTo(w) == {r \in Issued : r.w = w}
Waiting     == FsReqs \ Issued

\* The depths, and the IOs that iowatcher takes a completion for.
DepthInv ==
    /\ \A w \in Dirs : cur_depth[w] = Cardinality(IssuedTo(w))
    /\ ios_in_flight = Cardinality(Issued)
    /\ found_completion => \A r \in Issued : Hashed(r.sec) # {}

\* btt's Qs are the bios in flight, each once.
TreeInv ==
    /\ \A q \in q_tree : q.sec \in InFlight
    /\ \A s \in InFlight : FindSec(s) # {}
    /\ \A q1, q2 \in q_tree : q1.sec = q2.sec => q1 = q2
    /\ \A q \in q_tree : \A r \in Issued : q.sec \in SectorsOf(r) => q.d
    /\ pre_culling => q_tree = {}

\* Its counters.
QueueInv ==
    /\ n_act_q = Cardinality(bios) + Cardinality(Waiting)
    /\ n_act_q = n_qs - n_ds - rqm
StatInv ==
    /\ rqm = 0 => \A r \in reqs : ~r.pc => r.n = 1
    /\ rqm = 0 /\ nrequeues = 0 => /\ cur_qusz = Cardinality(FsReqs)
                                   /\ cur_dev = Cardinality(Issued \cap FsReqs)
                                   /\ na = cur_dev

Types   == KernelTypes /\ TrackTypes /\ PendTypes /\ BttTypes
Follows == Apart /\ TrackInv /\ DepthInv /\ TreeInv /\ QueueInv /\ StatInv
IInv    == Types /\ (clean => Follows)

-----------------------------------------------------------------------------
(* Sets and their sizes. *)

\* A set with one element more, one less, or another.
LEMMA CardFacts ==
    ASSUME NEW T, IsFiniteSet(T)
    PROVE  /\ Cardinality(T) \in Nat
           /\ \A x : x \notin T => /\ IsFiniteSet(T \cup {x})
                                   /\ Cardinality(T \cup {x}) = Cardinality(T) + 1
           /\ \A x \in T : /\ IsFiniteSet(T \ {x}) /\ Cardinality(T) > 0
                           /\ Cardinality(T \ {x}) = Cardinality(T) - 1
           /\ \A x \in T : \A y : y \notin T \ {x} =>
                 /\ IsFiniteSet((T \ {x}) \cup {y})
                 /\ Cardinality((T \ {x}) \cup {y}) = Cardinality(T)
<1>1. \A S : IsFiniteSet(S) => Cardinality(S) \in Nat
  BY FS_CardinalityType
<1>2. \A S, x : IsFiniteSet(S) /\ x \notin S =>
          IsFiniteSet(S \cup {x}) /\ Cardinality(S \cup {x}) = Cardinality(S) + 1
  BY FS_AddElement
<1>3. \A S, x : IsFiniteSet(S) /\ x \in S =>
          IsFiniteSet(S \ {x}) /\ Cardinality(S \ {x}) = Cardinality(S) - 1
  BY FS_RemoveElement
<1>4. ASSUME NEW x \in T PROVE Cardinality(T) > 0
  <2>1. PICK m, n \in Nat : m = Cardinality(T) /\ n = Cardinality(T \ {x}) /\ n = m - 1
    BY <1>1, <1>3
  <2> QED
    BY <2>1
<1>5. ASSUME NEW x \in T, NEW y, y \notin T \ {x}
      PROVE  /\ IsFiniteSet((T \ {x}) \cup {y})
             /\ Cardinality((T \ {x}) \cup {y}) = Cardinality(T)
  <2>1. PICK U : U = T \ {x}
    OBVIOUS
  <2>2. IsFiniteSet(U) /\ Cardinality(U) = Cardinality(T) - 1 /\ y \notin U
    BY <1>3, <1>5, <2>1
  <2>3. IsFiniteSet(U \cup {y}) /\ Cardinality(U \cup {y}) = Cardinality(U) + 1
    BY <1>2, <2>2
  <2>4. Cardinality(U \cup {y}) = Cardinality(T)
    BY <1>1, <2>2, <2>3
  <2> QED
    BY <2>1, <2>3, <2>4
<1> QED
  BY <1>1, <1>2, <1>3, <1>4, <1>5

\* The sectors of a request.
LEMMA SectorFacts ==
    ASSUME NEW r \in AnyReq
    PROVE  /\ \A s : s \in SectorsOf(r) <=> s \in Int /\ r.sec <= s /\ s < r.sec + r.n
           /\ r.n > 0 => r.sec \in SectorsOf(r)
           /\ r.n = 0 => SectorsOf(r) = {}
           /\ r.n = 1 => SectorsOf(r) = {r.sec}
BY DEF SectorsOf, AnyReq

\* What Marked leaves as it was.
LEMMA MarkedFacts ==
    ASSUME NEW Q \in SUBSET q_tree, NEW t \in {"g", "i", "m", "d"}, BttTypes
    PROVE  /\ Marked(Q, t) \subseteq AnyQ /\ IsFiniteSet(Marked(Q, t))
           /\ \A x \in Marked(Q, t) : \E q \in q_tree :
                 x.sec = q.sec /\ (q.d \/ (q \in Q /\ t = "d") => x.d)
           /\ \A q \in q_tree : \E x \in Marked(Q, t) : x.sec = q.sec
           /\ (\A q1, q2 \in q_tree : q1.sec = q2.sec => q1 = q2)
                 => \A x1, x2 \in Marked(Q, t) : x1.sec = x2.sec => x1 = x2
<1> DEFINE mark(q) == [q EXCEPT ![t] = TRUE]
<1>1. ASSUME NEW q \in AnyQ
      PROVE  mark(q) \in AnyQ /\ mark(q).sec = q.sec /\ (q.d \/ t = "d" => mark(q).d)
  <2>1. CASE t = "g"
    BY <2>1 DEF AnyQ
  <2>2. CASE t = "i"
    BY <2>2 DEF AnyQ
  <2>3. CASE t = "m"
    BY <2>3 DEF AnyQ
  <2>4. CASE t = "d"
    BY <2>4 DEF AnyQ
  <2> QED
    BY <2>1, <2>2, <2>3, <2>4
<1>2. Marked(Q, t) = (q_tree \ Q) \cup {mark(q) : q \in Q}
  BY DEF Marked
<1>3. q_tree \subseteq AnyQ /\ IsFiniteSet(q_tree)
  BY DEF BttTypes
<1> HIDE DEF mark
<1>4. Marked(Q, t) \subseteq AnyQ
  BY <1>1, <1>2, <1>3
<1>5. IsFiniteSet(Marked(Q, t))
  <2>1. IsFiniteSet(Q) /\ IsFiniteSet(q_tree \ Q)
    BY <1>3, FS_Subset
  <2>2. IsFiniteSet({mark(q) : q \in Q})
    <3> DEFINE f == [q \in Q |-> mark(q)]
               U == {mark(q) : q \in Q}
    <3>1. f \in Surjection(Q, U)
      BY DEF Surjection
    <3> QED
      BY <2>1, <3>1, FS_Surjection
  <2>3. \A A, B : IsFiniteSet(A) /\ IsFiniteSet(B) => IsFiniteSet(A \cup B)
    BY FS_Union
  <2> QED
    BY <1>2, <2>1, <2>2, <2>3
<1>6. ASSUME NEW x \in Marked(Q, t)
      PROVE  \E q \in q_tree : /\ x.sec = q.sec
                               /\ q.d \/ (q \in Q /\ t = "d") => x.d
                               /\ x = IF q \in Q THEN mark(q) ELSE q
  <2>1. CASE x \in q_tree \ Q
    BY <2>1
  <2>2. CASE \E q \in Q : x = mark(q)
    <3>1. PICK q \in Q : x = mark(q)
      BY <2>2
    <3> QED
      BY <1>1, <1>3, <3>1
  <2> QED
    BY <1>2, <2>1, <2>2
<1>7. ASSUME NEW q \in q_tree PROVE \E x \in Marked(Q, t) : x.sec = q.sec
  <2>1. CASE q \in Q
    BY <1>1, <1>2, <1>3, <2>1
  <2>2. CASE q \notin Q
    BY <1>2, <2>2
  <2> QED
    BY <2>1, <2>2
<1>8. ASSUME \A q1, q2 \in q_tree : q1.sec = q2.sec => q1 = q2,
             NEW x1 \in Marked(Q, t), NEW x2 \in Marked(Q, t), x1.sec = x2.sec
      PROVE  x1 = x2
  <2>1. PICK q1 \in q_tree : x1.sec = q1.sec /\ x1 = IF q1 \in Q THEN mark(q1) ELSE q1
    BY <1>6
  <2>2. PICK q2 \in q_tree : x2.sec = q2.sec /\ x2 = IF q2 \in Q THEN mark(q2) ELSE q2
    BY <1>6
  <2>3. q1 = q2
    BY <1>8, <2>1, <2>2
  <2> QED
    BY <2>1, <2>2, <2>3
<1>9. \A x \in Marked(Q, t) : \E q \in q_tree :
          x.sec = q.sec /\ (q.d \/ (q \in Q /\ t = "d") => x.d)
  BY <1>6
<1> QED
  BY <1>4, <1>5, <1>7, <1>8, <1>9

-----------------------------------------------------------------------------
(* What the block layer's steps do to its bios and requests. *)

\* What is in flight.
LEMMA InFlightFacts ==
    ASSUME NEW s
    PROVE  /\ s \in InFlight <=> \/ \E b \in bios : b.sec = s
                                 \/ \E r \in reqs : s \in SectorsOf(r)
           /\ s \in InFlight' <=> \/ \E b \in bios' : b.sec = s
                                  \/ \E r \in reqs' : s \in SectorsOf(r)
BY DEF InFlight, Pending, SectorsOf

\* A bio is on a sector of the device, and of a direction.
LEMMA BioFacts ==
    ASSUME NEW b \in AnyBio
    PROVE  /\ b.sec \in Nat /\ b.sec > 0 /\ b.w \in Dirs
           /\ b.ctx \in Contexts
BY SectorsAssumption DEF AnyBio, Sectors

LEMMA NewBioFacts ==
    ASSUME NEW b \in NewBios
    PROVE  b \in AnyBio /\ b \notin bios
<1>1. PICK s \in Sectors, ctx \in Contexts \ {x.ctx : x \in bios} :
          b = [sec |-> s, w |-> ctx[3], ctx |-> ctx]
  BY DEF NewBios
<1>2. ctx[3] \in Dirs
  BY ContextsAssumption
<1>3. b \in AnyBio
  BY <1>1, <1>2 DEF AnyBio
<1> QED
  BY <1>1, <1>3

\* A bio is queued.
LEMMA QueueKernel ==
    ASSUME KernelTypes, NEW b \in NewBios, Queue(b)
    PROVE  /\ b \in AnyBio /\ b \notin bios /\ bios' = bios \cup {b} /\ reqs' = reqs
           /\ nrequeues' = nrequeues /\ KernelTypes'
<1>1. b \in AnyBio /\ b \notin bios
  BY NewBioFacts
<1>2. bios' = bios \cup {b} /\ reqs' = reqs /\ nrequeues' = nrequeues
  BY DEF Queue
<1>3. IsFiniteSet(bios')
  BY <1>2, FS_AddElement DEF KernelTypes
<1> QED
  BY <1>1, <1>2, <1>3 DEF KernelTypes

LEMMA QueueApart ==
    ASSUME KernelTypes, Apart, NEW b \in NewBios, Queue(b), b.sec \notin InFlight
    PROVE  /\ Apart'
           /\ \A s : s \in InFlight' <=> s \in InFlight \/ s = b.sec
<1>1. bios' = bios \cup {b} /\ reqs' = reqs
  BY QueueKernel
<1>2. /\ \A x \in bios : x.sec # b.sec
      /\ \A r \in reqs : b.sec \notin SectorsOf(r)
  BY InFlightFacts
<1>3. Apart'
  BY <1>1, <1>2 DEF Apart, SectorsOf
<1> QED
  BY <1>1, <1>3, InFlightFacts

\* The request a bio gets.
NewReq(b) == [sec |-> b.sec, n |-> 1, w |-> b.w, pc |-> FALSE, state |-> "new"]

LEMMA GetRqKernel ==
    ASSUME KernelTypes, NEW b \in bios, GetRq(b)
    PROVE  /\ NewReq(b) \in AnyReq /\ NewReq(b).sec = b.sec /\ NewReq(b).n = 1
           /\ NewReq(b).w = b.w /\ ~NewReq(b).pc /\ NewReq(b).state = "new"
           /\ SectorsOf(NewReq(b)) = {b.sec}
           /\ bios' = bios \ {b} /\ reqs' = reqs \cup {NewReq(b)}
           /\ nrequeues' = nrequeues /\ KernelTypes'
<1>1. b \in AnyBio /\ b.sec \in Nat /\ b.sec > 0 /\ b.w \in Dirs
  BY BioFacts DEF KernelTypes
<1>2. /\ NewReq(b) \in AnyReq /\ NewReq(b).sec = b.sec /\ NewReq(b).n = 1
      /\ NewReq(b).w = b.w /\ ~NewReq(b).pc /\ NewReq(b).state = "new"
  BY <1>1 DEF NewReq, AnyReq
<1>3. SectorsOf(NewReq(b)) = {b.sec}
  BY <1>2, SectorFacts
<1>4. bios' = bios \ {b} /\ reqs' = reqs \cup {NewReq(b)} /\ nrequeues' = nrequeues
  BY DEF GetRq, NewReq
<1>5. IsFiniteSet(bios') /\ IsFiniteSet(reqs')
  BY <1>4, FS_RemoveElement, FS_AddElement DEF KernelTypes
<1>6. KernelTypes'
  BY <1>1, <1>2, <1>4, <1>5 DEF KernelTypes
<1> QED
  BY <1>2, <1>3, <1>4, <1>6

LEMMA GetRqApart ==
    ASSUME KernelTypes, Apart, NEW b \in bios, GetRq(b)
    PROVE  /\ Apart' /\ InFlight' = InFlight
           /\ \A r \in reqs : r.sec # b.sec
<1>1. /\ bios' = bios \ {b} /\ reqs' = reqs \cup {NewReq(b)}
      /\ NewReq(b).sec = b.sec /\ SectorsOf(NewReq(b)) = {b.sec}
      /\ b.sec \in Nat /\ b.sec > 0
  BY GetRqKernel, BioFacts DEF KernelTypes
<1>2. ASSUME NEW r \in reqs PROVE r.sec # b.sec
  <2>1. r.pc => r.sec # b.sec
    BY <1>1 DEF KernelTypes
  <2>2. ~r.pc => r.sec \in SectorsOf(r)
    BY SectorFacts DEF KernelTypes
  <2> QED
    BY <2>1, <2>2 DEF Apart
<1> DEFINE j == NewReq(b)
<1>3. Apart'
  <2> HIDE DEF j
  <2>1. /\ \A x \in bios' : x \in bios /\ x.sec # b.sec
        /\ \A r \in reqs' : r \in reqs \/ r = j
        /\ j.sec = b.sec /\ SectorsOf(j) = {b.sec}
    BY <1>1 DEF Apart, j
  <2>2. \A r \in reqs : b.sec \notin SectorsOf(r)
    BY DEF Apart
  <2> QED
    BY <1>2, <2>1, <2>2 DEF Apart, SectorsOf
<1>4. InFlight' = InFlight
  BY <1>1, InFlightFacts
<1> QED
  BY <1>2, <1>3, <1>4

\* The request r with a bio b at its back or its front.
JoinedBy(j, r, b) ==
    /\ j \in AnyReq /\ ~j.pc /\ ~r.pc /\ j.w = r.w /\ j.n = r.n + 1
    /\ j.state = r.state /\ r.state \in {"new", "inserted"}
    /\ j.sec = r.sec \/ (j.sec = b.sec /\ r.sec = b.sec + 1)
    /\ \A s : s \in SectorsOf(j) <=> s \in SectorsOf(r) \/ s = b.sec

LEMMA JoinKernel ==
    ASSUME KernelTypes, NEW b \in bios, NEW r \in reqs, NEW j,
           j = IF b.sec = r.sec + r.n THEN [r EXCEPT !.n = @ + 1]
               ELSE [r EXCEPT !.sec = @ - 1, !.n = @ + 1],
           b.sec = r.sec + r.n \/ b.sec = r.sec - 1,
           Joins(b, r, j)
    PROVE  /\ JoinedBy(j, r, b)
           /\ bios' = bios \ {b} /\ reqs' = (reqs \ {r}) \cup {j}
           /\ nrequeues' = nrequeues /\ KernelTypes'
<1>1. /\ bios' = bios \ {b} /\ reqs' = (reqs \ {r}) \cup {j} /\ nrequeues' = nrequeues
      /\ ~r.pc /\ r.state \in {"new", "inserted"}
  BY DEF Joins
<1>2. /\ b.sec \in Nat /\ b.sec > 0 /\ r \in AnyReq
      /\ r.sec \in Nat /\ r.n \in Nat /\ r.sec > 0 /\ r.n > 0
  BY <1>1, BioFacts DEF KernelTypes, AnyReq
<1>3. /\ j \in AnyReq /\ ~j.pc /\ j.w = r.w /\ j.n = r.n + 1 /\ j.state = r.state
      /\ b.sec = r.sec + r.n => j.sec = r.sec
      /\ b.sec # r.sec + r.n => j.sec = b.sec /\ r.sec = b.sec + 1
  <2>1. CASE b.sec = r.sec + r.n
    BY <1>1, <1>2, <2>1 DEF AnyReq
  <2>2. CASE b.sec # r.sec + r.n
    <3>1. PICK s, m \in Nat : s = r.sec - 1 /\ m = r.n + 1
      BY <1>2
    <3>2. j = [r EXCEPT !.sec = s, !.n = m]
      BY <2>2, <3>1
    <3>3. /\ j \in AnyReq /\ ~j.pc /\ j.w = r.w /\ j.state = r.state
          /\ j.sec = s /\ j.n = m
      BY <1>1, <1>2, <3>2 DEF AnyReq
    <3>4. b.sec = s
      BY <2>2, <3>1
    <3>5. r.sec = s + 1
      BY <1>2, <3>1
    <3> QED
      BY <2>2, <3>1, <3>3, <3>4, <3>5
  <2> QED
    BY <2>1, <2>2
<1>4. \A s : s \in SectorsOf(j) <=> s \in SectorsOf(r) \/ s = b.sec
  <2>1. PICK rs, rn, js, bs \in Nat : rs = r.sec /\ rn = r.n /\ js = j.sec /\ bs = b.sec
    BY <1>2, <1>3 DEF AnyReq
  <2>2. \A s : /\ s \in SectorsOf(j) <=> s \in Int /\ js <= s /\ s < js + (rn + 1)
               /\ s \in SectorsOf(r) <=> s \in Int /\ rs <= s /\ s < rs + rn
    BY <1>2, <1>3, <2>1, SectorFacts
  <2>3. \/ bs = rs + rn /\ js = rs
        \/ js = bs /\ rs = bs + 1
    BY <1>3, <2>1
  <2> QED
    BY <2>1, <2>2, <2>3
<1>5. IsFiniteSet(bios') /\ IsFiniteSet(reqs')
  BY <1>1, FS_RemoveElement, FS_AddElement DEF KernelTypes
<1>6. j.sec > 0 /\ j.n > 0
  <2>1. j.sec > 0
    BY <1>2, <1>3
  <2> QED
    BY <1>2, <1>3, <2>1
<1>7. KernelTypes'
  BY <1>1, <1>3, <1>5, <1>6 DEF KernelTypes
<1> QED
  BY <1>1, <1>3, <1>4, <1>7 DEF JoinedBy

LEMMA JoinApart ==
    ASSUME KernelTypes, Apart, NEW b \in bios, NEW r \in reqs, NEW j, JoinedBy(j, r, b),
           bios' = bios \ {b}, reqs' = (reqs \ {r}) \cup {j}
    PROVE  /\ Apart' /\ InFlight' = InFlight
           /\ \A x \in reqs : x.sec # b.sec
           /\ \A x \in reqs : x # r => x.sec # j.sec
<1>1. b.sec \in Nat /\ b.sec > 0
  BY BioFacts DEF KernelTypes
<1>2. ASSUME NEW x \in reqs PROVE x.sec # b.sec
  <2>1. x.pc => x.sec # b.sec
    BY <1>1 DEF KernelTypes
  <2>2. ~x.pc => x.sec \in SectorsOf(x)
    BY SectorFacts DEF KernelTypes
  <2> QED
    BY <2>1, <2>2 DEF Apart
<1>3. \A x \in reqs : x # r => x.sec # j.sec
  BY <1>2 DEF JoinedBy, Apart
<1>4. Apart'
  <2>1. /\ \A x \in bios' : x \in bios /\ x.sec # b.sec
        /\ \A x \in reqs' : (x \in reqs /\ x # r) \/ x = j
    BY DEF Apart
  <2>2. \A s : s \in SectorsOf(j) <=> s \in SectorsOf(r) \/ s = b.sec
    BY DEF JoinedBy
  <2>3. \A x \in reqs : b.sec \notin SectorsOf(x)
    BY DEF Apart
  <2>4. ASSUME NEW r1 \in reqs', NEW r2 \in reqs', r1 # r2
        PROVE  r1.sec # r2.sec /\ \A s \in SectorsOf(r1) : s \notin SectorsOf(r2)
    BY <1>3, <2>1, <2>2, <2>3, <2>4 DEF Apart
  <2>5. \A x \in bios' : \A y \in reqs' : x.sec \notin SectorsOf(y)
    BY <2>1, <2>2 DEF Apart
  <2>6. \A b1, b2 \in bios' : b1.sec = b2.sec => b1 = b2
    BY <2>1 DEF Apart
  <2> QED
    BY <2>4, <2>5, <2>6 DEF Apart, SectorsOf
<1>5. InFlight' = InFlight
  BY InFlightFacts DEF JoinedBy
<1> QED
  BY <1>2, <1>3, <1>4, <1>5

\* A packet command is inserted.
LEMMA InsertPcKernel ==
    ASSUME KernelTypes, NEW ctx \in Contexts, NEW r, r = PcReq(ctx), InsertPc(r)
    PROVE  /\ r \in AnyReq /\ r.pc /\ r.sec = 0 /\ r.n = 0 /\ r.state = "inserted"
           /\ r.w \in Dirs /\ r \notin reqs
           /\ bios' = bios /\ reqs' = reqs \cup {r} /\ nrequeues' = nrequeues /\ KernelTypes'
<1>1. ctx[3] \in Dirs
  BY ContextsAssumption
<1>2. /\ r \in AnyReq /\ r.pc /\ r.sec = 0 /\ r.n = 0 /\ r.state = "inserted" /\ r.w \in Dirs
  BY <1>1 DEF PcReq, AnyReq
<1>3. r \notin reqs /\ bios' = bios /\ reqs' = reqs \cup {r} /\ nrequeues' = nrequeues
  BY DEF InsertPc
<1>4. IsFiniteSet(reqs')
  BY <1>3, FS_AddElement DEF KernelTypes
<1>5. KernelTypes'
  BY <1>2, <1>3, <1>4 DEF KernelTypes
<1> QED
  BY <1>2, <1>3, <1>5

LEMMA InsertPcApart ==
    ASSUME KernelTypes, Apart, NEW r \in AnyReq, r.pc, r.sec = 0, r.n = 0,
           \A x \in reqs : ~x.pc, bios' = bios, reqs' = reqs \cup {r}
    PROVE  Apart' /\ InFlight' = InFlight
<1>1. SectorsOf(r) = {}
  BY SectorFacts
<1>2. \A x \in reqs : x.sec # 0
  BY DEF KernelTypes
<1>3. InFlight' = InFlight
  BY <1>1, InFlightFacts
<1>4. Apart'
  BY <1>1, <1>2 DEF Apart, SectorsOf
<1> QED
  BY <1>3, <1>4

\* A request moves on: s is the request r in another state.
MovedTo(s, r, next) ==
    /\ s \in AnyReq /\ r \in AnyReq /\ s.sec = r.sec /\ s.n = r.n /\ s.w = r.w /\ s.pc = r.pc
    /\ s.state = next

LEMMA MoveKernel ==
    ASSUME KernelTypes, NEW r \in reqs, NEW states, NEW next \in {"inserted", "issued", "requeued"},
           Moves(r, states, next), nrequeues' \in Nat
    PROVE  \E s \in AnyReq :
              /\ MovedTo(s, r, next) /\ r.state \in states
              /\ bios' = bios /\ reqs' = (reqs \ {r}) \cup {s} /\ KernelTypes'
<1> DEFINE s == [r EXCEPT !.state = next]
<1>1. MovedTo(s, r, next)
  BY DEF KernelTypes, MovedTo, AnyReq
<1>2. r.state \in states /\ bios' = bios /\ reqs' = (reqs \ {r}) \cup {s}
  BY DEF Moves
<1> HIDE DEF s
<1>3. IsFiniteSet(reqs')
  BY <1>2, FS_RemoveElement, FS_AddElement DEF KernelTypes
<1>4. KernelTypes'
  BY <1>1, <1>2, <1>3 DEF KernelTypes, MovedTo
<1> QED
  BY <1>1, <1>2, <1>4 DEF MovedTo

LEMMA MoveApart ==
    ASSUME KernelTypes, Apart, NEW r \in reqs, NEW s, NEW next, MovedTo(s, r, next),
           bios' = bios, reqs' = (reqs \ {r}) \cup {s}
    PROVE  /\ Apart' /\ InFlight' = InFlight
           /\ \A x \in reqs : x # r => x.sec # s.sec
<1>1. SectorsOf(s) = SectorsOf(r) /\ s.sec = r.sec
  BY DEF MovedTo, SectorsOf
<1>2. \A x \in reqs : x # r => x.sec # s.sec
  BY <1>1 DEF Apart
<1>3. InFlight' = InFlight
  BY <1>1, InFlightFacts
<1>4. Apart'
  <2>1. ASSUME NEW r1 \in reqs', NEW r2 \in reqs', r1 # r2
        PROVE  r1.sec # r2.sec /\ \A x \in SectorsOf(r1) : x \notin SectorsOf(r2)
    BY <1>1, <1>2, <2>1 DEF Apart
  <2>2. \A x \in bios' : \A y \in reqs' : x.sec \notin SectorsOf(y)
    BY <1>1 DEF Apart
  <2> QED
    BY <2>1, <2>2 DEF Apart, SectorsOf
<1> QED
  BY <1>2, <1>3, <1>4

\* A request is completed.
LEMMA CompleteKernel ==
    ASSUME KernelTypes, NEW r \in reqs, Complete(r)
    PROVE  /\ r.state = "issued" /\ bios' = bios /\ reqs' = reqs \ {r}
           /\ nrequeues' = nrequeues /\ KernelTypes'
<1>1. r.state = "issued" /\ bios' = bios /\ reqs' = reqs \ {r} /\ nrequeues' = nrequeues
  BY DEF Complete, Moves
<1>2. IsFiniteSet(reqs')
  BY <1>1, FS_RemoveElement DEF KernelTypes
<1> QED
  BY <1>1, <1>2 DEF KernelTypes

LEMMA CompleteApart ==
    ASSUME KernelTypes, Apart, NEW r \in reqs, bios' = bios, reqs' = reqs \ {r}
    PROVE  /\ Apart'
           /\ \A s : s \in InFlight' <=> s \in InFlight /\ s \notin SectorsOf(r)
<1>1. Apart'
  BY DEF Apart, SectorsOf
<1>2. ASSUME NEW s PROVE s \in InFlight' <=> s \in InFlight /\ s \notin SectorsOf(r)
  BY InFlightFacts DEF Apart
<1> QED
  BY <1>1, <1>2

-----------------------------------------------------------------------------
(* Whatever is traced, the state of the tools keeps its types. *)

\* A trace as the block layer makes it.
AnyTrace == [act : {"Q", "G", "I", "M", "F", "D", "R", "C"}, sec : Nat, n : Nat,
             w : Dirs, pc : BOOLEAN, pid : Pids, cpu : Cpus]

LEMMA BioTraceFacts ==
    ASSUME KernelTypes, NEW b \in AnyBio, NEW act \in {"Q", "G", "M", "F"}
    PROVE  LET e == BioTrace(act, b)
           IN /\ e \in AnyTrace /\ e.act = act /\ e.sec = b.sec /\ e.n = 1
              /\ e.w = b.w /\ ~e.pc
<1>1. b.sec \in Nat /\ b.w \in Dirs /\ b.ctx[1] \in Pids /\ b.ctx[2] \in Cpus
  BY BioFacts, ContextsAssumption
<1> QED
  BY <1>1 DEF BioTrace, Trace, AnyTrace

LEMMA ReqTraceFacts ==
    ASSUME NEW r \in AnyReq, NEW ctx \in Contexts, NEW act \in {"I", "D", "R", "C"}
    PROVE  LET e == ReqTrace(act, r, ctx)
           IN /\ e \in AnyTrace /\ e.act = act /\ e.sec = r.sec /\ e.n = r.n
              /\ e.w = r.w /\ e.pc = r.pc
<1>1. ctx[1] \in Pids /\ ctx[2] \in Cpus
  BY ContextsAssumption
<1> QED
  BY <1>1 DEF ReqTrace, Trace, AnyTrace, AnyReq

\* Depth
LEMMA DepthEffect ==
    ASSUME TrackTypes, NEW e \in AnyTrace, Depth(e)
    PROVE  /\ cur_depth' \in [Dirs -> Nat]
           /\ \A w \in Dirs : w # e.w => cur_depth'[w] = cur_depth[w]
           /\ e.act = "D" => cur_depth'[e.w] = cur_depth[e.w] + 1
           /\ e.act \in {"R", "C"} /\ cur_depth[e.w] > 0 => cur_depth'[e.w] = cur_depth[e.w] - 1
           /\ e.act \notin {"D", "R", "C"} => cur_depth' = cur_depth
<1>1. cur_depth \in [Dirs -> Nat] /\ e.w \in Dirs /\ cur_depth[e.w] \in Nat
  BY DEF TrackTypes, AnyTrace
<1>2. PICK n : n = CASE e.act = "D" -> cur_depth[e.w] + 1
                     [] e.act \in {"R", "C"} /\ cur_depth[e.w] > 0 -> cur_depth[e.w] - 1
                     [] OTHER -> cur_depth[e.w]
  OBVIOUS
<1>3. cur_depth' = [cur_depth EXCEPT ![e.w] = n]
  BY <1>2 DEF Depth
<1>4. /\ e.act = "D" => n = cur_depth[e.w] + 1
      /\ e.act \in {"R", "C"} /\ cur_depth[e.w] > 0 => n = cur_depth[e.w] - 1
      /\ e.act \in {"R", "C"} /\ ~(cur_depth[e.w] > 0) => n = cur_depth[e.w]
      /\ e.act \notin {"D", "R", "C"} => n = cur_depth[e.w]
  BY <1>2
<1>5. n \in Nat
  BY <1>1, <1>4
<1> QED
  BY <1>1, <1>3, <1>4, <1>5

\* The types of what is tracked.
LEMMA TrackTypesStep ==
    ASSUME TrackTypes, NEW e \in AnyTrace, dump_trace(e)
    PROVE  TrackTypes'
<1>1. cur_depth' \in [Dirs -> Nat]
  BY DepthEffect DEF dump_trace
<1>2. \A s : Track(s) \subseteq AnyTrack
  BY DEF Track, TrackTypes
<1>3. find_track(e.sec) \in AnyTrack
  <2>1. Untracked(e.sec) \in AnyTrack
    BY DEF Untracked, AnyTrack, AnyTrace
  <2> QED
    BY <1>2, <2>1 DEF find_track
<1>4. \A t \in AnyTrack :
         /\ [t EXCEPT !.alloc = TRUE] \in AnyTrack /\ [t EXCEPT !.queue = TRUE] \in AnyTrack
         /\ [t EXCEPT !.dispatch = t.dispatch \/ t.sec = e.sec] \in AnyTrack
         /\ [t EXCEPT !.sec = e.sec] \in AnyTrack
  BY DEF AnyTrack, AnyTrace
<1>5. Tracked(e) \subseteq AnyTrack
  <2>1. CASE e.act = "G"
    BY <1>3, <1>4, <2>1 DEF Tracked, Kept, TrackTypes
  <2>2. CASE e.act = "I"
    BY <1>3, <1>4, <2>2 DEF Tracked, Kept, TrackTypes
  <2>3. CASE e.act = "F"
    <3>1. FrontMerged(e) \subseteq AnyTrack
      BY <1>2, <1>4 DEF FrontMerged, TrackTypes
    <3> QED
      BY <2>3, <3>1 DEF Tracked
  <2>4. CASE e.act = "D"
    BY <1>4, <2>4 DEF Tracked, TrackTypes
  <2>5. CASE e.act = "C"
    BY <2>5 DEF Tracked, TrackTypes
  <2>6. CASE e.act \notin {"G", "I", "F", "D", "C"}
    BY <2>6 DEF Tracked, TrackTypes
  <2> QED
    BY <2>1, <2>2, <2>3, <2>4, <2>5, <2>6
<1> QED
  BY <1>1, <1>5 DEF TrackTypes, dump_trace

\* What iowatcher does with a trace, by its kind; the depth stays at zero at least.
LEMMA PendEffect ==
    ASSUME PendTypes, NEW e \in AnyTrace, read_trace_event(e)
    PROVE  /\ PendTypes' /\ found_completion' = found_completion
           /\ e.act \in {"G", "I", "M", "F"} => UNCHANGED <<io_hash, ios_in_flight>>
           /\ e.act = "Q" => io_hash' = Queued(e.sec) /\ ios_in_flight' = ios_in_flight
           /\ e.act = "D" => /\ io_hash' = Dispatched(e.sec)
                             /\ ios_in_flight' = ios_in_flight + 1
           /\ e.act = "R" => /\ io_hash' = io_hash
                             /\ ios_in_flight > 0 => ios_in_flight' = ios_in_flight - 1
           /\ e.act = "C" => /\ io_hash' = io_hash \ Hashed(e.sec)
                             /\ Hashed(e.sec) # {} /\ ios_in_flight > 0
                                  => ios_in_flight' = ios_in_flight - 1
<1>1. Pend(e) /\ found_completion' = found_completion
  BY DEF read_trace_event
<1>2. e.act \in {"G", "I", "M", "F"} => UNCHANGED <<io_hash, ios_in_flight>>
  BY <1>1 DEF Pend
<1>3. e.act = "Q" => io_hash' = Queued(e.sec) /\ ios_in_flight' = ios_in_flight
  BY <1>1 DEF Pend
<1>4. e.act = "D" => io_hash' = Dispatched(e.sec) /\ ios_in_flight' = ios_in_flight + 1
  BY <1>1 DEF Pend
<1>5. e.act = "R" => /\ io_hash' = io_hash
                     /\ ios_in_flight' = IF ios_in_flight > 0 THEN ios_in_flight - 1 ELSE 0
  BY <1>1 DEF Pend
<1>6. e.act = "C" =>
         /\ io_hash' = io_hash \ Hashed(e.sec)
         /\ ios_in_flight' = IF Hashed(e.sec) # {} /\ ios_in_flight > 0
                             THEN ios_in_flight - 1 ELSE ios_in_flight
  BY <1>1 DEF Pend
<1>7. PendTypes'
  <2>1. ios_in_flight \in Nat /\ e.act \in {"Q", "G", "I", "M", "F", "D", "R", "C"}
    BY DEF PendTypes, AnyTrace
  <2>2. ios_in_flight' \in Nat
    BY <1>2, <1>3, <1>4, <1>5, <1>6, <2>1
  <2> QED
    BY <2>2 DEF PendTypes
<1> QED
  BY <1>1, <1>2, <1>3, <1>4, <1>5, <1>6, <1>7

\* The types of what btt counts.
LEMMA BttTypesStep ==
    ASSUME BttTypes, NEW e \in AnyTrace, add_trace(e)
    PROVE  BttTypes'
<1>1. FindSec(e.sec) \in SUBSET q_tree /\ Within(e) \in SUBSET q_tree
  BY DEF FindSec, Within
<1>2. /\ Marked(FindSec(e.sec), "g") \subseteq AnyQ /\ IsFiniteSet(Marked(FindSec(e.sec), "g"))
      /\ Marked(FindSec(e.sec), "i") \subseteq AnyQ /\ IsFiniteSet(Marked(FindSec(e.sec), "i"))
      /\ Marked(FindSec(e.sec), "m") \subseteq AnyQ /\ IsFiniteSet(Marked(FindSec(e.sec), "m"))
      /\ Marked(Within(e), "d") \subseteq AnyQ /\ IsFiniteSet(Marked(Within(e), "d"))
  <2>1. \A Q \in SUBSET q_tree : \A t \in {"g", "i", "m", "d"} :
            Marked(Q, t) \subseteq AnyQ /\ IsFiniteSet(Marked(Q, t))
    BY MarkedFacts
  <2> QED
    BY <1>1, <2>1, Zenon
<1>3. CASE TraceQueue(e)
  <2>1. CASE FindSec(e.sec) = {}
    <3>1. PICK q : q = [sec |-> e.sec, g |-> FALSE, i |-> FALSE, m |-> FALSE, d |-> FALSE]
      OBVIOUS
    <3>2. q \in AnyQ /\ q_tree' = q_tree \cup {q}
      BY <1>3, <2>1, <3>1 DEF TraceQueue, AnyQ, AnyTrace
    <3>3. IsFiniteSet(q_tree')
      BY <3>2, FS_AddElement DEF BttTypes
    <3> QED
      BY <1>3, <2>1, <3>2, <3>3 DEF TraceQueue, BttTypes
  <2> QED
    BY <1>3, <2>1 DEF TraceQueue, BttTypes
<1>4. CASE TraceGetrq(e)
  BY <1>2, <1>4 DEF TraceGetrq, BttTypes
<1>5. CASE TraceInsert(e)
  BY <1>2, <1>5 DEF TraceInsert, BttTypes
<1>6. CASE TraceMerge(e)
  BY <1>2, <1>6 DEF TraceMerge, BttTypes
<1>7. CASE TraceRequeue(e)
  BY <1>7 DEF TraceRequeue, BttTypes
<1>8. CASE TraceIssue(e)
  BY <1>2, <1>8 DEF TraceIssue, BttTypes
<1>9. CASE TraceComplete(e)
  <2>1. PICK D : D = {q \in Within(e) : q.d}
    OBVIOUS
  <2>2. IsFiniteSet(D) /\ IsFiniteSet(q_tree \ Within(e))
    <3>1. D \subseteq q_tree /\ q_tree \ Within(e) \subseteq q_tree /\ IsFiniteSet(q_tree)
      BY <1>1, <2>1 DEF BttTypes
    <3> QED
      BY <3>1, FS_Subset
  <2>3. Cardinality(D) \in Nat
    BY <2>2, FS_CardinalityType
  <2>4. /\ na' = IF na > 0 THEN na - 1 ELSE 0
        /\ cur_qusz' = cur_qusz - Cardinality(D) /\ cur_dev' = cur_dev - Cardinality(D)
        /\ q_tree' = q_tree \ Within(e)
        /\ UNCHANGED <<n_qs, n_ds, n_act_q, rqm>>
    BY <1>9, <2>1 DEF TraceComplete
  <2>5. na' \in Nat /\ cur_qusz' \in Int /\ cur_dev' \in Int
    BY <2>3, <2>4 DEF BttTypes
  <2> QED
    BY <2>2, <2>4, <2>5 DEF BttTypes
<1>10. CASE UNCHANGED bttVars
  BY <1>10 DEF bttVars, BttTypes
<1> QED
  BY <1>3, <1>4, <1>5, <1>6, <1>7, <1>8, <1>9, <1>10 DEF add_trace

-----------------------------------------------------------------------------
(* blkparse's tracked IOs. *)

\* Traces that change none.
LEMMA TrackKept ==
    ASSUME NEW e \in AnyTrace, dump_trace(e), e.pc \/ e.act \in {"Q", "M", "R"}
    PROVE  rb_track' = rb_track
BY DEF dump_trace, Tracked

\* The IO found at a sector, and what is kept with it.
LEMMA FoundTrack ==
    ASSUME TrackTypes, NEW s \in Nat
    PROVE  /\ find_track(s) \in AnyTrack /\ find_track(s).sec = s
           /\ Track(s) # {} => find_track(s) \in rb_track
<1>1. Track(s) = {} => find_track(s) = Untracked(s)
  BY DEF find_track
<1>2. Track(s) # {} => find_track(s) \in Track(s)
  BY DEF find_track
<1>3. Untracked(s) \in AnyTrack /\ Untracked(s).sec = s
  BY DEF Untracked, AnyTrack
<1> QED
  BY <1>1, <1>2, <1>3 DEF Track, TrackTypes

LEMMA KeptFacts ==
    ASSUME NEW s, NEW t
    PROVE  /\ t \in Kept(s, t)
           /\ \A x \in Kept(s, t) : x = t \/ (x \in rb_track /\ x.sec # s)
           /\ \A x \in rb_track : x.sec # s => x \in Kept(s, t)
BY DEF Kept, Track

LEMMA GetRqTrack ==
    ASSUME KernelTypes, TrackTypes, Apart, TrackInv, NEW b \in bios, GetRq(b),
           NEW e \in AnyTrace, dump_trace(e), e.act = "G", ~e.pc, e.sec = b.sec
    PROVE  TrackInv'
<1>1. PICK t : t = [find_track(e.sec) EXCEPT !.alloc = TRUE]
  OBVIOUS
<1>2. rb_track' = Kept(e.sec, t)
  BY <1>1 DEF dump_trace, Tracked
<1>3. /\ t.sec = e.sec /\ t \in rb_track' /\ t.alloc
      /\ \A x \in rb_track' : x = t \/ (x \in rb_track /\ x.sec # e.sec)
      /\ \A x \in rb_track : x.sec # e.sec => x \in rb_track'
  <2>1. find_track(e.sec) \in AnyTrack /\ find_track(e.sec).sec = e.sec
    BY FoundTrack DEF AnyTrace
  <2>2. t.sec = e.sec /\ t.alloc
    BY <1>1, <2>1 DEF AnyTrack
  <2> QED
    BY <1>2, <2>2, KeptFacts
<1>4. PICK j : /\ reqs' = reqs \cup {j} /\ j.sec = e.sec /\ ~j.pc /\ j.state = "new"
               /\ \A r \in reqs : r.sec # e.sec
  BY GetRqKernel, GetRqApart
<1> QED
  BY <1>3, <1>4 DEF TrackInv

LEMMA JoinTrack ==
    ASSUME KernelTypes, TrackTypes, Apart, TrackInv,
           NEW b \in bios, NEW r \in reqs, NEW j, JoinedBy(j, r, b),
           bios' = bios \ {b}, reqs' = (reqs \ {r}) \cup {j},
           NEW e \in AnyTrace, dump_trace(e), ~e.pc, e.sec = b.sec, e.n = 1,
           \/ e.act = "M" /\ j.sec = r.sec
           \/ e.act = "F" /\ j.sec = b.sec /\ r.sec = b.sec + 1
    PROVE  TrackInv'
<1>1. /\ \A x \in reqs : x.sec # b.sec
      /\ \A x \in reqs : x # r => x.sec # j.sec /\ x.sec # r.sec
      /\ ~j.pc /\ ~r.pc /\ j.state = r.state /\ r.state \in {"new", "inserted"}
  BY JoinApart DEF JoinedBy, Apart
<1>2. CASE e.act = "M" /\ j.sec = r.sec
  <2>1. rb_track' = rb_track
    BY <1>2, TrackKept
  <2> QED
    BY <1>1, <1>2, <2>1 DEF TrackInv
<1>3. CASE e.act = "F" /\ j.sec = b.sec /\ r.sec = b.sec + 1
  <2>1. Track(e.sec) = {} /\ Track(e.sec + e.n) = Track(r.sec)
    BY <1>1, <1>3 DEF Track, TrackInv
  <2>2. rb_track' = (rb_track \ Track(r.sec)) \cup {[t EXCEPT !.sec = b.sec] : t \in Track(r.sec)}
    <3>1. rb_track' = FrontMerged(e)
      BY <1>3 DEF dump_trace, Tracked
    <3> QED
      BY <2>1, <3>1 DEF FrontMerged
  <2>3. \A t \in AnyTrack : LET x == [t EXCEPT !.sec = b.sec]
                            IN /\ x.sec = b.sec /\ x.alloc = t.alloc
                               /\ x.queue = t.queue /\ x.dispatch = t.dispatch
    BY DEF AnyTrack
  <2>4. \A x \in rb_track' : \/ x \in rb_track /\ x.sec # r.sec
                             \/ \E t \in rb_track : /\ t.sec = r.sec /\ x.sec = b.sec
                                                    /\ x.alloc = t.alloc /\ x.queue = t.queue
    <3>1. ASSUME NEW x \in rb_track', x \notin rb_track \ Track(r.sec)
          PROVE  \E t \in rb_track : /\ t.sec = r.sec /\ x.sec = b.sec
                                     /\ x.alloc = t.alloc /\ x.queue = t.queue
      <4>1. PICK t \in Track(r.sec) : x = [t EXCEPT !.sec = b.sec]
        BY <2>2, <3>1
      <4> QED
        BY <2>3, <4>1 DEF Track, TrackTypes
    <3>2. \A x \in rb_track \ Track(r.sec) : x \in rb_track /\ x.sec # r.sec
      BY DEF Track
    <3> QED
      BY <3>1, <3>2
  <2>5. /\ \A t \in rb_track : t.sec # r.sec => t \in rb_track'
        /\ \E x \in rb_track' : x.sec = b.sec
    <3>1. PICK t \in rb_track : t.sec = r.sec
      BY <1>1 DEF TrackInv
    <3>2. [t EXCEPT !.sec = b.sec] \in rb_track'
      BY <2>2, <3>1 DEF Track
    <3>3. [t EXCEPT !.sec = b.sec].sec = b.sec
      BY <2>3, <3>1 DEF TrackTypes
    <3>4. \A x \in rb_track : x.sec # r.sec => x \in rb_track'
      BY <2>2 DEF Track
    <3> QED
      BY <3>2, <3>3, <3>4
  <2>6. \A t \in rb_track' : \E x \in reqs' : ~x.pc /\ x.sec = t.sec
    BY <1>1, <1>3, <2>4 DEF TrackInv
  <2>7. \A x \in reqs' : ~x.pc => \E t \in rb_track' : t.sec = x.sec
    BY <1>1, <1>3, <2>5 DEF TrackInv
  <2>8. ASSUME NEW x \in reqs', NEW t \in rb_track', ~x.pc, t.sec = x.sec
        PROVE  /\ t.alloc
               /\ x.state = "inserted" => t.queue
               /\ x.state = "issued" => t.dispatch
    <3>1. CASE x = j
      <4>1. PICK y \in rb_track : y.sec = r.sec /\ t.alloc = y.alloc /\ t.queue = y.queue
        BY <1>1, <1>3, <2>4, <2>8, <3>1 DEF TrackInv
      <4> QED
        BY <1>1, <3>1, <4>1 DEF TrackInv
    <3>2. CASE x # j
      <4>1. x \in reqs /\ x # r /\ x.sec # b.sec
        BY <1>1, <1>3, <3>2
      <4>2. t \in rb_track
        BY <2>4, <2>8, <4>1
      <4> QED
        BY <2>8, <4>1, <4>2 DEF TrackInv
    <3> QED
      BY <3>1, <3>2
  <2> QED
    BY <2>6, <2>7, <2>8 DEF TrackInv
<1> QED
  BY <1>2, <1>3

\* A request is inserted, issued or requeued.
LEMMA MoveTrack ==
    ASSUME KernelTypes, TrackTypes, Apart, TrackInv, NEW r \in reqs, NEW s, NEW next,
           MovedTo(s, r, next), reqs' = (reqs \ {r}) \cup {s},
           NEW e \in AnyTrace, dump_trace(e), e.sec = r.sec, e.pc = r.pc,
           \/ e.act = "I" /\ next = "inserted"
           \/ e.act = "D" /\ next = "issued"
           \/ e.act = "R" /\ next = "requeued"
    PROVE  TrackInv'
<1>1. /\ s.sec = r.sec /\ s.pc = r.pc /\ s.state = next
      /\ \A x \in reqs : x # r => x.sec # r.sec
  BY DEF MovedTo, Apart
<1>2. CASE r.pc
  <2>1. rb_track' = rb_track
    BY <1>2, TrackKept
  <2> QED
    BY <1>1, <1>2, <2>1 DEF TrackInv
<1>3. CASE ~r.pc /\ e.act = "I" /\ next = "inserted"
  <2>1. PICK t : t = [find_track(e.sec) EXCEPT !.queue = TRUE]
    OBVIOUS
  <2>2. rb_track' = Kept(e.sec, t)
    BY <1>3, <2>1 DEF dump_trace, Tracked
  <2>3. Track(e.sec) # {} /\ e.sec \in Nat
    BY <1>3 DEF Track, TrackInv, AnyTrace
  <2>4. /\ t.sec = r.sec /\ t \in rb_track' /\ t.queue
        /\ \A x \in rb_track' : x = t \/ (x \in rb_track /\ x.sec # r.sec)
        /\ \A x \in rb_track : x.sec # r.sec => x \in rb_track'
        /\ t.alloc
    <3>1. PICK y : y = find_track(e.sec)
      OBVIOUS
    <3>2. y \in AnyTrack /\ y.sec = r.sec /\ y \in rb_track
      BY <2>3, <3>1, FoundTrack
    <3>3. y.alloc
      BY <1>3, <3>2 DEF TrackInv
    <3>4. t.sec = r.sec /\ t.queue /\ t.alloc
      BY <2>1, <3>1, <3>2, <3>3 DEF AnyTrack
    <3> QED
      BY <2>2, <3>4, KeptFacts
  <2> QED
    BY <1>1, <1>3, <2>4 DEF TrackInv
<1>4. CASE ~r.pc /\ e.act = "D" /\ next = "issued"
  <2>1. rb_track' = {[t EXCEPT !.dispatch = t.dispatch \/ t.sec = e.sec] : t \in rb_track}
    BY <1>4 DEF dump_trace, Tracked
  <2>2. \A t \in AnyTrack : LET x == [t EXCEPT !.dispatch = t.dispatch \/ t.sec = e.sec]
                            IN /\ x.sec = t.sec /\ x.alloc = t.alloc /\ x.queue = t.queue
                               /\ t.dispatch \/ t.sec = e.sec => x.dispatch
    BY DEF AnyTrack
  <2>3. /\ \A x \in rb_track' : \E t \in rb_track :
              /\ x.sec = t.sec /\ x.alloc = t.alloc /\ x.queue = t.queue
              /\ t.dispatch \/ t.sec = r.sec => x.dispatch
        /\ \A t \in rb_track : \E x \in rb_track' : x.sec = t.sec
    <3>1. ASSUME NEW x \in rb_track'
          PROVE  \E t \in rb_track : /\ x.sec = t.sec /\ x.alloc = t.alloc /\ x.queue = t.queue
                                     /\ t.dispatch \/ t.sec = r.sec => x.dispatch
      <4>1. PICK t \in rb_track : x = [t EXCEPT !.dispatch = t.dispatch \/ t.sec = e.sec]
        BY <2>1
      <4> QED
        BY <2>2, <4>1 DEF TrackTypes
    <3>2. ASSUME NEW t \in rb_track PROVE \E x \in rb_track' : x.sec = t.sec
      BY <2>1, <2>2 DEF TrackTypes
    <3> QED
      BY <3>1, <3>2
  <2> QED
    BY <1>1, <1>4, <2>3, SMTT(30) DEF TrackInv
<1>5. CASE ~r.pc /\ e.act = "R" /\ next = "requeued"
  <2>1. rb_track' = rb_track
    BY <1>5, TrackKept
  <2> QED
    BY <1>1, <1>5, <2>1 DEF TrackInv
<1> QED
  BY <1>2, <1>3, <1>4, <1>5

LEMMA CompleteTrack ==
    ASSUME KernelTypes, Apart, TrackInv, NEW r \in reqs, reqs' = reqs \ {r},
           NEW e \in AnyTrace, dump_trace(e), e.act = "C", e.sec = r.sec, e.pc = r.pc
    PROVE  TrackInv'
<1>1. \A x \in reqs' : x \in reqs /\ x # r /\ x.sec # r.sec
  BY DEF Apart
<1>2. CASE r.pc
  <2>1. rb_track' = rb_track
    BY <1>2, TrackKept
  <2> QED
    BY <1>1, <1>2, <2>1 DEF TrackInv
<1>3. CASE ~r.pc
  <2>1. rb_track' = {t \in rb_track : t.sec # r.sec}
    BY <1>3 DEF dump_trace, Tracked, Track
  <2> QED
    BY <1>1, <1>3, <2>1 DEF TrackInv
<1> QED
  BY <1>2, <1>3

-----------------------------------------------------------------------------
(* How many requests are issued, and how many wait. *)

\* The size of a part U of what R becomes when r is replaced by s; T was the part of R.
LEMMA SwapCard ==
    ASSUME NEW R, NEW r \in R, NEW s, s \notin R \ {r}, NEW T, NEW U,
           IsFiniteSet(R), T \subseteq R,
           \A x : x \in U <=> (x \in T /\ x # r) \/ (x = s /\ s \in U)
    PROVE  /\ Cardinality(T) \in Nat /\ Cardinality(U) \in Nat
           /\ (r \in T <=> s \in U) => Cardinality(U) = Cardinality(T)
           /\ r \notin T /\ s \in U => Cardinality(U) = Cardinality(T) + 1
           /\ r \in T /\ s \notin U => /\ Cardinality(T) > 0
                                       /\ Cardinality(U) = Cardinality(T) - 1
<1>1. IsFiniteSet(T)
  BY FS_Subset
<1>2. CASE r \in T /\ s \in U
  <2>1. U = (T \ {r}) \cup {s} /\ s \notin T \ {r}
    BY <1>2
  <2> QED
    BY <1>1, <1>2, <2>1, CardFacts
<1>3. CASE r \notin T /\ s \notin U
  <2>1. U = T
    BY <1>3
  <2> QED
    BY <1>1, <1>3, <2>1, CardFacts
<1>4. CASE r \notin T /\ s \in U
  <2>1. U = T \cup {s} /\ s \notin T
    BY <1>4
  <2>2. Cardinality(T) \in Nat /\ Cardinality(U) = Cardinality(T) + 1
    BY <1>1, <2>1, CardFacts
  <2> QED
    BY <1>4, <2>2
<1>5. CASE r \in T /\ s \notin U
  <2>1. U = T \ {r}
    BY <1>5
  <2>2. /\ Cardinality(T) \in Nat /\ Cardinality(T) > 0
        /\ Cardinality(U) = Cardinality(T) - 1
    BY <1>1, <1>5, <2>1, CardFacts
  <2> QED
    BY <1>5, <2>2
<1> QED
  BY <1>2, <1>3, <1>4, <1>5

\* A request changes.
LEMMA SwapCounts ==
    ASSUME KernelTypes, NEW r \in reqs, NEW s, s \notin reqs \ {r}, s.pc = r.pc, s.w = r.w,
           reqs' = (reqs \ {r}) \cup {s}
    PROVE  /\ Cardinality(FsReqs') = Cardinality(FsReqs)
           /\ (r.state = "issued" <=> s.state = "issued") =>
                 /\ Cardinality(Issued') = Cardinality(Issued)
                 /\ Cardinality(Waiting') = Cardinality(Waiting)
                 /\ Cardinality((Issued \cap FsReqs)') = Cardinality(Issued \cap FsReqs)
                 /\ \A w : Cardinality(IssuedTo(w)') = Cardinality(IssuedTo(w))
           /\ \A w : w # r.w => Cardinality(IssuedTo(w)') = Cardinality(IssuedTo(w))
           /\ r.state # "issued" /\ s.state = "issued" =>
                 /\ Cardinality(Issued') = Cardinality(Issued) + 1
                 /\ Cardinality(IssuedTo(r.w)') = Cardinality(IssuedTo(r.w)) + 1
                 /\ ~r.pc => /\ Cardinality(Waiting) > 0
                             /\ Cardinality(Waiting') = Cardinality(Waiting) - 1
                             /\ Cardinality((Issued \cap FsReqs)')
                                   = Cardinality(Issued \cap FsReqs) + 1
           /\ r.state = "issued" /\ s.state # "issued" =>
                 /\ Cardinality(Issued) > 0 /\ Cardinality(Issued') = Cardinality(Issued) - 1
                 /\ Cardinality(IssuedTo(r.w)) > 0
                 /\ Cardinality(IssuedTo(r.w)') = Cardinality(IssuedTo(r.w)) - 1
                 /\ ~r.pc => Cardinality(Waiting') = Cardinality(Waiting) + 1
           /\ r.pc => /\ Cardinality(Waiting') = Cardinality(Waiting)
                      /\ Cardinality((Issued \cap FsReqs)') = Cardinality(Issued \cap FsReqs)
<1> DEFINE Sized(T, U) ==
              /\ (r \in T <=> s \in U) => Cardinality(U) = Cardinality(T)
              /\ r \notin T /\ s \in U => Cardinality(U) = Cardinality(T) + 1
              /\ r \in T /\ s \notin U => /\ Cardinality(T) > 0
                                          /\ Cardinality(U) = Cardinality(T) - 1
<1>1. ASSUME NEW T \in SUBSET reqs, NEW U,
             \A x : x \in U <=> (x \in T /\ x # r) \/ (x = s /\ s \in U)
      PROVE  Sized(T, U)
  <2>1. IsFiniteSet(reqs)
    BY DEF KernelTypes
  <2> QED
    BY <1>1, <2>1, SwapCard
<1>2. Sized(FsReqs, FsReqs')
  <2>1. \A x : x \in FsReqs' <=> (x \in FsReqs /\ x # r) \/ (x = s /\ s \in FsReqs')
    BY DEF FsReqs
  <2>2. FsReqs \in SUBSET reqs
    BY DEF FsReqs
  <2> HIDE DEF Sized
  <2> QED
    BY <1>1, <2>1, <2>2
<1>3. Sized(Issued, Issued')
  <2>1. \A x : x \in Issued' <=> (x \in Issued /\ x # r) \/ (x = s /\ s \in Issued')
    BY DEF Issued
  <2>2. Issued \in SUBSET reqs
    BY DEF Issued
  <2> HIDE DEF Sized
  <2> QED
    BY <1>1, <2>1, <2>2
<1>4. Sized(Waiting, Waiting')
  <2>1. \A x : x \in Waiting' <=> (x \in Waiting /\ x # r) \/ (x = s /\ s \in Waiting')
    BY DEF Waiting, FsReqs, Issued
  <2>2. Waiting \in SUBSET reqs
    BY DEF Waiting, FsReqs
  <2> HIDE DEF Sized
  <2> QED
    BY <1>1, <2>1, <2>2
<1>5. Sized(Issued \cap FsReqs, (Issued \cap FsReqs)')
  <2> DEFINE A == Issued \cap FsReqs
             B == (Issued \cap FsReqs)'
  <2>1. \A x : x \in B <=> (x \in A /\ x # r) \/ (x = s /\ s \in B)
    BY DEF FsReqs, Issued
  <2>2. A \in SUBSET reqs
    BY DEF FsReqs
  <2> HIDE DEF Sized, A, B
  <2>3. Sized(A, B)
    BY <1>1, <2>1, <2>2
  <2> QED
    BY <2>3 DEF A, B
<1>6. ASSUME NEW w PROVE Sized(IssuedTo(w), IssuedTo(w)')
  <2> DEFINE A == IssuedTo(w)
             B == IssuedTo(w)'
  <2>1. \A x : x \in B <=> (x \in A /\ x # r) \/ (x = s /\ s \in B)
    BY DEF IssuedTo, Issued
  <2>2. A \in SUBSET reqs
    BY DEF IssuedTo, Issued
  <2> HIDE DEF Sized, A, B
  <2>3. Sized(A, B)
    BY <1>1, <2>1, <2>2
  <2> QED
    BY <2>3 DEF A, B
<1>7. /\ r \in FsReqs <=> ~r.pc
      /\ s \in FsReqs' <=> ~r.pc
      /\ r \in Issued <=> r.state = "issued"
      /\ s \in Issued' <=> s.state = "issued"
      /\ r \in Waiting <=> ~r.pc /\ r.state # "issued"
      /\ s \in Waiting' <=> ~r.pc /\ s.state # "issued"
      /\ r \in Issued \cap FsReqs <=> ~r.pc /\ r.state = "issued"
      /\ s \in (Issued \cap FsReqs)' <=> ~r.pc /\ s.state = "issued"
      /\ \A w : r \in IssuedTo(w) <=> r.w = w /\ r.state = "issued"
      /\ \A w : s \in IssuedTo(w)' <=> r.w = w /\ s.state = "issued"
  BY DEF FsReqs, Issued, Waiting, IssuedTo
<1>8. Cardinality(FsReqs') = Cardinality(FsReqs)
  BY <1>2, <1>7
<1>9. (r.state = "issued" <=> s.state = "issued") =>
         /\ Cardinality(Issued') = Cardinality(Issued)
         /\ Cardinality(Waiting') = Cardinality(Waiting)
         /\ Cardinality((Issued \cap FsReqs)') = Cardinality(Issued \cap FsReqs)
         /\ \A w : Cardinality(IssuedTo(w)') = Cardinality(IssuedTo(w))
  BY <1>3, <1>4, <1>5, <1>6, <1>7
<1>10. \A w : w # r.w => Cardinality(IssuedTo(w)') = Cardinality(IssuedTo(w))
  BY <1>6, <1>7
<1> QED
  BY <1>3, <1>4, <1>5, <1>6, <1>7, <1>8, <1>9, <1>10

\* A request that is not issued comes.
LEMMA AddCounts ==
    ASSUME KernelTypes, NEW s, s \notin reqs, s.state # "issued", s.pc \in BOOLEAN,
           reqs' = reqs \cup {s}
    PROVE  /\ Issued' = Issued /\ (Issued \cap FsReqs)' = Issued \cap FsReqs
           /\ \A w : IssuedTo(w)' = IssuedTo(w)
           /\ s.pc => FsReqs' = FsReqs /\ Waiting' = Waiting
           /\ ~s.pc => /\ Cardinality(FsReqs') = Cardinality(FsReqs) + 1
                       /\ Cardinality(Waiting') = Cardinality(Waiting) + 1
<1>1. /\ Issued' = Issued /\ (Issued \cap FsReqs)' = Issued \cap FsReqs
      /\ s.pc => FsReqs' = FsReqs /\ Waiting' = Waiting
      /\ ~s.pc => FsReqs' = FsReqs \cup {s} /\ Waiting' = Waiting \cup {s}
      /\ s \notin FsReqs /\ s \notin Waiting
  BY DEF Issued, FsReqs, Waiting
<1>2. \A w : IssuedTo(w)' = IssuedTo(w)
  BY <1>1 DEF IssuedTo
<1>3. IsFiniteSet(FsReqs) /\ IsFiniteSet(Waiting)
  <2>1. IsFiniteSet(reqs) /\ FsReqs \subseteq reqs /\ Waiting \subseteq reqs
    BY DEF KernelTypes, FsReqs, Waiting
  <2> QED
    BY <2>1, FS_Subset
<1>4. ASSUME NEW T, IsFiniteSet(T), s \notin T PROVE Cardinality(T \cup {s}) = Cardinality(T) + 1
  BY <1>4, CardFacts
<1>5. ASSUME ~s.pc
      PROVE  /\ Cardinality(FsReqs') = Cardinality(FsReqs) + 1
             /\ Cardinality(Waiting') = Cardinality(Waiting) + 1
  <2>1. FsReqs' = FsReqs \cup {s} /\ Waiting' = Waiting \cup {s}
    BY <1>1, <1>5
  <2> QED
    BY <1>1, <1>3, <1>4, <2>1
<1> QED
  BY <1>1, <1>2, <1>5

\* An issued request goes.
LEMMA RemoveCounts ==
    ASSUME KernelTypes, NEW r \in reqs, r.state = "issued", reqs' = reqs \ {r}
    PROVE  /\ Cardinality(Issued) > 0 /\ Cardinality(Issued') = Cardinality(Issued) - 1
           /\ Cardinality(IssuedTo(r.w)) > 0
           /\ Cardinality(IssuedTo(r.w)') = Cardinality(IssuedTo(r.w)) - 1
           /\ \A w : w # r.w => IssuedTo(w)' = IssuedTo(w)
           /\ Waiting' = Waiting
           /\ r.pc => FsReqs' = FsReqs /\ (Issued \cap FsReqs)' = Issued \cap FsReqs
           /\ ~r.pc => /\ Cardinality(FsReqs') = Cardinality(FsReqs) - 1
                       /\ Cardinality((Issued \cap FsReqs)') = Cardinality(Issued \cap FsReqs) - 1
                       /\ Cardinality(Issued \cap FsReqs) > 0
<1> DEFINE Driven == Issued \cap FsReqs
<1>1. /\ Issued' = Issued \ {r} /\ r \in Issued /\ Waiting' = Waiting
      /\ r.pc => FsReqs' = FsReqs /\ Driven' = Driven
      /\ ~r.pc => /\ FsReqs' = FsReqs \ {r} /\ Driven' = Driven \ {r}
                  /\ r \in FsReqs /\ r \in Driven
  BY DEF Issued, FsReqs, Waiting
<1>2. /\ \A w : w # r.w => IssuedTo(w)' = IssuedTo(w)
      /\ IssuedTo(r.w)' = IssuedTo(r.w) \ {r} /\ r \in IssuedTo(r.w)
  BY <1>1 DEF IssuedTo
<1>3. IsFiniteSet(FsReqs) /\ IsFiniteSet(Issued) /\ IsFiniteSet(Driven) /\ IsFiniteSet(IssuedTo(r.w))
  <2>1. /\ IsFiniteSet(reqs) /\ FsReqs \subseteq reqs /\ Issued \subseteq reqs
        /\ Driven \subseteq reqs /\ IssuedTo(r.w) \subseteq reqs
    BY DEF KernelTypes, FsReqs, Issued, IssuedTo
  <2> QED
    BY <2>1, FS_Subset
<1> HIDE DEF Driven
<1>4. /\ Cardinality(Issued) > 0 /\ Cardinality(Issued') = Cardinality(Issued) - 1
      /\ Cardinality(IssuedTo(r.w)) > 0
      /\ Cardinality(IssuedTo(r.w)') = Cardinality(IssuedTo(r.w)) - 1
  BY <1>1, <1>2, <1>3, CardFacts
<1>5. ~r.pc => /\ Cardinality(FsReqs') = Cardinality(FsReqs) - 1
               /\ Cardinality(Driven') = Cardinality(Driven) - 1
               /\ Cardinality(Driven) > 0
  BY <1>1, <1>3, CardFacts, ZenonT(30)
<1> QED
  BY <1>1, <1>2, <1>4, <1>5 DEF Driven

-----------------------------------------------------------------------------
(* The depths. *)

\* Traces that are no issue, requeue or completion.
DepthKept == /\ cur_depth' = cur_depth /\ ios_in_flight' = ios_in_flight
             /\ \A p \in io_hash : p \in io_hash'
             /\ found_completion' = found_completion

LEMMA DepthTraces ==
    ASSUME TrackTypes, PendTypes, NEW e \in AnyTrace, dump_trace(e), read_trace_event(e),
           e.act \in {"Q", "G", "I", "M", "F"}
    PROVE  DepthKept
<1>1. cur_depth' = cur_depth
  BY DepthEffect DEF dump_trace
<1>2. /\ found_completion' = found_completion /\ ios_in_flight' = ios_in_flight
      /\ io_hash' = io_hash \/ io_hash' = Queued(e.sec)
  BY PendEffect
<1>3. \A p \in io_hash : p \in io_hash'
  BY <1>2 DEF Queued
<1> QED
  BY <1>1, <1>2, <1>3 DEF DepthKept

\* No request is issued, none ends.
LEMMA DepthSame ==
    ASSUME DepthInv, DepthKept, Cardinality(Issued') = Cardinality(Issued),
           \A w : Cardinality(IssuedTo(w)') = Cardinality(IssuedTo(w)),
           \A r \in Issued' : \E x \in Issued : x.sec = r.sec
    PROVE  DepthInv'
<1>1. found_completion' => \A r \in Issued' : Hashed(r.sec)' # {}
  <2> SUFFICES ASSUME found_completion', NEW r \in Issued' PROVE Hashed(r.sec)' # {}
    OBVIOUS
  <2>1. PICK x \in Issued : x.sec = r.sec
    OBVIOUS
  <2>2. Hashed(r.sec) # {}
    BY <2>1 DEF DepthInv, DepthKept
  <2> QED
    BY <2>2 DEF Hashed, DepthKept
<1>2. \A w \in Dirs : cur_depth'[w] = Cardinality(IssuedTo(w)')
  BY DEF DepthInv, DepthKept
<1>3. ios_in_flight' = Cardinality(Issued')
  BY DEF DepthInv, DepthKept
<1> QED
  BY <1>1, <1>2, <1>3 DEF DepthInv

\* A request is inserted, issued or requeued.
LEMMA MoveDepth ==
    ASSUME KernelTypes, TrackTypes, PendTypes, Apart, DepthInv, NEW r \in reqs, NEW s, NEW next,
           MovedTo(s, r, next), s \notin reqs \ {r}, reqs' = (reqs \ {r}) \cup {s},
           NEW e \in AnyTrace, dump_trace(e), read_trace_event(e), e.sec = r.sec, e.w = r.w,
           \/ e.act = "I" /\ next = "inserted" /\ r.state # "issued"
           \/ e.act = "D" /\ next = "issued" /\ r.state # "issued"
           \/ e.act = "R" /\ next = "requeued" /\ r.state = "issued"
    PROVE  DepthInv'
<1>1. s.pc = r.pc /\ s.w = r.w /\ s.sec = r.sec /\ s.state = next /\ r.w \in Dirs
  BY DEF MovedTo, AnyReq
<1>2. \A w : w # r.w => Cardinality(IssuedTo(w)') = Cardinality(IssuedTo(w))
  BY <1>1, SwapCounts
<1>3. CASE e.act = "I" /\ next = "inserted" /\ r.state # "issued"
  <2>1. /\ Cardinality(Issued') = Cardinality(Issued)
        /\ \A w : Cardinality(IssuedTo(w)') = Cardinality(IssuedTo(w))
    BY <1>1, <1>3, SwapCounts
  <2>2. \A x \in Issued' : \E y \in Issued : y.sec = x.sec
    BY <1>1, <1>3 DEF Issued
  <2>3. DepthKept
    BY <1>3, DepthTraces
  <2> QED
    BY <2>1, <2>2, <2>3, DepthSame
<1>4. CASE e.act = "D" /\ next = "issued" /\ r.state # "issued"
  <2>1. /\ Cardinality(Issued') = Cardinality(Issued) + 1
        /\ Cardinality(IssuedTo(r.w)') = Cardinality(IssuedTo(r.w)) + 1
    BY <1>1, <1>4, SwapCounts
  <2>2. /\ cur_depth'[r.w] = cur_depth[r.w] + 1
        /\ \A w \in Dirs : w # r.w => cur_depth'[w] = cur_depth[w]
    BY <1>4, DepthEffect DEF dump_trace
  <2>3. /\ io_hash' = Dispatched(e.sec) /\ ios_in_flight' = ios_in_flight + 1
        /\ found_completion' = found_completion
    BY <1>4, PendEffect
  <2>4. \A w \in Dirs : cur_depth'[w] = Cardinality(IssuedTo(w)')
    BY <1>1, <1>2, <2>1, <2>2 DEF DepthInv
  <2>5. ASSUME found_completion', NEW x \in Issued' PROVE Hashed(x.sec)' # {}
    <3>1. CASE x = s
      <4>1. [sec |-> e.sec, dispatched |-> TRUE] \in io_hash'
        BY <2>3, <2>5 DEF Dispatched
      <4> QED
        BY <1>1, <3>1, <4>1 DEF Hashed
    <3>2. CASE x # s
      <4>1. x \in Issued /\ x.sec # e.sec
        BY <1>1, <3>2 DEF Issued, Apart
      <4>2. PICK p \in io_hash : p.sec = x.sec
        BY <2>3, <2>5, <4>1 DEF DepthInv, Hashed
      <4>3. p \in io_hash'
        BY <2>3, <4>1, <4>2 DEF Dispatched, Hashed
      <4> QED
        BY <4>2, <4>3 DEF Hashed
    <3> QED
      BY <3>1, <3>2
  <2> QED
    BY <2>1, <2>3, <2>4, <2>5 DEF DepthInv
<1>5. CASE e.act = "R" /\ next = "requeued" /\ r.state = "issued"
  <2>1. /\ Cardinality(Issued) > 0 /\ Cardinality(Issued') = Cardinality(Issued) - 1
        /\ Cardinality(IssuedTo(r.w)) > 0
        /\ Cardinality(IssuedTo(r.w)') = Cardinality(IssuedTo(r.w)) - 1
    BY <1>1, <1>5, SwapCounts
  <2>2. /\ cur_depth[r.w] > 0 => cur_depth'[r.w] = cur_depth[r.w] - 1
        /\ \A w \in Dirs : w # r.w => cur_depth'[w] = cur_depth[w]
    BY <1>5, DepthEffect DEF dump_trace
  <2>3. /\ io_hash' = io_hash /\ found_completion' = found_completion
        /\ ios_in_flight > 0 => ios_in_flight' = ios_in_flight - 1
    BY <1>5, PendEffect
  <2>4. \A w \in Dirs : cur_depth'[w] = Cardinality(IssuedTo(w)')
    BY <1>1, <1>2, <2>1, <2>2 DEF DepthInv
  <2>5. \A x \in Issued' : x \in Issued
    BY <1>1, <1>5 DEF Issued
  <2>6. found_completion' => \A x \in Issued' : Hashed(x.sec)' # {}
    BY <2>3, <2>5 DEF DepthInv, Hashed
  <2> QED
    BY <2>1, <2>3, <2>4, <2>6 DEF DepthInv
<1> QED
  BY <1>3, <1>4, <1>5

LEMMA CompleteDepth ==
    ASSUME KernelTypes, TrackTypes, PendTypes, Apart, DepthInv, NEW r \in reqs,
           r.state = "issued", reqs' = reqs \ {r}, found_completion,
           NEW e \in AnyTrace, dump_trace(e), read_trace_event(e),
           e.act = "C", e.sec = r.sec, e.w = r.w
    PROVE  DepthInv'
<1>1. /\ Cardinality(Issued) > 0 /\ Cardinality(Issued') = Cardinality(Issued) - 1
      /\ Cardinality(IssuedTo(r.w)) > 0
      /\ Cardinality(IssuedTo(r.w)') = Cardinality(IssuedTo(r.w)) - 1
      /\ \A w : w # r.w => IssuedTo(w)' = IssuedTo(w)
  BY RemoveCounts
<1>2. /\ cur_depth[r.w] > 0 => cur_depth'[r.w] = cur_depth[r.w] - 1
      /\ \A w \in Dirs : w # r.w => cur_depth'[w] = cur_depth[w]
  BY DepthEffect DEF dump_trace
<1>3. /\ io_hash' = io_hash \ Hashed(e.sec) /\ found_completion' = found_completion
      /\ Hashed(e.sec) # {} /\ ios_in_flight > 0 => ios_in_flight' = ios_in_flight - 1
  BY PendEffect
<1>4. Hashed(e.sec) # {}
  BY DEF DepthInv, Issued
<1>5. \A w \in Dirs : cur_depth'[w] = Cardinality(IssuedTo(w)')
  <2>1. r.w \in Dirs
    BY DEF KernelTypes, AnyReq
  <2> QED
    BY <1>1, <1>2, <2>1 DEF DepthInv
<1>6. ASSUME NEW x \in Issued' PROVE Hashed(x.sec)' # {}
  <2>1. x \in Issued /\ x.sec # e.sec
    BY DEF Issued, Apart
  <2>2. PICK p \in io_hash : p.sec = x.sec
    BY <2>1 DEF DepthInv, Hashed
  <2>3. p \in io_hash'
    BY <1>3, <2>1, <2>2 DEF Hashed
  <2> QED
    BY <2>2, <2>3 DEF Hashed
<1>7. ios_in_flight' = Cardinality(Issued')
  BY <1>1, <1>3, <1>4 DEF DepthInv
<1> QED
  BY <1>3, <1>5, <1>6, <1>7 DEF DepthInv

-----------------------------------------------------------------------------
(* btt's Qs. *)

\* Once something is in flight, a Q was seen.
LEMMA CullingOver ==
    ASSUME TreeInv, NEW s \in InFlight
    PROVE  ~pre_culling
BY DEF TreeInv, FindSec

LEMMA BttTraces ==
    ASSUME NEW e \in AnyTrace, add_trace(e), ~e.pc, pre_culling => e.act = "Q"
    PROVE  /\ e.act = "Q" => TraceQueue(e)
           /\ e.act = "G" => TraceGetrq(e)
           /\ e.act = "I" => TraceInsert(e)
           /\ e.act \in {"M", "F"} => TraceMerge(e)
           /\ e.act = "R" => TraceRequeue(e)
           /\ e.act = "D" => TraceIssue(e)
           /\ e.act = "C" => TraceComplete(e)
BY DEF add_trace

\* Qs get times, the same are in flight.
LEMMA MarkedTree ==
    ASSUME BttTypes, TreeInv, NEW Q \in SUBSET q_tree, NEW t \in {"g", "i", "m", "d"},
           q_tree' = Marked(Q, t), InFlight' = InFlight, pre_culling' = pre_culling,
           \A q \in q_tree : \A r \in Issued' :
               q.sec \in SectorsOf(r) => q.d \/ (q \in Q /\ t = "d")
    PROVE  TreeInv'
<1>1. /\ \A x \in q_tree' : \E q \in q_tree :
            x.sec = q.sec /\ (q.d \/ (q \in Q /\ t = "d") => x.d)
      /\ \A q \in q_tree : \E x \in q_tree' : x.sec = q.sec
      /\ \A x1, x2 \in q_tree' : x1.sec = x2.sec => x1 = x2
  <2>1. \A q1, q2 \in q_tree : q1.sec = q2.sec => q1 = q2
    BY DEF TreeInv
  <2> QED
    BY <2>1, MarkedFacts
<1>2. \A x \in q_tree' : x.sec \in InFlight'
  BY <1>1 DEF TreeInv
<1>3. ASSUME NEW s \in InFlight' PROVE FindSec(s)' # {}
  <2>1. PICK q \in q_tree : q.sec = s
    BY DEF TreeInv, FindSec
  <2>2. PICK x \in q_tree' : x.sec = s
    BY <1>1, <2>1
  <2> QED
    BY <2>2 DEF FindSec
<1>4. ASSUME NEW x \in q_tree', NEW r \in Issued', x.sec \in SectorsOf(r) PROVE x.d
  <2>1. PICK q \in q_tree : x.sec = q.sec /\ (q.d \/ (q \in Q /\ t = "d") => x.d)
    BY <1>1
  <2> QED
    BY <1>4, <2>1
<1>5. pre_culling' => q_tree' = {}
  BY <1>1 DEF TreeInv
<1> QED
  BY <1>1, <1>2, <1>3, <1>4, <1>5 DEF TreeInv, SectorsOf

LEMMA SameTree ==
    ASSUME TreeInv, q_tree' = q_tree, InFlight' = InFlight, pre_culling' = pre_culling,
           \A q \in q_tree : \A r \in Issued' : q.sec \in SectorsOf(r) => q.d
    PROVE  TreeInv'
<1>1. /\ \A q \in q_tree' : q.sec \in InFlight'
      /\ \A s \in InFlight' : FindSec(s)' # {}
      /\ \A q1, q2 \in q_tree' : q1.sec = q2.sec => q1 = q2
      /\ pre_culling' => q_tree' = {}
  BY DEF TreeInv, FindSec
<1>2. \A q \in q_tree' : \A r \in Issued' : q.sec \in SectorsOf(r)' => q.d
  BY DEF SectorsOf
<1> QED
  BY <1>1, <1>2 DEF TreeInv

LEMMA QueueTree ==
    ASSUME TreeInv, NEW e \in AnyTrace, TraceQueue(e), e.sec \notin InFlight,
           \A s : s \in InFlight' <=> s \in InFlight \/ s = e.sec, reqs' = reqs
    PROVE  /\ TreeInv' /\ FindSec(e.sec) = {}
<1>1. FindSec(e.sec) = {}
  BY DEF TreeInv, FindSec
<1>2. PICK q : /\ q = [sec |-> e.sec, g |-> FALSE, i |-> FALSE, m |-> FALSE, d |-> FALSE]
               /\ q_tree' = q_tree \cup {q} /\ q.sec = e.sec /\ pre_culling' = FALSE
  BY <1>1 DEF TraceQueue
<1>3. /\ \A x \in q_tree' : x.sec \in InFlight'
      /\ \A x \in q_tree : x.sec # e.sec
  BY <1>2 DEF TreeInv
<1>4. ASSUME NEW s \in InFlight' PROVE FindSec(s)' # {}
  <2>1. \E x \in q_tree' : x.sec = s
    <3>1. CASE s = e.sec
      BY <1>2, <3>1
    <3>2. CASE s \in InFlight
      BY <1>2, <3>2 DEF TreeInv, FindSec
    <3> QED
      BY <3>1, <3>2
  <2> QED
    BY <2>1 DEF FindSec
<1>5. ASSUME NEW q1 \in q_tree', NEW q2 \in q_tree', q1.sec = q2.sec PROVE q1 = q2
  <2>1. \A x1, x2 \in q_tree : x1.sec = x2.sec => x1 = x2
    BY DEF TreeInv
  <2>2. (q1 \in q_tree \/ q1 = q) /\ (q2 \in q_tree \/ q2 = q)
    BY <1>2
  <2> QED
    BY <1>2, <1>3, <1>5, <2>1, <2>2
<1>6. ASSUME NEW x \in q_tree', NEW r \in Issued', x.sec \in SectorsOf(r) PROVE x.d
  <2>1. r \in reqs /\ r \in Issued
    BY DEF Issued
  <2>2. x.sec \in InFlight
    BY <1>6, <2>1, InFlightFacts
  <2> QED
    BY <1>2, <1>6, <2>1, <2>2 DEF TreeInv
<1> QED
  BY <1>1, <1>2, <1>3, <1>4, <1>5, <1>6 DEF TreeInv, SectorsOf

\* A request is completed: its Qs go.  With one sector it is one, and was issued.
LEMMA CompleteTree ==
    ASSUME KernelTypes, BttTypes, TreeInv, NEW r \in reqs, r.state = "issued", ~r.pc,
           reqs' = reqs \ {r},
           NEW e \in AnyTrace, TraceComplete(e), e.sec = r.sec, e.n = r.n,
           \A s : s \in InFlight' <=> s \in InFlight /\ s \notin SectorsOf(r)
    PROVE  /\ TreeInv'
           /\ r.n = 1 => Cardinality({q \in Within(e) : q.d}) = 1
<1>1. Within(e) = {q \in q_tree : q.sec \in SectorsOf(r)}
  BY DEF Within, SectorsOf
<1>2. q_tree' = q_tree \ Within(e) /\ pre_culling' = pre_culling
  BY DEF TraceComplete
<1>3. /\ \A x \in q_tree' : x.sec \in InFlight'
      /\ \A q1, q2 \in q_tree' : q1.sec = q2.sec => q1 = q2
      /\ pre_culling' => q_tree' = {}
  BY <1>1, <1>2 DEF TreeInv
<1>4. \A s \in InFlight' : FindSec(s)' # {}
  BY <1>1, <1>2 DEF TreeInv, FindSec
<1>5. \A q \in q_tree' : \A x \in Issued' : q.sec \in SectorsOf(x) => q.d
  BY <1>1, <1>2 DEF TreeInv, Issued
<1>6. TreeInv'
  BY <1>3, <1>4, <1>5 DEF TreeInv, SectorsOf
<1>7. ASSUME r.n = 1 PROVE Cardinality({q \in Within(e) : q.d}) = 1
  <2>1. r \in AnyReq /\ SectorsOf(r) = {r.sec}
    BY <1>7, SectorFacts DEF KernelTypes
  <2>2. r.sec \in InFlight /\ r \in Issued
    BY <2>1, InFlightFacts DEF Issued
  <2>3. PICK q \in q_tree : q.sec = r.sec
    BY <2>2 DEF TreeInv, FindSec
  <2>4. {x \in Within(e) : x.d} = {q}
    BY <1>1, <2>1, <2>2, <2>3 DEF TreeInv
  <2> QED
    BY <2>4, FS_Singleton
<1> QED
  BY <1>6, <1>7

-----------------------------------------------------------------------------
(* btt's counters. *)

LEMMA CardTypes ==
    ASSUME KernelTypes
    PROVE  /\ Cardinality(bios) \in Nat /\ Cardinality(Waiting) \in Nat
           /\ Cardinality(FsReqs) \in Nat /\ Cardinality(Issued \cap FsReqs) \in Nat
<1>1. /\ IsFiniteSet(bios) /\ IsFiniteSet(reqs) /\ Waiting \subseteq reqs
      /\ FsReqs \subseteq reqs /\ Issued \cap FsReqs \subseteq reqs
  BY DEF KernelTypes, Waiting, FsReqs
<1>2. IsFiniteSet(Waiting) /\ IsFiniteSet(FsReqs) /\ IsFiniteSet(Issued \cap FsReqs)
  BY <1>1, FS_Subset
<1> QED
  BY <1>1, <1>2, FS_CardinalityType

\* What the counters are compared with, and they themselves, as they were and as
\* they are.
LEMMA QueueMoves ==
    ASSUME KernelTypes, BttTypes, QueueInv,
           \/ /\ n_act_q' = n_act_q + 1 /\ n_qs' = n_qs + 1 /\ n_ds' = n_ds /\ rqm' = rqm
              /\ Cardinality(bios') + Cardinality(Waiting')
                    = Cardinality(bios) + Cardinality(Waiting) + 1
           \/ /\ n_act_q' = n_act_q /\ n_qs' = n_qs /\ n_ds' = n_ds /\ rqm' = rqm
              /\ Cardinality(bios') + Cardinality(Waiting')
                    = Cardinality(bios) + Cardinality(Waiting)
           \/ /\ n_act_q # 0 => n_act_q' = n_act_q - 1
              /\ n_qs' = n_qs
              /\ (n_ds' = n_ds + 1 /\ rqm' = rqm) \/ (n_ds' = n_ds /\ rqm' = rqm + 1)
              /\ Cardinality(bios) + Cardinality(Waiting) > 0
              /\ Cardinality(bios') + Cardinality(Waiting')
                    = (Cardinality(bios) + Cardinality(Waiting)) - 1
    PROVE  QueueInv'
<1>1. PICK k, q, d, r \in Nat : /\ k = Cardinality(bios) + Cardinality(Waiting)
                                 /\ q = n_qs /\ d = n_ds /\ r = rqm
  BY CardTypes DEF BttTypes
<1>2. PICK m, k2, q2, d2, r2 : /\ m = Cardinality(bios') + Cardinality(Waiting')
                               /\ k2 = n_act_q' /\ q2 = n_qs' /\ d2 = n_ds' /\ r2 = rqm'
  OBVIOUS
<1>3. n_act_q = k /\ k = q - d - r
  BY <1>1 DEF QueueInv
<1>4. \/ k2 = k + 1 /\ q2 = q + 1 /\ d2 = d /\ r2 = r /\ m = k + 1
      \/ k2 = k /\ q2 = q /\ d2 = d /\ r2 = r /\ m = k
      \/ /\ k # 0 => k2 = k - 1
         /\ q2 = q
         /\ (d2 = d + 1 /\ r2 = r) \/ (d2 = d /\ r2 = r + 1)
         /\ k > 0 /\ m = k - 1
  <2>1. /\ Cardinality(bios') + Cardinality(Waiting') = m
        /\ Cardinality(bios) + Cardinality(Waiting) = k
        /\ n_act_q' = k2 /\ n_qs' = q2 /\ n_ds' = d2 /\ rqm' = r2
        /\ n_act_q = k /\ n_qs = q /\ n_ds = d /\ rqm = r
    BY <1>1, <1>2, <1>3
  <2> QED
    BY <2>1
<1>5. k2 = m /\ k2 = q2 - d2 - r2
  BY <1>1, <1>3, <1>4
<1>6. n_act_q' = Cardinality(bios') + Cardinality(Waiting') /\ n_act_q' = n_qs' - n_ds' - rqm'
  BY <1>2, <1>5, Zenon
<1> QED
  BY <1>6 DEF QueueInv

\* A bio is queued.
LEMMA QueueBtt ==
    ASSUME KernelTypes, BttTypes, TreeInv, QueueInv, StatInv,
           NEW b, b \notin bios, bios' = bios \cup {b}, reqs' = reqs, nrequeues' = nrequeues,
           b.sec \notin InFlight, \A s : s \in InFlight' <=> s \in InFlight \/ s = b.sec,
           NEW e \in AnyTrace, add_trace(e), ~e.pc, e.act = "Q", e.sec = b.sec
    PROVE  TreeInv' /\ QueueInv' /\ StatInv'
<1>1. TraceQueue(e)
  BY BttTraces
<1>2. TreeInv' /\ FindSec(e.sec) = {}
  BY <1>1, QueueTree
<1>3. /\ n_act_q' = n_act_q + 1 /\ n_qs' = n_qs + 1
      /\ UNCHANGED <<n_ds, na, cur_qusz, cur_dev, rqm>>
  BY <1>1, <1>2 DEF TraceQueue
<1>4. Cardinality(bios') = Cardinality(bios) + 1
  BY CardFacts DEF KernelTypes
<1>5. Waiting' = Waiting /\ FsReqs' = FsReqs /\ (Issued \cap FsReqs)' = Issued \cap FsReqs
  BY DEF Waiting, FsReqs, Issued
<1>6. QueueInv'
  <2>1. Cardinality(bios') + Cardinality(Waiting') = Cardinality(bios) + Cardinality(Waiting) + 1
    BY <1>4, <1>5, CardTypes
  <2> QED
    BY <1>3, <2>1, QueueMoves
<1>7. StatInv'
  BY <1>3, <1>5 DEF StatInv
<1> QED
  BY <1>2, <1>6, <1>7

\* A bio gets a request.
LEMMA GetRqBtt ==
    ASSUME KernelTypes, BttTypes, TreeInv, QueueInv, StatInv, NEW b \in bios, GetRq(b), Apart,
           NEW e \in AnyTrace, add_trace(e), ~e.pc, e.act = "G", e.sec = b.sec
    PROVE  TreeInv' /\ QueueInv' /\ StatInv'
<1>1. PICK j : /\ bios' = bios \ {b} /\ reqs' = reqs \cup {j} /\ j.sec = b.sec /\ ~j.pc
               /\ j.state = "new" /\ j.n = 1 /\ j.pc \in BOOLEAN /\ nrequeues' = nrequeues
  BY GetRqKernel DEF AnyReq
<1>2. InFlight' = InFlight /\ j \notin reqs
  BY <1>1, GetRqApart
<1>3. b.sec \in InFlight
  BY InFlightFacts
<1>4. TraceGetrq(e)
  BY <1>3, BttTraces, CullingOver
<1>5. /\ cur_qusz' = cur_qusz + 1 /\ q_tree' = Marked(FindSec(e.sec), "g")
      /\ UNCHANGED <<pre_culling, n_qs, n_ds, n_act_q, na, cur_dev, rqm>>
  BY <1>4 DEF TraceGetrq
<1>6. /\ Issued' = Issued /\ (Issued \cap FsReqs)' = Issued \cap FsReqs
      /\ Cardinality(FsReqs') = Cardinality(FsReqs) + 1
      /\ Cardinality(Waiting') = Cardinality(Waiting) + 1
  BY <1>1, <1>2, AddCounts
<1>7. TreeInv'
  <2>1. FindSec(e.sec) \in SUBSET q_tree
    BY DEF FindSec
  <2>2. \A q \in q_tree : \A r \in Issued' : q.sec \in SectorsOf(r) => q.d
    BY <1>6 DEF TreeInv
  <2> QED
    BY <1>2, <1>5, <2>1, <2>2, MarkedTree
<1>8. QueueInv'
  <2>1. Cardinality(bios') = Cardinality(bios) - 1
    BY <1>1, CardFacts DEF KernelTypes
  <2>2. Cardinality(bios') + Cardinality(Waiting') = Cardinality(bios) + Cardinality(Waiting)
    BY <1>6, <2>1, CardTypes
  <2> QED
    BY <1>5, <2>2, QueueMoves
<1>9. StatInv'
  BY <1>1, <1>5, <1>6 DEF StatInv
<1> QED
  BY <1>7, <1>8, <1>9

\* A bio joins a request.
LEMMA JoinBtt ==
    ASSUME KernelTypes, BttTypes, Apart, TreeInv, QueueInv, StatInv,
           NEW b \in bios, NEW r \in reqs, NEW j, JoinedBy(j, r, b),
           bios' = bios \ {b}, reqs' = (reqs \ {r}) \cup {j}, nrequeues' = nrequeues,
           NEW e \in AnyTrace, add_trace(e), ~e.pc, e.act \in {"M", "F"}, e.sec = b.sec
    PROVE  TreeInv' /\ QueueInv' /\ StatInv'
<1>1. /\ ~j.pc /\ ~r.pc /\ j.w = r.w /\ j.state = r.state /\ r.state \in {"new", "inserted"}
      /\ InFlight' = InFlight /\ j \notin reqs \ {r} /\ j.pc = r.pc
  BY JoinApart DEF JoinedBy, AnyReq, KernelTypes
<1>2. b.sec \in InFlight
  BY InFlightFacts
<1>3. TraceMerge(e)
  BY <1>2, BttTraces, CullingOver
<1>4. /\ rqm' = rqm + 1 /\ q_tree' = Marked(FindSec(e.sec), "m")
      /\ n_act_q # 0 => n_act_q' = n_act_q - 1
      /\ UNCHANGED <<pre_culling, n_qs, n_ds>>
  BY <1>3 DEF TraceMerge
<1>5. TreeInv'
  <2>1. FindSec(e.sec) \in SUBSET q_tree
    BY DEF FindSec
  <2>2. \A x \in Issued' : x \in Issued
    BY <1>1 DEF Issued
  <2>3. \A q \in q_tree : \A x \in Issued' : q.sec \in SectorsOf(x) => q.d
    BY <2>2 DEF TreeInv
  <2> QED
    BY <1>1, <1>4, <2>1, <2>3, MarkedTree
<1>6. QueueInv'
  <2>1. Cardinality(bios) > 0 /\ Cardinality(bios') = Cardinality(bios) - 1
    BY CardFacts DEF KernelTypes
  <2>2. Cardinality(Waiting') = Cardinality(Waiting)
    BY <1>1, SwapCounts
  <2>3. /\ Cardinality(bios) + Cardinality(Waiting) > 0
        /\ Cardinality(bios') + Cardinality(Waiting')
              = (Cardinality(bios) + Cardinality(Waiting)) - 1
    BY <2>1, <2>2, CardTypes
  <2> QED
    BY <1>4, <2>3, QueueMoves
<1>7. StatInv'
  <2>1. rqm' # 0
    BY <1>4 DEF BttTypes
  <2> QED
    BY <2>1 DEF StatInv
<1> QED
  BY <1>5, <1>6, <1>7

\* What happens to packet commands is none of btt's.
LEMMA PcBtt ==
    ASSUME KernelTypes, KernelTypes', TreeInv, QueueInv, StatInv, UNCHANGED bttVars,
           bios' = bios, InFlight' = InFlight, nrequeues' = 0 => nrequeues = 0,
           \A x : ~x.pc => (x \in reqs' <=> x \in reqs)
    PROVE  TreeInv' /\ QueueInv' /\ StatInv'
<1>1. FsReqs' = FsReqs /\ Waiting' = Waiting /\ (Issued \cap FsReqs)' = Issued \cap FsReqs
  BY DEF FsReqs, Waiting, Issued
<1>2. UNCHANGED <<q_tree, pre_culling, n_qs, n_ds, n_act_q, na, cur_qusz, cur_dev, rqm>>
  BY DEF bttVars
<1>3. ASSUME NEW q \in q_tree, NEW x \in Issued', q.sec \in SectorsOf(x) PROVE q.d
  <2>1. x \in reqs' /\ x.state = "issued"
    BY DEF Issued
  <2>2. ~x.pc
    BY <1>3, <2>1, SectorFacts DEF KernelTypes
  <2>3. x \in Issued
    BY <2>1, <2>2 DEF Issued
  <2> QED
    BY <1>3, <2>3 DEF TreeInv
<1>4. TreeInv'
  BY <1>2, <1>3, SameTree
<1>5. QueueInv'
  BY <1>1, <1>2 DEF QueueInv
<1>6. StatInv'
  BY <1>1, <1>2 DEF StatInv
<1> QED
  BY <1>4, <1>5, <1>6

\* A request is inserted, issued or requeued.
LEMMA MoveBtt ==
    ASSUME KernelTypes, BttTypes, Apart, TreeInv, QueueInv, StatInv, NEW r \in reqs, ~r.pc,
           NEW s, NEW next, MovedTo(s, r, next), s \notin reqs \ {r},
           bios' = bios, reqs' = (reqs \ {r}) \cup {s},
           NEW e \in AnyTrace, add_trace(e), ~e.pc, e.sec = r.sec, e.n = r.n,
           \/ e.act = "I" /\ next = "inserted" /\ r.state # "issued" /\ nrequeues' = nrequeues
           \/ e.act = "D" /\ next = "issued" /\ r.state # "issued" /\ nrequeues' = nrequeues
           \/ e.act = "R" /\ next = "requeued" /\ r.state = "issued" /\ nrequeues' = nrequeues + 1
    PROVE  TreeInv' /\ QueueInv' /\ StatInv'
<1>1. /\ s.pc = r.pc /\ s.w = r.w /\ s.sec = r.sec /\ s.n = r.n /\ s.state = next
      /\ SectorsOf(s) = SectorsOf(r) /\ InFlight' = InFlight
  BY MoveApart DEF MovedTo, SectorsOf
<1>2. r.sec \in InFlight
  BY InFlightFacts, SectorFacts DEF KernelTypes
<1>3. ~pre_culling
  BY <1>2, CullingOver
<1>4. Cardinality(FsReqs') = Cardinality(FsReqs)
  BY <1>1, SwapCounts
<1>5. \A x \in reqs' : ~x.pc => \E y \in reqs : ~y.pc /\ y.n = x.n
  BY <1>1
<1>6. FindSec(e.sec) \in SUBSET q_tree /\ Within(e) \in SUBSET q_tree
  BY DEF FindSec, Within
<1>7. CASE e.act = "I" /\ next = "inserted" /\ r.state # "issued" /\ nrequeues' = nrequeues
  <2>1. /\ q_tree' = Marked(FindSec(e.sec), "i")
        /\ UNCHANGED <<pre_culling, n_qs, n_ds, n_act_q, na, cur_qusz, cur_dev, rqm>>
    BY <1>3, <1>7, BttTraces DEF TraceInsert
  <2>2. /\ Cardinality(Waiting') = Cardinality(Waiting)
        /\ Cardinality((Issued \cap FsReqs)') = Cardinality(Issued \cap FsReqs)
    BY <1>1, <1>7, SwapCounts
  <2>3. \A q \in q_tree : \A x \in Issued' : q.sec \in SectorsOf(x) => q.d
    <3>1. \A x \in Issued' : x \in Issued
      BY <1>1, <1>7 DEF Issued
    <3> QED
      BY <3>1 DEF TreeInv
  <2>4. TreeInv'
    BY <1>1, <1>6, <2>1, <2>3, MarkedTree
  <2>5. QueueInv'
    BY <2>1, <2>2, QueueMoves
  <2>6. StatInv'
    BY <1>4, <1>5, <1>7, <2>1, <2>2 DEF StatInv
  <2> QED
    BY <2>4, <2>5, <2>6
<1>8. CASE e.act = "D" /\ next = "issued" /\ r.state # "issued" /\ nrequeues' = nrequeues
  <2>1. /\ q_tree' = Marked(Within(e), "d")
        /\ n_act_q # 0 => n_act_q' = n_act_q - 1
        /\ n_ds' = n_ds + 1 /\ cur_dev' = cur_dev + 1 /\ na' = na + 1
        /\ UNCHANGED <<pre_culling, n_qs, cur_qusz, rqm>>
    BY <1>3, <1>8, BttTraces DEF TraceIssue
  <2>2. /\ Cardinality(Waiting) > 0 /\ Cardinality(Waiting') = Cardinality(Waiting) - 1
        /\ Cardinality((Issued \cap FsReqs)') = Cardinality(Issued \cap FsReqs) + 1
    BY <1>1, <1>8, SwapCounts
  <2>3. \A q \in q_tree : \A x \in Issued' : q.sec \in SectorsOf(x) => q.d \/ q \in Within(e)
    <3>1. Within(e) = {q \in q_tree : q.sec \in SectorsOf(r)}
      BY DEF Within, SectorsOf
    <3>2. \A x \in Issued' : x \in Issued \/ x = s
      BY DEF Issued
    <3> QED
      BY <1>1, <3>1, <3>2 DEF TreeInv
  <2>4. TreeInv'
    BY <1>1, <1>6, <2>1, <2>3, MarkedTree
  <2>5. QueueInv'
    <3>1. /\ Cardinality(bios) + Cardinality(Waiting) > 0
          /\ Cardinality(bios') + Cardinality(Waiting')
                = (Cardinality(bios) + Cardinality(Waiting)) - 1
      BY <2>2, CardTypes
    <3> QED
      BY <2>1, <3>1, QueueMoves
  <2>6. StatInv'
    BY <1>4, <1>5, <1>8, <2>1, <2>2 DEF StatInv
  <2> QED
    BY <2>4, <2>5, <2>6
<1>9. CASE e.act = "R" /\ next = "requeued" /\ r.state = "issued" /\ nrequeues' = nrequeues + 1
  <2>1. /\ n_qs' = n_qs + 1 /\ n_act_q' = n_act_q + 1
        /\ UNCHANGED <<q_tree, pre_culling, n_ds, na, cur_qusz, cur_dev, rqm>>
    BY <1>3, <1>9, BttTraces DEF TraceRequeue
  <2>2. Cardinality(Waiting') = Cardinality(Waiting) + 1
    BY <1>1, <1>9, SwapCounts
  <2>3. \A q \in q_tree : \A x \in Issued' : q.sec \in SectorsOf(x) => q.d
    <3>1. \A x \in Issued' : x \in Issued
      BY <1>1, <1>9 DEF Issued
    <3> QED
      BY <3>1 DEF TreeInv
  <2>4. TreeInv'
    BY <1>1, <2>1, <2>3, SameTree
  <2>5. QueueInv'
    <3>1. Cardinality(bios') + Cardinality(Waiting') = Cardinality(bios) + Cardinality(Waiting) + 1
      BY <2>2, CardTypes
    <3> QED
      BY <2>1, <3>1, QueueMoves
  <2>6. nrequeues' # 0
    BY <1>9 DEF KernelTypes
  <2>7. StatInv'
    BY <1>5, <2>1, <2>6 DEF StatInv
  <2> QED
    BY <2>4, <2>5, <2>7
<1> QED
  BY <1>7, <1>8, <1>9

\* A request is completed.
LEMMA CompleteBtt ==
    ASSUME KernelTypes, BttTypes, Apart, TreeInv, QueueInv, StatInv, NEW r \in reqs, ~r.pc,
           r.state = "issued", bios' = bios, reqs' = reqs \ {r}, nrequeues' = nrequeues,
           NEW e \in AnyTrace, add_trace(e), ~e.pc, e.act = "C", e.sec = r.sec, e.n = r.n
    PROVE  TreeInv' /\ QueueInv' /\ StatInv'
<1>1. r.sec \in InFlight
  BY InFlightFacts, SectorFacts DEF KernelTypes
<1>2. TraceComplete(e)
  BY <1>1, BttTraces, CullingOver
<1>3. PICK k : k = Cardinality({q \in Within(e) : q.d})
  OBVIOUS
<1>4. /\ na' = (IF na > 0 THEN na - 1 ELSE 0) /\ cur_qusz' = cur_qusz - k /\ cur_dev' = cur_dev - k
      /\ UNCHANGED <<n_qs, n_ds, n_act_q, rqm>>
  BY <1>2, <1>3 DEF TraceComplete
<1>5. TreeInv' /\ (r.n = 1 => k = 1)
  BY <1>2, <1>3, CompleteApart, CompleteTree
<1>6. /\ Waiting' = Waiting
      /\ Cardinality(FsReqs') = Cardinality(FsReqs) - 1
      /\ Cardinality((Issued \cap FsReqs)') = Cardinality(Issued \cap FsReqs) - 1
      /\ Cardinality(Issued \cap FsReqs) > 0
  BY RemoveCounts
<1>7. QueueInv'
  BY <1>4, <1>6, QueueMoves
<1>8. StatInv'
  <2>1. rqm' = 0 => \A x \in reqs' : ~x.pc => x.n = 1
    BY <1>4 DEF StatInv
  <2>2. ASSUME rqm' = 0, nrequeues' = 0
        PROVE  /\ cur_qusz' = Cardinality(FsReqs')
               /\ cur_dev' = Cardinality((Issued \cap FsReqs)') /\ na' = cur_dev'
    <3>1. k = 1
      BY <1>4, <1>5, <2>2 DEF StatInv
    <3>2. /\ cur_qusz = Cardinality(FsReqs) /\ cur_dev = Cardinality(Issued \cap FsReqs)
          /\ na = cur_dev
      BY <1>4, <2>2 DEF StatInv
    <3>3. na' = na - 1
      BY <1>4, <1>6, <3>2
    <3> QED
      BY <1>4, <1>6, <3>1, <3>2, <3>3
  <2> QED
    BY <2>1, <2>2 DEF StatInv
<1> QED
  BY <1>5, <1>7, <1>8

-----------------------------------------------------------------------------
(* Each step, with its trace taken or lost. *)

\* What a step keeps, and what it may count on as long as no trace is lost.
LEMMA Seen ==
    ASSUME IInv, NEW e \in AnyTrace, See(e)
    PROVE  /\ TrackTypes' /\ PendTypes' /\ BttTypes'
           /\ clean' => /\ Follows /\ ~Aliases(e)
                        /\ dump_trace(e) /\ add_trace(e) /\ read_trace_event(e)
                        /\ e.act = "C" => found_completion
<1>1. CASE Taken(e)
  <2>1. dump_trace(e) /\ add_trace(e) /\ read_trace_event(e)
    BY <1>1 DEF Taken
  <2>2. TrackTypes' /\ PendTypes' /\ BttTypes'
    BY <2>1, TrackTypesStep, PendEffect, BttTypesStep DEF IInv, Types
  <2>3. clean' = (clean /\ ~Aliases(e)) /\ (e.act = "C" => found_completion)
    BY <1>1 DEF Taken
  <2> QED
    BY <2>1, <2>2, <2>3 DEF IInv
<1>2. CASE Lost(e)
  <2>1. UNCHANGED <<trackVars, bttVars, pendVars>> /\ clean' = FALSE
    BY <1>2 DEF Lost
  <2> QED
    BY <2>1 DEF IInv, Types, TrackTypes, PendTypes, BttTypes, trackVars, bttVars, pendVars
<1> QED
  BY <1>1, <1>2 DEF See

\* A bio is queued.
LEMMA QueueStep ==
    ASSUME IInv, NEW b \in NewBios, Queue(b), See(BioTrace("Q", b))
    PROVE  IInv'
<1>1. /\ b \in AnyBio /\ b \notin bios /\ bios' = bios \cup {b} /\ reqs' = reqs
      /\ nrequeues' = nrequeues /\ KernelTypes'
  BY QueueKernel DEF IInv, Types
<1>2. PICK e \in AnyTrace : /\ e = BioTrace("Q", b)
                            /\ e.act = "Q" /\ e.sec = b.sec /\ ~e.pc
  BY <1>1, BioTraceFacts DEF IInv, Types
<1>3. /\ TrackTypes' /\ PendTypes' /\ BttTypes'
      /\ clean' => /\ Follows /\ ~Aliases(e)
                   /\ dump_trace(e) /\ add_trace(e) /\ read_trace_event(e)
  BY <1>2, Seen
<1>4. ASSUME clean' PROVE Follows'
  <2>1. /\ KernelTypes /\ TrackTypes /\ PendTypes /\ BttTypes
        /\ Apart /\ TrackInv /\ DepthInv /\ TreeInv /\ QueueInv /\ StatInv
    BY <1>3, <1>4 DEF IInv, Types, Follows
  <2>2. b.sec \notin InFlight
    BY <1>2, <1>3, <1>4 DEF Aliases
  <2>3. /\ Apart' /\ \A s : s \in InFlight' <=> s \in InFlight \/ s = b.sec
    BY <2>1, <2>2, QueueApart
  <2>4. TrackInv'
    BY <1>1, <1>2, <1>3, <1>4, <2>1, TrackKept DEF TrackInv
  <2>5. DepthInv'
    <3>1. DepthKept
      BY <1>2, <1>3, <1>4, <2>1, DepthTraces
    <3>2. Issued' = Issued /\ \A w : IssuedTo(w)' = IssuedTo(w)
      BY <1>1 DEF Issued, IssuedTo
    <3> QED
      BY <2>1, <3>1, <3>2, DepthSame
  <2>6. TreeInv' /\ QueueInv' /\ StatInv'
    BY <1>1, <1>2, <1>3, <1>4, <2>1, <2>2, <2>3, QueueBtt
  <2> QED
    BY <2>3, <2>4, <2>5, <2>6 DEF Follows
<1> QED
  BY <1>1, <1>3, <1>4 DEF IInv, Types

\* A bio gets a request.
LEMMA GetRqStep ==
    ASSUME IInv, NEW b \in bios, GetRq(b), See(BioTrace("G", b))
    PROVE  IInv'
<1>1. b \in AnyBio /\ KernelTypes'
  BY GetRqKernel DEF IInv, Types, KernelTypes
<1>2. PICK e \in AnyTrace : /\ e = BioTrace("G", b)
                            /\ e.act = "G" /\ e.sec = b.sec /\ ~e.pc
  BY <1>1, BioTraceFacts DEF IInv, Types
<1>3. /\ TrackTypes' /\ PendTypes' /\ BttTypes'
      /\ clean' => /\ Follows /\ dump_trace(e) /\ add_trace(e) /\ read_trace_event(e)
  BY <1>2, Seen
<1>4. ASSUME clean' PROVE Follows'
  <2>1. /\ KernelTypes /\ TrackTypes /\ PendTypes /\ BttTypes
        /\ Apart /\ TrackInv /\ DepthInv /\ TreeInv /\ QueueInv /\ StatInv
    BY <1>3, <1>4 DEF IInv, Types, Follows
  <2>2. Apart' /\ \A r \in reqs : r.sec # b.sec
    BY <2>1, GetRqApart
  <2>3. TrackInv'
    BY <1>2, <1>3, <1>4, <2>1, GetRqTrack
  <2>4. DepthInv'
    <3>1. DepthKept
      BY <1>2, <1>3, <1>4, <2>1, DepthTraces
    <3>2. PICK s : /\ s = NewReq(b) /\ s.sec = b.sec /\ s.state = "new" /\ ~s.pc
                   /\ s.pc \in BOOLEAN /\ reqs' = reqs \cup {s}
      BY <2>1, GetRqKernel DEF AnyReq
    <3>3. s \notin reqs
      BY <2>2, <3>2
    <3>4. Issued' = Issued /\ \A w : IssuedTo(w)' = IssuedTo(w)
      BY <2>1, <3>2, <3>3, AddCounts
    <3> QED
      BY <2>1, <3>1, <3>4, DepthSame
  <2>5. TreeInv' /\ QueueInv' /\ StatInv'
    BY <1>2, <1>3, <1>4, <2>1, GetRqBtt
  <2> QED
    BY <2>2, <2>3, <2>4, <2>5 DEF Follows
<1> QED
  BY <1>1, <1>3, <1>4 DEF IInv, Types

\* A bio joins a request.
LEMMA JoinStep ==
    ASSUME IInv, NEW b \in bios, NEW r \in reqs, NEW j, NEW act \in {"M", "F"},
           Joins(b, r, j), See(BioTrace(act, b)),
           j = IF b.sec = r.sec + r.n THEN [r EXCEPT !.n = @ + 1]
               ELSE [r EXCEPT !.sec = @ - 1, !.n = @ + 1],
           b.sec = r.sec + r.n \/ b.sec = r.sec - 1,
           act = "M" => j.sec = r.sec,
           act = "F" => j.sec = b.sec /\ r.sec = b.sec + 1
    PROVE  IInv'
<1>1. b \in AnyBio /\ r \in AnyReq
  BY DEF IInv, Types, KernelTypes
<1>2. /\ JoinedBy(j, r, b) /\ bios' = bios \ {b} /\ reqs' = (reqs \ {r}) \cup {j}
      /\ nrequeues' = nrequeues /\ KernelTypes'
  BY JoinKernel DEF IInv, Types
<1>3. PICK e \in AnyTrace : /\ e = BioTrace(act, b)
                            /\ e.act = act /\ e.sec = b.sec /\ e.n = 1 /\ ~e.pc
  BY <1>1, BioTraceFacts DEF IInv, Types
<1>4. /\ TrackTypes' /\ PendTypes' /\ BttTypes'
      /\ clean' => /\ Follows /\ dump_trace(e) /\ add_trace(e) /\ read_trace_event(e)
  BY <1>3, Seen
<1>5. ASSUME clean' PROVE Follows'
  <2>1. /\ KernelTypes /\ TrackTypes /\ PendTypes /\ BttTypes
        /\ Apart /\ TrackInv /\ DepthInv /\ TreeInv /\ QueueInv /\ StatInv
    BY <1>4, <1>5 DEF IInv, Types, Follows
  <2>2. Apart' /\ \A x \in reqs : x # r => x.sec # j.sec
    BY <1>2, <2>1, JoinApart, ZenonT(30)
  <2>3. TrackInv'
    <3>1. \/ e.act = "M" /\ j.sec = r.sec
          \/ e.act = "F" /\ j.sec = b.sec /\ r.sec = b.sec + 1
      BY <1>3
    <3> QED
      BY <1>2, <1>3, <1>4, <1>5, <2>1, <3>1, JoinTrack
  <2>4. DepthInv'
    <3>1. DepthKept
      BY <1>3, <1>4, <1>5, <2>1, DepthTraces
    <3>2. /\ j \notin reqs \ {r} /\ j.pc = r.pc /\ j.w = r.w
          /\ r.state # "issued" /\ j.state # "issued"
      BY <1>1, <1>2, <2>2 DEF JoinedBy, AnyReq
    <3>3. /\ Cardinality(Issued') = Cardinality(Issued)
          /\ \A w : Cardinality(IssuedTo(w)') = Cardinality(IssuedTo(w))
      BY <1>2, <2>1, <3>2, SwapCounts
    <3>4. \A x \in Issued' : x \in Issued
      BY <1>2, <3>2 DEF Issued
    <3> QED
      BY <2>1, <3>1, <3>3, <3>4, DepthSame
  <2>5. TreeInv' /\ QueueInv' /\ StatInv'
    BY <1>2, <1>3, <1>4, <1>5, <2>1, JoinBtt
  <2> QED
    BY <2>2, <2>3, <2>4, <2>5 DEF Follows
<1> QED
  BY <1>2, <1>4, <1>5 DEF IInv, Types

LEMMA MergeStep ==
    ASSUME IInv, NEW b \in bios, NEW r \in reqs,
           \/ BackMerge(b, r) /\ See(BioTrace("M", b))
           \/ FrontMerge(b, r) /\ See(BioTrace("F", b))
    PROVE  IInv'
<1>1. b.sec \in Nat /\ r \in AnyReq /\ r.sec \in Nat /\ r.n \in Nat
  BY BioFacts DEF IInv, Types, KernelTypes, AnyReq
<1>2. CASE BackMerge(b, r) /\ See(BioTrace("M", b))
  <2>1. PICK j : j = [r EXCEPT !.n = @ + 1]
    OBVIOUS
  <2>2. j.sec = r.sec
    BY <1>1, <2>1 DEF AnyReq
  <2>3. b.sec = r.sec + r.n /\ Joins(b, r, j)
    BY <1>2, <2>1 DEF BackMerge
  <2> QED
    BY <1>2, <2>1, <2>2, <2>3, JoinStep
<1>3. CASE FrontMerge(b, r) /\ See(BioTrace("F", b))
  <2>1. PICK j : j = [r EXCEPT !.sec = @ - 1, !.n = @ + 1]
    OBVIOUS
  <2>2. j.sec = r.sec - 1
    BY <1>1, <2>1 DEF AnyReq
  <2>3. b.sec = r.sec - 1 /\ Joins(b, r, j)
    BY <1>3, <2>1 DEF FrontMerge
  <2>4. b.sec # r.sec + r.n /\ j.sec = b.sec /\ r.sec = b.sec + 1
    BY <1>1, <2>2, <2>3
  <2> QED
    BY <1>3, <2>1, <2>3, <2>4, JoinStep
<1> QED
  BY <1>2, <1>3

\* A packet command is inserted: the only one, unless traces were lost.
LEMMA InsertPcStep ==
    ASSUME IInv, NEW ctx \in Contexts, InsertPc(PcReq(ctx)), See(ReqTrace("I", PcReq(ctx), ctx))
    PROVE  IInv'
<1>1. PICK r : r = PcReq(ctx)
  OBVIOUS
<1>2. /\ r \in AnyReq /\ r.pc /\ r.sec = 0 /\ r.n = 0 /\ r.state = "inserted" /\ r \notin reqs
      /\ bios' = bios /\ reqs' = reqs \cup {r} /\ nrequeues' = nrequeues /\ KernelTypes'
  BY <1>1, InsertPcKernel DEF IInv, Types
<1>3. PICK e \in AnyTrace : e = ReqTrace("I", r, ctx) /\ e.act = "I" /\ e.pc
  BY <1>2, ReqTraceFacts
<1>4. /\ TrackTypes' /\ PendTypes' /\ BttTypes'
      /\ clean' => /\ Follows /\ ~Aliases(e)
                   /\ dump_trace(e) /\ add_trace(e) /\ read_trace_event(e)
  BY <1>1, <1>3, Seen
<1>5. ASSUME clean' PROVE Follows'
  <2>1. /\ KernelTypes /\ TrackTypes /\ PendTypes /\ BttTypes
        /\ Apart /\ TrackInv /\ DepthInv /\ TreeInv /\ QueueInv /\ StatInv
    BY <1>4, <1>5 DEF IInv, Types, Follows
  <2>2. Apart' /\ InFlight' = InFlight
    <3>1. \A x \in reqs : ~x.pc
      BY <1>3, <1>4, <1>5 DEF Aliases
    <3> QED
      BY <1>2, <2>1, <3>1, InsertPcApart
  <2>3. TrackInv'
    <3>1. rb_track' = rb_track
      BY <1>3, <1>4, <1>5, TrackKept
    <3> QED
      BY <1>2, <2>1, <3>1 DEF TrackInv
  <2>4. DepthInv'
    <3>1. DepthKept
      BY <1>3, <1>4, <1>5, <2>1, DepthTraces
    <3>2. Issued' = Issued /\ \A w : IssuedTo(w)' = IssuedTo(w)
      BY <1>2, <2>1, AddCounts
    <3> QED
      BY <2>1, <3>1, <3>2, DepthSame
  <2>5. TreeInv' /\ QueueInv' /\ StatInv'
    <3>1. UNCHANGED bttVars
      BY <1>3, <1>4, <1>5 DEF add_trace
    <3> QED
      BY <1>2, <2>1, <2>2, <3>1, PcBtt
  <2> QED
    BY <2>2, <2>3, <2>4, <2>5 DEF Follows
<1> QED
  BY <1>2, <1>4, <1>5 DEF IInv, Types

\* A request is inserted, issued or requeued.
LEMMA MoveStep ==
    ASSUME IInv, NEW r \in reqs, NEW ctx \in Contexts,
           \/ Insert(r) /\ See(ReqTrace("I", r, ctx))
           \/ Issue(r) /\ See(ReqTrace("D", r, ctx))
           \/ Requeue(r) /\ See(ReqTrace("R", r, ctx))
    PROVE  IInv'
<1>1. /\ KernelTypes /\ r \in AnyReq /\ nrequeues \in Nat
  BY DEF IInv, Types, KernelTypes
<1>2. PICK act \in {"I", "D", "R"}, next \in {"inserted", "issued", "requeued"},
           states \in SUBSET {"new", "inserted", "issued", "requeued"} :
         /\ Moves(r, states, next) /\ See(ReqTrace(act, r, ctx))
         /\ \/ /\ act = "I" /\ next = "inserted" /\ "issued" \notin states
               /\ "inserted" \notin states /\ nrequeues' = nrequeues
            \/ /\ act = "D" /\ next = "issued" /\ "issued" \notin states
               /\ nrequeues' = nrequeues
            \/ /\ act = "R" /\ next = "requeued" /\ states = {"issued"}
               /\ nrequeues' = nrequeues + 1
  <2>1. CASE Insert(r) /\ See(ReqTrace("I", r, ctx))
    BY <2>1 DEF Insert
  <2>2. CASE Issue(r) /\ See(ReqTrace("D", r, ctx))
    BY <2>2 DEF Issue
  <2>3. CASE Requeue(r) /\ See(ReqTrace("R", r, ctx))
    BY <2>3 DEF Requeue
  <2> QED
    BY <2>1, <2>2, <2>3
<1>3. nrequeues' \in Nat /\ (nrequeues' = 0 => nrequeues = 0)
  BY <1>1, <1>2
<1>4. PICK s \in AnyReq :
         /\ MovedTo(s, r, next) /\ r.state \in states
         /\ bios' = bios /\ reqs' = (reqs \ {r}) \cup {s} /\ KernelTypes'
  BY <1>1, <1>2, <1>3, MoveKernel
<1>5. PICK e \in AnyTrace : /\ e = ReqTrace(act, r, ctx) /\ e.act = act /\ e.sec = r.sec
                            /\ e.n = r.n /\ e.w = r.w /\ e.pc = r.pc
  BY <1>1, ReqTraceFacts
<1>6. /\ TrackTypes' /\ PendTypes' /\ BttTypes'
      /\ clean' => /\ Follows /\ dump_trace(e) /\ add_trace(e) /\ read_trace_event(e)
  BY <1>2, <1>5, Seen
<1>7. \/ act = "I" /\ next = "inserted" /\ r.state # "issued" /\ nrequeues' = nrequeues
      \/ act = "D" /\ next = "issued" /\ r.state # "issued" /\ nrequeues' = nrequeues
      \/ act = "R" /\ next = "requeued" /\ r.state = "issued" /\ nrequeues' = nrequeues + 1
  BY <1>2, <1>4
<1>8. ASSUME clean' PROVE Follows'
  <2>1. /\ KernelTypes /\ TrackTypes /\ PendTypes /\ BttTypes
        /\ Apart /\ TrackInv /\ DepthInv /\ TreeInv /\ QueueInv /\ StatInv
    BY <1>6, <1>8 DEF IInv, Types, Follows
  <2>2. Apart' /\ InFlight' = InFlight /\ \A x \in reqs : x # r => x.sec # s.sec
    BY <1>4, <2>1, MoveApart
  <2>3. s \notin reqs \ {r}
    BY <2>2
  <2>4. TrackInv'
    <3>1. \/ e.act = "I" /\ next = "inserted"
          \/ e.act = "D" /\ next = "issued"
          \/ e.act = "R" /\ next = "requeued"
      BY <1>5, <1>7
    <3> QED
      BY <1>4, <1>5, <1>6, <1>8, <2>1, <3>1, MoveTrack
  <2>5. DepthInv'
    <3>1. \/ e.act = "I" /\ next = "inserted" /\ r.state # "issued"
          \/ e.act = "D" /\ next = "issued" /\ r.state # "issued"
          \/ e.act = "R" /\ next = "requeued" /\ r.state = "issued"
      BY <1>5, <1>7
    <3> QED
      BY <1>4, <1>5, <1>6, <1>8, <2>1, <2>3, <3>1, MoveDepth
  <2>6. TreeInv' /\ QueueInv' /\ StatInv'
    <3>1. CASE r.pc
      <4>1. UNCHANGED bttVars
        BY <1>5, <1>6, <1>8, <3>1 DEF add_trace
      <4>2. \A x : ~x.pc => (x \in reqs' <=> x \in reqs)
        BY <1>4, <3>1 DEF MovedTo
      <4> QED
        BY <1>3, <1>4, <2>1, <2>2, <4>1, <4>2, PcBtt
    <3>2. CASE ~r.pc
      <4>1. \/ e.act = "I" /\ next = "inserted" /\ r.state # "issued" /\ nrequeues' = nrequeues
            \/ e.act = "D" /\ next = "issued" /\ r.state # "issued" /\ nrequeues' = nrequeues
            \/ e.act = "R" /\ next = "requeued" /\ r.state = "issued" /\ nrequeues' = nrequeues + 1
        BY <1>5, <1>7
      <4> QED
        BY <1>4, <1>5, <1>6, <1>8, <2>1, <2>3, <3>2, <4>1, MoveBtt
    <3> QED
      BY <3>1, <3>2
  <2> QED
    BY <2>2, <2>4, <2>5, <2>6 DEF Follows
<1> QED
  BY <1>4, <1>6, <1>8 DEF IInv, Types

\* A request is completed.
LEMMA CompleteStep ==
    ASSUME IInv, NEW r \in reqs, NEW ctx \in Contexts, Complete(r), See(ReqTrace("C", r, ctx))
    PROVE  IInv'
<1>1. /\ r \in AnyReq /\ r.state = "issued" /\ bios' = bios /\ reqs' = reqs \ {r}
      /\ nrequeues' = nrequeues /\ KernelTypes'
  BY CompleteKernel DEF IInv, Types, KernelTypes
<1>2. PICK e \in AnyTrace : /\ e = ReqTrace("C", r, ctx) /\ e.act = "C" /\ e.sec = r.sec
                            /\ e.n = r.n /\ e.w = r.w /\ e.pc = r.pc
  BY <1>1, ReqTraceFacts
<1>3. /\ TrackTypes' /\ PendTypes' /\ BttTypes'
      /\ clean' => /\ Follows /\ dump_trace(e) /\ add_trace(e) /\ read_trace_event(e)
                   /\ found_completion
  BY <1>2, Seen
<1>4. ASSUME clean' PROVE Follows'
  <2>1. /\ KernelTypes /\ TrackTypes /\ PendTypes /\ BttTypes
        /\ Apart /\ TrackInv /\ DepthInv /\ TreeInv /\ QueueInv /\ StatInv
    BY <1>3, <1>4 DEF IInv, Types, Follows
  <2>2. Apart' /\ \A s : s \in InFlight' <=> s \in InFlight /\ s \notin SectorsOf(r)
    BY <1>1, <2>1, CompleteApart
  <2>3. TrackInv'
    BY <1>1, <1>2, <1>3, <1>4, <2>1, CompleteTrack
  <2>4. DepthInv'
    BY <1>1, <1>2, <1>3, <1>4, <2>1, CompleteDepth
  <2>5. TreeInv' /\ QueueInv' /\ StatInv'
    <3>1. CASE r.pc
      <4>1. UNCHANGED bttVars
        BY <1>2, <1>3, <1>4, <3>1 DEF add_trace
      <4>2. \A x : ~x.pc => (x \in reqs' <=> x \in reqs)
        BY <1>1, <3>1
      <4>3. SectorsOf(r) = {}
        BY <1>1, <2>1, <3>1, SectorFacts DEF KernelTypes
      <4>4. InFlight' = InFlight
        BY <2>2, <4>3
      <4> QED
        BY <1>1, <2>1, <4>1, <4>2, <4>4, PcBtt
    <3>2. CASE ~r.pc
      BY <1>1, <1>2, <1>3, <1>4, <2>1, <3>2, CompleteBtt
    <3> QED
      BY <3>1, <3>2
  <2> QED
    BY <2>2, <2>3, <2>4, <2>5 DEF Follows
<1> QED
  BY <1>1, <1>3, <1>4 DEF IInv, Types

\* A step that leaves alone what the invariant is about: a process is announced, or
\* another feed goes on.
LEMMA Unmoved ==
    ASSUME IInv, UNCHANGED <<kernelVars, rb_track, cur_depth, io_hash, ios_in_flight,
                             found_completion, q_tree, pre_culling, n_qs, n_ds, n_act_q, na,
                             cur_qusz, cur_dev, rqm, clean>>
    PROVE  IInv'
<1>1. /\ UNCHANGED <<bios, reqs, nrequeues, rb_track, cur_depth, io_hash, ios_in_flight>>
      /\ UNCHANGED <<found_completion, q_tree, pre_culling, n_qs, n_ds, n_act_q, na>>
      /\ UNCHANGED <<cur_qusz, cur_dev, rqm, clean>>
  BY DEF kernelVars
<1>2. Types'
  BY <1>1 DEF IInv, Types, KernelTypes, TrackTypes, PendTypes, BttTypes
<1>3. ASSUME clean' PROVE Follows'
  <2>1. Follows
    BY <1>1, <1>3 DEF IInv
  <2>2. /\ InFlight' = InFlight /\ FsReqs' = FsReqs /\ Issued' = Issued /\ Waiting' = Waiting
        /\ \A w : IssuedTo(w)' = IssuedTo(w)
        /\ \A s : Hashed(s)' = Hashed(s) /\ FindSec(s)' = FindSec(s)
    BY <1>1 DEF InFlight, Pending, SectorsOf, FsReqs, Issued, Waiting, IssuedTo, Hashed, FindSec
  <2>3. Apart' /\ TrackInv'
    BY <1>1, <2>1 DEF Follows, Apart, TrackInv, SectorsOf
  <2>4. DepthInv'
    BY <1>1, <2>1, <2>2 DEF Follows, DepthInv
  <2>5. TreeInv' /\ QueueInv' /\ StatInv'
    BY <1>1, <2>1, <2>2 DEF Follows, TreeInv, QueueInv, StatInv, SectorsOf
  <2> QED
    BY <2>3, <2>4, <2>5 DEF Follows
<1> QED
  BY <1>2, <1>3 DEF IInv

\* What the block layer does.
LEMMA KernelStep ==
    ASSUME IInv, KernelTraced
    PROVE  IInv'
<1>1. CASE \E b \in NewBios : Queue(b) /\ See(BioTrace("Q", b))
  BY <1>1, QueueStep
<1>2. CASE \E b \in bios : GetRq(b) /\ See(BioTrace("G", b))
  BY <1>2, GetRqStep
<1>3. CASE \E b \in bios, r \in reqs : \/ BackMerge(b, r) /\ See(BioTrace("M", b))
                                       \/ FrontMerge(b, r) /\ See(BioTrace("F", b))
  BY <1>3, MergeStep
<1>4. CASE \E ctx \in Contexts :
              InsertPc(PcReq(ctx)) /\ See(ReqTrace("I", PcReq(ctx), ctx))
  BY <1>4, InsertPcStep
<1>5. CASE \E r \in reqs, ctx \in Contexts : \/ Insert(r) /\ See(ReqTrace("I", r, ctx))
                                             \/ Issue(r) /\ See(ReqTrace("D", r, ctx))
                                             \/ Requeue(r) /\ See(ReqTrace("R", r, ctx))
  BY <1>5, MoveStep
<1>6. CASE \E r \in reqs, ctx \in Contexts : Complete(r) /\ See(ReqTrace("C", r, ctx))
  BY <1>6, CompleteStep
<1> QED
  BY <1>1, <1>2, <1>3, <1>4, <1>5, <1>6 DEF KernelTraced

\* Nothing is in flight when the tools start.
LEMMA InitStep ==
    ASSUME Init
    PROVE  IInv
<1>1. /\ bios = {} /\ reqs = {} /\ nrequeues = 0 /\ rb_track = {}
      /\ cur_depth = [w \in Dirs |-> 0] /\ ios_in_flight = 0
      /\ q_tree = {} /\ n_qs = 0 /\ n_ds = 0 /\ n_act_q = 0 /\ na = 0
      /\ cur_qusz = 0 /\ cur_dev = 0 /\ rqm = 0
  BY DEF Init, KernelInit, TrackInit, PendInit, BttInit
<1>2. IsFiniteSet({}) /\ Cardinality({}) = 0
  BY FS_EmptySet
<1>3. Types
  BY <1>1, <1>2 DEF Types, KernelTypes, TrackTypes, PendTypes, BttTypes
<1>4. /\ InFlight = {} /\ FsReqs = {} /\ Issued = {} /\ Waiting = {} /\ Issued \cap FsReqs = {}
      /\ \A w : IssuedTo(w) = {}
  BY <1>1 DEF InFlight, Pending, FsReqs, Issued, Waiting, IssuedTo
<1>5. Apart /\ TrackInv
  BY <1>1 DEF Apart, TrackInv
<1>6. DepthInv /\ TreeInv
  BY <1>1, <1>2, <1>4 DEF DepthInv, TreeInv
<1>7. QueueInv /\ StatInv
  BY <1>1, <1>2, <1>4 DEF QueueInv, StatInv
<1> QED
  BY <1>3, <1>5, <1>6, <1>7 DEF IInv, Follows

\* What every step of the three tools keeps, whatever else is read.
THEOREM KernelInvariant == Spec => []IInv
<1>1. Init => IInv
  BY InitStep
<1>2. IInv /\ [Next]_vars => IInv'
  <2> SUFFICES ASSUME IInv, [Next]_vars
               PROVE  IInv'
    OBVIOUS
  <2>1. CASE KernelTraced
    BY <2>1, KernelStep
  <2>2. CASE \E p \in Pids : Announce(p)
    <3>1. PICK p \in Pids : Announce(p)
      BY <2>2
    <3> QED
      BY <3>1, Unmoved DEF Announce, TrackProcess, BttProcess, PendProcess
  <2>3. CASE UNCHANGED toolVars
    BY <2>3, Unmoved DEF toolVars, trackVars, bttVars, pendVars
  <2> QED
    BY <2>1, <2>2, <2>3 DEF Next, vars
<1> QED
  BY <1>1, <1>2, PTL DEF Spec

\* As long as no trace is lost and no two IOs share a sector, what blkparse -t tracks
\* is the requests there are, each under the sector it begins at now, with the times
\* that were traced.
THEOREM TrackedAreRequests == Spec => []TracksRequests
<1>1. IInv => TracksRequests
  <2> SUFFICES ASSUME IInv, clean
               PROVE  /\ {t.sec : t \in rb_track} = {r.sec : r \in FsReqs}
                      /\ \A r \in FsReqs : \A t \in Track(r.sec) :
                            /\ t.alloc
                            /\ r.state = "inserted" => t.queue
                            /\ r.state = "issued" => t.dispatch
    BY DEF TracksRequests
  <2>1. TrackInv
    BY DEF IInv, Follows
  <2>2. \A x : x \in {t.sec : t \in rb_track} <=> x \in {r.sec : r \in FsReqs}
    BY <2>1 DEF TrackInv, FsReqs
  <2> QED
    BY <2>1, <2>2 DEF TrackInv, FsReqs, Track
<1> QED
  BY <1>1, KernelInvariant, PTL

\* The depths that blkparse and iowatcher keep are the number of requests in the
\* driver, and whatever is lost none of them, nor btt's, goes below zero.
THEOREM DepthsAreIssued == Spec => []DepthsAgree
<1>1. IInv => DepthsAgree
  <2> SUFFICES ASSUME IInv
               PROVE  DepthsAgree
    OBVIOUS
  <2>1. /\ \A w \in Dirs : cur_depth[w] \in Nat
        /\ ios_in_flight \in Nat /\ n_act_q \in Nat /\ na \in Nat
    BY DEF IInv, Types, TrackTypes, PendTypes, BttTypes
  <2>2. clean => /\ \A w \in Dirs : cur_depth[w] = Cardinality(IssuedTo(w))
                 /\ ios_in_flight = Cardinality(Issued)
    BY DEF IInv, Follows, DepthInv
  <2> QED
    BY <2>1, <2>2 DEF DepthsAgree, IssuedTo
<1> QED
  BY <1>1, KernelInvariant, PTL

\* The Qs btt holds are the bios in flight, those in the driver with their issue time,
\* and its counters are what waits; without merges and requeues so is its iostat.
THEOREM BttIsRight == Spec => []BttFollowsBios
<1>1. IInv => BttFollowsBios
  <2> SUFFICES ASSUME IInv, clean
               PROVE  BttFollowsBios
    BY DEF BttFollowsBios
  <2>1. KernelTypes /\ TreeInv /\ QueueInv /\ StatInv
    BY DEF IInv, Types, Follows
  <2>2. 0 \notin InFlight
    <3>1. \A b \in bios : b.sec # 0
      BY <2>1, BioFacts DEF KernelTypes
    <3>2. ASSUME NEW r \in reqs, 0 \in SectorsOf(r) PROVE FALSE
      <4>1. r \in AnyReq /\ r.sec <= 0 /\ 0 < r.sec + r.n
        BY <2>1, <3>2, SectorFacts DEF KernelTypes
      <4>2. (r.pc => r.sec = 0 /\ r.n = 0) /\ (~r.pc => r.sec > 0) /\ r.sec \in Nat
        BY <2>1, <4>1 DEF KernelTypes, AnyReq
      <4> QED
        BY <4>1, <4>2
    <3> QED
      BY <3>1, <3>2, InFlightFacts
  <2>3. \A x : x \in {q.sec : q \in q_tree} <=> x \in InFlight \ {0}
    BY <2>1, <2>2 DEF TreeInv, FindSec
  <2>4. {q.sec : q \in q_tree} = InFlight \ {0}
    BY <2>3
  <2> QED
    BY <2>1, <2>4 DEF BttFollowsBios, TreeInv, QueueInv, StatInv, Waiting
<1> QED
  BY <1>1, KernelInvariant, PTL

-----------------------------------------------------------------------------
(* The parts within the whole. *)

\* Whatever is fed to the tools, btt's window and iowatcher's tracers take only steps of
\* their own.
THEOREM PartsGoOn == Spec => InputSpec /\ WatchSpec
<1>1. Init => InputInit /\ WatchInit
  BY DEF Init
<1>2. [Next]_vars => [InputNext]_inputVars /\ [WatchNext]_tracingVars
  <2> SUFFICES ASSUME [Next]_vars
               PROVE  [InputNext]_inputVars /\ [WatchNext]_tracingVars
    OBVIOUS
  <2>1. CASE UNCHANGED vars
    BY <2>1 DEF vars
  <2>2. CASE Next
    BY <2>2 DEF Next
  <2> QED
    BY <2>1, <2>2
<1> QED
  BY <1>1, <1>2, PTL DEF Spec, InputSpec, WatchSpec

\* So what is proved of the parts holds when the tools are run on any of the feeds.
THEOREM PartsAreRight == Spec => []ReadsEveryTrace /\ []TracesAreComplete
BY PartsGoOn, InputIsRead, CompleteTraces, PTL

=============================================================================
