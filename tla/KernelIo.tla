------------------------------ MODULE KernelIo ------------------------------
(***************************************************************************)
(* The block layer as the tools see it: the traces it may produce.  A bio  *)
(* is queued (Q), then gets a request of its own (G) or is merged into one *)
(* at its back (M) or front (F); a request is inserted (I) unless it is    *)
(* issued at once, issued (D), possibly requeued (R), and completed (C).   *)
(* A packet command (pc) has no bio and no sectors.  No source of it is in *)
(* the repository: it is what the tools' handlers expect.                  *)
(***************************************************************************)
EXTENDS Integers, FiniteSets, FiniteSetsExt

CONSTANTS
    Pids, Cpus,
    Comm,            \* the command name of each process
    Contexts,        \* where traces are taken: a process, a CPU, and the
                     \* direction of the IO the process does
    NSectors,        \* sectors are 1 .. NSectors, a bio is one sector
    MaxBios,         \* bound: bios
    MaxOdd           \* bound: packet commands, requeues, lost traces, aliases

Sectors == 1 .. NSectors
Dirs    == {0, 1}                 \* BLK_TC_WRITE

ASSUME SectorsAssumption == NSectors \in Nat
ASSUME ContextsAssumption == Contexts \subseteq Pids \X Cpus \X Dirs

VARIABLES
    bios,            \* bios queued that have no request: [sec, w, ctx]
    reqs,            \* requests: [sec, n, w, pc, state]; a pc's sector is 0
    nbios, npc, nrequeues   \* how many there were

kernelVars == <<bios, reqs, nbios, npc, nrequeues>>

KernelInit == bios = {} /\ reqs = {} /\ nbios = 0 /\ npc = 0 /\ nrequeues = 0

SectorsOf(r) == r.sec .. r.sec + r.n - 1
Pending      == {b.sec : b \in bios}
InFlight     == Pending \cup UNION {SectorsOf(r) : r \in reqs}
FsReqs       == {r \in reqs : ~r.pc}
Issued       == {r \in reqs : r.state = "issued"}

\* The trace taken of the sectors sec .. sec + n - 1 in the context ctx.
Trace(act, sec, n, w, pc, ctx) ==
    [act |-> act, sec |-> sec, n |-> n, w |-> w, pc |-> pc, pid |-> ctx[1], cpu |-> ctx[2]]
BioTrace(act, b) == Trace(act, b.sec, 1, b.w, FALSE, b.ctx)
ReqTrace(act, r, ctx) == Trace(act, r.sec, r.n, r.w, r.pc, ctx)

\* A process submits one bio at a time.
NewBios == {[sec |-> s, w |-> ctx[3], ctx |-> ctx] :
                s \in Sectors, ctx \in Contexts \ {b.ctx : b \in bios}}

Queue(b) ==
    /\ nbios < MaxBios
    /\ nbios' = nbios + 1
    /\ bios' = bios \cup {b}
    /\ UNCHANGED <<reqs, npc, nrequeues>>

GetRq(b) ==
    /\ bios' = bios \ {b}
    /\ reqs' = reqs \cup {[sec |-> b.sec, n |-> 1, w |-> b.w, pc |-> FALSE, state |-> "new"]}
    /\ UNCHANGED <<nbios, npc, nrequeues>>

\* A bio joins a request that is not issued, at its back or at its front.
Joins(b, r, joined) ==
    /\ r.state \in {"new", "inserted"} /\ ~r.pc /\ r.w = b.w
    /\ bios' = bios \ {b}
    /\ reqs' = (reqs \ {r}) \cup {joined}
    /\ UNCHANGED <<nbios, npc, nrequeues>>

BackMerge(b, r)  == b.sec = r.sec + r.n /\ Joins(b, r, [r EXCEPT !.n = @ + 1])
FrontMerge(b, r) == b.sec = r.sec - 1 /\ Joins(b, r, [r EXCEPT !.sec = @ - 1, !.n = @ + 1])

\* A packet command has no bio: it is inserted as it comes.
PcReq(ctx) == [sec |-> 0, n |-> 0, w |-> ctx[3], pc |-> TRUE, state |-> "inserted"]

InsertPc(r) ==
    /\ r \notin reqs
    /\ npc + nrequeues < MaxOdd
    /\ npc' = npc + 1
    /\ reqs' = reqs \cup {r}
    /\ UNCHANGED <<bios, nbios, nrequeues>>

\* The rest of a request's life.
Moves(r, states, next) ==
    /\ r.state \in states
    /\ reqs' = (reqs \ {r}) \cup (IF next = "gone" THEN {} ELSE {[r EXCEPT !.state = next]})
    /\ UNCHANGED <<bios, nbios, npc>>

Insert(r)   == Moves(r, {"new", "requeued"}, "inserted") /\ UNCHANGED nrequeues
Issue(r)    == Moves(r, {"new", "inserted", "requeued"}, "issued") /\ UNCHANGED nrequeues
Complete(r) == Moves(r, {"issued"}, "gone") /\ UNCHANGED nrequeues
Requeue(r)  ==
    /\ npc + nrequeues < MaxOdd
    /\ nrequeues' = nrequeues + 1
    /\ Moves(r, {"issued"}, "requeued")

=============================================================================
