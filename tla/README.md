# A formal model of blktrace

This directory holds TLA+ models of the programs in this repository: the
tracer `blktrace`, the parsers `blkparse`, `blkiomon` and `btt`, the replay
tools `btrecord` and `btreplay`, the verifiers, and the plotter `iowatcher`. The
models are written from the C sources. TLC checks them on small instances; TLAPS
proves the most important results for every value of the parameters.

`PROJECT.json` lists, for each definition, the source lines it stands for, the
runs, a mutant for every checked property (a plausible bug in the code that the
property catches), the hazards that the properties aim at, and the theorems.

Contents: [1 Inventory](#1-inventory), [2 Plan](#2-plan),
[3 Modules](#3-modules), [4 Runs](#4-runs), [5 Findings](#5-findings),
[6 Proofs](#6-proofs), [7 What is left out](#7-what-is-left-out).

To check a run: `tlc -config <run>.cfg <module>.tla`; the module is the one of
the first column in 4.1. To check the proofs: `tlapm <module>_proofs.tla`.

## 1 Inventory

### 1.1 blktrace (`blktrace.c`)

One main thread, one *tracer* thread per CPU, a signal handler that runs on the
main thread, the kernel (a relay channel per device and CPU), and, with `-h` and
`-l`, a server process on another machine.

| Part | State | Operations |
|---|---|---|
| Control of the tracers | the list `tracers`, `is_done` of each, `tracers_run`, `nthreads_running/error/leaving` and the condition variable `mt_cond` under `mt_mutex`, `done` | `run_tracers`, `start_tracers`, `wait_tracers_ready`, `unblock_tracers`, `stop_tracers`, `wait_tracers`, `handle_sigint`, `exit_tracing`; `thread_main`, `tracer_signal_ready`, `tracer_wait_unblock`, `close_ios` |
| Trace buffers (pipe, socket) | a list of `trace_buf` per (device, CPU) under a mutex each, `dp_entries` and `dp_cond` under `dp_mutex`, `hd->prev` (the unfinished rest of the last buffer), `cl_fds[]` | `handle_pfds_entries`, `add_trace_buf`, `incr_entries`; `wait_empty_entries`, `__process_trace_bufs`, `handle_list_file`, `handle_list_net`, `tb_combine`, `decr_entries`, `clean_trace_bufs` |
| Output files | `struct mmap_info` of each file: size, extended size, window, offset in it | `iop_open`, `setup_mmap`, `handle_pfds_file`, `close_iop` |
| Network protocol | client: sockets, headers; server: `cl_host` with its connections and devices, `cl_opens`, `pfds` | `net_send_open/close`, `net_send_drops`, `net_get_header`, `net_client_data`, `net_client_read_data`, `net_add_connection`, `net_server_handle_connections`, `net_ch_remove`, ... |
| Arguments, devices, limits, statistics | option variables, the list of devices | sequential set-up and reports |

*Interactions.* A tracer polls the relay files of its CPU. In file mode it reads
into a mapped window of the output file; in pipe mode, or on a socket without
`sendfile`, it reads into a new buffer and appends it to a list that the main
thread takes off, writes or sends. All control between main and the tracers
goes through `mt_cond`, except `is_done` and `tracers_run`, which are plain
words that `stop_tracers` writes without the mutex, in the signal handler too.

*Hard.* The order of the end of a run: stop the trace, tell the tracers, let
them drain what the kernel still holds, join them, empty the lists. Signals
during start-up. One tracer failing to start. Buffers counted after they are
queued. Events cut by the end of a read. Writes and sends that fail. Windows
whose page offset is carried from one to the next. On the server: clients that
vanish, and connections that come while others close.

*What makes it correct.* Nothing the kernel recorded is lost, doubled or
reordered on its way to the output, as long as what writes it does not fail;
nobody's files are closed under it; the trace starts only when every CPU has a
tracer; an interrupt ends the run.

### 1.2 blkparse (`blkparse.c`, `blkparse_fmt.c`)

Sequential, on streams that are not.

| Part | State | Operations |
|---|---|---|
| Sequence check | per CPU the number last shown (`last_sequence`) and a list of *skips*, ranges of numbers not seen yet | `check_sequence`, `insert_skip`, `remove_sip`, `check_current_skips`, `collect_pdi_skips` |
| Live input | a list of traces read (`trace_list`), a red-black tree of traces to show (`rb_sort_root`), the last ones shown per CPU | `do_fifo`, `read_events`, `find_genesis`, `sort_entries`, `show_entries_rb` |
| Files | a stream per file, the list `ms_head` of streams sorted by the time of their first trace | `setup_file`, `ms_prime`, `ms_sort`, `ms_resort`, `ms_deq`, `handle` |
| Requests and accounts | `rb_track`, the requests in flight; depths; totals per CPU and per process; processes by pid and by name | `log_track_*`, `account_*`, `dump_trace`, `find_ppi`, `handle_notify` |

*Hard:* a trace that is late must be waited for, one that is lost must not be
waited for for ever; a skip is split or shrunk by a trace inside it; merged
streams run empty and are refilled; requests that are requeued or merged
complete under another sector; processes are named after they were first seen.
*Correct:* traces are shown once each, in time order, what is reported lost was
lost, and the accounts are of the requests that exist.

### 1.3 blkiomon, blkrawverify, verify_blkparse

`blkiomon.c` matches issue and completion of an IO in a table (`struct trace`)
and sums them up per device (`struct dstat`) in a pair of trees that a second
thread swaps at each interval and prints without the lock. *Hard:* the swap
against a gatherer at work, matching at equal sectors, divisions by a duration
of 0. `blkrawverify.c` reads the files of a device and compares every trace with
the last good one; `verify_blkparse.c` compares the times of neighbouring lines
of blkparse's output.

### 1.4 btrecord and btreplay (`btreplay/`)

`btrecord` groups queue events into *bunches* by time and number. `btreplay`
replays them: per input file a *sub* thread submits IOs with `io_submit` and a
*rec* thread reaps them.

| Part | State | Operations |
|---|---|---|
| AIO of one file | IOCBs on `free_iocbs` and `used_iocbs`, `naios_free`, `naios_out`, `send_wait`, `reap_wait`, `send_done`, `reap_done`; one mutex and one condition variable | `process_bunch`, `nfree_current`, `iocbs_map`, `replay_sub`; `reap_wait_aios`, `reclaim_ios`, `replay_rec` |
| Iterations | `iter_start` and the counters of threads ready, of iterations, replays and reclaims done; each with its mutex and condition | `__set_cv`, `__wait_cv`, `wait_iter_start`, `start_iter`, `main` |

*Hard.* `io_submit` runs outside the mutex and is counted afterwards, so an IO
may be reaped before it was counted. Two threads wait on one condition variable
that is signalled, not broadcast. The start of an iteration is a number of
anonymous tokens. `send_done` and `signal_done` are plain words. The header of a
replay file is written before its last bunch, and btreplay goes by the header.
*Correct:* no IOCB is lost or used twice, the assertions in the code hold, no
thread waits for what will not come, each file is replayed as often as asked, and
what is replayed is what was recorded.

### 1.5 btt (`btt/`)

Sequential, one trace at a time. `mmap.c` gives it the dump through a window;
`trace.c` and the `trace_*.c` handlers follow each IO from queue to completion in
a tree of Qs per device (`dip_rb.c`), and feed what measures them: `iostat.c`
(intervals and totals), `aqd.c` (active requests), `p_live.c` (times a device is
live), `rstats.c` (rates), `seek.c`, `plat.c` (latencies per period), averages.
`proc.c` joins the pids of one name. *Hard:* two IOs at one sector, events whose
predecessor was never seen, counters that go below zero, IOs that cross the border
of an interval. *Correct:* the tree is the IOs in flight, the counters follow
from it, and what is measured twice comes out the same.

### 1.6 iowatcher (`iowatcher/`)

`main.c` starts blktrace and mpstat (`tracers.c`), whose end is waited for in
`main` and in the handler of two signals; then `blkparse.c` passes over the dump
several times (its length, its devices' places on the axis, outliers, the
events), keeps a table of pending IOs and fills the graphs of `plot.c`. *Hard:*
handlers that interrupt the wait that they do themselves; events that one pass
did not prepare for. *Correct:* complete traces are plotted, whole.

### 1.7 Containers and scripts

`rbtree.c` is the tree of blkparse, blkiomon and btt. `jhash.h` and the `list.h`
files are generic; the models use sets, sequences and functions in their place.
`btrace` and the plotting scripts have no state.

## 2 Plan

In order, the most important behaviour first:

1. **blktrace on one machine** - `TracerControl`, `TraceBufs` with its abstract
   specification `TraceStream`, `MmapOutput`. *Done, all proved.*
2. **btreplay** - `ReplayAio`, `ReplayBarrier`. *Done, both proved.*
3. **blktrace over the network** - `NetServer`. *Done and proved*, but for a
   message cut in the middle, and the window of `MmapOutput` with the client's
   lengths.
4. **blkparse** - `BlkparseInput`, `LiveParse`, `MsMerge`, `IoTrack`; with
   `RawVerify` and `RbTree`. *Done*; `LiveParse`, `MsMerge` and `RawVerify` proved.
5. **blkiomon** - `BlkIoMon`. *Done and proved.*
6. **btt** - `BttIo`, `BttStats`, `MmapInput`. *Done*, but for remaps and plugs.
7. **btrecord** - `BtRecord`, with btreplay's reader in `RecordReplay`. *Done and
   proved.*
8. **iowatcher** - `PendingIo`, `IoWatch`, `Mpstat`, `WatchTracers`. *Done*, but for
   fio data.

Theorems done: every invariant and action property of `TracerControl`,
`TraceBufs` (with its refinement of `TraceStream`), `MmapOutput`, `NetServer`,
`ReplayAio`, `ReplayBarrier`, `RecordReplay`, `MmapInput`, `WatchTracers`,
`BlkIoMon` and `Blkparse` (`LiveParse`, `MsMerge`, `RawVerify`), and
`TracksRequests`, `DepthsAgree` and `BttFollowsBios` of the tools on the block
layer's traces. Still worth proving: `AccountsAgree`, once its sums are cardinalities.

## 3 Modules

Each module opens with what it models and which steps are atomic. The state of
the code is named as in the code. A critical section under a mutex is one step
unless something in it waits; code outside a mutex is cut wherever another
actor can see the difference. A definition `X_Something` before `X` is a
mutant of `X`: what `X` would be with a plausible bug; no specification uses it.

### 3.1 `TracerControl`

The life of a client run, in `run_tracers`' order: `SetUp`, `CreateThread` and
`ListTracer` (a thread runs before it is on the list), `CreateEnds`,
`WaitTracersReady`, then either `UnblockTracers` and `StartButs` or `GiveUp`,
then `ProcessTraceBufs`, `WaitTracersLeaving`, `JoinTracers`, `ExitTracing`. A
tracer goes through `TracerReady`, `TracerCheck`/`TracerBlock`, `TracerLoop`,
`TracerPoll`, `TracerDrain`, `TracerLeave`. `stop_tracers` is four kinds of
steps (`StopIoctl`, `StopTell` per tracer, `StopTold`, `StopBroadcast`) because
it holds no lock and runs in the main thread or in the handler (`HandleSigint`).
While the handler runs, the main thread's own code does not, which `MainRuns`
states. `mt_mutex` is modelled by its owner, since the one place where it is
held across a step matters: between a tracer's test of `is_done` and
`tracers_run` and its `pthread_cond_wait`. The two waits of the main thread
have a timer (`WaitTimesOut`); the tracers' wait has none.

A unit of `avail` is a sub-buffer the kernel filled and nobody has read.
Spurious wake-ups are left out; every wait is a loop that would test again.

### 3.2 `TraceBufs` and `TraceStream`

`TraceStream` says what blktrace promises of each (device, CPU) pair: events
come out whole, in order, none twice and none skipped, all of them when the run
is over - unless the connection that carries them has failed (`Break`) or a write of
the stream has (`Cut`): what came out by then stays, and nothing is promised of what
still comes. The other streams are delivered all the same. `TraceBufs` is the code: tracers read up to `BufUnits` units at a
time, wherever that cuts an event, queue the buffer under the pair's mutex
(`ReadDevice`) and count their buffers only at the end of the pass (`EndRead`,
`IncrEntries`); the main thread waits (`WaitEmptyEntries`), takes each list
(`TakeList`), handles its buffers one by one (`HandleFile` for a pipe,
`HandleNet` for a socket), uncounts them at the end of the pass (`DecrEntries`),
and after an interrupt joins (`JoinTracers`) and cleans up (`CleanTraceBufs`). A
buffer is the sequence of the stream offsets of its units, so a lost, doubled or
moved unit is visible. Both kinds of output are in one run; `piped` is chosen
first.

`write_data` may fail at any buffer, with any part of it written. blktrace goes on
(SIGPIPE is ignored, and the caller of `write_data` only frees the buffer): the
unfinished event behind the written part is gone, and the next buffer begins in the
middle of it. `handle_list_file` then takes its first bytes for a header, so
`WholeTraces` lets it stop anywhere. `lost` keeps the units that went with a failed
write (section 5); `NothingLostOrReordered` says that all others are in their places.

The refinement maps `recorded` to what the kernel recorded, `delivered` to how
far whole events reach in the output without a gap, `broken` to a closed socket or a
failed write, `closed` to the main thread's end.

### 3.3 `MmapOutput`

One output file in file mode, in bytes. `KeepWindow` and `NewWindow` are the two
branches of `setup_mmap`, `Read` the read of `handle_pfds_file`, `CloseIop` the
truncation at the end. A failing `ftruncate` or `mmap` leaves the window without
memory; the caller goes on to read, which then fails, since `setup_mmap` never
returns a negative value.

`WindowAssumption` is what the parameters must satisfy: a window must still take
a read after it has lost a page's worth at its start, which `setup_mmap`
subtracts twice (from the start, where the data ends, and from the length). It
holds for 4 KiB pages with every buffer size the options accept, and with the
default buffer size for any page size; with the smallest buffers (1 KiB) on a
machine with 64 KiB pages it does not, and `fs_buf_len` would go below zero.

### 3.4 `ReplayAio`

The sub thread (`NextBunch`, `BunchLoop`, `NfreeCurrent`, `IocbsMap`,
`IoSubmit`, `CountSubmitted`, `SubEnds`), the rec thread (`RecTest`, `RecWait`,
`Fetch`, `Reclaim`, `RecEnds`), the kernel (`Complete`), and a signal. The lists
of IOCBs are their lengths. `IoSubmit` and `CountSubmitted` are two steps since
the code calls `io_submit` without the mutex. The wait in `nfree_current` and
the one in `reap_wait_aios` are on one condition variable: `waiting` is the set
of threads blocked on it, `CondSignal` wakes one of them. The Makefile of
btreplay defines `NDEBUG`, so the assertions of the code are not steps of the
model but properties of it. A signal that finds the sub thread in `nfree_current`
makes it return 0, and `IocbsMap` is entered with `ntodo = 0`, against
`assert(0 < ntodo && ntodo <= naios)` in `process_bunch` and `iocbs_map` (section 5).
`AssertionsHold` is the other assertions, and this one as far as it is true: there is
something to map unless a signal came. In the build without assertions nothing is mapped
and submitted then.

### 3.5 `ReplayBarrier`

`main` of btreplay and the two threads of each file, at the level of iterations:
`Ready`, `Loop`, `TakeToken`, `PlayEnds`, `ReplayDone`, `RecDone` of a file;
`ReplaysReady`, `StartIter`, `ItersDone`, `ReplaysDone`, `ReclaimsDone`,
`RemInputFiles` of main. Only main waits on the four counters, and in a loop, so
its waits are guards. A fast thread may take a second token of the same iteration
before a slow one has taken its first: the model allows it as the code does, and
`TokenAccount` and `ReplayEnds` show that the sums still come out right. What the
threads do within an iteration is `ReplayAio`; that an iteration ends (`SubFinishes`
there) is assumed here as fairness of `PlayEnds`. That a rec thread ends is not
assumed, since it need not (`ReplayAio_hang`): `RecDone` has no fairness, and
`ReplayEnds` says what holds without it. Unless a signal comes all iterations are
played; from then on main gets as far as waiting for the rec threads, with or without
a signal; and it ends if they do.

### 3.6 `NetServer`, `MCNetServer`

Client runs and the server. A connection is made (`Connect`), its tracer opens
its devices one after the other, each with a wait for the acknowledgement
(`SendOpen`, `RecvAck`), is unblocked with the others of its run (`Unblocked`),
sends (`SendData`), and after an interrupt its devices are closed (`SendEnds`,
`SendClose`) and the connection is (`Disconnect`). A wait also ends when the server
has closed the connection (`RecvReset`) or when `done` is set before `recv`
blocks (`RecvGivenUp`): `net_send_close` clears and sets that one variable around
its wait ("XXX: Need to clear/set done around call"), in several threads with
`sendfile`. The acknowledgement given up is found by the next wait, so
acknowledgements are counted and not matched. A run may die at any time
(`Crash`).

The server's one thread accepts (`AddConnection`) and serves one message per
connection that poll reports (`OpenDevice`, `ReadData`, `CloseDevice`).
`conn_list`, `cl_opens` and `devpaths` are the lists and the counter of
`struct net_server_s` and `struct cl_host`; `opened`, `sent` and `stored` are
kept for the properties only. The header's fields, byte order and the files'
windows are left out, and a message arrives whole.

With `sendfile` (the runs in `Sendfile`) a tracer has a connection per device and
makes each when it comes to it: `Earlier` gives those it makes before one. Without it
there is one per CPU for all devices (`DevsOf`), made before the tracers start, and the
main thread closes them one after the other; the model lets the tracers do it side by
side, as with `sendfile`, which includes that order.

A tracer may fail before any of its opens (`StartFails`: the thread, its CPU, the
trace's file; `ConnectFails`: the connection, after which `open_ios` closes what it
opened). Then the run is never unblocked. With `sendfile` the tracers that are ready
close what they have (`StopTracers`), the process exits, and what nobody closed goes
with it (`RunExits`). Without `sendfile` the main thread waits for an interrupt and then
closes every device on every connection, opened or not. The server counts each such
close down, so `cl_opens` may fall below what is open, or below 0, and the next close
of another run of the host takes everything. `KnownBeforeCloses` states what a comment
in `open_ios` promises and is violated by this (section 5). A host where a run without
`sendfile` failed to start is `Spoilt`, and `OpenDevicesStay` and `OpenedIsStored` say
nothing of it; a run with `sendfile` that fails to start spoils nothing.

`MCNetServer` gives the instances, and puts `MmapOutput` beside it as an alternative that
the initial state chooses: the server writes such files, too.

### 3.7 Readers of traces: `Blkparse`

`Blkparse` composes three readers, `LiveParse`, `MsMerge` and `RawVerify`; the
initial state says which of them runs (`reader`), as the programs' arguments do.
`BlkparseInput` holds what blkparse's two ways of reading share: the options, the
time base in 64 bits (here modulo `TimeMod`) and the skip lists, as lists of ranges
as in the code.

* **`LiveParse`** - the pipe. `ReadEvent` takes in a trace (of either CPU, its
  number possibly after a gap, its time any), `EndBatch` ends `read_events`,
  `SortEntries` is `find_genesis` and `sort_entries`, `ShowLive` one round of
  `show_entries_rb` with its `check_sequence`, `EndShow` the end of the rounds,
  `Flush` and `EndFlush` the pass at the end of the input, which shows all.
* **`MsMerge`** - the files. `SetupFile`, `PrimeRead`/`PrimeFails`/`PrimeDone`
  (`ms_prime`, a read of a batch), `Handle` (`ms_deq` of the first stream, refill
  and `ms_resort`). What a file holds is chosen as it is read. `CheckLine` is
  verify_blkparse reading along.
* **`RawVerify`** - blkrawverify, with a file that may hold anything.
* **`RbTree`** - the red-black tree as it is in memory: links, parents and
  colours, the four cases of an erasure, written once for both sides. `MCBlkparse`
  puts it beside `Blkparse`, so that it is checked in the same run: `LiveParse` has
  the set that the tree stands for, `TreeKeepsOrder` says that the tree is one.

### 3.8 Tools on the traces of IOs: `IoTools`

`IoTools` feeds the same traces to blkparse, btt and iowatcher at once, so that
one block layer decides what is right for all three. `KernelIo` is that block
layer, an external part: bios are queued, get a request or are merged at either
end of one, requests are inserted or not, issued, requeued, completed, and there
is a packet command. `MaxOdd` bounds what is not regular: traces lost
(`clean` is then FALSE for good), IOs at one sector, requeues.

* **`IoTrack`** (blkparse) - `dump_trace` with the tracked requests, the depths,
  the accounts, and whose account it is (`find_ppi`: by pid or by name).
* **`BttIo`** (btt) - a handler per kind of trace over the tree of Qs, with the
  counters of the active queue, `aqd.c` and `iostat.c`, and `process_alloc`.
* **`PendingIo`** (iowatcher) - the table of pending IOs, `ios_in_flight`, the
  plot of each process.

Further parts read other traces and are alternatives in the same run (`feed`):

* **`BttStats`** - what btt measures of a few IOs that go through their life at
  any times: iostat's intervals and totals, lives, rates, seeks, periods.
* **`MmapInput`** - btt's window over a file of whole traces.
* **`IoWatch`** - iowatcher's passes over a dump of any records.
* **`Mpstat`** - its reader of mpstat's text, which may end after any line: two texts
  with a dump of one record, whose time gives the seconds.
* **`WatchTracers`** - iowatcher's `main` up to the plot, its signal handler (a
  stack of frames, as SIGTERM may interrupt the handler of SIGINT), and the two
  children.

### 3.9 `BlkIoMon`

Both threads of blkiomon. `DoTrace` reads and matches; `GetDstat` is the critical
section that finds or makes the statistics of a device; `AddSize` and `AddD2c`,
outside it, add to them, two members standing for all. `Flip` is the other
critical section, `Grab`, `PrintDstat`, `ConvertDstat` (the conversion to big
endian in place) and `GiveBack` the interval thread. The pipe is a set: traces of
different CPUs are read in any order.

`Lists` are the four lists a struct dstat may be on. `GapsAssumption` says that an
IO completes later than it is issued, by a nanosecond at least, the unit of
`bit.time`. The code depends on it: of two traces with the same time
`blkiomon_do_trace` takes the one it reads second for the older one, so the pair
of such an IO would be a mismatch when the issue is read first, and the issue that
is kept could be paired with the completion of the next IO.

### 3.10 `BtRecord`, `RecordReplay`

`BtRecord` is btrecord on the trace files of some CPUs, one after the other:
`StreamOpen` (with an empty header), `RecordNext` (the next Q, and a full bunch
flushed before it), `StreamClose`, and a kill at any step. `RecordReplay` goes on
with one iteration of btreplay on the files left behind: `AddInputFile`, `StartIter`,
`NextBunch`, `Map`, `Submit`, and a signal at any step of it (`Signal`). A signal ends
the loop over the bunches of a file and the loop over the IOs of a bunch, so that the
thread is done before the end of its file, and it ends a stall, so that the IOs that are
already mapped are submitted at once: `ReplaysTheRecording` asks for all IOs, and
`NeverEarly` for the right time, of a replay without a signal; the order and that no IO
is submitted twice hold in any case. The free IOCBs, whose account is in `ReplayAio`,
are any number here (none after a signal).

### 3.11 The proof modules

`TracerControl_proofs` (with `RecordReplay`, for which it has room: no name is
defined in both), `TraceBufs_proofs`, `NetServer_proofs` (of `NetServer` and
`MmapOutput`), `ReplayAio_proofs`, `ReplayBarrier_proofs`, `IoTools_proofs` (of
the trackers, `MmapInput` and `WatchTracers`), `BlkIoMon_proofs`, `Blkparse_proofs` (of
`LiveParse`, `MsMerge` and `RawVerify`): section 6. `MCTraceBufs`, `MCNetServer`, `MCBlkparse`, `MCIoTools` and `MCBlkIoMon` give the instances.

## 4 Runs

### 4.1 Runs that pass

| Run (module) | Instance | Question |
|---|---|---|
| `TracerControl_run` (`TracerControl`) | 2 CPUs, either may fail to start, 2 sub-buffers each, 2 signals after the start | Is the trace never started without all tracers (`StartsWhenAllReady`), nobody joined too early (`LeavingMeansAll`), all that the kernel holds drained (`NothingLeftBehind`), and does the process exit (`InterruptEndsRun`)? |
| `TraceBufs_run` (`MCTraceBufs`) | pipe or socket; 1 device, 2 CPUs, events of 1 and 2 units, reads of 1 or 2; any write may fail at any unit, any send may fail | Is `dp_entries` off by exactly what is in transit and the main thread never asleep over work (`EntriesAccount`), is nothing moved, and nothing lost but with a failed write, and nothing sent after a gap (`NothingLostOrReordered`), does all of it implement `TraceStream` (`DeliversTheStream`), does it end (`InterruptEndsRun`)? |
| `NetServer_run` (`MCNetServer`) | 1 host, 2 runs: one without `sendfile`, with 1 connection, and one with it, whose tracer makes 2, and which may die; either may fail to start; 2 devices, up to 1 data message on 2 of the connections. Or one output file: buffers of 3 bytes, 17 of them, pages of 8, 200 bytes: four windows, none aligned like the one before | Are no connection and no file closed under an open device, and the files finished with the last close (`OpenDevicesStay`), is what is sent while one is open stored (`OpenedIsStored`), does every interrupted run that started end (`InterruptedRunEnds`)? Does every read fit its window (`ReadFitsWindow`) and leave no hole (`AppendsAtEnd`)? |
| `ReplayAio_run` (`ReplayAio`) | 3 IOCBs, 2 bunches of up to 4 IOs, a signal at any time | Are IOCBs conserved (`PoolAccount`), do the assertions hold, but for the one of section 5 (`AssertionsHold`), is no wake-up lost (`NoLostWakeup`), is nothing left (`LeavesNothing`), does the sub thread get through (`SubFinishes`)? |
| `ReplayBarrier_run` (`ReplayBarrier`) | 3 files, 2 iterations, a signal at any time | Do the tokens add up (`TokenAccount`), is what main releases no longer in use (`Released`), are all iterations played and does main come as far as the rec threads let it (`ReplayEnds`)? |
| `Blkparse_run` (`MCBlkparse`) | a pipe with 4 traces and a message of 2 CPUs; 3 files of up to 3 records, read 2 at a time; 3 records for blkrawverify; a tree of up to 8; with and without a stopwatch | Is live output without gaps (`LiveIsGapless`), are the skips what is missing (`SkipsAreLosses`), is the merge in time order (`MergedInTimeOrder`), is all shown (`EverythingShown`), does blkrawverify find what is wrong and nothing else (`VerifierIsRight`), does the tree stay a sorted tree (`TreeKeepsOrder`)? |
| `IoTools_run` (`MCIoTools`) | 2 bios of 2 processes on 2 sectors and CPUs, one irregularity; 2 timed IOs; files of up to 24 bytes with windows of 8; dumps of up to 3 records on 2 devices; 2 mpstat texts of up to 2 samples of 2 CPUs; 2 signals | Do the tools' tables and counters follow the IOs (`TracksRequests`, `AccountsAgree`, `DepthsAgree`, `BttFollowsBios`), do btt's measures agree (`MeasuresAgree`), is every trace read through the window (`ReadsEveryTrace`), do iowatcher's passes fit together (`WatchedWhole`), does it plot complete traces only (`TracesAreComplete`)? |
| `BlkIoMon_run` (`MCBlkIoMon`) | 2 sectors on 2 devices, 3 IOs, 2 intervals, traces in any order | Is each `dstat` on one list (`OneHome`), are pairs issue and completion of one IO (`PairsMatch`), is every pair printed once if it came before the swap (`AccountsArePrinted`)? |
| `Record_run` (`RecordReplay`) | 2 files of up to 3 Qs, bunches of 2 or of 1 tick, 2 IOCBs, with and without stalls and acceleration, a signal at any time | Is what is replayed the recording (`ReplaysTheRecording`), and until a signal no earlier than recorded (`NeverEarly`)? |

Deadlock is checked unless the system may really stop: in `ReplayBarrier_run`
after a signal the main thread may wait for ever (section 5); in `IoTools_run`,
`BlkIoMon_run` the input just ends. A finished system stutters in an
explicit last step elsewhere.

### 4.2 Why the bounds are enough

*Tracers.* Two make `nthreads_running` and `created` differ in every way, let
one be blocked while another signals or fails, and one be told while the other is
not; the theorems cover any number. *Sub-buffers.* The drain is a loop that must
run more than once, hence two. *Units.* An event of two units with reads of one
or two units yields each case of the cut: in the event, at its border, behind it.
*Windows.* Three bytes and a page of eight have no common divisor, so the page
offset takes every residue over 200 bytes; btt's window of two pages over three
windows' length has a trace begin at every place of a page; theorems cover all
other values. *IOCBs.* A bunch of four on a pool of three must be submitted in
parts, with the pool empty in between. *Files and iterations.* The third file
makes the difference between "one is late" and "all but one are late"; with two
iterations a token may be taken out of turn. *Connections.* Hosts share nothing,
so one is enough; `cl_opens` is put to the test by a run that closes while
another run of the host has a device open, has not opened one yet, or has died,
and by two connections that open and close the same device at different times. A tracer with
`sendfile` needs two to fail between them; two connections without `sendfile` are in
`NetServer_failed_start`, and any number of either in the theorems.
*blkparse.* Four traces with numbers up to five make a skip that is split, shrunk
at either end and removed; with three streams one may be passed over between two
others; with batches of two a stream runs empty in the middle and is refilled.
*IOs.* Two bios are merged at the front or the back, or are two requests, on one
sector or two; the second may come while the first is in any state. Each of the
irregular things happens once, at any place; two of them together are not
explored. *Trees.* Eight nodes reach every case of an erasure on both sides.
*blkiomon.* With three IOs a key has an unmatched issue, a completion and
another issue at once; with two intervals what was given back is used again.
*Records.* Three Qs fill a bunch of two and begin another, or are three bunches
by time.

The bounds are named in the modules (`MaxData`, `MaxSignals`, `MaxSize`,
`NBunches`, `DataOf`, `MaxSeq`, `MaxEvents`, `MaxRecords`, `MaxBios`, `MaxOdd`,
`MaxIos`, `MaxIntervals`, `MaxClock`, ...) and appear only in guards or initial
values.

### 4.3 Fairness

Weak fairness of each thread: the scheduler runs what can run, and no step that
the fairness is about waits on a mutex that others hold again and again, because
a critical section is one step. Weak fairness of `WaitTimesOut`, since
`t_pthread_cond_wait` has a timer of 50 ms, and of the signal handler's steps
once it runs. In `NetServer`, weak fairness of every connection's
client steps and of the server for every connection, since `handle_client_data`
serves each one that poll reports before it polls again; none of `RecvGivenUp`,
because nobody wakes a `recv` when `done` changes, and none of what follows a failed
start, of which `InterruptedRunEnds` says nothing. In `ReplayAio`, of `Complete`:
the kernel finishes the IOs it accepted. In `ReplayBarrier`, of main and of the sub
threads, and none of the rec threads. None for signals and none for the kernel's production of trace data,
and none for `read` to report data that `poll` did not announce: in network mode
the model lets poll stay silent until the drain. The other modules are of
sequential programs, or state safety only (`BlkIoMon`), and have no fairness.

## 5 Findings

Each of the first three has a run in which TLC shows the counterexample.

1. **A lost wake-up on a failed start** (`TracerControl_lost_wakeup`).
   `stop_tracers` "tells each tracer to quit" without `mt_mutex`. A tracer
   that has tested `is_done` and not yet reached `pthread_cond_wait` misses the
   flag and the broadcast, and its wait has no timer. When one tracer failed to
   start nobody unblocks the others, so it never quits and the main thread polls
   in `wait_tracers_leaving` for ever. (In a regular end the tracers are past
   that wait, and the same code is safe: `TracerControl_run`.)
2. **The reaper of btreplay hangs** (`ReplayAio_hang`). `replay_sub` sets
   `send_done` without the mutex and without a signal, and the inner loop of
   `reap_wait_aios` only looks at `naios_out`. If the rec thread waits there
   when the last IO was already reaped, it never learns that it is done.
3. **A run that did not start closes what others have open** (`NetServer_failed_start`).
   `run_tracers` calls `close_client_connections` whatever failed, and
   `net_send_drops` sends a close for every device. A tracer that failed before its
   opens makes the server count closes without opens: `cl_opens` is too low, and when
   another run of the host closes one device, `net_ch_remove` takes all its files and
   connections.

Also seen while modelling. What is marked (m) the models allow, and a property is
stated around it; the rest lies outside what they model.

*blktrace.*
* (m) An interrupt during start-up is lost: `handle_sigint` tells the tracers on the
  list, one that is listed later is not told, and `run_tracers` does not look at
  `done`. A second interrupt ends the run. (`EarlySignals = TRUE` makes
  `InterruptEndsRun` of `TracerControl` fail.)
* (m) After a failed start with output to a pipe the main thread waits for
  entries until an interrupt (`KeepWaiting` of `TracerControl`).
* (m) A failed write cuts an event. `handle_list_file` writes the whole traces of a
  buffer, "any remaining data is kept for the next pass"; when `write_data` fails it
  frees the buffer with that data and goes on, and the next buffer begins in the middle
  of an event, whose bytes are taken for a header (`lost` in `NothingLostOrReordered`).

*blktrace over the network.*
* (m) A run that is connected but has opened nothing when the last open of its host
  is closed is cut off with the others (`net_ch_remove` takes every connection
  of the host). Its later sends fail with a message, its waits for
  acknowledgements return at once, and it traces to nowhere.
* (m) After a client died, `cl_opens` of its host never falls to 0 again, and its
  devices stay open. `nc_find_dpp` compares names only, so a later run on the
  same host appends to the files of the dead one.
* The server maps windows of its own buffer size and number and ignores those in
  the client's header. A message longer than the window makes `recv` fail in the
  middle, and the rest of it is taken for a header.
* A client killed within a header makes the server exit, with all its hosts.

*btreplay, btrecord.*
* (m) `nfree_current` "returns 0 if we have some condition that causes us to exit", and
  its caller asserts that it did not. The assertions are compiled out; a build with them
  aborts on a signal (`AssertionsHold` admits it).
* (m) A sub thread that leaves on a signal before its iteration does not count
  it, and `wait_iters_done` waits for as many counts as there are files
  (`ReplayEnds` admits a signal up to there).
* (m) A signal ends the stall of IOs that are mapped, and they are submitted at once,
  however long before their time (`NeverEarly` holds until a signal).
* (m) The header is made up before the last flush: `nbunches` and `total_pkts`
  miss the last bunch, and btreplay passes over a file of one bunch, whose
  header counts none. A file in which btrecord was killed is passed over, too.
* IOs of no bytes would reach `iocb_setup` with none; `read_map_devs` stores
  pointers into a buffer that it leaves.

*blkparse and the verifiers.*
* (m) `check_current_skips` splits a skip after it overwrote its end. It matters
  only when a CPU's times run backwards (`SkipsAreLosses` asks for rising ones).
* On a pipe `smallest_seq_read` stays 0. A stopwatch's end is exclusive on a
  pipe and inclusive on files. A batch of traces that all name another CPU ends a
  file early (m).
* `__account_pc_queue` adds what packet commands read to `qread_kb`, the total of
  the other reads, where it has `qread_kb_pc`; a CPU's own issued bytes fall below 0 when a request is requeued on another CPU.
* blkrawverify reports equal times as a regression, counts a bad pdu as a bad
  sequence, stops at an unsupported version, and takes a file it cannot open for
  one without faults.

*blkiomon.*
* (m) What the main thread adds to statistics that were taken meanwhile may be
  printed in part or not at all (`late` in `AccountsArePrinted`).
* (m) An IO of less than a microsecond ends the program by a division by 0.
* (m) With traces out of order, an issue may be paired with the completion of a
  later IO of its sector (`ordered` in `PairsMatch`).
* The last interval is not printed when the input ends.

*btt.*
* (m) `iostat.c` counts Qs at completion and requests at issue: `cur_qusz` and
  `cur_dev` drift with every merge and requeue. `svctm` is Q2C, not D2C.
* (m) The forced update of the idle time at each interval counts busy time as idle.
  The median of a histogram is not one. A device with one live is
  100 % live, whenever it began.
* A dump cut off within a trace is read past its end.

*iowatcher.*
* (m) When the handler of a signal has waited for a tracer first, `waitpid` in `main`
  fails and `status` is read uninitialized (`tracers.c:111`): iowatcher may
  exit instead of plotting. `TracesAreComplete` says that at least it never plots
  too early. mpstat may be left running when blktrace ends badly, and blktrace when
  mpstat cannot be started.
* A trace without Qs gets an empty axis; one in which all IO is at one sector and
  of no bytes divides by 0; the length of a trace is the time of its last
  record, not of its latest. These are guards of `IoWatch`'s properties.
* The last line of an mpstat text is never used (`next_mpstat_line` fails behind
  it, and the line is dropped), and a text that ends within a sample ends the
  reading of the other traces' texts too (`goto mpstat_done`). `MpstatIsRead` says
  that nothing else is lost. A text without a count of CPUs that ends behind the
  line for all of them makes `mpstat_num_cpus` -1: the graphs' array is empty, and
  their maxima are still set (`main.c:486`).

## 6 Proofs

All eight proof modules rest on the constants' assumptions in the module they
extend and on nothing else. For each component one invariant (`IInv`, or a name of
its own where a module is about several) is proved inductive, and the rest derived
from it.

* **`TracerControl_proofs`**, for any number of CPUs, sub-buffers and signals.
  The main thread compares counters; what they mean is not visible in any of
  the properties. `IInv` adds that each counter is the cardinality of the set of
  tracers in certain places (`Counted`), that the threads that exist are those
  listed and at most one more (`Listed`), and, if no signal arrives before the
  start, that nobody is told to quit while the trace runs and whoever leaves has
  drained (`QuitOrder`). `wait_tracers_leaving` is then right because those who
  left are a subset of those who ran, and equal in number
  (`NobodyJoinedEarly`); `wait_tracers_ready` because those who run or failed
  are disjoint sets within the list and fill it, so that nobody is still
  starting; `StartsComplete` because NCpus running tracers are all of them;
  `DrainIsComplete` (assuming no early signal) from `QuitOrder`. The last is not
  true with early signals (section 5).
  Of `RecordReplay`, for any traces, sizes of bunches and pools: in `ReplayInv` the
  bunches of a file go on from each other and span no more than they may (`GoOn`);
  what btrecord has read is in the bunches written and the one it fills
  (`Reading`), so that a file that was finished ends with the last Q (`FileInv`),
  while a kill leaves some first bunches and an empty header; main takes in no file
  that was not finished (`TakenIn`); and what a sub thread has submitted is the
  numbers up to its place in its bunch (`SubInv`), all of them when it is done, unless
  there was a signal. `RecordingIsReplayed` follows at once. `NoneTooEarly` (the action property) needs what a step of `Submit` adds
  (`SubmitFacts`) and that the division by `acc_factor` keeps the order
  (`DivKeepsOrder`).
* **`TraceBufs_proofs`**, for any number of devices and CPUs, any events and any size
  of a read. `IInv` has these parts. `Account`: `dp_entries` and what the tracers
  have not counted yet (a sum, as the cardinality of a set of units) are what is
  queued, in the list in work, or handled and not uncounted. `Order`: the output
  with what was lost, the rest, the list in work and the waiting list of a stream are
  runs of numbers that follow each other, and the output rises (`Run`, `Chain`; lemma
  `FlattenChain` says what the concatenation of a list of buffers is). `Cuts`: as long as
  no write failed, the output to a pipe ends at an event, and the rest that is kept has
  no whole one. `Draining`: a tracer that drains
  has read all there is of the devices behind it, unless it read something in this
  pass. The refinement is `PromiseInit` and `PromiseStep`, and needs all of them:
  the abstract stream moves on by whole events (`Cuts`), by none that is not there
  (`Order`), and ends with all delivered because the lists are empty when the
  main thread has joined the tracers (`Draining`, `Account`).
* **`NetServer_proofs`**, of the output files (`MmapOutput`), for all sizes.
  `ReadFitsWindow` and the others are not inductive, since that a new window ends inside the extended file depends
  on the data not having outgrown the extension; `IInv` adds
  `fs_size <= fs_max_size` and that a mapped file is as long as `fs_max_size`.
  `WindowAssumption` is used for `ReadFitsWindow` only.
  Of `NetServer`, for any number of hosts, runs, connections and devices, with clients
  that die or do not start and waits that are given up. What the server does with a
  message depends on what it has open, and what the client sends on what it believes
  is open. The two fit each other unless closes come of what was not opened, so `IInv`
  has three parts: the types; that no connection has more data stored than it sent
  (`NoneMadeUp`), which holds of any host and is what keeps the types of the others; and
  that a host that is not `Spoilt` is `Sound`. `Sound` ties the two sides together: the
  messages of a connection that are on their way are opens, then data, then closes, each
  open of a device that is not open yet, the others of devices that are or will be
  (`ChanInv`); what the client has yet to open or close are the others (`ClientInv`);
  data is stored or on its way, unless the server has removed the connection
  (`DataInv`); and `cl_opens` of a host is the number of (connection, device) pairs that
  its connections have open (`HostInv`). A spoilt host stays spoilt, and a step of one
  host leaves the others as they are, so that it does not matter to a sound host what
  happens at a spoilt one. A run with `sendfile` that does not start closes only what it
  opened, which keeps its host sound.
  `OpenDevicesStay` follows from `HostInv`: the close that makes `cl_opens` 0 closes
  the only open device of the host. `OpenedIsStored` follows from `DataInv`.
* **`ReplayAio_proofs`**, for any pool, bunch size, number of bunches and time
  of a signal. `IInv` is the conservation of IOCBs, the lag of `naios_out`, the
  assertions, the state of the two waits, and `LocalKnowledge`: what each thread
  may rely on in between two critical sections (such as that `naios_out` does
  not fall below the rec thread's batch, because nobody else lowers it).
  `NeverBothWait` follows: the sub thread waits only when nothing is free, the
  rec thread only when nothing is counted, and by the two accounts all IOCBs
  would have to be somewhere else.
* **`ReplayBarrier_proofs`**, for any set of files, number of iterations and time
  of a signal. Tokens are anonymous, so no property of a single thread is
  inductive; what is are sums. `TokenAccount` (tokens, players and counted
  iterations make up the files) goes through every step but needs that a thread
  that plays has its iterations left (`Rounds`) and that main waits for the
  counter that the step raises (`Counted`: each counter is the cardinality of the
  set of threads past it). Lemma `Moves` says once which of these sets a thread's
  step changes; each action is a lemma of its own. `ReleasedUnused` follows since
  a counter that has reached `nfiles` counts a subset of `Files` with as many
  members, which is `Files`.
* **`IoTools_proofs`**, of `IoTools` and its parts.
  Of the three trackers on the block layer's traces, for any contexts, number of
  sectors, bios and losses (`SectorsAssumption`, `ContextsAssumption`: sectors are
  numbered, a context has a direction). `IInv` has types that hold whatever is lost
  (`Types`, from which follows that no depth goes below zero), and `Follows`, which
  holds as long as `clean` does. None of the three properties is inductive alone.
  `BttFollowsBios` needs that no two IOs share a sector (`Apart`; then a Q is that
  of one bio or one request, and a completed request of one sector takes one Q, which
  was issued) and that a Q was seen before anything is in flight (`TreeInv`); that
  its iostat is right without merges and requeues needs that a request is one sector
  as long as there were no merges (`StatInv`). `TracksRequests` needs `Apart` as well: a
  front merge takes the IO to a sector where no other begins. `DepthsAgree` needs that
  each issued request, a packet command too, has its IO in iowatcher's table, or the
  completion would be ignored (`DepthInv`). The lemmas say first what a step does to
  bios and requests (`QueueKernel`, `JoinApart`, ...), then what the trace does to one
  tool given that, by the kind of trace, and the step lemmas put them together.
  The counters are compared with cardinalities: `SwapCounts`, `AddCounts` and
  `RemoveCounts` say once how those of all sets of requests change when one is
  replaced, comes or goes.
  The other parts are proved each on its own, and `PartsGoOn` says that `IoTools`
  implements both, so that what is proved of them holds on every feed.
  Of `MmapInput`, for any file of whole traces and any window that holds
  one wherever in its first page it begins (`InputWindowAssumption`; 8 MiB and
  512 bytes in the code). The invariant adds to `ReadsEveryTrace` that what is
  left of the file is whole traces, and that the window never reaches past its
  end; the arithmetic of `move_map` is a lemma (`NewMinArith`).
  Of `WatchTracers`, for any number of signals at any step, with calls of
  `wait_for_tracers` that interrupt each other. `TracesAreComplete` speaks of the
  moment a call returns; what makes it inductive is what an interrupted call may
  still rely on when it goes on: it has passed only tracers whose pid is not saved,
  and none is saved before it returns, since main stands still (`FramesGoOn`); and
  a tracer without a saved pid has been waited for, but for the one main is about to
  save, or was never known (`SavedUntilReaped`). The last part needs that without a
  signal only main's own call takes a status (`Undisturbed`).

* **`BlkIoMon_proofs`**, for any keys, devices, times and numbers of IOs and
  intervals. `OneHome` is inductive with the types and with what each thread holds
  at each step (`ThreadTypes`); four lemmas say what taking a list, giving it back,
  linking a struct and swapping lists do to lists without repetition.
  `PairsMatch` is not: that a trace finds its partner, and no other one, rests on
  what is unread of its key. `InTurn` says that these are whole IOs and perhaps the
  issue of the one under way, one after the other in time, in the pipe and in the
  table together; the oldest trace of such a key in the pipe is then either stored
  where nothing was or completes what is stored (`TurnStore`, `TurnPair`).
  `AccountsArePrinted` needs that an issue is read only once, so that its IO is in no
  statistics and not printed when it is added (`IssuesOnce`), that different
  statistics hold different IOs, and that one whose size was added is in something
  that is still to be printed before its d2c is (`Accounts`).

* **`Blkparse_proofs`**, for any number of CPUs, any batch, stopwatch and input.
  `IInv` is one invariant of each reader and that only one of them runs, since the
  pipe and the files share `genesis_time`; each action is a lemma of its own.
  *The pipe* (`LiveInv`): the numbers of a batch are new to the tree and fall
  (`BatchIsNew`), a number of a CPU is in the tree once (`TreeIsUnique`) and either
  there or shown (`ShownOrInTree`), and `last_sequence` is the last that was shown
  (`LastIsLast`). `LiveIsGapless` then follows from what `MustWait` lets pass.
  `SkipsAreLosses` holds for the CPUs that came out in rising order: their skips
  are ranges that rise between the first number and the last and are the set of
  those missing (`SkipsFit`). A rising CPU never
  needs `check_current_skips`, since a number above the last one is in no skip;
  a number that follows the last at once adds nothing, another one
  adds a range behind the others, which adjoins none because the number between
  them was shown. The count is a sum of the lengths of disjoint ranges
  (`NextRange`, `SkipsCounted`).
  *The files* (`MergeInv`): `ms_head` is in order but for the stream that is being
  refilled, which is its head (`ListInOrder`); each stream rises and so does its
  file (`StreamsRise`); a stream that is not in the list has nothing more
  (`LeftBehind`, and `FilesFollow` while the files are set up); and no trace that is
  queued, nor any that a file in the list can still give, is earlier than the last
  line (`NotEarlier`), because the first trace of the first stream is the least of
  all (`HeadIsLeast`). `Inserted` and `PlacedInOrder` say what putting a stream into
  a list does, `SortedIn` and `Resorted` what `ms_sort` and `ms_resort` give.
  *blkrawverify* (`VerifyInv`): the good traces of a file follow each other
  (`GoodFollow`), the one compared with is the last of them (`SaveIsLast`), one that
  was found wrong has a good one before it that it does not follow
  (`BadHasReason`), and the counters are cardinalities (`CountsFit`).

Values of recursive functions over data can be proved without an induction theorem:
the beginnings `0 .. n` of the natural numbers are finite sets, which are well
founded under the strict subset relation, and a well-founded relation has minimal
elements. `LeastNat`, `UpTo` and `MaxOfBounded` of `TraceBufs_proofs` are made in
this way; `FlattenSeq`, and in `Blkparse_proofs` `SeqSkips`, are reasoned about with
them.

Only model-checked: every liveness property (`InterruptEndsRun`,
`InterruptedRunEnds`, `SubFinishes`, `ReplayEnds`: the prover has no rule for
fairness and ENABLED here), the tree (`TreeKeepsOrder`: `RbTree` is recursive), what is
summed up over sequences and functions (`AccountsAgree`, `MeasuresAgree`,
`WatchedWhole`: the folds of the community modules, about which no theorem can be
instantiated). The prover takes no theorem about a module that reaches a recursive
operator.

## 7 What is left out

Within the modelled parts: calls that fail by ending the process at once
(`malloc`, `io_submit` with a short count), the content of trace data, the
statistics each tracer counts, CPU affinity. The kernel's relay channel drops
events when all sub-buffers are full; the model's kernel just stops recording.
blkparse: several devices on one pipe, plugs and unplugs, splits, bounces, remaps, discards,
tables that grow. btt: remaps between devices, plugs, ranges, `q2d` and unplug
histograms. iowatcher: the text of fio, messages with names, other than
default options. Network: byte order, headers, a message in pieces.

Option parsing, formatting, reports, SVG output, the hash and list helpers and
the scripts are not modelled and not going to be: they have no state in which
steps of one actor meet those of another, and what they compute is layout.
