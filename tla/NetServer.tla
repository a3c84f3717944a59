------------------------------ MODULE NetServer ------------------------------
(***************************************************************************)
(* blktrace over the network: client runs (-h) with one connection per CPU *)
(* (send) or per CPU and device (sendfile), and the server (-l), a single  *)
(* thread around poll that keeps an entry per host with its connections,   *)
(* its devices, and cl_opens, the number of opens not yet closed.  When    *)
(* cl_opens falls to 0 the host's devices are finished and all its         *)
(* connections closed, whoever's they are.                                 *)
(*                                                                         *)
(* A message is a header with what follows it: len 0 opens a device, len 1 *)
(* closes it, both are acknowledged, and any other length is trace data.   *)
(* Which ready connection the server serves next is left open, since poll  *)
(* does not say which was ready first.                                     *)
(*                                                                         *)
(* The tracers' life cycle is in TracerControl; here a run opens its       *)
(* devices on all its connections, sends, and closes.  A tracer may fail   *)
(* to start: then the others stop too, and with send the main thread       *)
(* closes every device on every connection, opened or not.  With send the  *)
(* main thread closes one connection after the other, with sendfile the    *)
(* tracers do, side by side: the model has the second, which includes the  *)
(* first.                                                                  *)
(***************************************************************************)
EXTENDS Integers, Sequences, FiniteSets, FiniteSetsExt, SequencesExt

CONSTANTS
    Runs,        \* client processes
    Hosts,
    HostOf,      \* the host of each run
    Conns,       \* connections
    RunOf,       \* the run of each connection
    DevsOf,      \* the devices of each connection, in the order of `devpaths'
    Sendfile,    \* the runs that use sendfile; a connection of theirs has one device
    Earlier,     \* sendfile: the connections its tracer opens before each
    DataOf,      \* bound: how many data messages each connection sends at most
    Crashing     \* the runs that may die

Devs == UNION {ToSet(DevsOf[c]) : c \in Conns}

ASSUME HostsAssumption == HostOf \in [Runs -> Hosts] /\ IsFiniteSet(Runs)
ASSUME ConnsAssumption == /\ IsFiniteSet(Conns)
                          /\ RunOf \in [Conns -> Runs]
                          /\ DevsOf \in [Conns -> Seq(Devs)]
                          /\ \A c \in Conns : DevsOf[c] # <<>> /\ IsInjective(DevsOf[c])
ASSUME SendfileAssumption == /\ Sendfile \subseteq Runs
                             /\ Earlier \in [Conns -> SUBSET Conns]
                             /\ \A c \in Conns : \A d \in Earlier[c] :
                                   RunOf[c] \in Sendfile /\ RunOf[d] = RunOf[c]
ASSUME DataAssumption  == DataOf \in [Conns -> Nat]
ASSUME CrashAssumption == Crashing \subseteq Runs

VARIABLES
    st,          \* client: where a connection's tracer is
    todo,        \* client: devices it has yet to open, or to close
    waiting,     \* client: it waits for an acknowledgement
    interrupted, \* client: the run's `done' was set
    failed,      \* client: a tracer of the run did not start
    link,        \* the TCP connection: "none", "up", "shut" (by the client) or
                 \* "reset" (by the server)
    chan,        \* sent by the client, not read by the server
    acks,        \* sent by the server, not read by the client
    backlog,     \* connected, not accepted
    conn_list,   \* server: the connections it polls
    cl_opens,    \* server: per host
    devpaths,    \* server: per host, the devices whose files are open
    opened,      \* history: devices the server has opened and not closed
    sent, stored \* history: data messages sent, and written by the server

clientVars == <<st, todo, waiting, interrupted, failed, sent>>
netVars    == <<link, chan, acks, backlog>>
serverVars == <<conn_list, cl_opens, devpaths, opened, stored>>
vars == <<clientVars, netVars, serverVars>>

Host(c)   == HostOf[RunOf[c]]
Family(c) == {d \in Conns : RunOf[d] = RunOf[c]}
Later(c)  == {d \in Conns : c \in Earlier[d]}
Msg(o, d) == [op |-> o, dev |-> d]

TypeOK ==
    /\ st \in [Conns -> {"new", "open", "send", "close", "failed", "end"}]
    /\ todo \in [Conns -> Seq(Devs)]
    /\ waiting \in [Conns -> BOOLEAN]
    /\ interrupted \in [Runs -> BOOLEAN] /\ failed \in [Runs -> BOOLEAN]
    /\ link \in [Conns -> {"none", "up", "shut", "reset"}]
    /\ chan \in [Conns -> Seq([op : {"open", "data", "close"}, dev : Devs])]
    /\ acks \in [Conns -> Nat]
    /\ backlog \in Seq(Conns)
    /\ conn_list \subseteq Conns
    /\ cl_opens \in [Hosts -> Int]
    /\ devpaths \in [Hosts -> SUBSET Devs]
    /\ opened \in [Conns -> SUBSET Devs]
    /\ \A c \in Conns : stored[c] \in 0 .. sent[c] /\ sent[c] \in 0 .. DataOf[c]

Init ==
    /\ st = [c \in Conns |-> "new"]
    /\ todo = DevsOf
    /\ waiting = [c \in Conns |-> FALSE]
    /\ interrupted = [r \in Runs |-> FALSE]
    /\ failed = [r \in Runs |-> FALSE]
    /\ link = [c \in Conns |-> "none"]
    /\ chan = [c \in Conns |-> <<>>]
    /\ acks = [c \in Conns |-> 0]
    /\ backlog = <<>>
    /\ conn_list = {}
    /\ cl_opens = [h \in Hosts |-> 0]
    /\ devpaths = [h \in Hosts |-> {}]
    /\ opened = [c \in Conns |-> {}]
    /\ sent = [c \in Conns |-> 0]
    /\ stored = [c \in Conns |-> 0]

-----------------------------------------------------------------------------
(* A client's connection. *)

\* net_send_data: what is sent to a connection the server has closed is lost.
Send(c, m) == chan' = IF link[c] = "up" THEN [chan EXCEPT ![c] = Append(@, m)] ELSE chan

\* Every device of c is open (tracer_signal_ready).
Opened(c) == st[c] = "open" /\ ~waiting[c] /\ todo[c] = <<>>

\* open_ios comes to the next device of c: with sendfile it connects for each of
\* them, with send the main thread has connected all.
ToConnect(c) == st[c] = "new" /\ \A d \in Earlier[c] : Opened(d)
ToOpen(c) ==
    /\ st[c] = "open" /\ ~waiting[c] /\ todo[c] # <<>>
    /\ RunOf[c] \in Sendfile \/ \A d \in Family(c) : st[d] # "new"

\* net_setup_client
Connect(c) ==
    /\ ToConnect(c)
    /\ st' = [st EXCEPT ![c] = "open"]
    /\ link' = [link EXCEPT ![c] = "up"]
    /\ backlog' = Append(backlog, c)
    /\ UNCHANGED <<todo, waiting, interrupted, failed, sent, chan, acks, serverVars>>

\* open_ios: net_send_open for every device.
SendOpen(c) ==
    /\ ToOpen(c)
    /\ Send(c, Msg("open", Head(todo[c])))
    /\ waiting' = [waiting EXCEPT ![c] = TRUE]
    /\ todo' = [todo EXCEPT ![c] = Tail(@)]
    /\ UNCHANGED <<st, interrupted, failed, sent, link, acks, backlog, serverVars>>

\* A net_send_close of c has returned.
CloseReturned(c) ==
    \/ st[c] = "end"
    \/ /\ st[c] = "close"
       /\ Len(DevsOf[c]) - Len(todo[c]) > (IF waiting[c] THEN 1 ELSE 0)

\* net_recv_data gets the acknowledgement.
RecvAck(c) ==
    /\ waiting[c] /\ acks[c] > 0
    /\ waiting' = [waiting EXCEPT ![c] = FALSE]
    /\ acks' = [acks EXCEPT ![c] = @ - 1]
    /\ UNCHANGED <<st, todo, interrupted, failed, sent, link, chan, backlog, serverVars>>

\* The tracer fails before the next device: pthread_create, lock_on_cpu or the open
\* of the trace. The connections it has stay as they are.
StartFails(c) ==
    /\ IF RunOf[c] \in Sendfile THEN ToConnect(c) ELSE ToOpen(c)
    /\ st' = [d \in Conns |-> IF d \in Earlier[c] \cup {c} \cup Later(c) THEN "failed"
                              ELSE st[d]]
    /\ failed' = [failed EXCEPT ![RunOf[c]] = TRUE]
    /\ UNCHANGED <<todo, waiting, interrupted, sent, netVars, serverVars>>

\* net_setup_client fails in open_ios, which closes what it has opened (close_ios).
ConnectFails(c) ==
    /\ RunOf[c] \in Sendfile /\ ToConnect(c)
    /\ st' = [d \in Conns |-> IF d \in {c} \cup Later(c) THEN "failed"
                              ELSE IF d \in Earlier[c] THEN "close" ELSE st[d]]
    /\ todo' = [d \in Conns |-> IF d \in Earlier[c] THEN DevsOf[d] ELSE todo[d]]
    /\ failed' = [failed EXCEPT ![RunOf[c]] = TRUE]
    /\ UNCHANGED <<waiting, interrupted, sent, netVars, serverVars>>

\* net_recv_data returns without one, and nobody looks at its result: the
\* server has closed the connection.
RecvReset(c) ==
    /\ waiting[c] /\ link[c] = "reset"
    /\ waiting' = [waiting EXCEPT ![c] = FALSE]
    /\ UNCHANGED <<st, todo, interrupted, failed, sent, netVars, serverVars>>

\* Or `done' is set when net_recv_data looks, before it blocks: by an interrupt
\* while devices are opened, or by another tracer of the run whose own
\* net_send_close is over ("XXX: Need to clear/set done around call").
RecvGivenUp(c) ==
    /\ waiting[c]
    /\ \/ st[c] = "open" /\ interrupted[RunOf[c]]
       \/ \E d \in Family(c) \ {c} : CloseReturned(d)
    /\ waiting' = [waiting EXCEPT ![c] = FALSE]
    /\ UNCHANGED <<st, todo, interrupted, failed, sent, netVars, serverVars>>

\* wait_tracers_ready: every tracer of the run is ready or has failed.
AllReady(c) == \A d \in Family(c) : Opened(d) \/ st[d] \notin {"new", "open"}

\* tracer_wait_unblock: main unblocks the tracers when every device is open on
\* each connection.
Unblocked(c) ==
    /\ Opened(c) /\ AllReady(c) /\ ~failed[RunOf[c]]
    /\ st' = [st EXCEPT ![c] = "send"]
    /\ UNCHANGED <<todo, waiting, interrupted, failed, sent, netVars, serverVars>>

\* net_sendfile_data, flush_subbuf_net.
SendData(c) ==
    /\ st[c] = "send" /\ sent[c] < DataOf[c]
    /\ \E d \in ToSet(DevsOf[c]) : Send(c, Msg("data", d))
    /\ sent' = [sent EXCEPT ![c] = @ + 1]
    /\ UNCHANGED <<st, todo, waiting, interrupted, failed, link, acks, backlog, serverVars>>

\* The trace is stopped and drained, and the closes begin.
SendEnds(c) ==
    /\ st[c] = "send" /\ interrupted[RunOf[c]]
    /\ st' = [st EXCEPT ![c] = "close"]
    /\ todo' = [todo EXCEPT ![c] = DevsOf[c]]
    /\ UNCHANGED <<waiting, interrupted, failed, sent, netVars, serverVars>>

\* stop_tracers after a failed start. With sendfile the tracers that are ready close
\* what they opened. With send the main thread waits for the interrupt
\* (process_trace_bufs), and close_client_connections is called whatever failed.
StopTracers(c) ==
    /\ failed[RunOf[c]] /\ AllReady(c)
    /\ IF RunOf[c] \in Sendfile THEN Opened(c)
       ELSE interrupted[RunOf[c]] /\ (Opened(c) \/ st[c] = "failed")
    /\ st' = [st EXCEPT ![c] = "close"]
    /\ todo' = [todo EXCEPT ![c] = DevsOf[c]]
    /\ UNCHANGED <<waiting, interrupted, failed, sent, netVars, serverVars>>

\* net_send_close, in close_ios or net_send_drops: a device that was never opened is
\* closed as well.
SendClose(c) ==
    /\ st[c] = "close" /\ ~waiting[c] /\ todo[c] # <<>>
    /\ Send(c, Msg("close", Head(todo[c])))
    /\ waiting' = [waiting EXCEPT ![c] = TRUE]
    /\ todo' = [todo EXCEPT ![c] = Tail(@)]
    /\ UNCHANGED <<st, interrupted, failed, sent, link, acks, backlog, serverVars>>

\* net_close_connection
Disconnect(c) ==
    /\ st[c] = "close" /\ ~waiting[c] /\ todo[c] = <<>>
    /\ st' = [st EXCEPT ![c] = "end"]
    /\ link' = [link EXCEPT ![c] = IF @ = "up" THEN "shut" ELSE @]
    /\ UNCHANGED <<todo, waiting, interrupted, failed, sent, chan, acks, backlog, serverVars>>

\* A run with sendfile exits after a failed start, and with it go the connections that
\* nobody closed.
RunExits(r) ==
    LET own == {c \in Conns : RunOf[c] = r} IN
    /\ r \in Sendfile /\ failed[r]
    /\ \A c \in own : st[c] \in {"failed", "end"}
    /\ \E c \in own : st[c] = "failed"
    /\ st' = [c \in Conns |-> IF c \in own THEN "end" ELSE st[c]]
    /\ link' = [c \in Conns |-> IF c \in own /\ link[c] = "up" THEN "shut" ELSE link[c]]
    /\ UNCHANGED <<todo, waiting, interrupted, failed, sent, chan, acks, backlog, serverVars>>

\* handle_sigint of a run.
Interrupt(r) ==
    /\ ~interrupted[r]
    /\ interrupted' = [interrupted EXCEPT ![r] = TRUE]
    /\ UNCHANGED <<st, todo, waiting, failed, sent, netVars, serverVars>>

\* A run dies. What it sent is still delivered, and nothing more.
Crash(r) ==
    LET own == {c \in Conns : RunOf[c] = r} IN
    /\ r \in Crashing
    /\ \E c \in own : st[c] # "end"
    /\ st' = [c \in Conns |-> IF c \in own THEN "end" ELSE st[c]]
    /\ waiting' = [c \in Conns |-> c \notin own /\ waiting[c]]
    /\ link' = [c \in Conns |-> IF c \in own /\ link[c] = "up" THEN "shut" ELSE link[c]]
    /\ UNCHANGED <<todo, interrupted, failed, sent, chan, acks, backlog, serverVars>>

-----------------------------------------------------------------------------
(* The server: net_server_handle_connections. *)

\* net_add_connection
AddConnection ==
    /\ backlog # <<>>
    /\ backlog' = Tail(backlog)
    /\ conn_list' = conn_list \cup {Head(backlog)}
    /\ UNCHANGED <<clientVars, link, chan, acks, cl_opens, devpaths, opened, stored>>

\* net_client_data has read the header of message op on c (net_get_header).
Header(c, op) ==
    /\ c \in conn_list
    /\ chan[c] # <<>>
    /\ Head(chan[c]).op = op

\* nc_find_dpp: the message's device is added, with its files, if the host does
\* not have it.
NcFindDpp(c) == devpaths[Host(c)] \cup {Head(chan[c]).dev}

\* ack_open_close
Ack(c) == acks' = [acks EXCEPT ![c] = @ + 1]

OpenWith(c, opens) ==
    /\ Header(c, "open")
    /\ devpaths' = [devpaths EXCEPT ![Host(c)] = NcFindDpp(c)]
    /\ cl_opens' = [cl_opens EXCEPT ![Host(c)] = @ + opens]
    /\ opened' = [opened EXCEPT ![c] = @ \cup {Head(chan[c]).dev}]
    /\ Ack(c)
    /\ chan' = [chan EXCEPT ![c] = Tail(@)]
    /\ UNCHANGED <<clientVars, link, backlog, conn_list, stored>>

\* Mutant of OpenDevice: an open is counted for a new device only.
OpenDevice_OncePerDevice(c) ==
    OpenWith(c, IF NcFindDpp(c) = devpaths[Host(c)] THEN 0 ELSE 1)

\* net_client_data, len 0.
OpenDevice(c) == OpenWith(c, 1)

\* net_client_read_data
ReadData(c) ==
    /\ Header(c, "data")
    /\ devpaths' = [devpaths EXCEPT ![Host(c)] = NcFindDpp(c)]
    /\ stored' = [stored EXCEPT ![c] = @ + 1]
    /\ chan' = [chan EXCEPT ![c] = Tail(@)]
    /\ UNCHANGED <<clientVars, link, acks, backlog, conn_list, cl_opens, opened>>

\* net_ch_remove: all connections of the host are closed, read or unread.
Removed(h) == {d \in conn_list : Host(d) = h}

CloseWith(c, last, acked) ==
    LET ch == Host(c) IN
    /\ Header(c, "close")
    /\ cl_opens' = [cl_opens EXCEPT ![ch] = @ - 1]
    /\ opened' = [opened EXCEPT ![c] = @ \ {Head(chan[c]).dev}]
    /\ IF acked THEN Ack(c) ELSE UNCHANGED acks
    /\ IF cl_opens[ch] = last
       THEN /\ devpaths' = [devpaths EXCEPT ![ch] = {}]
            /\ conn_list' = conn_list \ Removed(ch)
            /\ link' = [d \in Conns |-> IF d \in Removed(ch) THEN "reset" ELSE link[d]]
            /\ chan' = [d \in Conns |-> IF d \in Removed(ch) THEN <<>> ELSE chan[d]]
       ELSE /\ devpaths' = [devpaths EXCEPT ![ch] = NcFindDpp(c)]
            /\ chan' = [chan EXCEPT ![c] = Tail(@)]
            /\ UNCHANGED <<conn_list, link>>
    /\ UNCHANGED <<clientVars, backlog, stored>>

\* Mutants of CloseDevice: the host is removed with one open left; never; and a
\* close is not acknowledged.
CloseDevice_OneLeft(c) == CloseWith(c, 2, TRUE)
CloseDevice_NeverLast(c) == CloseWith(c, 0, TRUE)
CloseDevice_NoAck(c) == CloseWith(c, 1, FALSE)

\* net_client_data, len 1: the host is removed with its last close.
CloseDevice(c) == CloseWith(c, 1, TRUE)

ServerStep(c) == OpenDevice(c) \/ ReadData(c) \/ CloseDevice(c)

\* What a tracer that runs does sooner or later; sending data, giving up on an
\* acknowledgement and what follows a failed start are not among it.
ClientStep(c) == \/ Connect(c) \/ SendOpen(c) \/ RecvAck(c) \/ RecvReset(c)
                 \/ Unblocked(c) \/ SendEnds(c) \/ SendClose(c)
                 \/ Disconnect(c)

\* All runs have ended. The server waits for more; what a dead client left
\* open stays open.
Idle ==
    /\ \A c \in Conns : st[c] = "end" /\ (c \in conn_list => chan[c] = <<>>)
    /\ backlog = <<>>
    /\ UNCHANGED vars

Next ==
    \/ \E c \in Conns : ClientStep(c) \/ SendData(c) \/ RecvGivenUp(c) \/ ServerStep(c)
    \/ \E c \in Conns : StartFails(c) \/ ConnectFails(c) \/ StopTracers(c)
    \/ \E r \in Runs : Interrupt(r) \/ RunExits(r) \/ Crash(r)
    \/ AddConnection
    \/ Idle

Spec == Init /\ [][Next]_vars

\* Every thread of a client runs; handle_client_data serves every connection
\* that poll reports before it polls again.
FairSpec ==
    /\ Spec
    /\ WF_vars(AddConnection)
    /\ \A c \in Conns : WF_vars(ClientStep(c)) /\ WF_vars(ServerStep(c))

-----------------------------------------------------------------------------
(* Properties. *)

DataIn(c) == Cardinality({i \in DOMAIN chan[c] : chan[c][i].op = "data"})

\* A run with send of the host did not start: it may close what it never opened, and
\* cl_opens, which only counts, falls below what is open.
Spoilt(k) == \E r \in Runs \ Sendfile : HostOf[r] = k /\ failed[r]

\* net_ch_remove closes every connection of a host and its files: a connection
\* with a device open is never among them, although cl_opens only counts, and
\* counts the opens of all runs of the host together.  device_done unmaps a host's
\* files and cuts them to their data when the last open of the host is closed, and
\* not before: files are open exactly while a connection has a device open.
OpenDevicesStay ==
    \A k \in Hosts : ~Spoilt(k) =>
        /\ \A c \in Conns : Host(c) = k /\ opened[c] # {} =>
              c \in conn_list /\ opened[c] \subseteq devpaths[k]
        /\ devpaths[k] # {} <=> \E c \in Conns : Host(c) = k /\ opened[c] # {}

\* Once the server has opened a device for a connection, all data sent on it is
\* stored or on its way, up to the client's close, whatever the other runs of the
\* same host do, unless one of them with send does not start.
OpenedIsStored ==
    \A c \in Conns :
        ~Spoilt(Host(c)) /\ (opened[c] # {} \/ stored[c] > 0) =>
            stored[c] + DataIn(c) = sent[c]

\* An interrupted run that has started ends: net_send_open_close waits without a time
\* limit for an acknowledgement, and it comes, or the server closes the connection.
InterruptedRunEnds ==
    \A r \in Runs :
        interrupted[r] ~> failed[r] \/ \A c \in Conns : RunOf[c] = r => st[c] = "end"

\* "This ensures that the server knows about all connections & devices before _any_
\* closes": a close that the server reads is of a device it has opened for that
\* connection. Violated.
KnownBeforeCloses ==
    \A c \in conn_list :
        chan[c] # <<>> /\ Head(chan[c]).op = "close" => Head(chan[c]).dev \in opened[c]

=============================================================================
