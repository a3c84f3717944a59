-------------------------- MODULE NetServer_proofs --------------------------
(***************************************************************************)
(* For any number of hosts, client runs, connections and devices, clients  *)
(* that are interrupted, die or do not start, and closes that are given    *)
(* up: at a host none of whose runs with send failed to start, the count   *)
(* of opens is that of the devices its connections have open, so that the  *)
(* server removes the host only when none is, and what is sent on a        *)
(* connection with an open device is stored.  Before that, for any sizes,  *)
(* the window of an output file, through which the server, and a client    *)
(* that writes files itself, store the data.                               *)
(***************************************************************************)
EXTENDS NetServer, MmapOutput, FiniteSetTheorems, SequenceTheorems, TLAPS

-----------------------------------------------------------------------------
(* The window that the data is stored through (MmapOutput), for every      *)
(* buffer size, buffer number and page size under the named assumptions,   *)
(* and with failing calls or without: it is always where setup_mmap's      *)
(* callers take it to be.                                                  *)

\* The offset in a new window is less than a page and within the data, and the
\* window starts on a page (fs_size & (pagesize - 1)).
LEMMA NewOffArith ==
    ASSUME NEW size \in Nat
    PROVE  /\ (size % PageSize) \in 0 .. PageSize - 1
           /\ (size % PageSize) <= size
           /\ (size - (size % PageSize)) % PageSize = 0
<1> DEFINE page == size \div PageSize
<1>1. PageSize \in Nat /\ PageSize > 0
  BY SizesAssumption
<1>2. (size % PageSize) \in 0 .. PageSize - 1
  BY <1>1
<1>3. (size % PageSize) <= size
  BY <1>1
<1>4. page \in Nat /\ size - (size % PageSize) = PageSize * page
  BY <1>1
<1>5. (PageSize * page) % PageSize = 0
  <2> HIDE DEF page
  <2> QED  BY <1>1, <1>4
<1> QED
  BY <1>2, <1>3, <1>4, <1>5

\* A new window takes the next read (what setup_mmap is called for).
LEMMA NewWindowArith ==
    ASSUME NEW size \in Nat
    PROVE  /\ Nr * BufSize - (size % PageSize) \in Nat
           /\ (size % PageSize) + BufSize <= Nr * BufSize - (size % PageSize)
<1> DEFINE window == Nr * BufSize
<1>1. window \in Nat /\ BufSize \in Nat /\ PageSize \in Nat
  BY SizesAssumption DEF Nr
<1>2. BufSize + 2 * (PageSize - 1) <= window
  BY WindowAssumption
<1>3. (size % PageSize) \in 0 .. PageSize - 1
  BY NewOffArith
<1> HIDE DEF window
<1>4. window - (size % PageSize) \in Nat /\ (size % PageSize) + BufSize <= window - (size % PageSize)
  BY <1>1, <1>2, <1>3
<1> QED
  BY <1>4 DEF window

\* The first reads, the windows and the failures keep OutputIInv.
THEOREM OutputInvariant == OutputSpec => []OutputIInv
<1>1. OutputInit => OutputIInv
  BY DEF OutputInit, OutputIInv, OutputTypeOK, ReadFitsWindow, WindowInFile, AppendsAtEnd, WindowAligned
<1>2. OutputIInv /\ [OutputNext]_outputVars => OutputIInv'
  <2> SUFFICES ASSUME OutputIInv, [OutputNext]_outputVars
               PROVE  OutputIInv'
    OBVIOUS
  <2> USE DEF OutputIInv, OutputTypeOK, ReadFitsWindow, WindowInFile, AppendsAtEnd
  <2>1. CASE KeepWindow
    BY <2>1 DEF KeepWindow, HasRoom, WindowAligned
  <2>2. CASE NewWindow
    <3> DEFINE window == Nr * BufSize
    <3>1. /\ NewOff \in Nat
          /\ NewOff <= fs_size
          /\ (fs_size - NewOff) % PageSize = 0
      BY NewOffArith, SizesAssumption DEF NewOff
    <3>2. /\ NewLen \in Nat
          /\ NewOff + BufSize <= NewLen
          /\ BufSize \in Nat
      BY NewWindowArith, SizesAssumption DEF NewOff, NewLen
    <3>3. /\ pc' = "filling"
          /\ fs_off' = NewOff
          /\ fs_buf_len' = NewLen
          /\ fs_max_size' = fs_max_size + NewLen
          /\ fs_size' = fs_size
      BY <2>2 DEF NewWindow, NewMax, NewBase
    <3>4. \/ /\ file_len' = fs_max_size'
             /\ fs_buf' = "mapped"
             /\ map_base' = fs_size - NewOff
          \/ /\ fs_buf' # "mapped"
             /\ fs_buf' \in {"null", "failed"}
             /\ map_base' = map_base
             /\ file_len' \in {file_len, fs_max_size'}
      BY <2>2 DEF NewWindow, NewMax, NewBase
    <3>5. WindowAligned'
      BY <3>1, <3>3, <3>4 DEF WindowAligned
    <3> QED
      BY <3>1, <3>2, <3>3, <3>4, <3>5
  <2>3. CASE Read
    <3>1. WindowAligned'
      BY <2>3 DEF Read, WindowAligned
    <3> QED
      BY <2>3, <3>1, SizesAssumption DEF Read
  <2>4. CASE CloseIop
    BY <2>4 DEF CloseIop, WindowAligned
  <2>5. CASE UNCHANGED outputVars
    BY <2>5 DEF outputVars, WindowAligned
  <2> QED
    BY <2>1, <2>2, <2>3, <2>4, <2>5 DEF OutputNext, Closed
<1> QED
  BY <1>1, <1>2, PTL DEF OutputSpec

\* Type correctness of the model of struct mmap_info.
THEOREM OutputTypeCorrect == OutputSpec => []OutputTypeOK
<1>1. OutputIInv => OutputTypeOK
  BY DEF OutputIInv
<1> QED
  BY <1>1, OutputInvariant, PTL

\* Every read that follows setup_mmap fits the window it is given.
THEOREM ReadsFit == OutputSpec => []ReadFitsWindow
<1>1. OutputIInv => ReadFitsWindow
  BY DEF OutputIInv
<1> QED
  BY <1>1, OutputInvariant, PTL

\* The mapping stays inside the file, so that no store hits a missing page.
THEOREM MappingInsideFile == OutputSpec => []WindowInFile
<1>1. OutputIInv => WindowInFile
  BY DEF OutputIInv
<1> QED
  BY <1>1, OutputInvariant, PTL

\* The file is filled from its start without a hole or an overlap.
THEOREM FilledInOrder == OutputSpec => []AppendsAtEnd
<1>1. OutputIInv => AppendsAtEnd
  BY DEF OutputIInv
<1> QED
  BY <1>1, OutputInvariant, PTL

\* mmap is only ever called with an offset it accepts.
THEOREM OffsetsAligned == OutputSpec => []WindowAligned
<1>1. OutputIInv => WindowAligned
  BY DEF OutputIInv
<1> QED
  BY <1>1, OutputInvariant, PTL

-----------------------------------------------------------------------------
(* The inductive invariant. *)

\* The devices of the messages op in the channel q.
Named(q, op) == {q[i].dev : i \in {j \in 1 .. Len(q) : q[j].op = op}}

\* A channel holds opens, then data, then closes; no device is opened or closed twice.
InOrder(q) ==
    \A i, j \in 1 .. Len(q) : i < j =>
        /\ q[i].op = "data" => q[j].op # "open"
        /\ q[i].op = "close" => q[j].op = "close"
        /\ q[i].op \in {"open", "close"} /\ q[j].op = q[i].op => q[i].dev # q[j].dev

\* What the server has open for c once it has read the opens that are on their way.
WillBeOpen(c) == opened[c] \cup Named(chan[c], "open")

\* The channel follows what the server has open.
ChanInv(c) ==
    /\ InOrder(chan[c])
    /\ Named(chan[c], "open") \cap opened[c] = {}
    /\ Named(chan[c], "data") \cup Named(chan[c], "close") \subseteq WillBeOpen(c)
    /\ opened[c] # {} => c \in conn_list

\* The server has not been told of c.
Unknown(c) == c \notin conn_list /\ \A i \in 1 .. Len(backlog) : backlog[i] # c

\* What the client has yet to do fits what it has sent.
ClientInv(c) ==
    /\ st[c] \in {"new", "open", "send"} => Named(chan[c], "close") = {}
    /\ st[c] \in {"new", "open"} =>
          /\ Named(chan[c], "data") = {} /\ sent[c] = 0
          /\ IsInjective(todo[c])
          /\ ToSet(todo[c]) \cap WillBeOpen(c) = {}
          /\ link[c] # "reset" => ToSet(todo[c]) \cup WillBeOpen(c) = ToSet(DevsOf[c])
    /\ st[c] = "send" /\ link[c] = "up" => WillBeOpen(c) = ToSet(DevsOf[c])
    /\ st[c] = "close" =>
          /\ IsInjective(todo[c])
          /\ ToSet(todo[c]) \cap Named(chan[c], "close") = {}
          /\ link[c] = "up" => ToSet(todo[c]) \subseteq WillBeOpen(c)
    /\ st[c] = "new" => link[c] = "none"
    /\ st[c] \in {"open", "send", "close"} => link[c] \in {"up", "reset"}
    /\ st[c] = "new" => Unknown(c)

\* Where a connection sends no data any more.
Over == {"close", "failed", "end"}

\* Data is stored or on its way; a connection the server has closed had no device open
\* and no data on its way that anybody waits for.
DataInv(c) ==
    /\ stored[c] > 0 => Named(chan[c], "open") = {}
    /\ link[c] # "reset" => stored[c] + DataIn(c) = sent[c]
    /\ link[c] = "reset" => /\ chan[c] = <<>> /\ opened[c] = {}
                            /\ stored[c] > 0 => stored[c] = sent[c] /\ st[c] \in Over

\* cl_opens counts the devices that the connections of a host have open.
OpenAt(k) == {p \in Conns \X Devs : Host(p[1]) = k /\ p[2] \in opened[p[1]]}

HostInv(k) ==
    /\ IsFiniteSet(OpenAt(k)) /\ cl_opens[k] = Cardinality(OpenAt(k))
    /\ devpaths[k] # {} => OpenAt(k) # {}
    /\ \A p \in OpenAt(k) : p[2] \in devpaths[k]

ClientTypes ==
    /\ st \in [Conns -> {"new", "open", "send", "close", "failed", "end"}]
    /\ todo \in [Conns -> Seq(Devs)]
    /\ waiting \in [Conns -> BOOLEAN]
    /\ interrupted \in [Runs -> BOOLEAN] /\ failed \in [Runs -> BOOLEAN]
    /\ sent \in [Conns -> Nat] /\ \A c \in Conns : sent[c] <= DataOf[c]

Msgs == [op : {"open", "data", "close"}, dev : Devs]

NetTypes ==
    /\ link \in [Conns -> {"none", "up", "shut", "reset"}]
    /\ chan \in [Conns -> Seq(Msgs)]
    /\ acks \in [Conns -> Nat]
    /\ backlog \in Seq(Conns)

ServerTypes ==
    /\ conn_list \subseteq Conns
    /\ cl_opens \in [Hosts -> Int]
    /\ devpaths \in [Hosts -> SUBSET Devs]
    /\ opened \in [Conns -> SUBSET Devs]
    /\ stored \in [Conns -> Nat]

Types == ClientTypes /\ NetTypes /\ ServerTypes

ConnInv(c) == ChanInv(c) /\ ClientInv(c) /\ DataInv(c)

\* Of a host on whose connections nothing is closed that was not opened.
Sound(k) == HostInv(k) /\ \A c \in Conns : Host(c) = k => ConnInv(c)

\* At any host, no data is stored that was not sent.
NoneMadeUp(c) == stored[c] + DataIn(c) <= sent[c]

IInv ==
    /\ Types
    /\ \A c \in Conns : NoneMadeUp(c)
    /\ \A k \in Hosts : Spoilt(k) \/ Sound(k)

-----------------------------------------------------------------------------
(* A channel to which a message is appended, or whose first one is read. *)

USE HostsAssumption, ConnsAssumption, DataAssumption, CrashAssumption

Datas(q) == {i \in 1 .. Len(q) : q[i].op = "data"}

LEMMA SeqFacts ==
    ASSUME NEW S, NEW q \in Seq(S)
    PROVE  /\ \A m \in S : /\ Append(q, m) \in Seq(S) /\ Len(Append(q, m)) = Len(q) + 1
                           /\ \A i \in 1 .. Len(q) : Append(q, m)[i] = q[i]
                           /\ Append(q, m)[Len(q) + 1] = m
           /\ q # <<>> => /\ Head(q) = q[1] /\ Head(q) \in S /\ Len(q) \in Nat \ {0}
                          /\ Tail(q) \in Seq(S) /\ Len(Tail(q)) = Len(q) - 1
                          /\ \A i \in 1 .. Len(q) - 1 : Tail(q)[i] = q[i + 1]
<1>1. q # <<>> => Len(q) \in Nat \ {0}
  BY EmptySeq
<1>2. q # <<>> => /\ Head(q) \in S /\ Tail(q) \in Seq(S) /\ Len(Tail(q)) = Len(q) - 1
                  /\ \A i \in 1 .. Len(Tail(q)) : Tail(q)[i] = q[i + 1]
  BY HeadTailProperties
<1>3. q # <<>> => Head(q) = q[1]
  BY <1>1
<1>4. ASSUME NEW m \in S
      PROVE  /\ Append(q, m) \in Seq(S) /\ Len(Append(q, m)) = Len(q) + 1
             /\ \A i \in 1 .. Len(q) : Append(q, m)[i] = q[i]
             /\ Append(q, m)[Len(q) + 1] = m
  OBVIOUS
<1> QED
  BY <1>1, <1>2, <1>3, <1>4

LEMMA NamedAppend ==
    ASSUME NEW q \in Seq(Msgs), NEW m \in Msgs, NEW op
    PROVE  Named(Append(q, m), op) = Named(q, op) \cup IF m.op = op THEN {m.dev} ELSE {}
<1> DEFINE r == Append(q, m)
<1>1. /\ Len(q) \in Nat /\ Len(r) = Len(q) + 1 /\ r[Len(q) + 1] = m
      /\ \A i \in 1 .. Len(q) : r[i] = q[i]
  BY SeqFacts
<1> HIDE DEF r
<1>2. \A i \in 1 .. Len(r) : i \in 1 .. Len(q) \/ i = Len(q) + 1
  BY <1>1
<1>3. \A i \in 1 .. Len(q) : i \in 1 .. Len(r)
  BY <1>1
<1>4. Len(q) + 1 \in 1 .. Len(r)
  BY <1>1
<1>5. ASSUME NEW d \in Named(r, op)
      PROVE  d \in Named(q, op) \cup IF m.op = op THEN {m.dev} ELSE {}
  <2>1. PICK i \in 1 .. Len(r) : r[i].op = op /\ d = r[i].dev
    BY DEF Named
  <2> QED
    BY <1>1, <1>2, <2>1 DEF Named
<1>6. ASSUME NEW d \in Named(q, op) PROVE d \in Named(r, op)
  <2>1. PICK i \in 1 .. Len(q) : q[i].op = op /\ d = q[i].dev
    BY DEF Named
  <2> QED
    BY <1>1, <1>3, <2>1 DEF Named
<1>7. m.op = op => m.dev \in Named(r, op)
  BY <1>1, <1>4 DEF Named
<1> QED
  BY <1>5, <1>6, <1>7 DEF r

LEMMA NamedTail ==
    ASSUME NEW q \in Seq(Msgs), q # <<>>, NEW op
    PROVE  Named(q, op) = Named(Tail(q), op) \cup IF Head(q).op = op THEN {Head(q).dev} ELSE {}
<1> DEFINE r == Tail(q)
<1>1. /\ Len(q) \in Nat \ {0} /\ Len(r) = Len(q) - 1 /\ Head(q) = q[1]
      /\ \A i \in 1 .. Len(q) - 1 : r[i] = q[i + 1]
  BY SeqFacts
<1> HIDE DEF r
<1>2. \A i \in 1 .. Len(q) : i = 1 \/ (i - 1 \in 1 .. Len(r) /\ r[i - 1] = q[i])
  BY <1>1
<1>3. \A i \in 1 .. Len(r) : i + 1 \in 1 .. Len(q) /\ r[i] = q[i + 1]
  BY <1>1
<1>4. 1 \in 1 .. Len(q)
  BY <1>1
<1>5. ASSUME NEW d \in Named(q, op)
      PROVE  d \in Named(r, op) \cup IF Head(q).op = op THEN {Head(q).dev} ELSE {}
  <2>1. PICK i \in 1 .. Len(q) : q[i].op = op /\ d = q[i].dev
    BY DEF Named
  <2> QED
    BY <1>1, <1>2, <2>1, ZenonT(30) DEF Named
<1>6. ASSUME NEW d \in Named(r, op) PROVE d \in Named(q, op)
  <2>1. PICK i \in 1 .. Len(r) : r[i].op = op /\ d = r[i].dev
    BY DEF Named
  <2> QED
    BY <1>3, <2>1 DEF Named
<1>7. Head(q).op = op => Head(q).dev \in Named(q, op)
  BY <1>1, <1>4 DEF Named
<1> QED
  BY <1>5, <1>6, <1>7 DEF r

LEMMA OrderAppend ==
    ASSUME NEW q \in Seq(Msgs), NEW m \in Msgs, InOrder(q),
           m.op = "open" => Named(q, "data") = {},
           m.op # "close" => Named(q, "close") = {},
           m.op \in {"open", "close"} => m.dev \notin Named(q, m.op)
    PROVE  InOrder(Append(q, m))
<1> DEFINE r == Append(q, m)
<1>1. /\ Len(q) \in Nat /\ Len(r) = Len(q) + 1 /\ r[Len(q) + 1] = m
      /\ \A i \in 1 .. Len(q) : r[i] = q[i]
  BY SeqFacts
<1> HIDE DEF r
<1>2. ASSUME NEW i \in 1 .. Len(r), NEW j \in 1 .. Len(r), i < j
      PROVE  /\ r[i].op = "data" => r[j].op # "open"
             /\ r[i].op = "close" => r[j].op = "close"
             /\ r[i].op \in {"open", "close"} /\ r[j].op = r[i].op => r[i].dev # r[j].dev
  <2>1. i \in 1 .. Len(q) /\ r[i] = q[i]
    BY <1>1, <1>2
  <2>2. CASE j \in 1 .. Len(q)
    BY <1>1, <1>2, <2>1, <2>2, SMTT(30) DEF InOrder
  <2>3. CASE j = Len(q) + 1
    <3>1. r[j] = m /\ q[i].dev \in Named(q, q[i].op)
      BY <1>1, <2>1, <2>3 DEF Named
    <3> QED
      BY <2>1, <3>1
  <2> QED
    BY <1>1, <2>2, <2>3
<1> QED
  BY <1>2 DEF InOrder, r

\* The first message of a channel, and what comes behind it.
LEMMA OrderTail ==
    ASSUME NEW q \in Seq(Msgs), q # <<>>, InOrder(q)
    PROVE  /\ InOrder(Tail(q))
           /\ Head(q).op \in {"open", "close"} => Head(q).dev \notin Named(Tail(q), Head(q).op)
           /\ Head(q).op # "open" => Named(Tail(q), "open") = {}
           /\ Head(q).op = "close" => Named(Tail(q), "data") = {}
<1> DEFINE r == Tail(q)
<1>1. /\ Len(q) \in Nat \ {0} /\ Len(r) = Len(q) - 1 /\ Head(q) = q[1] /\ Head(q) \in Msgs
      /\ \A i \in 1 .. Len(q) - 1 : r[i] = q[i + 1]
  BY SeqFacts
<1> HIDE DEF r
<1>2. \A i \in 1 .. Len(r) : i + 1 \in 1 .. Len(q) /\ r[i] = q[i + 1] /\ 1 < i + 1
  BY <1>1
<1>3. ASSUME NEW i \in 1 .. Len(q), NEW j \in 1 .. Len(q), i < j
      PROVE  /\ q[i].op = "data" => q[j].op # "open"
             /\ q[i].op = "close" => q[j].op = "close"
             /\ q[i].op \in {"open", "close"} /\ q[j].op = q[i].op => q[i].dev # q[j].dev
  BY <1>3 DEF InOrder
<1>4. InOrder(r)
  <2>1. ASSUME NEW i \in 1 .. Len(r), NEW j \in 1 .. Len(r), i < j
        PROVE  /\ r[i].op = "data" => r[j].op # "open"
               /\ r[i].op = "close" => r[j].op = "close"
               /\ r[i].op \in {"open", "close"} /\ r[j].op = r[i].op => r[i].dev # r[j].dev
    <3>1. i + 1 \in 1 .. Len(q) /\ j + 1 \in 1 .. Len(q) /\ i + 1 < j + 1
      BY <1>2, <2>1
    <3>2. r[i] = q[i + 1] /\ r[j] = q[j + 1]
      BY <1>2
    <3> QED
      BY <1>3, <3>1, <3>2
  <2> QED
    BY <2>1 DEF InOrder
<1>5. 1 \in 1 .. Len(q)
  BY <1>1
<1>6. ASSUME NEW i \in 1 .. Len(r)
      PROVE  /\ Head(q).op = "data" => r[i].op # "open"
             /\ Head(q).op = "close" => r[i].op = "close"
             /\ Head(q).op \in {"open", "close"} /\ r[i].op = Head(q).op => r[i].dev # Head(q).dev
  <2>1. i + 1 \in 1 .. Len(q) /\ r[i] = q[i + 1] /\ 1 < i + 1
    BY <1>2
  <2>2. Head(q) = q[1]
    BY <1>1
  <2> QED
    BY <1>3, <1>5, <2>1, <2>2
<1>7. Head(q).op \in {"open", "data", "close"}
  BY <1>1 DEF Msgs
<1>8. Head(q).op \in {"open", "close"} => Head(q).dev \notin Named(r, Head(q).op)
  BY <1>6 DEF Named
<1>9. Head(q).op # "open" => Named(r, "open") = {}
  BY <1>6, <1>7 DEF Named
<1>10. Head(q).op = "close" => Named(r, "data") = {}
  BY <1>6 DEF Named
<1> QED
  BY <1>4, <1>8, <1>9, <1>10 DEF r

LEMMA DatasFinite ==
    ASSUME NEW q \in Seq(Msgs)
    PROVE  IsFiniteSet(Datas(q)) /\ Cardinality(Datas(q)) \in Nat
<1>1. IsFiniteSet(1 .. Len(q))
  BY FS_Interval
<1>2. Datas(q) \in SUBSET (1 .. Len(q))
  BY DEF Datas
<1> QED
  BY <1>1, <1>2, FS_Subset, FS_CardinalityType

LEMMA DatasAppend ==
    ASSUME NEW q \in Seq(Msgs), NEW m \in Msgs
    PROVE  Cardinality(Datas(Append(q, m)))
              = Cardinality(Datas(q)) + IF m.op = "data" THEN 1 ELSE 0
<1> DEFINE r == Append(q, m)
<1>1. /\ Len(q) \in Nat /\ Len(r) = Len(q) + 1 /\ r[Len(q) + 1] = m
      /\ \A i \in 1 .. Len(q) : r[i] = q[i]
  BY SeqFacts
<1>2. IsFiniteSet(Datas(q)) /\ Cardinality(Datas(q)) \in Nat
  BY DatasFinite
<1> HIDE DEF r
<1>3. Len(q) + 1 \notin Datas(q)
  BY <1>1 DEF Datas
<1>4. CASE m.op = "data"
  <2>1. Datas(r) = Datas(q) \cup {Len(q) + 1}
    BY <1>1, <1>4 DEF Datas
  <2> QED
    BY <1>2, <1>3, <1>4, <2>1, FS_AddElement DEF r
<1>5. CASE m.op # "data"
  <2>1. Datas(r) = Datas(q)
    BY <1>1, <1>5 DEF Datas
  <2> QED
    BY <1>2, <1>5, <2>1 DEF r
<1> QED
  BY <1>4, <1>5

LEMMA DatasTail ==
    ASSUME NEW q \in Seq(Msgs), q # <<>>
    PROVE  Cardinality(Datas(q))
              = Cardinality(Datas(Tail(q))) + IF Head(q).op = "data" THEN 1 ELSE 0
<1> DEFINE r == Tail(q)
           f == [i \in Datas(q) \ {1} |-> i - 1]
<1>1. /\ Len(q) \in Nat \ {0} /\ Len(r) = Len(q) - 1 /\ Head(q) = q[1] /\ r \in Seq(Msgs)
      /\ \A i \in 1 .. Len(q) - 1 : r[i] = q[i + 1]
  BY SeqFacts
<1>2. /\ IsFiniteSet(Datas(q)) /\ Cardinality(Datas(q)) \in Nat
      /\ IsFiniteSet(Datas(r)) /\ Cardinality(Datas(r)) \in Nat
  BY <1>1, DatasFinite
<1> HIDE DEF r
<1>3. ASSUME NEW i \in Datas(q) \ {1}
      PROVE  i \in Nat /\ i - 1 \in Datas(r)
  <2>1. i \in 1 .. Len(q) /\ i # 1 /\ q[i].op = "data"
    BY DEF Datas
  <2>2. i - 1 \in 1 .. Len(q) - 1 /\ (i - 1) + 1 = i
    BY <1>1, <2>1
  <2>3. r[i - 1] = q[i]
    BY <1>1, <2>2
  <2> QED
    BY <1>1, <2>1, <2>2, <2>3 DEF Datas
<1>4. \A j \in Datas(r) : j + 1 \in Datas(q) \ {1} /\ (j + 1) - 1 = j
  BY <1>1 DEF Datas
<1>5. IsFiniteSet(Datas(q) \ {1})
      /\ Cardinality(Datas(q) \ {1}) = IF 1 \in Datas(q) THEN Cardinality(Datas(q)) - 1 ELSE Cardinality(Datas(q))
  BY <1>2, FS_RemoveElement
<1>6. ExistsBijection(Datas(q) \ {1}, Datas(r))
  <2>1. f \in [Datas(q) \ {1} -> Datas(r)]
    BY <1>3
  <2>2. \A x, y \in Datas(q) \ {1} : f[x] = f[y] => x = y
    BY <1>3
  <2>3. \A j \in Datas(r) : \E x \in Datas(q) \ {1} : f[x] = j
    BY <1>4
  <2>4. f \in Bijection(Datas(q) \ {1}, Datas(r))
    <3> HIDE DEF f
    <3> QED
      BY <2>1, <2>2, <2>3 DEF Bijection, Injection, Surjection, IsInjective
  <2> QED
    BY <2>4 DEF ExistsBijection
<1>7. Cardinality(Datas(r)) = Cardinality(Datas(q) \ {1})
  BY <1>5, <1>6, FS_Bijection
<1>8. 1 \in Datas(q) <=> Head(q).op = "data"
  BY <1>1 DEF Datas
<1> QED
  BY <1>2, <1>5, <1>7, <1>8 DEF r

\* What DataIn counts is Datas of the channel.
LEMMA DatasOfChannel ==
    ASSUME NEW q \in Seq(Msgs)
    PROVE  {i \in DOMAIN q : q[i].op = "data"} = Datas(q)
<1>1. DOMAIN q = 1 .. Len(q)
  OBVIOUS
<1> QED
  BY <1>1 DEF Datas

LEMMA NamedEmpty ==
    /\ InOrder(<<>>) /\ Datas(<<>>) = {}
    /\ \A op : Named(<<>>, op) = {}
  BY DEF InOrder, Datas, Named

-----------------------------------------------------------------------------
(* Types. *)

LEMMA InitTypes ==
    ASSUME Init PROVE Types
  BY DEF Init, Types, ClientTypes, NetTypes, ServerTypes

LEMMA ClientTypesStep ==
    ASSUME Types, Next PROVE ClientTypes'
<1> USE DEF Types, ClientTypes
<1>1. ASSUME NEW c \in Conns, ClientStep(c) PROVE ClientTypes'
  <2>1. CASE Connect(c) \/ RecvAck(c) \/ RecvReset(c) \/ Unblocked(c) \/ Disconnect(c)
    BY <2>1 DEF Connect, RecvAck, RecvReset, Unblocked, Disconnect, netVars, serverVars
  <2>2. CASE SendOpen(c) \/ SendClose(c)
    <3>1. todo[c] # <<>> => Tail(todo[c]) \in Seq(Devs)
      BY SeqFacts
    <3>2. /\ todo[c] # <<>> /\ todo' = [todo EXCEPT ![c] = Tail(@)]
          /\ waiting' = [waiting EXCEPT ![c] = TRUE]
          /\ UNCHANGED <<st, interrupted, failed, sent>>
      BY <2>2 DEF SendOpen, SendClose, ToOpen
    <3>3. todo' \in [Conns -> Seq(Devs)]
      BY <3>1, <3>2
    <3>4. waiting' \in [Conns -> BOOLEAN]
      BY <3>2
    <3> QED
      BY <3>2, <3>3, <3>4
  <2>3. CASE SendEnds(c)
    BY <2>3 DEF SendEnds, netVars, serverVars
  <2> QED
    BY <1>1, <2>1, <2>2, <2>3 DEF ClientStep
<1>a. ASSUME NEW c \in Conns, StartFails(c) PROVE ClientTypes'
  BY <1>a DEF StartFails, netVars, serverVars
<1>b. ASSUME NEW c \in Conns, ConnectFails(c) PROVE ClientTypes'
  BY <1>b DEF ConnectFails, netVars, serverVars
<1>c. ASSUME NEW c \in Conns, StopTracers(c) PROVE ClientTypes'
  BY <1>c DEF StopTracers, netVars, serverVars
<1>d. ASSUME NEW r \in Runs, RunExits(r) PROVE ClientTypes'
  BY <1>d DEF RunExits, serverVars
<1>2. ASSUME NEW c \in Conns, SendData(c) PROVE ClientTypes'
  <2>1. DataOf[c] \in Nat /\ sent[c] < DataOf[c] /\ sent[c] + 1 <= DataOf[c]
    BY <1>2 DEF SendData
  <2> QED
    BY <1>2, <2>1 DEF SendData, serverVars
<1>3. ASSUME NEW c \in Conns, RecvGivenUp(c) PROVE ClientTypes'
  BY <1>3 DEF RecvGivenUp, netVars, serverVars
<1>4. ASSUME NEW c \in Conns, ServerStep(c) PROVE ClientTypes'
  BY <1>4 DEF ServerStep, OpenDevice, OpenWith, ReadData, CloseDevice, CloseWith, clientVars
<1>5. ASSUME NEW r \in Runs, Interrupt(r) PROVE ClientTypes'
  BY <1>5 DEF Interrupt, netVars, serverVars
<1>6. ASSUME NEW r \in Runs, Crash(r) PROVE ClientTypes'
  BY <1>6 DEF Crash, serverVars
<1>7. CASE AddConnection
  BY <1>7 DEF AddConnection, clientVars
<1>8. CASE Idle
  BY <1>8 DEF Idle, vars, clientVars
<1> QED
  BY <1>1, <1>a, <1>b, <1>c, <1>d, <1>2, <1>3, <1>4, <1>5, <1>6, <1>7, <1>8 DEF Next

LEMMA NetTypesStep ==
    ASSUME Types, Next PROVE NetTypes'
<1> USE DEF Types, NetTypes
<1>0. ASSUME NEW c \in Conns, NEW m \in Msgs, Send(c, m) PROVE chan' \in [Conns -> Seq(Msgs)]
  <2>1. Append(chan[c], m) \in Seq(Msgs)
    BY SeqFacts
  <2> QED
    BY <1>0, <2>1 DEF Send
<1>a. ASSUME NEW c \in Conns, NEW d \in Devs, NEW op \in {"open", "data", "close"}
      PROVE  Msg(op, d) \in Msgs
  BY DEF Msg, Msgs
<1>b. ASSUME NEW c \in Conns, chan[c] # <<>> PROVE Tail(chan[c]) \in Seq(Msgs)
  BY <1>b, SeqFacts
<1>c. ASSUME NEW c \in Conns, todo[c] # <<>> PROVE Head(todo[c]) \in Devs
  BY <1>c, SeqFacts DEF ClientTypes
<1>d. ASSUME NEW c \in Conns PROVE ToSet(DevsOf[c]) \subseteq Devs
  BY DEF Devs
<1>1. ASSUME NEW c \in Conns, ClientStep(c) PROVE NetTypes'
  <2>1. CASE Connect(c)
    BY <2>1 DEF Connect
  <2>2. CASE RecvReset(c) \/ Unblocked(c) \/ SendEnds(c)
    BY <2>2 DEF RecvReset, Unblocked, SendEnds, netVars
  <2>3. CASE Disconnect(c)
    BY <2>3 DEF Disconnect
  <2>4. CASE RecvAck(c)
    <3>1. acks[c] - 1 \in Nat
      BY <2>4 DEF RecvAck
    <3> QED
      BY <2>4, <3>1 DEF RecvAck
  <2>5. CASE SendOpen(c)
    <3>1. PICK m \in Msgs : Send(c, m)
      BY <2>5, <1>a, <1>c DEF SendOpen, ToOpen
    <3> QED
      BY <2>5, <1>0, <3>1 DEF SendOpen
  <2>6. CASE SendClose(c)
    <3>1. PICK m \in Msgs : Send(c, m)
      BY <2>6, <1>a, <1>c DEF SendClose
    <3> QED
      BY <2>6, <1>0, <3>1 DEF SendClose
  <2> QED
    BY <1>1, <2>1, <2>2, <2>3, <2>4, <2>5, <2>6 DEF ClientStep
<1>2. ASSUME NEW c \in Conns, SendData(c) PROVE NetTypes'
  <2>1. PICK m \in Msgs : Send(c, m)
    BY <1>2, <1>a, <1>d DEF SendData
  <2> QED
    BY <1>2, <1>0, <2>1 DEF SendData
<1>3. ASSUME NEW c \in Conns, RecvGivenUp(c) PROVE NetTypes'
  BY <1>3 DEF RecvGivenUp, netVars
<1>4. ASSUME NEW c \in Conns, ServerStep(c) PROVE NetTypes'
  <2>1. CASE OpenDevice(c)
    BY <2>1, <1>b DEF OpenDevice, OpenWith, Header, Ack
  <2>2. CASE ReadData(c)
    BY <2>2, <1>b DEF ReadData, Header
  <2>3. CASE CloseDevice(c)
    <3>1. acks' \in [Conns -> Nat]
      <4>1. acks' = [acks EXCEPT ![c] = @ + 1]
        BY <2>3 DEF CloseDevice, CloseWith, Ack
      <4> QED
        BY <4>1
    <3>2. chan' \in [Conns -> Seq(Msgs)]
      <4>1. Tail(chan[c]) \in Seq(Msgs) /\ <<>> \in Seq(Msgs)
        BY <2>3, <1>b DEF CloseDevice, CloseWith, Header
      <4>2. CASE cl_opens[Host(c)] = 1
        BY <2>3, <4>1, <4>2 DEF CloseDevice, CloseWith
      <4>3. CASE cl_opens[Host(c)] # 1
        <5>1. chan' = [chan EXCEPT ![c] = Tail(@)]
          BY <2>3, <4>3 DEF CloseDevice, CloseWith
        <5> QED
          BY <4>1, <5>1
      <4> QED
        BY <4>2, <4>3
    <3>3. link' \in [Conns -> {"none", "up", "shut", "reset"}]
      <4>1. \/ link' = link
            \/ link' = [d \in Conns |-> IF d \in Removed(Host(c)) THEN "reset" ELSE link[d]]
        BY <2>3 DEF CloseDevice, CloseWith
      <4> QED
        BY <4>1
    <3>4. backlog' = backlog
      BY <2>3 DEF CloseDevice, CloseWith
    <3> QED
      BY <3>1, <3>2, <3>3, <3>4
  <2> QED
    BY <1>4, <2>1, <2>2, <2>3 DEF ServerStep
<1>5. ASSUME NEW r \in Runs, Interrupt(r) PROVE NetTypes'
  BY <1>5 DEF Interrupt, netVars
<1>e. ASSUME NEW c \in Conns, StartFails(c) \/ ConnectFails(c) \/ StopTracers(c) PROVE NetTypes'
  BY <1>e DEF StartFails, ConnectFails, StopTracers, netVars
<1>f. ASSUME NEW r \in Runs, RunExits(r) PROVE NetTypes'
  BY <1>f DEF RunExits
<1>6. ASSUME NEW r \in Runs, Crash(r) PROVE NetTypes'
  BY <1>6 DEF Crash
<1>7. CASE AddConnection
  <2>1. Tail(backlog) \in Seq(Conns)
    BY <1>7, SeqFacts DEF AddConnection
  <2> QED
    BY <1>7, <2>1 DEF AddConnection
<1>8. CASE Idle
  BY <1>8 DEF Idle, vars, netVars
<1> QED
  BY <1>1, <1>2, <1>3, <1>4, <1>5, <1>e, <1>f, <1>6, <1>7, <1>8 DEF Next

LEMMA ServerTypesStep ==
    ASSUME Types, Next PROVE ServerTypes'
<1> USE DEF Types, ServerTypes
<1>a. ASSUME NEW c \in Conns PROVE Host(c) \in Hosts
  BY DEF Host
<1>b. ASSUME NEW c \in Conns, chan[c] # <<>> PROVE Head(chan[c]).dev \in Devs
  <2>1. Head(chan[c]) \in Msgs
    BY <1>b, SeqFacts DEF NetTypes
  <2> QED
    BY <2>1 DEF Msgs
<1>1. ASSUME NEW c \in Conns, ClientStep(c) \/ SendData(c) \/ RecvGivenUp(c) PROVE ServerTypes'
  <2>1. UNCHANGED serverVars
    BY <1>1 DEF ClientStep, Connect, SendOpen, RecvAck, RecvReset, Unblocked, SendEnds,
                SendClose, Disconnect, SendData, RecvGivenUp
  <2> QED
    BY <2>1 DEF serverVars
<1>2. ASSUME NEW c \in Conns, OpenDevice(c) PROVE ServerTypes'
  <2>1. cl_opens[Host(c)] + 1 \in Int /\ NcFindDpp(c) \in SUBSET Devs
        /\ opened[c] \cup {Head(chan[c]).dev} \in SUBSET Devs
    BY <1>2, <1>a, <1>b DEF OpenDevice, OpenWith, Header, NcFindDpp
  <2> QED
    BY <1>2, <2>1 DEF OpenDevice, OpenWith
<1>3. ASSUME NEW c \in Conns, ReadData(c) PROVE ServerTypes'
  <2>1. NcFindDpp(c) \in SUBSET Devs
    BY <1>3, <1>a, <1>b DEF ReadData, Header, NcFindDpp
  <2>2. stored' = [stored EXCEPT ![c] = @ + 1] /\ stored[c] + 1 \in Nat
    BY <1>3 DEF ReadData
  <2>3. stored' \in [Conns -> Nat]
    BY <2>2
  <2>4. devpaths' \in [Hosts -> SUBSET Devs]
    BY <1>3, <2>1 DEF ReadData
  <2>5. UNCHANGED <<conn_list, cl_opens, opened>>
    BY <1>3 DEF ReadData
  <2> QED
    BY <2>3, <2>4, <2>5
<1>4. ASSUME NEW c \in Conns, CloseDevice(c) PROVE ServerTypes'
  <2>1. NcFindDpp(c) \in SUBSET Devs
    BY <1>4, <1>a, <1>b DEF CloseDevice, CloseWith, Header, NcFindDpp
  <2>2. devpaths' \in [Hosts -> SUBSET Devs]
    BY <1>4, <2>1 DEF CloseDevice, CloseWith
  <2>3. cl_opens' \in [Hosts -> Int]
    <3>1. cl_opens[Host(c)] - 1 \in Int
      BY <1>4, <1>a
    <3>2. cl_opens' = [cl_opens EXCEPT ![Host(c)] = @ - 1]
      BY <1>4 DEF CloseDevice, CloseWith
    <3> QED
      BY <3>1, <3>2
  <2>4. opened' \in [Conns -> SUBSET Devs]
    BY <1>4 DEF CloseDevice, CloseWith
  <2>5. conn_list' \subseteq Conns /\ stored' = stored
    BY <1>4 DEF CloseDevice, CloseWith
  <2> QED
    BY <2>2, <2>3, <2>4, <2>5
<1>5. ASSUME NEW r \in Runs, Interrupt(r) \/ RunExits(r) \/ Crash(r) PROVE ServerTypes'
  BY <1>5 DEF Interrupt, RunExits, Crash, serverVars
<1>6. ASSUME NEW c \in Conns, StartFails(c) \/ ConnectFails(c) \/ StopTracers(c) PROVE ServerTypes'
  BY <1>6 DEF StartFails, ConnectFails, StopTracers, serverVars
<1>7. CASE AddConnection
  <2>1. Head(backlog) \in Conns
    BY <1>7, SeqFacts DEF AddConnection, NetTypes
  <2> QED
    BY <1>7, <2>1 DEF AddConnection
<1>8. CASE Idle
  BY <1>8 DEF Idle, vars, serverVars
<1> QED
  BY <1>1, <1>2, <1>3, <1>4, <1>5, <1>6, <1>7, <1>8 DEF Next, ServerStep

-----------------------------------------------------------------------------
(* What a step leaves alone. *)

\* A step does not touch d, except that the server may hear of it.
Same(d) ==
    /\ st'[d] = st[d] /\ todo'[d] = todo[d] /\ sent'[d] = sent[d] /\ link'[d] = link[d]
    /\ chan'[d] = chan[d] /\ opened'[d] = opened[d] /\ stored'[d] = stored[d]
    /\ d \in conn_list => d \in conn_list'
    /\ Unknown(d) /\ st[d] = "new" => Unknown(d)'

LEMMA ConnFrame ==
    ASSUME NEW d \in Conns, ConnInv(d), Same(d)
    PROVE  ConnInv(d)'
<1>1. ChanInv(d)'
  BY DEF ConnInv, ChanInv, WillBeOpen, Same
<1>2. ClientInv(d)'
  BY DEF ConnInv, ClientInv, WillBeOpen, Same
<1>3. DataInv(d)'
  BY DEF ConnInv, DataInv, DataIn, Same
<1> QED
  BY <1>1, <1>2, <1>3 DEF ConnInv

\* The devices open at a host are those its connections have open.
LEMMA HostFrame ==
    ASSUME NEW k \in Hosts, HostInv(k), \A d \in Conns : Host(d) = k => opened'[d] = opened[d],
           cl_opens'[k] = cl_opens[k], devpaths'[k] = devpaths[k]
    PROVE  HostInv(k)'
<1>1. OpenAt(k)' = OpenAt(k)
  <2>1. \A p \in Conns \X Devs : p[1] \in Conns
    OBVIOUS
  <2> QED
    BY <2>1 DEF OpenAt, Host
<1> QED
  BY <1>1 DEF HostInv

\* A step that leaves a host and its connections alone.
LEMMA SoundFrame ==
    ASSUME NEW k \in Hosts, Sound(k), \A d \in Conns : Host(d) = k => Same(d),
           cl_opens'[k] = cl_opens[k], devpaths'[k] = devpaths[k]
    PROVE  Sound(k)'
<1>1. HostInv(k)'
  BY HostFrame DEF Sound, Same
<1>2. ASSUME NEW d \in Conns, Host(d) = k PROVE ConnInv(d)'
  BY <1>2, ConnFrame DEF Sound
<1> QED
  BY <1>1, <1>2 DEF Sound, Host

\* A step of one connection of the host.
LEMMA OneConn ==
    ASSUME NEW k \in Hosts, Sound(k), NEW c \in Conns, \A d \in Conns \ {c} : Same(d),
           ConnInv(c)', HostInv(k)'
    PROVE  Sound(k)'
<1>1. ASSUME NEW d \in Conns, Host(d) = k, d # c PROVE ConnInv(d)'
  BY <1>1, ConnFrame DEF Sound
<1> QED
  BY <1>1 DEF Sound, Host

\* What a client sends on a connection that is up, and on one that is not.
LEMMA SendFacts ==
    ASSUME Types, NEW c \in Conns, NEW m \in Msgs, Send(c, m)
    PROVE  /\ \A d \in Conns \ {c} : chan'[d] = chan[d]
           /\ link[c] # "up" => chan' = chan
           /\ link[c] = "up" => chan'[c] = Append(chan[c], m)
           /\ chan[c] \in Seq(Msgs)
  BY DEF Types, NetTypes, Send

\* The first device of a list is one of its connection's, and a message can name it.
LEMMA HeadMsg ==
    ASSUME Types, NEW c \in Conns, todo[c] # <<>>, NEW op \in {"open", "data", "close"}
    PROVE  Msg(op, Head(todo[c])) \in Msgs
<1>1. Head(todo[c]) \in Devs
  BY SeqFacts DEF Types, ClientTypes
<1> QED
  BY <1>1 DEF Msg, Msgs

LEMMA DataMsg ==
    ASSUME NEW c \in Conns, NEW v \in ToSet(DevsOf[c])
    PROVE  Msg("data", v) \in Msgs
  BY DEF Msg, Msgs, Devs

\* The steps of one connection's client change that connection only, and nothing of
\* the server.
ClientAct(c) == ClientStep(c) \/ SendData(c) \/ RecvGivenUp(c) \/ StopTracers(c)

LEMMA ClientFrame ==
    ASSUME Types, NEW c \in Conns, ClientAct(c)
    PROVE  UNCHANGED serverVars /\ \A d \in Conns \ {c} : Same(d)
<1>1. UNCHANGED serverVars
  BY DEF ClientAct, ClientStep, Connect, SendOpen, RecvAck, RecvReset, Unblocked, SendEnds,
         SendClose, Disconnect, SendData, RecvGivenUp, StopTracers
<1>2. \A d \in Conns \ {c} : st'[d] = st[d] /\ todo'[d] = todo[d] /\ sent'[d] = sent[d]
  BY DEF Types, ClientTypes, ClientAct, ClientStep, Connect, SendOpen, RecvAck, RecvReset,
         Unblocked, SendEnds, SendClose, Disconnect, SendData, RecvGivenUp, StopTracers
<1>3. \A d \in Conns \ {c} : link'[d] = link[d]
  BY DEF Types, NetTypes, ClientAct, ClientStep, Connect, SendOpen, RecvAck, RecvReset,
         Unblocked, SendEnds, SendClose, Disconnect, SendData, RecvGivenUp, StopTracers, netVars
<1>4. chan' = chan \/ \E m \in Msgs : Send(c, m)
  <2>1. CASE SendOpen(c)
    <3>1. todo[c] # <<>> /\ Send(c, Msg("open", Head(todo[c])))
      BY <2>1 DEF SendOpen, ToOpen
    <3> QED
      BY <3>1, HeadMsg
  <2>2. CASE SendClose(c)
    <3>1. todo[c] # <<>> /\ Send(c, Msg("close", Head(todo[c])))
      BY <2>2 DEF SendClose
    <3> QED
      BY <3>1, HeadMsg
  <2>3. CASE SendData(c)
    BY <2>3, DataMsg DEF SendData
  <2>4. CASE ~SendOpen(c) /\ ~SendClose(c) /\ ~SendData(c)
    BY <2>4 DEF ClientAct, ClientStep, Connect, RecvAck, RecvReset, Unblocked, SendEnds,
                Disconnect, RecvGivenUp, StopTracers, netVars
  <2> QED
    BY <2>1, <2>2, <2>3, <2>4
<1>5. \A d \in Conns \ {c} : chan'[d] = chan[d]
  BY <1>4, SendFacts
<1>6. backlog' = backlog \/ backlog' = Append(backlog, c)
  BY DEF ClientAct, ClientStep, Connect, SendOpen, RecvAck, RecvReset, Unblocked, SendEnds,
         SendClose, Disconnect, SendData, RecvGivenUp, StopTracers, netVars
<1>7. ASSUME NEW d \in Conns \ {c}, Unknown(d) PROVE Unknown(d)'
  <2>1. backlog \in Seq(Conns)
    BY DEF Types, NetTypes
  <2>2. ASSUME NEW i \in 1 .. Len(backlog'), backlog' = Append(backlog, c) PROVE backlog'[i] # d
    <3>1. /\ Len(backlog') = Len(backlog) + 1 /\ backlog'[Len(backlog) + 1] = c
          /\ \A j \in 1 .. Len(backlog) : backlog'[j] = backlog[j]
      BY <2>1, <2>2, SeqFacts
    <3>2. Len(backlog) \in Nat
      BY <2>1, LenProperties
    <3>3. i \in 1 .. Len(backlog) \/ i = Len(backlog) + 1
      BY <3>1, <3>2
    <3>4. \A j \in 1 .. Len(backlog) : backlog[j] # d
      BY <1>7 DEF Unknown
    <3> QED
      BY <3>1, <3>3, <3>4
  <2>3. conn_list' = conn_list
    BY <1>1 DEF serverVars
  <2> QED
    BY <1>6, <1>7, <2>2, <2>3 DEF Unknown
<1> QED
  BY <1>1, <1>2, <1>3, <1>5, <1>7 DEF Same, serverVars

\* A step of a client keeps what holds of the host, if it keeps what holds of the
\* connection.
LEMMA ClientKeeps ==
    ASSUME Types, NEW c \in Conns, NEW k \in Hosts, Host(c) = k, Sound(k), ClientAct(c),
           ConnInv(c)'
    PROVE  Sound(k)'
<1>1. UNCHANGED serverVars /\ \A d \in Conns \ {c} : Same(d)
  BY ClientFrame
<1>2. HostInv(k)'
  BY <1>1, HostFrame DEF Sound, serverVars
<1> QED
  BY <1>1, <1>2, OneConn

-----------------------------------------------------------------------------
(* The steps of a client. *)

LEMMA ConnectStep ==
    ASSUME Types, NEW c \in Conns, NEW k \in Hosts, Host(c) = k, Sound(k), Connect(c)
    PROVE  Sound(k)'
<1>1. /\ st[c] = "new" /\ st'[c] = "open" /\ link'[c] = "up" /\ backlog' = Append(backlog, c)
      /\ UNCHANGED <<todo, waiting, interrupted, sent, chan, acks, serverVars>>
  BY DEF Connect, ToConnect, Types, ClientTypes, NetTypes
<1>2. ConnInv(c)
  BY DEF Sound
<1>3. UNCHANGED <<conn_list, cl_opens, devpaths, opened, stored>>
  BY <1>1 DEF serverVars
<1>4. ChanInv(c)'
  BY <1>1, <1>2, <1>3 DEF ConnInv, ChanInv, WillBeOpen
<1>5. link[c] = "none"
  BY <1>1, <1>2 DEF ConnInv, ClientInv
<1>6. ClientInv(c)'
  BY <1>1, <1>2, <1>3, <1>5 DEF ConnInv, ClientInv, WillBeOpen
<1>7. DataInv(c)'
  BY <1>1, <1>2, <1>3, <1>5 DEF ConnInv, DataInv, DataIn
<1>8. ConnInv(c)'
  BY <1>4, <1>6, <1>7 DEF ConnInv
<1> QED
  BY <1>8, ClientKeeps DEF ClientAct, ClientStep

\* Steps that change neither what is sent nor where a connection is.
LEMMA QuietStep ==
    ASSUME NEW k \in Hosts, Sound(k), UNCHANGED <<st, todo, sent, link, chan, backlog, serverVars>>
    PROVE  Sound(k)'
<1>1. UNCHANGED <<conn_list, cl_opens, devpaths, opened, stored>>
  BY DEF serverVars
<1>2. \A d \in Conns : Same(d)
  BY <1>1 DEF Same, Unknown
<1> QED
  BY <1>1, <1>2, SoundFrame

LEMMA TodoEmpty ==
    ASSUME NEW S, NEW q \in Seq(S)
    PROVE  q = <<>> => ToSet(q) = {}
  BY DEF ToSet

LEMMA TodoTail ==
    ASSUME NEW S, NEW q \in Seq(S), q # <<>>, IsInjective(q)
    PROVE  /\ IsInjective(Tail(q))
           /\ ToSet(q) = {Head(q)} \cup ToSet(Tail(q))
           /\ Head(q) \notin ToSet(Tail(q))
<1> DEFINE r == Tail(q)
<1>1. /\ Len(q) \in Nat \ {0} /\ Len(r) = Len(q) - 1 /\ Head(q) = q[1] /\ r \in Seq(S)
      /\ \A i \in 1 .. Len(q) - 1 : r[i] = q[i + 1]
  BY SeqFacts
<1>2. DOMAIN q = 1 .. Len(q) /\ DOMAIN r = 1 .. Len(r)
  BY <1>1
<1> HIDE DEF r
<1>3. \A i \in DOMAIN r : i + 1 \in DOMAIN q /\ r[i] = q[i + 1] /\ i + 1 # 1
  BY <1>1, <1>2
<1>4. \A i \in DOMAIN q : i = 1 \/ (i - 1 \in DOMAIN r /\ r[i - 1] = q[i])
  <2>1. ASSUME NEW i \in DOMAIN q, i # 1 PROVE i - 1 \in DOMAIN r /\ r[i - 1] = q[i]
    <3>1. i - 1 \in 1 .. Len(q) - 1 /\ (i - 1) + 1 = i
      BY <1>1, <1>2, <2>1
    <3> QED
      BY <1>1, <1>2, <3>1
  <2> QED
    BY <2>1
<1>5. \A a, b \in DOMAIN q : q[a] = q[b] => a = b
  BY DEF IsInjective
<1>6. 1 \in DOMAIN q
  BY <1>1, <1>2
<1>7. IsInjective(r)
  <2>1. ASSUME NEW a \in DOMAIN r, NEW b \in DOMAIN r, r[a] = r[b] PROVE a = b
    <3>1. a + 1 = b + 1
      BY <1>3, <1>5, <2>1
    <3> QED
      BY <1>1, <1>2, <3>1
  <2> QED
    BY <2>1 DEF IsInjective
<1>8. ToSet(q) = {Head(q)} \cup ToSet(r)
  <2>1. ASSUME NEW x \in ToSet(q) PROVE x \in {Head(q)} \cup ToSet(r)
    <3>1. PICK i \in DOMAIN q : x = q[i]
      BY DEF ToSet
    <3> QED
      BY <1>1, <1>4, <3>1 DEF ToSet
  <2>2. \A x \in ToSet(r) : x \in ToSet(q)
    BY <1>3 DEF ToSet
  <2>3. Head(q) \in ToSet(q)
    BY <1>1, <1>6 DEF ToSet
  <2> QED
    BY <2>1, <2>2, <2>3
<1>9. Head(q) \notin ToSet(r)
  <2> SUFFICES ASSUME Head(q) \in ToSet(r) PROVE FALSE
    OBVIOUS
  <2>1. PICK i \in DOMAIN r : Head(q) = r[i]
    BY DEF ToSet
  <2>2. i + 1 \in DOMAIN q /\ q[i + 1] = q[1] /\ i + 1 # 1
    BY <1>1, <1>3, <2>1, Zenon
  <2> QED
    BY <1>5, <1>6, <2>2, Zenon
<1> QED
  BY <1>7, <1>8, <1>9 DEF r

LEMMA UnblockedStep ==
    ASSUME Types, NEW c \in Conns, NEW k \in Hosts, Host(c) = k, Sound(k), Unblocked(c)
    PROVE  Sound(k)'
<1>1. /\ st[c] = "open" /\ st'[c] = "send" /\ todo[c] = <<>>
      /\ UNCHANGED <<todo, sent, link, chan, backlog, serverVars>>
  BY DEF Unblocked, Opened, Types, ClientTypes, netVars
<1>2. ConnInv(c)
  BY DEF Sound
<1>3. UNCHANGED <<conn_list, cl_opens, devpaths, opened, stored>>
  BY <1>1 DEF serverVars
<1>4. ToSet(todo[c]) = {}
  BY <1>1, TodoEmpty DEF Types, ClientTypes
<1>5. ChanInv(c)'
  BY <1>1, <1>2, <1>3 DEF ConnInv, ChanInv, WillBeOpen
<1>6. ClientInv(c)'
  BY <1>1, <1>2, <1>3, <1>4 DEF ConnInv, ClientInv, WillBeOpen
<1>7. DataInv(c)'
  BY <1>1, <1>2, <1>3 DEF ConnInv, DataInv, DataIn, Over
<1>8. ConnInv(c)'
  BY <1>5, <1>6, <1>7 DEF ConnInv
<1> QED
  BY <1>8, ClientKeeps DEF ClientAct, ClientStep

LEMMA SendEndsStep ==
    ASSUME Types, NEW c \in Conns, NEW k \in Hosts, Host(c) = k, Sound(k), SendEnds(c)
    PROVE  Sound(k)'
<1>1. /\ st[c] = "send" /\ st'[c] = "close" /\ todo'[c] = DevsOf[c]
      /\ UNCHANGED <<sent, link, chan, backlog, serverVars>>
  BY DEF SendEnds, Types, ClientTypes, netVars
<1>2. ConnInv(c)
  BY DEF Sound
<1>3. UNCHANGED <<conn_list, cl_opens, devpaths, opened, stored>>
  BY <1>1 DEF serverVars
<1>4. IsInjective(DevsOf[c])
  OBVIOUS
<1>5. ChanInv(c)'
  BY <1>1, <1>2, <1>3 DEF ConnInv, ChanInv, WillBeOpen
<1>6. ClientInv(c)'
  BY <1>1, <1>2, <1>3, <1>4 DEF ConnInv, ClientInv, WillBeOpen
<1>7. DataInv(c)'
  BY <1>1, <1>2, <1>3 DEF ConnInv, DataInv, DataIn, Over
<1>8. ConnInv(c)'
  BY <1>5, <1>6, <1>7 DEF ConnInv
<1> QED
  BY <1>8, ClientKeeps DEF ClientAct, ClientStep

LEMMA DisconnectStep ==
    ASSUME Types, NEW c \in Conns, NEW k \in Hosts, Host(c) = k, Sound(k), Disconnect(c)
    PROVE  Sound(k)'
<1>1. /\ st[c] = "close" /\ st'[c] = "end"
      /\ link'[c] = IF link[c] = "up" THEN "shut" ELSE link[c]
      /\ UNCHANGED <<todo, sent, chan, backlog, serverVars>>
  BY DEF Disconnect, Types, ClientTypes, NetTypes
<1>2. ConnInv(c)
  BY DEF Sound
<1>3. UNCHANGED <<conn_list, cl_opens, devpaths, opened, stored>>
  BY <1>1 DEF serverVars
<1>4. ChanInv(c)'
  BY <1>1, <1>2, <1>3 DEF ConnInv, ChanInv, WillBeOpen
<1>5. ClientInv(c)'
  BY <1>1 DEF ClientInv
<1>6. DataInv(c)'
  BY <1>1, <1>2, <1>3 DEF ConnInv, DataInv, DataIn, Over
<1>7. ConnInv(c)'
  BY <1>4, <1>5, <1>6 DEF ConnInv
<1> QED
  BY <1>7, ClientKeeps DEF ClientAct, ClientStep

\* A connection that has all its devices open begins to close them, while its run did
\* not start.
LEMMA OpenedCloses ==
    ASSUME Types, NEW d \in Conns, ConnInv(d), Opened(d), st'[d] = "close", todo'[d] = DevsOf[d],
           UNCHANGED <<sent, netVars, serverVars>>
    PROVE  ConnInv(d)'
<1>1. /\ st[d] = "open" /\ todo[d] = <<>>
      /\ UNCHANGED <<sent, link, chan, backlog, conn_list, opened, stored>>
  BY DEF Opened, netVars, serverVars
<1>2. ToSet(todo[d]) = {}
  BY <1>1, TodoEmpty DEF Types, ClientTypes
<1>3. IsInjective(DevsOf[d])
  OBVIOUS
<1>4. ChanInv(d)'
  BY <1>1 DEF ConnInv, ChanInv, WillBeOpen
<1>5. ClientInv(d)'
  BY <1>1, <1>2, <1>3 DEF ConnInv, ClientInv, WillBeOpen
<1>6. DataInv(d)'
  BY <1>1 DEF ConnInv, DataInv, DataIn, Over
<1> QED
  BY <1>4, <1>5, <1>6 DEF ConnInv

\* A connection whose tracer failed stays as it is.
LEMMA FailedStays ==
    ASSUME NEW d \in Conns, ConnInv(d), st'[d] = "failed", UNCHANGED <<sent, netVars, serverVars>>
    PROVE  ConnInv(d)'
<1>1. UNCHANGED <<sent, link, chan, backlog, conn_list, opened, stored>>
  BY DEF netVars, serverVars
<1>2. ChanInv(d)'
  BY <1>1 DEF ConnInv, ChanInv, WillBeOpen
<1>3. ClientInv(d)'
  BY DEF ClientInv
<1>4. DataInv(d)'
  BY <1>1 DEF ConnInv, DataInv, DataIn, Over
<1> QED
  BY <1>2, <1>3, <1>4 DEF ConnInv

\* After a failed start the runs with sendfile close what they opened, and the host has
\* no other that failed.
LEMMA StopTracersStep ==
    ASSUME Types, NEW c \in Conns, NEW k \in Hosts, Host(c) = k, Sound(k), ~Spoilt(k), StopTracers(c)
    PROVE  Sound(k)'
<1>1. RunOf[c] \in Sendfile
  <2>1. RunOf[c] \in Runs /\ HostOf[RunOf[c]] = k /\ failed[RunOf[c]]
    BY DEF StopTracers, Host
  <2> QED
    BY <2>1 DEF Spoilt
<1>2. /\ Opened(c) /\ st'[c] = "close" /\ todo'[c] = DevsOf[c]
      /\ UNCHANGED <<sent, netVars, serverVars>>
  BY <1>1 DEF StopTracers, Types, ClientTypes
<1>3. ConnInv(c)'
  BY <1>2, OpenedCloses DEF Sound
<1> QED
  BY <1>3, ClientKeeps DEF ClientAct

\* Which connections a failed start is about: they are the run's.
LEMMA SameRun ==
    ASSUME NEW c \in Conns, NEW d \in Earlier[c] \cup {c} \cup Later(c)
    PROVE  d \in Conns /\ Host(d) = Host(c)
<1>1. CASE d \in Earlier[c]
  <2>1. Earlier[c] \subseteq Conns /\ RunOf[d] = RunOf[c]
    BY <1>1, SendfileAssumption
  <2> QED
    BY <1>1, <2>1 DEF Host
<1>2. CASE d \in Later(c)
  <2>1. d \in Conns /\ c \in Earlier[d]
    BY <1>2 DEF Later
  <2>2. RunOf[c] = RunOf[d]
    BY <2>1, SendfileAssumption
  <2> QED
    BY <2>1, <2>2 DEF Host
<1> QED
  BY <1>1, <1>2

LEMMA FailureStep ==
    ASSUME Types, NEW c \in Conns, NEW k \in Hosts, Sound(k), StartFails(c) \/ ConnectFails(c)
    PROVE  Sound(k)'
<1>1. UNCHANGED <<sent, netVars, serverVars>>
  BY DEF StartFails, ConnectFails
<1>2. UNCHANGED <<sent, link, chan, backlog, conn_list, cl_opens, devpaths, opened, stored>>
  BY <1>1 DEF netVars, serverVars
<1>3. ASSUME NEW d \in Conns
      PROVE  \/ st'[d] = "failed"
             \/ Opened(d) /\ st'[d] = "close" /\ todo'[d] = DevsOf[d]
             \/ st'[d] = st[d] /\ todo'[d] = todo[d]
  <2>1. CASE StartFails(c)
    BY <2>1 DEF StartFails
  <2>2. CASE ConnectFails(c)
    BY <2>2 DEF ConnectFails, ToConnect
  <2> QED
    BY <2>1, <2>2
<1>4. ASSUME NEW d \in Conns, Host(d) = k PROVE ConnInv(d)'
  <2>1. ConnInv(d)
    BY <1>4 DEF Sound
  <2>2. CASE st'[d] = "failed"
    BY <1>1, <2>1, <2>2, FailedStays
  <2>3. CASE Opened(d) /\ st'[d] = "close" /\ todo'[d] = DevsOf[d]
    BY <1>1, <2>1, <2>3, OpenedCloses
  <2>4. CASE st'[d] = st[d] /\ todo'[d] = todo[d]
    <3>1. Same(d)
      BY <1>2, <2>4 DEF Same, Unknown
    <3> QED
      BY <2>1, <3>1, ConnFrame
  <2> QED
    BY <1>3, <2>2, <2>3, <2>4
<1>5. HostInv(k)'
  BY <1>2, HostFrame DEF Sound
<1> QED
  BY <1>4, <1>5 DEF Sound, Host

\* All connections of a run that dies or exits are shut.
LEMMA GoneStep ==
    ASSUME NEW r \in Runs, NEW k \in Hosts, Sound(k), RunExits(r) \/ Crash(r)
    PROVE  Sound(k)'
<1>1. UNCHANGED <<todo, sent, chan, backlog, conn_list, cl_opens, devpaths, opened, stored>>
  BY DEF RunExits, Crash, serverVars
<1>2. ASSUME NEW c \in Conns, Host(c) = k PROVE ConnInv(c)'
  <2>1. ConnInv(c)
    BY <1>2 DEF Sound
  <2>2. CASE RunOf[c] = r
    <3>1. st'[c] = "end" /\ link'[c] = IF link[c] = "up" THEN "shut" ELSE link[c]
      BY <2>2 DEF RunExits, Crash
    <3>2. ChanInv(c)'
      BY <1>1, <2>1 DEF ConnInv, ChanInv, WillBeOpen
    <3>3. ClientInv(c)'
      BY <3>1 DEF ClientInv
    <3>4. DataInv(c)'
      BY <1>1, <2>1, <3>1 DEF ConnInv, DataInv, DataIn, Over
    <3> QED
      BY <3>2, <3>3, <3>4 DEF ConnInv
  <2>3. CASE RunOf[c] # r
    <3>1. st'[c] = st[c] /\ link'[c] = link[c]
      BY <2>3 DEF RunExits, Crash
    <3>2. Same(c)
      BY <1>1, <3>1 DEF Same, Unknown
    <3> QED
      BY <2>1, <3>2, ConnFrame
  <2> QED
    BY <2>2, <2>3
<1>3. HostInv(k)'
  BY <1>1, HostFrame DEF Sound
<1> QED
  BY <1>2, <1>3 DEF Sound, Host

\* A message sent on a connection that is up: what it adds to the channel.
LEMMA SendUp ==
    ASSUME Types, NEW c \in Conns, NEW m \in Msgs, Send(c, m), link[c] = "up",
           InOrder(chan[c]),
           m.op = "open" => Named(chan[c], "data") = {},
           m.op # "close" => Named(chan[c], "close") = {},
           m.op \in {"open", "close"} => m.dev \notin Named(chan[c], m.op)
    PROVE  /\ InOrder(chan[c])'
           /\ \A op : Named(chan'[c], op) = Named(chan[c], op) \cup IF m.op = op THEN {m.dev} ELSE {}
           /\ DataIn(c) \in Nat
           /\ DataIn(c)' = DataIn(c) + IF m.op = "data" THEN 1 ELSE 0
<1>1. chan[c] \in Seq(Msgs) /\ chan'[c] = Append(chan[c], m)
  BY SendFacts
<1>2. chan'[c] \in Seq(Msgs)
  BY <1>1, SeqFacts
<1>3. InOrder(Append(chan[c], m))
  BY <1>1, OrderAppend
<1>4. \A op : Named(Append(chan[c], m), op) = Named(chan[c], op) \cup IF m.op = op THEN {m.dev} ELSE {}
  BY <1>1, NamedAppend
<1>5. DataIn(c) = Cardinality(Datas(chan[c]))
  BY <1>1, DatasOfChannel DEF DataIn
<1>6. DataIn(c)' = Cardinality(Datas(chan'[c]))
  BY <1>2, DatasOfChannel DEF DataIn
<1>7. Cardinality(Datas(chan[c])) \in Nat
  BY <1>1, DatasFinite
<1>8. Cardinality(Datas(Append(chan[c], m))) = Cardinality(Datas(chan[c])) + IF m.op = "data" THEN 1 ELSE 0
  BY <1>1, DatasAppend
<1> QED
  BY <1>1, <1>3, <1>4, <1>5, <1>6, <1>7, <1>8

LEMMA SendOpenStep ==
    ASSUME Types, NEW c \in Conns, NEW k \in Hosts, Host(c) = k, Sound(k), SendOpen(c)
    PROVE  Sound(k)'
<1> DEFINE m == Msg("open", Head(todo[c]))
<1>1. /\ st[c] = "open" /\ todo[c] # <<>> /\ todo'[c] = Tail(todo[c]) /\ Send(c, m)
      /\ UNCHANGED <<st, sent, link, backlog, serverVars>>
  BY DEF SendOpen, ToOpen, Types, ClientTypes
<1>2. ConnInv(c)
  BY DEF Sound
<1>3. UNCHANGED <<conn_list, cl_opens, devpaths, opened, stored>>
  BY <1>1 DEF serverVars
<1>4. todo[c] \in Seq(Devs) /\ Head(todo[c]) \in Devs
  BY <1>1, SeqFacts DEF Types, ClientTypes
<1>5. m \in Msgs /\ m.op = "open" /\ m.dev = Head(todo[c])
  BY <1>4 DEF Msg, Msgs
<1>6. /\ IsInjective(todo'[c]) /\ ToSet(todo[c]) = {Head(todo[c])} \cup ToSet(todo'[c])
      /\ Head(todo[c]) \notin ToSet(todo'[c])
  <2>1. IsInjective(todo[c])
    BY <1>1, <1>2 DEF ConnInv, ClientInv
  <2> QED
    BY <1>1, <1>4, <2>1, TodoTail
<1> HIDE DEF m
<1>9. CASE link[c] = "up"
  <2>1. /\ InOrder(chan[c]) /\ Named(chan[c], "data") = {} /\ Named(chan[c], "close") = {}
        /\ Head(todo[c]) \notin Named(chan[c], "open") /\ Head(todo[c]) \notin opened[c]
    BY <1>1, <1>2, <1>6 DEF ConnInv, ChanInv, ClientInv, WillBeOpen
  <2>2. /\ InOrder(chan[c])' /\ DataIn(c) \in Nat /\ DataIn(c)' = DataIn(c)
        /\ Named(chan'[c], "open") = Named(chan[c], "open") \cup {Head(todo[c])}
        /\ Named(chan'[c], "data") = Named(chan[c], "data")
        /\ Named(chan'[c], "close") = Named(chan[c], "close")
    <3>1. /\ InOrder(chan[c])'
          /\ \A op : Named(chan'[c], op) = Named(chan[c], op) \cup IF m.op = op THEN {m.dev} ELSE {}
          /\ DataIn(c) \in Nat
          /\ DataIn(c)' = DataIn(c) + IF m.op = "data" THEN 1 ELSE 0
      BY <1>1, <1>5, <1>9, <2>1, SendUp
    <3>2. DataIn(c)' = DataIn(c) + 0
      BY <1>5, <3>1
    <3>3. DataIn(c)' = DataIn(c)
      BY <3>1, <3>2
    <3>4. \A op : Named(chan'[c], op) = Named(chan[c], op) \cup IF op = "open" THEN {Head(todo[c])} ELSE {}
      BY <1>5, <3>1
    <3> QED
      BY <3>1, <3>3, <3>4
  <2>3. ChanInv(c)'
    BY <1>1, <1>2, <1>3, <2>1, <2>2 DEF ConnInv, ChanInv, WillBeOpen
  <2>4. ClientInv(c)'
    BY <1>1, <1>2, <1>3, <1>6, <1>9, <2>1, <2>2 DEF ConnInv, ClientInv, WillBeOpen
  <2>5. stored[c] = 0
    BY <1>1, <1>2, <1>9, <2>2 DEF ConnInv, ClientInv, DataInv, Types, ServerTypes
  <2>6. DataInv(c)'
    BY <1>1, <1>2, <1>3, <1>9, <2>2, <2>5 DEF ConnInv, DataInv
  <2> QED
    BY <2>3, <2>4, <2>6, ClientKeeps DEF ConnInv, ClientAct, ClientStep
<1>10. CASE link[c] # "up"
  <2>1. chan'[c] = chan[c]
    BY <1>1, <1>5, <1>10, SendFacts
  <2>2. link[c] = "reset"
    BY <1>1, <1>2, <1>10 DEF ConnInv, ClientInv
  <2>3. ChanInv(c)'
    BY <1>1, <1>2, <1>3, <2>1 DEF ConnInv, ChanInv, WillBeOpen
  <2>4. ClientInv(c)'
    BY <1>1, <1>2, <1>3, <1>6, <2>1, <2>2 DEF ConnInv, ClientInv, WillBeOpen
  <2>5. DataInv(c)'
    BY <1>1, <1>2, <1>3, <2>1 DEF ConnInv, DataInv, DataIn
  <2> QED
    BY <2>3, <2>4, <2>5, ClientKeeps DEF ConnInv, ClientAct, ClientStep
<1> QED
  BY <1>9, <1>10

LEMMA SendDataStep ==
    ASSUME Types, NEW c \in Conns, NEW k \in Hosts, Host(c) = k, Sound(k), SendData(c)
    PROVE  Sound(k)'
<1>1. PICK v \in ToSet(DevsOf[c]) : Send(c, Msg("data", v))
  BY DEF SendData
<1> DEFINE m == Msg("data", v)
<1>2. /\ st[c] = "send" /\ sent'[c] = sent[c] + 1 /\ Send(c, m)
      /\ UNCHANGED <<st, todo, link, backlog, serverVars>>
  BY <1>1 DEF SendData, Types, ClientTypes
<1>3. ConnInv(c)
  BY DEF Sound
<1>4. UNCHANGED <<conn_list, cl_opens, devpaths, opened, stored>>
  BY <1>2 DEF serverVars
<1>5. m \in Msgs /\ m.op = "data" /\ m.dev = v
  BY DEF Msg, Msgs, Devs
<1>6. sent[c] \in Nat /\ stored[c] \in Nat
  BY DEF Types, ClientTypes, ServerTypes
<1> HIDE DEF m
<1>8. CASE link[c] = "up"
  <2>1. InOrder(chan[c]) /\ Named(chan[c], "close") = {} /\ v \in WillBeOpen(c)
    BY <1>2, <1>3, <1>8 DEF ConnInv, ChanInv, ClientInv
  <2>2. /\ InOrder(chan[c])' /\ DataIn(c) \in Nat /\ DataIn(c)' = DataIn(c) + 1
        /\ Named(chan'[c], "open") = Named(chan[c], "open")
        /\ Named(chan'[c], "data") = Named(chan[c], "data") \cup {v}
        /\ Named(chan'[c], "close") = Named(chan[c], "close")
    <3>1. /\ InOrder(chan[c])'
          /\ \A op : Named(chan'[c], op) = Named(chan[c], op) \cup IF m.op = op THEN {m.dev} ELSE {}
          /\ DataIn(c) \in Nat
          /\ DataIn(c)' = DataIn(c) + IF m.op = "data" THEN 1 ELSE 0
      BY <1>2, <1>5, <1>6, <1>8, <2>1, SendUp
    <3>2. DataIn(c)' = DataIn(c) + 1
      BY <1>5, <3>1
    <3>3. \A op : Named(chan'[c], op) = Named(chan[c], op) \cup IF op = "data" THEN {v} ELSE {}
      BY <1>5, <3>1
    <3> QED
      BY <3>1, <3>2, <3>3
  <2>3. ChanInv(c)'
    BY <1>2, <1>3, <1>4, <2>1, <2>2 DEF ConnInv, ChanInv, WillBeOpen
  <2>4. ClientInv(c)'
    BY <1>2, <1>3, <1>4, <1>8, <2>1, <2>2 DEF ConnInv, ClientInv, WillBeOpen
  <2>5. DataInv(c)'
    <3>1. stored[c] + DataIn(c) = sent[c] /\ (stored[c] > 0 => Named(chan[c], "open") = {})
      BY <1>3, <1>8 DEF ConnInv, DataInv
    <3>2. stored'[c] + DataIn(c)' = sent'[c]
      <4>1. PICK x \in Nat, y \in Nat, z \in Nat : x = stored[c] /\ y = DataIn(c) /\ z = sent[c]
        BY <1>6, <2>2
      <4>2. x + y = z
        BY <3>1, <4>1, Zenon
      <4>3. x + (y + 1) = z + 1
        BY <4>2
      <4>4. stored'[c] = x /\ DataIn(c)' = y + 1 /\ sent'[c] = z + 1
        BY <1>2, <1>4, <2>2, <4>1, Zenon
      <4> QED
        BY <4>3, <4>4, Zenon
    <3> QED
      BY <1>2, <1>4, <1>8, <2>2, <3>1, <3>2 DEF DataInv
  <2> QED
    BY <2>3, <2>4, <2>5, ClientKeeps DEF ConnInv, ClientAct
<1>9. CASE link[c] # "up"
  <2>1. chan'[c] = chan[c]
    BY <1>2, <1>5, <1>6, <1>9, SendFacts
  <2>2. link[c] = "reset"
    BY <1>2, <1>3, <1>9 DEF ConnInv, ClientInv
  <2>3. stored[c] = 0
    BY <1>2, <1>3, <1>6, <2>2 DEF ConnInv, DataInv, Over
  <2>4. ChanInv(c)'
    BY <1>2, <1>3, <1>4, <2>1 DEF ConnInv, ChanInv, WillBeOpen
  <2>5. ClientInv(c)'
    BY <1>2, <1>3, <1>4, <2>1, <2>2 DEF ConnInv, ClientInv, WillBeOpen
  <2>6. DataInv(c)'
    BY <1>2, <1>3, <1>4, <2>1, <2>2, <2>3 DEF ConnInv, DataInv
  <2> QED
    BY <2>4, <2>5, <2>6, ClientKeeps DEF ConnInv, ClientAct
<1> QED
  BY <1>8, <1>9

LEMMA SendCloseStep ==
    ASSUME Types, NEW c \in Conns, NEW k \in Hosts, Host(c) = k, Sound(k), SendClose(c)
    PROVE  Sound(k)'
<1> DEFINE m == Msg("close", Head(todo[c]))
<1>1. /\ st[c] = "close" /\ todo[c] # <<>> /\ todo'[c] = Tail(todo[c]) /\ Send(c, m)
      /\ UNCHANGED <<st, sent, link, backlog, serverVars>>
  BY DEF SendClose, Types, ClientTypes
<1>2. ConnInv(c)
  BY DEF Sound
<1>3. UNCHANGED <<conn_list, cl_opens, devpaths, opened, stored>>
  BY <1>1 DEF serverVars
<1>4. todo[c] \in Seq(Devs) /\ Head(todo[c]) \in Devs
  BY <1>1, SeqFacts DEF Types, ClientTypes
<1>5. m \in Msgs /\ m.op = "close" /\ m.dev = Head(todo[c])
  BY <1>4 DEF Msg, Msgs
<1>6. /\ IsInjective(todo'[c]) /\ ToSet(todo[c]) = {Head(todo[c])} \cup ToSet(todo'[c])
      /\ Head(todo[c]) \notin ToSet(todo'[c])
  <2>1. IsInjective(todo[c])
    BY <1>1, <1>2 DEF ConnInv, ClientInv
  <2> QED
    BY <1>1, <1>4, <2>1, TodoTail
<1> HIDE DEF m
<1>9. CASE link[c] = "up"
  <2>1. /\ InOrder(chan[c]) /\ Head(todo[c]) \notin Named(chan[c], "close")
        /\ Head(todo[c]) \in WillBeOpen(c)
    BY <1>1, <1>2, <1>6, <1>9 DEF ConnInv, ChanInv, ClientInv
  <2>2. /\ InOrder(chan[c])' /\ DataIn(c)' = DataIn(c)
        /\ Named(chan'[c], "open") = Named(chan[c], "open")
        /\ Named(chan'[c], "data") = Named(chan[c], "data")
        /\ Named(chan'[c], "close") = Named(chan[c], "close") \cup {Head(todo[c])}
    <3>1. /\ InOrder(chan[c])'
          /\ \A op : Named(chan'[c], op) = Named(chan[c], op) \cup IF m.op = op THEN {m.dev} ELSE {}
          /\ DataIn(c) \in Nat
          /\ DataIn(c)' = DataIn(c) + IF m.op = "data" THEN 1 ELSE 0
      BY <1>1, <1>5, <1>9, <2>1, SendUp
    <3>2. DataIn(c)' = DataIn(c) + 0
      BY <1>5, <3>1
    <3>3. DataIn(c)' = DataIn(c)
      BY <3>1, <3>2
    <3>4. \A op : Named(chan'[c], op) = Named(chan[c], op) \cup IF op = "close" THEN {Head(todo[c])} ELSE {}
      BY <1>5, <3>1
    <3> QED
      BY <3>1, <3>3, <3>4
  <2>3. ChanInv(c)'
    BY <1>1, <1>2, <1>3, <2>1, <2>2 DEF ConnInv, ChanInv, WillBeOpen
  <2>4. ClientInv(c)'
    BY <1>1, <1>2, <1>3, <1>6, <1>9, <2>1, <2>2 DEF ConnInv, ClientInv, WillBeOpen
  <2>5. DataInv(c)'
    BY <1>1, <1>2, <1>3, <1>9, <2>2 DEF ConnInv, DataInv
  <2> QED
    BY <2>3, <2>4, <2>5, ClientKeeps DEF ConnInv, ClientAct, ClientStep
<1>10. CASE link[c] # "up"
  <2>1. chan'[c] = chan[c]
    BY <1>1, <1>5, <1>10, SendFacts
  <2>2. ChanInv(c)'
    BY <1>1, <1>2, <1>3, <2>1 DEF ConnInv, ChanInv, WillBeOpen
  <2>3. ClientInv(c)'
    BY <1>1, <1>2, <1>3, <1>6, <1>10, <2>1 DEF ConnInv, ClientInv, WillBeOpen
  <2>4. DataInv(c)'
    BY <1>1, <1>2, <1>3, <2>1 DEF ConnInv, DataInv, DataIn
  <2> QED
    BY <2>2, <2>3, <2>4, ClientKeeps DEF ConnInv, ClientAct, ClientStep
<1> QED
  BY <1>9, <1>10

-----------------------------------------------------------------------------
(* The steps of the server. *)

LEMMA AddConnectionStep ==
    ASSUME Types, NEW k \in Hosts, Sound(k), AddConnection
    PROVE  Sound(k)'
<1>1. /\ UNCHANGED <<st, todo, sent, link, chan, cl_opens, devpaths, opened, stored>>
      /\ backlog # <<>> /\ backlog' = Tail(backlog) /\ conn_list' = conn_list \cup {Head(backlog)}
  BY DEF AddConnection, clientVars
<1>2. /\ Len(backlog) \in Nat \ {0} /\ Len(backlog') = Len(backlog) - 1 /\ Head(backlog) = backlog[1]
      /\ \A i \in 1 .. Len(backlog) - 1 : backlog'[i] = backlog[i + 1]
  BY <1>1, SeqFacts DEF Types, NetTypes
<1>3. ASSUME NEW d \in Conns, Unknown(d) PROVE Unknown(d)'
  <2>1. d \notin conn_list /\ \A i \in 1 .. Len(backlog) : backlog[i] # d
    BY <1>3 DEF Unknown
  <2>2. 1 \in 1 .. Len(backlog) /\ \A i \in 1 .. Len(backlog') : i + 1 \in 1 .. Len(backlog)
    BY <1>2
  <2>3. \A i \in 1 .. Len(backlog') : i \in 1 .. Len(backlog) - 1
    BY <1>2
  <2> QED
    BY <1>1, <1>2, <2>1, <2>2, <2>3 DEF Unknown
<1>4. \A d \in Conns : Same(d)
  BY <1>1, <1>3 DEF Same
<1> QED
  BY <1>1, <1>4, SoundFrame

\* The message the server reads next, and the channel behind it.
LEMMA HeadFacts ==
    ASSUME Types, NEW c \in Conns, NEW op, Header(c, op), InOrder(chan[c]),
           NEW m, m = Head(chan[c]), chan'[c] = Tail(chan[c])
    PROVE  /\ m \in Msgs /\ m.op = op /\ c \in conn_list /\ chan[c] # <<>>
           /\ InOrder(chan[c])'
           /\ Named(chan[c], op) = Named(chan'[c], op) \cup {m.dev}
           /\ \A o : o # op => Named(chan[c], o) = Named(chan'[c], o)
           /\ op \in {"open", "close"} => m.dev \notin Named(chan'[c], op)
           /\ op # "open" => Named(chan'[c], "open") = {}
           /\ op = "close" => Named(chan'[c], "data") = {}
           /\ DataIn(c) \in Nat /\ DataIn(c)' \in Nat
           /\ op = "data" => DataIn(c) = DataIn(c)' + 1
           /\ op # "data" => DataIn(c) = DataIn(c)'
<1> DEFINE q == chan[c]
<1>1. q \in Seq(Msgs) /\ q # <<>> /\ m.op = op /\ c \in conn_list
  BY DEF Types, NetTypes, Header
<1>2. m \in Msgs /\ Tail(q) \in Seq(Msgs)
  BY <1>1, SeqFacts
<1>3. /\ InOrder(Tail(q))
      /\ m.op \in {"open", "close"} => m.dev \notin Named(Tail(q), m.op)
      /\ m.op # "open" => Named(Tail(q), "open") = {}
      /\ m.op = "close" => Named(Tail(q), "data") = {}
  BY <1>1, OrderTail
<1>4. \A o : Named(q, o) = Named(Tail(q), o) \cup IF m.op = o THEN {m.dev} ELSE {}
  BY <1>1, NamedTail
<1>5. Cardinality(Datas(Tail(q))) \in Nat
  BY <1>2, DatasFinite
<1>6. Cardinality(Datas(q)) = Cardinality(Datas(Tail(q))) + IF m.op = "data" THEN 1 ELSE 0
  BY <1>1, DatasTail
<1>7. DataIn(c) = Cardinality(Datas(q))
  BY <1>1, DatasOfChannel DEF DataIn
<1>8. DataIn(c)' = Cardinality(Datas(chan'[c]))
  BY <1>2, DatasOfChannel DEF DataIn
<1>9. chan'[c] = Tail(q)
  OBVIOUS
<1>10. /\ op = "data" => DataIn(c) = DataIn(c)' + 1
       /\ op # "data" => DataIn(c) = DataIn(c)'
       /\ DataIn(c) \in Nat /\ DataIn(c)' \in Nat
  BY <1>1, <1>5, <1>6, <1>7, <1>8, <1>9
<1> HIDE DEF q
<1>11. /\ Named(q, op) = Named(Tail(q), op) \cup {m.dev}
       /\ \A o : o # op => Named(q, o) = Named(Tail(q), o)
  BY <1>1, <1>4
<1> QED
  BY <1>1, <1>2, <1>3, <1>9, <1>10, <1>11 DEF q

\* The devices open at the hosts when those of one of its connections change.
LEMMA OpenAtChange ==
    ASSUME NEW c \in Conns, \A d \in Conns \ {c} : opened'[d] = opened[d], NEW v \in Devs
    PROVE  /\ opened'[c] = opened[c] \cup {v} => OpenAt(Host(c))' = OpenAt(Host(c)) \cup {<<c, v>>}
           /\ opened'[c] = opened[c] \ {v} => OpenAt(Host(c))' = OpenAt(Host(c)) \ {<<c, v>>}
<1>1. \A p \in Conns \X Devs : p[1] \in Conns /\ p[2] \in Devs /\ p = <<p[1], p[2]>>
  OBVIOUS
<1>2. \A p \in Conns \X Devs : p[1] # c => opened'[p[1]] = opened[p[1]]
  BY <1>1
<1>3. \A p \in Conns \X Devs : p[1] = c /\ p[2] = v => p = <<c, v>>
  BY <1>1
<1>4. <<c, v>> \in Conns \X Devs /\ <<c, v>>[1] = c /\ <<c, v>>[2] = v
  OBVIOUS
<1>5. ASSUME opened'[c] = opened[c] \cup {v}
      PROVE  OpenAt(Host(c))' = OpenAt(Host(c)) \cup {<<c, v>>}
  BY <1>2, <1>3, <1>4, <1>5 DEF OpenAt, Host
<1>6. ASSUME opened'[c] = opened[c] \ {v}
      PROVE  OpenAt(Host(c))' = OpenAt(Host(c)) \ {<<c, v>>}
  BY <1>2, <1>3, <1>4, <1>6 DEF OpenAt, Host
<1> QED
  BY <1>5, <1>6

LEMMA OpenDeviceStep ==
    ASSUME Types, NEW c \in Conns, NEW k \in Hosts, k = Host(c), Sound(k), OpenDevice(c)
    PROVE  Sound(k)'
<1>1. ConnInv(c) /\ HostInv(k)
  BY DEF Sound
<1>2. PICK m : m = Head(chan[c])
  OBVIOUS
<1>3. /\ Header(c, "open") /\ chan'[c] = Tail(chan[c]) /\ opened'[c] = opened[c] \cup {m.dev}
      /\ \A d \in Conns \ {c} : chan'[d] = chan[d] /\ opened'[d] = opened[d]
      /\ UNCHANGED <<st, todo, sent, link, backlog, conn_list, stored>>
  BY <1>2 DEF OpenDevice, OpenWith, clientVars, Types, NetTypes, ServerTypes
<1>4. /\ cl_opens'[k] = cl_opens[k] + 1
      /\ devpaths'[k] = devpaths[k] \cup {m.dev}
  BY <1>2 DEF OpenDevice, OpenWith, NcFindDpp, Types, ServerTypes
<1>5. \A d \in Conns \ {c} : Same(d)
  BY <1>3 DEF Same, Unknown
<1>6. InOrder(chan[c])
  BY <1>1 DEF ConnInv, ChanInv
<1>7. /\ m \in Msgs /\ c \in conn_list /\ chan[c] # <<>> /\ InOrder(chan[c])'
      /\ Named(chan[c], "open") = Named(chan'[c], "open") \cup {m.dev}
      /\ \A o : o # "open" => Named(chan[c], o) = Named(chan'[c], o)
      /\ m.dev \notin Named(chan'[c], "open")
      /\ DataIn(c) = DataIn(c)'
  <2>1. "open" # "data"
    OBVIOUS
  <2>2. Header(c, "open") /\ chan'[c] = Tail(chan[c])
    BY <1>3
  <2> QED
    BY <1>2, <1>6, <2>1, <2>2, HeadFacts, Zenon
<1>8. m.dev \in Devs
  BY <1>7 DEF Msgs
<1>9. /\ Named(chan[c], "open") = Named(chan'[c], "open") \cup {m.dev}
      /\ Named(chan[c], "data") = Named(chan'[c], "data")
      /\ Named(chan[c], "close") = Named(chan'[c], "close")
  BY <1>7
<1>10. WillBeOpen(c)' = WillBeOpen(c) /\ m.dev \notin opened[c]
  BY <1>1, <1>3, <1>9 DEF WillBeOpen, ConnInv, ChanInv
<1>11. ChanInv(c)'
  BY <1>1, <1>3, <1>7, <1>9, <1>10 DEF ConnInv, ChanInv
<1>12. ClientInv(c)'
  BY <1>1, <1>3, <1>9, <1>10 DEF ConnInv, ClientInv, Unknown
<1>13. DataInv(c)'
  BY <1>1, <1>3, <1>7, <1>8, <1>9 DEF ConnInv, DataInv
<1>14. ConnInv(c)'
  BY <1>11, <1>12, <1>13 DEF ConnInv
<1>15. OpenAt(k)' = OpenAt(k) \cup {<<c, m.dev>>}
  <2>1. /\ \A d \in Conns \ {c} : opened'[d] = opened[d]
        /\ m.dev \in Devs /\ opened'[c] = opened[c] \cup {m.dev}
    BY <1>3, <1>8
  <2>2. OpenAt(Host(c))' = OpenAt(Host(c)) \cup {<<c, m.dev>>}
    BY <2>1, OpenAtChange, Zenon
  <2> QED
    BY <2>2 DEF OpenAt, Host
<1>16. HostInv(k)'
  <2>1. <<c, m.dev>> \notin OpenAt(k)
    BY <1>10 DEF OpenAt
  <2>2. /\ IsFiniteSet(OpenAt(k) \cup {<<c, m.dev>>})
        /\ Cardinality(OpenAt(k) \cup {<<c, m.dev>>}) = Cardinality(OpenAt(k)) + 1
    BY <1>1, <2>1, FS_AddElement DEF HostInv
  <2>3. \A p \in OpenAt(k) : p[2] \in devpaths[k]
    BY <1>1 DEF HostInv
  <2>4. /\ IsFiniteSet(OpenAt(k)') /\ cl_opens'[k] = Cardinality(OpenAt(k)')
    BY <1>1, <1>4, <1>15, <2>2 DEF HostInv
  <2>5. OpenAt(k)' # {} /\ \A p \in OpenAt(k)' : p[2] \in devpaths'[k]
    <3>1. <<c, m.dev>>[2] = m.dev
      OBVIOUS
    <3>2. \A p \in OpenAt(k)' : p \in OpenAt(k) \/ p = <<c, m.dev>>
      BY <1>15
    <3> QED
      BY <1>4, <1>15, <2>3, <3>1, <3>2
  <2> QED
    BY <2>4, <2>5 DEF HostInv
<1> QED
  BY <1>5, <1>14, <1>16, OneConn

LEMMA ReadDataStep ==
    ASSUME Types, NEW c \in Conns, NEW k \in Hosts, k = Host(c), Sound(k), ReadData(c)
    PROVE  Sound(k)'
<1>1. ConnInv(c) /\ HostInv(k)
  BY DEF Sound
<1>2. PICK m : m = Head(chan[c])
  OBVIOUS
<1>3. /\ Header(c, "data") /\ chan'[c] = Tail(chan[c]) /\ stored'[c] = stored[c] + 1
      /\ \A d \in Conns \ {c} : chan'[d] = chan[d] /\ stored'[d] = stored[d]
      /\ UNCHANGED <<st, todo, sent, link, backlog, conn_list, opened, cl_opens>>
  BY DEF ReadData, clientVars, Types, NetTypes, ServerTypes
<1>4. InOrder(chan[c])
  BY <1>1 DEF ConnInv, ChanInv
<1>5. /\ m \in Msgs /\ c \in conn_list /\ chan[c] # <<>> /\ InOrder(chan[c])'
      /\ Named(chan[c], "data") = Named(chan'[c], "data") \cup {m.dev}
      /\ \A o : o # "data" => Named(chan[c], o) = Named(chan'[c], o)
      /\ Named(chan'[c], "open") = {}
      /\ DataIn(c) \in Nat /\ DataIn(c)' \in Nat /\ DataIn(c) = DataIn(c)' + 1
  <2>1. "data" # "open"
    OBVIOUS
  <2>2. Header(c, "data") /\ chan'[c] = Tail(chan[c])
    BY <1>3
  <2> QED
    BY <1>2, <1>4, <2>1, <2>2, HeadFacts, ZenonT(30)
<1>6. /\ Named(chan[c], "open") = {} /\ Named(chan'[c], "open") = {}
      /\ Named(chan[c], "close") = Named(chan'[c], "close")
  BY <1>5
<1>7. /\ WillBeOpen(c)' = WillBeOpen(c) /\ WillBeOpen(c) = opened[c]
      /\ m.dev \in opened[c] /\ m.dev \in Devs
  <2>1. m.dev \in Devs
    BY <1>5 DEF Msgs
  <2> QED
    BY <1>1, <1>3, <1>5, <1>6, <2>1 DEF ConnInv, ChanInv, WillBeOpen
<1>8. devpaths' = devpaths
  <2>1. <<c, m.dev>> \in OpenAt(k)
    BY <1>7 DEF OpenAt
  <2>2. <<c, m.dev>>[2] \in devpaths[k]
    BY <1>1, <2>1 DEF HostInv
  <2>3. devpaths[k] \cup {m.dev} = devpaths[k]
    BY <2>2
  <2>4. devpaths' = [devpaths EXCEPT ![k] = devpaths[k] \cup {m.dev}]
    BY <1>2 DEF ReadData, NcFindDpp
  <2> QED
    BY <2>3, <2>4 DEF Types, ServerTypes
<1>9. ChanInv(c)'
  BY <1>1, <1>3, <1>5, <1>6, <1>7 DEF ConnInv, ChanInv
<1>10. ClientInv(c)'
  BY <1>1, <1>3, <1>5, <1>6, <1>7 DEF ConnInv, ClientInv
<1>11. DataInv(c)'
  <2>1. link[c] # "reset"
    BY <1>1, <1>5 DEF ConnInv, DataInv
  <2>2. stored[c] + DataIn(c) = sent[c]
    BY <1>1, <2>1 DEF ConnInv, DataInv
  <2>3. PICK x \in Nat, y \in Nat : x = stored[c] /\ y = DataIn(c)'
    BY <1>5 DEF Types, ServerTypes
  <2>4. x + (y + 1) = sent[c] /\ stored'[c] = x + 1
    BY <1>3, <1>5, <2>2, <2>3, Zenon
  <2>5. (x + 1) + y = x + (y + 1)
    OBVIOUS
  <2>6. stored'[c] + DataIn(c)' = sent'[c]
    BY <1>3, <2>3, <2>4, <2>5, Zenon
  <2> QED
    BY <1>3, <1>6, <2>1, <2>6 DEF DataInv
<1>12. ConnInv(c)'
  BY <1>9, <1>10, <1>11 DEF ConnInv
<1>13. \A d \in Conns \ {c} : Same(d)
  BY <1>3 DEF Same, Unknown
<1>14. HostInv(k)'
  BY <1>1, <1>3, <1>8, HostFrame
<1> QED
  BY <1>12, <1>13, <1>14, OneConn

\* What a close finds: its device is open, nothing but closes follows it, and the client
\* has done with sending.
LEMMA CloseFacts ==
    ASSUME Types, NEW c \in Conns, NEW k \in Hosts, k = Host(c), Sound(k), Header(c, "close"), NEW m, m = Head(chan[c])
    PROVE  /\ m.dev \in Devs /\ m.dev \in opened[c]
           /\ Named(chan[c], "open") = {} /\ Named(chan[c], "data") = {}
           /\ m.dev \in Named(chan[c], "close")
           /\ st[c] \in Over /\ link[c] # "reset" /\ c \in conn_list
           /\ <<c, m.dev>> \in OpenAt(k)
           /\ cl_opens[k] \in Nat \ {0}
<1> DEFINE q == chan[c]
<1>1. q \in Seq(Msgs) /\ q # <<>> /\ m.op = "close" /\ c \in conn_list
  BY DEF Types, NetTypes, Header
<1>2. ConnInv(c) /\ HostInv(k)
  BY DEF Sound
<1>3. m \in Msgs /\ m.dev \in Devs
  <2>1. Head(q) \in Msgs
    BY <1>1, SeqFacts
  <2> QED
    BY <2>1 DEF Msgs
<1>4. Named(Tail(q), "open") = {} /\ Named(Tail(q), "data") = {}
  <2>1. InOrder(q)
    BY <1>2 DEF ConnInv, ChanInv
  <2> QED
    BY <1>1, <2>1, OrderTail
<1>5. \A o : Named(q, o) = Named(Tail(q), o) \cup IF m.op = o THEN {m.dev} ELSE {}
  BY <1>1, NamedTail
<1> HIDE DEF q
<1>6. Named(q, "open") = {} /\ Named(q, "data") = {} /\ m.dev \in Named(q, "close")
  BY <1>1, <1>4, <1>5
<1>7. m.dev \in opened[c]
  BY <1>2, <1>6 DEF q, ConnInv, ChanInv, WillBeOpen
<1>8. st[c] \in Over
  <2>1. st[c] \notin {"new", "open", "send"}
    BY <1>2, <1>6 DEF q, ConnInv, ClientInv
  <2> QED
    BY <2>1 DEF Types, ClientTypes, Over
<1>9. link[c] # "reset"
  BY <1>1, <1>2 DEF q, ConnInv, DataInv
<1>10. <<c, m.dev>> \in OpenAt(k)
  BY <1>3, <1>7 DEF OpenAt
<1>11. cl_opens[k] # 0
  BY <1>2, <1>10, FS_EmptySet DEF HostInv
<1>12. cl_opens[k] \in Nat
  BY <1>2, FS_CardinalityType DEF HostInv
<1> QED
  BY <1>1, <1>3, <1>6, <1>7, <1>8, <1>9, <1>10, <1>11, <1>12 DEF q

\* A close that is not the last of its host.
LEMMA CloseOneStep ==
    ASSUME Types, NEW c \in Conns, NEW k \in Hosts, k = Host(c), Sound(k), CloseDevice(c), cl_opens[k] # 1
    PROVE  Sound(k)'
<1>1. ConnInv(c) /\ HostInv(k)
  BY DEF Sound
<1>2. PICK m : m = Head(chan[c])
  OBVIOUS
<1>3. /\ Header(c, "close") /\ chan'[c] = Tail(chan[c]) /\ opened'[c] = opened[c] \ {m.dev}
      /\ \A d \in Conns \ {c} : chan'[d] = chan[d] /\ opened'[d] = opened[d]
      /\ UNCHANGED <<st, todo, sent, link, backlog, conn_list, stored>>
  BY <1>2 DEF CloseDevice, CloseWith, clientVars, Types, NetTypes, ServerTypes
<1>4. /\ cl_opens'[k] = cl_opens[k] - 1
      /\ devpaths'[k] = devpaths[k] \cup {m.dev}
  BY <1>2 DEF CloseDevice, CloseWith, NcFindDpp, Types, ServerTypes
<1>5. /\ m.dev \in Devs /\ m.dev \in opened[c]
      /\ Named(chan[c], "open") = {} /\ Named(chan[c], "data") = {}
      /\ m.dev \in Named(chan[c], "close")
      /\ st[c] \in Over /\ link[c] # "reset" /\ c \in conn_list
      /\ <<c, m.dev>> \in OpenAt(k)
      /\ cl_opens[k] \in Nat \ {0}
  BY <1>2, <1>3, CloseFacts
<1>6. /\ InOrder(chan[c])'
      /\ Named(chan[c], "close") = Named(chan'[c], "close") \cup {m.dev}
      /\ m.dev \notin Named(chan'[c], "close")
      /\ Named(chan'[c], "open") = {} /\ Named(chan'[c], "data") = {}
      /\ DataIn(c) = DataIn(c)'
  <2>1. "close" # "open" /\ "close" # "data" /\ "close" \in {"open", "close"}
    OBVIOUS
  <2>2. Header(c, "close") /\ chan'[c] = Tail(chan[c])
    BY <1>3
  <2>3. InOrder(chan[c])
    BY <1>1 DEF ConnInv, ChanInv
  <2> QED
    BY <1>2, <2>1, <2>2, <2>3, HeadFacts, Zenon
<1>7. ChanInv(c)'
  BY <1>1, <1>3, <1>5, <1>6 DEF ConnInv, ChanInv, WillBeOpen
<1>8. ClientInv(c)'
  BY <1>1, <1>3, <1>5, <1>6 DEF ConnInv, ClientInv, WillBeOpen
<1>9. DataInv(c)'
  BY <1>1, <1>3, <1>5, <1>6 DEF ConnInv, DataInv
<1>10. ConnInv(c)'
  BY <1>7, <1>8, <1>9 DEF ConnInv
<1>11. OpenAt(k)' = OpenAt(k) \ {<<c, m.dev>>}
  <2>1. \A d \in Conns \ {c} : opened'[d] = opened[d]
    BY <1>3
  <2>2. m.dev \in Devs /\ opened'[c] = opened[c] \ {m.dev}
    BY <1>3, <1>5
  <2>3. OpenAt(Host(c))' = OpenAt(Host(c)) \ {<<c, m.dev>>}
    BY <2>1, <2>2, OpenAtChange, Zenon
  <2> QED
    BY <2>3 DEF OpenAt, Host
<1>12. \A d \in Conns \ {c} : Same(d)
  BY <1>3 DEF Same, Unknown
<1>13. HostInv(k)'
  <2>1. /\ IsFiniteSet(OpenAt(k) \ {<<c, m.dev>>})
        /\ Cardinality(OpenAt(k) \ {<<c, m.dev>>}) = Cardinality(OpenAt(k)) - 1
    <3>1. PICK S : S = OpenAt(k)
      OBVIOUS
    <3>2. IsFiniteSet(S) /\ <<c, m.dev>> \in S
      BY <1>1, <1>5, <3>1 DEF HostInv
    <3>3. IsFiniteSet(S \ {<<c, m.dev>>}) /\ Cardinality(S \ {<<c, m.dev>>}) = Cardinality(S) - 1
      BY <3>2, FS_RemoveElement
    <3> QED
      BY <3>1, <3>3
  <2>2. cl_opens[k] = Cardinality(OpenAt(k))
    BY <1>1 DEF HostInv
  <2>3. IsFiniteSet(OpenAt(k)') /\ cl_opens'[k] = Cardinality(OpenAt(k)')
    BY <1>4, <1>11, <2>1, <2>2
  <2>4. cl_opens'[k] # 0
    BY <1>4, <1>5
  <2>5. OpenAt(k)' # {}
    BY <2>3, <2>4, FS_EmptySet
  <2>6. \A p \in OpenAt(k)' : p[2] \in devpaths'[k]
    BY <1>1, <1>4, <1>11 DEF HostInv
  <2> QED
    BY <2>3, <2>5, <2>6 DEF HostInv
<1> QED
  BY <1>10, <1>12, <1>13, OneConn

\* A connection of the host that is removed with its last close: whatever the client
\* sends from now on is lost, and nothing is on its way that somebody waits for.
LEMMA RemovedConn ==
    ASSUME Types, NEW d \in Conns, ConnInv(d), d \in conn_list,
           Named(chan[d], "open") = {} => Named(chan[d], "data") = {},
           opened[d] = {} \/ (st[d] \in Over /\ Named(chan[d], "open") = {}),
           opened'[d] = {}, chan'[d] = <<>>, link'[d] = "reset", d \notin conn_list',
           UNCHANGED <<st, todo, sent, backlog, stored>>
    PROVE  ConnInv(d)'
<1>1. ConnInv(d)
  OBVIOUS
<1>2. InOrder(chan[d])' /\ \A o : Named(chan'[d], o) = {}
  BY NamedEmpty
<1>3. WillBeOpen(d)' = {}
  BY <1>2 DEF WillBeOpen
<1>4. ChanInv(d)'
  BY <1>2, <1>3 DEF ChanInv
<1>5. ClientInv(d)'
  BY <1>1, <1>2, <1>3 DEF ConnInv, ClientInv, Over, Unknown
<1>6. ASSUME stored[d] > 0 PROVE stored[d] = sent[d] /\ st[d] \in Over
  <2>1. CASE link[d] = "reset"
    BY <1>1, <1>6, <2>1 DEF ConnInv, DataInv
  <2>2. CASE link[d] # "reset"
    <3>1. Named(chan[d], "open") = {} /\ Named(chan[d], "data") = {}
      BY <1>1, <1>6 DEF ConnInv, DataInv
    <3>2. DataIn(d) = 0
      <4>1. chan[d] \in Seq(Msgs)
        BY DEF Types, NetTypes
      <4>2. ASSUME NEW i \in Datas(chan[d]) PROVE FALSE
        <5>1. i \in 1 .. Len(chan[d]) /\ chan[d][i].op = "data"
          BY <4>2 DEF Datas
        <5>2. chan[d][i].dev \in Named(chan[d], "data")
          BY <5>1 DEF Named
        <5> QED
          BY <3>1, <5>2
      <4> QED
        BY <4>1, <4>2, DatasOfChannel, FS_EmptySet DEF DataIn
    <3>3. stored[d] \in Nat /\ sent[d] \in Nat
      BY DEF Types, ClientTypes, ServerTypes
    <3>4. stored[d] + 0 = sent[d]
      BY <1>1, <2>2, <3>2, Zenon DEF ConnInv, DataInv
    <3>5. stored[d] = sent[d]
      BY <3>3, <3>4
    <3>6. st[d] \notin {"new", "open"}
      <4>1. sent[d] # 0
        BY <1>6, <3>3, <3>5
      <4> QED
        BY <1>1, <4>1 DEF ConnInv, ClientInv
    <3>7. st[d] # "send"
      <4>1. SUFFICES ASSUME st[d] = "send" PROVE FALSE
        OBVIOUS
      <4>2. link[d] = "up"
        BY <1>1, <2>2, <4>1 DEF ConnInv, ClientInv
      <4>3. WillBeOpen(d) = ToSet(DevsOf[d])
        BY <1>1, <4>1, <4>2 DEF ConnInv, ClientInv
      <4>4. WillBeOpen(d) = {}
        BY <3>1, <4>1 DEF WillBeOpen, Over
      <4>5. ToSet(DevsOf[d]) # {}
        <5>1. DevsOf[d] \in Seq(Devs) /\ DevsOf[d] # <<>>
          OBVIOUS
        <5>2. 1 \in DOMAIN DevsOf[d]
          BY <5>1, SeqFacts
        <5>3. DevsOf[d][1] \in ToSet(DevsOf[d])
          BY <5>2 DEF ToSet
        <5> QED
          BY <5>3
      <4> QED
        BY <4>3, <4>4, <4>5
    <3> QED
      BY <3>5, <3>6, <3>7 DEF Types, ClientTypes, Over
  <2> QED
    BY <2>1, <2>2
<1>7. DataInv(d)'
  BY <1>2, <1>6 DEF DataInv
<1> QED
  BY <1>4, <1>5, <1>7 DEF ConnInv

\* The last close of a host: no other connection of it has a device open.
LEMMA CloseLastStep ==
    ASSUME Types, NEW c \in Conns, NEW k \in Hosts, k = Host(c), Sound(k), CloseDevice(c), cl_opens[k] = 1
    PROVE  Sound(k)'
<1>1. ConnInv(c) /\ HostInv(k)
  BY DEF Sound
<1>2. PICK m : m = Head(chan[c])
  OBVIOUS
<1>3. /\ Header(c, "close") /\ opened'[c] = opened[c] \ {m.dev}
      /\ \A d \in Conns \ {c} : opened'[d] = opened[d]
      /\ UNCHANGED <<st, todo, sent, backlog, stored>>
      /\ conn_list' = conn_list \ Removed(k)
  BY <1>2 DEF CloseDevice, CloseWith, clientVars, Types, ServerTypes
<1>4. /\ \A d \in Removed(k) : link'[d] = "reset" /\ chan'[d] = <<>>
      /\ \A d \in Conns \ Removed(k) : link'[d] = link[d] /\ chan'[d] = chan[d]
  BY DEF CloseDevice, CloseWith, Removed, Types, ServerTypes
<1>5. /\ cl_opens'[k] = 0 /\ devpaths'[k] = {}
  BY DEF CloseDevice, CloseWith, Types, ServerTypes
<1>6. /\ m.dev \in Devs /\ m.dev \in opened[c]
      /\ Named(chan[c], "open") = {} /\ Named(chan[c], "data") = {}
      /\ st[c] \in Over /\ c \in conn_list
      /\ <<c, m.dev>> \in OpenAt(k)
  BY <1>2, <1>3, CloseFacts
<1>7. OpenAt(k)' = OpenAt(k) \ {<<c, m.dev>>}
  <2>1. \A d \in Conns \ {c} : opened'[d] = opened[d]
    BY <1>3
  <2>2. m.dev \in Devs /\ opened'[c] = opened[c] \ {m.dev}
    BY <1>3, <1>6
  <2>3. OpenAt(Host(c))' = OpenAt(Host(c)) \ {<<c, m.dev>>}
    BY <2>1, <2>2, OpenAtChange, Zenon
  <2> QED
    BY <2>3 DEF OpenAt, Host
<1>8. OpenAt(k) = {<<c, m.dev>>}
  <2>1. PICK S : S = OpenAt(k)
    OBVIOUS
  <2>2. IsFiniteSet(S) /\ <<c, m.dev>> \in S /\ Cardinality(S) = 1
    BY <1>1, <1>6, <2>1 DEF HostInv
  <2>3. IsFiniteSet(S \ {<<c, m.dev>>}) /\ Cardinality(S \ {<<c, m.dev>>}) = 0
    <3>1. PICK x : x = <<c, m.dev>>
      OBVIOUS
    <3>2. IsFiniteSet(S \ {x}) /\ Cardinality(S \ {x}) = Cardinality(S) - 1
      BY <2>2, <3>1, FS_RemoveElement
    <3> QED
      BY <2>2, <3>1, <3>2
  <2>4. S \ {<<c, m.dev>>} = {}
    BY <2>3, FS_EmptySet
  <2> QED
    BY <2>1, <2>2, <2>4
<1>9. ASSUME NEW d \in Conns, Host(d) = k
      PROVE  opened'[d] = {} /\ (d # c => opened[d] = {})
  <2>1. \A v \in opened[d] : <<d, v>> \in OpenAt(k)
    BY <1>9 DEF OpenAt, Types, ServerTypes
  <2>2. \A v \in opened[d] : <<d, v>> = <<c, m.dev>>
    BY <1>8, <2>1
  <2>3. \A v \in opened[d] : d = c /\ v = m.dev
    BY <2>2
  <2>4. d # c => opened[d] = {}
    BY <2>3
  <2> QED
    BY <1>3, <2>3, <2>4
<1>10. ASSUME NEW d \in Removed(k) PROVE ConnInv(d)'
  <2>1. d \in Conns /\ d \in conn_list /\ Host(d) = k /\ d \notin conn_list'
    BY <1>3, <1>10 DEF Removed, Types, ServerTypes
  <2>2. ConnInv(d)
    BY <2>1 DEF Sound
  <2>3. opened[d] = {} \/ (st[d] \in Over /\ Named(chan[d], "open") = {})
    BY <1>6, <1>9, <2>1
  <2>4. Named(chan[d], "open") = {} => Named(chan[d], "data") = {}
    BY <1>6, <1>9, <2>1, <2>2 DEF ConnInv, ChanInv, WillBeOpen
  <2>5. opened'[d] = {} /\ chan'[d] = <<>> /\ link'[d] = "reset"
    BY <1>4, <1>9, <2>1
  <2> QED
    BY <1>3, <2>1, <2>2, <2>3, <2>4, <2>5, RemovedConn
<1>11. ASSUME NEW d \in Conns, Host(d) = k, d \notin Removed(k) PROVE ConnInv(d)'
  <2>1. ConnInv(d) /\ d \notin conn_list
    BY <1>11 DEF Removed, Sound
  <2>2. d # c
    BY <1>6, <2>1
  <2>3. link'[d] = link[d] /\ chan'[d] = chan[d] /\ opened'[d] = opened[d]
    BY <1>3, <1>4, <1>11, <2>2
  <2>4. Same(d)
    BY <1>3, <2>1, <2>3 DEF Same, Unknown
  <2> QED
    BY <2>1, <2>4, ConnFrame
<1>13. HostInv(k)'
  <2>1. OpenAt(k)' = {}
    BY <1>7, <1>8
  <2> QED
    BY <1>5, <2>1, FS_EmptySet DEF HostInv
<1> QED
  BY <1>10, <1>11, <1>13 DEF Sound, Host

\* A host is not touched by a step on a connection of another.
LEMMA ElsewhereStep ==
    ASSUME Types, NEW k \in Hosts, Sound(k), NEW c \in Conns, Host(c) # k,
           ClientAct(c) \/ ServerStep(c)
    PROVE  Sound(k)'
<1>1. ASSUME ClientAct(c) PROVE Sound(k)'
  <2>1. UNCHANGED serverVars /\ \A d \in Conns \ {c} : Same(d)
    BY <1>1, ClientFrame
  <2>2. \A d \in Conns : Host(d) = k => Same(d)
    BY <2>1
  <2> QED
    BY <2>1, <2>2, SoundFrame DEF serverVars
<1>2. ASSUME ServerStep(c) PROVE Sound(k)'
  <2>1. /\ UNCHANGED <<st, todo, sent, backlog>>
        /\ \A d \in Conns \ {c} : opened'[d] = opened[d] /\ stored'[d] = stored[d]
    BY <1>2 DEF ServerStep, OpenDevice, OpenWith, ReadData, CloseDevice, CloseWith, clientVars,
                Types, ServerTypes
  <2>2. cl_opens'[k] = cl_opens[k] /\ devpaths'[k] = devpaths[k]
    BY <1>2 DEF ServerStep, OpenDevice, OpenWith, ReadData, CloseDevice, CloseWith, Types, ServerTypes
  <2>3. ASSUME NEW d \in Conns, Host(d) = k
        PROVE  link'[d] = link[d] /\ chan'[d] = chan[d] /\ (d \in conn_list' <=> d \in conn_list)
    <3>1. d # c /\ d \notin Removed(Host(c))
      BY <2>3 DEF Removed
    <3>2. CASE OpenDevice(c) \/ ReadData(c)
      BY <3>1, <3>2 DEF OpenDevice, OpenWith, ReadData, Types, NetTypes
    <3>3. CASE CloseDevice(c)
      BY <3>1, <3>3 DEF CloseDevice, CloseWith, Types, NetTypes
    <3> QED
      BY <1>2, <3>2, <3>3 DEF ServerStep
  <2>4. \A d \in Conns : Host(d) = k => Same(d)
    BY <2>1, <2>3 DEF Same, Unknown
  <2> QED
    BY <2>2, <2>4, SoundFrame
<1> QED
  BY <1>1, <1>2

-----------------------------------------------------------------------------
(* What is stored was sent. *)

LEMMA CountSame ==
    ASSUME NEW d \in Conns, NoneMadeUp(d), chan'[d] = chan[d], sent'[d] = sent[d],
           stored'[d] = stored[d]
    PROVE  NoneMadeUp(d)'
  BY DEF NoneMadeUp, DataIn

\* The numbers that NoneMadeUp compares.
LEMMA CountTypes ==
    ASSUME Types, NEW d \in Conns
    PROVE  /\ DataIn(d) = Cardinality(Datas(chan[d])) /\ DataIn(d) \in Nat
           /\ stored[d] \in Nat /\ sent[d] \in Nat /\ chan[d] \in Seq(Msgs)
<1>1. chan[d] \in Seq(Msgs) /\ stored[d] \in Nat /\ sent[d] \in Nat
  BY DEF Types, ClientTypes, NetTypes, ServerTypes
<1> QED
  BY <1>1, DatasOfChannel, DatasFinite DEF DataIn

\* Data is stored, sent, or leaves a channel: what the numbers have to do for it.
LEMMA CountStep ==
    ASSUME Types, Types', NEW d \in Conns, NoneMadeUp(d), NEW n \in {0, 1}, NEW a \in {0, 1},
           DataIn(d)' + a <= DataIn(d) + n, stored'[d] = stored[d] + a, sent'[d] = sent[d] + n
    PROVE  NoneMadeUp(d)'
<1>1. DataIn(d) \in Nat /\ stored[d] \in Nat /\ sent[d] \in Nat
  BY CountTypes
<1>2. DataIn(d)' \in Nat
  <2>1. chan'[d] \in Seq(Msgs)
    BY DEF Types, NetTypes
  <2> QED
    BY <2>1, DatasOfChannel, DatasFinite DEF DataIn
<1>3. PICK x \in Nat, y \in Nat, z \in Nat, w \in Nat :
         x = DataIn(d) /\ y = stored[d] /\ z = sent[d] /\ w = DataIn(d)'
  BY <1>1, <1>2
<1>4. y + x <= z /\ w + a <= x + n
  BY <1>3, Zenon DEF NoneMadeUp
<1>5. (y + a) + w <= z + n
  BY <1>4
<1>6. stored'[d] = y + a /\ sent'[d] = z + n
  BY <1>3
<1> QED
  BY <1>3, <1>5, <1>6, Zenon DEF NoneMadeUp

LEMMA CountSend ==
    ASSUME Types, Types', NEW c \in Conns, NoneMadeUp(c), NEW m \in Msgs, Send(c, m),
           NEW n \in {0, 1}, m.op = "data" => n = 1, stored'[c] = stored[c], sent'[c] = sent[c] + n
    PROVE  NoneMadeUp(c)'
<1>1. chan'[c] = chan[c] \/ chan'[c] = Append(chan[c], m)
  BY SendFacts
<1>2. chan[c] \in Seq(Msgs) /\ DataIn(c) = Cardinality(Datas(chan[c])) /\ DataIn(c) \in Nat
      /\ stored[c] \in Nat
  BY CountTypes
<1>3. DataIn(c)' = Cardinality(Datas(chan'[c]))
  <2>1. chan'[c] \in Seq(Msgs)
    BY DEF Types, NetTypes
  <2> QED
    BY <2>1, DatasOfChannel DEF DataIn
<1>4. DataIn(c)' + 0 <= DataIn(c) + n
  <2>1. Cardinality(Datas(Append(chan[c], m)))
           = Cardinality(Datas(chan[c])) + IF m.op = "data" THEN 1 ELSE 0
    BY <1>2, DatasAppend
  <2>2. PICK x \in Nat : x = DataIn(c)
    BY <1>2
  <2>3. PICK w : w = DataIn(c)'
    OBVIOUS
  <2>4. w = x \/ w = x + IF m.op = "data" THEN 1 ELSE 0
    BY <1>1, <1>2, <1>3, <2>1, <2>2, <2>3, Zenon
  <2>5. w + 0 <= x + n
    BY <2>4
  <2> QED
    BY <2>2, <2>3, <2>5, Zenon
<1>5. stored'[c] = stored[c] + 0
  BY <1>2
<1> QED
  BY <1>4, <1>5, CountStep

LEMMA CountTail ==
    ASSUME Types, Types', NEW c \in Conns, NoneMadeUp(c), chan[c] # <<>>, chan'[c] = Tail(chan[c]),
           NEW a \in {0, 1}, Head(chan[c]).op # "data" => a = 0, stored'[c] = stored[c] + a,
           sent'[c] = sent[c]
    PROVE  NoneMadeUp(c)'
<1>1. /\ chan[c] \in Seq(Msgs) /\ DataIn(c) = Cardinality(Datas(chan[c])) /\ DataIn(c) \in Nat
      /\ sent[c] \in Nat
  BY CountTypes
<1>2. DataIn(c)' = Cardinality(Datas(chan'[c])) /\ Cardinality(Datas(chan'[c])) \in Nat
  <2>1. chan'[c] \in Seq(Msgs)
    BY DEF Types, NetTypes
  <2> QED
    BY <2>1, DatasOfChannel, DatasFinite DEF DataIn
<1>3. DataIn(c)' + a <= DataIn(c) + 0
  <2>1. Cardinality(Datas(chan[c]))
           = Cardinality(Datas(Tail(chan[c]))) + IF Head(chan[c]).op = "data" THEN 1 ELSE 0
    BY <1>1, DatasTail
  <2>2. PICK x \in Nat, w \in Nat : x = DataIn(c) /\ w = DataIn(c)'
    BY <1>1, <1>2
  <2>3. x = w + IF Head(chan[c]).op = "data" THEN 1 ELSE 0
    BY <1>1, <1>2, <2>1, <2>2, Zenon
  <2>4. w + a <= x + 0
    BY <2>3
  <2> QED
    BY <2>2, <2>4, Zenon
<1>4. sent'[c] = sent[c] + 0
  BY <1>1
<1> QED
  BY <1>3, <1>4, CountStep

LEMMA CountNone ==
    ASSUME Types, Types', NEW d \in Conns, NoneMadeUp(d), chan'[d] = <<>>, stored'[d] = stored[d],
           sent'[d] = sent[d]
    PROVE  NoneMadeUp(d)'
<1>1. DataIn(d) \in Nat /\ stored[d] \in Nat /\ sent[d] \in Nat
  BY CountTypes
<1>2. DataIn(d)' = 0
  <2>1. chan'[d] \in Seq(Msgs) /\ Datas(chan'[d]) = {}
    <3>1. <<>> \in Seq(Msgs)
      OBVIOUS
    <3> QED
      BY <3>1, NamedEmpty
  <2> QED
    BY <2>1, DatasOfChannel, FS_EmptySet DEF DataIn
<1>3. /\ DataIn(d)' + 0 <= DataIn(d) + 0
      /\ stored'[d] = stored[d] + 0 /\ sent'[d] = sent[d] + 0
  BY <1>1, <1>2
<1> QED
  BY <1>3, CountStep

LEMMA NoneMadeUpStep ==
    ASSUME Types, Types', \A d \in Conns : NoneMadeUp(d), Next
    PROVE  \A d \in Conns : NoneMadeUp(d)'
<1>1. ASSUME UNCHANGED <<chan, sent, stored>>, NEW d \in Conns PROVE NoneMadeUp(d)'
  BY <1>1, CountSame
<1>2. ASSUME NEW c \in Conns, ClientAct(c), NEW d \in Conns PROVE NoneMadeUp(d)'
  <2>1. UNCHANGED stored /\ \A e \in Conns \ {c} : Same(e)
    BY <1>2, ClientFrame DEF serverVars
  <2>2. CASE d # c
    BY <2>1, <2>2, CountSame DEF Same
  <2>3. CASE d = c /\ SendOpen(c)
    <3>1. /\ todo[c] # <<>> /\ Send(c, Msg("open", Head(todo[c])))
          /\ sent' = sent
      BY <2>3 DEF SendOpen, ToOpen
    <3>2. PICK m \in Msgs : m.op = "open" /\ Send(c, m)
      BY <3>1, HeadMsg DEF Msg
    <3>3. sent'[c] = sent[c] + 0
      BY <3>1, CountTypes
    <3> QED
      BY <2>1, <2>3, <3>2, <3>3, CountSend
  <2>4. CASE d = c /\ SendClose(c)
    <3>1. /\ todo[c] # <<>> /\ Send(c, Msg("close", Head(todo[c])))
          /\ sent' = sent
      BY <2>4 DEF SendClose
    <3>2. PICK m \in Msgs : m.op = "close" /\ Send(c, m)
      BY <3>1, HeadMsg DEF Msg
    <3>3. sent'[c] = sent[c] + 0
      BY <3>1, CountTypes
    <3> QED
      BY <2>1, <2>4, <3>2, <3>3, CountSend
  <2>5. CASE d = c /\ SendData(c)
    <3>1. PICK m \in Msgs : Send(c, m)
      BY <2>5, DataMsg DEF SendData
    <3>2. sent'[c] = sent[c] + 1
      BY <2>5 DEF SendData, Types, ClientTypes
    <3> QED
      BY <2>1, <2>5, <3>1, <3>2, CountSend
  <2>6. CASE ~SendOpen(c) /\ ~SendClose(c) /\ ~SendData(c)
    <3>1. UNCHANGED <<chan, sent>>
      BY <1>2, <2>6 DEF ClientAct, ClientStep, Connect, RecvAck, RecvReset, Unblocked, SendEnds,
                        Disconnect, RecvGivenUp, StopTracers, netVars
    <3> QED
      BY <2>1, <3>1, CountSame
  <2> QED
    BY <2>2, <2>3, <2>4, <2>5, <2>6
<1>3. ASSUME NEW c \in Conns, ServerStep(c), NEW d \in Conns PROVE NoneMadeUp(d)'
  <2>1. chan[c] # <<>> /\ UNCHANGED sent
    BY <1>3 DEF ServerStep, OpenDevice, OpenWith, ReadData, CloseDevice, CloseWith, Header, clientVars
  <2>2. CASE OpenDevice(c)
    <3>1. /\ Head(chan[c]).op = "open" /\ chan' = [chan EXCEPT ![c] = Tail(@)] /\ stored' = stored
      BY <2>2 DEF OpenDevice, OpenWith, Header
    <3>2. chan'[c] = Tail(chan[c]) /\ (d # c => chan'[d] = chan[d])
      BY <3>1 DEF Types, NetTypes
    <3>3. stored'[c] = stored[c] + 0
      BY <3>1, CountTypes
    <3> QED
      BY <2>1, <3>1, <3>2, <3>3, CountSame, CountTail
  <2>3. CASE ReadData(c)
    <3>1. /\ chan' = [chan EXCEPT ![c] = Tail(@)] /\ stored' = [stored EXCEPT ![c] = @ + 1]
          /\ Head(chan[c]).op = "data"
      BY <2>3 DEF ReadData, Header
    <3>2. /\ chan'[c] = Tail(chan[c]) /\ stored'[c] = stored[c] + 1
          /\ d # c => chan'[d] = chan[d] /\ stored'[d] = stored[d]
      BY <3>1 DEF Types, NetTypes, ServerTypes
    <3> QED
      BY <2>1, <3>1, <3>2, CountSame, CountTail
  <2>4. CASE CloseDevice(c)
    <3>1. /\ Head(chan[c]).op = "close" /\ stored' = stored
          /\ \/ chan' = [chan EXCEPT ![c] = Tail(@)]
             \/ chan' = [e \in Conns |-> IF e \in Removed(Host(c)) THEN <<>> ELSE chan[e]]
      BY <2>4 DEF CloseDevice, CloseWith, Header
    <3>2. \/ chan'[d] = chan[d]
          \/ chan'[d] = <<>>
          \/ d = c /\ chan'[c] = Tail(chan[c])
      BY <3>1 DEF Types, NetTypes
    <3>3. stored'[c] = stored[c] + 0
      BY <3>1, CountTypes
    <3>4. CASE chan'[d] = chan[d]
      BY <2>1, <3>1, <3>4, CountSame
    <3>5. CASE chan'[d] = <<>>
      BY <2>1, <3>1, <3>5, CountNone
    <3>6. CASE d = c /\ chan'[c] = Tail(chan[c])
      BY <2>1, <3>1, <3>3, <3>6, CountTail
    <3> QED
      BY <3>2, <3>4, <3>5, <3>6
  <2> QED
    BY <1>3, <2>2, <2>3, <2>4 DEF ServerStep
<1>4. ASSUME NEW c \in Conns, StartFails(c) \/ ConnectFails(c) PROVE UNCHANGED <<chan, sent, stored>>
  BY <1>4 DEF StartFails, ConnectFails, netVars, serverVars
<1>5. ASSUME NEW r \in Runs, Interrupt(r) \/ RunExits(r) \/ Crash(r)
      PROVE  UNCHANGED <<chan, sent, stored>>
  BY <1>5 DEF Interrupt, RunExits, Crash, netVars, serverVars
<1>6. CASE AddConnection
  <2>1. UNCHANGED <<chan, sent, stored>>
    BY <1>6 DEF AddConnection, clientVars
  <2> QED
    BY <1>1, <2>1
<1>7. CASE Idle
  <2>1. UNCHANGED <<chan, sent, stored>>
    BY <1>7 DEF Idle, vars, clientVars, netVars, serverVars
  <2> QED
    BY <1>1, <2>1
<1> QED
  BY <1>1, <1>2, <1>3, <1>4, <1>5, <1>6, <1>7 DEF Next, ClientAct

-----------------------------------------------------------------------------
(* The theorems. *)

\* What failed once stays failed, so that a host that is sound was not spoilt before.
LEMMA SpoiltForGood ==
    ASSUME Types, Next, NEW r \in Runs, failed[r]
    PROVE  failed'[r]
<1>1. ASSUME NEW c \in Conns, StartFails(c) \/ ConnectFails(c) PROVE failed'[r]
  BY <1>1 DEF StartFails, ConnectFails, Types, ClientTypes
<1>2. ASSUME NEW c \in Conns, ClientAct(c) PROVE failed' = failed
  BY <1>2 DEF ClientAct, ClientStep, Connect, SendOpen, RecvAck, RecvReset, Unblocked, SendEnds,
              SendClose, Disconnect, SendData, RecvGivenUp, StopTracers
<1>3. ASSUME NEW c \in Conns, ServerStep(c) PROVE failed' = failed
  BY <1>3 DEF ServerStep, OpenDevice, OpenWith, ReadData, CloseDevice, CloseWith, clientVars
<1>4. ASSUME NEW q \in Runs, Interrupt(q) \/ RunExits(q) \/ Crash(q) PROVE failed' = failed
  BY <1>4 DEF Interrupt, RunExits, Crash
<1>5. CASE AddConnection \/ Idle
  BY <1>5 DEF AddConnection, Idle, vars, clientVars
<1> QED
  BY <1>1, <1>2, <1>3, <1>4, <1>5 DEF Next, ClientAct

LEMMA InitInv ==
    ASSUME Init PROVE IInv
<1>1. Types
  BY InitTypes
<1>2. ASSUME NEW c \in Conns PROVE ConnInv(c)
  <2>1. /\ st[c] = "new" /\ todo[c] = DevsOf[c] /\ link[c] = "none" /\ chan[c] = <<>>
        /\ backlog = <<>> /\ conn_list = {} /\ opened[c] = {} /\ sent[c] = 0 /\ stored[c] = 0
    BY DEF Init
  <2>2. InOrder(chan[c]) /\ \A o : Named(chan[c], o) = {}
    BY <2>1, NamedEmpty
  <2>3. WillBeOpen(c) = {} /\ IsInjective(DevsOf[c])
    BY <2>1, <2>2 DEF WillBeOpen
  <2>4. DataIn(c) = 0
    <3>1. chan[c] \in Seq(Msgs) /\ Datas(chan[c]) = {}
      BY <2>1, NamedEmpty
    <3> QED
      BY <3>1, DatasOfChannel, FS_EmptySet DEF DataIn
  <2>5. ChanInv(c)
    BY <2>1, <2>2, <2>3 DEF ChanInv
  <2>6. ClientInv(c)
    BY <2>1, <2>2, <2>3 DEF ClientInv, Unknown
  <2>7. DataInv(c)
    <3>1. stored[c] + DataIn(c) = sent[c]
      BY <2>1, <2>4
    <3> QED
      BY <2>1, <2>2, <3>1 DEF DataInv
  <2> QED
    BY <2>5, <2>6, <2>7 DEF ConnInv
<1>3. ASSUME NEW k \in Hosts PROVE HostInv(k)
  <2>1. OpenAt(k) = {}
    BY DEF OpenAt, Init
  <2> QED
    BY <2>1, FS_EmptySet DEF HostInv, Init
<1>4. ASSUME NEW c \in Conns PROVE NoneMadeUp(c)
  <2>1. stored[c] = 0 /\ sent[c] = 0 /\ link[c] = "none"
    BY DEF Init
  <2>2. stored[c] + DataIn(c) = sent[c]
    BY <1>2, <2>1 DEF ConnInv, DataInv
  <2> QED
    BY <2>1, <2>2 DEF NoneMadeUp
<1> QED
  BY <1>1, <1>2, <1>3, <1>4 DEF IInv, Sound

LEMMA NextInv ==
    ASSUME IInv, Next PROVE IInv'
<1>1. Types /\ Types'
  BY ClientTypesStep, NetTypesStep, ServerTypesStep DEF IInv, Types
<1>2. \A c \in Conns : NoneMadeUp(c)'
  BY <1>1, NoneMadeUpStep DEF IInv
<1>3. ASSUME NEW k \in Hosts, ~Spoilt(k)' PROVE Sound(k)'
  <2>1. ~Spoilt(k)
    BY <1>1, <1>3, SpoiltForGood DEF Spoilt
  <2>2. Sound(k)
    BY <2>1 DEF IInv
  <2>3. ASSUME NEW c \in Conns, ClientAct(c) PROVE Sound(k)'
    <3>1. CASE Host(c) # k
      BY <1>1, <2>2, <2>3, <3>1, ElsewhereStep
    <3>2. CASE Host(c) = k
      <4>1. CASE RecvAck(c) \/ RecvReset(c) \/ RecvGivenUp(c)
        <5>1. UNCHANGED <<st, todo, sent, link, chan, backlog, serverVars>>
          BY <4>1 DEF RecvAck, RecvReset, RecvGivenUp, netVars
        <5> QED
          BY <2>2, <5>1, QuietStep
      <4> QED
        BY <1>1, <2>1, <2>2, <2>3, <3>2, <4>1, ConnectStep, SendOpenStep, UnblockedStep,
           SendEndsStep, SendCloseStep, DisconnectStep, SendDataStep, StopTracersStep
           DEF ClientAct, ClientStep
    <3> QED
      BY <3>1, <3>2
  <2>4. ASSUME NEW c \in Conns, ServerStep(c) PROVE Sound(k)'
    <3>1. CASE Host(c) # k
      BY <1>1, <2>2, <2>4, <3>1, ElsewhereStep
    <3>2. CASE Host(c) = k
      BY <1>1, <2>2, <2>4, <3>2, OpenDeviceStep, ReadDataStep, CloseOneStep, CloseLastStep
         DEF ServerStep
    <3> QED
      BY <3>1, <3>2
  <2>5. ASSUME NEW c \in Conns, StartFails(c) \/ ConnectFails(c) PROVE Sound(k)'
    BY <1>1, <2>2, <2>5, FailureStep
  <2>6. ASSUME NEW r \in Runs, Interrupt(r) PROVE Sound(k)'
    <3>1. UNCHANGED <<st, todo, sent, link, chan, backlog, serverVars>>
      BY <2>6 DEF Interrupt, netVars
    <3> QED
      BY <2>2, <3>1, QuietStep
  <2>7. ASSUME NEW r \in Runs, RunExits(r) \/ Crash(r) PROVE Sound(k)'
    BY <2>2, <2>7, GoneStep
  <2>8. CASE AddConnection
    BY <1>1, <2>2, <2>8, AddConnectionStep
  <2>9. CASE Idle
    <3>1. UNCHANGED <<st, todo, sent, link, chan, backlog, serverVars>>
      BY <2>9 DEF Idle, vars, clientVars, netVars
    <3> QED
      BY <2>2, <3>1, QuietStep
  <2> QED
    BY <2>3, <2>4, <2>5, <2>6, <2>7, <2>8, <2>9 DEF Next, ClientAct
<1> QED
  BY <1>1, <1>2, <1>3 DEF IInv

\* The inductive invariant: at a host where no run with send failed to start, what is in
\* a channel follows what the server has open and fits what the client has yet to do,
\* sent data is stored or on its way, and cl_opens counts the devices open
\* (net_client_data, net_ch_remove). At any host, no more is stored than was sent.
THEOREM InductiveInvariant == Spec => []IInv
<1>1. Init => IInv
  BY InitInv
<1>2. IInv /\ [Next]_vars => IInv'
  <2>1. ASSUME IInv, UNCHANGED vars PROVE IInv'
    <3>1. UNCHANGED <<st, todo, sent, link, chan, backlog, failed, serverVars>>
      BY <2>1 DEF vars, clientVars, netVars
    <3>2. ASSUME NEW k \in Hosts PROVE Spoilt(k)' \/ Sound(k)'
      <4>1. CASE Spoilt(k)
        BY <3>1, <4>1 DEF Spoilt
      <4>2. CASE Sound(k)
        BY <3>1, <4>2, QuietStep
      <4> QED
        BY <2>1, <4>1, <4>2 DEF IInv
    <3>3. Types'
      BY <2>1 DEF IInv, Types, ClientTypes, NetTypes, ServerTypes, vars, clientVars, netVars, serverVars
    <3>4. ASSUME NEW c \in Conns PROVE NoneMadeUp(c)'
      BY <2>1, <3>1, CountSame DEF IInv, serverVars
    <3> QED
      BY <3>2, <3>3, <3>4 DEF IInv
  <2> QED
    BY <2>1, NextInv
<1> QED
  BY <1>1, <1>2, PTL DEF Spec

\* In every state the variables have the values their declarations promise, cl_opens any
\* integer, and no more data is stored than was sent.
THEOREM TypeCorrect == Spec => []TypeOK
<1>1. IInv => TypeOK
  <2>1. SUFFICES ASSUME IInv PROVE TypeOK
    OBVIOUS
  <2>2. ASSUME NEW c \in Conns
        PROVE  stored[c] \in 0 .. sent[c] /\ sent[c] \in 0 .. DataOf[c]
    <3>1. sent[c] <= DataOf[c] /\ DataOf[c] \in Nat /\ Types
      BY <2>1 DEF IInv, Types, ClientTypes
    <3>2. DataIn(c) \in Nat /\ stored[c] \in Nat /\ sent[c] \in Nat
      BY <3>1, CountTypes
    <3>3. stored[c] <= sent[c]
      <4>1. PICK x \in Nat, y \in Nat, z \in Nat : x = stored[c] /\ y = DataIn(c) /\ z = sent[c]
        BY <3>2
      <4>2. x + y <= z
        BY <2>1, <4>1, Zenon DEF IInv, NoneMadeUp
      <4> QED
        BY <4>1, <4>2
    <3> QED
      BY <3>1, <3>2, <3>3
  <2> QED
    BY <2>1, <2>2 DEF TypeOK, IInv, Types, ClientTypes, NetTypes, ServerTypes, Msgs
<1> QED
  BY <1>1, InductiveInvariant, PTL

\* At a host where no run with send failed to start, a device that a connection has open
\* is open at the host, which the server removes with the last close and not before
\* (net_client_data, net_ch_remove).
THEOREM OpenStay == Spec => []OpenDevicesStay
<1>1. IInv => OpenDevicesStay
  <2>1. SUFFICES ASSUME IInv, NEW k \in Hosts, ~Spoilt(k)
                 PROVE  /\ \A c \in Conns : Host(c) = k /\ opened[c] # {} =>
                              c \in conn_list /\ opened[c] \subseteq devpaths[k]
                        /\ devpaths[k] # {} <=> \E c \in Conns : Host(c) = k /\ opened[c] # {}
    BY DEF OpenDevicesStay
  <2>2. HostInv(k) /\ \A c \in Conns : Host(c) = k => ConnInv(c)
    BY <2>1 DEF IInv, Sound
  <2>3. ASSUME NEW c \in Conns, Host(c) = k, NEW v \in opened[c]
        PROVE  v \in devpaths[k] /\ c \in conn_list
    <3>1. v \in Devs
      BY <2>1, <2>3 DEF IInv, Types, ServerTypes
    <3>2. <<c, v>> \in OpenAt(k)
      BY <2>3, <3>1 DEF OpenAt
    <3>3. <<c, v>>[2] \in devpaths[k]
      BY <2>2, <3>2 DEF HostInv
    <3>4. c \in conn_list
      BY <2>2, <2>3 DEF ConnInv, ChanInv
    <3> QED
      BY <3>3, <3>4
  <2>4. ASSUME devpaths[k] # {}
        PROVE  \E c \in Conns : Host(c) = k /\ opened[c] # {}
    <3>1. PICK p : p \in OpenAt(k)
      BY <2>2, <2>4 DEF HostInv
    <3>2. p[1] \in Conns /\ Host(p[1]) = k /\ p[2] \in opened[p[1]]
      BY <3>1 DEF OpenAt
    <3> QED
      BY <3>2
  <2>5. ASSUME NEW c \in Conns, Host(c) = k, opened[c] # {} PROVE devpaths[k] # {}
    BY <2>3, <2>5
  <2> QED
    BY <2>3, <2>4, <2>5
<1> QED
  BY <1>1, InductiveInvariant, PTL

\* Once the server has a device open for a connection, all that is sent on it is stored
\* or on its way, whatever the other runs of the host do, as long as none of them with
\* send fails to start (net_client_read_data).
THEOREM OpenIsStored == Spec => []OpenedIsStored
<1>1. IInv => OpenedIsStored
  <2>1. SUFFICES ASSUME IInv, NEW c \in Conns, ~Spoilt(Host(c)), opened[c] # {} \/ stored[c] > 0
                 PROVE  stored[c] + DataIn(c) = sent[c]
    BY DEF OpenedIsStored
  <2>2. ConnInv(c)
    BY <2>1 DEF IInv, Sound, Host
  <2>3. CASE link[c] # "reset"
    BY <2>2, <2>3 DEF ConnInv, DataInv
  <2>4. CASE link[c] = "reset"
    <3>1. chan[c] = <<>> /\ stored[c] = sent[c]
      BY <2>1, <2>2, <2>4 DEF ConnInv, DataInv
    <3>2. DataIn(c) = 0
      <4>1. chan[c] \in Seq(Msgs) /\ Datas(chan[c]) = {}
        BY <3>1, NamedEmpty
      <4> QED
        BY <4>1, DatasOfChannel, FS_EmptySet DEF DataIn
    <3>3. sent[c] \in Nat
      BY <2>1 DEF IInv, Types, ClientTypes
    <3> QED
      BY <3>1, <3>2, <3>3
  <2> QED
    BY <2>3, <2>4
<1> QED
  BY <1>1, InductiveInvariant, PTL

=============================================================================
