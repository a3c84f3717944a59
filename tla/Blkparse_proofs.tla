--------------------------- MODULE Blkparse_proofs ---------------------------
(***************************************************************************)
(* For any number of CPUs, any sizes of batches and any input that the     *)
(* readers may find: blkparse shows all that it took in, from a pipe or    *)
(* from files, what it shows of a CPU while a pipe lasts has no gaps, the  *)
(* skips are what is missing, the merge of files is in time order, and     *)
(* blkrawverify counts exactly the traces that are wrong.                  *)
(***************************************************************************)
EXTENDS Blkparse, FiniteSetTheorems, SequenceTheorems, TLAPS

-----------------------------------------------------------------------------
(* blkrawverify. *)

\* What process has read, one entry of the history.
Entry == [kind : {"trace", "notify", "magic", "cpu", "pdu"},
          rec  : [seq : Nat, time : Nat, dev : Nat],
          good : BOOLEAN]

VerifyTypes ==
    /\ vpc \in {"off", "open", "file", "end"}
    /\ vcpu \in Nat
    /\ save \in [seq : Nat, time : Nat, dev : Nat]
    /\ ngood \in Nat /\ nbad \in Nat
    /\ nbad_cpu \in Nat /\ nbad_seq \in Nat /\ nbad_dev \in Nat /\ nbad_time \in Nat
    /\ rval \in Nat
    /\ file \in Seq(Entry)

\* A notify is never found wrong; what is no trace of the file's CPU always is.
KindsFit ==
    \A i \in 1 .. Len(file) :
        /\ file[i].kind = "notify" => file[i].good
        /\ file[i].kind \notin {"trace", "notify"} => ~file[i].good

GoodFollow == \A i, j \in GoodTraces : i < j => Follows(file[i], file[j])

\* What the next trace is compared with is the last good one.
SaveIsLast ==
    GoodTraces # {} =>
        \E i \in GoodTraces : save = file[i].rec /\ \A j \in GoodTraces : j <= i

\* A trace that was found wrong does not follow a good one before it.
BadHasReason ==
    \A j \in At("trace") : ~file[j].good =>
        \E i \in GoodTraces : i < j /\ ~Follows(file[i], file[j])

\* What blkrawverify counts and returns.
CountsFit ==
    /\ nbad = 0 <=> \A i \in 1 .. Len(file) : file[i].good
    /\ ngood = Cardinality(GoodTraces)
    /\ ngood + nbad + Cardinality(At("notify")) = Len(file)
    /\ nbad = nbad_cpu + nbad_seq + nbad_dev + nbad_time + Cardinality(At("magic"))
    /\ vpc = "open" /\ nbad > 0 => rval = 1

VerifyInv == VerifyTypes /\ KindsFit /\ GoodFollow /\ SaveIsLast /\ BadHasReason /\ CountsFit

\* The sets of places in a file are finite.
LEMMA PlacesFinite ==
    ASSUME file \in Seq(Entry), NEW k
    PROVE  /\ IsFiniteSet(At(k)) /\ Cardinality(At(k)) \in Nat /\ Len(file) + 1 \notin At(k)
           /\ IsFiniteSet(GoodTraces) /\ Cardinality(GoodTraces) \in Nat
           /\ Len(file) + 1 \notin GoodTraces
           /\ At(k) \subseteq 1 .. Len(file) /\ GoodTraces \subseteq 1 .. Len(file)
<1>1. DOMAIN file = 1 .. Len(file) /\ Len(file) \in Nat
  BY LenProperties
<1>2. At(k) \subseteq 1 .. Len(file) /\ GoodTraces \subseteq 1 .. Len(file)
  BY <1>1 DEF At, GoodTraces
<1>3. IsFiniteSet(1 .. Len(file))
  BY <1>1, FS_Interval
<1>4. IsFiniteSet(At(k)) /\ IsFiniteSet(GoodTraces)
  BY <1>2, <1>3, FS_Subset, Zenon
<1>5. Cardinality(At(k)) \in Nat /\ Cardinality(GoodTraces) \in Nat
  BY <1>4, FS_CardinalityType
<1> QED
  BY <1>1, <1>2, <1>4, <1>5

\* What one more entry does to the places of each kind.
LEMMA Logged ==
    ASSUME file \in Seq(Entry), NEW e \in Entry, file' = Append(file, e)
    PROVE  /\ file' \in Seq(Entry) /\ Len(file') = Len(file) + 1
           /\ \A i \in 1 .. Len(file) : file'[i] = file[i]
           /\ file'[Len(file) + 1] = e
           /\ \A k : At(k)' = IF e.kind = k THEN At(k) \cup {Len(file) + 1} ELSE At(k)
           /\ \A k : Cardinality(At(k)') = IF e.kind = k THEN Cardinality(At(k)) + 1
                                          ELSE Cardinality(At(k))
           /\ GoodTraces' = IF e.kind = "trace" /\ e.good THEN GoodTraces \cup {Len(file) + 1}
                            ELSE GoodTraces
           /\ Cardinality(GoodTraces') = IF e.kind = "trace" /\ e.good
                                         THEN Cardinality(GoodTraces) + 1
                                         ELSE Cardinality(GoodTraces)
<1>1. /\ file' \in Seq(Entry) /\ Len(file') = Len(file) + 1
      /\ \A i \in 1 .. Len(file) : file'[i] = file[i]
      /\ file'[Len(file) + 1] = e
  BY AppendProperties
<1>2. /\ DOMAIN file = 1 .. Len(file) /\ Len(file) \in Nat
      /\ DOMAIN file' = (1 .. Len(file)) \cup {Len(file) + 1}
  BY <1>1, LenProperties
<1>3. ASSUME NEW k
      PROVE  /\ At(k)' = IF e.kind = k THEN At(k) \cup {Len(file) + 1} ELSE At(k)
             /\ Cardinality(At(k)') = IF e.kind = k THEN Cardinality(At(k)) + 1
                                      ELSE Cardinality(At(k))
  <2>1. At(k)' = IF e.kind = k THEN At(k) \cup {Len(file) + 1} ELSE At(k)
    BY <1>1, <1>2 DEF At
  <2>2. /\ IsFiniteSet(At(k)) /\ Len(file) + 1 \notin At(k)
    BY PlacesFinite, Zenon
  <2>3. Cardinality(At(k) \cup {Len(file) + 1}) = Cardinality(At(k)) + 1
    BY <2>2, FS_AddElement, Zenon
  <2> QED
    BY <2>1, <2>3, Zenon
<1>4. At("trace")' = IF e.kind = "trace" THEN At("trace") \cup {Len(file) + 1} ELSE At("trace")
  BY <1>3, Zenon
<1>5. GoodTraces' = IF e.kind = "trace" /\ e.good THEN GoodTraces \cup {Len(file) + 1}
                    ELSE GoodTraces
  <2>1. \A i \in At("trace") : file'[i] = file[i]
    BY <1>1, PlacesFinite
  <2> QED
    BY <1>1, <1>4, <2>1, PlacesFinite DEF GoodTraces
<1>6. Cardinality(GoodTraces \cup {Len(file) + 1}) = Cardinality(GoodTraces) + 1
  <2>1. IsFiniteSet(GoodTraces) /\ Len(file) + 1 \notin GoodTraces
    BY PlacesFinite, Zenon
  <2> QED
    BY <2>1, FS_AddElement, Zenon
<1> QED
  BY <1>1, <1>3, <1>5, <1>6, Zenon

\* What is no trace leaves what is known of the traces alone.
LEMMA OtherEntry ==
    ASSUME VerifyInv, NEW e \in Entry, e.kind # "trace", file' = Append(file, e),
           e.kind = "notify" <=> e.good, save' = save
    PROVE  KindsFit' /\ GoodFollow' /\ SaveIsLast' /\ BadHasReason'
<1>1. file \in Seq(Entry) /\ Len(file) \in Nat
  BY LenProperties DEF VerifyInv, VerifyTypes
<1>2. /\ Len(file') = Len(file) + 1
      /\ \A i \in 1 .. Len(file) : file'[i] = file[i]
      /\ file'[Len(file) + 1] = e
      /\ At("trace")' = At("trace") /\ GoodTraces' = GoodTraces
  BY <1>1, Logged, Zenon
<1>3. At("trace") \subseteq 1 .. Len(file) /\ GoodTraces \subseteq 1 .. Len(file)
  BY <1>1, PlacesFinite, Zenon
<1>4. KindsFit'
  <2> SUFFICES ASSUME NEW i \in 1 .. Len(file) + 1
               PROVE  /\ file'[i].kind = "notify" => file'[i].good
                      /\ file'[i].kind \notin {"trace", "notify"} => ~file'[i].good
    BY <1>2 DEF KindsFit
  <2>1. CASE i \in 1 .. Len(file)
    BY <1>2, <2>1 DEF VerifyInv, KindsFit
  <2>2. CASE i = Len(file) + 1
    BY <1>2, <2>2
  <2> QED
    BY <1>1, <2>1, <2>2
<1>5. \A i \in At("trace") \cup GoodTraces : file'[i] = file[i]
  BY <1>2, <1>3
<1>6. \A i, j \in At("trace") \cup GoodTraces :
         Follows(file[i], file[j])' <=> Follows(file[i], file[j])
  BY <1>5 DEF Follows
<1>7. GoodFollow'
  <2>1. GoodFollow
    BY DEF VerifyInv
  <2> QED
    BY <1>2, <1>6, <2>1 DEF GoodFollow
<1>8. SaveIsLast'
  <2>1. SaveIsLast
    BY DEF VerifyInv
  <2> QED
    BY <1>2, <1>5, <2>1, ZenonT(30) DEF SaveIsLast
<1>9. BadHasReason'
  <2>1. BadHasReason
    BY DEF VerifyInv
  <2> QED
    BY <1>2, <1>5, <1>6, <2>1, ZenonT(30) DEF BadHasReason
<1> QED
  BY <1>4, <1>7, <1>8, <1>9

\* The steps that read an entry that is no trace, and what they count.
LEMMA OtherStep ==
    ASSUME VerifyInv, BadMagic \/ BadCpu \/ Notify \/ CutOff
    PROVE  VerifyInv'
<1>1. /\ file \in Seq(Entry) /\ Len(file) \in Nat
      /\ \A k \in {"notify", "magic"} : Cardinality(At(k)) \in Nat
  BY LenProperties, PlacesFinite DEF VerifyInv, VerifyTypes
<1>0. /\ save \in [seq : Nat, time : Nat, dev : Nat] /\ vcpu \in Nat /\ rval \in Nat
      /\ ngood \in Nat /\ nbad \in Nat
      /\ nbad_cpu \in Nat /\ nbad_seq \in Nat /\ nbad_dev \in Nat /\ nbad_time \in Nat
  BY DEF VerifyInv, VerifyTypes
<1>2. PICK kind \in {"notify", "magic", "cpu", "pdu"} :
        /\ file' = Append(file, [kind |-> kind, rec |-> save, good |-> kind = "notify"])
        /\ nbad' = IF kind = "notify" THEN nbad ELSE nbad + 1
        /\ nbad_cpu' = IF kind = "cpu" THEN nbad_cpu + 1 ELSE nbad_cpu
        /\ nbad_seq' = IF kind = "pdu" THEN nbad_seq + 1 ELSE nbad_seq
        /\ save' = save /\ ngood' = ngood /\ nbad_dev' = nbad_dev /\ nbad_time' = nbad_time
        /\ IF kind = "pdu" THEN vpc' = "open" /\ vcpu' = vcpu + 1 /\ rval' = (IF nbad' > 0 THEN 1 ELSE rval)
           ELSE vpc' = vpc /\ vcpu' = vcpu /\ rval' = rval
        /\ vpc = "file"
  <2>1. CASE BadMagic
    BY <2>1 DEF BadMagic, Reading, Bad, Log
  <2>2. CASE BadCpu
    BY <2>2 DEF BadCpu, Reading, Bad, Log
  <2>3. CASE Notify
    BY <2>3 DEF Notify, Reading, Log, counts
  <2>4. CASE CutOff
    BY <2>4 DEF CutOff, Reading, Log, Leave
  <2> QED
    BY <2>1, <2>2, <2>3, <2>4
<1> DEFINE e == [kind |-> kind, rec |-> save, good |-> kind = "notify"]
<1>3. e \in Entry /\ e.kind = kind /\ (e.good <=> kind = "notify")
  BY <1>0 DEF Entry
<1> HIDE DEF e
<1>4. file' = Append(file, e)
  BY <1>2 DEF e
<1>5. /\ file' \in Seq(Entry) /\ Len(file') = Len(file) + 1
      /\ \A i \in 1 .. Len(file) : file'[i] = file[i]
      /\ file'[Len(file) + 1] = e
      /\ \A k : Cardinality(At(k)') = IF e.kind = k THEN Cardinality(At(k)) + 1 ELSE Cardinality(At(k))
      /\ Cardinality(GoodTraces') = Cardinality(GoodTraces)
  <2>1. e.kind # "trace"
    BY <1>2, <1>3
  <2> QED
    BY <1>1, <1>3, <1>4, <2>1, Logged, Zenon
<1>6. KindsFit' /\ GoodFollow' /\ SaveIsLast' /\ BadHasReason'
  <2>1. e.kind # "trace"
    BY <1>2, <1>3
  <2> QED
    BY <1>2, <1>3, <1>4, <2>1, OtherEntry, Zenon
<1>7. VerifyTypes'
  <2>1. vpc' \in {"off", "open", "file", "end"} /\ vcpu' \in Nat /\ rval' \in Nat
    BY <1>0, <1>2
  <2>2. /\ nbad' \in Nat /\ nbad_cpu' \in Nat /\ nbad_seq' \in Nat
        /\ nbad_dev' \in Nat /\ nbad_time' \in Nat /\ ngood' \in Nat
    BY <1>0, <1>2
  <2>3. save' \in [seq : Nat, time : Nat, dev : Nat]
    BY <1>0, <1>2, Zenon
  <2> QED
    BY <1>5, <2>1, <2>2, <2>3 DEF VerifyTypes
<1>8. nbad' = 0 <=> \A i \in 1 .. Len(file') : file'[i].good
  <2>1. CASE kind = "notify"
    <3>1. nbad' = nbad /\ e.good
      BY <1>2, <1>3, <2>1
    <3>2. \A i \in 1 .. Len(file') : i \in 1 .. Len(file) \/ i = Len(file) + 1
      BY <1>1, <1>5
    <3>3. \A i \in 1 .. Len(file) : i \in 1 .. Len(file')
      BY <1>1, <1>5
    <3>4. nbad = 0 <=> \A i \in 1 .. Len(file) : file[i].good
      BY DEF VerifyInv, CountsFit
    <3>5. file'[Len(file) + 1].good
      BY <1>5, <3>1, Zenon
    <3> QED
      BY <1>5, <3>1, <3>2, <3>3, <3>4, <3>5, Zenon
  <2>2. CASE kind # "notify"
    <3>1. nbad' # 0
      BY <1>0, <1>2, <2>2
    <3>2. ~file'[Len(file) + 1].good
      BY <1>3, <1>5, <2>2, Zenon
    <3>3. Len(file) + 1 \in 1 .. Len(file')
      BY <1>1, <1>5
    <3> QED
      BY <3>1, <3>2, <3>3, Zenon
  <2> QED
    BY <2>1, <2>2
<1>9. ngood' = Cardinality(GoodTraces')
  BY <1>2, <1>5 DEF VerifyInv, CountsFit
<1>10. /\ Cardinality(At("notify")') = IF kind = "notify" THEN Cardinality(At("notify")) + 1 ELSE Cardinality(At("notify"))
       /\ Cardinality(At("magic")') = IF kind = "magic" THEN Cardinality(At("magic")) + 1 ELSE Cardinality(At("magic"))
  BY <1>3, <1>5, Zenon
<1>11. ngood' + nbad' + Cardinality(At("notify")') = Len(file')
  <2>1. ngood + nbad + Cardinality(At("notify")) = Len(file)
    BY DEF VerifyInv, CountsFit
  <2>2. Len(file') = Len(file) + 1
    BY <1>5
  <2> QED
    BY <1>0, <1>1, <1>2, <1>10, <2>1, <2>2, SMTT(30)
<1>12. nbad' = nbad_cpu' + nbad_seq' + nbad_dev' + nbad_time' + Cardinality(At("magic")')
  <2>1. nbad = nbad_cpu + nbad_seq + nbad_dev + nbad_time + Cardinality(At("magic"))
    BY DEF VerifyInv, CountsFit
  <2>2. PICK c \in Nat, s \in Nat, d \in Nat, m \in Nat, k \in Nat :
           c = nbad_cpu /\ s = nbad_seq /\ d = nbad_dev /\ m = nbad_time /\ k = Cardinality(At("magic"))
    BY <1>0, <1>1
  <2>3. nbad = c + s + d + m + k
    BY <2>1, <2>2, Zenon
  <2>4. nbad_dev' = d /\ nbad_time' = m
    BY <1>2, <2>2
  <2>5. CASE kind = "notify"
    BY <1>2, <1>10, <2>2, <2>3, <2>4, <2>5
  <2>6. CASE kind = "cpu"
    BY <1>2, <1>10, <2>2, <2>3, <2>4, <2>6
  <2>7. CASE kind = "pdu"
    BY <1>2, <1>10, <2>2, <2>3, <2>4, <2>7
  <2>8. CASE kind = "magic"
    BY <1>2, <1>10, <2>2, <2>3, <2>4, <2>8
  <2> QED
    BY <2>5, <2>6, <2>7, <2>8
<1>13. vpc' = "open" /\ nbad' > 0 => rval' = 1
  BY <1>2 DEF VerifyInv, CountsFit
<1> QED
  BY <1>6, <1>7, <1>8, <1>9, <1>11, <1>12, <1>13, Zenon DEF VerifyInv, CountsFit

\* A trace is compared with the last good one, behind all the others.
LEMMA TraceStep ==
    ASSUME VerifyInv, NEW r \in [seq : Nat, time : Nat, dev : Nat], Reading, CheckTrace(r),
           vcpu' = vcpu, nbad_cpu' = nbad_cpu, rval' = rval
    PROVE  VerifyInv'
<1> DEFINE late    == ngood > 0 /\ r.seq <= save.seq
           earlier == ngood > 0 /\ ~late /\ r.time <= save.time
           other   == ngood > 0 /\ ~late /\ ~earlier /\ r.dev # save.dev
           bad     == late \/ earlier \/ other
           e       == [kind |-> "trace", rec |-> r, good |-> ~bad]
<1>1. /\ file \in Seq(Entry) /\ Len(file) \in Nat
      /\ Cardinality(At("notify")) \in Nat /\ Cardinality(At("magic")) \in Nat
      /\ IsFiniteSet(GoodTraces)
  BY LenProperties, PlacesFinite DEF VerifyInv, VerifyTypes
<1>0. /\ save \in [seq : Nat, time : Nat, dev : Nat] /\ vcpu \in Nat /\ rval \in Nat
      /\ ngood \in Nat /\ nbad \in Nat
      /\ nbad_cpu \in Nat /\ nbad_seq \in Nat /\ nbad_dev \in Nat /\ nbad_time \in Nat
  BY DEF VerifyInv, VerifyTypes
<1>2. /\ file' = Append(file, e) /\ vpc' = vpc /\ vpc = "file"
      /\ IF bad THEN nbad' = nbad + 1 /\ ngood' = ngood /\ save' = save
         ELSE nbad' = nbad /\ ngood' = ngood + 1 /\ save' = r
  BY DEF CheckTrace, Bad, Log, Reading
<1>3. /\ nbad_seq' = nbad_seq + (IF late THEN 1 ELSE 0)
      /\ nbad_time' = nbad_time + (IF earlier THEN 1 ELSE 0)
      /\ nbad_dev' = nbad_dev + (IF other THEN 1 ELSE 0)
  BY <1>0 DEF CheckTrace
<1>4. IF bad THEN nbad_seq' + nbad_time' + nbad_dev' = nbad_seq + nbad_time + nbad_dev + 1
      ELSE nbad_seq' + nbad_time' + nbad_dev' = nbad_seq + nbad_time + nbad_dev
  <2>1. late => ~earlier /\ ~other
    OBVIOUS
  <2>2. earlier => ~other
    OBVIOUS
  <2> HIDE DEF late, earlier, other
  <2> QED
    BY <1>0, <1>3, <2>1, <2>2
<1>5. nbad_seq' \in Nat /\ nbad_time' \in Nat /\ nbad_dev' \in Nat
  <2> HIDE DEF late, earlier, other
  <2> QED
    BY <1>0, <1>3
\* Wrong is what does not follow the good trace that was read last.
<1>6. ASSUME GoodTraces # {}
      PROVE  \E i \in GoodTraces :
                /\ \A j \in GoodTraces : j <= i
                /\ bad <=> ~(file[i].rec.seq < r.seq /\ file[i].rec.time < r.time /\ file[i].rec.dev = r.dev)
  <2>1. PICK i \in GoodTraces : save = file[i].rec /\ \A j \in GoodTraces : j <= i
    BY <1>6 DEF VerifyInv, SaveIsLast
  <2>2. ngood # 0
    <3>1. ngood = Cardinality(GoodTraces)
      BY DEF VerifyInv, CountsFit
    <3> QED
      BY <1>1, <1>6, <3>1, FS_EmptySet
  <2>3. /\ save.seq \in Nat /\ save.time \in Nat /\ r.seq \in Nat /\ r.time \in Nat
    BY <1>0
  <2>4. bad <=> ~(save.seq < r.seq /\ save.time < r.time /\ save.dev = r.dev)
    BY <1>0, <2>2, <2>3
  <2> QED
    BY <2>1, <2>4
<1>7. GoodTraces = {} => ~bad
  <2>1. GoodTraces = {} => ngood = 0
    BY FS_EmptySet DEF VerifyInv, CountsFit
  <2> QED
    BY <2>1
<1>8. e \in Entry /\ e.kind = "trace" /\ e.rec = r /\ (e.good <=> ~bad)
  <2> HIDE DEF bad
  <2> QED
    BY DEF Entry
<1> HIDE DEF late, earlier, other, bad, e
<1>n. PICK n \in Nat : n = Len(file) + 1
  BY <1>1
<1>9. /\ file' \in Seq(Entry) /\ Len(file') = n
      /\ \A i \in 1 .. Len(file) : file'[i] = file[i]
      /\ file'[n] = e
      /\ At("trace")' = At("trace") \cup {n}
      /\ Cardinality(At("notify")') = Cardinality(At("notify"))
      /\ Cardinality(At("magic")') = Cardinality(At("magic"))
      /\ GoodTraces' = IF bad THEN GoodTraces ELSE GoodTraces \cup {n}
      /\ Cardinality(GoodTraces') = IF bad THEN Cardinality(GoodTraces) ELSE Cardinality(GoodTraces) + 1
  <2>1. e.kind # "notify" /\ e.kind # "magic"
    BY <1>8
  <2> QED
    BY <1>1, <1>2, <1>8, <1>n, <2>1, Logged, Zenon
<1>10. At("trace") \subseteq 1 .. Len(file) /\ GoodTraces \subseteq 1 .. Len(file)
  BY <1>1, PlacesFinite, Zenon
<1>11. /\ \A i \in At("trace") \cup GoodTraces : file'[i] = file[i] /\ i < n /\ i # n
       /\ GoodTraces \subseteq GoodTraces'
  <2>1. \A i \in 1 .. Len(file) : i < n /\ i # n
    BY <1>1, <1>n
  <2>2. GoodTraces \subseteq GoodTraces'
    BY <1>9
  <2> QED
    BY <1>9, <1>10, <2>1, <2>2, Zenon
<1>12. \A i, j \in At("trace") \cup GoodTraces :
          Follows(file[i], file[j])' <=> Follows(file[i], file[j])
  BY <1>11 DEF Follows
<1>13. \A i \in GoodTraces : Follows(file[i], file[n])' <=>
          file[i].rec.seq < r.seq /\ file[i].rec.time < r.time /\ file[i].rec.dev = r.dev
  <2> SUFFICES ASSUME NEW i \in GoodTraces
               PROVE  Follows(file[i], file[n])' <=>
                        file[i].rec.seq < r.seq /\ file[i].rec.time < r.time /\ file[i].rec.dev = r.dev
    OBVIOUS
  <2>1. file'[i] = file[i] /\ file'[n] = e /\ e.rec = r
    BY <1>8, <1>9, <1>11
  <2> QED
    BY <2>1, Zenon DEF Follows
<1>14. KindsFit'
  <2> SUFFICES ASSUME NEW i \in 1 .. n
               PROVE  /\ file'[i].kind = "notify" => file'[i].good
                      /\ file'[i].kind \notin {"trace", "notify"} => ~file'[i].good
    BY <1>9 DEF KindsFit
  <2>1. CASE i \in 1 .. Len(file)
    BY <1>9, <2>1 DEF VerifyInv, KindsFit
  <2>2. CASE i = n
    BY <1>8, <1>9, <2>2
  <2> QED
    BY <1>1, <1>n, <2>1, <2>2
<1>15. ASSUME ~bad, NEW i \in GoodTraces
       PROVE  Follows(file[i], file[n])'
  <2>1. PICK m \in GoodTraces :
           /\ \A j \in GoodTraces : j <= m
           /\ file[m].rec.seq < r.seq /\ file[m].rec.time < r.time /\ file[m].rec.dev = r.dev
    BY <1>6, <1>15
  <2>2. i = m \/ Follows(file[i], file[m])
    <3>1. i <= m /\ i \in Nat /\ m \in Nat
      BY <1>10, <2>1
    <3> QED
      BY <3>1 DEF VerifyInv, GoodFollow
  <2>3. /\ file[i].rec \in [seq : Nat, time : Nat, dev : Nat]
        /\ file[m].rec \in [seq : Nat, time : Nat, dev : Nat]
    <3>1. file[i] \in Entry /\ file[m] \in Entry
      BY <1>1, <1>10, ElementOfSeq
    <3> QED
      BY <3>1 DEF Entry
  <2>4. file[i].rec.seq < r.seq /\ file[i].rec.time < r.time /\ file[i].rec.dev = r.dev
    BY <2>1, <2>2, <2>3 DEF Follows
  <2> QED
    BY <1>13, <2>4
<1>16. GoodFollow'
  <2> SUFFICES ASSUME NEW i \in GoodTraces', NEW j \in GoodTraces', i < j
               PROVE  Follows(file[i], file[j])'
    BY DEF GoodFollow
  <2>1. CASE i \in GoodTraces /\ j \in GoodTraces
    <3>1. Follows(file[i], file[j])
      BY <2>1 DEF VerifyInv, GoodFollow
    <3> QED
      BY <1>12, <2>1, <3>1, Zenon
  <2>2. CASE i \in GoodTraces /\ j = n /\ ~bad
    BY <1>15, <2>2
  <2>3. i # n
    <3>1. j = n \/ j < n
      BY <1>9, <1>11
    <3>2. j \in Nat
      BY <1>9, <1>10
    <3> QED
      BY <3>1, <3>2
  <2> QED
    BY <1>9, <2>1, <2>2, <2>3
<1>17. SaveIsLast'
  <2>1. CASE bad
    <3>1. SaveIsLast
      BY DEF VerifyInv
    <3> QED
      BY <1>2, <1>9, <1>11, <2>1, <3>1 DEF SaveIsLast
  <2>2. CASE ~bad
    <3>1. n \in GoodTraces' /\ save' = r /\ file'[n].rec = r
      BY <1>2, <1>8, <1>9, <2>2
    <3>2. \A j \in GoodTraces' : j <= n
      <4>1. \A j \in GoodTraces' : j = n \/ j < n
        BY <1>9, <1>11
      <4>2. \A j \in GoodTraces' : j \in Nat
        BY <1>9, <1>10
      <4> QED
        BY <4>1, <4>2
    <3> QED
      BY <3>1, <3>2 DEF SaveIsLast
  <2> QED
    BY <2>1, <2>2
<1>18. BadHasReason'
  <2> SUFFICES ASSUME NEW j \in At("trace")', ~file'[j].good
               PROVE  \E i \in GoodTraces' : i < j /\ ~Follows(file[i], file[j])'
    BY DEF BadHasReason
  <2>1. CASE j \in At("trace")
    <3>1. BadHasReason /\ ~file[j].good
      BY <1>11, <2>1 DEF VerifyInv
    <3>2. PICK i \in GoodTraces : i < j /\ ~Follows(file[i], file[j])
      BY <2>1, <3>1 DEF BadHasReason
    <3> QED
      BY <1>11, <1>12, <2>1, <3>2
  <2>2. CASE j = n
    <3>1. bad
      BY <1>8, <1>9, <2>2
    <3>2. PICK i \in GoodTraces :
             ~(file[i].rec.seq < r.seq /\ file[i].rec.time < r.time /\ file[i].rec.dev = r.dev)
      BY <1>6, <1>7, <3>1
    <3>3. ~Follows(file[i], file[j])' /\ i < j /\ i \in GoodTraces'
      BY <1>11, <1>13, <2>2, <3>2
    <3> QED
      BY <3>3, Zenon
  <2> QED
    BY <1>9, <2>1, <2>2
<1>19. nbad' = 0 <=> \A i \in 1 .. Len(file') : file'[i].good
  <2>1. nbad = 0 <=> \A i \in 1 .. Len(file) : file[i].good
    BY DEF VerifyInv, CountsFit
  <2>2. \A i \in 1 .. n : i \in 1 .. Len(file) \/ i = n
    BY <1>1, <1>n
  <2>3. n \in 1 .. n /\ \A i \in 1 .. Len(file) : i \in 1 .. n
    BY <1>1, <1>n
  <2>4. file'[n].good <=> ~bad
    BY <1>8, <1>9
  <2>5. nbad' = 0 <=> nbad = 0 /\ ~bad
    BY <1>0, <1>2
  <2>6. \A i \in 1 .. Len(file) : file'[i].good <=> file[i].good
    BY <1>9
  <2>7. 1 .. Len(file') = 1 .. n
    BY <1>9
  <2> QED
    BY <2>1, <2>2, <2>3, <2>4, <2>5, <2>6, <2>7, Zenon
<1>20. ngood' = Cardinality(GoodTraces')
  <2>1. ngood = Cardinality(GoodTraces)
    BY DEF VerifyInv, CountsFit
  <2> QED
    BY <1>2, <1>9, <2>1
<1>21. ngood' + nbad' + Cardinality(At("notify")') = Len(file')
  <2>1. ngood + nbad + Cardinality(At("notify")) = Len(file)
    BY DEF VerifyInv, CountsFit
  <2>2. Len(file') = Len(file) + 1 /\ Cardinality(At("notify")') = Cardinality(At("notify"))
    BY <1>9, <1>n
  <2>3. PICK g \in Nat, b \in Nat, k \in Nat, m \in Nat :
           g = ngood /\ b = nbad /\ k = Cardinality(At("notify")) /\ m = Len(file)
    BY <1>0, <1>1
  <2>4. g + b + k = m
    BY <2>1, <2>3, Zenon
  <2>5. \/ ngood' = g /\ nbad' = b + 1
        \/ ngood' = g + 1 /\ nbad' = b
    BY <1>2, <2>3, Zenon
  <2>6. Cardinality(At("notify")') = k /\ Len(file') = m + 1
    BY <2>2, <2>3, Zenon
  <2> QED
    BY <2>4, <2>5, <2>6
<1>22. nbad' = nbad_cpu' + nbad_seq' + nbad_dev' + nbad_time' + Cardinality(At("magic")')
  <2>1. nbad = nbad_cpu + nbad_seq + nbad_dev + nbad_time + Cardinality(At("magic"))
    BY DEF VerifyInv, CountsFit
  <2>2. Cardinality(At("magic")') = Cardinality(At("magic")) /\ Cardinality(At("magic")) \in Nat
    BY <1>1, <1>9
  <2>3. \E x \in Nat : /\ nbad' = nbad + x
                        /\ nbad_seq' + nbad_time' + nbad_dev' = nbad_seq + nbad_time + nbad_dev + x
    <3>1. CASE bad
      BY <1>2, <1>4, <3>1
    <3>2. CASE ~bad
      <4>1. nbad' = nbad + 0 /\ nbad_seq' + nbad_time' + nbad_dev' = nbad_seq + nbad_time + nbad_dev + 0
        BY <1>0, <1>2, <1>4, <3>2
      <4> QED
        BY <4>1
    <3> QED
      BY <3>1, <3>2
  <2>4. PICK x \in Nat : /\ nbad' = nbad + x
                         /\ nbad_seq' + nbad_time' + nbad_dev' = nbad_seq + nbad_time + nbad_dev + x
    BY <2>3
  <2>5. PICK c \in Nat, s \in Nat, d \in Nat, m \in Nat, k \in Nat :
           c = nbad_cpu /\ s = nbad_seq /\ d = nbad_dev /\ m = nbad_time /\ k = Cardinality(At("magic"))
    BY <1>0, <2>2
  <2>6. PICK s1 \in Nat, d1 \in Nat, m1 \in Nat :
           s1 = nbad_seq' /\ d1 = nbad_dev' /\ m1 = nbad_time'
    BY <1>5
  <2>7. s1 + m1 + d1 = s + m + d + x
    BY <2>4, <2>5, <2>6, Zenon
  <2>8. c + s1 + d1 + m1 + k = c + s + d + m + k + x
    BY <2>7
  <2> QED
    BY <2>1, <2>2, <2>4, <2>5, <2>6, <2>8, Zenon
<1>23. VerifyTypes'
  <2>1. vpc' \in {"off", "open", "file", "end"} /\ vcpu' \in Nat /\ rval' \in Nat
    BY <1>0, <1>2
  <2>2. nbad' \in Nat /\ nbad_cpu' \in Nat /\ ngood' \in Nat
    BY <1>0, <1>2, SMTT(30)
  <2>3. save' \in [seq : Nat, time : Nat, dev : Nat]
    BY <1>0, <1>2, Zenon
  <2> QED
    BY <1>5, <1>9, <2>1, <2>2, <2>3 DEF VerifyTypes
<1>24. vpc' = "open" /\ nbad' > 0 => rval' = 1
  BY <1>2
<1> QED
  BY <1>14, <1>16, <1>17, <1>18, <1>19, <1>20, <1>21, <1>22, <1>23, <1>24, Zenon
     DEF VerifyInv, CountsFit

\* blkrawverify's steps keep what it knows of the file.
LEMMA VerifyStep ==
    ASSUME VerifyInv, VerifyNext
    PROVE  VerifyInv'
<1>1. CASE OpenNext
  <2>1. CASE UNCHANGED <<vcpu, save, counts, file>> /\ vpc' = "end" /\ rval' = IF vcpu = 0 THEN 1 ELSE rval
    <3>1. VerifyTypes'
      BY <2>1 DEF VerifyInv, VerifyTypes, counts
    <3>2. KindsFit' /\ GoodFollow' /\ SaveIsLast' /\ BadHasReason'
      BY <2>1 DEF VerifyInv, KindsFit, GoodFollow, SaveIsLast, BadHasReason,
                  GoodTraces, At, Follows
    <3>3. GoodTraces' = GoodTraces /\ At("notify")' = At("notify") /\ At("magic")' = At("magic")
      BY <2>1 DEF GoodTraces, At
    <3>4. CountsFit'
      BY <2>1, <3>3 DEF VerifyInv, CountsFit, counts
    <3> QED
      BY <3>1, <3>2, <3>4, Zenon DEF VerifyInv
  <2>2. CASE /\ file' = <<>> /\ NoCounts /\ UNCHANGED rval
             /\ save' = [seq |-> 0, time |-> 0, dev |-> 0]
             /\ vpc' \in {"file", "open"} /\ vcpu' \in {vcpu, vcpu + 1}
    <3>1. file' \in Seq(Entry) /\ Len(file') = 0 /\ DOMAIN file' = {}
      BY <2>2
    <3>2. GoodTraces' = {} /\ \A k : At(k)' = {}
      BY <3>1 DEF GoodTraces, At
    <3>3. Cardinality({}) = 0
      BY FS_EmptySet
    <3>4. VerifyTypes'
      BY <2>2, <3>1 DEF VerifyInv, VerifyTypes, NoCounts
    <3>5. KindsFit' /\ GoodFollow' /\ SaveIsLast' /\ BadHasReason'
      BY <3>1, <3>2 DEF KindsFit, GoodFollow, SaveIsLast, BadHasReason
    <3>6. CountsFit'
      <4>1. /\ Cardinality(GoodTraces') = 0 /\ Cardinality(At("notify")') = 0
            /\ Cardinality(At("magic")') = 0
        BY <3>2, <3>3, Zenon
      <4>2. \A i \in 1 .. Len(file') : file'[i].good
        BY <3>1
      <4> QED
        BY <2>2, <3>1, <4>1, <4>2 DEF CountsFit, NoCounts
    <3> QED
      BY <3>4, <3>5, <3>6, Zenon DEF VerifyInv
  <2> QED
    BY <1>1, <2>1, <2>2 DEF OpenNext
<1>2. CASE BadMagic \/ BadCpu \/ Notify \/ CutOff
  BY <1>2, OtherStep, Zenon
<1>3. CASE ReadTrace
  <2>1. PICK s \in Times, t \in Times, d \in Devices : CheckTrace([seq |-> s, time |-> t, dev |-> d])
    BY <1>3 DEF ReadTrace
  <2>2. [seq |-> s, time |-> t, dev |-> d] \in [seq : Nat, time : Nat, dev : Nat]
    BY TimeAssumption DEF Times, Devices
  <2>3. Reading /\ vcpu' = vcpu /\ nbad_cpu' = nbad_cpu /\ rval' = rval
    BY <1>3 DEF ReadTrace
  <2> QED
    BY <2>1, <2>2, <2>3, TraceStep, Zenon
<1>4. CASE EndFile
  <2>1. /\ vpc' = "open" /\ vcpu' = vcpu + 1 /\ rval' = (IF nbad > 0 THEN 1 ELSE rval)
        /\ UNCHANGED <<save, ngood, nbad, nbad_cpu, nbad_seq, nbad_dev, nbad_time, file>>
    BY <1>4 DEF EndFile, Leave, counts
  <2>2. VerifyTypes'
    BY <2>1 DEF VerifyInv, VerifyTypes
  <2>3. KindsFit' /\ GoodFollow' /\ SaveIsLast' /\ BadHasReason'
    BY <2>1 DEF VerifyInv, KindsFit, GoodFollow, SaveIsLast, BadHasReason,
                GoodTraces, At, Follows
  <2>4. GoodTraces' = GoodTraces /\ At("notify")' = At("notify") /\ At("magic")' = At("magic")
    BY <2>1 DEF GoodTraces, At
  <2>5. CountsFit'
    BY <2>1, <2>4 DEF VerifyInv, CountsFit
  <2> QED
    BY <2>2, <2>3, <2>5, Zenon DEF VerifyInv
<1> QED
  BY <1>1, <1>2, <1>3, <1>4 DEF VerifyNext

\* The verifier's invariant says what VerifierIsRight promises.
LEMMA VerifiedRight ==
    ASSUME VerifyInv
    PROVE  VerifierIsRight
<1>1. DOMAIN file = 1 .. Len(file) /\ Len(file) \in Nat /\ file \in Seq(Entry)
  BY LenProperties DEF VerifyInv, VerifyTypes
<1>2. At("trace") \subseteq 1 .. Len(file) /\ At("notify") \subseteq 1 .. Len(file)
  BY <1>1, PlacesFinite, Zenon
<1>3. ASSUME \A i \in 1 .. Len(file) : file[i].good
      PROVE  /\ DOMAIN file = At("trace") \cup At("notify")
             /\ \A i, j \in At("trace") : i < j => Follows(file[i], file[j])
  <2>1. \A i \in 1 .. Len(file) : file[i].kind \in {"trace", "notify"}
    <3>1. KindsFit
      BY DEF VerifyInv
    <3> QED
      BY <1>3, <3>1, Zenon DEF KindsFit
  <2>2. At("trace") = GoodTraces
    BY <1>1, <1>2, <1>3 DEF GoodTraces
  <2> QED
    BY <1>1, <1>2, <2>1, <2>2, Zenon DEF VerifyInv, GoodFollow, At
<1>4. ASSUME DOMAIN file = At("trace") \cup At("notify"),
             \A i, j \in At("trace") : i < j => Follows(file[i], file[j]),
             NEW i \in 1 .. Len(file), ~file[i].good
      PROVE  FALSE
  <2>1. i \in At("trace")
    <3>1. KindsFit
      BY DEF VerifyInv
    <3>2. file[i].kind # "notify" /\ i \in DOMAIN file
      BY <1>1, <1>4, <3>1, Zenon DEF KindsFit
    <3> QED
      BY <1>4, <3>2, Zenon DEF At
  <2>2. PICK k \in GoodTraces : k < i /\ ~Follows(file[k], file[i])
    BY <1>4, <2>1, Zenon DEF VerifyInv, BadHasReason
  <2> QED
    BY <1>4, <2>1, <2>2, Zenon DEF GoodTraces
<1>5. nbad = 0 <=> /\ DOMAIN file = At("trace") \cup At("notify")
                   /\ \A i, j \in At("trace") : i < j => Follows(file[i], file[j])
  <2>1. nbad = 0 <=> \A i \in 1 .. Len(file) : file[i].good
    BY DEF VerifyInv, CountsFit
  <2> QED
    BY <1>1, <1>3, <1>4, <2>1, Zenon
<1> QED
  BY <1>5, Zenon DEF VerifyInv, CountsFit, VerifierIsRight, GoodFollow

-----------------------------------------------------------------------------
(* Natural numbers. *)

\* A set of natural numbers has a least one: their beginnings 0 .. n are finite
\* sets, which the strict subset relation orders.
LEMMA LeastNat ==
    ASSUME NEW S \in SUBSET Nat, S # {}
    PROVE  \E m \in S : \A k \in S : m <= k
<1> DEFINE R == StrictSubsetOrdering(Nat)
           T == {0 .. n : n \in S}
<1>1. IsWellFoundedOn(R, FiniteSubsetsOf(Nat))
  BY FS_StrictSubsetOrderingWellFounded
<1>2. T \subseteq FiniteSubsetsOf(Nat) /\ T # {}
  <2>1. \A n \in S : 0 .. n \subseteq Nat /\ IsFiniteSet(0 .. n)
    BY FS_Interval
  <2> QED
    BY <2>1 DEF FiniteSubsetsOf
<1>3. \E x \in T : \A y \in T : ~(<<y, x>> \in R)
  <2> HIDE DEF R, T
  <2> QED
    BY <1>1, <1>2, WFMin
<1>4. PICK m \in S : \A k \in S : ~(<<0 .. k, 0 .. m>> \in R)
  BY <1>3
<1>5. ASSUME NEW k \in S, k < m
      PROVE  <<0 .. k, 0 .. m>> \in R
  BY <1>5 DEF StrictSubsetOrdering
<1>6. \A k \in S : ~(k < m)
  <2> HIDE DEF R, T
  <2> QED
    BY <1>4, <1>5
<1> QED
  BY <1>6

\* A property (as a set) that holds at 0 and is passed on holds up to n.
LEMMA UpTo ==
    ASSUME NEW n \in Nat, NEW S, 0 \in S, \A k \in 0 .. n - 1 : k \in S => k + 1 \in S
    PROVE  \A k \in 0 .. n : k \in S
<1> DEFINE Rest == {k \in 0 .. n : k \notin S}
<1> SUFFICES ASSUME Rest # {} PROVE FALSE
  OBVIOUS
<1>1. PICK k \in Rest : \A j \in Rest : k <= j
  <2>1. Rest \in SUBSET Nat
    OBVIOUS
  <2> HIDE DEF Rest
  <2> QED
    BY <2>1, LeastNat
<1>2. k # 0 /\ k - 1 \in 0 .. n - 1 /\ k - 1 \in S
  BY <1>1
<1> QED
  BY <1>1, <1>2

\* A bounded one has a greatest.
LEMMA MaxOfBounded ==
    ASSUME NEW S \in SUBSET Nat, S # {}, NEW b \in Nat, \A x \in S : x <= b
    PROVE  Max(S) \in S /\ \A x \in S : x <= Max(S)
<1> DEFINE T == {b - x : x \in S}
<1>1. T \in SUBSET Nat /\ T # {}
  <2>1. \A x \in S : b - x \in Nat
    OBVIOUS
  <2> QED
    BY <2>1
<1>2. PICK m \in T : \A k \in T : m <= k
  <2> HIDE DEF T
  <2> QED
    BY <1>1, LeastNat
<1>3. PICK x \in S : m = b - x
  OBVIOUS
<1>4. \A y \in S : b - y \in T
  OBVIOUS
<1>5. ASSUME NEW y \in S PROVE x >= y
  <2>1. m <= b - y
    BY <1>2, <1>4
  <2>2. x \in Nat /\ y \in Nat
    OBVIOUS
  <2> HIDE DEF T
  <2> QED
    BY <1>3, <2>1, <2>2
<1> QED
  BY <1>5 DEF Max

-----------------------------------------------------------------------------
(* blkparse on a pipe. *)

Stamp == [cpu : Cpus, seq : Nat, time : Nat]
SkipRange == [start : Int, end : Int]

LiveTypes ==
    /\ lpc \in {"off", "read", "sort", "show", "flush", "end"}
    /\ came \in [Cpus -> Nat]
    /\ trace_list \in Seq(Stamp)
    /\ rb_sort \in SUBSET Stamp
    /\ last_sequence \in [Cpus -> Int]
    /\ skips \in [Cpus -> Seq(SkipRange)]
    /\ sorted \in [Cpus -> SUBSET Nat]
    /\ live \in [Cpus -> Seq(Nat)]
    /\ flushed \in [Cpus -> Seq(Nat)]
    /\ genesis_time \in Nat
    /\ lpc = "sort" => trace_list # <<>>

\* The numbers of a CPU rise in the pipe: those of the batch, last read first,
\* are new to the tree.
BatchIsNew ==
    /\ \A i \in 1 .. Len(trace_list) : ~IsMessage(trace_list[i]) =>
          /\ trace_list[i].seq <= came[trace_list[i].cpu]
          /\ \A n \in sorted[trace_list[i].cpu] : n < trace_list[i].seq
          /\ \A j \in 1 .. Len(trace_list) :
                i < j /\ ~IsMessage(trace_list[j]) /\ trace_list[j].cpu = trace_list[i].cpu
                   => trace_list[j].seq < trace_list[i].seq
    /\ \A c \in Cpus : \A n \in sorted[c] : n # 0 /\ n <= came[c]

\* A number of a CPU is in the tree once.
TreeIsUnique ==
    \A e, o \in rb_sort :
        ~IsMessage(e) /\ ~IsMessage(o) /\ e.cpu = o.cpu /\ e.seq = o.seq => e = o

\* What has entered the tree is in it still or has been shown, once.
ShownOrInTree ==
    /\ \A e \in rb_sort : ~IsMessage(e) =>
          e.seq \in sorted[e.cpu] /\ e.seq \notin ToSet(Shown(e.cpu))
    /\ \A c \in Cpus : \A n \in sorted[c] :
          n \in ToSet(Shown(c)) \/ \E e \in rb_sort : ~IsMessage(e) /\ e.cpu = c /\ e.seq = n
    /\ \A c \in Cpus : ToSet(Shown(c)) \subseteq sorted[c] /\ IsInjective(Shown(c))

\* last_sequence is the number shown last.
LastIsLast ==
    \A c \in Cpus : last_sequence[c] = IF Shown(c) = <<>> THEN -1 ELSE Shown(c)[Len(Shown(c))]

\* The skips of a CPU that came out in rising order: ranges that do not touch,
\* in rising order, between its first number and its last.
SkipsRise(s, q) ==
    /\ \A i \in 1 .. Len(s) : q[1] < s[i].start /\ s[i].start <= s[i].end /\ s[i].end < q[Len(q)]
    /\ \A i, j \in 1 .. Len(s) : i < j => s[i].end < s[j].start

\* The numbers in ranges of skips.
InRanges(s) == UNION {s[i].start .. s[i].end : i \in DOMAIN s}

SkipsFit ==
    \A c \in Cpus :
        /\ Shown(c) = <<>> => skips[c] = <<>>
        /\ Shown(c) # <<>> /\ IsRising(Shown(c)) =>
              /\ SkipsRise(skips[c], Shown(c))
              /\ InRanges(skips[c]) = Missing(Shown(c))

LiveInv ==
    /\ LiveTypes
    /\ BatchIsNew
    /\ TreeIsUnique
    /\ ShownOrInTree
    /\ LastIsLast
    /\ LiveIsGapless
    /\ SkipsFit
    /\ lpc \in {"read", "sort", "show"} => \A c \in Cpus : flushed[c] = <<>>
    /\ lpc = "end" => rb_sort = {}

\* The steps that show nothing.
LEMMA ShownStays ==
    ASSUME LiveInv, UNCHANGED <<last_sequence, skips, live, flushed>>
    PROVE  LastIsLast' /\ SkipsFit' /\ LiveIsGapless' /\ \A c : Shown(c)' = Shown(c)
<1>1. \A c : Shown(c)' = Shown(c)
  BY DEF Shown
<1>2. LastIsLast'
  BY <1>1 DEF LiveInv, LastIsLast
<1>3. SkipsFit'
  <2>1. \A c : /\ SkipsRise(skips[c], Shown(c))' <=> SkipsRise(skips[c], Shown(c))
               /\ InRanges(skips[c])' = InRanges(skips[c])
    BY <1>1, Zenon DEF SkipsRise, InRanges
  <2>2. \A c : /\ IsRising(Shown(c))' <=> IsRising(Shown(c))
               /\ Missing(Shown(c))' = Missing(Shown(c))
    BY <1>1, Zenon DEF IsRising, Missing
  <2>3. SkipsFit
    BY DEF LiveInv
  <2> QED
    BY <1>1, <2>1, <2>2, <2>3, Zenon DEF SkipsFit
<1>4. LiveIsGapless'
  BY DEF LiveInv, LiveIsGapless
<1> QED
  BY <1>1, <1>2, <1>3, <1>4

\* Those that leave the tree alone, too.
LEMMA TreeStays ==
    ASSUME LiveInv, UNCHANGED <<rb_sort, last_sequence, skips, sorted, live, flushed>>
    PROVE  TreeIsUnique' /\ ShownOrInTree' /\ LastIsLast' /\ SkipsFit' /\ LiveIsGapless'
<1>1. LastIsLast' /\ SkipsFit' /\ LiveIsGapless' /\ \A c : Shown(c)' = Shown(c)
  BY ShownStays
<1>2. \A e : IsMessage(e)' <=> IsMessage(e)
  BY DEF IsMessage
<1>3. TreeIsUnique'
  BY <1>2 DEF LiveInv, TreeIsUnique
<1>4. ShownOrInTree'
  <2>1. ShownOrInTree
    BY DEF LiveInv
  <2> QED
    BY <1>1, <1>2, <2>1, Zenon DEF ShownOrInTree
<1> QED
  BY <1>1, <1>3, <1>4

\* read_events: the new trace is the first of the batch and has the highest
\* number of its CPU.
LEMMA ReadStep ==
    ASSUME LiveInv, NEW c \in PipeCpus, ReadEvent(c)
    PROVE  LiveInv'
<1>1. c \in Cpus /\ MaxSeq \in Nat /\ \A t \in Times : t \in Nat
  BY PipeAssumption, TimeAssumption DEF Times
<1>2. /\ trace_list \in Seq(Stamp) /\ Len(trace_list) \in Nat
      /\ came \in [Cpus -> Nat]
  BY LenProperties DEF LiveInv, LiveTypes
<1>3. PICK e \in Stamp :
        /\ e.cpu = c
        /\ trace_list' = <<e>> \o trace_list
        /\ \/ IsMessage(e) /\ came' = came
           \/ ~IsMessage(e) /\ came[c] < e.seq /\ came' = [came EXCEPT ![c] = e.seq]
  <2>1. PICK t \in Times :
          \/ \E seq \in came[c] + 1 .. MaxSeq :
                /\ trace_list' = <<[cpu |-> c, seq |-> seq, time |-> t]>> \o trace_list
                /\ came' = [came EXCEPT ![c] = seq]
          \/ /\ trace_list' = <<[cpu |-> c, seq |-> 0, time |-> t]>> \o trace_list
             /\ came' = came
    BY DEF ReadEvent
  <2>2. CASE \E seq \in came[c] + 1 .. MaxSeq :
                /\ trace_list' = <<[cpu |-> c, seq |-> seq, time |-> t]>> \o trace_list
                /\ came' = [came EXCEPT ![c] = seq]
    <3>1. PICK seq \in came[c] + 1 .. MaxSeq :
                /\ trace_list' = <<[cpu |-> c, seq |-> seq, time |-> t]>> \o trace_list
                /\ came' = [came EXCEPT ![c] = seq]
      BY <2>2
    <3>2. came[c] \in Nat /\ seq \in Nat /\ seq # 0 /\ came[c] < seq
      BY <1>1, <1>2
    <3>3. [cpu |-> c, seq |-> seq, time |-> t] \in Stamp
      BY <1>1, <3>2 DEF Stamp
    <3> QED
      BY <3>1, <3>2, <3>3 DEF IsMessage
  <2>3. CASE /\ trace_list' = <<[cpu |-> c, seq |-> 0, time |-> t]>> \o trace_list
             /\ came' = came
    <3>1. [cpu |-> c, seq |-> 0, time |-> t] \in Stamp
      BY <1>1 DEF Stamp
    <3> QED
      BY <2>3, <3>1 DEF IsMessage
  <2> QED
    BY <2>1, <2>2, <2>3
<1>4. UNCHANGED <<lpc, rb_sort, last_sequence, skips, sorted, live, flushed, genesis_time>> /\ lpc = "read"
  BY DEF ReadEvent
<1>5. /\ trace_list' \in Seq(Stamp) /\ Len(trace_list') = Len(trace_list) + 1
      /\ trace_list'[1] = e
      /\ \A i \in 2 .. Len(trace_list) + 1 : trace_list'[i] = trace_list[i - 1] /\ i - 1 \in 1 .. Len(trace_list)
  <2>1. <<e>> \in Seq(Stamp) /\ Len(<<e>>) = 1 /\ <<e>>[1] = e
    OBVIOUS
  <2>2. /\ <<e>> \o trace_list \in Seq(Stamp)
        /\ Len(<<e>> \o trace_list) = Len(<<e>>) + Len(trace_list)
        /\ \A i \in 1 .. Len(<<e>>) + Len(trace_list) :
              (<<e>> \o trace_list)[i] = IF i <= Len(<<e>>) THEN <<e>>[i] ELSE trace_list[i - Len(<<e>>)]
    BY <1>2, <2>1, ConcatProperties, Zenon
  <2> QED
    BY <1>2, <1>3, <2>1, <2>2
<1>6. \A d \in Cpus : came[d] <= came'[d] /\ came[d] \in Nat /\ came'[d] \in Nat
  <2>1. e.seq \in Nat
    BY DEF Stamp
  <2>2. \A d \in Cpus : came[d] \in Nat
    BY <1>2
  <2>3. \A d \in Cpus : came'[d] = came[d] \/ (d = c /\ came'[d] = e.seq /\ came[c] < e.seq)
    BY <1>1, <1>2, <1>3
  <2> QED
    BY <2>1, <2>2, <2>3
<1>7. LiveTypes'
  <2>1. came' \in [Cpus -> Nat]
    BY <1>1, <1>2, <1>3 DEF Stamp
  <2> QED
    BY <1>4, <1>5, <2>1 DEF LiveInv, LiveTypes
<1>8. BatchIsNew'
  <2>1. \A i \in 1 .. Len(trace_list) :
           trace_list[i] \in Stamp /\ trace_list[i].cpu \in Cpus /\ trace_list[i].seq \in Nat
    <3>1. \A i \in 1 .. Len(trace_list) : trace_list[i] \in Stamp
      BY <1>2, ElementOfSeq
    <3> QED
      BY <3>1 DEF Stamp
  <2>2. /\ \A d \in Cpus : sorted[d] \in SUBSET Nat /\ \A n \in sorted[d] : n # 0 /\ n <= came[d]
    BY DEF LiveInv, LiveTypes, BatchIsNew
  <2>3. \A d \in Cpus : \A n \in sorted'[d] : n # 0 /\ n <= came'[d]
    BY <1>4, <1>6, <2>2
  <2>4. ASSUME NEW i \in 1 .. Len(trace_list'), ~IsMessage(trace_list'[i])
        PROVE  /\ trace_list'[i].seq <= came'[trace_list'[i].cpu]
               /\ \A n \in sorted'[trace_list'[i].cpu] : n < trace_list'[i].seq
               /\ \A j \in 1 .. Len(trace_list') :
                     i < j /\ ~IsMessage(trace_list'[j]) /\ trace_list'[j].cpu = trace_list'[i].cpu
                        => trace_list'[j].seq < trace_list'[i].seq
    <3>1. CASE i = 1
      <4>1. trace_list'[i] = e /\ came[c] < e.seq /\ came'[c] = e.seq /\ e.cpu = c /\ e.seq \in Nat
        BY <1>1, <1>2, <1>3, <1>5, <2>4, <3>1 DEF Stamp
      <4>2. \A n \in sorted[c] : n < e.seq
        BY <1>1, <1>6, <2>2, <4>1
      <4>3. \A j \in 1 .. Len(trace_list) :
               ~IsMessage(trace_list[j]) /\ trace_list[j].cpu = c => trace_list[j].seq < e.seq
        BY <1>1, <1>6, <2>1, <4>1 DEF LiveInv, BatchIsNew
      <4>4. \A j \in 1 .. Len(trace_list') : i < j => j \in 2 .. Len(trace_list) + 1
        BY <1>5, <3>1
      <4>5. \A j \in 1 .. Len(trace_list') :
                     i < j /\ ~IsMessage(trace_list'[j]) /\ trace_list'[j].cpu = c
                        => trace_list'[j].seq < e.seq
        BY <1>5, <4>3, <4>4
      <4> QED
        BY <1>4, <4>1, <4>2, <4>5
    <3>2. CASE i # 1
      <4>1. PICK k \in 1 .. Len(trace_list) : k = i - 1 /\ trace_list'[i] = trace_list[k]
        BY <1>2, <1>5, <3>2
      <4>2. \A j \in 1 .. Len(trace_list') : i < j =>
               trace_list'[j] = trace_list[j - 1] /\ j - 1 \in 1 .. Len(trace_list) /\ k < j - 1
        BY <1>2, <1>5, <4>1
      <4>3. /\ trace_list[k].seq <= came[trace_list[k].cpu]
            /\ \A n \in sorted[trace_list[k].cpu] : n < trace_list[k].seq
            /\ \A j \in 1 .. Len(trace_list) :
                  k < j /\ ~IsMessage(trace_list[j]) /\ trace_list[j].cpu = trace_list[k].cpu
                     => trace_list[j].seq < trace_list[k].seq
        BY <2>4, <4>1 DEF LiveInv, BatchIsNew
      <4>4. trace_list'[i].seq <= came'[trace_list'[i].cpu]
        BY <1>6, <2>1, <4>1, <4>3
      <4>5. \A j \in 1 .. Len(trace_list') :
                     i < j /\ ~IsMessage(trace_list'[j]) /\ trace_list'[j].cpu = trace_list'[i].cpu
                        => trace_list'[j].seq < trace_list'[i].seq
        BY <4>1, <4>2, <4>3
      <4> QED
        BY <1>4, <4>1, <4>3, <4>4, <4>5
    <3> QED
      BY <3>1, <3>2
  <2> QED
    BY <2>3, <2>4 DEF BatchIsNew, IsMessage
<1>9. TreeIsUnique' /\ ShownOrInTree' /\ LastIsLast' /\ SkipsFit' /\ LiveIsGapless'
  BY <1>4, TreeStays
<1>10. /\ \A d \in Cpus : flushed'[d] = <<>>
       /\ lpc' # "end"
  BY <1>4 DEF LiveInv
<1> QED
  BY <1>7, <1>8, <1>9, <1>10, Zenon DEF LiveInv

\* One more number behind those that were shown.
LEMMA OneMoreShown ==
    ASSUME NEW q \in Seq(Nat), NEW n \in Nat
    PROVE  /\ ToSet(Append(q, n)) = ToSet(q) \cup {n}
           /\ n \notin ToSet(q) /\ IsInjective(q) => IsInjective(Append(q, n))
<1>1. /\ Append(q, n) \in Seq(Nat) /\ Len(Append(q, n)) = Len(q) + 1
      /\ \A i \in 1 .. Len(q) : Append(q, n)[i] = q[i]
      /\ Append(q, n)[Len(q) + 1] = n
  BY AppendProperties
<1>2. /\ Len(q) \in Nat /\ DOMAIN q = 1 .. Len(q)
      /\ DOMAIN Append(q, n) = (1 .. Len(q)) \cup {Len(q) + 1}
  BY <1>1, LenProperties
<1>3. ToSet(Append(q, n)) = ToSet(q) \cup {n}
  BY <1>1, <1>2 DEF ToSet
<1>4. ASSUME n \notin ToSet(q), IsInjective(q)
      PROVE  IsInjective(Append(q, n))
  <2> SUFFICES ASSUME NEW i \in DOMAIN Append(q, n), NEW j \in DOMAIN Append(q, n),
                      Append(q, n)[i] = Append(q, n)[j]
               PROVE  i = j
    BY DEF IsInjective
  <2>1. \A k \in 1 .. Len(q) : q[k] # n
    BY <1>2, <1>4 DEF ToSet
  <2>2. CASE i \in 1 .. Len(q) /\ j \in 1 .. Len(q)
    BY <1>1, <1>2, <1>4, <2>2 DEF IsInjective
  <2>3. CASE i = Len(q) + 1 \/ j = Len(q) + 1
    BY <1>1, <1>2, <2>1, <2>3
  <2> QED
    BY <1>2, <2>2, <2>3
<1> QED
  BY <1>3, <1>4

\* If they still rise, they rose before, and the new one is the highest.
LEMMA RisingSplit ==
    ASSUME NEW q \in Seq(Nat), q # <<>>, NEW n \in Nat, IsRising(Append(q, n))
    PROVE  /\ IsRising(q)
           /\ Len(q) \in Nat \ {0} /\ q[1] \in Nat /\ q[Len(q)] \in Nat
           /\ q[1] <= q[Len(q)] /\ q[Len(q)] < n
           /\ \A k \in ToSet(q) : q[1] <= k /\ k <= q[Len(q)] /\ k \in Nat
           /\ q[1] \in ToSet(q) /\ q[Len(q)] \in ToSet(q)
           /\ Append(q, n)[1] = q[1] /\ Append(q, n)[Len(Append(q, n))] = n
<1>1. /\ Append(q, n) \in Seq(Nat) /\ Len(Append(q, n)) = Len(q) + 1
      /\ \A i \in 1 .. Len(q) : Append(q, n)[i] = q[i]
      /\ Append(q, n)[Len(q) + 1] = n
  BY AppendProperties
<1>2. /\ Len(q) \in Nat \ {0} /\ DOMAIN q = 1 .. Len(q)
      /\ DOMAIN Append(q, n) = 1 .. Len(q) + 1
  BY <1>1, LenProperties, EmptySeq
<1>3. \A i \in 1 .. Len(q) : q[i] \in Nat
  BY ElementOfSeq
<1>4. IsRising(q)
  <2> SUFFICES ASSUME NEW i \in 1 .. Len(q), NEW j \in 1 .. Len(q), i < j
               PROVE  q[i] < q[j]
    BY <1>2 DEF IsRising
  <2>1. i \in DOMAIN Append(q, n) /\ j \in DOMAIN Append(q, n)
    BY <1>2
  <2>2. Append(q, n)[i] < Append(q, n)[j]
    BY <2>1 DEF IsRising
  <2> QED
    BY <1>1, <2>2
<1>5. q[Len(q)] < n
  <2>1. Len(q) \in DOMAIN Append(q, n) /\ Len(q) + 1 \in DOMAIN Append(q, n) /\ Len(q) < Len(q) + 1
    BY <1>2
  <2>2. Append(q, n)[Len(q)] < Append(q, n)[Len(q) + 1]
    BY <2>1 DEF IsRising
  <2>3. Len(q) \in 1 .. Len(q)
    BY <1>2
  <2> QED
    BY <1>1, <2>2, <2>3
<1>6. \A i \in 1 .. Len(q) : q[1] <= q[i] /\ q[i] <= q[Len(q)]
  <2> SUFFICES ASSUME NEW i \in 1 .. Len(q)
               PROVE  q[1] <= q[i] /\ q[i] <= q[Len(q)]
    OBVIOUS
  <2>1. 1 \in 1 .. Len(q) /\ Len(q) \in 1 .. Len(q)
    BY <1>2
  <2>2. \A j, k \in 1 .. Len(q) : j < k => q[j] < q[k]
    BY <1>2, <1>4 DEF IsRising
  <2>0. i \in Int /\ i <= Len(q) /\ Len(q) \in Int
    BY <1>2
  <2>3. i = Len(q) \/ i < Len(q)
    BY <2>0
  <2>4. i = Len(q) \/ q[i] < q[Len(q)]
    BY <2>1, <2>2, <2>3, Zenon
  <2>5. 1 = i \/ q[1] < q[i]
    BY <2>1, <2>2
  <2>6. q[1] \in Nat /\ q[i] \in Nat /\ q[Len(q)] \in Nat
    BY <1>3, <2>1
  <2>7. q[i] <= q[Len(q)]
    BY <2>4, <2>6
  <2>8. q[1] <= q[i]
    BY <2>5, <2>6
  <2> QED
    BY <2>7, <2>8
<1>7. 1 \in 1 .. Len(q) /\ Len(q) \in 1 .. Len(q)
  BY <1>2
<1>8. \A k \in ToSet(q) : q[1] <= k /\ k <= q[Len(q)] /\ k \in Nat
  BY <1>2, <1>3, <1>6 DEF ToSet
<1>9. q[1] \in ToSet(q) /\ q[Len(q)] \in ToSet(q)
  BY <1>2, <1>7 DEF ToSet
<1> QED
  BY <1>1, <1>2, <1>3, <1>4, <1>5, <1>6, <1>7, <1>8, <1>9

\* The numbers that are missing then.
LEMMA MissingMore ==
    ASSUME NEW q \in Seq(Nat), q # <<>>, NEW n \in Nat, IsRising(Append(q, n))
    PROVE  Missing(Append(q, n)) = Missing(q) \cup (q[Len(q)] + 1 .. n - 1)
<1>1. /\ q[1] \in Nat /\ q[Len(q)] \in Nat /\ q[1] <= q[Len(q)] /\ q[Len(q)] < n
      /\ \A k \in ToSet(q) : k <= q[Len(q)] /\ k \in Nat
      /\ Append(q, n)[1] = q[1] /\ Append(q, n)[Len(Append(q, n))] = n
  BY RisingSplit
<1>2. ToSet(Append(q, n)) = ToSet(q) \cup {n}
  BY OneMoreShown
<1>3. ASSUME NEW k
      PROVE  k \in (q[1] .. n) \ (ToSet(q) \cup {n}) <=>
             k \in ((q[1] .. q[Len(q)]) \ ToSet(q)) \cup (q[Len(q)] + 1 .. n - 1)
  BY <1>1
<1> QED
  BY <1>1, <1>2, <1>3 DEF Missing

\* A range of skips behind the others.
LEMMA OneMoreSkip ==
    ASSUME NEW s \in Seq(SkipRange), NEW r \in SkipRange
    PROVE  InRanges(Append(s, r)) = InRanges(s) \cup (r.start .. r.end)
<1>1. /\ Append(s, r) \in Seq(SkipRange) /\ Len(Append(s, r)) = Len(s) + 1
      /\ \A i \in 1 .. Len(s) : Append(s, r)[i] = s[i]
      /\ Append(s, r)[Len(s) + 1] = r
  BY AppendProperties
<1>2. /\ Len(s) \in Nat /\ DOMAIN s = 1 .. Len(s)
      /\ DOMAIN Append(s, r) = (1 .. Len(s)) \cup {Len(s) + 1}
  BY <1>1, LenProperties
<1> DEFINE t == Append(s, r)
<1> HIDE DEF t
<1>3. ASSUME NEW k
      PROVE  /\ k \in InRanges(t) <=> \E i \in DOMAIN t : k \in t[i].start .. t[i].end
             /\ k \in InRanges(s) <=> \E i \in DOMAIN s : k \in s[i].start .. s[i].end
  BY DEF InRanges
<1>4. ASSUME NEW k
      PROVE  (\E i \in DOMAIN t : k \in t[i].start .. t[i].end) <=>
             \/ \E i \in DOMAIN s : k \in s[i].start .. s[i].end
             \/ k \in r.start .. r.end
  BY <1>1, <1>2, Zenon DEF t
<1>5. \A k : k \in InRanges(t) <=> k \in InRanges(s) \cup (r.start .. r.end)
  BY <1>3, <1>4, Zenon
<1> QED
  BY <1>5, Zenon DEF t

\* check_sequence, for a number above those shown: what it skips is new.
LEMMA SkipsOfNext ==
    ASSUME NEW q \in Seq(Nat), NEW s \in Seq(SkipRange), NEW n \in Nat,
           q # <<>> => IsRising(Append(q, n)) /\ SkipsRise(s, q),
           NEW expected, expected = (IF q = <<>> THEN -1 ELSE q[Len(q)]) + 1,
           NEW new, new = IF expected = 0 \/ n = expected THEN s
                          ELSE IF InSkip(s, n) # {} THEN check_current_skips(s, n)
                          ELSE IF expected < n THEN insert_skip(s, expected, n - 1)
                          ELSE s
    PROVE  IF q = <<>> \/ n = q[Len(q)] + 1 THEN new = s
           ELSE /\ new = Append(s, [start |-> q[Len(q)] + 1, end |-> n - 1])
                /\ q[Len(q)] + 1 <= n - 1
<1>1. CASE q = <<>>
  <2>1. expected = 0
    BY <1>1
  <2> QED
    BY <1>1, <2>1
<1>2. CASE q # <<>>
  <2>1. /\ q[Len(q)] \in Nat /\ q[Len(q)] < n
        /\ IsRising(q)
    BY <1>2, RisingSplit
  <2>2. PICK p \in Nat : p = q[Len(q)]
    BY <2>1
  <2>3. expected = p + 1 /\ expected # 0 /\ p < n
    BY <1>2, <2>1, <2>2
  <2>4. CASE n = p + 1
    BY <2>2, <2>3, <2>4
  <2>5. CASE n # p + 1
    <3>1. \A i \in 1 .. Len(s) : /\ s[i].start \in Int /\ s[i].end \in Int
                                 /\ s[i].start <= s[i].end /\ s[i].end < p
      <4>1. \A i \in 1 .. Len(s) : s[i] \in SkipRange
        BY ElementOfSeq
      <4> QED
        BY <1>2, <2>2, <4>1 DEF SkipRange, SkipsRise
    <3>2. DOMAIN s = 1 .. Len(s)
      BY LenProperties
    <3>3. \A i \in 1 .. Len(s) : /\ ~(s[i].start <= n /\ n <= s[i].end)
                                 /\ ~(n - 1 = s[i].start - 1 \/ p + 1 = s[i].end + 1)
      <4> SUFFICES ASSUME NEW i \in 1 .. Len(s)
                   PROVE  /\ ~(s[i].start <= n /\ n <= s[i].end)
                          /\ ~(n - 1 = s[i].start - 1 \/ p + 1 = s[i].end + 1)
        OBVIOUS
      <4>1. PICK a \in Int, b \in Int : a = s[i].start /\ b = s[i].end
        BY <3>1
      <4>2. a <= b /\ b < p
        BY <3>1, <4>1
      <4>3. ~(a <= n /\ n <= b) /\ ~(n - 1 = a - 1 \/ p + 1 = b + 1)
        BY <2>3, <4>2
      <4> QED
        BY <4>1, <4>3, Zenon
    <3>4. InSkip(s, n) = {}
      BY <3>2, <3>3, Zenon DEF InSkip
    <3>5. insert_skip(s, p + 1, n - 1) = Append(s, [start |-> p + 1, end |-> n - 1])
      <4>1. {i \in DOMAIN s : n - 1 = s[i].start - 1 \/ p + 1 = s[i].end + 1} = {}
        BY <3>2, <3>3, Zenon
      <4> QED
        BY <4>1, Zenon DEF insert_skip
    <3>6. p + 1 < n /\ p + 1 <= n - 1
      BY <2>3, <2>5
    <3>7. new = insert_skip(s, p + 1, n - 1)
      BY <2>3, <2>5, <3>4, <3>6
    <3> QED
      BY <1>2, <2>2, <2>5, <3>5, <3>6, <3>7, Zenon
  <2> QED
    BY <2>4, <2>5
<1> QED
  BY <1>1, <1>2

\* A range of skips behind the others, and a higher number behind those shown.
LEMMA SkipsBehind ==
    ASSUME NEW q \in Seq(Nat), q # <<>>, NEW n \in Nat, IsRising(Append(q, n)),
           NEW s \in Seq(SkipRange), SkipsRise(s, q), InRanges(s) = Missing(q),
           q[Len(q)] + 1 <= n - 1,
           NEW r, r = [start |-> q[Len(q)] + 1, end |-> n - 1]
    PROVE  SkipsRise(Append(s, r), Append(q, n)) /\ InRanges(Append(s, r)) = Missing(Append(q, n))
<1>1. /\ q[1] \in Nat /\ q[Len(q)] \in Nat /\ q[1] <= q[Len(q)] /\ q[Len(q)] < n
      /\ Append(q, n)[1] = q[1] /\ Append(q, n)[Len(Append(q, n))] = n
  BY RisingSplit
<1>2. PICK a \in Nat, b \in Nat : a = q[1] /\ b = q[Len(q)]
  BY <1>1
<1>3. r \in SkipRange /\ r.start = b + 1 /\ r.end = n - 1
  BY <1>2 DEF SkipRange
<1>4. /\ Len(Append(s, r)) = Len(s) + 1 /\ Len(s) \in Nat
      /\ \A i \in 1 .. Len(s) : Append(s, r)[i] = s[i]
      /\ Append(s, r)[Len(s) + 1] = r
      /\ \A i \in 1 .. Len(s) + 1 : i \in 1 .. Len(s) \/ i = Len(s) + 1
  <2>1. Len(s) \in Nat
    BY LenProperties
  <2>2. \A k \in Nat : \A i \in 1 .. k + 1 : i \in 1 .. k \/ i = k + 1
    OBVIOUS
  <2>3. r \in SkipRange
    BY <1>3
  <2>4. /\ Len(Append(s, r)) = Len(s) + 1
        /\ \A i \in 1 .. Len(s) : Append(s, r)[i] = s[i]
        /\ Append(s, r)[Len(s) + 1] = r
    BY <2>3, AppendProperties
  <2> QED
    BY <2>1, <2>2, <2>4, Zenon
<1>5. \A i \in 1 .. Len(s) : /\ s[i].start \in Int /\ s[i].end \in Int
                             /\ a < s[i].start /\ s[i].start <= s[i].end /\ s[i].end < b
  <2>1. \A i \in 1 .. Len(s) : s[i] \in SkipRange
    BY ElementOfSeq
  <2> QED
    BY <1>2, <2>1 DEF SkipRange, SkipsRise
<1>6. a <= b /\ b < n /\ b + 1 <= n - 1
  BY <1>1, <1>2
<1>7. SkipsRise(Append(s, r), Append(q, n))
  <2> DEFINE t == Append(s, r)
  <2> HIDE DEF t
  <2>1. \A i \in 1 .. Len(s) + 1 : a < t[i].start /\ t[i].start <= t[i].end /\ t[i].end < n
    <3> SUFFICES ASSUME NEW i \in 1 .. Len(s) + 1
                 PROVE  a < t[i].start /\ t[i].start <= t[i].end /\ t[i].end < n
      OBVIOUS
    <3>1. CASE i \in 1 .. Len(s)
      <4>1. t[i] = s[i]
        BY <1>4, <3>1 DEF t
      <4>2. PICK x \in Int, y \in Int : x = s[i].start /\ y = s[i].end
        BY <1>5, <3>1
      <4>3. a < x /\ x <= y /\ y < b
        BY <1>5, <3>1, <4>2
      <4>4. y < n
        BY <1>6, <4>3
      <4> QED
        BY <4>1, <4>2, <4>3, <4>4, Zenon
    <3>2. CASE i = Len(s) + 1
      <4>1. t[i].start = b + 1 /\ t[i].end = n - 1
        BY <1>3, <1>4, <3>2 DEF t
      <4>2. a < b + 1 /\ b + 1 <= n - 1 /\ n - 1 < n
        BY <1>6
      <4> QED
        BY <4>1, <4>2, Zenon
    <3> QED
      BY <1>4, <3>1, <3>2
  <2>2. \A i, j \in 1 .. Len(s) + 1 : i < j => t[i].end < t[j].start
    <3> SUFFICES ASSUME NEW i \in 1 .. Len(s) + 1, NEW j \in 1 .. Len(s) + 1, i < j
                 PROVE  t[i].end < t[j].start
      OBVIOUS
    <3>1. i \in 1 .. Len(s)
      BY <1>4
    <3>2. t[i] = s[i]
      BY <1>4, <3>1 DEF t
    <3>3. CASE j \in 1 .. Len(s)
      <4>1. t[j] = s[j]
        BY <1>4, <3>3 DEF t
      <4> QED
        BY <3>1, <3>2, <3>3, <4>1 DEF SkipsRise
    <3>4. CASE j = Len(s) + 1
      <4>1. t[j].start = b + 1
        BY <1>3, <1>4, <3>4 DEF t
      <4>2. PICK y \in Int : y = s[i].end
        BY <1>5, <3>1
      <4>3. y < b
        BY <1>5, <3>1, <4>2
      <4>4. y < b + 1
        BY <4>3
      <4> QED
        BY <3>2, <4>1, <4>2, <4>4, Zenon
    <3> QED
      BY <1>4, <3>3, <3>4
  <2> QED
    BY <1>1, <1>2, <1>4, <2>1, <2>2 DEF SkipsRise, t
<1>8. InRanges(Append(s, r)) = Missing(Append(q, n))
  <2>1. InRanges(Append(s, r)) = InRanges(s) \cup (r.start .. r.end)
    BY <1>3, OneMoreSkip
  <2>2. Missing(Append(q, n)) = Missing(q) \cup (q[Len(q)] + 1 .. n - 1)
    BY MissingMore
  <2> QED
    BY <1>2, <1>3, <2>1, <2>2
<1> QED
  BY <1>7, <1>8

LEMMA AppendLast ==
    ASSUME NEW q \in Seq(Nat), NEW n \in Nat
    PROVE  Append(q, n) # <<>> /\ Append(q, n)[Len(Append(q, n))] = n
<1>1. /\ Append(q, n) \in Seq(Nat) /\ Len(Append(q, n)) = Len(q) + 1
      /\ Append(q, n)[Len(q) + 1] = n
  BY AppendProperties
<1>2. Len(q) \in Nat
  BY LenProperties
<1> QED
  BY <1>1, <1>2

\* One end of a range is moved.
LEMMA EndMoved ==
    ASSUME NEW s \in Seq(SkipRange), NEW i \in 1 .. Len(s), NEW x \in Int
    PROVE  /\ [s EXCEPT ![i].start = x] \in Seq(SkipRange)
           /\ [s EXCEPT ![i].end = x] \in Seq(SkipRange)
<1>1. s[i] \in SkipRange
  BY ElementOfSeq
<1>2. [s[i] EXCEPT !.start = x] \in SkipRange /\ [s[i] EXCEPT !.end = x] \in SkipRange
  BY <1>1 DEF SkipRange
<1>3. \A r \in SkipRange : [s EXCEPT ![i] = r] \in Seq(SkipRange)
  BY ExceptSeq
<1> QED
  BY <1>2, <1>3, Zenon

\* The lists of skips stay lists of ranges, whatever the number.
LEMMA SkipsTyped ==
    ASSUME NEW s \in Seq(SkipRange), NEW a \in Int, NEW b \in Int
    PROVE  /\ insert_skip(s, a, b) \in Seq(SkipRange)
           /\ InSkip(s, a) # {} => check_current_skips(s, a) \in Seq(SkipRange)
<1>1. ASSUME NEW t \in Seq(SkipRange), NEW x \in Int, NEW y \in Int
      PROVE  insert_skip(t, x, y) \in Seq(SkipRange)
  <2>1. [start |-> x, end |-> y] \in SkipRange
    BY DEF SkipRange
  <2>2. Append(t, [start |-> x, end |-> y]) \in Seq(SkipRange)
    BY <2>1, AppendProperties
  <2> DEFINE near == {i \in DOMAIN t : y = t[i].start - 1 \/ x = t[i].end + 1}
  <2>3. near \in SUBSET (1 .. Len(t)) /\ Len(t) \in Nat
    BY LenProperties
  <2> HIDE DEF near
  <2>4. near # {} => Max(near) \in 1 .. Len(t)
    <3>1. near \in SUBSET Nat /\ \A k \in near : k <= Len(t)
      BY <2>3
    <3> QED
      BY <2>3, <3>1, MaxOfBounded
  <2>5. near # {} => /\ [t EXCEPT ![Max(near)].start = x] \in Seq(SkipRange)
                     /\ [t EXCEPT ![Max(near)].end = y] \in Seq(SkipRange)
    BY <2>4, EndMoved
  <2>6. insert_skip(t, x, y) =
          IF near = {} THEN Append(t, [start |-> x, end |-> y])
          ELSE IF y = t[Max(near)].start - 1 THEN [t EXCEPT ![Max(near)].start = x]
          ELSE [t EXCEPT ![Max(near)].end = y]
    BY Zenon DEF insert_skip, near
  <2> QED
    BY <2>2, <2>5, <2>6, Zenon
<1>2. ASSUME InSkip(s, a) # {}
      PROVE  check_current_skips(s, a) \in Seq(SkipRange)
  <2>1. /\ InSkip(s, a) \subseteq 1 .. Len(s) /\ Len(s) \in Nat
    BY LenProperties DEF InSkip
  <2>2. PICK i \in 1 .. Len(s) : i = Max(InSkip(s, a))
    <3>1. InSkip(s, a) \in SUBSET Nat /\ \A x \in InSkip(s, a) : x <= Len(s)
      BY <2>1
    <3> QED
      BY <1>2, <2>1, <3>1, MaxOfBounded
  <2>3. s[i].start + 1 \in Int /\ s[i].end - 1 \in Int /\ a - 1 \in Int
    <3>1. s[i] \in SkipRange
      BY ElementOfSeq
    <3> QED
      BY <3>1 DEF SkipRange
  <2>10. \A x \in Int : /\ [s EXCEPT ![i].start = x] \in Seq(SkipRange)
                        /\ [s EXCEPT ![i].end = x] \in Seq(SkipRange)
    BY EndMoved
  <2>4. remove_sip(s, i) \in Seq(SkipRange)
    <3>1. SubSeq(s, 1, i - 1) \in Seq(SkipRange)
      BY <2>1
    <3>2. SubSeq(s, i + 1, Len(s)) \in Seq(SkipRange)
      BY <2>1
    <3> QED
      BY <3>1, <3>2, ConcatProperties DEF remove_sip, RemoveAt
  <2>5. [s EXCEPT ![i].start = s[i].start + 1] \in Seq(SkipRange)
    BY <2>3, <2>10, Zenon
  <2>6. [s EXCEPT ![i].end = s[i].end - 1] \in Seq(SkipRange)
    BY <2>3, <2>10, Zenon
  <2>7. [s EXCEPT ![i].end = a - 1] \in Seq(SkipRange)
    BY <2>3, <2>10, Zenon
  <2>8. insert_skip([s EXCEPT ![i].end = a - 1], a + 1, a - 1) \in Seq(SkipRange)
    <3>1. a + 1 \in Int /\ a - 1 \in Int
      OBVIOUS
    <3> QED
      BY <1>1, <2>7, <3>1
  <2>9. check_current_skips(s, a) =
          IF s[i].start = a
          THEN IF s[i].end = a THEN remove_sip(s, i) ELSE [s EXCEPT ![i].start = s[i].start + 1]
          ELSE IF s[i].end = a THEN [s EXCEPT ![i].end = s[i].end - 1]
          ELSE insert_skip([s EXCEPT ![i].end = a - 1], a + 1, a - 1)
    BY <2>2, Zenon DEF check_current_skips
  <2> QED
    BY <2>4, <2>5, <2>6, <2>8, <2>9, Zenon
<1> QED
  BY <1>1, <1>2

\* show_entries_rb takes a trace off the tree, whichever pass it is.
LEMMA ShowOne ==
    ASSUME LiveInv, NEW e \in rb_sort, ShowTrace(e), sorted' = sorted,
           \A d \in Cpus : Shown(d)' = IF d = e.cpu /\ ~IsMessage(e) THEN Append(Shown(d), e.seq)
                                       ELSE Shown(d)
    PROVE  /\ rb_sort' \in SUBSET Stamp
           /\ last_sequence' \in [Cpus -> Int]
           /\ skips' \in [Cpus -> Seq(SkipRange)]
           /\ TreeIsUnique' /\ ShownOrInTree' /\ LastIsLast' /\ SkipsFit'
<1>1. /\ e \in Stamp /\ e.cpu \in Cpus /\ e.seq \in Nat
      /\ rb_sort' = rb_sort \ {e} /\ rb_sort \in SUBSET Stamp
      /\ last_sequence \in [Cpus -> Int] /\ skips \in [Cpus -> Seq(SkipRange)]
      /\ \A x \in rb_sort : x.cpu \in Cpus
  <2>1. e \in Stamp /\ rb_sort \in SUBSET Stamp
    BY DEF LiveInv, LiveTypes
  <2> QED
    BY <2>1 DEF LiveInv, LiveTypes, ShowTrace, Stamp
<1>2. \A d \in Cpus : Shown(d) \in Seq(Nat)
  BY ConcatProperties DEF LiveInv, LiveTypes, Shown
<1>3. PICK c \in Cpus, n \in Nat : c = e.cpu /\ n = e.seq
  BY <1>1
<1>4. \A x : IsMessage(x)' <=> IsMessage(x)
  BY DEF IsMessage
<1>5. \A d \in Cpus : (d # c \/ IsMessage(e)) =>
         Shown(d)' = Shown(d) /\ skips'[d] = skips[d] /\ last_sequence'[d] = last_sequence[d]
  BY <1>1, <1>3 DEF ShowTrace, CheckSequence
<1>6. ASSUME ~IsMessage(e)
      PROVE  /\ Shown(c)' = Append(Shown(c), n)
             /\ last_sequence'[c] = n
             /\ ToSet(Shown(c)') = ToSet(Shown(c)) \cup {n}
             /\ n \in sorted[c] /\ n \notin ToSet(Shown(c))
             /\ IsInjective(Shown(c)')
  <2>1. Shown(c)' = Append(Shown(c), n) /\ last_sequence'[c] = n
    BY <1>1, <1>3, <1>6 DEF ShowTrace
  <2>2. n \in sorted[c] /\ n \notin ToSet(Shown(c)) /\ IsInjective(Shown(c))
    BY <1>3, <1>6, Zenon DEF LiveInv, ShownOrInTree
  <2> QED
    BY <1>2, <2>1, <2>2, OneMoreShown
<1>7. TreeIsUnique'
  BY <1>1, <1>4, Zenon DEF LiveInv, TreeIsUnique
<1>8. ShownOrInTree'
  <2>1. ASSUME NEW x \in rb_sort', ~IsMessage(x)
        PROVE  x.seq \in sorted'[x.cpu] /\ x.seq \notin ToSet(Shown(x.cpu)')
    <3>1. x \in rb_sort /\ x # e /\ x.cpu \in Cpus
      BY <1>1
    <3>2. x.seq \in sorted[x.cpu] /\ x.seq \notin ToSet(Shown(x.cpu))
      BY <2>1, <3>1, Zenon DEF LiveInv, ShownOrInTree
    <3>3. x.cpu = c /\ ~IsMessage(e) => x.seq # n
      BY <1>3, <2>1, <3>1, Zenon DEF LiveInv, TreeIsUnique
    <3>4. CASE x.cpu = c /\ ~IsMessage(e)
      <4>1. ToSet(Shown(c)') = ToSet(Shown(c)) \cup {n}
        BY <1>6, <3>4
      <4> QED
        BY <3>2, <3>3, <3>4, <4>1, Zenon
    <3>5. CASE ~(x.cpu = c /\ ~IsMessage(e))
      BY <1>5, <3>1, <3>2, <3>5, Zenon
    <3> QED
      BY <3>4, <3>5
  <2>2. ASSUME NEW d \in Cpus, NEW m \in sorted'[d]
        PROVE  m \in ToSet(Shown(d)') \/ \E x \in rb_sort' : ~IsMessage(x) /\ x.cpu = d /\ x.seq = m
    <3>1. m \in ToSet(Shown(d)) \/ \E x \in rb_sort : ~IsMessage(x) /\ x.cpu = d /\ x.seq = m
      BY <2>2, Zenon DEF LiveInv, ShownOrInTree
    <3>2. ToSet(Shown(d)) \subseteq ToSet(Shown(d)')
      <4>1. CASE d = c /\ ~IsMessage(e)
        BY <1>6, <4>1
      <4>2. CASE ~(d = c /\ ~IsMessage(e))
        BY <1>5, <4>2, Zenon
      <4> QED
        BY <4>1, <4>2
    <3>3. ASSUME NEW x \in rb_sort, ~IsMessage(x), x.cpu = d, x.seq = m, x \notin rb_sort'
          PROVE  m \in ToSet(Shown(d)')
      <4>1. x = e /\ d = c /\ m = n /\ ~IsMessage(e)
        BY <1>1, <1>3, <3>3
      <4> QED
        BY <1>6, <4>1
    <3> QED
      BY <3>1, <3>2, <3>3, Zenon
  <2>3. ASSUME NEW d \in Cpus
        PROVE  ToSet(Shown(d)') \subseteq sorted'[d] /\ IsInjective(Shown(d)')
    <3>1. ToSet(Shown(d)) \subseteq sorted[d] /\ IsInjective(Shown(d))
      BY Zenon DEF LiveInv, ShownOrInTree
    <3>2. CASE d = c /\ ~IsMessage(e)
      BY <1>6, <3>1, <3>2
    <3>3. CASE ~(d = c /\ ~IsMessage(e))
      BY <1>5, <3>1, <3>3, Zenon
    <3> QED
      BY <3>2, <3>3
  <2>4. \A d : ToSet(Shown(d))' = ToSet(Shown(d)') /\ (IsInjective(Shown(d))' <=> IsInjective(Shown(d)'))
    OBVIOUS
  <2> QED
    BY <1>4, <2>1, <2>2, <2>3, Zenon DEF ShownOrInTree
<1>9. LastIsLast'
  <2> SUFFICES ASSUME NEW d \in Cpus
               PROVE  last_sequence'[d] = IF Shown(d)' = <<>> THEN -1 ELSE Shown(d)'[Len(Shown(d)')]
    BY DEF LastIsLast
  <2>1. CASE d = c /\ ~IsMessage(e)
    <3>1. Append(Shown(c), n) # <<>> /\ Append(Shown(c), n)[Len(Append(Shown(c), n))] = n
      BY <1>2, AppendLast
    <3> QED
      BY <1>6, <2>1, <3>1
  <2>2. CASE ~(d = c /\ ~IsMessage(e))
    <3>1. last_sequence[d] = IF Shown(d) = <<>> THEN -1 ELSE Shown(d)[Len(Shown(d))]
      BY DEF LiveInv, LastIsLast
    <3> QED
      BY <1>5, <2>2, <3>1, Zenon
  <2> QED
    BY <2>1, <2>2
<1>12. PICK s \in Seq(SkipRange), x \in Int : s = skips[c] /\ x = last_sequence[c] + 1
  BY <1>1, <1>3
<1>13. PICK new : /\ skips' = [skips EXCEPT ![c] = new]
                  /\ new = IF IsMessage(e) \/ x = 0 \/ n = x THEN s
                           ELSE IF InSkip(s, n) # {} THEN check_current_skips(s, n)
                           ELSE IF x < n THEN insert_skip(s, x, n - 1)
                           ELSE s
  BY <1>1, <1>3, <1>12 DEF ShowTrace, CheckSequence
<1>10. skips' \in [Cpus -> Seq(SkipRange)] /\ last_sequence' \in [Cpus -> Int]
  <2>1. last_sequence' \in [Cpus -> Int]
    BY <1>1 DEF ShowTrace
  <2>4. n \in Int /\ n - 1 \in Int
    OBVIOUS
  <2>5. InSkip(s, n) # {} => check_current_skips(s, n) \in Seq(SkipRange)
    BY <2>4, SkipsTyped
  <2>6. insert_skip(s, x, n - 1) \in Seq(SkipRange)
    BY <2>4, SkipsTyped
  <2>7. new \in Seq(SkipRange)
    BY <1>13, <2>5, <2>6, Zenon
  <2> QED
    BY <1>1, <1>13, <2>1, <2>7
<1>11. SkipsFit'
  <2>1. ASSUME ~IsMessage(e), IsRising(Append(Shown(c), n))
        PROVE  /\ SkipsRise(skips'[c], Append(Shown(c), n))
               /\ InRanges(skips'[c]) = Missing(Append(Shown(c), n))
    <3>1. PICK q \in Seq(Nat) : q = Shown(c)
      BY <1>2
    <3>2. skips'[c] = new /\ x = (IF q = <<>> THEN -1 ELSE q[Len(q)]) + 1
      BY <1>1, <1>12, <1>13, <3>1 DEF LiveInv, LastIsLast
    <3>7. q # <<>> => IsRising(Append(q, n)) /\ SkipsRise(s, q)
      BY <1>12, <2>1, <3>1, RisingSplit DEF LiveInv, SkipsFit
    <3>3. IF q = <<>> \/ n = q[Len(q)] + 1 THEN skips'[c] = s
          ELSE /\ skips'[c] = Append(s, [start |-> q[Len(q)] + 1, end |-> n - 1])
               /\ q[Len(q)] + 1 <= n - 1
      <4>1. new = IF x = 0 \/ n = x THEN s
                  ELSE IF InSkip(s, n) # {} THEN check_current_skips(s, n)
                  ELSE IF x < n THEN insert_skip(s, x, n - 1)
                  ELSE s
        BY <1>13, <2>1, Zenon
      <4>2. \A y, w :
              /\ y = (IF q = <<>> THEN -1 ELSE q[Len(q)]) + 1
              /\ w = IF y = 0 \/ n = y THEN s
                    ELSE IF InSkip(s, n) # {} THEN check_current_skips(s, n)
                    ELSE IF y < n THEN insert_skip(s, y, n - 1)
                    ELSE s
              => IF q = <<>> \/ n = q[Len(q)] + 1 THEN w = s
                 ELSE /\ w = Append(s, [start |-> q[Len(q)] + 1, end |-> n - 1])
                      /\ q[Len(q)] + 1 <= n - 1
        BY <3>7, SkipsOfNext, ZenonT(30)
      <4>3. IF q = <<>> \/ n = q[Len(q)] + 1 THEN new = s
            ELSE /\ new = Append(s, [start |-> q[Len(q)] + 1, end |-> n - 1])
                 /\ q[Len(q)] + 1 <= n - 1
        BY <3>2, <4>1, <4>2, SMTT(30)
      <4> QED
        BY <3>2, <4>3
    <3>4. IsRising(Append(q, n))
      BY <2>1, <3>1
    <3>5. CASE q = <<>>
      <4>1. s = <<>> /\ skips'[c] = s
        BY <1>12, <3>1, <3>3, <3>5 DEF LiveInv, SkipsFit
      <4>2. Append(q, n) = <<n>> /\ Len(<<n>>) = 1 /\ <<n>>[1] = n /\ DOMAIN <<n>> = 1 .. 1
        BY <3>5
      <4>3. Missing(<<n>>) = {}
        <5>1. n \in ToSet(<<n>>)
          BY <4>2 DEF ToSet
        <5>2. \A k : k \in n .. n => k = n
          OBVIOUS
        <5> QED
          BY <4>2, <5>1, <5>2, Zenon DEF Missing
      <4>4. InRanges(<<>>) = {} /\ SkipsRise(<<>>, <<n>>)
        BY DEF InRanges, SkipsRise
      <4> QED
        BY <3>1, <4>1, <4>2, <4>3, <4>4, Zenon
    <3>6. CASE q # <<>>
      <4>1. SkipsRise(s, q) /\ InRanges(s) = Missing(q)
        BY <1>12, <3>1, <3>4, <3>6, <3>7, RisingSplit DEF LiveInv, SkipsFit
      <4>2. CASE n = q[Len(q)] + 1
        <5>1. skips'[c] = s
          BY <3>3, <4>2
        <5>2. Missing(Append(q, n)) = Missing(q) \cup (n .. n - 1)
          BY <3>4, <3>6, <4>2, MissingMore
        <5>3. n .. n - 1 = {}
          OBVIOUS
        <5>4. SkipsRise(s, Append(q, n))
          <6>1. /\ Append(q, n)[1] = q[1] /\ Append(q, n)[Len(Append(q, n))] = n
                /\ q[Len(q)] < n /\ q[Len(q)] \in Nat
            BY <3>4, <3>6, RisingSplit
          <6>2. \A i \in 1 .. Len(s) : s[i].end \in Int
            <7>1. \A i \in 1 .. Len(s) : s[i] \in SkipRange
              BY ElementOfSeq
            <7> QED
              BY <7>1 DEF SkipRange
          <6>3. \A i \in 1 .. Len(s) : s[i].end < n
            <7> SUFFICES ASSUME NEW i \in 1 .. Len(s) PROVE s[i].end < n
              OBVIOUS
            <7>1. PICK y \in Int, p \in Nat : y = s[i].end /\ p = q[Len(q)]
              BY <6>1, <6>2
            <7>2. y < p /\ p < n
              BY <4>1, <6>1, <7>1, Zenon DEF SkipsRise
            <7>3. y < n
              BY <7>2
            <7> QED
              BY <7>1, <7>3
          <6> QED
            BY <4>1, <6>1, <6>3, Zenon DEF SkipsRise
        <5> QED
          BY <3>1, <4>1, <5>1, <5>2, <5>3, <5>4
      <4>3. CASE n # q[Len(q)] + 1
        <5>1. /\ skips'[c] = Append(s, [start |-> q[Len(q)] + 1, end |-> n - 1])
              /\ q[Len(q)] + 1 <= n - 1
          BY <3>3, <3>6, <4>3
        <5> QED
          BY <3>1, <3>4, <3>6, <4>1, <5>1, SkipsBehind
      <4> QED
        BY <4>2, <4>3
    <3> QED
      BY <3>5, <3>6
  <2> SUFFICES ASSUME NEW d \in Cpus
               PROVE  /\ Shown(d)' = <<>> => skips'[d] = <<>>
                      /\ Shown(d)' # <<>> /\ IsRising(Shown(d)') =>
                            /\ SkipsRise(skips'[d], Shown(d)')
                            /\ InRanges(skips'[d]) = Missing(Shown(d)')
    BY Zenon DEF SkipsFit, SkipsRise, InRanges, IsRising, Missing
  <2>2. CASE d = c /\ ~IsMessage(e)
    <3>1. Shown(d)' = Append(Shown(c), n) /\ Shown(d)' # <<>>
      <4>1. Append(Shown(c), n) # <<>>
        BY <1>2, AppendLast
      <4> QED
        BY <1>6, <2>2, <4>1
    <3> QED
      BY <2>1, <2>2, <3>1, Zenon
  <2>3. CASE ~(d = c /\ ~IsMessage(e))
    <3>1. SkipsFit
      BY DEF LiveInv
    <3> QED
      BY <1>5, <2>3, <3>1, Zenon DEF SkipsFit
  <2> QED
    BY <2>2, <2>3
<1> QED
  BY <1>1, <1>7, <1>8, <1>9, <1>10, <1>11

\* The steps that leave the pipe and the batch alone.
LEMMA BatchStays ==
    ASSUME LiveInv, UNCHANGED <<came, trace_list, sorted>>
    PROVE  BatchIsNew'
<1>1. BatchIsNew
  BY DEF LiveInv
<1>2. \A e : IsMessage(e)' <=> IsMessage(e)
  BY DEF IsMessage
<1> QED
  BY <1>1, <1>2, Zenon DEF BatchIsNew

\* show_entries_rb(0), one turn: the trace is the next of its CPU, or the first.
LEMMA ShowLiveStep ==
    ASSUME LiveInv, ShowLive
    PROVE  LiveInv'
<1>1. PICK e \in rb_sort : ~MustWait(e, FALSE) /\ ShowTrace(e) /\ live' = Record(live, e)
  BY DEF ShowLive
<1>2. /\ lpc = "show" /\ UNCHANGED <<lpc, pipeVars, trace_list, sorted, flushed, genesis_time>>
  BY DEF ShowLive
<1>3. /\ e.cpu \in Cpus /\ e.seq \in Nat
      /\ live \in [Cpus -> Seq(Nat)] /\ \A d \in Cpus : flushed[d] = <<>>
  <2>1. e \in Stamp
    BY DEF LiveInv, LiveTypes
  <2> QED
    BY <1>2, <2>1 DEF LiveInv, LiveTypes, Stamp
<1>4. live' \in [Cpus -> Seq(Nat)]
  BY <1>1, <1>3 DEF Record
<1>5. \A d \in Cpus : live'[d] = IF d = e.cpu /\ ~IsMessage(e) THEN Append(live[d], e.seq)
                                 ELSE live[d]
  BY <1>1, <1>3 DEF Record
<1>6. \A d \in Cpus : Shown(d) = live[d] /\ Shown(d)' = live'[d]
  <2>1. \A s \in Seq(Nat) : s \o <<>> = s
    OBVIOUS
  <2> QED
    BY <1>2, <1>3, <1>4, <2>1 DEF Shown
<1>7. \A d \in Cpus : Shown(d)' = IF d = e.cpu /\ ~IsMessage(e) THEN Append(Shown(d), e.seq)
                                  ELSE Shown(d)
  BY <1>5, <1>6, Zenon
<1>8. /\ rb_sort' \in SUBSET Stamp
      /\ last_sequence' \in [Cpus -> Int]
      /\ skips' \in [Cpus -> Seq(SkipRange)]
      /\ TreeIsUnique' /\ ShownOrInTree' /\ LastIsLast' /\ SkipsFit'
  BY <1>1, <1>2, <1>7, ShowOne
<1>9. LiveTypes' /\ BatchIsNew'
  <2>1. LiveTypes'
    BY <1>2, <1>4, <1>8 DEF LiveInv, LiveTypes, pipeVars
  <2> QED
    BY <1>2, <2>1, BatchStays DEF pipeVars
<1>10. LiveIsGapless'
  <2> SUFFICES ASSUME NEW d \in Cpus
               PROVE  \A i \in DOMAIN live'[d] : live'[d][i] = live'[d][1] + i - 1
    BY DEF LiveIsGapless
  <2>1. \A i \in DOMAIN live[d] : live[d][i] = live[d][1] + i - 1
    BY DEF LiveInv, LiveIsGapless
  <2>2. CASE d = e.cpu /\ ~IsMessage(e)
    <3>1. PICK q \in Seq(Nat), n \in Nat : q = live[d] /\ n = e.seq
      BY <1>3
    <3>2. /\ Len(Append(q, n)) = Len(q) + 1 /\ Len(q) \in Nat
          /\ \A i \in 1 .. Len(q) : Append(q, n)[i] = q[i]
          /\ Append(q, n)[Len(q) + 1] = n
          /\ DOMAIN Append(q, n) = 1 .. Len(q) + 1 /\ DOMAIN q = 1 .. Len(q)
      <4>1. /\ Len(Append(q, n)) = Len(q) + 1 /\ Append(q, n) \in Seq(Nat)
            /\ \A i \in 1 .. Len(q) : Append(q, n)[i] = q[i]
            /\ Append(q, n)[Len(q) + 1] = n
        BY AppendProperties
      <4>2. \A r \in Seq(Nat) : Len(r) \in Nat /\ DOMAIN r = 1 .. Len(r)
        BY LenProperties, SMTT(30)
      <4> QED
        BY <4>1, <4>2, Zenon
    <3>3. PICK k \in Nat : k = Len(q)
      BY <3>2
    <3>4. CASE q = <<>>
      <4>1. k = 0 /\ Append(q, n)[1] = n
        BY <3>2, <3>3, <3>4
      <4>2. DOMAIN Append(q, n) = {1}
        BY <3>2, <3>3, <4>1
      <4>3. n = n + 1 - 1
        OBVIOUS
      <4>4. live'[d] = Append(q, n)
        BY <1>5, <2>2, <3>1
      <4> QED
        BY <4>1, <4>2, <4>3, <4>4
    <3>5. CASE q # <<>>
      <4>1. k # 0
        BY <3>3, <3>5, EmptySeq
      <4>2. PICK a \in Nat, b \in Nat : a = q[1] /\ b = q[k]
        <5>1. 1 \in 1 .. k /\ k \in 1 .. k
          BY <4>1
        <5> QED
          BY <3>3, <5>1, ElementOfSeq
      <4>3. last_sequence[d] = b
        BY <1>6, <3>1, <3>3, <3>5, <4>2 DEF LiveInv, LastIsLast
      <4>4. n = b + 1
        <5>1. b # -1
          OBVIOUS
        <5> QED
          BY <1>1, <2>2, <3>1, <4>3, <5>1 DEF MustWait
      <4>5. b = a + k - 1
        <5>1. k \in 1 .. k
          BY <4>1
        <5> QED
          BY <2>1, <3>1, <3>2, <3>3, <4>2, <5>1, Zenon
      <4>6. n = a + (k + 1) - 1
        BY <4>4, <4>5
      <4>7. Append(q, n)[1] = a
        <5>1. 1 \in 1 .. k
          BY <4>1
        <5> QED
          BY <3>2, <3>3, <4>2, <5>1
      <4>8. \A i \in 1 .. k + 1 : i \in 1 .. k \/ i = k + 1
        OBVIOUS
      <4>9. \A i \in 1 .. k + 1 : Append(q, n)[i] = a + i - 1
        <5> SUFFICES ASSUME NEW i \in 1 .. k + 1 PROVE Append(q, n)[i] = a + i - 1
          OBVIOUS
        <5>1. CASE i \in 1 .. k
          BY <2>1, <3>1, <3>2, <3>3, <4>2, <5>1, Zenon
        <5>2. CASE i = k + 1
          BY <3>2, <3>3, <4>6, <5>2, Zenon
        <5> QED
          BY <4>8, <5>1, <5>2
      <4> QED
        BY <1>5, <2>2, <3>1, <3>2, <3>3, <4>7, <4>9, Zenon
    <3> QED
      BY <3>4, <3>5
  <2>3. CASE ~(d = e.cpu /\ ~IsMessage(e))
    BY <1>5, <2>1, <2>3, Zenon
  <2> QED
    BY <2>2, <2>3
<1> QED
  BY <1>2, <1>3, <1>8, <1>9, <1>10 DEF LiveInv

\* show_entries_rb(1), one turn.
LEMMA FlushStep ==
    ASSUME LiveInv, Flush
    PROVE  LiveInv'
<1>1. PICK e \in rb_sort : ShowTrace(e) /\ flushed' = Record(flushed, e)
  BY DEF Flush
<1>2. lpc = "flush" /\ UNCHANGED <<lpc, pipeVars, trace_list, sorted, live, genesis_time>>
  BY DEF Flush
<1>3. /\ e.cpu \in Cpus /\ e.seq \in Nat
      /\ live \in [Cpus -> Seq(Nat)] /\ flushed \in [Cpus -> Seq(Nat)]
  <2>1. e \in Stamp
    BY DEF LiveInv, LiveTypes
  <2> QED
    BY <2>1 DEF LiveInv, LiveTypes, Stamp
<1>4. flushed' \in [Cpus -> Seq(Nat)]
  BY <1>1, <1>3 DEF Record
<1>5. \A d \in Cpus : flushed'[d] = IF d = e.cpu /\ ~IsMessage(e) THEN Append(flushed[d], e.seq)
                                    ELSE flushed[d]
  BY <1>1, <1>3 DEF Record
<1>6. \A s, t \in Seq(Nat) : \A n \in Nat : s \o Append(t, n) = Append(s \o t, n)
  OBVIOUS
<1>7. \A d \in Cpus : Shown(d)' = IF d = e.cpu /\ ~IsMessage(e) THEN Append(Shown(d), e.seq)
                                  ELSE Shown(d)
  <2> SUFFICES ASSUME NEW d \in Cpus
               PROVE  live'[d] \o flushed'[d] = IF d = e.cpu /\ ~IsMessage(e)
                                               THEN Append(live[d] \o flushed[d], e.seq)
                                               ELSE live[d] \o flushed[d]
    BY Zenon DEF Shown
  <2>1. live'[d] = live[d] /\ live[d] \in Seq(Nat) /\ flushed[d] \in Seq(Nat)
    BY <1>2, <1>3
  <2> QED
    BY <1>3, <1>5, <1>6, <2>1, Zenon
<1>8. /\ rb_sort' \in SUBSET Stamp
      /\ last_sequence' \in [Cpus -> Int]
      /\ skips' \in [Cpus -> Seq(SkipRange)]
      /\ TreeIsUnique' /\ ShownOrInTree' /\ LastIsLast' /\ SkipsFit'
  BY <1>1, <1>2, <1>7, ShowOne
<1>9. LiveTypes' /\ BatchIsNew'
  <2>1. LiveTypes'
    BY <1>2, <1>4, <1>8 DEF LiveInv, LiveTypes, pipeVars
  <2> QED
    BY <1>2, <2>1, BatchStays DEF pipeVars
<1>10. LiveIsGapless'
  BY <1>2 DEF LiveInv, LiveIsGapless
<1> QED
  BY <1>2, <1>8, <1>9, <1>10 DEF LiveInv

\* The ends of the loops.
LEMMA EndStep ==
    ASSUME LiveInv, EndBatch \/ EndShow \/ EndFlush
    PROVE  LiveInv'
<1>1. UNCHANGED <<pipeVars, trace_list, rb_sort, last_sequence, skips, sorted, live, flushed, genesis_time>>
  BY DEF EndBatch, EndShow, EndFlush
<1>2. /\ lpc' \in {"sort", "flush", "read", "end"}
      /\ lpc' = "sort" => trace_list # <<>>
      /\ lpc' \in {"read", "sort", "show"} => lpc \in {"read", "sort", "show"}
  BY DEF EndBatch, EndShow, EndFlush
<1>3. lpc' = "end" => rb_sort = {}
  <2>1. \A e : ~MustWait(e, TRUE)
    BY DEF MustWait
  <2> QED
    BY <2>1 DEF EndBatch, EndShow, EndFlush
<1>4. TreeIsUnique' /\ ShownOrInTree' /\ LastIsLast' /\ SkipsFit' /\ LiveIsGapless'
  BY <1>1, TreeStays
<1>5. BatchIsNew'
  BY <1>1, BatchStays DEF pipeVars
<1>6. LiveTypes'
  BY <1>1, <1>2 DEF LiveInv, LiveTypes, pipeVars
<1>7. lpc' \in {"read", "sort", "show"} => \A c \in Cpus : flushed'[c] = <<>>
  BY <1>1, <1>2 DEF LiveInv
<1> QED
  BY <1>1, <1>3, <1>4, <1>5, <1>6, <1>7 DEF LiveInv

\* find_genesis: the first batch has an earliest time.
LEMMA GenesisFound ==
    ASSUME LiveTypes, lpc = "sort", FindGenesis
    PROVE  genesis_time' \in Nat
<1> DEFINE S == {trace_list[i].time : i \in DOMAIN trace_list}
<1>1. S \in SUBSET Nat
  <2>1. \A i \in DOMAIN trace_list : trace_list[i] \in Stamp
    BY LenProperties, ElementOfSeq DEF LiveTypes
  <2> QED
    BY <2>1 DEF Stamp
<1>2. S # {}
  <2>1. 1 \in DOMAIN trace_list
    BY LenProperties, EmptySeq DEF LiveTypes
  <2> QED
    BY <2>1
<1>3. genesis_time' = IF genesis_time = 0 THEN Min(S) ELSE genesis_time
  BY Zenon DEF FindGenesis
<1> HIDE DEF S
<1>4. PICK m \in S : \A k \in S : m <= k
  BY <1>1, <1>2, LeastNat
<1>5. Min(S) \in S
  BY <1>4 DEF Min
<1> QED
  BY <1>1, <1>3, <1>5 DEF LiveTypes

\* sort_entries: what the stopwatch keeps of the batch is new to the tree.
LEMMA SortStep ==
    ASSUME LiveInv, SortEntries
    PROVE  LiveInv'
<1> DEFINE es == [i \in DOMAIN trace_list |-> [trace_list[i] EXCEPT !.time = Rebased(@)]]
           kept == {e \in ToSet(es) : InStopwatch(e)}
<1>1. /\ lpc = "sort" /\ FindGenesis
      /\ rb_sort' = rb_sort \cup kept
      /\ sorted' = [c \in Cpus |-> sorted[c] \cup Numbers(c, kept)]
      /\ trace_list' = <<>>
      /\ lpc' \in {"flush", "show"}
      /\ UNCHANGED <<came, last_sequence, skips, live, flushed>>
  BY DEF SortEntries, pipeVars
<1>2. genesis_time' \in Nat
  BY <1>1, GenesisFound DEF LiveInv
<1>3. DOMAIN trace_list = 1 .. Len(trace_list) /\ Len(trace_list) \in Nat
  BY LenProperties DEF LiveInv, LiveTypes
<1>4. \A i \in 1 .. Len(trace_list) :
         es[i] \in Stamp /\ es[i].cpu = trace_list[i].cpu /\ es[i].seq = trace_list[i].seq
  <2> SUFFICES ASSUME NEW i \in 1 .. Len(trace_list)
               PROVE  es[i] \in Stamp /\ es[i].cpu = trace_list[i].cpu /\ es[i].seq = trace_list[i].seq
    OBVIOUS
  <2>1. trace_list[i] \in Stamp
    BY ElementOfSeq DEF LiveInv, LiveTypes
  <2>2. Rebased(trace_list[i].time) \in Nat
    <3>1. PICK t \in Nat, g \in Nat : t = trace_list[i].time /\ g = genesis_time'
      BY <1>2, <2>1 DEF Stamp
    <3>2. TimeMod \in Nat /\ TimeMod > 0
      BY TimeAssumption
    <3>3. (t - g) % TimeMod \in Nat
      BY <3>2
    <3> QED
      BY <3>1, <3>3, Zenon DEF Rebased
  <2>3. es[i] = [trace_list[i] EXCEPT !.time = Rebased(trace_list[i].time)]
    BY <1>3
  <2> HIDE DEF es
  <2> QED
    BY <2>1, <2>2, <2>3 DEF Stamp
<1>5. \A k \in kept : /\ k \in Stamp /\ k.cpu \in Cpus /\ k.seq \in Nat
                      /\ \E i \in 1 .. Len(trace_list) :
                            /\ k = es[i]
                            /\ k.cpu = trace_list[i].cpu /\ k.seq = trace_list[i].seq
  <2>1. \A k \in kept : \E i \in 1 .. Len(trace_list) : k = es[i]
    BY <1>3 DEF ToSet
  <2> HIDE DEF es, kept
  <2>2. \A k \in Stamp : k.cpu \in Cpus /\ k.seq \in Nat
    BY DEF Stamp
  <2>3. ASSUME NEW k \in kept
        PROVE  /\ k \in Stamp /\ k.cpu \in Cpus /\ k.seq \in Nat
               /\ \E i \in 1 .. Len(trace_list) :
                     k = es[i] /\ k.cpu = trace_list[i].cpu /\ k.seq = trace_list[i].seq
    <3>1. PICK i \in 1 .. Len(trace_list) : k = es[i]
      BY <2>1
    <3>2. k \in Stamp /\ k.cpu = trace_list[i].cpu /\ k.seq = trace_list[i].seq
      BY <1>4, <3>1, Zenon
    <3> QED
      BY <2>2, <3>1, <3>2
  <2> QED
    BY <2>3
<1>6. \A c, n : n \in Numbers(c, kept) <=> \E k \in kept : k.cpu = c /\ ~IsMessage(k) /\ k.seq = n
  <2> HIDE DEF kept
  <2> QED
    BY DEF Numbers
<1> HIDE DEF es, kept
<1>7. \A k \in kept : ~IsMessage(k) =>
         /\ k.seq # 0 /\ k.seq <= came[k.cpu]
         /\ \A n \in sorted[k.cpu] : n < k.seq
  <2> SUFFICES ASSUME NEW k \in kept, ~IsMessage(k)
               PROVE  /\ k.seq # 0 /\ k.seq <= came[k.cpu]
                      /\ \A n \in sorted[k.cpu] : n < k.seq
    OBVIOUS
  <2>1. PICK i \in 1 .. Len(trace_list) : k.cpu = trace_list[i].cpu /\ k.seq = trace_list[i].seq
    BY <1>5
  <2> QED
    BY <2>1 DEF LiveInv, BatchIsNew, IsMessage
<1>8. ASSUME NEW j \in kept, NEW k \in kept,
             ~IsMessage(j), ~IsMessage(k), j.cpu = k.cpu, j.seq = k.seq
      PROVE  j = k
  <2>1. PICK a \in 1 .. Len(trace_list) :
           j = es[a] /\ j.cpu = trace_list[a].cpu /\ j.seq = trace_list[a].seq
    BY <1>5
  <2>2. PICK b \in 1 .. Len(trace_list) :
           k = es[b] /\ k.cpu = trace_list[b].cpu /\ k.seq = trace_list[b].seq
    BY <1>5
  <2>3. ~IsMessage(trace_list[a]) /\ ~IsMessage(trace_list[b]) /\ trace_list[a].cpu = trace_list[b].cpu
    BY <1>8, <2>1, <2>2 DEF IsMessage
  <2>4. /\ a < b => trace_list[b].seq < trace_list[a].seq
        /\ b < a => trace_list[a].seq < trace_list[b].seq
    BY <2>3 DEF LiveInv, BatchIsNew
  <2>5. PICK n \in Nat : n = j.seq /\ n = k.seq
    BY <1>5, <1>8
  <2>6. ~(n < n)
    OBVIOUS
  <2>7. ~(a < b) /\ ~(b < a)
    BY <2>1, <2>2, <2>4, <2>5, <2>6, Zenon
  <2>8. a = b
    BY <2>7
  <2> QED
    BY <2>1, <2>2, <2>8
<1>9. /\ rb_sort \in SUBSET Stamp /\ \A x \in rb_sort : x.cpu \in Cpus /\ x.seq \in Nat
      /\ sorted \in [Cpus -> SUBSET Nat]
      /\ \A c \in Cpus : sorted'[c] = sorted[c] \cup Numbers(c, kept)
  <2>1. rb_sort \in SUBSET Stamp /\ sorted \in [Cpus -> SUBSET Nat]
    BY DEF LiveInv, LiveTypes
  <2> QED
    BY <1>1, <2>1 DEF Stamp
<1>10. LiveTypes'
  <2>1. sorted' \in [Cpus -> SUBSET Nat]
    <3>1. \A c \in Cpus : Numbers(c, kept) \in SUBSET Nat
      BY <1>5, <1>6
    <3>2. \A c \in Cpus : sorted[c] \cup Numbers(c, kept) \in SUBSET Nat
      BY <1>9, <3>1
    <3> QED
      BY <1>1, <3>2
  <2>2. rb_sort' \in SUBSET Stamp
    BY <1>1, <1>5, <1>9
  <2>3. trace_list' \in Seq(Stamp)
    BY <1>1
  <2> QED
    BY <1>1, <1>2, <2>1, <2>2, <2>3 DEF LiveInv, LiveTypes
<1>11. BatchIsNew'
  <2>1. Len(trace_list') = 0 /\ 1 .. 0 = {}
    BY <1>1
  <2>2. \A c \in Cpus : \A n \in sorted'[c] : n # 0 /\ n <= came'[c]
    <3>1. \A c \in Cpus : \A n \in sorted[c] : n # 0 /\ n <= came[c]
      BY DEF LiveInv, BatchIsNew
    <3>2. ASSUME NEW c \in Cpus, NEW n \in Numbers(c, kept)
          PROVE  n # 0 /\ n <= came[c]
      <4>1. PICK k \in kept : k.cpu = c /\ ~IsMessage(k) /\ k.seq = n
        BY <1>6
      <4> QED
        BY <1>7, <4>1, Zenon
    <3> QED
      BY <1>1, <1>9, <3>1, <3>2
  <2> QED
    BY <2>1, <2>2, Zenon DEF BatchIsNew
<1>12. LastIsLast' /\ SkipsFit' /\ LiveIsGapless' /\ \A c : Shown(c)' = Shown(c)
  BY <1>1, ShownStays
<1>13. \A e : IsMessage(e)' <=> IsMessage(e)
  BY DEF IsMessage
<1>14. \A x \in rb_sort : ~IsMessage(x) =>
          x.seq \in sorted[x.cpu] /\ x.seq \notin ToSet(Shown(x.cpu))
  BY Zenon DEF LiveInv, ShownOrInTree
<1>15. TreeIsUnique'
  <2>1. ASSUME NEW x \in rb_sort, NEW k \in kept,
               ~IsMessage(x), ~IsMessage(k), x.cpu = k.cpu, x.seq = k.seq
        PROVE  FALSE
    <3>1. x.seq < k.seq
      BY <1>7, <1>14, <2>1, Zenon
    <3>2. \A n \in Nat : ~(n < n)
      OBVIOUS
    <3> QED
      BY <1>9, <2>1, <3>1, <3>2, Zenon
  <2>2. \A e, o \in rb_sort :
           ~IsMessage(e) /\ ~IsMessage(o) /\ e.cpu = o.cpu /\ e.seq = o.seq => e = o
    BY DEF LiveInv, TreeIsUnique
  <2>3. \A x : x \in rb_sort' <=> x \in rb_sort \/ x \in kept
    BY <1>1
  <2>4. \A e, o \in rb_sort' :
           ~IsMessage(e) /\ ~IsMessage(o) /\ e.cpu = o.cpu /\ e.seq = o.seq => e = o
    BY <1>8, <2>1, <2>2, <2>3, Zenon
  <2> QED
    BY <1>13, <2>4, Zenon DEF TreeIsUnique
<1>16. ShownOrInTree'
  <2>1. \A c \in Cpus : ToSet(Shown(c)) \subseteq sorted[c] /\ IsInjective(Shown(c))
    BY Zenon DEF LiveInv, ShownOrInTree
  <2>2. \A c \in Cpus : \A n \in sorted[c] :
           n \in ToSet(Shown(c)) \/ \E e \in rb_sort : ~IsMessage(e) /\ e.cpu = c /\ e.seq = n
    BY Zenon DEF LiveInv, ShownOrInTree
  <2>3. ASSUME NEW x \in rb_sort', ~IsMessage(x)
        PROVE  x.seq \in sorted'[x.cpu] /\ x.seq \notin ToSet(Shown(x.cpu))
    <3>1. CASE x \in rb_sort
      BY <1>9, <1>14, <2>3, <3>1
    <3>2. CASE x \in kept
      <4>1. x.cpu \in Cpus /\ x.seq \in Nat /\ x.seq \in Numbers(x.cpu, kept)
        BY <1>5, <1>6, <2>3, <3>2, Zenon
      <4>2. x.seq \notin sorted[x.cpu]
        <5>1. \A n \in Nat : ~(n < n)
          OBVIOUS
        <5> QED
          BY <1>7, <2>3, <3>2, <4>1, <5>1, Zenon
      <4> QED
        BY <1>9, <2>1, <4>1, <4>2
    <3> QED
      BY <1>1, <3>1, <3>2
  <2>4. ASSUME NEW c \in Cpus, NEW n \in sorted'[c]
        PROVE  n \in ToSet(Shown(c)) \/ \E e \in rb_sort' : ~IsMessage(e) /\ e.cpu = c /\ e.seq = n
    <3>1. n \in sorted[c] \/ n \in Numbers(c, kept)
      BY <1>9
    <3>2. rb_sort \subseteq rb_sort' /\ kept \subseteq rb_sort'
      BY <1>1
    <3>3. CASE n \in sorted[c]
      BY <2>2, <3>2, <3>3
    <3>4. CASE n \in Numbers(c, kept)
      <4>1. PICK k \in kept : k.cpu = c /\ ~IsMessage(k) /\ k.seq = n
        BY <1>6, <3>4
      <4> QED
        BY <3>2, <4>1
    <3> QED
      BY <3>1, <3>3, <3>4
  <2>5. \A c \in Cpus : ToSet(Shown(c)) \subseteq sorted'[c] /\ IsInjective(Shown(c))
    BY <1>9, <2>1
  <2> QED
    BY <1>12, <1>13, <2>3, <2>4, <2>5, Zenon DEF ShownOrInTree
<1> QED
  <2>1. \A c \in Cpus : flushed'[c] = <<>>
    BY <1>1 DEF LiveInv
  <2> QED
    BY <1>1, <1>10, <1>11, <1>12, <1>15, <1>16, <2>1 DEF LiveInv

\* Each step of do_pipe keeps the invariant.
LEMMA LiveStep ==
    ASSUME LiveInv, LiveNext
    PROVE  LiveInv'
<1>1. CASE EndBatch \/ EndShow \/ EndFlush
  BY <1>1, EndStep
<1>2. CASE SortEntries
  BY <1>2, SortStep
<1>3. CASE ShowLive
  BY <1>3, ShowLiveStep
<1>4. CASE Flush
  BY <1>4, FlushStep
<1>5. ASSUME NEW c \in PipeCpus, ReadEvent(c) PROVE LiveInv'
  BY <1>5, ReadStep
<1> QED
  BY <1>1, <1>2, <1>3, <1>4, <1>5, Zenon DEF LiveNext

\* The numbers in the first i ranges.
FirstRanges(s, i) == UNION {s[k].start .. s[k].end : k \in 1 .. i}

\* One range more: it is behind the others.
LEMMA NextRange ==
    ASSUME NEW s \in Seq(SkipRange),
           \A i \in 1 .. Len(s) : s[i].start <= s[i].end,
           \A i, j \in 1 .. Len(s) : i < j => s[i].end < s[j].start,
           NEW i \in 1 .. Len(s), IsFiniteSet(FirstRanges(s, i - 1))
    PROVE  /\ IsFiniteSet(FirstRanges(s, i))
           /\ Cardinality(FirstRanges(s, i))
                = Cardinality(FirstRanges(s, i - 1)) + (s[i].end - s[i].start + 1)
<1>1. PICK a \in Int, b \in Int : a = s[i].start /\ b = s[i].end /\ a <= b
  <2>1. s[i] \in SkipRange
    BY ElementOfSeq
  <2> QED
    BY <2>1 DEF SkipRange
<1>2. PICK n \in Nat : n = Len(s)
  BY LenProperties
<1>3. FirstRanges(s, i) = FirstRanges(s, i - 1) \cup (a .. b)
  <2>1. \A k : k \in 1 .. i <=> k \in 1 .. i - 1 \/ k = i
    BY <1>2
  <2>2. ASSUME NEW x
        PROVE  x \in FirstRanges(s, i) <=> x \in FirstRanges(s, i - 1) \/ x \in a .. b
    <3>1. /\ x \in FirstRanges(s, i) <=> \E k \in 1 .. i : x \in s[k].start .. s[k].end
          /\ x \in FirstRanges(s, i - 1) <=> \E k \in 1 .. i - 1 : x \in s[k].start .. s[k].end
      BY DEF FirstRanges
    <3> QED
      BY <1>1, <2>1, <3>1, Zenon
  <2> QED
    BY <2>2
<1>4. FirstRanges(s, i - 1) \cap (a .. b) = {}
  <2> SUFFICES ASSUME NEW x \in FirstRanges(s, i - 1), x \in a .. b
               PROVE  FALSE
    OBVIOUS
  <2>1. PICK k \in 1 .. i - 1 : x \in s[k].start .. s[k].end
    BY DEF FirstRanges
  <2>2. k \in 1 .. Len(s) /\ k < i
    BY <1>2
  <2>3. s[k] \in SkipRange
    BY <2>2, ElementOfSeq
  <2>4. PICK y \in Int : y = s[k].end
    BY <2>3 DEF SkipRange
  <2>5. y < a
    BY <1>1, <2>2, <2>4, Zenon
  <2>6. x <= y /\ x \in Int
    BY <2>1, <2>3, <2>4 DEF SkipRange
  <2> QED
    BY <2>5, <2>6
<1>5. IsFiniteSet(a .. b) /\ Cardinality(a .. b) = b - a + 1
  <2>1. IsFiniteSet(a .. b) /\ Cardinality(a .. b) = IF a > b THEN 0 ELSE b - a + 1
    BY FS_Interval, Zenon
  <2>2. ~(a > b)
    BY <1>1
  <2> QED
    BY <2>1, <2>2, Zenon
<1>6. /\ IsFiniteSet(FirstRanges(s, i - 1) \cup (a .. b))
      /\ Cardinality(FirstRanges(s, i - 1) \cup (a .. b))
           = Cardinality(FirstRanges(s, i - 1)) + Cardinality(a .. b) - Cardinality({})
  <2> DEFINE A == FirstRanges(s, i - 1)
             B == a .. b
  <2>1. \A S, T : IsFiniteSet(S) /\ IsFiniteSet(T) =>
           /\ IsFiniteSet(S \cup T)
           /\ Cardinality(S \cup T) = Cardinality(S) + Cardinality(T) - Cardinality(S \cap T)
    BY FS_Union, Zenon
  <2>2. IsFiniteSet(A) /\ IsFiniteSet(B) /\ A \cap B = {}
    BY <1>4, <1>5
  <2>3. /\ IsFiniteSet(A \cup B)
        /\ Cardinality(A \cup B) = Cardinality(A) + Cardinality(B) - Cardinality(A \cap B)
    <3> HIDE DEF A, B
    <3> QED
      BY <2>1, <2>2, Zenon
  <2> QED
    BY <2>2, <2>3, Zenon
<1>7. PICK m \in Nat : m = Cardinality(FirstRanges(s, i - 1))
  BY FS_CardinalityType
<1>8. m + (b - a + 1) - 0 = m + (b - a + 1)
  BY <1>1
<1> QED
  BY <1>1, <1>3, <1>5, <1>6, <1>7, <1>8, FS_EmptySet, Zenon

\* collect_pdi_skips: the sum of the lengths of rising ranges is how many
\* numbers they hold.
LEMMA SkipsCounted ==
    ASSUME NEW s \in Seq(SkipRange),
           \A i \in 1 .. Len(s) : s[i].start <= s[i].end,
           \A i, j \in 1 .. Len(s) : i < j => s[i].end < s[j].start
    PROVE  SeqSkips(s) = Cardinality(InRanges(s))
<1>1. PICK n \in Nat : n = Len(s) /\ DOMAIN s = 1 .. n
  BY LenProperties
<1> DEFINE first == [i \in 0 .. n |-> Cardinality(FirstRanges(s, i))]
<1>2. FirstRanges(s, 0) = {} /\ FirstRanges(s, n) = InRanges(s)
  BY <1>1 DEF FirstRanges, InRanges
<1>3. \A i \in 0 .. n : IsFiniteSet(FirstRanges(s, i))
  <2> DEFINE S == {i \in 0 .. n : IsFiniteSet(FirstRanges(s, i))}
  <2>1. 0 \in S
    BY <1>2, FS_EmptySet
  <2>2. ASSUME NEW k \in 0 .. n - 1, k \in S PROVE k + 1 \in S
    <3>1. PICK i \in 1 .. n : i = k + 1 /\ i - 1 = k
      BY <2>2
    <3>2. IsFiniteSet(FirstRanges(s, i))
      BY <1>1, <2>2, <3>1, NextRange
    <3> QED
      BY <3>1, <3>2
  <2> HIDE DEF S
  <2>3. \A i \in 0 .. n : i \in S
    BY <2>1, <2>2, UpTo
  <2> QED
    BY <2>3 DEF S
<1>4. \A i \in 1 .. n : Cardinality(FirstRanges(s, i))
                          = Cardinality(FirstRanges(s, i - 1)) + (s[i].end - s[i].start + 1)
  <2> SUFFICES ASSUME NEW i \in 1 .. n
               PROVE  Cardinality(FirstRanges(s, i))
                        = Cardinality(FirstRanges(s, i - 1)) + (s[i].end - s[i].start + 1)
    OBVIOUS
  <2>1. i - 1 \in 0 .. n
    OBVIOUS
  <2>2. IsFiniteSet(FirstRanges(s, i - 1)) /\ i \in 1 .. Len(s)
    BY <1>1, <1>3, <2>1, Zenon
  <2> QED
    BY <2>2, NextRange, Zenon
<1> DEFINE sum(f) == [i \in 0 .. n |-> IF i = 0 THEN 0
                                       ELSE f[i - 1] + (s[i].end - s[i].start + 1)]
<1>5. first = sum(first)
  <2>1. \A i \in 0 .. n : i # 0 => i \in 1 .. n /\ i - 1 \in 0 .. n
    OBVIOUS
  <2>2. first[0] = 0
    <3>1. Cardinality(FirstRanges(s, 0)) = 0
      BY <1>2, FS_EmptySet, Zenon
    <3>2. 0 \in 0 .. n
      OBVIOUS
    <3> QED
      BY <3>1, <3>2
  <2>3. \A i \in 0 .. n : first[i] = IF i = 0 THEN 0
                                     ELSE first[i - 1] + (s[i].end - s[i].start + 1)
    BY <1>4, <2>1, <2>2
  <2>4. first = [i \in 0 .. n |-> first[i]]
    OBVIOUS
  <2> HIDE DEF first
  <2> QED
    BY <2>3, <2>4
<1> DEFINE f == CHOOSE g : g = sum(g)
<1>6. f = sum(f)
  <2> HIDE DEF sum, first
  <2> QED
    BY <1>5
<1>7. SeqSkips(s) = f[n]
  BY <1>1 DEF SeqSkips
<1> HIDE DEF f
<1>8. \A i \in 0 .. n : f[i] = first[i]
  <2> DEFINE S == {i \in 0 .. n : f[i] = first[i]}
  <2>1. 0 \in S
    <3>1. 0 \in 0 .. n
      OBVIOUS
    <3> QED
      BY <1>5, <1>6, <3>1
  <2>2. ASSUME NEW k \in 0 .. n - 1, k \in S PROVE k + 1 \in S
    <3>1. PICK i \in 0 .. n : i = k + 1 /\ i # 0 /\ i - 1 = k
      BY <2>2
    <3>2. f[k] = first[k]
      BY <2>2
    <3> HIDE DEF first
    <3>3. f[i] = f[k] + (s[i].end - s[i].start + 1)
      BY <1>6, <3>1
    <3>4. first[i] = first[k] + (s[i].end - s[i].start + 1)
      BY <1>5, <3>1
    <3> QED
      BY <3>1, <3>2, <3>3, <3>4
  <2> HIDE DEF S
  <2>3. \A i \in 0 .. n : i \in S
    BY <2>1, <2>2, UpTo
  <2> QED
    BY <2>3 DEF S
<1>9. f[n] = Cardinality(FirstRanges(s, n))
  <2>1. n \in 0 .. n
    OBVIOUS
  <2> QED
    BY <1>8, <2>1
<1> QED
  BY <1>2, <1>7, <1>9, Zenon

\* What the invariant gives.
LEMMA LiveGives ==
    ASSUME LiveInv
    PROVE  LiveIsGapless /\ LiveShowsAll /\ SkipsAreLosses
<1>1. LiveIsGapless
  BY DEF LiveInv
<1>2. LiveShowsAll
  <2> SUFFICES ASSUME lpc = "end", NEW c \in Cpus
               PROVE  ToSet(Shown(c)) = sorted[c] /\ IsInjective(Shown(c)) /\ rb_sort = {}
    BY Zenon DEF LiveShowsAll, LiveInv
  <2>1. rb_sort = {}
    BY DEF LiveInv
  <2>2. \A n \in sorted[c] :
           n \in ToSet(Shown(c)) \/ \E e \in rb_sort : ~IsMessage(e) /\ e.cpu = c /\ e.seq = n
    BY Zenon DEF LiveInv, ShownOrInTree
  <2>3. ToSet(Shown(c)) \subseteq sorted[c] /\ IsInjective(Shown(c))
    BY Zenon DEF LiveInv, ShownOrInTree
  <2> QED
    BY <2>1, <2>2, <2>3
<1>3. SkipsAreLosses
  <2> SUFFICES ASSUME NEW c \in Cpus, Shown(c) # <<>>, IsRising(Shown(c))
               PROVE  /\ Skipped(c) = Missing(Shown(c))
                      /\ SeqSkips(skips[c]) = Cardinality(Missing(Shown(c)))
    BY Zenon DEF SkipsAreLosses
  <2>1. SkipsRise(skips[c], Shown(c)) /\ InRanges(skips[c]) = Missing(Shown(c))
    BY Zenon DEF LiveInv, SkipsFit
  <2>2. Skipped(c) = InRanges(skips[c])
    BY Zenon DEF Skipped, InRanges
  <2>3. skips[c] \in Seq(SkipRange)
    BY DEF LiveInv, LiveTypes
  <2>4. SeqSkips(skips[c]) = Cardinality(InRanges(skips[c]))
    BY <2>1, <2>3, SkipsCounted DEF SkipsRise
  <2> QED
    BY <2>1, <2>2, <2>4
<1> QED
  BY <1>1, <1>2, <1>3

-----------------------------------------------------------------------------
(* blkparse on files. *)

MergeTypes ==
    /\ mpc \in {"setup", "prime", "merge", "end"}
    /\ cur \in Nat /\ ndone \in Nat
    /\ fd_open \in [Cpus -> BOOLEAN] /\ gave_up \in [Cpus -> BOOLEAN]
    /\ last_time \in [Cpus -> Nat \ {0}]
    /\ queue \in [Cpus -> Seq(Times)]
    /\ ms_head \in Seq(Cpus)
    /\ queued \in [Cpus -> Nat] /\ nout \in [Cpus -> Nat]
    /\ line_time \in Nat
    /\ genesis_time \in Nat

\* The streams are in the order of their files.
StreamsRise ==
    \A c \in Cpus :
        /\ \A i \in 1 .. Len(queue[c]) : queue[c][i] <= last_time[c]
        /\ \A i, j \in 1 .. Len(queue[c]) : i < j => queue[c][i] <= queue[c][j]

\* A list of streams that have traces, each once, in the order of their first.
Ordered(q, list) ==
    /\ \A j \in 1 .. Len(list) : q[list[j]] # <<>>
    /\ \A j, k \in 1 .. Len(list) : j < k =>
          list[j] # list[k] /\ ms_peek_time(q, list[j]) <= ms_peek_time(q, list[k])

\* ms_deq primes the stream at the head of the list; the others are in order.
Refilling == mpc = "prime" /\ ~SettingUp

ListInOrder ==
    /\ ~Refilling => Ordered(queue, ms_head)
    /\ Refilling => /\ ms_head # <<>> /\ ms_head[1] = cur
                    /\ \A k \in 2 .. Len(ms_head) : ms_head[k] # cur
                    /\ Ordered(queue, Tail(ms_head))

\* While the files are set up, those that follow have not been opened.
FilesFollow ==
    mpc = "setup" \/ (mpc = "prime" /\ SettingUp) =>
        /\ \A k \in 1 .. Len(ms_head) : ms_head[k] < cur
        /\ \A c \in Cpus : c > cur \/ (c = cur /\ mpc = "setup") => ~fd_open[c]

\* A stream that is not in the list has nothing, and neither has its file.
LeftBehind ==
    \A c \in Cpus : c \notin ToSet(ms_head) /\ ~(mpc = "prime" /\ c = cur) =>
        queue[c] = <<>> /\ (fd_open[c] => gave_up[c])

\* Nothing that is still to come is earlier than the last line.
NotEarlier ==
    genesis_time # 0 =>
        \A c \in ToSet(ms_head) :
            /\ genesis_time + line_time <= last_time[c]
            /\ \A i \in 1 .. Len(queue[c]) : genesis_time + line_time <= queue[c][i]

MergeInv ==
    /\ MergeTypes
    /\ StreamsRise
    /\ ListInOrder
    /\ FilesFollow
    /\ LeftBehind
    /\ NotEarlier
    /\ \A c \in Cpus : nout[c] + Len(queue[c]) = queued[c]
    /\ mpc = "prime" => cur \in Cpus /\ Len(queue[cur]) = ndone
    /\ mpc = "setup" => genesis_time = 0
    /\ mpc = "merge" /\ ms_head # <<>> => genesis_time # 0
    /\ genesis_time = 0 => line_time = 0
    /\ nr = 0

\* A stream that has traces has a first one.
LEMMA PeekIsTime ==
    ASSUME NEW q \in [Cpus -> Seq(Times)], NEW c \in Cpus, q[c] # <<>>
    PROVE  ms_peek_time(q, c) = q[c][1] /\ ms_peek_time(q, c) \in Times /\ ms_peek_time(q, c) \in Nat
<1>1. q[c] \in Seq(Times)
  OBVIOUS
<1>2. Head(q[c]) \in Times /\ Head(q[c]) = q[c][1]
  BY <1>1, HeadTailProperties
<1> QED
  BY <1>2 DEF ms_peek_time, Times

\* A list with one more stream in it.
LEMMA Inserted ==
    ASSUME NEW list \in Seq(Cpus), NEW c \in Cpus, NEW i \in 1 .. Len(list) + 1
    PROVE  /\ InsertAt(list, i, c) \in Seq(Cpus)
           /\ Len(InsertAt(list, i, c)) = Len(list) + 1
           /\ InsertAt(list, i, c)[i] = c
           /\ \A k \in 1 .. Len(list) : IF k < i THEN InsertAt(list, i, c)[k] = list[k]
                                        ELSE InsertAt(list, i, c)[k + 1] = list[k]
<1>1. PICK n \in Nat : n = Len(list)
  BY LenProperties
<1> DEFINE a == SubSeq(list, 1, i - 1)
           b == SubSeq(list, i, n)
           ab == a \o <<c>>
<1>2. /\ a \in Seq(Cpus) /\ Len(a) = i - 1
      /\ \A k \in 1 .. i - 1 : a[k] = list[k]
  BY <1>1
<1>3. /\ b \in Seq(Cpus) /\ Len(b) = n - i + 1
      /\ \A k \in 1 .. n - i + 1 : b[k] = list[i + k - 1]
  BY <1>1
<1> HIDE DEF a, b
<1>4. /\ ab \in Seq(Cpus) /\ Len(ab) = i
      /\ \A k \in 1 .. i - 1 : ab[k] = list[k]
      /\ ab[i] = c
  BY <1>2
<1> HIDE DEF ab
<1>5. /\ ab \o b \in Seq(Cpus) /\ Len(ab \o b) = n + 1
      /\ \A k \in 1 .. n + 1 : (ab \o b)[k] = IF k <= i THEN ab[k] ELSE b[k - i]
  <2>1. /\ ab \o b \in Seq(Cpus) /\ Len(ab \o b) = Len(ab) + Len(b)
        /\ \A k \in 1 .. Len(ab) + Len(b) : (ab \o b)[k] = IF k <= Len(ab) THEN ab[k] ELSE b[k - Len(ab)]
    BY <1>3, <1>4, ConcatProperties
  <2>2. i + (n - i + 1) = n + 1
    BY <1>1
  <2> QED
    BY <1>3, <1>4, <2>1, <2>2
<1>6. InsertAt(list, i, c) = ab \o b
  BY <1>1 DEF InsertAt, a, b, ab
<1>7. ASSUME NEW k \in 1 .. n
      PROVE  IF k < i THEN (ab \o b)[k] = list[k] ELSE (ab \o b)[k + 1] = list[k]
  <2>1. CASE k < i
    BY <1>1, <1>4, <1>5, <2>1
  <2>2. CASE ~(k < i)
    <3>1. k + 1 \in 1 .. n + 1 /\ ~(k + 1 <= i) /\ k + 1 - i \in 1 .. n - i + 1
          /\ i + (k + 1 - i) - 1 = k
      BY <1>1, <2>2
    <3>2. (ab \o b)[k + 1] = b[k + 1 - i]
      BY <1>5, <3>1
    <3>3. b[k + 1 - i] = list[k]
      BY <1>3, <3>1
    <3> QED
      BY <2>2, <3>2, <3>3
  <2> QED
    BY <2>1, <2>2
<1>8. (ab \o b)[i] = c
  BY <1>1, <1>4, <1>5
<1> QED
  BY <1>1, <1>5, <1>6, <1>7, <1>8

\* A stream that is put behind those before it and before those after it.
LEMMA PlacedInOrder ==
    ASSUME NEW q, NEW list \in Seq(Cpus), Ordered(q, list),
           NEW c \in Cpus, c \notin ToSet(list), q[c] # <<>>,
           NEW i \in 1 .. Len(list) + 1,
           \A k \in 1 .. Len(list) :
              IF k < i THEN ms_peek_time(q, list[k]) <= ms_peek_time(q, c)
              ELSE ms_peek_time(q, c) <= ms_peek_time(q, list[k]),
           NEW r, r = InsertAt(list, i, c)
    PROVE  r \in Seq(Cpus) /\ r # <<>> /\ Ordered(q, r) /\ ToSet(r) = ToSet(list) \cup {c}
<1>1. PICK n \in Nat : n = Len(list) /\ DOMAIN list = 1 .. n
  BY LenProperties
<1>2. /\ r \in Seq(Cpus) /\ Len(r) = n + 1 /\ r[i] = c
      /\ \A k \in 1 .. n : IF k < i THEN r[k] = list[k] ELSE r[k + 1] = list[k]
      /\ i \in 1 .. n + 1
  <2>1. /\ InsertAt(list, i, c) \in Seq(Cpus)
        /\ Len(InsertAt(list, i, c)) = Len(list) + 1
        /\ InsertAt(list, i, c)[i] = c
        /\ \A k \in 1 .. Len(list) : IF k < i THEN InsertAt(list, i, c)[k] = list[k]
                                     ELSE InsertAt(list, i, c)[k + 1] = list[k]
    BY Inserted
  <2> QED
    BY <1>1, <2>1, Zenon
<1>3. DOMAIN r = 1 .. n + 1
  BY <1>2, LenProperties
<1>4. \A k \in 1 .. n : list[k] # c
  BY <1>1 DEF ToSet
<1>5. \A j \in 1 .. n + 1 : j # i => \E k \in 1 .. n : r[j] = list[k] /\ j = (IF k < i THEN k ELSE k + 1)
  <2> SUFFICES ASSUME NEW j \in 1 .. n + 1, j # i
               PROVE  \E k \in 1 .. n : r[j] = list[k] /\ j = (IF k < i THEN k ELSE k + 1)
    OBVIOUS
  <2>1. CASE j < i
    <3>1. j \in 1 .. n
      BY <1>2, <2>1
    <3> QED
      BY <1>2, <2>1, <3>1
  <2>2. CASE j > i
    <3>1. PICK k \in 1 .. n : k + 1 = j /\ ~(k < i)
      <4>1. j - 1 \in 1 .. n /\ j - 1 + 1 = j /\ ~(j - 1 < i)
        BY <1>2, <2>2
      <4> QED
        BY <4>1
    <3> QED
      BY <1>2, <3>1
  <2> QED
    BY <1>2, <2>1, <2>2
<1>6. ASSUME NEW j \in 1 .. n + 1
      PROVE  q[r[j]] # <<>>
  <2>1. \A k \in 1 .. n : q[list[k]] # <<>>
    BY <1>1 DEF Ordered
  <2>2. CASE j = i
    BY <1>2, <2>2
  <2>3. CASE j # i
    <3>1. PICK k \in 1 .. n : r[j] = list[k]
      BY <1>5, <2>3
    <3> QED
      BY <2>1, <3>1
  <2> QED
    BY <2>2, <2>3
<1>7. ASSUME NEW j \in 1 .. n + 1, NEW k \in 1 .. n + 1, j < k
      PROVE  r[j] # r[k] /\ ms_peek_time(q, r[j]) <= ms_peek_time(q, r[k])
  <2>1. CASE j = i
    <3>1. PICK m \in 1 .. n : r[k] = list[m] /\ k = (IF m < i THEN m ELSE m + 1)
      BY <1>5, <1>7, <2>1
    <3>2. ~(m < i)
      BY <1>7, <2>1, <3>1
    <3> QED
      BY <1>1, <1>2, <1>4, <2>1, <3>1, <3>2, Zenon
  <2>2. CASE k = i
    <3>1. PICK m \in 1 .. n : r[j] = list[m] /\ j = (IF m < i THEN m ELSE m + 1)
      BY <1>5, <1>7, <2>2
    <3>2. m < i
      BY <1>7, <2>2, <3>1
    <3> QED
      BY <1>1, <1>2, <1>4, <2>2, <3>1, <3>2, Zenon
  <2>3. CASE j # i /\ k # i
    <3>1. PICK l \in 1 .. n : r[j] = list[l] /\ j = (IF l < i THEN l ELSE l + 1)
      BY <1>5, <2>3
    <3>2. PICK m \in 1 .. n : r[k] = list[m] /\ k = (IF m < i THEN m ELSE m + 1)
      BY <1>5, <2>3
    <3>3. l < m
      BY <1>7, <3>1, <3>2
    <3> QED
      BY <1>1, <3>1, <3>2, <3>3 DEF Ordered
  <2> QED
    BY <2>1, <2>2, <2>3
<1>8. ToSet(r) = ToSet(list) \cup {c}
  <2>1. ASSUME NEW x
        PROVE  x \in ToSet(r) <=> x \in ToSet(list) \/ x = c
    <3>1. x \in ToSet(r) <=> \E j \in 1 .. n + 1 : r[j] = x
      BY <1>3 DEF ToSet
    <3>2. x \in ToSet(list) <=> \E k \in 1 .. n : list[k] = x
      BY <1>1 DEF ToSet
    <3>3. ASSUME NEW k \in 1 .. n PROVE \E j \in 1 .. n + 1 : r[j] = list[k]
      <4>1. k \in 1 .. n + 1 /\ k + 1 \in 1 .. n + 1
        OBVIOUS
      <4> QED
        BY <1>2, <4>1
    <3>4. ASSUME NEW j \in 1 .. n + 1 PROVE r[j] = c \/ \E k \in 1 .. n : list[k] = r[j]
      BY <1>2, <1>5
    <3>5. x \in ToSet(r) => x \in ToSet(list) \/ x = c
      BY <3>1, <3>2, <3>4
    <3>6. x \in ToSet(list) => x \in ToSet(r)
      BY <3>1, <3>2, <3>3
    <3>7. x = c => x \in ToSet(r)
      BY <1>2, <3>1
    <3> QED
      BY <3>5, <3>6, <3>7
  <2> QED
    BY <2>1
<1>9. r # <<>>
  BY <1>2
<1> QED
  BY <1>2, <1>6, <1>7, <1>8, <1>9 DEF Ordered

\* ms_sort keeps the list in order.
LEMMA SortedIn ==
    ASSUME NEW q \in [Cpus -> Seq(Times)], NEW list \in Seq(Cpus), Ordered(q, list),
           NEW c \in Cpus, c \notin ToSet(list), q[c] # <<>>
    PROVE  /\ ms_sort(q, list, c) \in Seq(Cpus) /\ ms_sort(q, list, c) # <<>>
           /\ Ordered(q, ms_sort(q, list, c))
           /\ ToSet(ms_sort(q, list, c)) = ToSet(list) \cup {c}
<1>1. PICK n \in Nat : n = Len(list) /\ DOMAIN list = 1 .. n
  BY LenProperties
<1>2. PICK t \in Nat : t = ms_peek_time(q, c)
  BY PeekIsTime
<1>3. \A k \in 1 .. n : ms_peek_time(q, list[k]) \in Nat
  <2>1. \A k \in 1 .. n : list[k] \in Cpus /\ q[list[k]] # <<>>
    BY <1>1, ElementOfSeq DEF Ordered
  <2> QED
    BY <2>1, PeekIsTime
<1>4. \A j, k \in 1 .. n : j < k => ms_peek_time(q, list[j]) <= ms_peek_time(q, list[k])
  BY <1>1 DEF Ordered
<1>5. ASSUME NEW i \in 1 .. n + 1, ms_sort(q, list, c) = InsertAt(list, i, c),
             \A k \in 1 .. n : IF k < i THEN ms_peek_time(q, list[k]) <= t
                               ELSE t <= ms_peek_time(q, list[k])
      PROVE  /\ ms_sort(q, list, c) \in Seq(Cpus) /\ ms_sort(q, list, c) # <<>>
             /\ Ordered(q, ms_sort(q, list, c))
             /\ ToSet(ms_sort(q, list, c)) = ToSet(list) \cup {c}
  <2>1. i \in 1 .. Len(list) + 1
    BY <1>1
  <2>2. \A k \in 1 .. Len(list) :
              IF k < i THEN ms_peek_time(q, list[k]) <= ms_peek_time(q, c)
              ELSE ms_peek_time(q, c) <= ms_peek_time(q, list[k])
    BY <1>1, <1>2, <1>5, Zenon
  <2> QED
    BY <1>5, <2>1, <2>2, PlacedInOrder
<1>6. CASE list = <<>> \/ t < ms_peek_time(q, Head(list))
  <2>1. ms_sort(q, list, c) = <<c>> \o list
    BY <1>2, <1>6 DEF ms_sort
  <2>2. InsertAt(list, 1, c) = <<c>> \o list
    <3>1. SubSeq(list, 1, 1 - 1) = <<>> /\ SubSeq(list, 1, Len(list)) = list
      BY <1>1
    <3>2. <<>> \o <<c>> = <<c>>
      OBVIOUS
    <3> QED
      BY <3>1, <3>2 DEF InsertAt
  <2>3. ASSUME NEW k \in 1 .. n
        PROVE  t <= ms_peek_time(q, list[k])
    <3>1. list # <<>> /\ 1 \in 1 .. n /\ Head(list) = list[1]
      BY <1>1, <2>3, EmptySeq, HeadTailProperties
    <3>2. PICK a \in Nat, b \in Nat : a = ms_peek_time(q, list[1]) /\ b = ms_peek_time(q, list[k])
      BY <1>3, <2>3, <3>1
    <3>3. t < a
      BY <1>6, <3>1, <3>2
    <3>4. a <= b
      <4>1. CASE k = 1
        BY <3>2, <4>1
      <4>2. CASE k # 1
        <5>1. 1 < k
          BY <4>2
        <5> QED
          BY <1>4, <3>1, <3>2, <5>1
      <4> QED
        BY <4>1, <4>2
    <3>5. t <= b
      BY <3>3, <3>4
    <3> QED
      BY <3>2, <3>5
  <2>4. 1 \in 1 .. n + 1 /\ \A k \in 1 .. n : ~(k < 1)
    OBVIOUS
  <2> QED
    BY <1>5, <2>1, <2>2, <2>3, <2>4
<1>7. CASE list # <<>> /\ ~(t < ms_peek_time(q, Head(list)))
  <2> DEFINE later == {k \in 2 .. Len(list) : ms_peek_time(q, list[k]) >= t}
  <2>1. 1 \in 1 .. n /\ Head(list) = list[1] /\ n > 0
    BY <1>1, <1>7, EmptySeq, HeadTailProperties
  <2>2. PICK i \in later \cup {n + 1} : \A k \in later \cup {n + 1} : i <= k
    <3>1. later \cup {n + 1} \in SUBSET Nat /\ later \cup {n + 1} # {}
      BY <1>1
    <3> HIDE DEF later
    <3> QED
      BY <3>1, LeastNat
  <2>3. Min(later \cup {n + 1}) = i
    <3>1. \A j \in later \cup {n + 1} : (\A k \in later \cup {n + 1} : j <= k) => j = i
      <4>1. \A j \in later \cup {n + 1} : j \in Int
        BY <1>1
      <4> HIDE DEF later
      <4> QED
        BY <2>2, <4>1
    <3> HIDE DEF later
    <3> QED
      BY <2>2, <3>1 DEF Min
  <2>4. ms_sort(q, list, c) = InsertAt(list, i, c)
    BY <1>1, <1>2, <1>7, <2>3 DEF ms_sort
  <2>5. i \in 2 .. n + 1
    BY <1>1, <2>1
  <2>6. ASSUME NEW k \in 1 .. n
        PROVE  IF k < i THEN ms_peek_time(q, list[k]) <= t ELSE t <= ms_peek_time(q, list[k])
    <3>1. PICK b \in Nat : b = ms_peek_time(q, list[k])
      BY <1>3
    <3>2. CASE k < i
      <4>1. CASE k = 1
        BY <1>3, <1>7, <2>1, <3>2, <4>1
      <4>2. CASE k # 1
        <5>1. k \notin later
          <6>1. \A j \in later \cup {n + 1} : j \in Int
            BY <1>1
          <6> HIDE DEF later
          <6> QED
            BY <2>2, <3>2, <6>1
        <5>2. ~(b >= t)
          BY <1>1, <3>1, <4>2, <5>1
        <5>3. b <= t
          BY <5>2
        <5> QED
          BY <3>1, <3>2, <5>3
      <4> QED
        BY <4>1, <4>2
    <3>3. CASE ~(k < i)
      <4>1. i \in later /\ i \in 1 .. n
        BY <1>1, <2>5, <3>3
      <4>2. PICK a \in Nat : a = ms_peek_time(q, list[i])
        BY <1>3, <4>1
      <4>3. t <= a
        BY <4>1, <4>2
      <4>4. a <= b
        <5>1. CASE k = i
          BY <3>1, <4>2, <5>1
        <5>2. CASE k # i
          <6>1. i < k
            BY <2>5, <3>3, <5>2
          <6> QED
            BY <1>4, <3>1, <4>1, <4>2, <6>1
        <5> QED
          BY <5>1, <5>2
      <4>5. t <= b
        BY <4>3, <4>4
      <4> QED
        BY <3>1, <3>3, <4>5
    <3> QED
      BY <3>2, <3>3
  <2>7. i \in 1 .. n + 1
    BY <2>5
  <2> HIDE DEF later
  <2> QED
    BY <1>5, <2>4, <2>6, <2>7
<1> QED
  BY <1>6, <1>7

\* ms_resort puts the head where it belongs.
LEMMA Resorted ==
    ASSUME NEW q \in [Cpus -> Seq(Times)], NEW list \in Seq(Cpus), list # <<>>,
           q[list[1]] # <<>>, \A k \in 2 .. Len(list) : list[k] # list[1],
           Ordered(q, Tail(list))
    PROVE  /\ ms_resort(q, list) \in Seq(Cpus) /\ ms_resort(q, list) # <<>>
           /\ Ordered(q, ms_resort(q, list))
           /\ ToSet(ms_resort(q, list)) = ToSet(list)
<1>1. PICK n \in Nat : n = Len(list) /\ DOMAIN list = 1 .. n /\ n > 0
  BY LenProperties, EmptySeq
<1>2. /\ Tail(list) \in Seq(Cpus) /\ Len(Tail(list)) = n - 1
      /\ \A k \in 1 .. n - 1 : Tail(list)[k] = list[k + 1]
  BY <1>1, HeadTailProperties
<1>3. DOMAIN Tail(list) = 1 .. n - 1
  BY <1>2, LenProperties
<1>4. \A k \in 2 .. n : k - 1 \in 1 .. n - 1 /\ Tail(list)[k - 1] = list[k]
  BY <1>1, <1>2
<1>5. \A k \in 1 .. n : k = 1 \/ k \in 2 .. n
  OBVIOUS
<1>6. list[1] \in Cpus
  BY <1>1, ElementOfSeq
<1>7. ToSet(list) = ToSet(Tail(list)) \cup {list[1]}
  <2>1. ASSUME NEW x
        PROVE  x \in ToSet(list) <=> x \in ToSet(Tail(list)) \/ x = list[1]
    <3>1. x \in ToSet(list) <=> \E k \in 1 .. n : list[k] = x
      BY <1>1 DEF ToSet
    <3>2. x \in ToSet(Tail(list)) <=> \E k \in 1 .. n - 1 : Tail(list)[k] = x
      BY <1>3 DEF ToSet
    <3>3. x \in ToSet(list) => x \in ToSet(Tail(list)) \/ x = list[1]
      BY <1>4, <1>5, <3>1, <3>2
    <3>4. 1 \in 1 .. n /\ \A k \in 1 .. n - 1 : k + 1 \in 1 .. n
      BY <1>1
    <3>5. x \in ToSet(Tail(list)) => x \in ToSet(list)
      BY <1>2, <3>1, <3>2, <3>4
    <3>6. x = list[1] => x \in ToSet(list)
      BY <3>1, <3>4
    <3> QED
      BY <3>3, <3>5, <3>6
  <2> QED
    BY <2>1
<1>8. list[1] \notin ToSet(Tail(list))
  <2>1. \A k \in 1 .. n - 1 : k + 1 \in 2 .. n
    BY <1>1
  <2> QED
    BY <1>1, <1>2, <1>3, <2>1 DEF ToSet
<1>9. CASE Len(list) > 1 /\ ms_peek_time(q, list[1]) > ms_peek_time(q, list[2])
  <2>1. ms_resort(q, list) = ms_sort(q, Tail(list), list[1])
    BY <1>9 DEF ms_resort
  <2>2. \A l \in Seq(Cpus) : \A c \in Cpus :
           Ordered(q, l) /\ c \notin ToSet(l) /\ q[c] # <<>> =>
              /\ ms_sort(q, l, c) \in Seq(Cpus) /\ ms_sort(q, l, c) # <<>>
              /\ Ordered(q, ms_sort(q, l, c))
              /\ ToSet(ms_sort(q, l, c)) = ToSet(l) \cup {c}
    BY SortedIn, ZenonT(60)
  <2> QED
    BY <1>2, <1>6, <1>7, <1>8, <2>1, <2>2, ZenonT(60)
<1>10. CASE ~(Len(list) > 1 /\ ms_peek_time(q, list[1]) > ms_peek_time(q, list[2]))
  <2>1. ms_resort(q, list) = list
    BY <1>10 DEF ms_resort
  <2>2. \A k \in 1 .. n - 1 : Tail(list)[k] \in Cpus /\ q[Tail(list)[k]] # <<>>
    BY <1>2, ElementOfSeq DEF Ordered
  <2>3. \A k \in 1 .. n : list[k] \in Cpus /\ q[list[k]] # <<>>
    BY <1>4, <1>5, <1>6, <2>2
  <2>4. \A k \in 1 .. n : ms_peek_time(q, list[k]) \in Nat
    BY <2>3, PeekIsTime
  <2>5. ASSUME NEW j \in 1 .. n, NEW k \in 1 .. n, j < k
        PROVE  list[j] # list[k] /\ ms_peek_time(q, list[j]) <= ms_peek_time(q, list[k])
    <3>1. k \in 2 .. n
      BY <2>5
    <3>2. ASSUME NEW i \in 2 .. n, NEW l \in 2 .. n, i < l
          PROVE  list[i] # list[l] /\ ms_peek_time(q, list[i]) <= ms_peek_time(q, list[l])
      <4>1. PICK a \in 1 .. n - 1 : a = i - 1 /\ Tail(list)[a] = list[i]
        BY <1>4
      <4>2. PICK b \in 1 .. n - 1 : b = l - 1 /\ Tail(list)[b] = list[l]
        BY <1>4
      <4>3. a < b
        BY <3>2, <4>1, <4>2
      <4>4. \A u, v \in 1 .. n - 1 : u < v =>
               /\ Tail(list)[u] # Tail(list)[v]
               /\ ms_peek_time(q, Tail(list)[u]) <= ms_peek_time(q, Tail(list)[v])
        BY <1>2 DEF Ordered
      <4> QED
        BY <4>1, <4>2, <4>3, <4>4, Zenon
    <3>3. CASE j = 1
      <4>1. PICK x \in Nat, y \in Nat, z \in Nat :
              x = ms_peek_time(q, list[1]) /\ y = ms_peek_time(q, list[2]) /\ z = ms_peek_time(q, list[k])
        <5>1. 1 \in 1 .. n /\ 2 \in 1 .. n
          BY <3>1
        <5> QED
          BY <2>4, <5>1
      <4>2. x <= y
        <5>1. Len(list) > 1
          BY <1>1, <3>1
        <5> QED
          BY <1>10, <4>1, <5>1
      <4>3. y <= z
        <5>1. CASE k = 2
          BY <4>1, <5>1
        <5>2. CASE k # 2
          <6>1. 2 \in 2 .. n /\ 2 < k
            BY <3>1, <5>2
          <6> QED
            BY <3>1, <3>2, <4>1, <6>1
        <5> QED
          BY <5>1, <5>2
      <4>4. x <= z
        BY <4>2, <4>3
      <4>5. list[j] # list[k]
        BY <1>1, <3>1, <3>3
      <4> QED
        BY <3>3, <4>1, <4>4, <4>5
    <3>4. CASE j # 1
      <4>1. j \in 2 .. n
        BY <3>4
      <4> QED
        BY <2>5, <3>1, <3>2, <4>1
    <3> QED
      BY <3>3, <3>4
  <2> QED
    BY <1>1, <2>1, <2>3, <2>5 DEF Ordered
<1> QED
  BY <1>9, <1>10

LEMMA InList ==
    ASSUME NEW list \in Seq(Cpus), NEW c
    PROVE  c \in ToSet(list) <=> \E k \in 1 .. Len(list) : list[k] = c
BY LenProperties DEF ToSet

\* The order of a list is that of its streams only.
LEMMA OrderedSame ==
    ASSUME NEW q, NEW r, NEW list, Ordered(q, list),
           \A k \in 1 .. Len(list) : r[list[k]] = q[list[k]]
    PROVE  Ordered(r, list)
<1>1. \A k \in 1 .. Len(list) : ms_peek_time(r, list[k]) = ms_peek_time(q, list[k])
  BY Zenon DEF ms_peek_time
<1> QED
  BY <1>1, Zenon DEF Ordered

LEMMA OrderedTail ==
    ASSUME NEW q, NEW list \in Seq(Cpus), list # <<>>, Ordered(q, list)
    PROVE  /\ Ordered(q, Tail(list)) /\ Tail(list) \in Seq(Cpus)
           /\ \A k \in 2 .. Len(list) : list[k] # list[1]
           /\ \A k \in 1 .. Len(Tail(list)) : Tail(list)[k] # list[1]
           /\ list[1] \in Cpus /\ q[list[1]] # <<>>
           /\ \A c : c \in ToSet(list) => c = list[1] \/ c \in ToSet(Tail(list))
<1>1. PICK n \in Nat : n = Len(list) /\ DOMAIN list = 1 .. n /\ n > 0
  BY LenProperties, EmptySeq
<1>2. /\ Tail(list) \in Seq(Cpus) /\ Len(Tail(list)) = n - 1
      /\ \A k \in 1 .. n - 1 : Tail(list)[k] = list[k + 1]
  BY <1>1, HeadTailProperties
<1>3. \A k \in 1 .. n - 1 : k + 1 \in 1 .. n /\ k + 1 \in 2 .. n
  BY <1>1
<1>4. \A j, k \in 1 .. n - 1 : j < k => j + 1 < k + 1
  OBVIOUS
<1>5. Ordered(q, Tail(list))
  <2>1. ASSUME NEW j \in 1 .. n - 1
        PROVE  q[Tail(list)[j]] # <<>>
    <3>1. Tail(list)[j] = list[j + 1] /\ j + 1 \in 1 .. n
      BY <1>2, <1>3, <2>1
    <3> QED
      BY <1>1, <3>1, Zenon DEF Ordered
  <2>2. ASSUME NEW j \in 1 .. n - 1, NEW k \in 1 .. n - 1, j < k
        PROVE  /\ Tail(list)[j] # Tail(list)[k]
               /\ ms_peek_time(q, Tail(list)[j]) <= ms_peek_time(q, Tail(list)[k])
    <3>1. /\ Tail(list)[j] = list[j + 1] /\ Tail(list)[k] = list[k + 1]
          /\ j + 1 \in 1 .. n /\ k + 1 \in 1 .. n /\ j + 1 < k + 1
      BY <1>2, <1>3, <1>4, <2>2
    <3> QED
      BY <1>1, <3>1, Zenon DEF Ordered
  <2> QED
    BY <1>2, <2>1, <2>2, Zenon DEF Ordered
<1>6. 1 \in 1 .. n /\ \A k \in 2 .. n : k \in 1 .. n /\ 1 < k
  BY <1>1
<1>7. \A k \in 2 .. n : list[k] # list[1]
  BY <1>1, <1>6, Zenon DEF Ordered
<1>8. list[1] \in Cpus /\ q[list[1]] # <<>>
  BY <1>1, <1>6, ElementOfSeq DEF Ordered
<1>9. ASSUME NEW c \in ToSet(list)
      PROVE  c = list[1] \/ c \in ToSet(Tail(list))
  <2>1. PICK k \in 1 .. n : list[k] = c
    BY <1>1 DEF ToSet
  <2>2. CASE k = 1
    BY <2>1, <2>2
  <2>3. CASE k # 1
    <3>1. k - 1 \in 1 .. n - 1 /\ k - 1 + 1 = k
      BY <2>3
    <3>2. Tail(list)[k - 1] = c
      BY <1>2, <2>1, <3>1
    <3> QED
      BY <1>2, <3>1, <3>2, InList
  <2> QED
    BY <2>2, <2>3
<1>10. \A k \in 1 .. Len(Tail(list)) : Tail(list)[k] # list[1]
  BY <1>2, <1>3, <1>7, Zenon
<1> QED
  BY <1>1, <1>2, <1>5, <1>7, <1>8, <1>9, <1>10

\* The first trace of the first stream is the earliest of all.
LEMMA HeadIsLeast ==
    ASSUME MergeTypes, StreamsRise, Ordered(queue, ms_head), NEW c \in ToSet(ms_head),
           NEW t, t = ms_peek_time(queue, ms_head[1])
    PROVE  /\ t \in Times /\ t \in Nat /\ t <= last_time[c]
           /\ \A i \in 1 .. Len(queue[c]) : t <= queue[c][i]
<1>1. PICK n \in Nat : n = Len(ms_head)
  BY LenProperties DEF MergeTypes
<1>2. PICK k \in 1 .. n : ms_head[k] = c
  BY <1>1, InList DEF MergeTypes
<1>3. /\ c \in Cpus /\ ms_head[1] \in Cpus /\ queue[c] # <<>> /\ queue[ms_head[1]] # <<>>
      /\ 1 \in 1 .. n
  BY <1>1, <1>2, ElementOfSeq DEF MergeTypes, Ordered
<1>4. queue \in [Cpus -> Seq(Times)] /\ last_time[c] \in Nat
  BY <1>3 DEF MergeTypes
<1>5. t \in Times /\ t \in Nat
  BY <1>3, <1>4, PeekIsTime
<1>6. PICK a \in Nat : a = queue[c][1] /\ a = ms_peek_time(queue, c)
  BY <1>3, <1>4, PeekIsTime
<1>7. t <= a
  <2>1. CASE k = 1
    BY <1>2, <1>5, <1>6, <2>1
  <2>2. CASE k # 1
    <3>1. 1 < k
      BY <2>2
    <3> QED
      BY <1>1, <1>2, <1>3, <1>6, <3>1, Zenon DEF Ordered
  <2> QED
    BY <2>1, <2>2
<1>8. PICK l \in Nat \ {0} : l = Len(queue[c])
  BY <1>3, <1>4, LenProperties, EmptySeq
<1>9. \A i \in 1 .. l : queue[c][i] \in Nat
  <2>1. \A i \in 1 .. l : queue[c][i] \in Times
    BY <1>3, <1>4, <1>8, ElementOfSeq
  <2> QED
    BY <2>1 DEF Times
<1>10. ASSUME NEW i \in 1 .. l
       PROVE  t <= queue[c][i]
  <2>1. PICK x \in Nat : x = queue[c][i]
    BY <1>9
  <2>2. a <= x
    <3>1. CASE i = 1
      <4>1. a = x /\ a <= a
        <5>1. a <= a
          OBVIOUS
        <5> QED
          BY <1>6, <2>1, <3>1, <5>1, Zenon
      <4> QED
        BY <4>1, Zenon
    <3>2. CASE i # 1
      <4>1. 1 < i /\ 1 \in 1 .. l
        BY <3>2
      <4> QED
        BY <1>3, <1>6, <1>8, <2>1, <4>1, Zenon DEF StreamsRise
    <3> QED
      BY <3>1, <3>2
  <2>3. t <= x
    BY <1>5, <1>7, <2>2
  <2> QED
    BY <2>1, <2>3
<1>11. t <= last_time[c]
  <2>1. 1 \in 1 .. l
    OBVIOUS
  <2>2. a <= last_time[c]
    BY <1>3, <1>6, <1>8, <2>1, Zenon DEF StreamsRise
  <2> QED
    BY <1>4, <1>5, <1>7, <2>2
<1> QED
  BY <1>5, <1>8, <1>10, <1>11

\* setup_file, and the end of the setup: genesis_time is the earliest of all.
LEMMA SetupStep ==
    ASSUME MergeInv, SetupFile
    PROVE  MergeInv'
<1>1. /\ mpc = "setup" /\ genesis_time = 0 /\ line_time = 0
      /\ UNCHANGED <<last_time, queue, ms_head, gave_up, queued, nout, line_time, nr>>
  BY DEF SetupFile, fileVars, MergeInv
<1>2. MergeTypes /\ StreamsRise /\ NCpus \in Nat
  BY CpusAssumption DEF MergeInv
<1>3. Ordered(queue, ms_head)
  BY <1>1 DEF MergeInv, ListInOrder, Refilling
<1>4. /\ \A k \in 1 .. Len(ms_head) : ms_head[k] < cur
      /\ \A c \in Cpus : c >= cur => ~fd_open[c]
  <2>1. \A c \in Cpus : c > cur \/ c = cur => ~fd_open[c]
    BY <1>1 DEF MergeInv, FilesFollow
  <2> QED
    BY <1>1, <1>2, <2>1 DEF MergeInv, FilesFollow, MergeTypes, Cpus
<1>5. StreamsRise'
  BY <1>1, <1>2, Zenon DEF StreamsRise
<1>6. /\ nr' = 0 /\ \A c \in Cpus : nout'[c] + Len(queue'[c]) = queued'[c]
  BY <1>1 DEF MergeInv
<1>7. Ordered(queue', ms_head')
  BY <1>1, <1>3, Zenon
<1>8. ms_head \in Seq(Cpus) /\ cur \in Nat /\ fd_open \in [Cpus -> BOOLEAN]
  BY <1>2 DEF MergeTypes
<1>9. CASE /\ cur < NCpus /\ mpc' = "prime" /\ ndone' = 0
           /\ fd_open' = [fd_open EXCEPT ![cur] = TRUE] /\ cur' = cur /\ genesis_time' = genesis_time
  <2>1. cur \in Cpus /\ cur \notin ToSet(ms_head)
    <3>1. cur \in Cpus
      BY <1>2, <1>8, <1>9 DEF Cpus
    <3>2. \A k \in 1 .. Len(ms_head) : ms_head[k] # cur
      BY <1>4, <1>8
    <3> QED
      BY <1>8, <3>1, <3>2, InList
  <2>2. queue[cur] = <<>> /\ Len(<<>>) = 0
    BY <1>1, <2>1 DEF MergeInv, LeftBehind
  <2>3. MergeTypes'
    BY <1>1, <1>2, <1>9 DEF MergeTypes
  <2>4. ListInOrder'
    BY <1>1, <1>7, <1>9 DEF ListInOrder, Refilling, SettingUp
  <2>5. FilesFollow'
    <3>1. \A c \in Cpus : c > cur => ~fd_open'[c]
      BY <1>4, <1>8, <1>9 DEF Cpus
    <3> QED
      BY <1>1, <1>4, <1>9, <3>1 DEF FilesFollow
  <2>6. LeftBehind'
    <3>1. \A c \in Cpus : c # cur => fd_open'[c] = fd_open[c]
      BY <1>8, <1>9
    <3> QED
      BY <1>1, <1>9, <3>1 DEF MergeInv, LeftBehind
  <2> QED
    BY <1>1, <1>5, <1>6, <1>9, <2>1, <2>2, <2>3, <2>4, <2>5, <2>6 DEF MergeInv, NotEarlier
<1>10. CASE mpc' = mpc /\ cur' = cur + 1 /\ ndone' = ndone /\ fd_open' = fd_open /\ genesis_time' = genesis_time
  <2>1. MergeTypes'
    BY <1>1, <1>2, <1>10 DEF MergeTypes
  <2>2. ListInOrder'
    BY <1>1, <1>7, <1>10 DEF ListInOrder, Refilling, SettingUp
  <2>3. FilesFollow'
    <3>1. \A k \in 1 .. Len(ms_head) : ms_head[k] \in Cpus /\ ms_head[k] < cur
      BY <1>4, <1>8, ElementOfSeq
    <3>2. \A c \in Cpus : c < cur => c < cur + 1
      BY <1>8 DEF Cpus
    <3>3. \A c \in Cpus : c > cur + 1 \/ c = cur + 1 => c >= cur
      BY <1>8 DEF Cpus
    <3> QED
      BY <1>1, <1>4, <1>10, <3>1, <3>2, <3>3 DEF FilesFollow
  <2>4. LeftBehind'
    BY <1>1, <1>10 DEF MergeInv, LeftBehind
  <2> QED
    BY <1>1, <1>5, <1>6, <1>10, <2>1, <2>2, <2>3, <2>4 DEF MergeInv, NotEarlier
<1>11. CASE /\ mpc' = "merge" /\ cur' = cur /\ ndone' = ndone /\ fd_open' = fd_open
            /\ genesis_time' = IF ms_head = <<>> THEN genesis_time ELSE ms_peek_time(queue, ms_head[1])
  <2>1. ASSUME NEW c \in ToSet(ms_head)
        PROVE  /\ genesis_time' \in Nat /\ genesis_time' # 0 /\ genesis_time' <= last_time[c]
               /\ \A i \in 1 .. Len(queue[c]) : genesis_time' <= queue[c][i]
    <3>1. ms_head # <<>>
      BY <2>1 DEF ToSet
    <3>2. genesis_time' = ms_peek_time(queue, ms_head[1])
      BY <1>11, <3>1
    <3>3. \A t \in Times : t # 0
      BY DEF Times
    <3> QED
      BY <1>2, <1>3, <2>1, <3>2, <3>3, HeadIsLeast
  <2>2. ms_head # <<>> => \E c : c \in ToSet(ms_head)
    <3>1. ms_head # <<>> => 1 \in 1 .. Len(ms_head)
      BY <1>8, LenProperties, EmptySeq
    <3> QED
      BY <1>8, <3>1, InList
  <2>3. genesis_time' \in Nat /\ (ms_head # <<>> => genesis_time' # 0)
    BY <1>1, <1>11, <2>1, <2>2
  <2>4. MergeTypes'
    BY <1>1, <1>2, <1>11, <2>3 DEF MergeTypes
  <2>5. ListInOrder'
    BY <1>1, <1>7, <1>11 DEF ListInOrder, Refilling, SettingUp
  <2>6. FilesFollow'
    BY <1>11 DEF FilesFollow
  <2>7. LeftBehind'
    BY <1>1, <1>11 DEF MergeInv, LeftBehind
  <2>8. NotEarlier'
    <3>1. \A g \in Nat : g + 0 = g
      OBVIOUS
    <3> QED
      BY <1>1, <1>11, <2>1, <2>3, <3>1 DEF NotEarlier
  <2> QED
    BY <1>1, <1>5, <1>6, <1>11, <2>3, <2>4, <2>5, <2>6, <2>7, <2>8 DEF MergeInv
<1> QED
  BY <1>9, <1>10, <1>11 DEF SetupFile

\* ms_prime fails: the file is closed.
LEMMA PrimeFailsStep ==
    ASSUME MergeInv, PrimeFails
    PROVE  MergeInv'
<1>1. /\ mpc = "prime"
      /\ fd_open' = [fd_open EXCEPT ![cur] = FALSE]
      /\ UNCHANGED <<mpc, cur, ndone, last_time, queue, ms_head, gave_up,
                     queued, nout, line_time, nr, genesis_time>>
  BY DEF PrimeFails, fileVars
<1>2. MergeTypes /\ cur \in Cpus
  BY <1>1 DEF MergeInv
<1>3. \A c \in Cpus : fd_open'[c] => fd_open[c]
  BY <1>1, <1>2 DEF MergeTypes
<1>4. MergeTypes'
  BY <1>1, <1>2 DEF MergeTypes
<1>5. StreamsRise'
  BY <1>1, Zenon DEF MergeInv, StreamsRise
<1>6. ListInOrder'
  <2>2. /\ Ordered(queue, ms_head)' <=> Ordered(queue, ms_head)
        /\ Ordered(queue, Tail(ms_head))' <=> Ordered(queue, Tail(ms_head))
    BY <1>1, Zenon DEF Ordered, ms_peek_time
  <2>3. Refilling' <=> Refilling
    BY <1>1 DEF Refilling, SettingUp
  <2> QED
    BY <1>1, <2>2, <2>3, Zenon DEF MergeInv, ListInOrder
<1>7. FilesFollow'
  BY <1>1, <1>3, Zenon DEF MergeInv, FilesFollow, SettingUp
<1>8. LeftBehind'
  BY <1>1, <1>3, Zenon DEF MergeInv, LeftBehind
<1>9. NotEarlier'
  BY <1>1, Zenon DEF MergeInv, NotEarlier
<1> QED
  BY <1>1, <1>4, <1>5, <1>6, <1>7, <1>8, <1>9 DEF MergeInv

LEMMA EndMergeStep ==
    ASSUME MergeInv, EndMerge
    PROVE  MergeInv'
<1>1. /\ mpc = "merge" /\ mpc' = "end"
      /\ UNCHANGED <<cur, ndone, fd_open, last_time, queue, ms_head, gave_up,
                     queued, nout, line_time, nr, genesis_time>>
  BY DEF EndMerge, fileVars
<1>2. MergeTypes'
  BY <1>1 DEF MergeInv, MergeTypes
<1>3. StreamsRise'
  BY <1>1, Zenon DEF MergeInv, StreamsRise
<1>4. ListInOrder'
  <2>1. Ordered(queue, ms_head)
    BY <1>1 DEF MergeInv, ListInOrder, Refilling
  <2>2. Ordered(queue, ms_head)'
    BY <1>1, <2>1, Zenon DEF Ordered, ms_peek_time
  <2> QED
    BY <1>1, <2>2 DEF ListInOrder, Refilling
<1>5. FilesFollow' /\ LeftBehind' /\ NotEarlier'
  BY <1>1 DEF MergeInv, FilesFollow, LeftBehind, NotEarlier
<1> QED
  BY <1>1, <1>2, <1>3, <1>4, <1>5 DEF MergeInv

\* ms_prime reads a trace of the file: it is no earlier than those before it.
LEMMA PrimeReadStep ==
    ASSUME MergeInv, PrimeRead
    PROVE  MergeInv'
<1>1. PICK t \in last_time[cur] .. MaxTime :
        /\ mpc = "prime"
        /\ last_time' = [last_time EXCEPT ![cur] = t]
        /\ \/ /\ queue' = [queue EXCEPT ![cur] = Append(@, t)]
              /\ queued' = [queued EXCEPT ![cur] = @ + 1]
              /\ ndone' = ndone + 1
           \/ UNCHANGED <<queue, queued, ndone>>
        /\ UNCHANGED <<mpc, cur, fd_open, ms_head, gave_up, nout, line_time, nr, genesis_time>>
  BY DEF PrimeRead
<1>2. MergeTypes /\ StreamsRise /\ cur \in Cpus /\ Len(queue[cur]) = ndone
  BY <1>1 DEF MergeInv
<1>3. /\ queue \in [Cpus -> Seq(Times)] /\ last_time \in [Cpus -> Nat \ {0}]
      /\ ms_head \in Seq(Cpus) /\ queued \in [Cpus -> Nat] /\ nout \in [Cpus -> Nat]
      /\ genesis_time \in Nat /\ line_time \in Nat
  BY <1>2 DEF MergeTypes
<1>4. t \in Times /\ t \in Nat \ {0} /\ last_time[cur] <= t
  <2>1. last_time[cur] \in Nat \ {0} /\ MaxTime \in Nat
    BY <1>2, <1>3, TimeAssumption
  <2> QED
    BY <2>1 DEF Times
<1>5. PICK q \in Seq(Times) : q = queue[cur]
  BY <1>2, <1>3
<1>6. /\ Len(Append(q, t)) = Len(q) + 1 /\ Append(q, t) \in Seq(Times)
      /\ \A i \in 1 .. Len(q) : Append(q, t)[i] = q[i]
      /\ Append(q, t)[Len(q) + 1] = t
  BY <1>4, AppendProperties
<1>7. PICK n \in Nat : n = Len(q)
  BY LenProperties
<1>8. \A i \in 1 .. n + 1 : i \in 1 .. n \/ i = n + 1
  OBVIOUS
<1>9. \A c \in Cpus : c # cur =>
         queue'[c] = queue[c] /\ last_time'[c] = last_time[c] /\ queued'[c] = queued[c]
  BY <1>1, <1>3
<1>10. last_time'[cur] = t
  BY <1>1, <1>2, <1>3
<1>11. \/ queue'[cur] = Append(q, t) /\ queued'[cur] = queued[cur] + 1 /\ ndone' = ndone + 1
       \/ queue'[cur] = q /\ queued'[cur] = queued[cur] /\ ndone' = ndone
  BY <1>1, <1>2, <1>3, <1>5
<1>12. MergeTypes'
  <2>1. queue' \in [Cpus -> Seq(Times)]
    <3>1. \A S, f, y : f \in [Cpus -> S] /\ y \in S => [f EXCEPT ![cur] = y] \in [Cpus -> S]
      OBVIOUS
    <3>2. queue' = [queue EXCEPT ![cur] = Append(q, t)] \/ queue' = queue
      <4>1. queue' = [queue EXCEPT ![cur] = Append(queue[cur], t)] \/ queue' = queue
        BY <1>1, Zenon
      <4> QED
        BY <1>5, <4>1, Zenon
    <3> QED
      BY <1>3, <1>6, <3>1, <3>2, Zenon
  <2>2. last_time' \in [Cpus -> Nat \ {0}]
    <3>1. \A S, f, y : f \in [Cpus -> S] /\ y \in S => [f EXCEPT ![cur] = y] \in [Cpus -> S]
      OBVIOUS
    <3> QED
      BY <1>1, <1>3, <1>4, <3>1, Zenon
  <2>3. queued' \in [Cpus -> Nat] /\ ndone' \in Nat
    BY <1>1, <1>2, <1>3, SMTT(30) DEF MergeTypes
  <2> QED
    BY <1>1, <1>2, <2>1, <2>2, <2>3 DEF MergeTypes
<1>13. \A i \in 1 .. n : q[i] \in Nat /\ q[i] <= t
  <2> SUFFICES ASSUME NEW i \in 1 .. n PROVE q[i] \in Nat /\ q[i] <= t
    OBVIOUS
  <2>1. q[i] \in Nat
    <3>1. i \in 1 .. Len(q)
      BY <1>7
    <3>2. q[i] \in Times
      BY <3>1, ElementOfSeq
    <3> QED
      BY <3>2 DEF Times
  <2>2. PICK l \in Nat : l = last_time[cur]
    BY <1>2, <1>3
  <2>3. q[i] <= l
    BY <1>2, <1>5, <1>7, <2>2, Zenon DEF StreamsRise
  <2> QED
    BY <1>4, <2>1, <2>2, <2>3
<1>14. StreamsRise'
  <2> SUFFICES ASSUME NEW c \in Cpus
               PROVE  /\ \A i \in 1 .. Len(queue'[c]) : queue'[c][i] <= last_time'[c]
                      /\ \A i, j \in 1 .. Len(queue'[c]) : i < j => queue'[c][i] <= queue'[c][j]
    BY Zenon DEF StreamsRise
  <2>1. /\ \A i \in 1 .. Len(queue[c]) : queue[c][i] <= last_time[c]
        /\ \A i, j \in 1 .. Len(queue[c]) : i < j => queue[c][i] <= queue[c][j]
    BY <1>2, Zenon DEF StreamsRise
  <2>2. CASE c # cur
    BY <1>9, <2>1, <2>2, Zenon
  <2>3. CASE c = cur /\ queue'[cur] = q
    BY <1>5, <1>7, <1>10, <1>13, <2>1, <2>3, Zenon
  <2>4. CASE c = cur /\ queue'[cur] = Append(q, t)
    <3>1. t <= t
      BY <1>4
    <3>2. \A i \in 1 .. n + 1 : Append(q, t)[i] <= t
      BY <1>6, <1>7, <1>8, <1>13, <3>1, Zenon
    <3>3. ASSUME NEW i \in 1 .. n + 1, NEW j \in 1 .. n + 1, i < j
          PROVE  Append(q, t)[i] <= Append(q, t)[j]
      <4>1. i \in 1 .. n
        BY <3>3
      <4>2. CASE j \in 1 .. n
        BY <1>5, <1>6, <1>7, <2>1, <2>4, <3>3, <4>1, <4>2, Zenon
      <4>3. CASE j = n + 1
        BY <1>6, <1>7, <1>13, <4>1, <4>3, Zenon
      <4> QED
        BY <1>8, <4>2, <4>3
    <3>4. queue'[c] = Append(q, t) /\ Len(queue'[c]) = n + 1 /\ last_time'[c] = t
      BY <1>6, <1>7, <1>10, <2>4
    <3> QED
      BY <3>2, <3>3, <3>4, Zenon
  <2> QED
    BY <1>11, <2>2, <2>3, <2>4
<1>15. ListInOrder'
  <2>1. ASSUME NEW list \in Seq(Cpus), Ordered(queue, list),
               \A k \in 1 .. Len(list) : list[k] # cur
        PROVE  Ordered(queue', list)
    <3>1. \A k \in 1 .. Len(list) : queue'[list[k]] = queue[list[k]]
      BY <1>9, <2>1, ElementOfSeq
    <3> QED
      BY <2>1, <3>1, OrderedSame
  <2>2. Refilling' <=> Refilling
    BY <1>1 DEF Refilling, SettingUp
  <2>3. CASE ~Refilling
    <3>1. \A k \in 1 .. Len(ms_head) : ms_head[k] < cur
      BY <1>1, <2>3 DEF MergeInv, FilesFollow, Refilling
    <3>2. \A k \in 1 .. Len(ms_head) : ms_head[k] # cur
      BY <1>2, <3>1 DEF Cpus
    <3>3. Ordered(queue, ms_head)
      BY <2>3 DEF MergeInv, ListInOrder
    <3>4. Ordered(queue', ms_head')
      BY <1>1, <1>3, <2>1, <3>2, <3>3
    <3> QED
      BY <2>2, <2>3, <3>4 DEF ListInOrder
  <2>4. CASE Refilling
    <3>1. /\ ms_head # <<>> /\ ms_head[1] = cur
          /\ \A k \in 2 .. Len(ms_head) : ms_head[k] # cur
          /\ Ordered(queue, Tail(ms_head))
      BY <2>4 DEF MergeInv, ListInOrder
    <3>2. Tail(ms_head) \in Seq(Cpus) /\ \A k \in 1 .. Len(Tail(ms_head)) : Tail(ms_head)[k] # cur
      <4>1. /\ Tail(ms_head) \in Seq(Cpus) /\ Len(Tail(ms_head)) = Len(ms_head) - 1
            /\ \A k \in 1 .. Len(Tail(ms_head)) : Tail(ms_head)[k] = ms_head[k + 1]
        BY <1>3, <3>1, HeadTailProperties
      <4>2. \A m \in Nat : \A k \in 1 .. m - 1 : k + 1 \in 2 .. m
        OBVIOUS
      <4>3. Len(ms_head) \in Nat
        BY <1>3, LenProperties
      <4> QED
        BY <3>1, <4>1, <4>2, <4>3, Zenon
    <3>3. Ordered(queue', Tail(ms_head'))
      BY <1>1, <2>1, <3>1, <3>2
    <3> QED
      BY <1>1, <2>2, <2>4, <3>1, <3>3 DEF ListInOrder
  <2> QED
    BY <2>3, <2>4
<1>16. FilesFollow'
  BY <1>1, Zenon DEF MergeInv, FilesFollow, SettingUp
<1>17. LeftBehind'
  BY <1>1, <1>9, Zenon DEF MergeInv, LeftBehind
<1>18. NotEarlier'
  <2> SUFFICES ASSUME genesis_time # 0, NEW c \in ToSet(ms_head)
               PROVE  /\ genesis_time + line_time <= last_time'[c]
                      /\ \A i \in 1 .. Len(queue'[c]) : genesis_time + line_time <= queue'[c][i]
    BY <1>1, Zenon DEF NotEarlier
  <2>1. c \in Cpus
    <3>1. PICK k \in 1 .. Len(ms_head) : ms_head[k] = c
      BY <1>3, InList
    <3> QED
      BY <1>3, <3>1, ElementOfSeq
  <2>2. PICK g \in Nat : g = genesis_time + line_time
    BY <1>3
  <2>3. /\ g <= last_time[c]
        /\ \A i \in 1 .. Len(queue[c]) : g <= queue[c][i]
    BY <2>2, Zenon DEF MergeInv, NotEarlier
  <2>4. CASE c # cur
    BY <1>9, <2>1, <2>2, <2>3, <2>4, Zenon
  <2>5. CASE c = cur
    <3>1. g <= t
      <4>1. PICK l \in Nat : l = last_time[cur]
        BY <1>2, <1>3
      <4>2. g <= l /\ l <= t
        BY <1>4, <2>3, <2>5, <4>1
      <4> QED
        BY <1>4, <4>2
    <3>2. CASE queue'[cur] = q
      BY <1>5, <1>10, <2>2, <2>3, <2>5, <3>1, <3>2, Zenon
    <3>3. CASE queue'[cur] = Append(q, t)
      <4>1. \A i \in 1 .. n + 1 : g <= Append(q, t)[i]
        BY <1>5, <1>6, <1>7, <1>8, <2>3, <2>5, <3>1, Zenon
      <4> QED
        BY <1>6, <1>7, <1>10, <2>2, <2>5, <3>1, <3>3, <4>1, Zenon
    <3> QED
      BY <1>11, <3>2, <3>3
  <2> QED
    BY <2>4, <2>5
<1>19. \A c \in Cpus : nout'[c] + Len(queue'[c]) = queued'[c]
  <2> SUFFICES ASSUME NEW c \in Cpus PROVE nout'[c] + Len(queue'[c]) = queued'[c]
    OBVIOUS
  <2>1. nout'[c] = nout[c] /\ nout[c] + Len(queue[c]) = queued[c]
    BY <1>1 DEF MergeInv
  <2>2. CASE c # cur
    BY <1>9, <2>1, <2>2, Zenon
  <2>3. CASE c = cur
    <3>1. PICK a \in Nat, b \in Nat : a = nout[cur] /\ b = queued[cur]
      BY <1>2, <1>3
    <3>2. a + n = b
      BY <1>5, <1>7, <2>1, <2>3, <3>1, Zenon
    <3>4. a + (n + 1) = b + 1
      BY <3>2
    <3> QED
      BY <1>6, <1>7, <1>11, <2>1, <2>3, <3>1, <3>2, <3>4, Zenon
  <2> QED
    BY <2>2, <2>3
<1>20. Len(queue'[cur]) = ndone'
  BY <1>2, <1>5, <1>6, <1>11, Zenon
<1> QED
  BY <1>1, <1>2, <1>12, <1>14, <1>15, <1>16, <1>17, <1>18, <1>19, <1>20 DEF MergeInv

\* ms_alloc sorts the stream in; ms_deq resorts it or drops it.
LEMMA PrimeDoneStep ==
    ASSUME MergeInv, PrimeDone
    PROVE  MergeInv'
<1>1. /\ mpc = "prime" /\ ms_head' = AfterPrime
      /\ gave_up' = [gave_up EXCEPT ![cur] = (ndone = 0 /\ fd_open[cur])]
      /\ IF SettingUp THEN mpc' = "setup" /\ cur' = cur + 1 ELSE mpc' = "merge" /\ cur' = cur
      /\ UNCHANGED <<ndone, fd_open, last_time, queue, queued, nout, line_time, nr, genesis_time>>
  BY DEF PrimeDone, fileVars
<1>2. MergeTypes /\ StreamsRise /\ cur \in Cpus /\ Len(queue[cur]) = ndone
  BY <1>1 DEF MergeInv
<1>3. /\ queue \in [Cpus -> Seq(Times)] /\ ms_head \in Seq(Cpus) /\ cur \in Nat
      /\ gave_up \in [Cpus -> BOOLEAN]
  BY <1>2 DEF MergeTypes
<1>4. ndone = 0 <=> queue[cur] = <<>>
  <2>1. queue[cur] \in Seq(Times)
    BY <1>2, <1>3
  <2> QED
    BY <1>2, <2>1, EmptySeq
<1>5. /\ gave_up' \in [Cpus -> BOOLEAN] /\ gave_up'[cur] = (ndone = 0 /\ fd_open[cur])
      /\ \A c \in Cpus : c # cur => gave_up'[c] = gave_up[c]
  BY <1>1, <1>2, <1>3
<1>6. /\ ms_head' \in Seq(Cpus) /\ Ordered(queue, ms_head')
      /\ \A c : c \in ToSet(ms_head') => c \in ToSet(ms_head) \/ c = cur
      /\ \A c : c \in ToSet(ms_head) => c \in ToSet(ms_head') \/ (c = cur /\ ndone = 0)
      /\ ndone # 0 => cur \in ToSet(ms_head')
      /\ ~SettingUp => \A c : c \in ToSet(ms_head') => c \in ToSet(ms_head)
  <2>1. CASE SettingUp
    <3>1. Ordered(queue, ms_head) /\ cur \notin ToSet(ms_head)
      <4>1. \A k \in 1 .. Len(ms_head) : ms_head[k] < cur
        BY <1>1, <2>1 DEF MergeInv, FilesFollow
      <4>2. \A k \in 1 .. Len(ms_head) : ms_head[k] # cur
        BY <1>3, <4>1
      <4>3. Ordered(queue, ms_head)
        BY <2>1 DEF MergeInv, ListInOrder, Refilling
      <4> QED
        BY <1>3, <4>2, <4>3, InList
    <3>2. CASE ndone = 0
      BY <1>1, <1>3, <2>1, <3>1, <3>2 DEF AfterPrime
    <3>3. CASE ndone # 0
      <4>1. ms_head' = ms_sort(queue, ms_head, cur)
        BY <1>1, <2>1, <3>3 DEF AfterPrime
      <4>2. queue[cur] # <<>>
        BY <1>4, <3>3
      <4>3. /\ ms_sort(queue, ms_head, cur) \in Seq(Cpus)
            /\ Ordered(queue, ms_sort(queue, ms_head, cur))
            /\ ToSet(ms_sort(queue, ms_head, cur)) = ToSet(ms_head) \cup {cur}
        BY <1>2, <1>3, <3>1, <4>2, SortedIn
      <4> QED
        BY <2>1, <4>1, <4>3
    <3> QED
      BY <3>2, <3>3
  <2>2. CASE ~SettingUp
    <3>1. /\ ms_head # <<>> /\ ms_head[1] = cur
          /\ \A k \in 2 .. Len(ms_head) : ms_head[k] # cur
          /\ Ordered(queue, Tail(ms_head))
      BY <1>1, <2>2 DEF MergeInv, ListInOrder, Refilling
    <3>2. CASE ndone = 0
      <4>1. ms_head' = Tail(ms_head)
        BY <1>1, <2>2, <3>2 DEF AfterPrime
      <4>2. PICK n \in Nat : n = Len(ms_head) /\ n > 0
        BY <1>3, <3>1, LenProperties, EmptySeq
      <4>3. /\ Tail(ms_head) \in Seq(Cpus) /\ Len(Tail(ms_head)) = n - 1
            /\ \A k \in 1 .. n - 1 : Tail(ms_head)[k] = ms_head[k + 1]
        BY <1>3, <3>1, <4>2, HeadTailProperties
      <4>4. ASSUME NEW c \in ToSet(Tail(ms_head)) PROVE c \in ToSet(ms_head)
        <5>1. PICK k \in 1 .. n - 1 : ms_head[k + 1] = c
          <6>1. PICK k \in 1 .. Len(Tail(ms_head)) : Tail(ms_head)[k] = c
            BY <4>3, InList
          <6> QED
            BY <4>3, <6>1
        <5>2. k + 1 \in 1 .. n
          OBVIOUS
        <5> QED
          BY <1>3, <4>2, <5>1, <5>2, InList
      <4>5. ASSUME NEW c \in ToSet(ms_head), c # cur PROVE c \in ToSet(Tail(ms_head))
        <5>1. PICK k \in 1 .. n : ms_head[k] = c
          BY <1>3, <4>2, InList
        <5>2. k - 1 \in 1 .. n - 1 /\ k - 1 + 1 = k
          <6>1. k # 1
            BY <3>1, <4>5, <5>1
          <6> QED
            BY <6>1
        <5>3. Tail(ms_head)[k - 1] = c
          BY <4>3, <5>1, <5>2
        <5> QED
          BY <4>3, <5>2, <5>3, InList
      <4> QED
        BY <2>2, <3>1, <3>2, <4>1, <4>3, <4>4, <4>5
    <3>3. CASE ndone # 0
      <4>1. ms_head' = ms_resort(queue, ms_head)
        BY <1>1, <2>2, <3>3 DEF AfterPrime
      <4>2. queue[ms_head[1]] # <<>> /\ \A k \in 2 .. Len(ms_head) : ms_head[k] # ms_head[1]
        BY <1>4, <3>1, <3>3
      <4>3. /\ ms_resort(queue, ms_head) \in Seq(Cpus)
            /\ Ordered(queue, ms_resort(queue, ms_head))
            /\ ToSet(ms_resort(queue, ms_head)) = ToSet(ms_head)
        BY <1>3, <3>1, <4>2, Resorted
      <4>4. cur \in ToSet(ms_head)
        <5>1. 1 \in 1 .. Len(ms_head)
          BY <1>3, <3>1, LenProperties, EmptySeq
        <5> QED
          BY <1>3, <3>1, <5>1, InList
      <4> QED
        BY <4>1, <4>3, <4>4
    <3> QED
      BY <3>2, <3>3
  <2> QED
    BY <2>1, <2>2
<1>7. MergeTypes'
  <2>1. mpc' \in {"setup", "merge"} /\ cur' \in Nat
    BY <1>1, <1>3
  <2> QED
    BY <1>1, <1>2, <1>5, <1>6, <2>1 DEF MergeTypes
<1>8. StreamsRise'
  BY <1>1, <1>2, Zenon DEF StreamsRise
<1>9. ListInOrder'
  <2>1. ~Refilling'
    BY <1>1 DEF Refilling
  <2>2. Ordered(queue', ms_head')
    BY <1>1, <1>6, Zenon
  <2> QED
    BY <2>1, <2>2 DEF ListInOrder
<1>10. FilesFollow'
  <2>1. CASE SettingUp
    <3>1. /\ \A k \in 1 .. Len(ms_head) : ms_head[k] < cur
          /\ \A c \in Cpus : c > cur => ~fd_open[c]
      BY <1>1, <2>1 DEF MergeInv, FilesFollow
    <3>2. \A c \in Cpus : c > cur + 1 \/ c = cur + 1 => c > cur
      BY <1>3 DEF Cpus
    <3>3. ASSUME NEW k \in 1 .. Len(ms_head') PROVE ms_head'[k] < cur + 1
      <4>1. ms_head'[k] \in ToSet(ms_head) \/ ms_head'[k] = cur
        BY <1>6, InList
      <4>2. ASSUME ms_head'[k] \in ToSet(ms_head) PROVE ms_head'[k] < cur + 1
        <5>1. PICK j \in 1 .. Len(ms_head) : ms_head[j] = ms_head'[k]
          BY <1>3, <4>2, InList
        <5>2. PICK x \in Cpus : x = ms_head[j]
          BY <1>3, ElementOfSeq
        <5>3. x < cur
          BY <3>1, <5>2
        <5>4. x < cur + 1
          BY <1>3, <5>3 DEF Cpus
        <5> QED
          BY <5>1, <5>2, <5>4
      <4>3. cur < cur + 1
        BY <1>3
      <4> QED
        BY <4>1, <4>2, <4>3
    <3> QED
      BY <1>1, <2>1, <3>1, <3>2, <3>3 DEF FilesFollow
  <2>2. CASE ~SettingUp
    BY <1>1, <2>2 DEF FilesFollow
  <2> QED
    BY <2>1, <2>2
<1>11. LeftBehind'
  <2> SUFFICES ASSUME NEW c \in Cpus, c \notin ToSet(ms_head')
               PROVE  queue[c] = <<>> /\ (fd_open[c] => gave_up'[c])
    BY <1>1, Zenon DEF LeftBehind
  <2>1. CASE c = cur
    BY <1>4, <1>5, <1>6, <2>1
  <2>2. CASE c # cur
    <3>1. c \notin ToSet(ms_head)
      BY <1>6, <2>2
    <3> QED
      BY <1>5, <2>2, <3>1 DEF MergeInv, LeftBehind
  <2> QED
    BY <2>1, <2>2
<1>12. NotEarlier'
  <2>1. CASE SettingUp
    BY <1>1, <2>1 DEF NotEarlier, SettingUp
  <2>2. CASE ~SettingUp
    <3>1. NotEarlier
      BY DEF MergeInv
    <3> QED
      BY <1>1, <1>6, <2>2, <3>1, Zenon DEF NotEarlier
  <2> QED
    BY <2>1, <2>2
<1>13. /\ mpc' = "setup" => genesis_time' = 0
       /\ mpc' = "merge" => genesis_time' # 0
       /\ mpc' # "prime"
  BY <1>1 DEF SettingUp
<1> QED
  BY <1>1, <1>7, <1>8, <1>9, <1>10, <1>11, <1>12, <1>13 DEF MergeInv

\* No time that is counted from genesis_time wraps around.
LEMMA RelativeTime ==
    ASSUME NEW t \in Times, NEW g \in Nat, g <= t
    PROVE  (t - g) % TimeMod = t - g /\ t - g \in Nat
<1>1. t - g \in 0 .. TimeMod - 1 /\ TimeMod \in Nat \ {0}
  BY TimeAssumption DEF Times
<1>2. \A x \in Nat, m \in Nat \ {0} : x < m => x % m = x
  OBVIOUS
<1> QED
  BY <1>1, <1>2

\* handle shows the first trace of the first stream.
LEMMA HandleStep ==
    ASSUME MergeInv, Handle
    PROVE  MergeInv'
<1>1. /\ mpc = "merge" /\ ms_head # <<>>
      /\ IF Relative(ms_peek_time(queue, ms_head[1])) >= stopwatch[1]
         THEN CheckLine(Relative(ms_peek_time(queue, ms_head[1]))) ELSE UNCHANGED <<line_time, nr>>
      /\ nout' = [nout EXCEPT ![ms_head[1]] = @ + 1]
      /\ queue' = [queue EXCEPT ![ms_head[1]] = Tail(@)]
      /\ IF queue'[ms_head[1]] = <<>>
         THEN /\ mpc' = "prime" /\ cur' = ms_head[1] /\ ndone' = 0
              /\ ms_head' = ms_head
         ELSE /\ ms_head' = ms_resort(queue', ms_head)
              /\ UNCHANGED <<mpc, cur, ndone>>
      /\ UNCHANGED <<fd_open, last_time, gave_up, queued, genesis_time>>
  BY DEF Handle, fileVars
<1>2. MergeTypes /\ StreamsRise /\ LeftBehind /\ NotEarlier /\ genesis_time # 0 /\ nr = 0
  BY <1>1 DEF MergeInv
<1>3. /\ queue \in [Cpus -> Seq(Times)] /\ ms_head \in Seq(Cpus) /\ cur \in Nat
      /\ last_time \in [Cpus -> Nat \ {0}] /\ queued \in [Cpus -> Nat] /\ nout \in [Cpus -> Nat]
      /\ genesis_time \in Nat /\ line_time \in Nat
  BY <1>2 DEF MergeTypes
<1>4. Ordered(queue, ms_head)
  BY <1>1 DEF MergeInv, ListInOrder, Refilling
<1>5. PICK c \in Cpus : c = ms_head[1] /\ queue[c] # <<>> /\ c \in ToSet(ms_head)
  <2>1. ms_head[1] \in Cpus /\ queue[ms_head[1]] # <<>>
    BY <1>1, <1>3, <1>4, OrderedTail
  <2>2. 1 \in 1 .. Len(ms_head)
    BY <1>1, <1>3, LenProperties, EmptySeq
  <2> QED
    BY <1>3, <2>1, <2>2, InList
<1>6. PICK q \in Seq(Times), n \in Nat \ {0} : q = queue[c] /\ n = Len(q)
  <2>1. queue[c] \in Seq(Times)
    BY <1>3
  <2> QED
    BY <1>5, <2>1, LenProperties, EmptySeq
<1>7. /\ Tail(q) \in Seq(Times) /\ Len(Tail(q)) = n - 1
      /\ \A i \in 1 .. n - 1 : Tail(q)[i] = q[i + 1]
  BY <1>5, <1>6, HeadTailProperties
<1>8. /\ queue'[c] = Tail(q) /\ \A d \in Cpus : d # c => queue'[d] = queue[d]
      /\ nout'[c] = nout[c] + 1 /\ \A d \in Cpus : d # c => nout'[d] = nout[d]
  BY <1>1, <1>3, <1>5, <1>6
<1>9. PICK t \in Times, g \in Nat, l \in Nat :
        t = ms_peek_time(queue, ms_head[1]) /\ g = genesis_time /\ l = line_time
  BY <1>3, <1>5, PeekIsTime
<1>10. \A d \in ToSet(ms_head) : t <= last_time[d] /\ \A i \in 1 .. Len(queue[d]) : t <= queue[d][i]
  BY <1>2, <1>4, <1>9, HeadIsLeast
<1>11. t \in Nat /\ g + l <= t
  <2>1. 1 \in 1 .. Len(queue[c])
    BY <1>6
  <2>2. queue[c][1] = t /\ t \in Nat
    BY <1>3, <1>5, <1>9, PeekIsTime
  <2>3. g + l <= queue[c][1]
    BY <1>2, <1>5, <1>9, <2>1, Zenon DEF NotEarlier
  <2> QED
    BY <2>2, <2>3
<1>12. Relative(t) = t - g /\ t - g \in Nat /\ ~(t - g < l) /\ g + (t - g) <= t
  <2>1. g <= t /\ ~(t - g < l) /\ g + (t - g) <= t
    BY <1>11
  <2>2. (t - g) % TimeMod = t - g /\ t - g \in Nat
    BY <2>1, RelativeTime
  <2> QED
    BY <1>9, <2>1, <2>2 DEF Relative
<1>13. PICK m \in Nat : m = line_time' /\ g + m <= t /\ nr' = 0
  <2>1. CASE UNCHANGED <<line_time, nr>>
    BY <1>2, <1>9, <1>11, <2>1
  <2>2. CASE CheckLine(Relative(t))
    <3>1. line_time' = t - g
      BY <1>12, <2>2 DEF CheckLine
    <3>2. nr' = 0
      BY <1>2, <1>9, <1>12, <2>2 DEF CheckLine
    <3> QED
      BY <1>12, <3>1, <3>2
  <2> QED
    BY <1>1, <1>9, <2>1, <2>2
<1>14. \A x \in Nat : t <= x => g + m <= x
  <2>1. \A a, b, x \in Nat : a <= b /\ b <= x => a <= x
    OBVIOUS
  <2>2. g + m \in Nat
    OBVIOUS
  <2> QED
    BY <1>11, <1>13, <2>1, <2>2, Zenon
<1>15. \A i \in 1 .. n - 1 : i + 1 \in 1 .. n /\ q[i + 1] \in Nat
  <2>1. \A i \in 1 .. n - 1 : i + 1 \in 1 .. n
    OBVIOUS
  <2>2. \A i \in 1 .. n : q[i] \in Times
    BY <1>6, ElementOfSeq
  <2> QED
    BY <2>1, <2>2 DEF Times
<1>16. queue' \in [Cpus -> Seq(Times)]
  <2>1. \A S, f, y : f \in [Cpus -> S] /\ y \in S => [f EXCEPT ![c] = y] \in [Cpus -> S]
    OBVIOUS
  <2>2. queue' = [queue EXCEPT ![c] = Tail(q)]
    BY <1>1, <1>5, <1>6
  <2> QED
    BY <1>3, <1>7, <2>1, <2>2, Zenon
<1>17. nout' \in [Cpus -> Nat]
  <2>1. \A x \in Nat : [nout EXCEPT ![c] = x] \in [Cpus -> Nat]
    BY <1>3
  <2>2. nout' = [nout EXCEPT ![c] = nout[c] + 1]
    BY <1>1, <1>5, Zenon
  <2>3. nout[c] + 1 \in Nat
    BY <1>3
  <2> QED
    BY <2>1, <2>2, <2>3, Zenon
<1>18. /\ \A k \in 2 .. Len(ms_head) : ms_head[k] # c
       /\ Tail(ms_head) \in Seq(Cpus) /\ Ordered(queue', Tail(ms_head))
  <2>1. /\ Ordered(queue, Tail(ms_head)) /\ Tail(ms_head) \in Seq(Cpus)
        /\ \A k \in 2 .. Len(ms_head) : ms_head[k] # c
        /\ \A k \in 1 .. Len(Tail(ms_head)) : Tail(ms_head)[k] # c
    BY <1>1, <1>3, <1>4, <1>5, OrderedTail
  <2>2. \A k \in 1 .. Len(Tail(ms_head)) : queue'[Tail(ms_head)[k]] = queue[Tail(ms_head)[k]]
    BY <1>8, <2>1, ElementOfSeq
  <2>3. Ordered(queue', Tail(ms_head))
    BY <2>1, <2>2, OrderedSame
  <2> QED
    BY <2>1, <2>3
<1>19. /\ ms_head' \in Seq(Cpus) /\ ToSet(ms_head') = ToSet(ms_head) /\ ListInOrder'
       /\ mpc' \in {"prime", "merge"} /\ cur' \in Nat /\ ndone' \in Nat
       /\ mpc' = "prime" => cur' \in Cpus /\ Len(queue'[cur']) = ndone'
  <2>1. CASE queue'[c] = <<>>
    <3>1. mpc' = "prime" /\ cur' = c /\ ndone' = 0 /\ ms_head' = ms_head
      BY <1>1, <1>5, <2>1
    <3>2. c \in Nat /\ Len(<<>>) = 0
      BY DEF Cpus
    <3>3. Refilling'
      BY <1>1, <1>2, <3>1 DEF Refilling, SettingUp
    <3>4. ListInOrder'
      BY <1>1, <1>5, <1>18, <3>1, <3>3 DEF ListInOrder
    <3> QED
      BY <1>3, <2>1, <3>1, <3>2, <3>4
  <2>2. CASE queue'[c] # <<>>
    <3>1. mpc' = mpc /\ cur' = cur /\ ndone' = ndone /\ ms_head' = ms_resort(queue', ms_head)
      BY <1>1, <1>5, <2>2
    <3>2. /\ ms_resort(queue', ms_head) \in Seq(Cpus)
          /\ Ordered(queue', ms_resort(queue', ms_head))
          /\ ToSet(ms_resort(queue', ms_head)) = ToSet(ms_head)
      <4>1. \A r \in [Cpus -> Seq(Times)] :
               r[ms_head[1]] # <<>> /\ Ordered(r, Tail(ms_head)) =>
                  /\ ms_resort(r, ms_head) \in Seq(Cpus)
                  /\ Ordered(r, ms_resort(r, ms_head))
                  /\ ToSet(ms_resort(r, ms_head)) = ToSet(ms_head)
        BY <1>1, <1>3, <1>5, <1>18, Resorted
      <4> QED
        BY <1>5, <1>16, <1>18, <2>2, <4>1, Zenon
    <3>3. ListInOrder'
      <4>1. Ordered(queue', ms_head')
        BY <3>1, <3>2, Zenon
      <4> QED
        BY <1>1, <3>1, <4>1 DEF ListInOrder, Refilling
    <3> QED
      BY <1>1, <1>2, <3>1, <3>2, <3>3 DEF MergeTypes
  <2> QED
    BY <2>1, <2>2
<1>20. MergeTypes'
  BY <1>1, <1>2, <1>13, <1>16, <1>17, <1>19 DEF MergeTypes
<1>21. StreamsRise'
  <2> SUFFICES ASSUME NEW d \in Cpus
               PROVE  /\ \A i \in 1 .. Len(queue'[d]) : queue'[d][i] <= last_time[d]
                      /\ \A i, j \in 1 .. Len(queue'[d]) : i < j => queue'[d][i] <= queue'[d][j]
    BY <1>1, Zenon DEF StreamsRise
  <2>1. /\ \A i \in 1 .. Len(queue[d]) : queue[d][i] <= last_time[d]
        /\ \A i, j \in 1 .. Len(queue[d]) : i < j => queue[d][i] <= queue[d][j]
    BY <1>2, Zenon DEF StreamsRise
  <2>2. CASE d # c
    BY <1>8, <2>1, <2>2, Zenon
  <2>3. CASE d = c
    <3>1. \A i, j \in 1 .. n - 1 : i < j => i + 1 < j + 1
      OBVIOUS
    <3>2. /\ \A i \in 1 .. n : q[i] <= last_time[d]
          /\ \A i, j \in 1 .. n : i < j => q[i] <= q[j]
      BY <1>6, <2>1, <2>3, Zenon
    <3>3. \A i \in 1 .. n - 1 : Tail(q)[i] <= last_time[d]
      BY <1>7, <1>15, <3>2, Zenon
    <3>4. ASSUME NEW i \in 1 .. n - 1, NEW j \in 1 .. n - 1, i < j
          PROVE  Tail(q)[i] <= Tail(q)[j]
      BY <1>7, <1>15, <3>1, <3>2, <3>4, Zenon
    <3> QED
      BY <1>7, <1>8, <2>3, <3>3, <3>4, Zenon
  <2> QED
    BY <2>2, <2>3
<1>22. FilesFollow'
  BY <1>1, <1>2, <1>19 DEF FilesFollow, SettingUp
<1>23. LeftBehind'
  <2> SUFFICES ASSUME NEW d \in Cpus, d \notin ToSet(ms_head)
               PROVE  queue'[d] = <<>> /\ (fd_open[d] => gave_up[d])
    BY <1>1, <1>19, Zenon DEF LeftBehind
  <2>1. d # c
    BY <1>5
  <2> QED
    BY <1>1, <1>2, <1>8, <2>1 DEF LeftBehind
<1>24. NotEarlier'
  <2> SUFFICES ASSUME NEW d \in ToSet(ms_head)
               PROVE  g + m <= last_time[d] /\ \A i \in 1 .. Len(queue'[d]) : g + m <= queue'[d][i]
    BY <1>1, <1>9, <1>13, <1>19, Zenon DEF NotEarlier
  <2>1. d \in Cpus
    <3>1. PICK k \in 1 .. Len(ms_head) : ms_head[k] = d
      BY <1>3, InList
    <3> QED
      BY <1>3, <3>1, ElementOfSeq
  <2>2. g + m <= last_time[d]
    BY <1>3, <1>10, <1>14, <2>1
  <2>3. CASE d = c
    <3>1. \A i \in 1 .. n : t <= q[i]
      BY <1>6, <1>10, <2>3, Zenon
    <3>2. \A i \in 1 .. n - 1 : g + m <= q[i + 1]
      BY <1>14, <1>15, <3>1, Zenon
    <3> QED
      BY <1>7, <1>8, <2>2, <2>3, <3>2, ZenonT(30)
  <2>4. CASE d # c
    <3>1. \A i \in 1 .. Len(queue[d]) : queue[d][i] \in Nat
      <4>1. queue[d] \in Seq(Times)
        BY <1>3, <2>1
      <4>2. \A i \in 1 .. Len(queue[d]) : queue[d][i] \in Times
        BY <4>1, ElementOfSeq
      <4> QED
        BY <4>2 DEF Times
    <3> QED
      BY <1>8, <1>10, <1>14, <2>1, <2>2, <2>4, <3>1, ZenonT(30)
  <2> QED
    BY <2>3, <2>4
<1>25. \A d \in Cpus : nout'[d] + Len(queue'[d]) = queued'[d]
  <2> SUFFICES ASSUME NEW d \in Cpus PROVE nout'[d] + Len(queue'[d]) = queued[d]
    BY <1>1
  <2>1. nout[d] + Len(queue[d]) = queued[d]
    BY DEF MergeInv
  <2>2. CASE d # c
    BY <1>8, <2>1, <2>2, Zenon
  <2>3. CASE d = c
    <3>1. PICK a \in Nat, b \in Nat : a = nout[c] /\ b = queued[c]
      BY <1>3
    <3>2. a + n = b
      BY <1>6, <2>1, <2>3, <3>1, Zenon
    <3>3. (a + 1) + (n - 1) = b
      BY <3>2
    <3> QED
      BY <1>7, <1>8, <2>3, <3>1, <3>3, Zenon
  <2> QED
    BY <2>2, <2>3
<1> QED
  BY <1>1, <1>2, <1>13, <1>19, <1>20, <1>21, <1>22, <1>23, <1>24, <1>25 DEF MergeInv

LEMMA MergeStep ==
    ASSUME MergeInv, MergeNext
    PROVE  MergeInv'
BY SetupStep, PrimeReadStep, PrimeFailsStep, PrimeDoneStep, HandleStep, EndMergeStep DEF MergeNext

\* What the invariant says of the lines and of the traces left.
LEMMA MergeGives ==
    ASSUME MergeInv
    PROVE  MergedInTimeOrder /\ MergeShowsAll
<1>1. /\ MergeTypes /\ NotEarlier /\ LeftBehind /\ nr = 0
      /\ queue \in [Cpus -> Seq(Times)] /\ ms_head \in Seq(Cpus)
      /\ queued \in [Cpus -> Nat] /\ nout \in [Cpus -> Nat]
      /\ genesis_time \in Nat /\ line_time \in Nat
  BY DEF MergeInv, MergeTypes
<1>2. ASSUME mpc = "merge"
      PROVE  MergedInTimeOrder
  <2>1. Ordered(queue, ms_head)
    BY <1>2 DEF MergeInv, ListInOrder, Refilling
  <2>2. DOMAIN ms_head = 1 .. Len(ms_head)
    BY <1>1, LenProperties
  <2>3. ASSUME NEW k \in 1 .. Len(ms_head)
        PROVE  /\ queue[ms_head[k]] # <<>>
               /\ line_time <= Relative(ms_peek_time(queue, ms_head[k]))
    <3>1. ms_head[k] \in Cpus /\ queue[ms_head[k]] # <<>> /\ ms_head[k] \in ToSet(ms_head)
      BY <1>1, <2>1, ElementOfSeq, InList DEF Ordered
    <3>2. PICK c \in Cpus : c = ms_head[k] /\ queue[c] # <<>> /\ c \in ToSet(ms_head)
      BY <3>1
    <3>3. PICK t \in Times : t = ms_peek_time(queue, c) /\ t = queue[c][1] /\ t \in Nat
      BY <1>1, <3>2, PeekIsTime
    <3>4. PICK g \in Nat, l \in Nat : g = genesis_time /\ l = line_time
      BY <1>1
    <3>5. 1 \in 1 .. Len(queue[c])
      <4>1. queue[c] \in Seq(Times)
        BY <1>1
      <4> QED
        BY <3>2, <4>1, LenProperties, EmptySeq
    <3>6. genesis_time # 0
      <4>1. ms_head # <<>>
        BY <2>3
      <4> QED
        BY <1>2, <4>1 DEF MergeInv
    <3>7. g + l <= t
      BY <1>1, <3>2, <3>3, <3>4, <3>5, <3>6, Zenon DEF NotEarlier
    <3>8. g <= t /\ l <= t - g
      BY <3>3, <3>7
    <3>9. Relative(t) = t - g
      BY <3>4, <3>8, RelativeTime DEF Relative
    <3> QED
      BY <3>2, <3>3, <3>4, <3>8, <3>9
  <2> QED
    BY <1>1, <2>2, <2>3, Zenon DEF MergedInTimeOrder
<1>3. ASSUME mpc = "end", ms_head = <<>>, NEW c \in Cpus
      PROVE  nout[c] = queued[c] /\ (fd_open[c] => gave_up[c])
  <2>1. c \notin ToSet(ms_head)
    BY <1>3 DEF ToSet
  <2>2. queue[c] = <<>> /\ (fd_open[c] => gave_up[c])
    BY <1>1, <1>3, <2>1 DEF LeftBehind
  <2>3. nout[c] + 0 = queued[c]
    BY <2>2 DEF MergeInv
  <2>4. PICK a \in Nat, b \in Nat : a = nout[c] /\ b = queued[c]
    BY <1>1
  <2>5. a = b
    BY <2>3, <2>4
  <2> QED
    BY <2>2, <2>4, <2>5
<1> QED
  BY <1>2, <1>3 DEF MergedInTimeOrder, MergeShowsAll

-----------------------------------------------------------------------------
(* The readers together: main runs one of them. *)

OneReader == lpc = "off" \/ mpc = "off"

IInv ==
    /\ LiveInv
    /\ mpc = "off" \/ MergeInv
    /\ VerifyInv
    /\ OneReader

\* A step of one reader leaves what the others rest on.
LEMMA LiveRests ==
    ASSUME LiveInv, UNCHANGED liveVars, genesis_time' \in Nat
    PROVE  LiveInv'
<1>1. UNCHANGED <<lpc, came, trace_list, rb_sort, last_sequence, skips, sorted, live, flushed>>
  BY DEF liveVars, pipeVars
<1>2. LiveTypes'
  BY <1>1 DEF LiveInv, LiveTypes
<1>3. BatchIsNew'
  BY <1>1, BatchStays
<1>4. TreeIsUnique' /\ ShownOrInTree' /\ LastIsLast' /\ SkipsFit' /\ LiveIsGapless'
  BY <1>1, TreeStays
<1>5. /\ lpc \in {"read", "sort", "show"} => \A c \in Cpus : flushed[c] = <<>>
      /\ lpc = "end" => rb_sort = {}
  BY DEF LiveInv
<1> QED
  BY <1>1, <1>2, <1>3, <1>4, <1>5, Zenon DEF LiveInv

LEMMA MergeRests ==
    ASSUME mpc = "off" \/ MergeInv, UNCHANGED <<mergeVars, genesis_time>>
    PROVE  mpc' = "off" \/ MergeInv'
<1>1. UNCHANGED <<mpc, cur, ndone, fd_open, last_time, queue, ms_head, gave_up,
                  queued, nout, line_time, nr, genesis_time>>
  BY DEF mergeVars, fileVars
<1>2. SUFFICES ASSUME MergeInv PROVE MergeInv'
  BY <1>1
<1>3. MergeTypes'
  BY <1>1, <1>2 DEF MergeInv, MergeTypes
<1>4. StreamsRise' /\ FilesFollow' /\ LeftBehind' /\ NotEarlier'
  <2>1. StreamsRise'
    BY <1>1, <1>2, Zenon DEF MergeInv, StreamsRise
  <2>2. FilesFollow'
    BY <1>1, <1>2, Zenon DEF MergeInv, FilesFollow, SettingUp
  <2>3. LeftBehind' /\ NotEarlier'
    BY <1>1, <1>2, Zenon DEF MergeInv, LeftBehind, NotEarlier
  <2> QED
    BY <2>1, <2>2, <2>3
<1>5. ListInOrder'
  <2>1. /\ Ordered(queue, ms_head)' <=> Ordered(queue, ms_head)
        /\ Ordered(queue, Tail(ms_head))' <=> Ordered(queue, Tail(ms_head))
    BY <1>1, Zenon DEF Ordered, ms_peek_time
  <2>2. Refilling' <=> Refilling
    BY <1>1 DEF Refilling, SettingUp
  <2> QED
    BY <1>1, <1>2, <2>1, <2>2, Zenon DEF MergeInv, ListInOrder
<1> QED
  BY <1>1, <1>2, <1>3, <1>4, <1>5 DEF MergeInv

LEMMA VerifyRests ==
    ASSUME VerifyInv, UNCHANGED verifyVars
    PROVE  VerifyInv'
<1>1. UNCHANGED <<vpc, vcpu, save, ngood, nbad, nbad_cpu, nbad_seq, nbad_dev, nbad_time, rval, file>>
  BY DEF verifyVars, counts
<1>2. /\ GoodTraces' = GoodTraces
      /\ \A k : At(k)' = At(k)
      /\ \A e, f : Follows(e, f)' <=> Follows(e, f)
  BY <1>1, Zenon DEF GoodTraces, At, Follows
<1>3. VerifyTypes'
  BY <1>1 DEF VerifyInv, VerifyTypes
<1>4. KindsFit' /\ GoodFollow' /\ SaveIsLast' /\ BadHasReason'
  <2>1. KindsFit' /\ SaveIsLast'
    BY <1>1, <1>2, Zenon DEF VerifyInv, KindsFit, SaveIsLast
  <2>2. GoodFollow' /\ BadHasReason'
    BY <1>1, <1>2, Zenon DEF VerifyInv, GoodFollow, BadHasReason
  <2> QED
    BY <2>1, <2>2
<1>5. CountsFit'
  BY <1>1, <1>2 DEF VerifyInv, CountsFit
<1> QED
  BY <1>3, <1>4, <1>5 DEF VerifyInv

\* Nothing has been read.
LEMMA InitInv == Init => IInv
<1> SUFFICES ASSUME Init PROVE IInv
  OBVIOUS
<1>1. LiveInv
  <2>1. /\ lpc \in {"read", "off"} /\ came = [c \in Cpus |-> 0] /\ trace_list = <<>> /\ rb_sort = {}
        /\ last_sequence = [c \in Cpus |-> -1] /\ skips = [c \in Cpus |-> <<>>]
        /\ sorted = [c \in Cpus |-> {}] /\ live = [c \in Cpus |-> <<>>]
        /\ flushed = [c \in Cpus |-> <<>>] /\ genesis_time = 0
    BY DEF Init, LiveInit
  <2>2. LiveTypes
    BY <2>1 DEF LiveTypes
  <2>3. BatchIsNew
    BY <2>1 DEF BatchIsNew
  <2>4. \A c \in Cpus : Shown(c) = <<>>
    BY <2>1 DEF Shown
  <2>5. ShownOrInTree
    <3>1. ToSet(<<>>) = {} /\ IsInjective(<<>>)
      BY DEF ToSet, IsInjective
    <3> QED
      BY <2>1, <2>4, <3>1 DEF ShownOrInTree
  <2>6. LastIsLast /\ SkipsFit
    BY <2>1, <2>4 DEF LastIsLast, SkipsFit
  <2>7. LiveIsGapless /\ TreeIsUnique
    BY <2>1 DEF LiveIsGapless, TreeIsUnique
  <2> QED
    BY <2>1, <2>2, <2>3, <2>5, <2>6, <2>7 DEF LiveInv
<1>2. mpc = "off" \/ MergeInv
  <2> SUFFICES ASSUME mpc # "off" PROVE MergeInv
    OBVIOUS
  <2>1. /\ mpc = "setup" /\ cur = 0 /\ ndone = 0
        /\ fd_open = [c \in Cpus |-> FALSE] /\ gave_up = [c \in Cpus |-> FALSE]
        /\ last_time = [c \in Cpus |-> 1] /\ queue = [c \in Cpus |-> <<>>] /\ ms_head = <<>>
        /\ queued = [c \in Cpus |-> 0] /\ nout = [c \in Cpus |-> 0]
        /\ line_time = 0 /\ nr = 0 /\ genesis_time = 0
    BY DEF Init, MergeInit
  <2>2. MergeTypes
    BY <2>1 DEF MergeTypes
  <2>3. StreamsRise /\ FilesFollow /\ LeftBehind /\ NotEarlier
    BY <2>1 DEF StreamsRise, FilesFollow, LeftBehind, NotEarlier
  <2>4. ListInOrder
    BY <2>1 DEF ListInOrder, Refilling, Ordered
  <2> QED
    BY <2>1, <2>2, <2>3, <2>4 DEF MergeInv
<1>3. VerifyInv
  <2>1. /\ vpc \in {"open", "off"} /\ vcpu = 0 /\ save = [seq |-> 0, time |-> 0, dev |-> 0]
        /\ ngood = 0 /\ nbad = 0 /\ nbad_cpu = 0 /\ nbad_seq = 0 /\ nbad_dev = 0
        /\ nbad_time = 0 /\ rval = 0 /\ file = <<>>
    BY DEF Init, VerifyInit
  <2>2. GoodTraces = {} /\ (\A k : At(k) = {}) /\ Cardinality({}) = 0
    BY <2>1, FS_EmptySet DEF GoodTraces, At
  <2>3. VerifyTypes
    BY <2>1 DEF VerifyTypes
  <2>4. KindsFit /\ GoodFollow /\ SaveIsLast /\ BadHasReason
    BY <2>1, <2>2 DEF KindsFit, GoodFollow, SaveIsLast, BadHasReason
  <2>5. CountsFit
    <3>1. /\ Cardinality(GoodTraces) = 0 /\ Cardinality(At("notify")) = 0
          /\ Cardinality(At("magic")) = 0
      BY <2>2, Zenon
    <3>2. Len(file) = 0 /\ \A i \in 1 .. Len(file) : file[i].good
      BY <2>1
    <3>3. 0 + 0 + 0 = 0 /\ 0 + 0 + 0 + 0 + 0 = 0 /\ ~(0 > 0)
      OBVIOUS
    <3> QED
      BY <2>1, <3>1, <3>2, <3>3, Zenon DEF CountsFit
  <2> QED
    BY <2>3, <2>4, <2>5 DEF VerifyInv
<1>4. OneReader
  BY DEF Init, LiveInit, MergeInit, OneReader
<1> QED
  BY <1>1, <1>2, <1>3, <1>4 DEF IInv

LEMMA NextInv == IInv /\ [Next]_vars => IInv'
<1> SUFFICES ASSUME IInv, [Next]_vars PROVE IInv'
  OBVIOUS
<1>1. LiveInv /\ (mpc = "off" \/ MergeInv) /\ VerifyInv /\ OneReader /\ genesis_time \in Nat
  BY DEF IInv, LiveInv, LiveTypes
<1>2. CASE LiveNext /\ UNCHANGED <<mergeVars, verifyVars>>
  <2>1. lpc # "off"
    BY <1>2 DEF LiveNext, EndBatch, SortEntries, ShowLive, EndShow, Flush, EndFlush, ReadEvent
  <2>2. mpc = "off" /\ mpc' = "off"
    BY <1>1, <1>2, <2>1 DEF OneReader, mergeVars
  <2>3. LiveInv'
    BY <1>1, <1>2, LiveStep
  <2>4. VerifyInv'
    BY <1>1, <1>2, VerifyRests
  <2> QED
    BY <2>2, <2>3, <2>4 DEF IInv, OneReader
<1>3. CASE MergeNext /\ UNCHANGED <<liveVars, verifyVars>>
  <2>1. mpc # "off"
    BY <1>3 DEF MergeNext, SetupFile, PrimeRead, PrimeFails, PrimeDone, Handle, EndMerge
  <2>2. lpc = "off" /\ lpc' = "off"
    BY <1>1, <1>3, <2>1 DEF OneReader, liveVars
  <2>3. MergeInv'
    BY <1>1, <1>3, <2>1, MergeStep
  <2>4. genesis_time' \in Nat
    BY <2>3 DEF MergeInv, MergeTypes
  <2>5. LiveInv'
    BY <1>1, <1>3, <2>4, LiveRests
  <2>6. VerifyInv'
    BY <1>1, <1>3, VerifyRests
  <2> QED
    BY <2>2, <2>3, <2>5, <2>6 DEF IInv, OneReader
<1>4. CASE UNCHANGED <<genesis_time, liveVars, mergeVars>> /\ (VerifyNext \/ UNCHANGED verifyVars)
  <2>1. LiveInv'
    BY <1>1, <1>4, LiveRests
  <2>2. mpc' = "off" \/ MergeInv'
    BY <1>1, <1>4, MergeRests
  <2>3. VerifyInv'
    BY <1>1, <1>4, VerifyStep, VerifyRests
  <2>4. OneReader'
    BY <1>1, <1>4 DEF OneReader, liveVars, mergeVars
  <2> QED
    BY <2>1, <2>2, <2>3, <2>4 DEF IInv
<1> QED
  BY <1>2, <1>3, <1>4 DEF Next, vars

\* What the readers keep between any two of their steps, from which all that
\* follows is derived.
THEOREM InductiveInvariant == Spec => []IInv
<1> QED
  BY InitInv, NextInv, PTL DEF Spec

\* check_sequence lets nothing pass that is not the next of its CPU: while a
\* pipe lasts, what is shown of a CPU is a run of consecutive numbers, whatever
\* the batches and the clocks are.
THEOREM LiveOutputIsGapless == Spec => []LiveIsGapless
<1>1. IInv => LiveIsGapless
  BY LiveGives DEF IInv
<1> QED
  BY <1>1, InductiveInvariant, PTL

\* The skips that insert_skip and check_current_skips leave of a CPU that came
\* out in rising order are the numbers that did not come, and the sum that
\* show_device_and_cpu_stats prints is how many they are.
THEOREM SkipsAreWhatIsMissing == Spec => []SkipsAreLosses
<1>1. IInv => SkipsAreLosses
  BY LiveGives DEF IInv
<1> QED
  BY <1>1, InductiveInvariant, PTL

\* Nothing is lost on the way: at its end show_entries_rb(1) has emptied the
\* tree and each number was shown once; when ms_deq has dropped the last stream,
\* every trace that was read has been shown.
THEOREM NothingIsLost == Spec => []EverythingShown
<1>1. IInv => EverythingShown
  BY LiveGives, MergeGives DEF IInv, EverythingShown, MergeShowsAll
<1> QED
  BY <1>1, InductiveInvariant, PTL

\* ms_sort and ms_resort merge the files in the order of time, and so
\* verify_blkparse counts no line out of order.
THEOREM MergeIsInOrder == Spec => []MergedInTimeOrder
<1>1. IInv => MergedInTimeOrder
  BY MergeGives DEF IInv, MergedInTimeOrder
<1> QED
  BY <1>1, InductiveInvariant, PTL

\* blkrawverify's counts are those of the wrong traces of a file, and it returns
\* an error if there was one.
THEOREM VerifierCounts == Spec => []VerifierIsRight
<1>1. IInv => VerifierIsRight
  BY VerifiedRight DEF IInv
<1> QED
  BY <1>1, InductiveInvariant, PTL

=============================================================================
