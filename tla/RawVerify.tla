----------------------------- MODULE RawVerify -----------------------------
(***************************************************************************)
(* blkrawverify: reads the files of a device one after the other, checks   *)
(* every trace against the last good one of its file and counts what is    *)
(* wrong.  A file may hold anything here: notifies, traces of another CPU, *)
(* of another device or out of order, and what is no trace at all.         *)
(***************************************************************************)
EXTENDS BlkparseInput

CONSTANTS
    VerifyRecords    \* bound: records read of one file

ASSUME VerifyAssumption == VerifyRecords \in Nat

Devices == {1, 2}

VARIABLES
    vpc,             \* in main's loop ("open"), in process ("file"), at its end
    vcpu,            \* the file's number
    save,            \* save_sequence, save_time and save_device
    ngood, nbad,
    nbad_cpu, nbad_seq, nbad_dev, nbad_time,
    rval,            \* what blkrawverify will return
    file             \* history: what was read of the file, and if it was good

counts     == <<ngood, nbad, nbad_cpu, nbad_seq, nbad_dev, nbad_time>>
verifyVars == <<vpc, vcpu, save, counts, rval, file>>

NoCounts == /\ ngood' = 0 /\ nbad' = 0
            /\ nbad_cpu' = 0 /\ nbad_seq' = 0 /\ nbad_dev' = 0 /\ nbad_time' = 0

VerifyInit ==
    /\ vpc = IF reader = "blkrawverify" THEN "open" ELSE "off"
    /\ vcpu = 0 /\ save = [seq |-> 0, time |-> 0, dev |-> 0]
    /\ ngood = 0 /\ nbad = 0
    /\ nbad_cpu = 0 /\ nbad_seq = 0 /\ nbad_dev = 0 /\ nbad_time = 0
    /\ rval = 0 /\ file = <<>>

\* main: the next file, up to the first number that is not there; a device
\* without any is an error. A file that is there but cannot be opened counts as
\* one without a fault.
OpenNext ==
    /\ vpc = "open"
    /\ \/ /\ vcpu < NCpus
          /\ \/ vpc' = "file" /\ UNCHANGED vcpu
             \/ vcpu' = vcpu + 1 /\ UNCHANGED vpc
          /\ save' = [seq |-> 0, time |-> 0, dev |-> 0]
          /\ file' = <<>>
          /\ NoCounts
          /\ UNCHANGED rval
       \/ /\ vpc' = "end"
          /\ rval' = IF vcpu = 0 THEN 1 ELSE rval
          /\ UNCHANGED <<vcpu, save, counts, file>>

Log(kind, r, good) == file' = Append(file, [kind |-> kind, rec |-> r, good |-> good])

\* A trace that is not good leaves what the next one is compared with alone.
Bad(kind, r) == nbad' = nbad + 1 /\ Log(kind, r, FALSE) /\ UNCHANGED <<vpc, save, ngood>>

Reading == vpc = "file" /\ Len(file) < VerifyRecords

\* CHECK_MAGIC fails: no counter of its own goes up.
BadMagic ==
    /\ Reading /\ Bad("magic", save)
    /\ UNCHANGED <<vcpu, nbad_cpu, nbad_seq, nbad_dev, nbad_time, rval>>

BadCpu ==
    /\ Reading /\ Bad("cpu", save) /\ nbad_cpu' = nbad_cpu + 1
    /\ UNCHANGED <<vcpu, nbad_seq, nbad_dev, nbad_time, rval>>

Notify ==
    /\ Reading /\ Log("notify", save, TRUE)
    /\ UNCHANGED <<vpc, vcpu, save, counts, rval>>

\* Mutant of CheckTrace: a trace out of order is the one to compare with next.
CheckTrace_SavesBad(r) ==
    LET late    == ngood > 0 /\ r.seq <= save.seq
        earlier == ngood > 0 /\ ~late /\ r.time <= save.time
        other   == ngood > 0 /\ ~late /\ ~earlier /\ r.dev # save.dev
    IN
    /\ nbad_seq'  = IF late THEN nbad_seq + 1 ELSE nbad_seq
    /\ nbad_time' = IF earlier THEN nbad_time + 1 ELSE nbad_time
    /\ nbad_dev'  = IF other THEN nbad_dev + 1 ELSE nbad_dev
    /\ save' = r /\ Log("trace", r, ~late /\ ~earlier /\ ~other) /\ UNCHANGED vpc
    /\ IF late \/ earlier \/ other THEN nbad' = nbad + 1 /\ UNCHANGED ngood
       ELSE ngood' = ngood + 1 /\ UNCHANGED nbad

\* The sequence number must rise, else the time, else the device must be the
\* same; of two traces at one nanosecond the second is a "time regression".
CheckTrace(r) ==
    LET late    == ngood > 0 /\ r.seq <= save.seq
        earlier == ngood > 0 /\ ~late /\ r.time <= save.time
        other   == ngood > 0 /\ ~late /\ ~earlier /\ r.dev # save.dev
    IN
    /\ nbad_seq'  = IF late THEN nbad_seq + 1 ELSE nbad_seq
    /\ nbad_time' = IF earlier THEN nbad_time + 1 ELSE nbad_time
    /\ nbad_dev'  = IF other THEN nbad_dev + 1 ELSE nbad_dev
    /\ IF late \/ earlier \/ other THEN Bad("trace", r)
       ELSE /\ ngood' = ngood + 1 /\ save' = r
            /\ Log("trace", r, TRUE) /\ UNCHANGED <<vpc, nbad>>

ReadTrace ==
    /\ Reading
    /\ \E s, t \in Times, d \in Devices : CheckTrace([seq |-> s, time |-> t, dev |-> d])
    /\ UNCHANGED <<vcpu, nbad_cpu, rval>>

\* main, after process.
Leave(n) ==
    /\ vpc' = "open" /\ vcpu' = vcpu + 1
    /\ rval' = IF n > 0 THEN 1 ELSE rval

\* A trace whose pdu is cut off ends the file and counts as a bad sequence too.
CutOff ==
    /\ Reading /\ Log("pdu", save, FALSE)
    /\ nbad' = nbad + 1 /\ nbad_seq' = nbad_seq + 1
    /\ Leave(nbad')
    /\ UNCHANGED <<save, ngood, nbad_cpu, nbad_dev, nbad_time>>

\* The end of the file, or a version that is not supported.
EndFile ==
    /\ vpc = "file" /\ Leave(nbad)
    /\ UNCHANGED <<save, counts, file>>

VerifyNext == \/ OpenNext \/ BadMagic \/ BadCpu \/ Notify \/ ReadTrace \/ CutOff \/ EndFile

-----------------------------------------------------------------------------
Follows(a, b) == a.rec.seq < b.rec.seq /\ a.rec.time < b.rec.time /\ a.rec.dev = b.rec.dev
At(kind)      == {i \in DOMAIN file : file[i].kind = kind}
GoodTraces    == {i \in At("trace") : file[i].good}

\* process compares with the last good trace only. What it finds is what there
\* is: it has nothing to say against a file exactly if the file's traces rise in
\* number and time, are of one device and of its CPU and all can be read; its
\* good traces do so whatever stands between them; and the counters it prints,
\* with the bad magics it does not print, are the bad traces.
VerifierIsRight ==
    /\ nbad = 0 <=> /\ DOMAIN file = At("trace") \cup At("notify")
                    /\ \A i, j \in At("trace") : i < j => Follows(file[i], file[j])
    /\ \A i, j \in GoodTraces : i < j => Follows(file[i], file[j])
    /\ ngood = Cardinality(GoodTraces)
    /\ ngood + nbad + Cardinality(At("notify")) = Len(file)
    /\ nbad = nbad_cpu + nbad_seq + nbad_dev + nbad_time + Cardinality(At("magic"))
    /\ vpc = "open" /\ nbad > 0 => rval = 1

=============================================================================
