------------------------------- MODULE BlkIo -------------------------------
(***************************************************************************)
(* The program examples/blk_io_queues as main.c puts it together: the      *)
(* handlers of the queues, of the interrupts and of lost records on one    *)
(* log.  A record is of one id and so goes to one of them; the others let  *)
(* it pass.  The .dat files are what the histogram program reads after.    *)
(***************************************************************************)
EXTENDS BlkIoQueues, Histogram

CONSTANTS Channels,      \* BackRQWait, BackRespWait
          BucketSizes    \* histogram's first argument

ASSUME ChannelsAssumption ==
    /\ Channels \X {"SENT", "RECEIVED"} \subseteq EventIds
    /\ Channels \cap (Queues \cup {NoQueue}) = {}
ASSUME BucketSizesAssumption == BucketSizes \subseteq Nat \ {0}

VARIABLES wdat,          \* the WaitData of each channel
          freed,         \* channels whose finalizer ran
          waitDat,       \* the .dat file of each channel
          heard          \* history: the interrupts of each channel

ioVars == <<blkVars, wdat, freed, waitDat, heard>>

Wait == INSTANCE WaitQueues WITH dat <- waitDat

IoInit == Init /\ Wait!Init

IoRecord(cpu, id, ns) == Record(cpu, id, ns) /\ Wait!Record(cpu, id, ns)

IoEndOfLog == EndOfLog /\ Wait!EndOfLog

(* The finalizers of the queues, and then those of the interrupts, which   *)
(* are registered after them                                               *)
FinalizeQueue(q) == Finalize(q) /\ UNCHANGED <<wdat, freed, waitDat, heard>>

FinalizeWait(ch) ==
    /\ Live = {}
    /\ Wait!Finalize(ch)
    /\ UNCHANGED <<queue, lrt, lostRecCount, dat, told, cut, credited, began>>

IoNext == \/ \E cpu \in Cpus, id \in EventIds, ns \in 1 .. MaxNs : IoRecord(cpu, id, ns)
          \/ IoEndOfLog
          \/ \E q \in Queues : FinalizeQueue(q)
          \/ \E ch \in Channels : FinalizeWait(ch)

IoSpec == IoInit /\ [][IoNext]_ioVars

-----------------------------------------------------------------------------
IoTypeOK == TypeOK /\ Wait!TypeOK

(* The properties of the waits: see WaitQueues.                            *)
WaitsExact == Wait!WaitsExact
WaitSamplesAgree == Wait!SamplesAgree
WaitsImplementLedger == Wait!ImplementsLedger

Files == {dat[q] : q \in Queues} \cup {waitDat[ch] : ch \in Channels}

Within(file, bucket, key) ==
    {i \in DOMAIN file : key * bucket <= file[i] /\ file[i] < (key + 1) * bucket}

(* The histogram of a .dat file has every sample in the bucket within      *)
(* whose printed bounds it lies, and no bucket has a hit that no sample    *)
(* made, apart from the one read that fails at the end of the file, which  *)
(* the loop of main may bucket before it finds out: where that hit lands,  *)
(* nothing is promised.                                                    *)
HistogramHasSamples ==
    ended =>
      \A file \in Files, bucket \in BucketSizes, leftover \in Times :
        LET map == MapWaitTimes(file, bucket, leftover)
            keys == DOMAIN map \cup {t \div bucket : t \in Times}
            hits(key) == IF key \in DOMAIN map THEN map[key] ELSE 0
            samples(key) == Cardinality(Within(file, bucket, key))
        IN \E stray \in keys :
             \A key \in keys :
               /\ samples(key) <= hits(key)
               /\ hits(key) <= samples(key) + (IF key = stray THEN 1 ELSE 0)
=============================================================================
