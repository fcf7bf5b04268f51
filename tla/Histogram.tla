----------------------------- MODULE Histogram -----------------------------
(***************************************************************************)
(* The histogram program of examples/blk_io_queues: it reads the samples   *)
(* of a .dat file and counts them in buckets of equal width.  The keys of  *)
(* the map are the buckets that were hit; key k is printed as the times    *)
(* from k * bucket to (k + 1) * bucket.                                    *)
(***************************************************************************)
EXTENDS Naturals, SequencesExt, KeyedList

(* mutant: the sample that opens a bucket is not counted *)
OpensWithZero(map, time, bucket) ==
    LET key == time \div bucket
    IN Put(map, key, IF key \in DOMAIN map THEN map[key] + 1 ELSE 0)

(* Histogram::bucketData *)
BucketData(map, time, bucket) ==
    LET key == time \div bucket
    IN Put(map, key, IF key \in DOMAIN map THEN map[key] + 1 ELSE 1)

(* What the loop of main buckets: feof is true only after a read failed,   *)
(* and the variable of that read, declared in the body of the loop, then   *)
(* has whatever was left in its place.                                     *)
Reads(file, leftover) == Append(file, leftover)

(* The map that is printed *)
MapWaitTimes(file, bucket, leftover) ==
    FoldLeft(LAMBDA map, time : BucketData(map, time, bucket), << >>,
             Reads(file, leftover))
=============================================================================
