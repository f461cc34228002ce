------------------------------ MODULE SagaBuild ------------------------------
(***************************************************************************)
(* build_saga_from_tenant (saga/build.rs): a reservoir sample of the       *)
(* tenant's vectors, k-means over it from k-means++ seeds, and the top     *)
(* tags.  Vectors are points of a line, whole multiples of Scale, so that  *)
(* every mean of a cluster is a whole number too; each draw of the random  *)
(* generator is a choice.                                                  *)
(*                                                                         *)
(* refresh_saga and the background refresh ask the tenant for its record   *)
(* count first and for its vectors later.  Others insert and forget in     *)
(* between, so any count may come with any vectors.                        *)
(***************************************************************************)
EXTENDS Integers, SequencesExt, Sorting

CONSTANTS
  Scale,         (* distance of neighbouring points                        *)
  Point,         (* what vectors there are                                 *)
  LengthBound,   (* a tenant has no more vectors than this                 *)
  Reservoir,     (* RESERVOIR_SAMPLE                                       *)
  DefaultK,      (* default_k_for, for every record count there may be     *)
  MaxIter,       (* KMEANS_MAX_ITER                                        *)
  Tolerance,     (* 1 / KMEANS_TOLERANCE                                   *)
  TagCount,      (* how many tags there are                                *)
  TagBound,      (* no tag occurs more often                               *)
  TopTags,       (* TOP_TAGS                                               *)
  NoFile         (* nothing was written                                    *)

ASSUME SagaAssumption ==
  /\ Scale \in Nat \ {0} /\ Reservoir \in Nat \ {0} /\ LengthBound \in Nat
  /\ \A n \in 1..Reservoir : Scale % n = 0
  /\ \A x \in Point : x \in Nat /\ x % Scale = 0
  /\ DefaultK \in [DOMAIN DefaultK -> Nat \ {0}] /\ DOMAIN DefaultK \subseteq Nat
  /\ MaxIter \in Nat \ {0} /\ Tolerance \in Nat
  /\ TagCount \in Nat /\ TagBound \in Nat /\ TopTags \in Nat

(* Tags, numbered in their order as strings.                               *)
Tag == 1..TagCount

VARIABLES
  vectors,       (* the tenant's vectors, in the order of its iterator     *)
  recordCount,   (* what it answered when it was asked for its count       *)
  seen,          (* how many of them went by                               *)
  sample,        (* positions in `vectors` of those in the reservoir       *)
  k,             (* how many clusters there will be                        *)
  centroids,     (* the point of each cluster                              *)
  assigned,      (* the cluster of each sampled vector                     *)
  inertia,       (* the cost of every assignment so far                    *)
  pc,            (* "sample", "seed", "assign", "update", "done", "built", *)
                 (* "written"                                              *)
  tags,          (* how often each tag occurs                              *)
  saga,          (* the saga returned                                      *)
  file           (* what is in the saga file                               *)

outcome == <<tags, saga, file>>

given == <<vectors, recordCount>>

buildVars == <<given, seen, sample, k, centroids, assigned, inertia, pc, tags, saga, file>>

Centroid == [cluster_size : Nat, vector : Int]

TagAggregate == [count : Nat, tag : Tag]

Saga == [record_count : Nat, centroids : Seq(Centroid), tags : Seq(TagAggregate)]

BuildTypeOK ==
  /\ vectors \in Seq(Point) /\ recordCount \in DOMAIN DefaultK /\ seen \in 0..Len(vectors)
  /\ sample \in Seq(1..seen) /\ k \in 0..Len(sample)
  /\ centroids \in Seq(Int) /\ assigned \in Seq(1..k)
  /\ inertia \in Seq(Nat)
  /\ pc \in {"sample", "seed", "assign", "update", "done", "built", "written"}
  /\ tags \in [Tag -> 0..TagBound]
  /\ saga \in Saga /\ file \in Saga \cup {NoFile}

EmptySaga == [record_count |-> 0, centroids |-> <<>>, tags |-> <<>>]

BuildInit ==
  /\ vectors \in BoundedSeq(Point, LengthBound) /\ recordCount \in DOMAIN DefaultK
  /\ seen = 0 /\ sample = <<>>
  /\ k = 0 /\ centroids = <<>> /\ assigned = <<>> /\ inertia = <<>>
  /\ pc = "sample"
  /\ tags = [t \in Tag |-> 0]
  /\ saga = EmptySaga /\ file = NoFile

----------------------------------------------------------------------------
(* reservoir_sample.                                                       *)

Sample ==
  /\ pc = "sample" /\ seen < Len(vectors)
  /\ IF Len(sample) < Reservoir
     THEN sample' = Append(sample, seen + 1)
     ELSE \E j \in 0..seen :
            sample' = IF j < Reservoir THEN [sample EXCEPT ![j + 1] = seen + 1]
                                       ELSE sample
  /\ seen' = seen + 1
  /\ UNCHANGED <<given, k, centroids, assigned, inertia, pc, outcome>>

Sampled(i) == vectors[sample[i]]

Distance(x, y) == (x - y) * (x - y)

----------------------------------------------------------------------------
(* kmeans_plus_plus_init.                                                  *)

FirstSeed ==
  /\ pc = "sample" /\ seen = Len(vectors) /\ sample # <<>>
  /\ k' = Min({DefaultK[recordCount], Len(sample)})
  /\ \E i \in DOMAIN sample : centroids' = <<Sampled(i)>>
  /\ pc' = "seed"
  /\ UNCHANGED <<given, seen, sample, assigned, inertia, outcome>>

(* Only where every distance is zero; the last seed again.                 *)
SeedAgain ==
  /\ pc = "seed" /\ Len(centroids) < k
  /\ \A i \in DOMAIN sample : Sampled(i) \in ToSet(centroids)
  /\ centroids' = Append(centroids, Last(centroids))
  /\ UNCHANGED <<given, seen, sample, k, assigned, inertia, pc, outcome>>

(* Any vector that is no seed may be drawn, and the first one always: the  *)
(* threshold may be zero.                                                  *)
NextSeed ==
  /\ pc = "seed" /\ Len(centroids) < k
  /\ \E i \in DOMAIN sample : Sampled(i) \notin ToSet(centroids)
  /\ \E i \in DOMAIN sample :
       /\ i = 1 \/ Sampled(i) \notin ToSet(centroids)
       /\ centroids' = Append(centroids, Sampled(i))
  /\ UNCHANGED <<given, seen, sample, k, assigned, inertia, pc, outcome>>

Seeded ==
  /\ pc = "seed" /\ Len(centroids) = k
  /\ pc' = "assign"
  /\ UNCHANGED <<given, seen, sample, k, centroids, assigned, inertia, outcome>>

----------------------------------------------------------------------------
(* kmeans_lloyd.                                                           *)

(* nearest_centroid: the first of those at the least distance.             *)
Nearest(x) ==
  CHOOSE c \in DOMAIN centroids : \A d \in DOMAIN centroids :
    \/ Distance(x, centroids[c]) < Distance(x, centroids[d])
    \/ Distance(x, centroids[c]) = Distance(x, centroids[d]) /\ c <= d

Assignment == [i \in DOMAIN sample |-> Nearest(Sampled(i))]

Inertia ==
  MapThenSumSet(LAMBDA i : Distance(Sampled(i), centroids[Nearest(Sampled(i))]),
                DOMAIN sample)

(* The cost changed by less than the tolerance; never so when there is     *)
(* none before it, or it was zero.                                         *)
Converged(costs) ==
  LET n == Len(costs)
      change == costs[n - 1] - costs[n]
  IN  n > 1 /\ Tolerance * Max({change, -change}) < costs[n - 1]

(* Mutant: a vector stays in the cluster it was put in first.              *)
AssignMutant ==
  /\ pc = "assign"
  /\ assigned' = IF inertia = <<>> THEN Assignment ELSE assigned
  /\ inertia' = Append(inertia, Inertia)
  /\ pc' = IF Converged(inertia') THEN "done" ELSE "update"
  /\ UNCHANGED <<given, seen, sample, k, centroids, outcome>>

Assign ==
  /\ pc = "assign"
  /\ assigned' = Assignment
  /\ inertia' = Append(inertia, Inertia)
  /\ pc' = IF Converged(inertia') THEN "done" ELSE "update"
  /\ UNCHANGED <<given, seen, sample, k, centroids, outcome>>

Cluster(c) == {i \in DOMAIN assigned : assigned[i] = c}

(* Mutant: counts start at one, so as not to divide by zero.               *)
MeanMutant(S) == MapThenSumSet(Sampled, S) \div (Cardinality(S) + 1)

Mean(S) == MapThenSumSet(Sampled, S) \div Cardinality(S)

(* An empty cluster stays where it is.                                     *)
Moved(c) == IF Cluster(c) = {} THEN centroids[c] ELSE Mean(Cluster(c))

Update ==
  /\ pc = "update"
  /\ centroids' = [c \in DOMAIN centroids |-> Moved(c)]
  /\ pc' = IF Len(inertia) = MaxIter THEN "done" ELSE "assign"
  /\ UNCHANGED <<given, seen, sample, k, assigned, inertia, outcome>>

----------------------------------------------------------------------------
(* aggregate_top_tags, over any stream of tags.                            *)

Top(counts) ==
  LET occur == {t \in Tag : counts[t] > 0}
      sorted == Ordered([t \in Tag |-> t], occur, counts)
  IN  [i \in 1..Min({TopTags, Len(sorted)}) |->
         [count |-> counts[sorted[i]], tag |-> sorted[i]]]

(* build_saga_from_tenant returns; the count is the one it was given.      *)
Build ==
  /\ \/ pc = "done"
     \/ pc = "sample" /\ seen = Len(vectors) /\ sample = <<>>
  /\ tags' \in [Tag -> 0..TagBound]
  /\ saga' = [record_count |-> recordCount,
              centroids |-> [c \in DOMAIN centroids |->
                               [cluster_size |-> Cardinality(Cluster(c)),
                                vector |-> centroids[c]]],
              tags |-> Top(tags')]
  /\ pc' = "built"
  /\ UNCHANGED <<given, seen, sample, k, centroids, assigned, inertia, file>>

----------------------------------------------------------------------------
(* saga/mod.rs: the saga is copied to a skeg-hull saga, which is written,  *)
(* atomically; a peer that reads the file copies it back.                  *)

ToHull(s) ==
  [record_count |-> s.record_count,
   centroids |-> [c \in DOMAIN s.centroids |->
                    [cluster_size |-> s.centroids[c].cluster_size,
                     vector |-> s.centroids[c].vector]],
   tags |-> [t \in DOMAIN s.tags |->
               [count |-> s.tags[t].count, tag |-> s.tags[t].tag]]]

FromHull(hull) ==
  [record_count |-> hull.record_count,
   centroids |-> [c \in DOMAIN hull.centroids |->
                    [cluster_size |-> hull.centroids[c].cluster_size,
                     vector |-> hull.centroids[c].vector]],
   tags |-> [t \in DOMAIN hull.tags |->
               [count |-> hull.tags[t].count, tag |-> hull.tags[t].tag]]]

WriteToPath ==
  /\ pc = "built"
  /\ file' = ToHull(saga)
  /\ pc' = "written"
  /\ UNCHANGED <<given, seen, sample, k, centroids, assigned, inertia, tags, saga>>

BuildNext ==
  \/ Sample \/ FirstSeed \/ SeedAgain \/ NextSeed \/ Seeded
  \/ Assign \/ Update \/ Build \/ WriteToPath

BuildSpec == BuildInit /\ [][BuildNext]_buildVars

----------------------------------------------------------------------------
(* Properties.                                                             *)

(* k-means only ever improves: no assignment costs more than the one       *)
(* before it, also with empty clusters, repeated seeds and ties.           *)
CostFalls == \A i \in 2..Len(inertia) : inertia[i] <= inertia[i - 1]

(* What a peer reads from the file.                                        *)
Read == FromHull(file)

(* A cluster's size is the number of sampled vectors nearest to its point, *)
(* the one peers score it by; only when the iterations ran out do the      *)
(* points move once more after the vectors were counted.  In all, sizes    *)
(* count as many of the vectors read as the reservoir can hold, whatever   *)
(* the record count beside them says.                                      *)
SizesTrue ==
  /\ MapThenSumSet(LAMBDA c : Read.centroids[c].cluster_size, DOMAIN Read.centroids)
       = Min({Len(vectors), Reservoir})
  /\ Converged(inertia) =>
       \A c \in DOMAIN Read.centroids :
         Read.centroids[c].cluster_size =
           Cardinality({i \in DOMAIN sample : Nearest(Sampled(i)) = c})

(* Of the tags that are left out none occurs more often than one that is   *)
(* kept, or equally often and earlier in the alphabet.                     *)
TagsTop ==
  LET kept == {entry.tag : entry \in ToSet(Read.tags)}
  IN  /\ Len(Read.tags) = Min({TopTags, Cardinality({t \in Tag : tags[t] > 0})})
      /\ \A entry \in ToSet(Read.tags), u \in Tag \ kept :
           \/ entry.count > tags[u]
           \/ entry.count = tags[u] /\ entry.tag < u

(* What peers choose members by, the clusters and tags of the saga, is     *)
(* true of the vectors and tags it was built from, whatever the generator  *)
(* draws, however the iterations end, and with a record count that need    *)
(* not be the number of those vectors.                                     *)
SagaTrue == pc = "written" => SizesTrue /\ TagsTop
=============================================================================
