----------------------------- MODULE SampleThreads -----------------------------
(* Profile::bulk_add_sample of src/pthreads/profile.pbs.cpp: the samples that  *)
(* the scan recorded in tracker[2] are cut into groups of about sum/NUM_THREADS *)
(* bytes, and NUM_THREADS threads parse one group each.                        *)
(*                                                                             *)
(* The sizes add up to less than 2^32, so the uint32_t sums are not cut off:    *)
(* the records lie one after the other in the buffer, and a Seeker cannot      *)
(* address more.                                                               *)
(*                                                                             *)
(* The caller has put a fresh Sample in every slot of `sample`, so what a      *)
(* thread does to slot j is one step, Parse: parseSample writes that Sample    *)
(* object only, and reads the buffer, which nobody writes.                     *)
EXTENDS Integers, Sequences, FiniteSets

CONSTANTS
  NumThreads,   \* NUM_THREADS, as set by change_num_threads
  MaxSamples,   \* bound on the number of samples of the profile
  Sizes,        \* encoded sizes a sample may have, in bytes
  Wild          \* ints found in memory past the end of start_indices

ASSUME NumThreadsAssumption == NumThreads \in Nat \ {0}
ASSUME MaxSamplesAssumption == MaxSamples \in Nat
ASSUME SizesAssumption == Sizes \subseteq Nat
ASSUME WildAssumption == Wild \subseteq Int /\ Wild # {}

Threads == 0 .. NumThreads - 1

VARIABLES
  n,              \* sample.size()
  len,            \* tr[j].second, the size of sample j
  pc,             \* where the calling thread is
  i,              \* its loop variable
  sum,
  partitionSize,
  startIndices,   \* start_indices; index k of the code is index k + 1 here
  state,          \* of each thread: "unborn", "created", "looping", "exited"
  j,              \* the loop variable of each thread
  parsedBy,       \* history: the threads that have parsed sample j
  prefix          \* history: prefix[k] is the size of samples 0 .. k - 1

inputs == <<n, len>>
master == <<pc, i, sum, partitionSize, startIndices>>
workers == <<state, j, parsedBy>>
vars == <<inputs, master, workers, prefix>>

Init ==
  /\ n \in 0 .. MaxSamples
  /\ len \in [0 .. n - 1 -> Sizes]
  /\ pc = "summing" /\ i = 0 /\ sum = 0 /\ partitionSize = 0
  /\ startIndices = <<0>>
  /\ state = [t \in Threads |-> "unborn"]
  /\ j = [t \in Threads |-> 0]
  /\ parsedBy = [s \in 0 .. n - 1 |-> {}]
  /\ prefix = [k \in 0 .. n |-> 0]

--------------------------------------------------------------------------------
(* The calling thread.                                                         *)

\* One iteration of the loop that adds up the sizes.
AddUp ==
  /\ pc = "summing" /\ i < n
  /\ sum' = sum + len[i]
  /\ i' = i + 1
  /\ prefix' = [prefix EXCEPT ![i + 1] = prefix[i] + len[i]]
  /\ UNCHANGED <<inputs, pc, partitionSize, startIndices, workers>>

SetPartitionSize ==
  /\ pc = "summing" /\ i = n
  /\ partitionSize' = sum \div NumThreads
  /\ pc' = "cutting" /\ i' = 0 /\ sum' = 0
  /\ UNCHANGED <<inputs, startIndices, workers, prefix>>

\* `sum > partition_size`: a group that is exactly full stays open.
CutStrict ==
  /\ pc = "cutting" /\ i < n
  /\ IF sum + len[i] > partitionSize
       THEN startIndices' = Append(startIndices, i + 1) /\ sum' = 0
       ELSE sum' = sum + len[i] /\ UNCHANGED startIndices
  /\ i' = i + 1
  /\ UNCHANGED <<inputs, pc, partitionSize, workers, prefix>>

\* `sum = 0` is forgotten when a group is closed.
CutNoReset ==
  /\ pc = "cutting" /\ i < n
  /\ sum' = sum + len[i]
  /\ IF sum' >= partitionSize
       THEN startIndices' = Append(startIndices, i + 1)
       ELSE UNCHANGED startIndices
  /\ i' = i + 1
  /\ UNCHANGED <<inputs, pc, partitionSize, workers, prefix>>

\* One iteration of the loop that closes a group once it holds partition_size.
Cut ==
  /\ pc = "cutting" /\ i < n
  /\ IF sum + len[i] >= partitionSize
       THEN startIndices' = Append(startIndices, i + 1) /\ sum' = 0
       ELSE sum' = sum + len[i] /\ UNCHANGED startIndices
  /\ i' = i + 1
  /\ UNCHANGED <<inputs, pc, partitionSize, workers, prefix>>

\* The closing index is one past the end.
EndCutPastEnd ==
  /\ pc = "cutting" /\ i = n
  /\ startIndices' = Append(startIndices, n + 1)
  /\ pc' = "spawning" /\ i' = 0
  /\ UNCHANGED <<inputs, sum, partitionSize, workers, prefix>>

EndCut ==
  /\ pc = "cutting" /\ i = n
  /\ startIndices' = Append(startIndices, n)
  /\ pc' = "spawning" /\ i' = 0
  /\ UNCHANGED <<inputs, sum, partitionSize, workers, prefix>>

\* threads[i] = std::thread(parseSampleRange, i)
Spawn ==
  /\ pc = "spawning" /\ i < NumThreads
  /\ state' = [state EXCEPT ![i] = "created"]
  /\ i' = i + 1
  /\ UNCHANGED <<inputs, pc, sum, partitionSize, startIndices, j, parsedBy, prefix>>

EndSpawn ==
  /\ pc = "spawning" /\ i = NumThreads
  /\ pc' = "joining" /\ i' = 0
  /\ UNCHANGED <<inputs, sum, partitionSize, startIndices, workers, prefix>>

\* The loop goes on without waiting for the thread.
JoinWithoutWaiting ==
  /\ pc = "joining" /\ i < NumThreads
  /\ i' = i + 1
  /\ UNCHANGED <<inputs, pc, sum, partitionSize, startIndices, workers, prefix>>

\* thread.join(), for the threads in the order of their creation
Join ==
  /\ pc = "joining" /\ i < NumThreads
  /\ state[i] = "exited"
  /\ i' = i + 1
  /\ UNCHANGED <<inputs, pc, sum, partitionSize, startIndices, workers, prefix>>

Return ==
  /\ pc = "joining" /\ i = NumThreads
  /\ pc' = "returned"
  /\ UNCHANGED <<inputs, i, sum, partitionSize, startIndices, workers, prefix>>

--------------------------------------------------------------------------------
(* parseSampleRange(t). operator[] does not check its index: a read past the   *)
(* end of start_indices is undefined and finds any int.                        *)

StartIndex(k) ==
  IF k < Len(startIndices) THEN {startIndices[k + 1]} ELSE Wild

\* The threads whose two indices are both inside start_indices; the others
\* are wild.
Bounded(t) == t + 1 < Len(startIndices)

Enter(t) ==
  /\ state[t] = "created"
  /\ \E s \in StartIndex(t) : j' = [j EXCEPT ![t] = s]
  /\ state' = [state EXCEPT ![t] = "looping"]
  /\ UNCHANGED <<inputs, master, parsedBy, prefix>>

\* `j <= start_indices[i + 1]`
ParseInclusive(t) ==
  /\ state[t] = "looping"
  /\ \E end \in StartIndex(t + 1) : j[t] <= end
  /\ j[t] \in 0 .. n - 1
  /\ parsedBy' = [parsedBy EXCEPT ![j[t]] = @ \union {t}]
  /\ j' = [j EXCEPT ![t] = @ + 1]
  /\ UNCHANGED <<inputs, master, state, prefix>>

\* The loop variable is not advanced.
ParseNoAdvance(t) ==
  /\ state[t] = "looping"
  /\ \E end \in StartIndex(t + 1) : j[t] < end
  /\ j[t] \in 0 .. n - 1
  /\ parsedBy' = [parsedBy EXCEPT ![j[t]] = @ \union {t}]
  /\ UNCHANGED <<inputs, master, state, j, prefix>>

Parse(t) ==
  /\ state[t] = "looping"
  /\ \E end \in StartIndex(t + 1) : j[t] < end
  /\ j[t] \in 0 .. n - 1
  /\ parsedBy' = [parsedBy EXCEPT ![j[t]] = @ \union {t}]
  /\ j' = [j EXCEPT ![t] = @ + 1]
  /\ UNCHANGED <<inputs, master, state, prefix>>

\* tr[j] and sample[j] are accesses outside their vectors. What they touch is
\* not the program's any more: the model ends here.
Crash(t) ==
  /\ state[t] = "looping"
  /\ \E end \in StartIndex(t + 1) : j[t] < end
  /\ j[t] \notin 0 .. n - 1
  /\ pc' = "crashed"
  /\ UNCHANGED <<inputs, i, sum, partitionSize, startIndices, workers, prefix>>

Exit(t) ==
  /\ state[t] = "looping"
  /\ \E end \in StartIndex(t + 1) : j[t] >= end
  /\ state' = [state EXCEPT ![t] = "exited"]
  /\ UNCHANGED <<inputs, master, j, parsedBy, prefix>>

--------------------------------------------------------------------------------
Master ==
  \/ AddUp \/ SetPartitionSize \/ Cut \/ EndCut
  \/ Spawn \/ EndSpawn \/ Join \/ Return

Worker(t) == pc # "crashed" /\ (Enter(t) \/ Parse(t) \/ Crash(t) \/ Exit(t))

\* The function has returned, or there is no program any more.
Stopped == pc \in {"returned", "crashed"} /\ UNCHANGED vars

Next == Master \/ (\E t \in Threads : Worker(t)) \/ Stopped

\* Every thread is an operating system thread that is scheduled again and again.
Fairness == WF_vars(Master) /\ \A t \in Threads : WF_vars(Worker(t))

Spec == Init /\ [][Next]_vars
FairSpec == Spec /\ Fairness
--------------------------------------------------------------------------------
(* Properties.                                                                 *)

States == {"unborn", "created", "looping", "exited"}

TypeOK ==
  /\ n \in Nat
  /\ len \in [0 .. n - 1 -> Nat]
  /\ pc \in {"summing", "cutting", "spawning", "joining", "returned", "crashed"}
  /\ i \in Nat /\ sum \in Nat /\ partitionSize \in Nat
  /\ startIndices \in Seq(0 .. n)
  /\ state \in [Threads -> States]
  /\ j \in [Threads -> Int]
  /\ parsedBy \in [0 .. n - 1 -> SUBSET Threads]
  /\ prefix \in [0 .. n -> Nat]

\* The bytes of samples a .. b - 1.
Bytes(a, b) == prefix[b] - prefix[a]

AllBounded == \A t \in Threads : Bounded(t)

\* Two threads whose bounds come from start_indices never parse the same
\* sample: Sample objects are written without any lock, and parseSample appends
\* to what is there.
ParsedOnce ==
  \A s \in 0 .. n - 1 : \A t, u \in parsedBy[s] :
    Bounded(t) /\ Bounded(u) => t = u

\* README: "each thread will parse approximately (size_of_Profile/num_threads)
\* bytes". A thread goes on to a further sample only while what it has parsed
\* is less than partition_size, so it exceeds it by less than one sample.
LoadBound ==
  \A t \in Threads :
    Bounded(t) /\ state[t] \in {"looping", "exited"} =>
      \/ j[t] <= startIndices[t + 1] + 1
      \/ Bytes(startIndices[t + 1], j[t] - 1) < partitionSize

\* When bulk_add_sample returns and all bounds came from start_indices, every
\* sample has been parsed but those after the first NUM_THREADS groups.
UnparsedIsTail ==
  pc = "returned" /\ AllBounded =>
    \A s \in 0 .. n - 1 :
      parsedBy[s] = {} <=> s >= startIndices[NumThreads + 1]

\* Those left over hold fewer than NUM_THREADS bytes together: they are what
\* the division sum / NUM_THREADS rounds off.
TailBound ==
  pc \in {"joining", "returned"} /\ AllBounded =>
    Bytes(startIndices[NumThreads + 1], n) < NumThreads

\* Every thread leaves its loop and is joined, with any bounds it may have read.
Termination == <>(pc \in {"returned", "crashed"})

\* README: "Then parse the submessages in parallel at its respective
\* positions." No sample with any content is skipped.
AllSamplesParsed ==
  pc = "returned" /\ AllBounded =>
    \A s \in 0 .. n - 1 : len[s] > 0 => parsedBy[s] # {}

\* README: "each thread will parse approximately (size_of_Profile/num_threads)
\* bytes": the range of a thread is a range of start_indices.
RangesInBounds == \A t \in Threads : state[t] # "unborn" => Bounded(t)
================================================================================
