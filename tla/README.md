# PBSkip in TLA+

PBSkip parses an encoded protobuf message, a pprof `Profile`, in parallel. This
directory holds a TLA+ model of it: modules translated from the C++ sources,
TLC configurations that check them on small instances, and TLAPS proofs about
them. Paths below are relative to the repository.

## The system

| component | source | state | operations |
|---|---|---|---|
| Seeker | `src/lib.h` | `curr`, `end` over a shared read-only buffer | `ReadVarint32`, `ReadVarint64`, `ReadTag`, `ReadString`, `Skip` |
| sequential parser | `src/sequential/profile.pbs.cpp` (generated by `src/genFromProto.py`) | the fields of `Profile` and its submessages | `parseProfile` and one `parseX` for each submessage type |
| parallel parser | `src/parallel/profile.pbs.cpp` | the same, and `tracker`: for each field id the positions and lengths of its records | `parseProfile` scans, resizes, then calls one `bulk_add_x` for each repeated field, a `parallel_for` over its records |
| pthreads parser | `src/pthreads/profile.pbs.cpp` | the same, and `NUM_THREADS` | as above; `bulk_add_sample` has `NUM_THREADS` threads of its own, `bulk_add_comment` still uses `parallel_for`, the others are plain loops |
| divide and conquer | `src/dac/profile.pbs.cpp`, `src/dac/time.cpp` | the same, and `prof2`, the profile of the second half | `fillTracker`, `checkValidStart`, `checkValidStartHard`, `MergeParallel`, two threads |
| fork-join scheduler | `schedulers/scheduler.h`, `parallel.h`, `schedulers/work_stealing_job.h` (three copies) | the deques, `finished_flag`, `done` of each job, the stacks of the workers | `parallel_for`, `pardo`, `get_granularity`, `start`, `get_job`, `try_steal`, constructor and destructor |
| deque | `schedulers/scheduler.h` | `bot`, `age` (tag and top), `deq` | `push_bottom`, `pop_bottom` by the owner, `pop_top` by thieves |
| submessages | the same five copies of `profile.pbs.cpp` | the fields of `ValueType`, `Sample`, `Label`, `Mapping`, `Location`, `Line`, `Function` | one `parseX` each, all from the same template |
| Person example | `sequential/person.pbs.cpp` (by hand), `generated/person.pbs.cpp` | the fields of `Person` and `Address` | `parsePerson`, `parseAddress` |
| Google's classes | `schema/profile.pb.cc`, `schema/person.pb.cc` | the same fields | `_InternalParse`, `_InternalSerialize`, `ByteSizeLong`, `MergeFrom`, `Clear` |
| code generators | `src/genFromProto.py`, `src/genPBSToPB.py`, `*/genBulk.py` | none | from a `.proto` file to classes and parse functions; to the conversion that the tests use |
| drivers | `*/testprofile.cpp`, `src/dac/time.cpp`, scripts | none | parse once, compare with Google's parser, print times |

How they interact: a driver maps a file into memory and calls `parseProfile`
with a Seeker over it. The scan is sequential. The `bulk_add` functions share
the buffer, which nobody writes, and the vectors of the profile, which have
their final size by then: iteration i writes slot i. (comment is the exception,
see the findings.) `parallel_for` reaches the scheduler, a static object made
at its first use: it starts one thread less than there are workers, each with a
deque; a job is an object on the stack of the `pardo` that made it and is
passed by pointer.

What is hard: the deque is lock-free and written with relaxed atomics and
fences; jobs that live on stacks are run by other threads while their owner runs
unrelated stolen jobs on top of the frame that waits; the partition of the
samples among threads depends on integer division; records of one kind are
parsed in any order and must land in the order of the message; the Seeker checks
few of the lengths it is given, and what a parse function does with a field it
does not know, or with a file that ends early, differs from copy to copy.

What makes each component correct:

- deque: every pushed job is taken at most once and never lost; the owner's pop
  fails only when the deque is empty; a thief whose exchange succeeds gets the
  oldest job.
- scheduler: each iteration exactly once; `parallel_for` returns after the last;
  `try_pop` in `pardo` returns the own job or nothing; jobs outlive their use;
  every wait ends; shutdown ends every thread.
- pthreads parser: no sample parsed by two threads; every sample by one; no
  thread parses much more than its share; all threads are joined.
- parallel parser: the result is that of the sequential parser.
- divide and conquer: the merged profile is that of the sequential parser.
- Seeker: no read leaves the message it belongs to; a varint is decoded as it was
  encoded, in all its 64 bits.
- submessages, Person, generators: each copy returns the message that was
  written; a file that is cut costs no more than the field it is cut in.
- Google's classes: the size that is written before a submessage is the number of
  bytes that follow.

## The modules

| module | what it is |
|---|---|
| `AtomicDeque` | what the deque promises: each call takes effect in one step |
| `Deque` | the deque, access by access, on x86-TSO |
| `DequeProofs` | its invariant and theorems; that it implements `AtomicDeque` |
| `ParallelFor` | what `parallel_for` promises |
| `ForkJoin` | the scheduler over atomic deques, with the call stacks of the workers |
| `ForkJoinInvariant`, `ForkJoinProofs` | its inductive invariant; that every step keeps it, and what follows |
| `ProfileFields` | a message as a sequence of fields, and the sequential `parseProfile` as a fold over it |
| `Sums` | facts about numbers and sums that the proofs share; induction without induction theorems |
| `ProfileFieldsProofs` | the fold taken field by field, and in two pieces |
| `TrackerParse` | the parallel `parseProfile`: scan, resize, loops |
| `TrackerParseProofs` | its theorems |
| `DacParse` | the divide-and-conquer parser: both threads of `time.cpp`, the search for a start, the trials, the merge |
| `DacParseProofs` | its theorems |
| `SampleThreads` | `bulk_add_sample` of the pthreads parser |
| `SampleThreadsProofs` | its theorems |
| `Seeker` | `lib.h`: varints, tags, strings, sub-Seekers, on bytes |
| `FieldTable` | how a message class is written down: as the set of its fields |
| `SequentialMessages`, `GeneratedMessages`, `ParallelMessages`, `PthreadsMessages`, `DacMessages` | the classes of each copy |
| `Generators` | `genFromProto.py`: from a schema to such classes |
| `MessageParse` | the loop of all parse functions, with its three ways to fail |
| `BulkParse` | with the scan and the loops of the parallel copies; the specification and its own properties |
| `Encoding` | what a writer has put into the bytes of a whole message |
| `BulkParseProofs` | the theorems about the parsers on bytes |
| `WireFormat`, `GoogleProfile`, `GooglePerson` | Google's classes, and the part of its library that writes (external) |
| `PbsToPb` | the conversion of the tests, and `genPBSToPB.py` |
| `ValueStream` | what parsing promises: the values of the message, one by one |
| `ParseResults` | what a parse should give, and the properties that say so |
| `MC*` | constants for TLC |

The layers meet at their abstractions. `Deque` implements `AtomicDeque`, and
`ForkJoin` uses a deque whose calls are atomic; `ForkJoin` implements
`ParallelFor`, and `TrackerParse` lets the iterations of a loop overlap as
`ParallelFor` allows, restricted by what `get_granularity` does: iteration 0
runs alone, before the others.

### Deque and AtomicDeque

`bot`, `age` and `deq` are the atomics of the struct. The sources use relaxed
loads and stores with seq_cst fences and exchanges; GCC compiles them for x86-64
to plain moves, `mfence` and `lock cmpxchg`. So the owner has a store buffer
(`buf`): `Store` appends to it, `Drain` writes its oldest entry to memory at any
time, `Load` looks into it first, `Fenced` (fence and exchange) waits until it is
empty. Thieves store only by exchange. Every action is one access, named after
its function (`Push...`, `Pop...`, `Steal...`). Throwing for a full deque is the
state `thrown`, from which the owner does nothing more.

The refinement mapping (`Items`, `OwnerCall`, `ThiefCall`) gives the owner's
pop its effect at the load of `age` or at its exchange, whichever decides. While
the owner competes for the last job with the thieves, that job still counts as
an item. A thief that returns nothing needs an excuse in `AtomicDeque`: the
deque was empty, the owner was popping, or another thief took a job, at some
time during its call. The excuse is a history variable, set in the same places
in both modules.

Not modelled: the width of the tag (32 bits: it takes 2^32 resets of the deque
during one `pop_top` to confuse a thief) and memory models weaker than x86's.

### ForkJoin and ParallelFor

Each worker is a stack of frames. `CallParfor` to `ParforReturns` are
`parfor` and `get_granularity`; how long a batch takes is left open, so the
granularity is any value the doubling can produce. `Fork` is `spawn` and the call
of `left()`. `PopBottom`
is the `try_pop` after it: whatever job comes out, `right()` is called. `LoopEnds`,
`LoopGoesOn`, `TakeOwn`, `Steal` are `start` and `get_job`, the same for a
spawned thread and for a waiting `pardo`; which deque a thief tries is left
open, so trying an empty one is no step. `StartJob` and `FinishJob` are
`WorkStealingJob::operator()`. `Shutdown` and `JoinAll` are the destructor.

A call of the deque is one step here. A thief of the real deque may come back
with nothing when the deque is not empty: as a step that changes nothing it is
allowed anyway.

Fairness: weak fairness for each worker, because threads are scheduled again and
again; and for each pair of a worker and a deque, because `get_job` goes over the
targets by a hash of an attempt counter and relies on touching them all
(`scheduler.h:259`).

### ProfileFields and TrackerParse

A field is an id, a wire type and its values; a submessage is one value. The
sequential `parseProfile` is `SequentialParse`, a fold of `Apply`. `TrackerParse`
has one action for each branch of the scan, `Resize` for the resizes together with
`new Sample()`, and the loops in the order of their calls. In a loop iteration i
allocates (`New`) and parses (`Parse`) in two steps, except for samples and
strings; in the comment loop a `push_back` is a load of the vector's end and a
store, since that is what two of them can do to each other (they can do worse:
reallocate under each other's hands).

Messages are well-formed, with the wire types an encoder uses. Positions and
lengths are the field's index: the bytes are in `BulkParse`.

### SampleThreads

`AddUp`, `SetPartitionSize`, `Cut`, `EndCut` are the two loops over the sizes,
`Spawn` and `Join` those over the threads, `Enter`, `Parse`, `Exit` the range loop
of a thread. `start_indices[k]` is unchecked: `StartIndex(k)` is any of `Wild`
when k is past the end, again at each evaluation of the loop's condition, and a
thread that goes outside `sample` is a `Crash`, after which nothing is known.
The sums are `uint32_t`, as are the positions in the buffer, so they do not wrap
for a message that a Seeker can hold.

### DacParse

A message is a sequence of fields with sizes. What stands at a position where no
field starts is the inside of a field and may read like anything: `at` gives for
each position from the middle on what a tag read there seems to begin, and
outside the real starts that is any member of `Strays`. This is an
over-approximation: bytes are not shared between the readings, so a stray may be
one that no payload has. The properties that hold do so for more messages than
there are; the two violations need none of the doubtful strays. `dac_unset` uses
zero bytes only. `dac_stale` needs a string that holds two encoded functions, which any
string may. In the behaviour that TLC prints the first of them reaches over the end of
its string, into the tag of the next field; but with a string as the only field, of
which the two functions are the last four bytes, the same happens.

`FirstParse` is a field of the first thread's `parseProfile`; `Search`,
`CheckRejects`, `CheckSkips`, `BeginTrial`, `CheckEnds` are the loop of `time.cpp`
and `checkValidStart`; `Trial...` is `checkValidStartHard`; `Accept` and
`FalsePositive` the comparison with `st`. `TrialOverruns` is a trial that meets a
submessage longer than the rest of the message: it reads on beyond the buffer
and may crash. `prof2Is` tells a profile from a deleted one and from the
uninitialised pointer. `hard` is a history variable. Positions do not wrap: a
stray length near 2^32 that sends the check backwards is left out.

`succskiplim`, 10 in the code, is the constant `SuccSkipLim`: with 0, two fields
with a length have the effect of twelve.

### MessageParse, BulkParse and ParseResults

A byte is the set of its one bits, and so is a number, so that all 64 bits of a
value count; a string is a sequence of bytes. The bytes of an input come from
`_InternalSerialize`, so the encoder is Google's and not one made up for the
model.

All copies of the parsers have one loop. What makes them differ is data: for each
copy and class a set of fields (`FieldTable`), read off the cases of its
`switch`. A field stands for the member, its accessors and its case. The actions
are the kinds of cases: `ReadScalar`, `ReadText`, `EnterMessage` (a submessage:
a new frame on `stack`, the caller's Seeker is moved at once, and `Return` stores
the object), `EnterList`, `NextInList`, `LeaveList` (a packed record, value by
value), `PassField` (no case takes the field, and nothing skips it but Google's
parser, which looks for its end: `UnknownEnds`; a group may end anywhere, and a field
number 0, or an end past the message, makes it fail), `EndOfMessage`. `Fail` is what a failed read does: `exit` in `lib.h`, `false` in
`dac/lib.h` (which most callers ignore: `Heeds`), a failed parse in Google's
code. Bytes behind the end of the file read as 0, since the file is mapped and
its last page is filled up.

`BulkParse` adds `parseProfile` of the parallel copies: `ScanVarint`,
`ScanPeriodType`, `Track`, `PassWire`, then `Resize` and one loop for each kind of
record (`BulkMessage`, `BulkText`, `BulkComment`), whose iterations come in
every order the loop allows. They do not overlap here: `TrackerParse` has that.
pthreads runs with `NUM_THREADS` = 1; `SampleThreads` has the others.

`ParseResults` gives an input its meaning: a sequence of pieces - messages,
single values of packed fields, unknown fields - means its messages merged by
`MergeFrom`. That concatenated messages merge is what the wire format promises.
PBSkip's one exception, a singular submessage that is replaced and not merged, is
`Joined`. `BulkParse` implements `ValueStream` under the mapping of `object` to the
root object: step by step, what is stored is the next value of the message. (A
tracked Profile is filled in another order; `ParsesToMerge` compares its end.)

## What the runs check

| run | instance | result |
|---|---|---|
| `deque` | 2 thieves, 4 jobs, 4 slots | passes |
| `fork_join` | 3 workers, loops of 7, 0 and 3 | passes |
| `tracker_parse` | up to 4 fields out of 11, 2 at a time | passes |
| `tracker_comment` | one packed comment | violated, see below |
| `tracker_race` | up to 3 packed comments | violated, see below |
| `dac_parse` | up to 4 fields of 2 or 3 bytes, 4 kinds of strays | passes |
| `dac_unset` | up to 2 fields, zero bytes inside | violated, see below |
| `dac_stale` | up to 2 fields, one a string that holds encoded functions | violated, see below |
| `message_parse` | 7 parsers, 18 messages alone and cut at every byte, pairs of 8 pieces | passes |
| `sample_threads` | 3 threads, up to 5 samples of 0, 2 or 5 bytes | passes |
| `sample_threads_tail` | 3 threads, up to 4 samples | violated, see below |
| `sample_threads_wild` | 3 threads, up to 2 samples | violated, see below |

Bounds. Two thieves are enough for every pair that competes (two thieves, or a
thief and the owner) and for a third party to interfere; four jobs allow the
deque to be emptied and refilled several times while a thief sleeps inside a
call, and with four slots the owner also reaches the overflow test. It is not
checked for deadlock-free operation by a liveness property: the calls have no
loops, and after the overflow the owner is `thrown`. Seven iterations split into
three levels of `pardo`, with granularities of 1 and 3; three workers allow a
thief to be robbed while it waits. The fields of `tracker_parse` stand for the
kinds of loops: objects made by the caller (sample), by the iteration
(location), strings, and comments; four fields give three records of one kind,
which is what it takes for two of them to overlap. Four fields in `dac_parse` are
what it takes for two starts in the second half, and with that for a hard check
of a real start. A worker of `fork_join` never steals from itself; in the code it
may pick its own deque, but then it has just found it empty. Sizes 0, 2, 5 give groups
that are empty, exactly full and overfull. The messages of `message_parse` have
every field of every class, numbers of one, two and ten bytes (a bit 63, and -1),
a string of 128 bytes whose length takes two, three records of one kind, and
empty submessages, strings and vectors; every message is also cut after each of its bytes.
Two pieces are enough for each pair of kinds to follow each other: what a
function keeps between two fields is its object and its position. `MaxId` is 15,
the largest id of an input; tags with a larger id have two bytes, which the
128-byte string covers for lengths. Unknown fields have payloads that read as
tags of field 0, never as a known field: those store what they say.

Fairness is assumed in `fork_join`, `dac_parse`, `sample_threads` and
`message_parse` (where there is one thread): weak fairness of each thread, because the operating system schedules it again and
again. None of these systems waits for input.

## Findings

- `sample_threads_tail`: sum / NUM_THREADS rounds down, so more than NUM_THREADS
  groups may fill up; the samples of the groups after that are never parsed. What
  is lost is bounded (`TailBound`, proved): fewer than NUM_THREADS bytes.
- `sample_threads_wild`: with fewer groups than threads (for instance one large
  sample, or fewer samples than threads) a thread reads its range past the end
  of `start_indices`.
- `tracker_comment`: `comment.resize` followed by `push_back` puts a 0 before the
  values of a packed comment.
- `tracker_race`: with three or more packed records `push_back` races with
  itself and loses values.

- `dac_unset`: a start close to the end is accepted without a hard check;
  `MergeParallel` then reads through `prof2`, which nobody has set.
- `dac_stale`: the trial of a false start that parses stays in `prof2` when the
  search ends without another trial, and is merged.

Not runs of their own, but stated by the properties of passing runs:

- The first thread of `src/dac` parses the whole message and not its first half
  (`time.cpp:76`), so the merge appends the records of the second half a second
  time. `FirstIsComplete` says what still holds: the first ones are complete.
  `SuffixComesTwice` says exactly what the merge of a checked start adds: every record
  from that start on, once more and in order, and nothing else.
- `parseValueType` of `src/dac` returns false for a `ValueType` without fields, and
  `parseProfile` gives up when `period_type` is one, or at an unknown field
  (`Refused` in `ParsesToMerge`). `FirstIsComplete` and `SuffixComesTwice` are checked
  without them.
- `parsePerson` of `src/sequential` takes the length of packed ages for their number
  (`person.pbs.cpp:113`): an age of two bytes makes it read on behind the record
  (`Miscounted` in `ParsesToMerge`). The generated copy is right.
- A singular submessage that comes twice is replaced, and the first one is leaked
  (`Joined`).
- A field that no case takes is not skipped: its payload is read as tags
  (`PassField`).
- A file that ends inside a submessage is accepted, and zeros behind the end of the
  file are read as its last field. `CutSpoilsOneField` says that this is all.
- The conversion in `profile_pbsTopb.h` dereferences `period_type` unasked:
  `ConversionMatches` has the premise that it is there.

## What is proved

| module | theorems | for every |
|---|---|---|
| `DequeProofs` | `TypeOK`, `NoDoubleTake`, `Conservation`, `StealIsCurrent`, `ImplementsAtomicDeque` | number of thieves and jobs, size of the array |
| `ForkJoinProofs` | `TypeOK`, `EachOnce`, `PopsItsOwn`, `IdleDequeIsEmpty`, `JobIsAlive`, `StartsFreshJob`, `ImplementsParallelFor` | number of threads, sequence of loops, granularities |
| `TrackerParseProofs` | `TypeOK`, `NoNullDeref`, `MatchesSequential` | set of known fields, length of message, overlap of iterations |
| `ProfileFieldsProofs` | `PiecesMerge`: a message may be parsed in two pieces and merged | message of known fields, place to cut it |
| `DacParseProofs` | `TypeOK`, `TrialIsSuffix`; `FirstStartWins`, `FirstIsComplete` and `SuffixComesTwice` without empty `period_type` | set of known fields and their sizes, length of message, strays, `succskiplim` |
| `SampleThreadsProofs` | `TypeOK`, `ParsedOnce`, `LoadBound`, `TailBound`, `UnparsedIsTail` | number of threads, samples and their sizes |
| `BulkParseProofs` | `TypeOK` | set of inputs of the seven copies, whole or cut |
| `BulkParseProofs` | `FramesNest`, `NoWideShift`, `ReturnsAtEnd` | input that somebody has written (`Written`) |

The assumptions are those of the modules: there is a thread; the array has a slot;
loops have a natural number of iterations; `NumThreads` is positive, sizes are
naturals, `Wild` is a nonempty set of integers; fields are known to the schema, in
a wire type an encoder gives them, and in `DacParse` longer than their tag; an input of
`BulkParse` names one of the seven copies and a class it can start with, and its buffer
is a sequence of bytes.
TLC evaluates each of them in the runs. None of the properties is inductive by
itself. TLC has checked each `IInv` on small instances before it was proved.

**The deque.** `IInv` says for each position of the owner what may be in its store
buffer (`BufInv`): at most two stores, and none at a load, because a fence or an
exchange comes before each. From that follows what `bot` is in memory, compared with
the owner's copy (`BotInv`), and that `top` is never beyond the bottom, except from
the moment when the last job is gone to that when `age` is reset (`AgeInv`,
`Resetting`). `ThiefInv` is the heart: a thief that has seen a job, and whose copy
of `age` still equals `age`, has a job to take. `bot` cannot have come down to it
unless the owner has competed for the job or reset the deque, and then `age`
has another top or another tag. `HeldInv` counts: a job that was pushed is in one
slot between top and bottom, or was taken once, or is in the owner's hands.
Tags are naturals here; that a 32-bit tag comes round is left out, as
said above.

The refinement maps each access to a call of `AtomicDeque` or to a stutter. What it
needs besides is that a thief that goes away with nothing has an excuse
(`ExcuseInv`): whoever changed `age`, or made bot come down, has excused it in
the same step.

**The scheduler.** Stacks are counted from the bottom (`frames`), so that a call
does not move the frames that wait, and each step is one of four changes of one
stack (`Rewritten`, `Entered`, `Left`, `Returned`). The pieces of the loop that
nobody has begun - the range in the hands of each worker, and each job of each
deque - are disjoint and not executed (`PieceInv`, `SlotInv`): that gives `EachOnce`.
Each job in a deque or in somebody's hands has one owner, a `pardo` that has not
returned (`AliveInv`, `OwnerInv`): that gives `JobIsAlive` and
`StartsFreshJob`. What an owner waits for is in its own deque, is run by somebody
or is finished (`OwnedInv`), and the deque of a worker holds the right parts of
its frames in the order of the stack, of which none lies below a frame that waits
(`DequeInv`): that gives `PopsItsOwn` and `IdleDequeIsEmpty`. A split is strictly inside its
range because a range that is split has more than `granularity` >= 1 iterations.
For `ImplementsParallelFor` a loop that returns must have executed everything: each
frame knows what its caller has given it and what is done of that (`StackInv`,
`FrameInv`, `FinishedInv`).

**Folds.** The sequential parser is a fold. The library defines a fold by a
recursive function over an interval of naturals, so a theorem about the
parser of one field more needs an induction. The library's induction theorems
cannot be used here (they take an operator); instead `UpTo` of `Sums` takes the least
number for which the claim fails, which exists since < is well-founded on the
naturals. `ParseOneMore`, a lemma, is what the other proofs use. `PiecesMerge` says
what the loop itself must be like: a field does to the merge of two profiles what it
does to the second (`ApplyMerges`, by the kind of field), so what is parsed of a message
is the merge of what is parsed of its pieces, wherever it is cut between two fields.
That is false of a loop that keeps something from one field to the next, puts a record
in front, or lets the first of two numbers count. `Sums` does the same for the sum of a function over a set, also a fold, by the least cardinality
of a set for which two ways to add disagree: the sizes of the fields in `DacParseProofs`,
and the powers of two that make up a number in `BulkParseProofs`.

**The tracker.** `ScanIsRight`: at every moment of the scan, what it has stored and
what `tracker` points to is what the sequential parser makes of the fields
before `pos`. `SlotsAre` says what each slot of each vector holds, by the loop that is
running and the position of the slot's own iteration: null or a fresh object, then
an object nobody has parsed into, then the record. No iteration reads or writes
another's slot, so their overlap does not matter; the comments, where it does, are
not part of `MatchesSequential`.

**Divide and conquer.** `Layout`: the fields lie one behind the other, from 0 to the end
of the message. So a thread that stands at a real start comes to real starts only,
whatever the strays are (`StartInv`), and its profile is what the sequential parser
makes of the fields passed so far (`FirstInv`, `TrialInv`). The first gives
`FirstStartWins`, the second `TrialIsSuffix` and, with the merge that appends,
`FirstIsComplete`. For `SuffixComesTwice` a checked start cuts the message in two
(`PiecesMerge`): the first thread's profile is already the merge of the first piece with
`prof2`, and merging `prof2` again adds its records only (`MergeOfSuffix`). The
fields of the run have numbers but no `period_type`; that the merge keeps `period_type`
is said by the theorem alone. `FirstStartWins`, `FirstIsComplete` and
`SuffixComesTwice` have the hypothesis `NoEmptyPeriodType`: they are false when a `ValueType` without fields is the `period_type`,
where `parseProfile` of `src/dac` gives up (see the findings). The instance that is
checked has no such field either.

**The samples.** `IInv` adds what
`start_indices` is: it starts with 0, never decreases, never exceeds the number of
samples cut so far, and each closed group reaches `partitionSize`, so that k
groups hold at least k times `partitionSize` bytes (this gives `TailBound`, with
sum < NumThreads * (partitionSize + 1)); that a group is less than
`partitionSize` before its last sample (this gives `LoadBound`); that once the
threads run `start_indices` does not change; and that a bounded thread has parsed
exactly the samples from its first index up to j (this gives `ParsedOnce`, since
the ranges are disjoint, and `UnparsedIsTail`, since they are adjacent).

**The parsers on bytes.** What holds for every input, damaged or not, is `TypeInv`: the
objects on the stack have the fields of their classes, each was made for a submessage of
the one below, the calls are three deep at most, positions and ends are naturals, and each
record that the scan has noted starts inside the file. `TypeOK` follows.

`FramesNest`, `NoWideShift` and `ReturnsAtEnd` need more, because `lib.h` compares few
lengths with the end: they hold when the bytes were written as a message. `Encoding` says
what that means without using the parse functions. It walks over the bytes by Google's
tables and collects the parts: from here to there lie the fields of this class, or the
values of this packed record. `Written` says that the parts reached from the whole message
all lie inside it and none is broken: a varint ends in its part and has no more bytes
than a writer gives its type, and a length stays within its part. Two clauses are about PBSkip
and not about writers, and the properties are false without them: a payload that PBSkip does
not skip must itself read as fields, and the packed ages that `src/sequential` counts by
their bytes must have one byte each (both are among the findings). `WrittenInputs`,
which TLC evaluates, says that every whole input of `message_parse` is `Written`, but
for the long ages in `src/sequential`, on which TLC still checks the properties.

The inductive invariant is `PartsInv`: every frame of the stack stands at the beginning of a
part with the frame's own class and end, or at the beginning of a value of a packed part with the
rest of the frame's message behind it; what a caller goes on with is a part, and it begins
where the inner one ends; the records of `tracker` are parts; and no shift was too wide
so far. Each step goes from a part to one of `PartsAfter`. Most of the work is in what the
reads return: that `ReadVarint64` and `ReadVarint32` stop at the same byte, that a number is the
sum of its bits below 2^64, that a varint of ten bytes shifts by 63 at most, and that
the table of each copy has the fields of Google's.

Only model-checked:

- `Termination` of each component: liveness under fairness is out of the prover's
  reach.
- `ParsesToMerge`, `CutSpoilsOneField`, `SizesAreExact` and `ConversionMatches` of
  `ParseResults`, and that `BulkParse` implements `ValueStream`. They compare the parse with
  Google's serializer, the merge and the conversion, which go down into messages
  of any depth: that takes induction over data, and `ParseResults` reaches the
  recursive operators of `PbsToPb`, for which there is no prover.

## Not modelled

- 32-bit positions: `curr + len` may wrap for a length near 2^32, which takes a
  damaged file. Lengths are exact here.
- Damaged files other than cut ones: a length or a tag in the middle of a file that
  says something else. In C++ such a parse may read outside the mapping.
- What Google's parser has added of a packed record that is cut, the last element from
  the bytes that are left: the model drops it. The parse fails in either case, and
  `CutSpoilsOneField` allows both.
- `Buffer`: `open`, `fstat`, `mmap`. That the last page of a mapped file is filled
  up with zeros is used, and that a file ends inside a page.
- `clear()` and the `bulk_add` functions of `src/dac`, which nothing calls;
  `generate_H` of `genFromProto.py`, which writes declarations; the `genBulk.py`
  scripts, whose output is pasted by hand into the parallel copies, where it is
  modelled.
- Google's accessors, arenas, reflection and descriptors (`*.pb.h`, most of it
  inline accessors): the models read and write the members themselves.
- A second `parseProfile` on one object, which no program does: `tracker` would
  still hold the first message's records.
- `exit` from inside a `parallel_for`, with the workers and the static scheduler's
  destructor running: `BulkParse` takes it for the end.
- The schedulers for OpenMP, TBB and Cilk, which no build selects, and the drivers'
  time measurements.

## Plan

1. done: `SampleThreads`, `Deque`, `ForkJoin`, `TrackerParse`, `DacParse`; the parsers
   on bytes with the Seeker, the submessages, Person, the generators and Google's
   classes (`BulkParse`, `ParseResults`).
2. done: proofs about all of these but `ParseResults`.
3. what would come next: the width of positions (`curr + len` in 32 bits), and the threads of
   `SampleThreads` on the bytes of `BulkParse`.
