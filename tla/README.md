# A TLA+ model of proteus-java

Proteus is an RPC layer over RSocket: a protoc plugin generates client and
server stubs, and a small Java core dispatches requests to the generated
services and measures them. This directory models the core and the stubs,
checks the models with TLC, and proves the properties that matter most with
TLAPS.

## The system

| Component | State | Operations | Interacts with |
|---|---|---|---|
| `BiInt2ObjectMap` (core/collections) | two parallel arrays `keys`, `values`; `size`; `resizeThreshold` | `put`, `get`, `remove`, `computeIfAbsent`, `clear`, `compact`, `forEach`, growth | called by `RequestHandlingRSocket`; calls the caller's mapping function and consumer back |
| `Hashing` | none | `hash(String)` (FNV-1a), `hash(long, mask)`, `compoundKey` | the map; must agree with the generator's `Hash` |
| `RequestHandlingRSocket` | the map of services; its own monitor | constructor, `addService`, `getService`, four interaction models | the RSocket library calls it from any thread; it calls services |
| `ProteusMetrics`, `ProteusMetricsSubscriber` | one `AtomicBoolean` per subscription; three counters and a timer shared by all subscriptions of one `timed()` | `onSubscribe`, `onNext`, `onError`, `onComplete`, `request`, `cancel` | between a publisher (one signalling thread) and a subscriber (cancels from any thread) |
| `ProteusMetadata` | none | `encode`, `computeLength`, decoders | stubs and `RequestHandlingRSocket` |
| `ProteusService`, `AbstractProteusService`, `ServiceNotFound` | none | ids, default `requestChannel` | implemented by the generated servers |
| Generated client and server stubs | none of their own; they own payload buffers for the time of a call | one method per RPC | the client calls an RSocket, the server is a `ProteusService` |
| Code generator (C++ protoc plugin) | the options; the template variables of the file being printed | `Generate`, the derivation of names and ids, doc comments, `PrintInterface`, `PrintClient`, `PrintServer` | its three outputs must agree with each other, its ids with the library's |

What is hard to test here, and what would make each component correct:

* **The map.** Probe loops that only end at an empty slot; removal by backward
  shift across the end of the array; stale keys behind null values; growth that
  fails after the entry is stored or after the threshold is changed; a mapping
  function that changes the map between the lookup and the store. Correct means:
  no sequence of calls loses, duplicates or revives an entry, and every call
  returns.
* **The RSocket.** Services are added while requests are dispatched. The map is
  not thread-safe; only `synchronized` keeps a lookup out of a `put` or of the
  two assignments that end a rehash. Correct means: calls take effect one after
  the other, a request reaches a service of its ids, nobody waits forever.
* **The metrics.** Completion, error and cancellation race. Correct means: each
  subscription is counted once, the timer agrees with the counters, and no
  signal is swallowed.
* **The stubs.** Who releases a payload on each path; metadata that does not
  fit, or that an earlier subscription has read to its end; one request per
  subscription; a service that reads its metadata after the handler released it.
* **The generator.** Three printers that classify each method separately; names,
  ids and paths that are derived in several places and have to meet; text of the
  .proto file inside Java comments.

`PROJECT.json` lists these hazards at their lines with the properties that
cover them.

## The modules

| Module | Models |
|---|---|
| `IntPairMap` | what the map promises: a partial function, each call taking effect at one instant |
| `BiInt2ObjectMap` | the hash table, one action per loop iteration |
| `MapForEach` | `forEach` over that table while its consumer calls the map |
| `BiInt2ObjectMapProofs` | theorems about the table and about `forEach` |
| `MCBiInt2ObjectMap`, `MCMapForEach` | keys and hashes for TLC |
| `ServiceRegistry` | what the RSocket promises: one registry, atomic calls |
| `RequestHandlingRSocket` | threads, monitor, map seen array access by array access, dispatch |
| `RequestHandlingRSocketProofs` | theorems about it |
| `MCRequestHandlingRSocket` | services, ids and hashes for TLC |
| `ProteusMetricsSubscriber` | the metrics operator with its racing signals |
| `ProteusMetricsSubscriberProofs` | theorems about it |
| `MCProteusMetricsSubscriber` | the instance for TLC |
| `ProteusMetadata` | the metadata frame: layout, encoder, id decoders |
| `ProteusStubs` | generated client and server on one connection, buffer by buffer |
| `ProteusStubsProofs` | theorems about both: releases; the frame; routing and types; leaks and late reads |
| `MCProteusStubs` | methods and server versions for TLC |
| `JavaGenerator` | the plugin's three printers, loop by loop |
| `JavaGeneratorProofs` | theorems about it |
| `MCJavaGenerator` | services for TLC |
| `Identifiers` | names, ids and map keys: the loops of the generator's conversions and of both hashes |
| `DocComment` | a comment of the .proto file on its way into a doc comment |
| `DocCommentProofs` | theorems about it |
| `JavaPlugin` | the plugin's `Generate`: options, packages, files |
| `JavaPluginProofs` | theorem about it |
| `PluginRun` | the three modules above composed into one run of the plugin |
| `PluginRunProofs` | theorems about the run and about `Identifiers` in it |
| `MCPluginRun` | .proto files for TLC |

Operators named `X_Mutant` are plausible slips in the definition `X` that
follows them. Nothing uses them but the mutation runs, in which one of them
replaces `X` and the named property has to fail.

### BiInt2ObjectMap

`keys`, `values`, `size` and `resizeThreshold` are the fields; `capacity` is
`values.length`. A call is a sequence of steps: `Begin...` computes the home
slot, `ProbeNext` is one iteration of a probe loop, `Get`, `Put`, `RemoveHit`,
`RemoveMiss`, `FindPresent`, `FindAbsent` and `StoreComputed` are the ends of
the loops with everything the method does after them, `ChainNext`/`ChainEnd`
are the iterations of `compactChain`, and `RehashSkip`, `RehashEntry`,
`InsertNext`, `Insert`, `RehashEnd` those of `rehash`. `pc` says which loop
runs. The class has no synchronisation, so one call runs at a time; the
exception is the mapping function of `computeIfAbsent`, during which
(`computing # NULL`) other calls start and end. That nesting is one level deep.

The hash is an arbitrary function `HashOf` of the key, taken modulo the
capacity; the load factor is a fraction; `MaxCapacity` stands for 2^30. A fresh
`long[]` is filled with `ZeroKey`, the key (0, 0), which is also a legal key:
this is why only `values` says whether a slot is used. `BeginRehash` and
`Store` keep the code's order: threshold before allocation, entry before
growth, so what an exception leaves behind is a state of the model.
`AllocationMayFail` turns failing allocations on. `Puttable` is what callers
pass to `put`, which does not reject null.

`AbstractMap` maps the table to `IntPairMap`, and `Refinement` says that the
table implements it: each call takes effect in the one step that ends its
probe, and compaction and rehashing change nothing.

### MapForEach

The loop of `forEach` evaluates the field `values` once. `old` is the array it
walks over, with the keys that belonged to it, once a rehash has replaced the
field; until then puts and removals change the array under the loop.
`BeginForEach`, `SkipEmpty`, `Accept` and `EndForEach` are the loop; between two
of its steps the consumer makes any calls (`MapStep` is `Next` of the map).
`before` and `visits` are history: which keys were there at the start and how
often each was passed to the consumer. `VisitedOnce` holds as long as the
consumer removes nothing. After a removal it does not, and nothing in the
repository promises it: `compactChain` moves an entry back across the cursor.

### RequestHandlingRSocket

`Threads` are the threads that have the socket; `Constructor` runs the
constructor first, without the monitor. A call enters the monitor
(`EnterMonitor`), reads and writes `keys` and `values` one access per step,
and leaves it; `Dispatch` is the rest of the handler, outside the monitor.
`RehashSlot` places a whole entry at once, because the arrays it fills are still
local to the thread; `PublishKeys` and `PublishValues` are the two assignments
to shared fields. As in the map, a fresh `long[]` is filled with a legal key
(`ZeroId`), and growth may throw after `put` has stored its entry: at the
largest capacity before anything else has changed, in an allocation once the
threshold is that of the larger table (`GrowFails`, turned on by
`AllocationMayFail`). A thread leaves the monitor with that exception; a
constructor that throws leaves no socket. An exception of a handler becomes an error signal in three of the
interaction models and is thrown in `requestChannel`, which has no `try`.
`Refinement` maps it to `ServiceRegistry` with the registry read off the arrays
(the new ones once their keys are published); a call whose growth throws has
taken effect.

**A growth that fails makes a later lookup hang.** With the real numbers: 8
slots and the load factor 0.55 give the threshold 4. The fifth service makes the
table grow; if an allocation for 16 slots throws, the threshold is already
(int) (16 * 0.55) = 8, over 8 slots. `addService` throws, its service is in the
table, and three more calls fill the last slot without another attempt to grow.
From then on `getService` for an unknown id never meets an empty slot, and as it
spins inside the monitor, all other threads wait for ever. `CallsReturn`
therefore speaks of behaviours in which no growth fails (`GrowthFailed`), and
`rsocket_full` shows what happens in the others.

### ProteusMetricsSubscriber

`onError`, `onComplete` and `cancel` share one shape: `CompareAndSet`,
`Increment`, `Record`, `Forward`. A source signals from one thread and stops
after its terminal signal (the Reactive Streams rules that the operator may rely
on). `OnSubscribeAgain` is `Operators.validate` refusing a second subscription.
`request` and `onNext` pass their argument on and touch no field of the
operator, so they are no steps. `winners` is history: the threads whose
`compareAndSet` returned true. It lets `CountedAsItEnded` say that each counter
is exactly the number of subscriptions won by its signal, less those whose
winner has yet to increment it, however many signals raced.

### ProteusStubs and ProteusMetadata

A call is what the caller has from a client method; each subscription to it is
an exchange, because `defer` and the mapping of a stream run per subscription.
Every buffer of an exchange has a `status`; `wire` is what the RSocket library
holds, with the duty to release it. The actions follow a request:
`SendRequest` (the suppliers of the three calls with one message, with their
order: encode, then serialize) or `SendElement` (the mapping function of the
two calls with a stream, with the opposite order), `Deliver`, `Handle`
(`RequestHandlingRSocket` and the server's handler with its `finally`), `Pull`
(the server's deserializer on an element), `Respond` (the serializer) and
`Receive` (the client's deserializer). `ReadMetadata` is the service reading the
slice of the metadata it was given after its method has returned the `Mono` or
`Flux`. `Lose` is the connection breaking or
either side cancelling. Every conversion may fail, the service may be missing,
and `ServerVersions` has servers generated from an older service definition.

`ProteusMetadata` gives the frame as a function of its bytes, so that reading
it at a wrong offset shows. `EncodeFits` says that the caller's metadata fits
behind the header only if it is empty: `computeLength()` does not count it and
`setBytes` does not enlarge the buffer, so **every call with metadata that is
not empty fails**.

The caller's metadata is a buffer with a reader index (`unread`), which `encode`
reads to its end: a second subscription to the same call, or the second element
of a stream, would send none of it. As `encode` fails on any metadata there is
to read, no request with metadata arrives, and no property speaks of what the
caller's metadata becomes.

Every exchange has buffers of its own, since each run of a supplier allocates
anew. So two subscriptions to one call cannot share a buffer in this model, by
its construction and not as something it shows; what they do share is the call
with its metadata and `once`.

Four more things the models make plain. `once`, meant to send the metadata with
the first element of a stream, is never assigned: every element carries a
frame, which is what `RequestsCarryIds` relies on; with the assignment, the
second subscription to a call would send none at all (this is that property's
mutant). A service that reads its metadata after its method has returned reads a
released buffer, in a stream once the first element was taken, else always:
`KnownStaleReads` leaves no other case. `requestChannel` throws where the other handlers
signal an error. And buffers leak on the failure paths that `KnownLeaks` lists: the
client's, if `encode` or (for a single request) `serialize` throws after the
metadata's buffer was allocated; the server's, if the service is unknown or has
no method at all of the request's interaction model, where the handler is
printed without its `finally`.

### JavaGenerator

`Loops` are the loops over the methods in the order in which the plugin runs
them; each turn of one sets some of the template variables (`dict`) and prints.
A variable that a loop uses without setting keeps an older value, and a new
file starts with an empty map, as in the code. What is printed is kept as
declarations: names, types, RSocket call, switch label. `Body` and `CaseType`
compute the types of the expressions that the client and the server return with
Reactor's operators, so `WellTyped` says that javac would accept the files, and
`Reaches` follows a call from the client's constant to the case it lands in.
Names and ids of two methods may be equal; `Compiles` is javac's refusal of such
a service, the only check there is.

### Identifiers, DocComment, JavaPlugin and PluginRun

`Identifiers` runs the loops over the characters of a name, one iteration per
step: `MixedLower` (with its flag), `ToAllUpperCase`, the generator's `Hash` and
the library's `Hashing.hash`. Characters are their codes and an int is two
halves of 16 bits, because TLC's own integers would overflow; the arithmetic is
modulo 2^32 as in the code. The bits of two halves are joined by a sum over the
powers of two (`And`, `Or`, `Xor`), which TLC can compute and the provers can
reason about. `compoundKey` makes the map's key of two ids, with
the sign extension of Java's cast from int to long.

`DocComment` takes the comment of a descriptor through `EscapeJavadoc` (one
character per step, with `prev`, which starts as an asterisk), `Split`
(`SkipNewline`, `TakeLine`) and `WriteDocCommentBody` (`PrintOpening`,
`PrintLine`, `PrintClosing`). Text is a sequence of tokens, characters and
entities.

`JavaPlugin` is `Generate` in java_plugin.cpp: `ParseOption` is one turn of the
loop over the options, `GenerateFile` opens one file and has it printed,
`Generate` is the return, after which protoc takes all files or, if one path was
opened twice, none. Names are sequences of parts, so that `FooClient` the
service and `Foo`'s client have one name.

`PluginRun` composes them in the order of the code: options, the comment and the
names of one interface, the files.

## The runs

| Run | Instance | Shows |
|---|---|---|
| `map_grow` | 4 keys colliding in a table of 4 that grows to 8, 2 values, load factor 0.55 | safety, `CallsReturn`, `Refinement` |
| `map_fail` | the same keys, 1 value, load factor 0.3, capacity limit 8, allocations may fail | `IndInv` (the invariant of the proofs), the count and `Refinement` with exceptions at every place where one can be thrown |
| `map_foreach` | 3 keys in a table of 4 that grows to 8; the consumer makes any calls | without removals `forEach` visits every entry once |
| `map_compact_load` | 6 keys, load factor 0.71 | *violation*: after `compact` the table is fuller than its load factor allows |
| `map_threshold` | allocations may fail | *violation*: the threshold is not a function of the current capacity |
| `rsocket_threads` | 2 threads with 2 calls each, a constructor with 2 services, 3 ids colliding in a table of 2 that grows to 8, load factor 0.3; every growth may fail | mutual exclusion, dispatch by ids, `Refinement` (with calls whose growth throws), every call returns unless a growth fails |
| `rsocket_full` | the same with the map's own load factor, 0.55 | *violation*: after one failed growth the table fills up, and a lookup of an unknown id never returns |
| `metrics_shared` | 2 subscriptions with shared meters, 1 canceller each | one winner, counted by the meter of its signal; counters and timer agree; every signal is passed on |
| `stubs_calls` | 1 call subscribed to twice, 6 methods of all interaction models, 3 server versions, metadata empty or not, streams of 2 | ownership of every buffer; routing by ids; what a request carries; late reads of the metadata |
| `generator_services` | every service of 0 to 2 methods, with equal or different names and ids, and most of 3 | the three files fit; a call reaches its method |
| `generator_empty` | the unary calls of `test.proto` | *violation*: `EmptyCall` has a response by its comment, and none as printed; docs/index.md asks for `google.protobuf.Empty` |
| `plugin_run` | every comment of up to 4 of 5 characters; every name of up to 4 of 5 characters and the committed ones; up to 2 services with clashing names in 3 packages, up to 2 options | doc comments close at their end and read back; names, ids and keys; every class where javac looks |

**Why the bounds are enough.** The table's behaviour depends on homes and the
order in which slots are taken, so four keys whose homes are the last slot (two
of them), the last slot until the first doubling, and slot 0 give chains that
collide, wrap around, separate on growth and meet again on compaction. Two
values are needed to tell an overwritten value from a kept one; elsewhere one is
enough. The threaded model needs one thread in a put while another looks
something up, hence two threads; growth happens during the constructor's puts
and again during the threads' calls, and may fail in each of them; one failure
is enough to fill a table of 2 with two entries. A race for one `AtomicBoolean` involves the
source and any number of cancellers, and the theorems cover any number; two
subscriptions show that shared meters do not mix them up. In the stubs exchanges share nothing but the call they are
made for, so two subscriptions of one call show what a retry could disturb; a
stream needs a second element to tell the first, which the handler has seen,
from the others. `forEach` needs a table that is replaced under it, with an
entry that moves across the cursor when it is. What is special to
`EscapeJavadoc` are pairs of characters, and pairs across a newline, so four
characters hold two of them; the theorem covers any length. The conversions of
names look at one neighbour. In the generator two methods are the least that can collide or
leave a value behind, and a third separates "the method before" from "some
method before".

Deadlock is checked in the runs of the map, `forEach` included. It is off for the RSocket, whose
threads stop after `CallsPerThread` calls, for the metrics, whose subscriptions
end, for the stubs, whose exchanges end, and for the generator and the plugin, which
finish.

**Fairness.** `WF(Step)` in the map says that the caller's thread executes the
loop it is in; nobody has to make a call and a mapping function may hang.
In the RSocket each thread keeps running (`WF` per thread), which with a bounded
number of calls also gives it the monitor in the end; a JVM monitor is not fair,
and with unboundedly many calls a thread could starve. In the metrics a thread
that is inside a handler runs to its end; no source has to signal.

## Proofs

All theorems hold for every value of the constants allowed by the named
assumptions, so for any number of keys, threads, subscriptions, exchanges,
methods and characters, where the runs have a few.

### The map

`TypeCorrect` holds of the whole model. Then, if no null is put, `IndInvariant`,
`AlwaysReachable` and `AlwaysUniqueKeys`: no sequence of calls loses an entry or
stores a key twice, for any hash function, load factor and capacity, also when
growth throws. `Reachable` and `UniqueKeys` are not inductive: that a store does
not duplicate a key needs what its probe has seen (`ProbeSoFar`), that a
backward shift does not cut a chain needs to know where the hole is
(`HoleIsEmpty` and the exception in `Reachable` for entries `compactChain` has
not reached), and that a rehash ends in a sound table needs the same facts of
the table under construction (`NewTable`, `InsertSoFar`). `IndInv` is their
conjunction. The argument rests on lemmas about cyclic distance (`Distance...`),
on `BelongsInHoleMeaning`, which says what the condition in `compactChain`
decides, and on `AddEntrySound`, used for both `put` and `rehash`.

`AlwaysSizeIsEntries` and `AlwaysRehashedSoFar` count: a write to one slot
changes the number of used slots by what it held before and holds after
(`NumberAfterChange`), so a backward shift, which empties one slot and fills
another, changes nothing, and a rehash has placed as many entries as it has
walked over (`CountInv`).

`ImplementsIntPairMap` is the refinement: every step of the table is a step of
`IntPairMap` or changes nothing in it. With unique keys the partial function is
read off the arrays slot by slot, so one write to one slot is one change of the
function; a backward shift moves a pair and a rehash keeps the pairs
(`CountInv` says that none is missing when the arrays are exchanged); a probe
that ends at an empty slot has seen that its key is absent (`Reachable`).

`AlwaysHasEmptySlot` says that a loop that stops only at an empty slot has one.
This is not true of every table, and `RoomToGrow` names what it takes: allocations do
not fail (a failed one leaves the raised threshold behind, so that the table may
fill up before it tries again); the capacities start at 5 or more (the code's
minimum is 8; at the load factor 0.9, `Math.round(size * (1.0 / loadFactor))`,
to which `compact` shrinks the table, exceeds the size only from 5 on); there are at most
half as many keys as the largest capacity; no null is put. `RoomInv` adds that
the threshold is below the capacity. An earlier form of the property, that no
table is ever full, does not hold at the map's own load factor of 0.9: the
eighth entry fills a table of 8, and only then does it grow. The property
therefore speaks of the table in which a loop runs.

`AlwaysVisitedOnce`: as long as the consumer removes
nothing, an entry stays in its slot until a rehash replaces the arrays, and then
the walk goes on over the old ones. `SeenSoFar` relates `visits` to the slots
that the cursor has passed; `CallsKeepEntries` says of each call what it leaves
in place. `WalkAssumption` says that no null is put and that the model's NULL is
not itself a pair of arrays.

### The RSocket

`AlwaysMutualExclusion` follows from `ExclusionInv`: the monitor names whoever
is in the map, the constructor never makes a lookup (so never leaves a monitor
it did not enter), and no thread has started before the constructor was done.

`ImplementsServiceRegistry` says that the threads' calls take effect one after
the other: reads and writes of the arrays, one access per step, add up to atomic
`add` and `find`. The invariant relates what the thread in the map holds (its
position, the value it has read, the arrays it fills) to the shared arrays; that
no other thread disturbs it between two of its steps is `ExclusionInv`, and that
its place in a probe chain still means something is the table's soundness. The
awkward step is the growth of the table: between `PublishKeys` and
`PublishValues` the fields belong to two tables. The registry is then read off
the arrays that are about to be complete, and nobody else can look.

From the same invariant: `AlwaysTypeOK`; `AlwaysDispatchedByIds`, that a request
reaches a service of its ids or is told there is none; and
`AlwaysInitialServicesFound`, that a service of the constructor is never missed
(`AnswerInv` keeps what the lookup found until the answer is sent, and
`RegisteredInv` says that what the constructor has put stays put). All of this
holds whether or not growth fails: what a failure leaves behind is a sound table
with a threshold that is too high.

`AlwaysEmptySlotAhead` and `AlwaysProbeAdvances` say that no thread probes
forever as long as no growth has failed, an assumption both theorems name
(`[]~GrowthFailed`; `rsocket_full` shows that they need it): there is an empty
slot before the thread, and each turn of the loop brings it one slot nearer,
never around the table again. The table can be full:
a put of its last free slot stores first and grows afterwards. `RoomInv`
says that it is full only while the thread in the map is at that work, and that
the larger table, in which `rehash` itself probes, gets at most one entry per
entry of the old one. A threshold below the capacity needs a load factor below 1
(`RSocketAssumption`; the map's constructor refuses more than 0.9). Neither
formula is a property of a run; TLC has agreed to `RoomInv` and to the first of
them on the instance of `RSocket_threads.cfg` with growth that never fails.

### The metrics

`TypeCorrect` and `AlwaysSoleWinner`, for any number of threads; the
strengthening is that a thread that counts has settled the subscription.
`AlwaysCountedOnce` and `AlwaysOneSampleEach` follow from a stronger relation
between the meters and where every subscription stands: a meter is the number of
the subscriptions that have passed its increment (cardinalities, hence
`FiniteSetTheorems`). `AlwaysCountedAsItEnded` goes further into whose increment
it was (`EndedInv`): a subscription has at most one winner, and has one exactly
if it is settled, in whatever state the threads that lost are (`WonBy`); so a
counter is the number of subscriptions won by its signal whose winner is past
the increment (`Landed`).

### The stubs

`HeaderReadsBack`: what `encode` writes is what the decoders read, for any ids
and any length of the caller's metadata.

`AlwaysReleasedOnce` and `AlwaysParsedAlive`, for any calls, methods, server
versions, number of retries and length of streams. Neither is inductive: that a
release is the first needs to know who holds the buffer (`HeldAlive`: what the
library holds is live; `ArrivedHeld`: a request that waits for its handler is
held), that an allocation does not revive a buffer needs `NotYetSent` and
`FreshExchanges` (an exchange not subscribed to has no buffers).

`StubsTypeCorrect`, `AlwaysRoutedByOwnIds` and `AlwaysCarriesIds`, by an
invariant about the frame of every exchange (`FrameInv`) and `HeaderReadsBack`. `OnlyKnownLeaks` and `OnlyKnownStaleReads`:
no other exchange ends with a buffer that nobody releases, and no other read of
the metadata meets a released buffer. `LeakInv` follows every buffer from its
allocation to whoever has the duty to release it.

### The generator

`AlwaysWellTyped` and `AlwaysReaches`, for any services with any number of
methods. Each loop's output is described by a function of the methods it has
gone over (`PrintInv`): no printer reads a template variable that it has not set
itself in this turn or this file, so what an earlier method left behind never
shows. The files then follow from the service alone, and the two properties are
facts about them: the body's type is the declared one (`BodyHasDeclaredType`),
the case's type the handler's (`CaseHasHandlerType`), and the classification of
a method by the client is that of the server. `GeneratorAssumption` says of
the constants only that a service is a sequence of methods and a method's
fields are what a descriptor has.

`CommentClosesAtEnd`, for comments of any length over any alphabet: no slash
follows an asterisk in the escaped text (`EscapedSafe`), hence in none of its
lines (`LinesSafe`), hence not in what is printed of them (`PrintedSafe`, which
needs the blank that keeps a leading slash off the margin). `AlwaysReadsBack`:
every token stands for its character (`EscapedReads`), and as two runs of
characters between newlines never overlap (`RunsApart`), Split, which is always
between two lines (`BetweenLines`), has taken as many lines as it has passed
runs, each the text of its run (`LinesRead`). A character must not look like an
entity (`CharsAreNoEntities`), which single characters do not.

`AlwaysEveryClassFound` (`JavaPluginProofs`): the files opened are three for each
service gone over, in order (`OpenedSoFar`); the package in them is the file's,
since what is cut off behind the last dot is the class (`PackageOfClass`); the
plugin's path is javac's (`PathIsLocation`); and two classes share a path only
if they share a name (`PathsTellClasses`), which takes one service called like
another's client or server (`SameNameClash`). `FilesOver` says what protoc
checks: names are sequences, and no two services of a file have one name.

### A run of the plugin

`PluginRunProofs` is about the composition. Every step of a run is a step of one
part and leaves the other two alone (`RunStep`), and each part starts in a run as
it does alone (`RunStart`), so a run implements each of its parts
(`RunOfPlugin`, `RunOfDocComment`, `RunOfNames`). `RunEveryClassFound`,
`RunClosesAtEnd` and `RunReadsBack` carry the theorems above over.

`AlwaysNamesKeepLetters`, `AlwaysSameHash` and `AlwaysOneId` hold for names of any
length. The invariant is `NamesInv`: after every step, what a loop has made is
what belongs to the characters it has gone over (`Gone`). For the hashes that is
`Id`, the FNV-1a hash, and for the two conversions it is that the letters of the
result are the letters of these characters: neither a capital made small, nor a
small letter made a capital, nor an underscore more or less shows in `Letters`
(`LettersKept`). TLC has checked `NamesInv` on the instance of `plugin_run`.

`Letters` and `Id` are recursive on the length of a name, so what they make of a
name and one character more (`LettersAppend`, `IdAppend`) takes induction. The
theorems of the library that do induction have a predicate for a parameter,
which the provers cannot instantiate; that the naturals are well-founded is one
that has none. From it `Least` takes the first position where something fails,
and with `Least` follow, for any step given as a function, that it can be folded
over any number of positions (`FoldExists`) and that the result is the only one
(`FoldUnique`). `AlwaysSameHash` assumes `CommittedAreHashes`, that the
ids in the code generated before are the hashes of their names, which holds of
the three names of testing-proto in `MCPluginRun`; `AlwaysOneId` does without.

`AlwaysKeysDiffer`: `compoundKey` keeps the four halves of its two ids apart
(`KeyParts`), because the mask has taken the sign of the lower one away and an or
with zeros changes nothing (`OrZero`); hence as many keys as pairs
(`KeysCounted`). `PluginAssumption` says of ids that they have 32 bits, and of
words that they are sequences of at least one ASCII code.

### Only model-checked

All liveness (`CallsReturn` of the map and of the RSocket, `SignalsForwarded`),
which the prover cannot do under fairness; `AlwaysHasEmptySlot` for the map,
`AlwaysEmptySlotAhead` and `AlwaysProbeAdvances` for the RSocket are
the part of them that safety can say, where no growth fails. And
`WithinLoadFactor`, `ThresholdOfCapacity`, `LookupsReturn` and
`OnlyEmptyIsFireAndForget`, which do not hold.

That `put` accepts null, counts it in `size` and leaves the slot empty
(BiInt2ObjectMap.java:137-142) is in the model, as `Puttable` may hold NULL; the
runs put no null, and `size()` is then not the number of entries.

## Not modelled

Removals by the consumer of `forEach` beyond their effect on the table, as
nothing says what it should then visit; nested `computeIfAbsent`; the bits of
`Hashing.hash(long, mask)`, of which the map needs only that it is a function of
key and length; `ProteusMetadata.version`, which nothing calls; the defaults of
`AbstractProteusService`, which generated servers override; what the RSocket
library makes of an exception thrown by `requestChannel` (`SwitchTransform` is
outside the repository); `LogHelper`, which nothing uses; the parts of the stubs
printed without a decision (they are in `ProteusStubs` as printed); the protobuf
message classes (protoc's own output); the build. The RSocket, netty and Reactor
libraries are modelled only by what the code relies on.

## Plan

1. Composition of `ProteusStubs` with `RequestHandlingRSocket`, whose registry
   changes between two requests.
2. Proofs: `SizeIsEntries` with null values counted as the code counts them;
   what `forEach` still guarantees after a removal.
