# A TLA+ verification of the Ruby engine

The repository runs one untrusted Ruby program per process under a supervisor.
This directory models that system in TLA+, model-checks it with TLC and proves
what matters most with TLAPS. Paths below are relative to the repository.

## 1. Inventory

```
 host (php/src/Client.php)
   | stdin: request, replies, cancel      ^ stdout: calls, logs, completed
   v                                      |
 supervisor (src/main.rs, src/supervisor.rs, src/transport.rs)
   | stdin: request, replies              ^ stdout: calls, logs, completed; exit status
   v                                      |
 guest (src/guest.rs, native/guest.c, src/isolation.rs, mruby)
```

All frames are a four-byte big-endian length and a JSON object (`src/protocol.rs`).

| Component | State | Operations | Hard behaviour | What makes it correct |
|---|---|---|---|---|
| Supervisor loop, `supervisor.rs`, `main.rs` | two readers, two writers, `completed`, `guest_closed`, `pending_sequence`, `sequence`, deadline, child | admission, one loop of nonblocking steps, kill and reap | both peers may stall, die or lie in the middle of a frame; deadline, memory ceiling and exit status race the output | ends whatever the peers do; whole frames; one conclusion, last; only authorised calls, one at a time; the guest never survives |
| Transport, `transport.rs` | bytes received, bytes to send with an offset | `receive`, `enqueue`, `send`, `poll` | short reads and writes, EOF, no read-ahead between two readers | bytes arrive as written, memory bounded by one frame, backpressure |
| Protocol, `protocol.rs`, `main.rs` | none | `validate`, `read_frame`, `write_frame` | limits at their boundaries; a request is validated three times, in two processes, and rewritten between them | both processes agree on a request; what reaches C is within its bounds; a failure names its execution |
| Guest host interface, `guest.rs` | sequence, call and log counters, last reply tree | call, log, json, unknown, completion | blocking I/O inside the VM, failures the program rescues, budgets counted on both sides of the pipe | budgets agree with the supervisor's; never a second call before the first is answered; the diagnosis tells what ran |
| Value tree, `guest.rs`, `guest.c` | node array, cursor | add, decode, append, encode | cycles, duplicate keys, depth and size limits that differ by the envelope | a value survives the round trip, or is refused |
| Native guest, `guest.c` | allocated, peak, instruction count, status, error | allocator, hook, admit, app dispatch, execute | limits in unsigned arithmetic, instructions of variable length, paths cut at dots | budgets are exact; admission sees every instruction; both ways to call mean the same |
| Isolation, `isolation.rs` | kernel timers, limits, descriptors, filter | enter, watch_parent, platform, probe | supervisor dies while the guest starts; inherited signal dispositions; a pid used again | a guest without supervisor dies; the filter allows exactly its list; the probe's verdict is true |
| Client, `Client.php` | process, buffers, deadline, sequence, log bytes | execute, writeFrame, readFrame, checkpoint | select loop, deadline, cleanup with kill | effects in turn, once; at most one reply per call; process always closed |
| Build, release scripts, tests, fuzz targets | none at run time | | | not modelled |

`PROJECT.json` lists the same components with their status, and under `hazards`
what in this code is hard to test, each at its line.

## 2. Modules

| Module | Role |
|---|---|
| `Frames` | frames as the processes see them, cut in the pieces that one read or write call moves; `transport::Writer` |
| `Execution` | abstract contract of one execution: calls one at a time and within the budget, at most one conclusion |
| `Supervisor`, `MCSupervisor` | the supervisor process between a host and a guest that may do anything |
| `SupervisorProofs` | theorems about `Supervisor` |
| `FrameRelay` | abstract relay of values: in order, none lost, repeated or made up, one at a time |
| `Transport`, `MCTransport` | `Reader` and `Writer` byte by byte: headers, target arithmetic, limits, partial reads and writes; what a sequence of bytes holds as frames |
| `TransportProofs` | theorems about `Transport` |
| `Guest`, `MCGuest`, `GuestProofs` | the guest process with any program, between any frames, and its theorems |
| `Client`, `MCClient`, `ClientProofs` | `execute()` of the PHP client against any engine, and its theorems |
| `Engine`, `MCEngine` | `Client`, `Supervisor` and `Guest` joined by the pipes |
| `EngineProofs` | `Engine` implements `Supervisor`, `Client` and `Guest`; the journey of calls and replies; nothing is left behind; what the application is told is what happened |
| `Lifetime` | from `fork` to the program and to its end: death watches, timers, confinement |
| `Seccomp` | the Linux filter as built and as the kernel interprets it |
| `Probe` | `--isolation-probe` |
| `MCIsolation` | `Lifetime`, `Seccomp` and `Probe` side by side, and their instance for TLC |
| `IsolationProofs` | theorems about the three and about the composition |
| `Heap` | allocator and instruction budget in unsigned words |
| `Values` | values out of the VM as JSON and into it, call by call of `encode`, `add` and `decode` |
| `Dispatch`, `EditDistance` | capability paths: dotted access and `call`; the distance behind suggestions |
| `Profile` | the walk over compiled code that admits a program |
| `Admission` | a request through both processes' `main` |
| `Parts` | `Heap`, `Dispatch`, `Admission`, `EditDistance`, `Profile` and `Values` side by side, with their assumptions |
| `PartsProofs` | theorems about the first five |
| `ValuesProofs` | theorem about `Values` |
| `MCParts` | instance of `Parts` |

### How `Supervisor` corresponds to the code

`pc` is the position in `supervisor::run` (one value per system call of the
loop) or in what surrounds it: `admit` is `initial_request`, `kill` and `wait`
the cleanup after the closure, `report` the error frame of `main`. The loop's
locals have their source names; `expired` stands for
`Instant::now() >= deadline`; `outcome` for the closure's `Result`, telling
apart the two errors of `Writer::enqueue`. An action is one system call with the
conditions that surround it; `Return` is every `return` and every `?` of the
closure. `host_in`, `guest_in`, `guest_out` are the pipes, `wire` everything ever
written to stdout and `taken` how much of it the host read (so stdout's pipe is
the rest). `child` runs `running -> exiting -> zombie -> reaped`: a process that
ends closes its descriptors before it can be waited for, so EOF and `try_wait`
are separate events; `killed` only requests that. `answered` and `finished` are
history variables that no action reads.

Host and guest are the most general environment: at any moment either may
begin any frame of a given set, stop in the middle of one, stop reading, close
its end or die. A living guest may close either end of its pipes (`GuestCloses`; the
filter allows `close`, `src/isolation.rs:311`), so that end of file and a broken pipe
are no sign that it can be waited for (`InOpen`, `OutOpen`). That is more than the real
client and the real guest can do and is what the supervisor claims to survive ("Neither an incomplete frame nor a
peer that stops reading may suspend its watchdog", `src/transport.rs:1`).

Abstractions: a frame carries only the fields some condition reads and a size in
pieces; pieces stand for the at most 65536 bytes one call moves, the length
header included. Of the values in a frame only `data` is kept, what some reader does not take:
`nested` beyond the 64 levels of the guest's tree, `buried` beyond the 128 of
`serde_json`, `nulkey` an object key that begins with NUL, which PHP decodes into no
object. Failure frames, a few hundred bytes, fit one write. Both
budgets of frames (`HostFrames`, `GuestFrames`) bound the environment, never the
supervisor. A guest frame of kind `completed` has the tag `result` whatever it
contains: the supervisor does not look inside, and the tag tells its own
verdicts from the guest's in the properties.

### How `Transport` corresponds to the code

`stream` is what the writing peer will send before it closes its end, `fed` how
much of it is in the pipe so far and `consumed` how much was read; `bytes` is
`Reader.bytes`. `Target`, `Legal`, `Count` and `Complete` are the conditions of
`Reader::receive`, in the order of the code: the length is tested at the next
call, before the read, so a bad header is reported even at EOF. One action is
one call of `receive` (with the `enqueue` that follows a value, as in the loop)
or of `send`. A pipe gives a reader what it has, up to what was asked; a write
moves any number of bytes that fit, from one. `outcome` tells how it ended.
JSON is a table of texts: `Parse` is partial and several texts may have one
value; `Encode` may give a longer text than was read, so that `write_frame`
fails on a value that `receive` accepted (`outgrown`). The relay keeps the
condition of `src/supervisor.rs:128`: no reading while a frame is unsent.
`cuts` and `sent` are history variables: where in the stream each frame began, and
where in the output that of each value. Bytes are digits of an arbitrary radix, and
binary ones in the run, so that four of them are a small number.

### How `Guest`, `Client` and `Engine` correspond to the code

`Guest.at` is the position in `main` and `guest::run` (`read`, `enter`, `report`),
in `ruby_execute` (`boot`, `admit`, `program`) and in `ruby_host_call` (`call`,
`await`, `log`). The program may do anything at every point, and rescues what it
likes: every failure of the host interface returns to `program`, so the budgets
must hold after refused calls, refused logs, bad replies and broken pipes.
`codes` are the codes of exceptions the host handed it. A code is any name the host
likes (`CapabilityFailure.php:16`), that of a diagnosis included, and both are told in the
same member (`guest.rs:260`). `Boot` lists the ways out of `ruby_execute` before the code is
compiled; `status` is set to 3, then 0, as in `guest.c:520`. Every blocking read or
write moves one piece. `output` is a history: the numbers of the calls written whole,
how many logs were, how many bytes they had, and whether one was refused.

`Client.at` follows `execute()`: `Interrupted` and `Cancelled` are `checkpoint()`, tried before
every piece moved and before a capability; `closing`, `closed`, `grace`, `reap` are
the `finally` block. The capability's effect and its reply are two steps, because
encoding the reply may fail between them. A log is counted by the length of its
values as PHP writes them, up to `Growth` times what was received. `reader` is the frame
that `readFrame()` is in. A piece of another frame (`~InPlace`) is read as more of it:
`json_decode` then refuses the whole, or `readBytes` waits for more (`ReadSwallowed`). A
capability may return a value of any depth PHP writes (`ReplyData`).

Both modules have an environment of their own, any frames at any time, and are
checked with it. `Engine` replaces that environment: a step of a peer at a pipe
is the conjunction of the step of its module and of the pipe's step in
`Supervisor` (`HostWrites /\ C!Put`, `GuestReads /\ G!Receive(...)`), so each
frame is what the writer's module wrote, and every step of `Engine` is by
construction of the pipes, and by proof for the processes' ends, a step of
`Supervisor`. The client kills the supervisor 250 ms after closing the pipes, in two
steps: it sends SIGKILL (`C!Terminate`), and some time later the process is gone
(`Lost`). It can still read what is in the pipe of a supervisor that is gone, as the
kernel lets it.

### How the isolation modules correspond to the code

`Lifetime` starts after `fork` (`supervisor.rs:43`) and has one action per system
call: `prctl` and `getppid` of `pre_exec`, the read of the request, then
`isolation::enter` in its order, with `watch_parent` on macOS and the containment
last. `Dies` is the supervisor's death between any two of them. It sends the death
signal only to a child that asked for it, and an event only to a `kqueue` that
watches it; a pid that is free may be given to another process before it is
watched. Dispositions of the timers' signals are inherited, any subset ignored, and so is
the mask, any subset blocked. `signal(SIG_DFL)` undoes the first; nothing in the code
touches the mask, so a blocked signal stays pending (`Arriving`).
`Startup` bounds the CPU time burnt before the limits are in place; it must be less
than a second, which is what `RLIMIT_CPU`'s extra second is for.
`Seccomp` builds the instruction array by the code's arithmetic and interprets it
as the kernel does, for any list of numbers. `Probe` is the operator's test, with
policies that hold and that do not and with operations that fail for other reasons.

### How the sequential parts correspond to the code

`Heap` does the allocator's tests and differences modulo `SIZE_MAX + 1`, in the
code's order, for any sequence of allocations. In `Values` the recursive
functions `encode`, `Tree::add` and `decode` are machines with a stack of the calls that have
not returned, and an action for each call and each return (`EncodeMember`, `EncodeReturn`
and so on). They work on graphs that may be cyclic, and are compared with what the graph
means, said breadth first instead of by the same recursion. The text is its length, the
number of its characters that quoting escapes, and the tree it says (`json`); names are
numbers, in the order in which `serde_json` keeps an object's; of the envelope of a reply
only the member `value` is there, the constant `ok` beside it changes no depth and no
order. `Dispatch` is the loop of a program that writes `app.a.b.c`, one
`app_dispatch` per name, against the listed paths as strings of characters.
`EditDistance` is the one-row algorithm, one action per cell, against what a distance
means: the cheapest way to let bytes of one path stand for bytes of the other, in order,
with no recursion in the definition. `Profile` walks bytes, with prefixes that widen operands
and with operands that are two bytes long without a prefix (`Wide`). A program is the
bytes of its blocks together with the instructions the compiler wrote there and where each
ends (`Compiled`, the one fact the model takes from mruby's code generator); admission
reads the bytes alone, and is compared with the instructions. `Admission` follows a request from
the supervisor's `main` to the guest's, with the re-encoding between them, field by
field where `validate` has a condition.

## 3. Runs

| Run | Question | Bounds |
|---|---|---|
| `peers` | buffer never overrun, conclusion last, verdicts truthful, silence after a kill | requests that run, validate, are refused or do not parse; replies, cancel, malformed frames; calls listed, unlisted, over budget, logs, results, foreign frames; two frames per peer; memory probe on; a living guest may close its input; 6.5 million states |
| `calls` | framing, authorised calls, implementation of `Execution` | two calls allowed, a third attempted, frames of two pieces, three frames per peer; 1.9 million states |
| `ends` | every execution ends, by the clock, by the end of stdin, by the death of the guest | one long call, one long result, one long reply; a living guest may close its output; 437 thousand states |
| `transport` | bytes in, values, bytes out: never ahead of the frame, output continued, stops for the right reason, implements `FrameRelay`, everything comes out | all concatenations of three of eight fragments: a largest frame, a padded text, a value that grows, a text that is not JSON, lengths zero and one over the limit, a frame cut short, nothing; radix 2, frames of three bytes, chunks of two, pipes of three; 38 thousand states |
| `guest` | call numbers and budgets under rescued failures, diagnoses that tell what ran | requests that run, validate, are refused or do not parse, two calls allowed; log limit three with logs of one to three bytes, so that a refused log is followed by one that would have fitted; `usize` of five, so that the sum saturates; a host whose code is `syntax_error`; replies too deep; 14 thousand states |
| `client` | effects in turn and once, `execute` returns | any frame in any order and behind any part of another, a key PHP cannot decode, logs that grow on re-encoding, a cancelling application; 4 thousand states |
| `engine` | every call carried out once, the application told the truth, nothing left | a program that calls and logs as it likes within and beyond the budgets, with values any of the three may refuse; replies that fail, budgets that end the process, timers, deadline, client kills the supervisor; frames and pipes of one piece; 4.4 million states |
| `engine_untimed` | what one finds in a pipe it refuses for its values alone, if at all; the three never wait in a circle | no clock and no kill, frames of two pieces over pipes of one in both directions, so that errors meet half frames; replies and keys that are refused, the memory ceiling, a cancelling application; 543 thousand states |
| `isolation` | no program runs unguarded, orphans die, programs end, CPU limit told as such, filter exact, probe true | three platforms, any inherited dispositions and mask, death between any two steps; a second of three ticks, a wall limit below and a CPU limit above it; a filter of five numbers, one listed twice, one equal to an architecture value; 22 thousand states |
| `parts` | the six sequential parts, each against a definition of its result | below; 460 thousand states, a third of them initial |
| `diagnostic`, `unsolicited` | claims of comments that the code does not keep | as `calls` |

`isolation` and `parts` each put several components in one instance. They share
no variable, so one is started and the others stand at their end: the states are
the sum of the components', not the product.

`parts`: a `size_t` of four bits with three allocations alive, so that every
difference that could wrap does; value graphs of three objects that may contain one
another, under a depth limit of two and a text limit that the texts and their quoted
forms reach from either side; all catalogs of two paths of at most five characters;
all pairs of paths of up to four bytes; programs of three blocks with every prefix,
an instruction with an operand of two bytes, a symbol above 255 whose low byte is forbidden,
nested one deeper than allowed; requests in which any two members are replaced by
their bounds, by what lies one beyond, or by nothing.

Why the bounds suffice: a pipe of one piece makes every frame of two pieces
meet a full pipe, so a frame can be stopped at each of its boundaries; longer
frames only repeat the middle state. Two calls with a third attempted reach
every relation of `sequence`, `pending_sequence` and the budget. The frames of
`peers` cover each branch of the two frame handlers. In `transport` a header
takes two reads and a largest frame four, a frame with its header is longer than
a pipe, and three fragments put every kind of end behind a relayed frame. In
`engine` the frame budgets of the pipes exceed what client and guest ever write, so
they cut nothing off. The diagnostic without identity of an execution that was never admitted,
which `PeersAgree` allows, needs a fault before the admission and is not reached in
`engine_untimed`; the theorem covers it. `Ends` has a guest that closes its output, the end
whose closing the loop acts on; `peers` one that closes its input. A `ProgramsEnd` or `OrphansDie` that failed would fail on
one of the steps between `fork` and program, all of which are there; larger limits
repeat a tick. Cycles in `Values` need no more than one object, sharing two, and the
third gives the limits a level below both.

Deadlock is checked in every run; the only states without a successor other than
themselves are those in which everything is over (`Terminated`, `Done`, `Over`,
`Exited`, `Finished`, `Killed`).

### Fairness

`Scheduling` of `Supervisor` assumes that the supervisor's loop is scheduled (it never
blocks: descriptors are nonblocking and `poll` returns within five milliseconds,
`src/transport.rs:119`), that a process sent SIGKILL dies, and that a dead
process becomes waitable. `Ends` has the premise that the clock advances
(`ClockAdvances`). `EofCancels` and `DeathEnds` have no clock, so no deadline can
help them; `DeathEnds` has the premise that the host goes on reading
(`HostGoesOnReading`), without which the loop rightly waits for its deadline. Nothing
is assumed of the guest, and nothing of the host elsewhere.

`FairSpec` of `Transport` assumes that the loop goes on calling `receive` and
`send`, that the writing peer goes on to the end of its bytes and that the other
peer reads; `AllRelayed` is a claim about such peers, the ones that stall are the
matter of `Ends`. `FairSpec` of `Client`: PHP's one thread goes on, a capability
returns, the clock reaches the deadline, a killed process dies; nothing of the
engine, and not that the application cancels. `Fairness` of `Engine`: the three processes are scheduled, the program ends
and capabilities return, a process that ended is noticed; no clock.
`Scheduled` of `Lifetime`: the starting guest runs, its watcher thread sees an event,
signals that are not blocked are delivered; `ProgramsEnd` has the premise that time
passes, and speaks of a process for which SIGALRM is not blocked from outside.

## 4. What the runs found

* `diagnostic`: `src/supervisor.rs:78` says not to append a diagnostic behind a
  partially delivered frame. The deadline path obeys; every other error leaves
  the loop through `main`, which writes an `engine_error` frame
  (`src/main.rs:58-62`) even when a frame is half written. The host's
  length-prefixed reader takes those bytes for the rest of the interrupted frame.
  `OutputFramed` holds with that frame exempted.
* `unsolicited`: `src/supervisor.rs:105` says that unsolicited replies are
  invalid. `pending_sequence` is set when a call is queued, so a reply with the
  right number is accepted before the call was delivered. `CallsAuthorised`
  and `ImplementsExecution` take a call as dispatched from the moment it is
  queued. The real client cannot do this: it replies to what it has read
  (`EffectsInTurn`).

Observations, each stated in a property that holds:

* A failure of `main` before the request could be read carries no identity, and the
  client refuses it as a foreign frame; `PeersAgree` and `Identified` say that nothing
  has run then.
* The three agree on turns, budgets and identities, but not on values, and `PeersAgree`
  says where they differ. PHP writes replies up to 512 levels deep: beyond 128 the
  supervisor refuses them (`serde_json`, `transport.rs:52`) and ends the execution, beyond
  64, or with a number outside `i64`, the guest does (`guest.rs:219`) and the call raises,
  its effect done. In the other direction a program may write an object key that begins
  with NUL, which `json_decode` turns into no object (`Client.php:194`), and `execute()`
  fails.
* An `engine_error` behind half a frame is swallowed by the reader of the client, which
  then fails or waits until the end of the output (`ReadSwallowed`); `PeersAgree` says that
  nothing else ever begins within a frame.
* A `syntax_error` or `profile_error` does not by itself say that nothing ran: a capability
  may fail with that very name as its code, and the guest reports it in the same member.
  `DiagnosisTrue` says that this is the only case, and the host knows its own codes.
* `ReturnedTrue` names all the ways in which a conclusion already written is lost to the
  application: a late or cancelled client, a reply written to a closed input, values PHP
  cannot decode in the last frame it read, and the
  client's log budget, which counts a log as PHP re-encodes it and so may be spent by
  logs the guest was allowed. It says nothing of an `engine_error` that is told: a reply
  on its way to a guest that has died (`supervisor.rs:123`) puts one in the place of a
  verdict about its death, and no document promises otherwise.
* A log refused by the guest's budget still counts, so that every later one is refused
  too, however short (`LogsBounded`).
* The signal mask is inherited like the dispositions, and never cleared: whoever starts
  the engine with SIGPROF or SIGALRM blocked disarms the timers of `isolation.rs:74-110`.
  The CPU limit then falls to `RLIMIT_CPU`, the wall limit is kept by the supervisor's
  watchdog alone (`ProfFirst`, `ProgramsEnd`).
* `RoundTrip` gives the exact boundary at which `JSON.parse(JSON.generate(v))` raises:
  the reply's envelope takes one level of depth, quoting lengthens the text, and
  numbers beyond `i64` are generated but not read back.
* On Linux a denied operation kills the probe with SIGSYS (`isolation.rs:354`); the
  comment at `isolation.rs:33` speaks of `EPERM` for the spawn. `tests/execution.rs:16-19`
  accepts the signal, and so does `ProbeComplete`.
* `getppid` after `prctl` (`supervisor.rs:51`) is not needed for `NeverUnguarded`: the
  request is sent only after `exec`, so a child orphaned in between finds its input at
  its end. It is what makes an orphan fail before it starts the interpreter.

## 5. Proofs

`SupervisorProofs` assumes only `MessagesAssumption` and `BoundsAssumption`: any
sets of frames, any frame sizes, any positive pipe capacity, any number of
frames.

* `TypeCorrect` by one case per action, over lemmas on `Frames` and on sequences.
* `OutputFramed`, `ResultIsLast` and `OutputNeverOverrun` are not inductive: each
  needs to know what the output buffer holds relative to what is on stdout.
  `IInv` adds `Continues` (a buffer begun continues the last piece on stdout, one
  not begun follows a complete frame), `Concluded` (a complete conclusion is on
  stdout only after the loop was left with `Ok`; before that a queued one implies
  `completed`), `Backpressure` (when the guest is at EOF and there is no
  conclusion, the buffer is empty, so the exit verdict can be queued) and
  `KilledOnlyConcludes` (after a kill the loop runs on only to deliver a verdict).
  Most steps touch neither stdout nor the buffer; `QuietSteps` treats them
  together, the others have a lemma each.
* `NeverOverrun`, `Framing`, `ConclusionIsLast` and `KillSilences` follow from
  `IInv`.

* `OnlyAuthorisedCalls` needs `CInv`, which follows a call through the loop:
  `Numbered` (the calls begun on stdout carry exactly the numbers up to
  `Begun`), `Outstanding` (`sequence` is ahead of the accepted replies by at most
  one, and `pending_sequence` says whether it is) and `QueuedAuthorised` (a call
  that waits in the buffer passed the tests of the request in force).
* `Refinement` maps the loop to `Execution`, where `Dispatched` counts the calls
  on stdout and the one that waits. `Numbered` gives a bijection between the
  calls on stdout and their numbers, so `Dispatched` equals `sequence`
  (`DispatchedIsCounter`) and grows by one exactly when a call is queued; every
  other step begins or concludes the execution, or is a stutter.

* `VerdictsAreTrue` (`FateReported`) needs the invariant `Fate`. The verdict is chosen
  when the guest is reaped, after its end of the pipe was seen empty; so a result that the
  guest had written whole is still in the pipe or was accepted (`ResultKept`), what the
  guest itself concludes is a result it wrote and never a verdict (`GuestConcludes`), and
  neither the status nor the deadline can change behind a conclusion on stdout or in the
  buffer (`WireTruthful`, `BufferTruthful`). Before there is a guest there is nothing to
  conclude but a diagnostic (`Unborn`).

`GuestProofs` assumes `GuestAssumption`: any limits, log lengths and frame sizes, and any
codes, names of diagnoses among them.

* `TypeCorrect` needs only that arithmetic saturates.
* `Invariance` is about `GInv`: `InTransit` (what is being written says where the guest
  is), `Stages` (nothing went out before the program ran, and only an admitted one runs),
  `Numbers` (both counters of calls agree, and exceed the calls written by the one in
  transit, or by those the closed pipe swallowed) and `Logged` (what was sent, with
  the log in transit, was counted; the counter alone bounds nothing, since a refused log
  raises it past the limit, where it stays).
* `NumberedCalls`, `BoundedLogs` and `TrueDiagnosis` follow.

`ClientProofs` assumes `ClientAssumption`: any request, any limits, any engine.

* `TypeCorrect` is inductive only with the fact that `sequence` exceeds the budget
  nowhere but on the way out.
* `EffectsHappenInTurn` rests on `Turn`: at each place of the loop, how `sequence`, `asked`,
  the effects and the replies stand to one another.

`EngineProofs` adds nothing but `EngineAssumption`, the two assumptions above.

* `EngineImplementsSupervisor` is a step simulation (`EngineStep`): every step of the
  client, of the program and of a dying process is a step `Supervisor` allows or leaves
  its variables alone. So every theorem about `Supervisor` holds of the three real
  processes (`EngineKeepsPromises`).
* `NothingLeftBehind` needs two facts about the ways out. `Doomed`: at each position
  after the loop the guest is dead, or killed, or was never started. `Ended`: the
  client is done only after it saw the supervisor gone, and before it closes
  anything it has started it (`OnlyTheClientCloses`).
* `EngineImplementsClient` and `EngineImplementsGuest` say that the client and the guest of
  the whole are those of their own modules in some environment: a frame read is one of
  `Message` and a piece of it that exists (`CutPieces`), and a supervisor that ended is one
  that is `gone` and stays so. The invariants of `ClientProofs` and `GuestProofs` therefore
  hold of the whole (`ClientHolds`, `GuestHolds`); `Served` and `Asked` restate what the
  rest needs of them.
* The steps of the three are grouped by what they do to a call or a reply
  (`SupervisorMoves`, `ClientMoves`, `ProgramMoves`, `EngineMoves`), and `Journey` follows
  one through all pipes. `Onward`: what the client carried out the supervisor counted, and
  what it counted the guest sent. `Backward`: what was accepted as a reply was carried
  out. `Fed`: the guest has had every reply accepted but the last, and goes on only with
  that one. The counters then lie between one another's, and where the program runs
  on they meet: `EffectsAreExact`.
* Which frames each pipe holds is `Alike`: one request, the
  client's, goes to the supervisor and the guest (`Requested`); the supervisor's input
  holds the request, then the reply it expects (`Inlet`); the guest's output at most one
  whole call, its last, which the supervisor has not counted (`Outlet`); stdout nothing
  unusable but a diagnostic of an execution that never began (`Clean`), calls in order
  (`Ordered`), and what is unread ahead of the client's count (`Unread`). `Replied` adds the
  guest's input: while it waits, the reply to its last call and nothing else.
* `PeersDoAgree` needs besides where in the stream of frames the client stands.
  `Followed`: between two frames (`Between`), in the frame it read last (`Within`), or
  behind a diagnostic it took for a part of another frame (`Behind`). A diagnostic is the
  last thing on stdout, and the supervisor is gone (`Diagnosed`); so whatever else comes
  next is in its place (`InTurn`).

The last part of `EngineProofs`, on the same assumptions, proves `WhatIsReturnedIsTrue`
(`ReturnedTrue`). Its invariant, `Telling`, adds to all of the above what a conclusion
carries from one end to the other:

* At the guest: when its result is written whole the guest has exited, every call it asked
  for was carried out (`Delivered`) and nothing of it comes behind (`OwnLast`).
* On the way: the logs the guest sent are those whole in its pipe, the one in the
  supervisor's buffer and those whole on stdout (`LogsRelayed`, a count of three
  cardinalities). The supervisor takes a result only when it is all that the pipe holds,
  so from then on every log is on stdout (`LogsTold`).
* At the client: what it has counted are the logs among the pieces it read, and it goes
  on as long as none of them is a conclusion (`Heard`). A conclusion is the last piece of
  stdout (`Concluded` of `SupervisorProofs`), so one that was heard comes after everything.
* A client that failed, neither late nor cancelled, has a reason (`Failing`): an effect
  not answered, its log budget, values it cannot decode, the end of a stdout without
  conclusion, which covers what it takes for the rest of another frame, or an execution
  whose guest was never started (`NoGuest`, which needs that no guest starts before
  the request is written: `Preparing`). `ClientAgrees` and `Listed` exclude a refused call, the
  truth of verdicts a conclusion without type; and a stopped supervisor writes no
  conclusion later (`WireFrozen`).

`IsolationProofs` assumes `LifetimeAssumption`, any positive limits, any second, and a
start that burns less than a second of CPU time; and `SeccompAssumption`, any list,
repetitions included, and any architecture.

* `LifetimeTypes` rests on the exactness of the timers (`TimersExact`): seconds
  and microseconds together are the milliseconds asked for.
* `ProgramsAreGuarded` is `NeverUnguarded` strengthened backwards over the start
  (`Guards`): past each step, what that step set up holds or its signal is on the way.
  `OwnedLinux` and `OwnedMacos` are the two ways to know the supervisor's death: between
  the watch and the second look at the parent, the watched process may be
  another, and only that second look excludes it.
* `CpuLimitIsTold` relates the two CPU clocks (`Burning`): what `ITIMER_PROF` has left
  and what was burnt add up to at most the startup time plus the limit, which
  `CpuSecondsAbove` puts below `RLIMIT_CPU`.
* `TheGateIsExact`: `Knows` says what position in the filter tells about the system
  call: at the test of the i-th number, that it is none of those before. `GateTypes`: no
  jump leaves the filter.
* `TheProbeIsTrue` keeps, with each stage of the probe (`Probed`), which answers a
  policy or its absence can have given.
* `IsolationHolds` puts the three together: what is checked of `MCIsolation` holds of it
  for every value of the constants.

`PartsProofs` assumes `HeapAssumption` and `PartsAssumption`. The latter bounds no
request, no catalog, no path and no program; it says that paths are not empty, that the
dot is no letter, that each block of a program is what its instructions are written as, that a
send has a second operand, and that `MAX_FRAME` exceeds the sum of the largest result and the largest log that `validate`
admits (`src/protocol.rs:9`, `77-87`), which `NativeSafe` says of every program that runs.

* `BudgetsAreExact`: `Budgeted` ties `allocated` to the sum of the sizes of what is
  held, and shows that no difference modulo `SIZE_MAX + 1` wraps. The sum is a fold, and
  facts about folds would need induction over data; `Units` writes the sum of naturals as
  the cardinality of a set of pairs instead, and the library's theorems on cardinality
  give what allocating, freeing and resizing do to it (`SumCounts`).
* `FailuresAreTrue` and `NativeIsSafe`: what a process writes of a valid request
  reads as the same request (`WrittenOut`), so the guest finds valid what the supervisor
  did, and a bound that C relies on was tested in the process that runs it.
* `AccessMeansThePath`: in a program that writes `app.a.b.c`, the object held stands for
  a beginning of the target that ends at a dot (`Standing`), and no beginning up to there
  is listed (`Unlisted`). `NextAccess` says what the loop reads next, `LeadsPast` and
  `LeadsBeyond` that a listed path further on, or behind the target, makes every
  object on the way lead on.
* `OneRowSuffices`: the distance of two beginnings follows from those of the three
  pairs that are one byte shorter (`Cell`). A cheapest alignment of the shorter ones is
  extended (`Widened`), one of the longer ones cut back: either its last bytes stand for
  each other, or one of them for nothing (`Narrowed`, `ApartIs`). What the row's left
  part holds is then the next row, what its right part and `diagonal` hold still the last
  one (`RowKept`); no entry differs from its neighbour by more than one (`Nearby`), so
  none leaves its type.
* `AdmissionIsJust`: where the walk stands at an instruction's first byte, what it reads
  there is that instruction, widened operands and all, and it goes on to the next one
  (`Reads`). `Walked` says of each activation that what it passed is harmless, of each block
  that it is still to be entered, on the stack or done with, and of the stack that it is the
  chain of blocks the top one lies in, so that its height is the depth of nesting
  (`Depths`, `AboveByChild`). Verdicts then follow in both directions.

`ValuesProofs` proves `ConversionIsFaithful` (`Faithful`) under `PartsAssumption`, which
of values says that members are objects or leaves, that a hash has a key for each member, and
that lengths are natural numbers; it bounds no graph and excludes no cycle.

* A place is a value where it is met on the way from the root (`Place`); the breadth-first
  sets of `Places` are reached by following members (`LevelsExist`), and as deep as the limit
  allows there are finitely many. Two places of one name are one place, unless a
  hash repeats a key.
* Each machine keeps a stack of calls, and each call has members still to do. What is
  `Owed` by a stack is everything below those members. `Converting` says that `encode` has
  written the places that are not owed: their names are the domain of `json`, and their
  lengths, with the closing brackets of the calls on the stack to come, add up to the
  length of the text. When the stack is empty nothing is owed.
* `Parsing` follows the other direction. The nodes that `add` leaves are not a tree, so the
  proof keeps a `Trail` of the stacks `add` went through and how many nodes there were at
  each. `decode` goes along it: its stack is that of some point of the trail, its cursor
  behind the nodes of that point, and what it has made is the part of `json` that is not owed
  there. That it finds a key where `add` wrote one is what keeps the two in step.
* The limits are tested in the order of the code, so a failure has its reason in the graph
  (`Failing`, `Unparsed`): a place beyond the limit, a repeated key, a number out of range,
  or a text whose length, not yet all written, is already too much. Conversely a conversion
  that ends has met every place and none of these.

`TransportProofs` assumes `SizesAssumption` and `JsonAssumption`: any radix and
frame limit that four bytes can hold, any chunk and pipe size, any JSON, any
stream. Its invariant is the conjunction of `TypeOK`, `NoReadAhead`, `OutputContinues`
and `StopsJustly` with two facts that make it inductive: `Underway`, a frame held is
not complete, and `Marks`, where the frame of each value begins in the output. That no read asks for a byte past the frame rests on the
reader's bytes being exactly what was read since the last frame, which keeps the
length they announce stable as more of them arrive (`ReadMoves`); the writer's
half is a fact about sequences (`Continuation`). `StopsJustly` says what the reader must
return of the stream alone, and without recursion: `cuts` divides the stream into
frames, and what is left is short of one, or bad, as `outcome` says (`ReceiveReturns`).
With `OutputContinues`, the same values leave as entered, in order.

`TransportImplementsRelay` puts the two halves together: the reader, the loop that holds
it back and the writer implement `FrameRelay`. A `Chain` of
bytes is a sequence of places each of which is a frame's length, by
its header, from the one before; two chains of the same bytes agree (`ChainsAgree`).
`FrameEnds` computes one by a recursive function, which exists because every frame ends
behind its beginning (`WalksExist`), and it is the longest (`LongestChain`). `Offered` is what
the frames of the stream would be written as, `Taken` what the values returned are written
as, `Given` the texts of the frames in the output. They are compared as texts, so that
nothing need be assumed of reading back what was written (`serde_json` is built without
`float_roundtrip`, Cargo.toml:13). `cuts` is a chain of the stream (`ChainedStep`), which
makes each value returned the next offered; `sent` one of the output, with nothing behind
it that its header would call a frame before all of it is there (`NoneUnderway`, which
rests on `from_be` undoing `to_be`, `HeaderTells`). So a step of `Send` gives one frame or
none, and `Receive` takes one only when all taken were given.

Only model-checked: liveness (`Ends`, `EofCancels`, `DeathEnds`, `AllRelayed`, `FinishesUntimed`, `OrphansDie`,
`ProgramsEnd`, `Returns`), which the proof system does not treat under fairness.

## 6. Not modelled

* Failures of `fcntl`, `poll`, `try_wait` and of creating pipes; the bytes of JSON;
  mruby; `--version`.
* `Supervisor` leaves out the error that `enqueue` raises for a frame that grew past
  `MAX_FRAME` when re-encoded; it is in `Transport`. Killing the guest with the
  supervisor is one step there (`Lost`); the races behind it are `Lifetime`.
* Native guest: the read-only methods of `Record`, the texts and line numbers of
  diagnostics, a bare `CapabilityPath` used as a value, the range check of symbol indices
  in `admit` (the compiler emits none that fails).
* Host interface: the order and number of suggestions; `getrusage` arithmetic.
* In `Engine` the client's request is one that `validate` accepts (`ClientAssumption`);
  requests that are refused or do not parse are in `Supervisor`, `Guest` and `Admission`. A
  program that closes the engine's own pipes is the most general guest of `Supervisor`; no
  code of `guest.rs` or `guest.c` does.
* A half frame on stdout is one in its pieces. Where its bytes end within the four of the
  length is a matter of `Transport`; `ReadSwallowed` allows what the client makes of either.
* Isolation: `RLIMIT_CORE` and `RLIMIT_AS` (one system call each, with no state that the
  rest depends on), the text of the Seatbelt policy, which system calls are on the list
  and why mruby needs them.
* The build script, the release tooling (SBOM), fuzz targets and tests have no state at
  run time; the tests were read as evidence of what is intended.

## 7. Plan

Every component with state at run time is modelled, and each safety property that the
runs check has a theorem; liveness stays with the runs (end of section 5). Left for later:
the methods of `Record`, and the other items of section 6 if the code gives them state.
