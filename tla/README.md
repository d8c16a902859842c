# A verification project for the ContractCase Java wrapper

This directory holds TLA+ models of the ContractCase Java DSL, the runs that
check them with TLC, and theorems about them that TLAPS proves. Paths below are
relative to `src/main/java/io/contract_testing/contractcase/` of the
repository; "AC 88" is a line of a file, with these short names:

| short | file |
|---|---|
| AC | `client/AbstractRpcConnector.java` |
| OB | `client/ContractResponseStreamObserver.java` |
| SW | `client/SendingWorker.java` |
| CP | `client/server/ContractCaseProcess.java` |
| CE | `client/server/ConnectorExtractor.java` |
| CV, IV | `ContractVerifier.java`, `client/InternalVerifierClient.java` |
| CD, ID | `ContractDefiner.java`, `client/InternalDefinerClient.java` |
| CH | `client/ConfigHandle.java` |
| CO, CI | `client/ConnectorOutgoingMapper.java`, `client/ConnectorIncomingMapper.java` |

The bundled core is
`src/main/resources/io/contract_testing/contractcase/client/server/case-connector.js`,
one minified program on its line 2 (line 1 is its licence notice). Its
definitions are named by the functions and classes they translate, which
`case-connector.js.map` beside it gives back in TypeScript.

## The system

The wrapper lets Java tests use ContractCase, whose core is a JavaScript
program bundled as a resource. The wrapper extracts the bundle, runs it as a
child process, reads the port it listens on from its stdout, and talks to it
over one bidirectional gRPC stream for every definer or verifier. Calls go both
ways: the wrapper asks the core to begin, to run an example or a verification,
to invoke a test, to end; while it does so the core asks the wrapper to run
state handlers and triggers, to print, to log, and to start tests. The core
keeps the contract: it runs the examples, records them, writes the file, and
reads it again to verify it and publish what came of it.

### Inventory

**RPC connector** (AC, OB, SW, `RpcForDefinition`, `RpcForVerification`).
State: the counter `nextId`, the map `responseFutures`, `errorStatus`, the
queue of the sending worker and its thread, the gRPC stream. Operations:
`executeCallAndWait` on any thread, `completeWait`, `sendResponse`,
`setErrorStatus`, `close`; `onNext`, `onError`, `onCompleted` on the gRPC
listener thread; the pool that runs tests; the worker's loop. Hard: a future is
registered, the call queued, sent, answered and awaited by four threads; calls
time out while their answers are on the way; a handler that throws cancels the
stream for everybody; nothing wakes those who wait when the stream dies;
`close` is a task in the queue. Correct when an answer finds its call and no
other, calls and requests are asked and answered once, the listener never waits
for what only the listener can deliver, every call returns, and nothing but the
core's verdict passes for the core's verdict.

**Server process** (CP, CE). State: `childProcess`, `portNumber`,
`shutdownHook`, `errorStreamSink` of a singleton, the monitor, the thread that
copies stderr. Operations: `start`, `getPortNumber`, `terminate` from the
shutdown hook, the sink's `run`. Hard: constructors race for the one server;
the server may say something else than its port, or die; the JVM may go down
in the middle of a start; terminate kills, stops and joins under the monitor.
Correct when there is one server and it is known, connectors dial a port a
server announced, the server does not outlive the JVM, its log is not lost, and
the shutdown ends.

**Verification runs** (CV, IV, `RpcForVerification`, CH). State: the list
`failures`, the `ConfigHandle`, the run under way. Operations: constructor,
`runVerification`, `close`, and `runTest` on the pool thread of each test the
core starts. Hard: unsynchronised `ArrayList.add` from several threads, read by
another one whose only synchronisation is the core's answer; the list is never
cleared; a run that timed out leaves its tests running. Correct when a failure
is reported, and only failures are, in the run they belong to.

**Definition runs** (CD, ID, `RpcForDefinition`, CH, `ConnectorConfigMapper`).
State: the `ConfigHandle`, the closed connector. Operations: constructor,
`runExample`, `runThrowingExample`, `endRecord`. Hard: each example replaces the
configuration wholesale, while requests for handlers of another one, given up
or of another thread, may still come; `endRecord` closes a definer that can
still be called. Correct when an example meets its own handlers and returns
only when the core said success.

**Result mapping** (`BoundaryTriggerMapper`, `ConnectorStateHandlerMapper`,
`edge/ConnectorExceptionMapper`, CO, CI, `ConnectorResultMapper`,
`client/RpcConnectorResultMapper`, `BoundaryCrashReporter`, `SetupInfo`). No
state of its own: user exceptions become kinds, kinds cross the wire twice and
become exceptions again; in between the core makes errors of them, records them
and judges which of them end the call. Hard: a failure is classified at five
places on two sides; a value that cannot be mapped throws on the listener's
thread; which function of a state handler is called depends on the order of the
handles. Correct when a failure ends in the exception the documentation promises
and what returns is in the contract as it went.

**Configuration and triggers** (`TriggerGroup`, `TriggerGroups`,
`ConnectorConfigMapper`, CO 58-136, CH). State: the groups, the mapped
configuration. Operations: `addTriggerGroup`, the mapping, `mapConfig`,
`getTriggerFunction`. Hard: names join to handles, so functions can collide, in
the order of a hash map; the groups stay mutable after the mapping; one handle is
reserved. Correct when a handle means what the user grouped.

**Bundled core** (`case-connector.js`: `contractDefinition`,
`contractVerification`, `WritingCaseContract`, `ReadingCaseContract`,
`ContractVerifierConnector`, `executeExample`, `handleResult`). One Node process
serves the streams of all definers and verifiers of a JVM. State: the definer or
verifier of each stream; for each contract being written a mutex, the record of
its examples and the table of its names; for each contract being read a mutex
and a status. Operations: begin, run an example, end the record, run a
verification, invoke a test. Hard: handlers are asynchronous, and whatever is
not under the mutex comes between the awaits of what is (`endRecord` of both
kinds, the final test of a verification); a failure that is not answered has to
be recorded to have any effect; the table of names is shared by all examples; a
promise that nobody handles ends the process for everybody. Correct when the
contract that is written holds what its users were told, means what was
verified, publishes what became of it, and every call is answered.

**Not modelled.** See the section of that name.

### How the components interact

A user thread constructs a definer or verifier, which starts the server process
and connects to its port. Constructor, runs and examples call the connector;
`ExampleRuns` and `VerificationRun` therefore use the connector through the
abstract specification `CallContract`, and `RpcConnector` is shown to implement
it. The core's requests come back through the listener, which looks handlers up
in the `ConfigHandle` (stale when another example has begun) and maps what they
return (`ResultMapping`, which follows one example through both sides). On the
other side of the stream `CoreServer` puts a definer and a verifier of the core
into one process. What the two sides assume of each other is stated as an
abstract specification that one side is built on and the other is shown to
implement: `RunContract` (a run is answered once, with success only after all its
tests) under `VerificationRun`, and `ExampleContract` (examples run one at a
time and are answered once) under `ExampleRuns`, both implemented by
`CoreServer`. What the core assumes of the wrapper is that every request of the
core is answered (`RequestsAreAnswered` of `RpcConnector`).

```
   VerificationRun        ExampleRuns              the wrapper's API
    |          \          /       |
    |           CallContract       |
    |                ^             |
    |           RpcConnector       |               the wrapper's connector
    |                              |
  RunContract              ExampleContract
        ^                    ^
         \                  /
          CoreServer: CoreVerification, CoreDefinition    the core

   a line down: is built on     ^: implements (proved)
```

## Modules

| module | what it is |
|---|---|
| `CallContract` | what a call promises: issued once, decided once by the core, and a verdict returned is the core's; or an error at any time |
| `RpcConnector` | the connector in detail: callers, pool threads, worker, listener, stream and core |
| `MCRpcConnector` | its instances for TLC |
| `RpcConnectorProofs` | theorems about it, and that it implements `CallContract` |
| `RpcRequestsProofs` | theorems about the requests it answers and its half-close |
| `ServerProcess`, `MCServerProcess` | the server process, start and shutdown |
| `ServerProcessProofs` | theorems about it |
| `RunContract` | what the core promises of a run: its tests begin together, each is decided once, and then the run |
| `VerificationRun`, `MCVerificationRun` | a verifier over `CallContract` and `RunContract` |
| `VerificationRunProofs` | theorems about it |
| `ExampleContract` | what the core promises of examples: one runs at a time, each is decided once or refused |
| `ExampleRuns`, `MCExampleRuns` | a definer over `CallContract` and `ExampleContract` |
| `ExampleRunsProofs` | theorems about it |
| `TriggerHandles`, `MCTriggerHandles` | trigger groups, their handles and their lookup |
| `TriggerHandlesProofs` | theorems about it |
| `ResultMapping` | the mappings of wrapper and core, and an example's way through them |
| `ResultMappingProofs` | theorems about it |
| `CoreDefinition` | a definer of the core: examples, record, names, `endRecord` |
| `CoreVerification` | a verifier of the core: contracts, tests, publishing |
| `CoreServer`, `MCCoreServer` | the two of them in one process |
| `CoreServerProofs` | theorems about them, and that they implement `RunContract` and `ExampleContract` |

Definitions commented "Mutant:" are not part of any specification. Each is a
plausible wrong version of the definition below it; putting it in that
definition's place must break the property it is paired with in `PROJECT.json`.

### Correspondence with the code

*RpcConnector.* `executeCallAndWait` (AC 71-139) is cut where another thread can
come in between: `BeginCall` (take the id, look at `errorStatus`),
`RegisterFuture`, `SendCall` (enqueue), then `ReturnAnswer`, `Timeout` or
`WaitInterrupted`; `RefuseCall` is the branch of a set `errorStatus`. Since
`errorStatus` is neither volatile nor locked, a caller may also miss it: only
the branches that found it set are guarded by it. `WorkerSends` and
`WorkerCloses` are the loop of SW 30-49. `onNext` runs results
(`CompleteWait`), handlers (`HandlerBegins`, then `HandlerResponds` or
`HandlerThrows`, during which the listener is busy) and hands tests to the pool
(`StartTest`), where `TestResponds` and `TestDies` end them. The id of a call is
its number: thread name and reason in the real id are for reading. The stream
delivers in order and each message once, as gRPC does; it can break at any
moment (`OnError`), end (`OnCompleted`), or be cancelled by a listener that
throws.

*ServerProcess.* `start` is the synchronized `startRuntimeIfNeeded` followed by
a look at `childProcess` outside the monitor; the monitor is the variable
`lock`, held from `Enter` to `RegisterHook` or to the exception. `RegisterHookFails` is
`addShutdownHook` after the shutdown began: it throws when the field is set. `ReadFails` is
both no line and a line without a port. `terminate` is three steps
(`HookKills`, `HookStopsSink`, `HookJoins`) under the monitor. The sink polls,
sleeps, wakes and drains; a closed stream ends it. A port is named by the
server that announced it.

*VerificationRun.* `ArrayList.add` is two steps, reading the size and storing;
a first add may make its own array, so `first` is a choice. The core's steps
(`CoreStartsTests`, `CoreDecidesTest`, `CoreFinishesRun`, `CoreFailsRun`) are
those of `RunContract` joined with a call's decision in `CallContract`: the core
begins any of a run's tests together, decides a test when it was invoked, and
the run when it has decided its tests, without waiting for their responses.

*ExampleRuns.* `Run` sets the `ConfigHandle`, `Ask` calls; between the two
another thread may set it again. `CoreStarts`, `CoreDecides` and `CoreRefuses` are
the steps of `ExampleContract`: one example runs at a time, and one that does not
run may be refused, because the definer was closed or a name clashes. Of handles
the core asks only for those that came with the example (`CoreRequests`): its
mapping of an example's configuration always makes `stateHandlers`, which goes
before that of begin, and has no other source of triggers.

*CoreDefinition.* Node runs one event at a time, so an action is what happens
between two awaits. `RunExample` queues an example for the contract's mutex,
which is first come, first served; `StartExample` takes the mutex and saves the
names the example mentions; `ExamplePasses`, `ExampleFails` and `ExampleErrs`
record and answer it, by what `handleResult` does: a failure is recorded and,
without `throwOnFail`, answered with success; a core error is answered and not
recorded. `EndFails`, `EndWrites` and `EndPublishes` are `endRecord`, which takes
no mutex. What an example says of a name is any choice of a definition, a
reference or nothing; `Falsy` are the definitions that JavaScript takes for false.

*CoreVerification.* `RunVerification` offers the tests of all contracts that
match, a test for each example and a final one; `InvokeTest`, `StartTest` and
`TestEnds` take a test through the mutex of its reader; `InvokeFinal` is
`endRecord`, without the mutex. `RunEnds` is the `Promise.all` of the tests.
`RunRejected` is every rejection of `verifyContract` before the tests are
offered, which nobody handles: the process is dead.

*CoreServer.* A definer and a verifier that share nothing but the process. For
`RunContract` the runs are those of the verifier, a test has begun when it has a
stage, and the verdicts are the replies; for `ExampleContract` the example that
runs is the one that holds the mutex, and the verdicts are the answers.

*TriggerHandles.* One configuration goes through `addTriggerGroup`, the mapping
(one `PutAll` per step of `forEach`, in any order), the refusal of half a
trigger, and `mapConfig`; the core then asks for handles it was told of. A name
is the sequence of its parts between "::", so joining is concatenation.
`Expected` is the reference: what a handle may mean, from the groups alone.

*ResultMapping.* One example goes through setup, trigger, assertion, teardown, the
core's record and judgement, and the return; every step applies the mappers of
the side it is on. The core either plays the server, and the user's trigger is
called, or the client, and the user's state handlers are. `Inputs` ranges over
everything the user's functions may do and the core may find.

## Runs

| run | bounds | shows |
|---|---|---|
| `rpc_safety` | 2 callers, 1 test, 1 request, 2 calls, 1 close | answers find their future, calls are asked and requests answered once, verdicts are the core's, nothing follows the half-close, `CallContract` is implemented |
| `rpc_live` | 1 caller, 1 test, 1 request, 2 calls, 1 close | an answer that arrived is delivered although no timeout ever fires; and if timeouts fire, calls return and requests are answered |
| `process_safety` | 2 threads, 2 servers, 1 log line | no orphans, announced ports, who may survive; shutdown ends, starts return, stderr is printed while the JVM is up |
| `process_hook` | 1 thread, 2 servers | finding: a server that outlives the JVM |
| `verification_safety` | 2 tests in the first run, 1 in the second | no race of adds leaves a list empty that had a failure, no recorded failure is dropped, what is thrown is a failed test's, tests meet their configuration |
| `verification_race` | 1 run, 1 test | finding: a configuration error that fails nothing |
| `examples_safety` | 2 threads, 2 examples, 1 handler name | examples meet their own handlers unless disturbed, only successes return |
| `trigger_handles` | 2 additions out of 63 groups over 3 names and 3 keys | handles mean what was grouped, nothing is lost but by collision, only the reserved handle is told of and not found |
| `result_mapping` | all inputs | failures are blamed as documented, but for a teardown's, which the core loses; what returns is in the contract as it went |
| `state_handlers` | all inputs | finding: teardown functions set states up |
| `core` | 2 examples, 1 name, 2 children of which 1 is falsy; 1 run, 1 contract, 2 mocks | the contract holds what its users were told and means what was verified, what is published is what had become of the examples by then, every call is answered, `RunContract` and `ExampleContract` are implemented |
| `published_early` | same | finding: a success is published of what was not verified |

Why these bounds are enough: two calls are the least in which one can get the
other's answer, or one time out while the other is made; a test and a request
are the two ways a request is answered, from the pool and from the listener; one
close with calls before and after it covers everything queued behind CLOSE. Two
threads are the least that race for the server, and the second server is needed
for the start that overlaps a terminate. Two tests race for the list, the
third shows what a later run sees. Two examples are the least in which one meets
the other's handlers, and two groups in which functions collide. In the core two
examples are the least in which one waits for the mutex, redefines the other's
name, or is running when the contract is written; the second mock of a contract
is what a failure may come before or after; more contracts and runs have mutexes
and states of their own and meet only in the death of the process.
`ResultMapping` has no bound: its inputs are enumerated.
`MaxCalls`, `MaxCloses`, `MaxChildren`, `MaxLines`, `MaxRuns`, `MaxExamples` and
`MaxGroups` cap counters that the code leaves unbounded; the theorems hold for every value
of those of their modules. Deadlock is not checked: calls, runs and the life of
a JVM come to an end, and a core that does not answer is part of the system.
Threads that wait for each other are what the liveness properties exclude.

### Fairness

`ThreadFairness` of `RpcConnector`: the JVM runs a thread that can run, gRPC
delivers what has arrived, and the user's handlers and tests return. Nothing
makes the core answer, so calls return only because `future.get` has a timeout
(AC 91-94): `CallsReturn` and `RequestsAreAnswered` have `TimeoutFairness` as a
hypothesis, and the other properties do without, to separate "is delivered"
from "times out". `CoreServer`: Node comes to every event; an example ends, since
what it asks the wrapper is answered and the tests it offers are invoked; the
broker answers, or its connection fails. An example whose handler is never
answered would keep the mutex for ever, as `RequestsAreAnswered` excludes. One
condition for each stream is enough, since a stream has finitely many such steps.
`ServerProcess`: the JVM runs its
threads, a server prints a line or exits (and may then run for ever), and the JVM
halts when its hooks are done. A thread that wants the monitor gets it if it is
released again and again: Java promises no such thing of a monitor, but a suite
constructs finitely many definers, so no thread can be overtaken for ever; the
strong fairness of entering stands for that, since in the model a thread may call
`start` without end. No fairness makes a server log, speak its port or die later.

## Findings

1. `verification_race`: `runVerification` looks at `failures` (CV 104) when the
   core has answered the run, which may be before the pool thread of a failed
   test has added to it (CV 52). With `throwOnFail` false such a run returns
   normally, for a configuration error too, which `ContractCaseConfig` 49 says
   always fails the suite.
2. `process_hook`: a start that throws between spawn and hook (CP 105, 112, 121)
   leaves a server nobody kills; the comment at CP 49 promises it is shut down
   with the JVM.
3. `state_handlers`: the wrapper sends a state handler twice, once for each stage
   (CO 90-101); `mapStateHandlers` of the core makes both functions of every
   handle it reads, whatever its stage, so the last one, the teardown, serves
   both. `contract_case_stream.proto` 69 says what the stage is for.
4. `published_early`: the final test of a verification is invoked with the others
   (OB 153) and does not wait for them; it makes a success of a status that is
   still unknown and publishes it, before or while the examples run.

Observations that no run states, made while reading the code:

- The failure of a teardown is lost. The wrapper answers a teardown function that
  throws with a `CaseConfigurationError`; `mapHandlerClass` of the core makes an
  error of that answer and does not throw it, as it does for a setup. The call
  returns and the example is recorded as if nothing had failed, although
  `ContractCaseConfig` 49 says that any configuration error still fails the suite.
  `FailuresAreBlamedAsDocumented` exempts this failure (`TeardownFailureIsLost`),
  and is about all others.
- terminate kills the server and closes its streams before it lets the sink
  drain them (CP 146, 158), so that what is written last may be lost at
  shutdown, although the comments at CP 43 and 225 promise otherwise;
  `StderrIsPrinted` is about the time before.
- `mapRunRejectingExampleRequest` (CO 154) sets `run_example`;
  `run_rejecting_example` of the proto is never used. The core runs both alike.
- A verification that cannot start rejects a promise nobody handles, and Node
  ends the process for all definers and verifiers (`RunRejected`).
- A definition of a name that is false to JavaScript (0, false, null, an empty
  string) can be replaced by another example (`NamesKeepTheirMeaning` allows for it).
- The answer of a run follows that of its last test by one turn of Node's queue
  of microtasks, in one event; nothing else keeps them in order.
- Examples that end after `endRecord` wrote the contract are answered with
  success and are in no contract (`ContractIsWhatSucceeded` is about those before).

## Proofs

All theorems hold for every value of the constants that satisfies the named
assumptions: `BoundsAssumption` (bounds are naturals), `ThreadsAssumption`,
`IdsAssumption` and `NamesAssumption` (names of different things differ),
`TestsAssumption` (a test is a pair of its run and a name) and `GroupsAssumption`
(what groups are made of, and that null is no function). TLC evaluates all of
them in the runs.

*RpcConnectorProofs.* `AnswersFindTheirFuture`, `CallsAreAskedOnce` and
`VerdictsComeFromTheCore` are not inductive: nothing in them says that an answer
in flight belongs to a call that was sent after its future was put into the map.
`CallInv` adds: a thread in a call has an id of its own below `nextId`
(`CallsOwnTheirIds`); an id not yet issued is unknown everywhere
(`IdsAreIssued`); before it is enqueued a call is neither in the queue nor known
to the core, and from `RegisterFuture` on its future is in the map
(`UnsentCalls`); the core's verdict, the message that carries it and the future
it completed agree (`AnswersAreTheCores`). Each part is preserved by every
action; the theorems follow. A future leaves the map
when its answer completes it (AC 154) and not when its call times out, and that
is why a late answer is harmless.

*RpcRequestsProofs.* `RequestsAreAnsweredOnce` needs that a request is in one
place at a time (`RequestsAreInOnePlace`): on the wire to the wrapper, with the
listener or the thread of its test, or as a response in the queue. Steps are
sorted by what they do to queue and wire; the lemmas `ResponseAppend`,
`ResponseTail`, `RequestAppend` and `RequestTail` keep the sequences out of the
rest of the proof. `NothingIsSentAfterHalfClose` follows from the worker's states.

*Refinement* (at the end of `RpcConnectorProofs`). From `CallInv`: the initial state maps to
`CallContract`'s, `BeginCall` and `RefuseCall` to its issue and refusal,
`ReturnAnswer`, `Timeout` and the interrupts to a return, the core's answer to a
decision, and all other steps to stutters.

*ServerProcessProofs.* `ServerInv` adds to the properties: the monitor has one
owner, and that is who is between `Enter` and the hook or in `terminate`
(`MonitorIsOwned`); under it `childProcess` is set from the spawn to the kill,
with its sink (`ChildIsSpawned`); the hook is for the child it was registered
for, until it has run (`HookIsForTheChild`); and the port is set whenever a
child can be found and no start has thrown (`StartsSetThePort`). One lemma per
part, one step per action that can disturb it.

*CoreServerProofs.* `CoreInv` is an invariant of the definer and one of the
verifier, which share only the process, so that each side's steps leave the
other's part alone. The definer's: an example that has not ended is neither
recorded nor answered, and then record and answer agree (`AnswersAgree`); what an
example said of a name is what the table says, from its start on (`NamesAgree`),
which is stronger than `NamesKeepTheirMeaning`, since it holds while the example
runs. The verifier's: only tests of runs that were asked for are anywhere
(`TestsAreOfRunsAsked`); a status is FAILED exactly when an example has failed
(`StatusIsTheExamples`); tests that have ended were answered
(`RepliesFollowTests`); and a run that was offered has tests (`RunsHaveTests`).
`ContractIsWhatSucceeded` follows from `AnswersAgree`, and `PublishedAsVerified`
from `StatusIsTheExamples` at the step that publishes: what is published is what
has become of the examples by then. Of examples that come later it says nothing,
and finding 4 shows that there are such.

Two theorems say that the core keeps the contracts the wrapper's models are
built on. `RunRefinement`: `RunVerification` maps to `Start` (`RunBegins`), the
end of a test, the publishing one's included, to `DecideTest` (`TestDecided`),
`RunEnds` to `Finish`, `RunMisconfigured` to `Fail`, and the rest changes neither
which tests have begun nor a reply. It needs `RunsHaveTests`, without which an
empty run could end before it began, and `RepliesFollowTests`.
`ExampleRefinement`: `StartExample` maps to `Start`, or to `Refuse` when names
clash, the three ends of an example to `Decide`, and the refusal of a closed
definer to `Refuse`. It needs that at most one example holds the mutex
(`OneRuns`), which is an induction of its own.

*VerificationRunProofs.* `VerInv` adds to the types: what the thread of a test
does next follows from its call (`TestsFollowTheirCalls`), tests belong to runs
that were begun (`TestsFollowTheirRuns`), the user's thread to the call of the
last run (`UserFollowsTheRun`); the list has an entry only if its first place
holds a failure, and a thread that has read a size above zero has seen one there
(`ListHoldsFailures`); and tests are
decided before their run (`VerdictsAreInOrder`). So no race of adds leaves the list
empty after a failure, and its first entry is one that a failed test put there
(`SomeFailureStays`). The theorem says no more, since no more is true: an add with
a stale size overwrites what others added, and may make the list shorter.
`NoFalseAlarms` follows from `RaisedIsKept`, that what was thrown stays what a
failed test of this or an earlier run makes; `TestsMeetTheirConfig` takes one more
induction. `VerdictsAreInOrder` follows
from the steps of `RunContract` (`CoreStartsFacts`, `CoreFinishesFacts`,
`CoreFailsFacts`), and so from what `RunRefinement` proves of the core.

*ExampleRunsProofs.* `ExInv`: what reached the core was begun, and the core runs
only that (`ExamplesAreKnown`); an example whose handlers may still be asked for
has its configuration set, or was disturbed (`OthersAreDisturbed`). That the
requests which come in are those of one example is `ExampleContract`'s, and so
proved of the core by `ExampleRefinement`.

*TriggerHandlesProofs.* `HandlesInv`: a name stands for the last group that has it
(`GroupsAreLast`); the map holds only what is meant, and all of it but for the
groups `forEach` has still to come to (`RetHoldsTheMeant`); the configuration and
what the core is told of are that map (`ConfigIsRet`, `AnnouncedIsTheConfig`). Two
facts carry it: `ToMapFacts`, what the map of one group holds, and `MeantIsKept`,
that groups added later do not change what was meant. `LookupFacts` then says
what a lookup gives.

*ResultMappingProofs.* `MappingInv` says of each stage what the input has decided so
far: `FailureExpected` is what the example fails with, by the first of the user's
functions that went wrong or else by what the core found, and `RecordOf`,
`AnswerTo` and `OutcomeOf` what record, wire and user get of it
(`AtAssertion`, `AtRecording`, `Answered`, `AtTheEnd`); what the core has heard of a
setup is what the user's function did (`SetupIsHeard`); a value that cannot be
mapped has broken the stream before (`StreamBreaks`). What is
documented for a failure is stated of what the user's functions answered and the
triggers did, and not of the way the code takes; the failure of a teardown is
exempt, since the code loses it (see the observations). The inputs are finite, so that the run is complete without it: the proof shows why, one mapper after the
other. It also made the model better: two mappers were written with branches
that overlap, which a `CASE` chooses from, as no code does.

What ties the proofs together: `VerificationRun` and `ExampleRuns` assume of calls
only what `CallContract` says and of the core only what `RunContract` and
`ExampleContract` say, and the three refinement theorems show these of
`RpcConnector` and `CoreServer`. What stays between them is not proved: that the
messages of the one arrive as the requests of the other.

Only model-checked: everything about liveness and fairness (`CallsReturn`,
`RequestsAreAnswered`, `AnswersAreDelivered`, `ShutdownCompletes`, `StartsReturn`,
`StderrIsPrinted`, `CallsAreAnswered`), which the prover does not reach. Every
invariant and every other action property that a passing run checks is a theorem.

## Not modelled

- The scalar fields of configurations and their fluent setters: data that is
  copied field by field.
- Printing: formatting without state; that a print request is answered is
  `RpcConnector`'s.
- Examples, mock descriptors and matchers of the DSL: generated data types that
  are sent as JSON.
- The proto file: message types. Which request is which is in `ExampleRuns`,
  `CoreDefinition` and `CoreVerification`.
- The version list, the maintainer log, and the copy of the exception mapper of
  which only the formatting of stack traces is used.
- Of the bundled core: the matchers (they compute a result from an actual and an
  expected value, and the models take the result), the HTTP client and server of
  the mocks, the broker client, printing, `stripMatchers`, and the libraries in
  the bundle.
- Of state handlers, several states of one example: `ResultMapping` has one.
- Gradle and CI files.

## Plan

Done, in this order, the most important first: `CallContract` and
`RpcConnector`; `ServerProcess`; `VerificationRun`; `ExampleRuns`;
`TriggerHandles`; the bundled core (`CoreDefinition`, `CoreVerification`,
`CoreServer`); `ResultMapping` through both sides; the theorems of all modules;
`RunContract` and `ExampleContract` between the wrapper and the core.

What could come next:

1. `CallContract` with its answers in flight, so that `VerificationRun` and
   `ExampleRuns` can state liveness under the fairness `RpcConnector` is shown to
   have.
2. Several state handlers of one example, with setups that fail half-way.
3. The two connectors of a process that share the static `sendMutex` (AC 157).
