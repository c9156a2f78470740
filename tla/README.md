# A verification of the eople runtime

eople is a small language of concurrent processes: objects that receive
messages, promises for the results, `when` and `whenever` blocks that run when
promises are kept.  `eve` compiles a program to instructions and runs it on a
virtual machine with one thread per core; at its prompt it does so line by
line.  This directory holds TLA+ models of that machine and of the compiler, the
properties that make it correct, the TLC runs that check them
and proofs that TLAPS checks.  Line numbers refer to `src/` of the repository
(`vm.cpp` stands for `src/src/eople_vm.cpp`, and so on).

## 1. The system

| component | state | operations | modelled in |
|---|---|---|---|
| `AutoTryLock` (`eople_vm.h` 35-77) | a counter, and what each holder knows | construct, `try_again`, `unlock`, destroy | `Mutex`, `TryLock` |
| scheduler (`eople_vm.cpp` 167-390) | message queues, queue and process locks, `message_count`, `idle_count`, `ready_to_exit`, a condition variable | the job loop `CoreMain`, `SendMessage`, `Run`, `Shutdown`, timers | `ActorSystem`, `Scheduler` |
| message execution (`eople_vm.cpp` 412-501, `eople_control_flow.cpp`, `Timer`) | promises, the lists of `when` and `whenever` blocks | `ExecuteProcessMessage`, `ProcessMessage`, `WhenRegister`, `When`, ... | `Futures`, `Promises` |
| process stack (`eople_core.h` 236-645) | cells, base, top, saved frames, closures, temporary strings | `SetupStackFrame`, `PopStackFrame`, `ReallocStack`, `CaptureClosure`, `ApplyClosureState`, arguments, results | `ProcessStack`, `Interpreter`, `Repl` |
| instructions and their loops (`eople_control_flow.cpp`, `eople_binop.cpp`, `eople_stdlib.cpp`, `ExecutionLoop`) | the instruction pointer, cells, strings, arrays, dictionaries | one function per instruction; `While`, `ForI`, `ForA`, `If` execute the code behind them | `Interpreter` |
| loader (`eople_exec_env.cpp` 38-256) | modules, files | `ImportModuleFromFile`, imports of imports | `Compiler` |
| lexer (`eople_lex.cpp`) | a position in the text | `NextToken` | `Lexer` |
| parser (`eople_parse.cpp`, `eople_ast.h`) | the tree, functions being parsed, counts of temporaries, blocks, literals | one function per kind of phrase | `Parser`, `Syntax` |
| symbol table (`eople_symbol_table.h`) | entries, registers for constants and variables | insert, force constants, rollback | `SymbolTable` |
| type inference (`eople_type_infer.cpp`, `eople_types.h`, `eople_ast.cpp`) | types of names, specializations of functions, statements that wait for a type | one function per node | `TypeInfer`, `Program` |
| code generator (`eople_vmcode_gen.cpp`) | temporaries, offsets, instructions, constants | one function per node | `CodeGen`; layout also in `ProcessStack` |
| prompt (`eople_exec_env.cpp` 258-442, `eople_eve.cpp`) | loaded modules, what all lines so far have added | `ExecuteBuffer`, `ExecuteFunction`, commands | `Prompt`, `Repl` |
| options, terminal, logging | - | files and terminal | not modelled |

How they interact.  The compiler hands functions to the virtual machine.  The
main thread, and every running method, call `SendMessage`, which pushes to the
queue `process_id % cores` and may wake a core.  A core takes messages of one
process out of a queue under the lock of the queue, keeps the lock of the
process, and hands the messages one by one to `ExecuteProcessMessage`.  That
sets up a frame on the stack of the process, runs instructions (which send more
messages), answers the promise of the message, tells the process that made the
promise with a message without a function, and evaluates the `when` and
`whenever` blocks of its own process.  A timer is a message with a date.

What is hard: two lock levels without blocking; counters updated outside the
locks that decide who sleeps; a condition variable notified with and without
its mutex; answers in three steps seen by other processes; a list of blocks
changed while it is gone through, by code that it runs; a stack shared by
constructor, methods and blocks, grown and copied over; code of `main()` and of
constructors that runs on another thread than the messages of its process.  In
the compiler, agreements that nothing enforces: a temporary that the parser
counts is one the generator uses, a slot that a table computes is one that the
stack has, an instruction inside a loop must leave the pointer where the loop
expects it, a string made in an expression is deleted by a statement that has to
know who else refers to it.  At the prompt, all of this while the code and the
frame of earlier lines are in use.
`PROJECT.json` lists the hazards one by one with the properties that cover them.

## 2. The modules

```
Mutex       <-implements-  TryLock      <- TryLockProofs, MCTryLock
ActorSystem <-implements-  Scheduler    <- SchedulerProofs, MCScheduler
Futures     <-implements-  Promises     <- PromisesProofs, MCPromises
                           ProcessStack <- ProcessStackProofs, MCProcessStack
SchedulerProofs <- QueueProofs <- CountingProofs <- RefinementProofs

SymbolTable <- SymbolTableProofs
SymbolTable <- Syntax <- Parser, Program, Source
Program     <- TypeInfer, CodeGen
Lexer, Parser, TypeInfer, CodeGen <- Compiler <- Prompt
CodeGen     <- Interpreter <- Language, Repl
Source      <- Samples <- Sessions
Compiler, Samples <- Suite         Suite, Language    <- MCLanguage
Prompt, Sessions  <- SessionSuite  SessionSuite, Repl <- MCRepl
```

The layers assume what the layer below is shown to promise.  `Scheduler` treats
a queue's or process's `AutoTryLock` as something one core holds or does not,
and a try as something that may fail: that is `Mutex`, which `TryLock`
implements.  `Promises` treats a process as a thread that takes its messages in
order: that is `ActorSystem` (properties `Exclusive` and `Fifo`), which
`Scheduler` implements.  `ProcessStack` looks at one process only, since only
the core that has its lock touches its stack.  `Interpreter` has the main thread
and `Cores` cores, each in the midst of an instruction of its own; messages of one
process are executed in the order sent, one at a time, which is what
`RefinesActors` allows, and how cores find and take them is left to `Scheduler`.

**TryLock.**  A try adds one to the counter and owns the lock if it was 0; if
not, it takes the one back in a second step, and in between other tries fail.
Actions are the two atomic operations of each method, for any thread and any
order of calls the class allows.  `MutualExclusion`, `CounterExact` (the counter
is the number of threads with one added: a double release or a lost one shows),
`RefinesMutex`.

**Scheduler.**  A thread is at a place (`pc`) of `CoreMain`, `SendMessage` or
`Shutdown`; an action is the code between two accesses to shared state, e.g.
`TryQueueHit`/`TryQueueMiss` (187), `LockProcess` (190-197), `Pop` (200-223, with
the clock read once before), `PushBack`/`Commit` (225-240), `Begin`/`Finish`,
`Release`, `Uncount` (255-262), `Nap`, `GoHome`/`FallAsleep`/`Wake` (272-293),
`StartSend`/`Push`/`Count`/`Notify` for `SendMessage`.  Messages are numbered in
the order they are pushed.  `message_count` is a number modulo `Wrap`, as the
`u32` is modulo 2^32.  Left out: what a handler computes.

**Promises.**  For each process: the mailbox, the batch taken from it, the
message in execution, and a place in `ExecuteProcessMessage` (`pc`, with the
index `at` of the loops over the blocks).  Bodies of methods and blocks are any
sequence of the instructions that touch something shared: `ProcessMessage`,
`Timer`, `WhenRegister`, `WheneverRegister`.  A promise is modelled by its owner
and its two fields.  An operator is one step: `StoreValue` (435), `MarkReady`
(436), `Notify` (437), `When`/`WhenNotYet`/`EndWhen` (444-467),
`Whenever`/... (469-496).  `Unlocked` holds the processes whose first code runs on
another thread (`main()`, a constructor): their instructions interleave with the
messages of the same process.  `Expire` puts a due timer anywhere into the
queue, because cores push it back behind later messages until then.
The loops of `Ready` and `GetValue` along promises that hold promises are never
entered: no instruction tags a value as a promise.

**ProcessStack.**  The cells of the stack, and beside them the variables as the
author of the program sees them (`running`, `member`): the properties compare
the two.  One class with one member, one method and one function are enough to
have every kind of frame: `Construct` (392-410), `Message` and `MethodReturn`
(418-441), `FunctionCall` and `FunctionReturn` (503-519), `CCall`,
`WhenRegister`, `Evaluate`, `EndWhen` (445-463).  Offsets are those of
`InitFunction` and `GenModule` in `eople_vmcode_gen.cpp`.

**From text to code.**  `Compiler` composes the stages, each an operator from what
the stage before returns, with the state of the C++ object passed along.  `Lexer`:
characters to tokens.  `Parser`: tokens to trees of `Syntax`, with the symbol
tables, the counts and the error paths of the code, `nullptr` included.
`SymbolTable`: entries and registers.  `Program`: the program with what inference
notes at its nodes, the library's table of functions, the search for what a name
means.  `TypeInfer`: types, specializations, statements that wait until a type
is known.  `CodeGen`: instructions, layout, constants.  The definitions have the names of the functions
they stand for, `ParseStatement`, `InferCall`, `GenForLoop`.

**Interpreter.**  A state holds the generated functions, the heap, the processes
with the cells of their stacks, and `run`, the nest of C++ loops that are
executing: `ExecutionLoop`, `While`, the loops over ranges and arrays,
`ExecuteProcessMessage` with its place among the blocks.  One step executes one
instruction through its table of implementations, or one turn of a loop.  `run` is
the thread that is next and `others` are those in the midst of something: after
any step another may be next (`Preempt`, `Resume`).  `Deliver` starts a message,
a notice or a timer on a core that has nothing to do, of a process whose lock nobody
holds (`Locked`).  `main()`, a `call` at the prompt, and constructors hold none
(`vm.cpp` 503-519, `exec_env.cpp` 435), so that while they run a core may
execute the notices and the blocks of the same process, on the same stack
(`Unlocked`).  A timer is marked as ready when a core takes it in a batch, which can be
before it is executed.  A null function pointer, a missing cell, an object that was
deleted set `fault`.

**Language** launches what `Compiler` made of a program, `Expected` being what
**Source** says the program prints: an interpreter of trees that
knows nothing of tokens, types, slots or instructions, and writes the text that
`Lexer` reads.  For programs with processes the outputs are listed by hand.
**Samples** holds the programs.

**Prompt** is what becomes of the lines of a session: which lines belong together,
commands, the parser's and inference's state kept from line to line, rollback of a line
that is not accepted, all definitions compiled anew.  It yields the steps asked
of the virtual machine, and **Repl** carries them out while messages and blocks
go on beside each instruction; a line holds the lock of the main process.  `call`
and `spawn` look a name up in all modules, the library first: what is
found there has no code (`exec_env.cpp` 335, 377), and an error that inference throws is
caught by nobody, so that either ends the session (`Ends`).  The actions are `LoadCode` with the hot swap, `RunLine` (`ExecuteFunctionIncremental`
and `IncrementalStackShift`, or a call, or a process started), `LineEnds`
(`ExecutionLoopIncremental`), and the steps of `Interpreter`.  **Sessions** holds the
sessions.

Each state machine has one `TypeOK`; definitions marked `mutant` are never used
by the specification.  They are plausible mistakes in one definition, and for
every property of every passing run one is named in `PROJECT.json` that breaks it.

## 3. The runs

| run | instance | states | properties |
|---|---|---|---|
| `try_lock` | 5 threads | 648 | `TypeOK` `MutualExclusion` `CounterExact` `RefinesMutex` |
| `scheduler_safety` | 2 cores, 2 processes, 3 messages, up to 2 timers, spurious wakeups | 1.1 million | `TypeOK` `CountExact` `Exclusive` `OncePlaced` `Fifo` `Drained` `NoLostWakeup` `RefinesActors` |
| `scheduler_three` | 3 cores, 2 messages, 1 timer, spurious wakeups | 1.7 million | `EnoughAwake` |
| `scheduler_live` | 2 cores, 2 processes, 2 messages, 1 timer | 71 thousand | `Delivered` `ShutdownReturns` |
| `promises` | 2 processes, one starting on another thread, 2 messages or timers, 2 blocks on one promise or two, registered anywhere, promises passed on | 960 thousand | `TypeOK` `ReadyHasValue` `ScanComplete` `RefinesFutures` |
| `promises_live` | the same with 1 block on one promise or two, registered in methods | 37 thousand | `NotStranded` `BlocksRun` `Answered` |
| `stack_calls` | 3 frames, 1 block, values returned anywhere | 2.3 million | `TypeOK` `VariablesKept` `MembersKept` `ThisKept` `Balanced` `Fits` |
| `language` | 188 programs, `main()` and 2 cores | 81 thousand | `TypeOK` `AgreesWithSource` `Accepted` `NoFault` `InStep` `ConstantsKept` `Finishes` |
| `repl` | 17 sessions, the prompt and 2 cores | 2.7 thousand | `TypeOK` `Answers` `NoFault` `VariablesKept` `PromptReturns` |

Three more runs end in a counterexample; section 5.

`EnoughAwake` is the rule by which cores decide to sleep, `NoLostWakeup` what it is for: when
all cores wait or have gone home, no message waits, unless its sender is still to look at
the counters, and `Shutdown` has not notified them.  `NoLockLeft` (`Scheduler`) and
`AnsweredOnce` (`Promises`) are not in a run: the proofs state them.

What the last two ask.  `AgreesWithSource`: a program that has come to rest has
printed what its author reads in it.  `Accepted`: it is turned down only if
it is wrong (and, with `AgreesWithSource`, whenever it is).  `NoFault`: no null
pointer, no cell outside the stack, nothing deleted is used.  `InStep`:
the instruction that `While` dispatches is the one `ip` stands at.  `ConstantsKept`: the cells of the
running function's constants hold them.  `Finishes`.  `Answers`: a session has printed what its lines say.
`VariablesKept`: a line finds every variable of the lines before
under its name, with the value they left.  `PromptReturns`: a line that was
compiled is executed and the prompt comes back, whatever else goes on.

**Bounds.**  Two cores are the fewest the code runs with; with them a core and a
sender, or two cores, meet in every pair of steps.  A third core is needed for
the sleep rule, where one core's count is made stale by two others.  Three
messages to two processes let a batch fill (`BufferSize` 2 stands for 16), a
message wait behind a locked process, and a timer go back behind it.
`MaxRetries` is 0 because each round over the queues may find nothing, so more
rounds only repeat; `Wrap` is 32, far enough from what the counter reaches in
either direction for a wrapped value to be told from a count.  Two promises and
two blocks are what swap-removal, registration from inside a body, and a
conjunction need.  Two values, three frames and one or two blocks are what it
takes for a frame to overlay the cells of another and for the stack to grow
while a block from a deeper frame is waiting.  Programs and sessions are small
and many rather than large: one family for each construct, over the values at
which it decides (groupings of operators, loops of no, one and several turns,
steps of both signs, every branch), with the nestings of calls, loops, blocks and
messages that the code keeps apart.  Where the compiler reads memory it has not
written, a program is compiled for memory 0 and for 1, one with arrays for 0 only, and
executed once if that makes no difference.  `Cores` is 2, the fewest the code runs with: the
main thread and two cores are in the midst of instructions of three processes at
once, or two of them of the same process where one holds no lock.  `LabelValues` is 256 as in the code.  `CHECK_DEADLOCK FALSE` is set
where the system may rest: all cores asleep and no message, or the bound of
messages reached, a program or session that has ended.

**Fairness.**  `Scheduler`: every thread that can take a step in the end does
(weak fairness: the operating system runs every thread); a try of a lock that
succeeds again and again is in the end made at such a moment (strong fairness on
`TryQueueHit` and `Push`: the loops retry for ever, with sleeps in between, and
holders of a queue lock keep it for a few instructions); time passes (`Expire`).
Spurious wakeups are off in this run, since they would do the notifier's work.
Handlers end.  `Promises`: weak fairness of `Take` is `Delivered`; of
`CoreStep` and `FirstReturn`, that bodies end; of `Expire`, that time passes.  No
fairness is put on instructions: a program need not send or register anything.
`Language` and `Repl`: weak fairness of what the machine does next, since cores run while
there is something to do; none on the user (`LoadCode`), and none on `SwitchThread`: which
thread is next is the operating system's choice.  It is enough that some thread goes on,
since none waits for another and each comes to the end of what it executes.

**Which programs the passing runs speak of.**  Where the code does not deliver
a property for all programs, a constant names the class and the runs say which
one they check.

- `promises_live`: blocks on promises that the process itself made, registered in
  methods.  A block on another process's promise is told nothing
  (`vm.cpp` 437 notifies the owner only); a block registered by `main()`, a
  constructor or a `whenever` body may come too late (`RegisterIn`).
- `stack_*`: `Temps = 0` (no temporaries in the constructor), `Params = 0` (functions
  without parameters), `MemberBlocks = FALSE` (no blocks in class bodies).  With
  `Params = 1` TLC finds `VariablesKept` violated: `ExecuteFunction` keeps a pointer into
  the old stack across a reallocation (`vm.cpp` 510-514).  A value may be returned
  anywhere in classes, methods and their blocks, in functions at the end only: `ReturnValue`
  (`eople_control_flow.cpp` 434) writes to offset 0 and the body of a loop or of a
  block goes on; in a method that cell is the reference to the process, in a function its
  first variable, and without the guard TLC finds `VariablesKept` violated.
- `language`, `repl`: programs and sessions that keep clear of what section 5 lists.
  A function with parameters is called after a deeper call has made the stack
  large enough; `while` bodies contain no `if`, `return` or second block, calls have
  at most three arguments and messages in loops at most two; arrays are used with
  memory 0; a session has functions or refused lines but not both; blocks wait only
  across lines that add no constant.  Blocks are registered in methods, which run under the
  lock of their process, or in class bodies that wait for no promise, never in `main()`.

## 4. The proofs

All proofs hold for every value of the constants that satisfies the `ASSUME`s.

`TryLockProofs`, for any finite set of threads: `TypeCorrect`, `Safety`
(`MutualExclusion`), `NoLeak` (`CounterExact`), `Implements` (`RefinesMutex`).  The
inductive invariant says that the counter equals the number of threads that have
added one, and that a holder is the one that added it to 0, so that whoever else
adds finds at least 1.  Mutual exclusion alone is not inductive: a thread between
its addition and its decision must be known to have seen the holder's one.

`SchedulerProofs`, for any number of cores, processes, messages, timers, any
buffer and retries: `TypeCorrect` (`TypeOK`) and `Exclusion` (`Exclusive`).  The
invariant `IInv` adds four facts to `TypeOK`.  `PcShape`: main and cores are at
their own places.  `BatchShape`: a core executes exactly while it has a batch,
and a batch fits its array.  `IdleExact`: `idle_count` is the number of cores asleep
or gone, without which its bound is not inductive.  `BatchLocked`: a core holds the
lock of the process of every message of its batch, not only of the first;
`Exclusive` follows because a lock has one holder.  One lemma per action shows
that it keeps `IInv`.

The three modules after it add invariants of their own to `IInv`, and each uses those before.

`QueueProofs`: `PlacedOnce` (`OncePlaced`).  Queues, batches and the vectors of
messages put off are seen as one family of boxes.  `Placed` says that no message
occurs twice in it, and that what it holds is what was pushed and not
executed.  Every action is one of five changes of that family: the head of a
box moves to the end of another (`HeadMoves`), all of a box does (`AllMove`), a head leaves
(`HeadLeaves`), a new message arrives (`Arrives`), nothing.  Lemmas about
sequences say what these do to `Placed`, and one lemma for each action says which it is.

`Order` (`Fifo`), in the same module.  What was executed in order is not inductive: a
batch taken later must not overtake one taken before.  `FifoInv` says that every
queue and every batch is sorted by `InOrder`, that a batch is in order before every
queue (the lock of its process keeps other batches away, `BatchLocked`), that
only timers are put off, and that a message is in the queue of its own
process (`AtHome`), so that one queue alone orders the messages of a process.

`CountingProofs`: four theorems about `message_count` and sleep.
- `ExactCount` (`CountExact`): it is `Owed`, the number of messages waiting plus the
  cores at work, less the messages pushed and not counted yet, modulo `Wrap`.  A core
  at work counts one until `Uncount`, whatever the size of its batch, which is what `Commit` arranges.
- `NothingLeft` (`Drained`): when a core is at home, all is executed, no core is at
  work, and `Shutdown` has been called (`Down`).  The step to it is `GoHome`: it reads 0, and a number modulo
  `Wrap` that reads 0 means that nothing is owed only because what is owed is less than `Wrap`.
- `SleepRule` (`EnoughAwake`), for any number of cores.  `Awoken` counts a sender
  between its push and its `notify_one` as a core awake; with that, as many are awake as
  there are messages and cores at work, or all are.  The number of cores awake that the
  code computes is never too high (`AwakeBound`), and a count that does not
  exceed it has not gone below zero and wrapped (`NotBelowZero`), so that the
  decision to sleep or not to notify is right except for messages not counted yet, and
  these have their senders.
- `WakesArrive` (`NoLostWakeup`), with spurious wakeups and for any number of cores.  From
  `Awoken`: if no core is awake and messages wait, a sender has not looked yet.  For
  `Shutdown`, whose `notify_all` does not take the mutex, from `Roused`: a core between its
  test and its wait is not told, but then another core is awake, unless none has gone
  home and `Shutdown` has not passed; and after it one is awake or about to sleep until
  all are gone.

The bounds of the model, `MaxMessages` and `MaxTimers`, are any numbers.  `Wrap` exceeds
`MaxMessages + BufferSize + 2 * CoreCount`: the proofs speak of executions that send
fewer messages in all than the 32 bits of the counter can tell apart.  (The code needs
only that no more than that wait at once; the model numbers all messages ever sent.)

`RefinementProofs`: `Implements` (`RefinesActors`), every step is a step of one mailbox
for each process or changes nothing a program can see.  `Begin`, `Finish`, `Push`, `Expire` and
`GoHome` are the visible ones.  `LookInv` is what they need: a core that looks into a
queue holds its lock, it read the clock after each timer in it was pushed, so that what
it takes for a batch is due.
`LocksReleased` (`NoLockLeft`): a core that goes on to the next queue, naps, sleeps or goes
home has no lock, and never those of two processes.  It is inductive together with `IInv`.

`PromisesProofs`, for any number of processes, messages and blocks:
- `TypeCorrect` (`TypeOK`), with the place in the bodies (`BodyShape`): `at` stays within the lists, although
  bodies append to them and `EndWhen` shortens them.
- `ValueBeforeFlag` (`ReadyHasValue`), from `AnswerStored`: between 435 and 436 the value is there.
- `Scans` (`ScanComplete`): after a scan of the `when` blocks, no block is left that could run
  and has no notice to come.  A block is *heeded* (`Heeds`) when, if its
  promises are ready and its process's own, the notice of one of them is still to come.  The
  invariant is that all blocks before the index are (`Passed`).  A swap puts
  a block that was not looked at in the place of the one that ran, and the index does not move;
  a block that a body appends is behind the index.
- `NoneStranded` (`NotStranded`), if blocks are registered in methods and `when`
  bodies only (`RegisterIn`, section 3: TLC refutes it otherwise).  `Resting` carries `Heeds` on through the `whenever`
  blocks until the next message.
- `ImplementsFutures` (`RefinesFutures`), with any number of promises in a condition.  A
  block waits for the last of them: that is what the code looks at, and the run
  `promises_guards` refutes that it runs only when all are ready.  `FuturesInv`: blocks have numbers of their own, in the order they were registered,
  and the block whose body is executed has been counted as run.
- `AnswersOnce` (`AnsweredOnce`): a promise of a call is answered at most once, and its answer
  is not lost.  One that has been made and is not ready is carried by one message, in
  the line of one process (the message in execution, the batch, the queue) and at one
  place in it (`Only`); all other lines are free of it (`Free`), and all are when it is
  ready.  Sending puts a message at the end of a line, taking a batch leaves the line as
  it is, `MarkReady` takes away its head, and a due timer pushed in between carries
  none; lemmas about sequences (`Joined` and those after it) say what each does.

`ProcessStackProofs`, for any values, layout sizes `Temps` and `Params`, depth and number of
blocks.  Frames are addressed as one list, the saved ones and the one in use (`Bp`,
`Sp`).  The inductive invariant `Shape`: each activation lies where the one that called it
ends (`Stacked`), the constructor's frame stays below (`Grounded`), every frame ends
inside the allocation (`Room`), each place of the program has its number of frames
(`New`, `Idle`, `Active`), and a closure returns to cells that were allocated when it was made, and still are since the stack never
shrinks (`BlocksFit`).
- `TypeCorrect` (`TypeOK`), `Balance` (`Balanced`), `WithinStack` (`Fits`).
- `ThisStays` (`ThisKept`), without conditions: from `Shape` every write but that of
  `ReturnValue` lies above the first cell, whatever the base of the code that writes.
- `MembersStay` (`~MemberBlocks => MembersKept`),
  `VariablesStay` (`Temps = 0 /\ Params = 0 => VariablesKept`), under the same
  conditions as the run, since for other values TLC refutes them (sections 3, 5).  The
  invariant `Kept` says that the cells of every live activation, not only the last, hold its
  variables (`Live`: otherwise nothing would be known of the caller after a return) and
  that a closure holds what the variables held at its registration (`Faithful`: it is what `ApplyClosureState` copies).

`SymbolTableProofs`, for any names and types.  `Whole`: entries and names correspond one to
one, and the registers of constants and of variables are handed out without gap or
repetition.
- `DeclareWhole`: `GetTableEntryIndex` keeps a table whole, under any scope and whether
  constants are forced or not.
- `CellsApart`, `CellsUsed`: symbols and the cells below `symbol_count()` correspond one to
  one, constants below variables.
- `NamesKept`: no declaration changes what another name means, though names are looked up
  with the scope and without it (a scope in front of two names does not make them
  equal: `Cancel`).  The cells of variables do move when a constant is added.
- `Grows`, `RollbackRestores`: `Rollback` counts registers and cuts off as many entries.
  That gives back the table as it was at `PrepRollback`, whatever was declared, forced or
  typed since, types of older symbols excepted.  A table that had no entry keeps its
  names: `size() - 1 - count` wraps around.

Assumptions are those at the head of the modules: two cores at least; process 0
(`main`) among the processes; no process is the null pointer; 0, which fills a new
stack, is one of `Values`, and the reference to the process is not.

Only model-checked:
- Liveness (`Delivered`, `ShutdownReturns`, `BlocksRun`, `Answered`, `Finishes`, `PromptReturns`):
  fairness and `ENABLED` are outside what the installed provers do.
- Everything of `Language` and `Repl`.  The compiler's modules are recursive descent, written
  with `RECURSIVE`, so that nothing can be proved in them or in what extends them, and what a recursive
  definition returns for every program would be an induction over data.
- `promises_guards`, `stack_members`, `repl_errors` are counterexamples.

## 5. Where the code disagrees

With the documentation; each is a run that checks one property TLC refutes.

- `promises_guards` (`RunsWhenReady`): in `when a and b` both tests leave their
  answer in one slot (`eople_vmcode_gen.cpp` 90), so the block runs when `b` alone
  is ready, and `a.get_value()` reads nothing.
- `stack_members` (`MembersKept`): a block in a class body captures the members, and
  every evaluation copies the captured values over the current ones
  (`eople_core.h` 407-420).
- `repl_errors` (`Answers`): after a line that ends in a run-time error no line of
  the session is executed, although variables of the prompt are to be usable in
  later ones.  `ExecutionLoopIncremental` notes where it stands
  (`eople_vm.h` 114) as if the line had returned.

With what an author would expect, seen with other values of the constants:

- `Promises` with `RegisterIn` containing `"starting"` violates `BlocksRun`: `main()` or a
  constructor calls a method and registers `when` on the answer.  If the notice has
  been executed before, nothing evaluates the block.
- `Language` with programs whose `main()` registers a `when` or `whenever` on an answer or
  a timer violates both `AgreesWithSource` and `NoFault`.  `main()` has no lock
  (`exec_env.cpp` 435, `vm.cpp` 503-519): the block can come too late for the notice and is lost, or a
  core scans the blocks on the stack that `main()` is using and moves its base, top and `ip`
  (`vm.cpp` 445-456).  Where `main()` only asks `is_ready`, a timer may be ready before its
  block has run, as `Samples` lists.
- `ProcessStack` with `Temps = 1` violates `VariablesKept`: the result slot compiled
  into a method does not count the constructor's temporaries, the top of the
  stack does (`eople_vmcode_gen.cpp` 308, 1508).  With `Params = 1`, and with a value
  returned in a loop or block of a function: section 3.

The stages of the compiler and the interpreter are modelled as they are, and the
following were found in both model and program while they were written.
`Samples` and `Sessions` keep clear of them.

- Loops and calls.  A body may not move `ip` behind the loop's back: `if`, a nested
  `for` or `when` in a `while` desynchronises the two, `return` in a loop is not
  looked at (the loop may go on for ever).  An instruction with more than three arguments (a call of
  four, a message of three in a loop, `a[1] + a[2]`) is followed by one without a
  function, which is called (`eople_vm.cpp` 94).  `ForA` goes over a vector that
  its body may push to.
- Pointers into the stack kept across its growth: `ExecuteFunction`
  (`eople_vm.cpp` 510), the condition of `While`.
- Values.  `==` and `!=` of booleans compare 64 bits of which one byte is written.
  `x += 3` means `x = 3`; the sign of a negative index is dropped; `not` is never parsed.
  `a[1] = x + 7` crashes, `t = s + "y"` for a new `t` too; after `t = s`, appending to `t` changes `s`;
  an array literal is one object for all calls.  A subscript of a local array depends on
  uninitialized memory (`eople_ast.cpp` 341).
- Parser.  Errors do not stop a file from being executed; without a colon after a
  condition the parser dereferences null (`eople_parse.cpp` 1542); a nested `def`
  resets the count of blocks; a parameter named like a member gets no
  slot; labels of literals wrap at 256; a method definition that fails leaves its context open.
- Lexer.  A string that ends in an escaped backslash does not end; an escaped backslash followed by `n` is read as
  a line break.
- Loader.  Only the last module's errors count; a circular import does not end; the
  last byte of a file is dropped.
- Inference.  Any primitive result is compatible with any other; unknown
  arguments shift the choice of a library function; ill-typed programs such as
  `for i in 3`, `true + false`, `1 and 2` are accepted.
- Prompt.  A refused line after any definition aborts in `Rollback`; after an error of the code
  generator (an unknown name) no later line runs; a redefined function still runs
  its first body from older code; a block that waits while a line adds a constant crashes;
  `call` and `spawn` of a library function follow a null pointer.

Of no consequence but worth knowing: `return` in a `whenever` does not
stop it, as `eople_control_flow.cpp` 167 overwrites 161, though the comment at 160
says so; the branch at `vm.cpp` 287 is dead, a core woken by the last
one goes round the job loop again and leaves as the last idle core itself; a
closure is stored through a reference that a `push_back` in the body may have
made dangling (`vm.cpp` 472, 490).

## 6. Not modelled, and the plan

Data races on plain fields (`Promise::value`, `is_ready`, the stack and block list of
a process under construction) are modelled in program order; C++ gives them no
meaning.  A runtime error in a block's body leaves `CoreMain` and ends the
program; it has no continuation to check.  A clock that is set back, and how long
delivery takes, are left out.

Numbers: integers are unbounded, a float is a count of 10^-7, without products and
quotients; an operand is an integer, not 16 bits.  Library functions that
act on one value or on the outside only: files, `get_url`, mathematics.  Options of
the command line, terminal, log, byte order marks, the functions that list imported
names, the conversions between UTF-8 and UTF-16, tests and vendored headers:
text in, text out, nothing that a step of the system depends on.

Done: all modules of section 2; every safety property and the three refinements of
`TryLock`, `Scheduler`, `Promises` and `ProcessStack` are proved, as far as the code delivers
them, and what the compiler relies on of `SymbolTable`.  What is left: `Futures` and
`ActorSystem` in their own right, with what they promise stated and proved there.
