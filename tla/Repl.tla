-------------------------------- MODULE Repl ---------------------------------
(***************************************************************************)
(* Sessions at the prompt: the code of every line (module Prompt) is       *)
(* loaded and executed by the main process while the virtual machine goes  *)
(* on with messages and blocks.  The frame of the prompt's function stays   *)
(* on the stack from line to line; what a line adds is made room for, and  *)
(* execution goes on where the line before has ended                       *)
(* (ExecuteFunctionIncremental, IncrementalStackShift,                     *)
(* ExecutionLoopIncremental).                                              *)
(***************************************************************************)
EXTENDS Interpreter

CONSTANT Sessions  \* a sequence of records: the steps of module Prompt, whether the user is patient, what may be printed

VARIABLES
  session,     \* which one it is
  at,          \* its next step
  stage,       \* "prompt", "loaded" or "ended"
  modules,     \* how many functions there were before each loaded module
  incremental  \* incremental_ip_offset, incremental_constants_offset, incremental_locals_offset

prompt == <<session, at, stage, modules, incremental>>
vars == <<prompt, machine>>

Steps == Sessions[session].steps
Current == Steps[at]
Expected == Sessions[session].prints

Init ==
  /\ session \in DOMAIN Sessions
  /\ at = 1 /\ stage = "prompt" /\ modules = <<>> /\ incremental = [ip |-> 0, constants |-> 0, locals |-> 0]
  /\ fns = <<>> /\ heap = <<>>
  /\ procs = <<NewProcess>> /\ run = <<>> /\ others = {} /\ queue = << <<>> >> /\ out = << <<>> >> /\ fault = "none"

\* The prompt waits for what it has started, whatever else goes on.
Idle == \A thread \in Threads : OnCore(thread)
Quiet == Threads = {} /\ \A pid \in DOMAIN queue : queue[pid] = <<>>

(***************************************************************************)
(* Loading.                                                                *)
(***************************************************************************)
\* New code refers to constants and functions of its own.
InPlace(object) == object                  \* mutant: new code refers to old objects
Relocated(object) ==
  CASE object.v[1] \in {"string", "array", "dict"} -> [object EXCEPT !.v[2] = @ + Len(heap)]
    [] object.v[1] = "function" -> [object EXCEPT !.v[2] = @ + Len(fns)]
    [] OTHER -> object
All(objects) == [i \in DOMAIN objects |-> Relocated(objects[i])]
NewFunctions == [i \in DOMAIN Current.fns |-> [Current.fns[i] EXCEPT !.constants = All(@)]]
NewObjects == [i \in DOMAIN Current.heap |-> IF Current.heap[i].k = "string" THEN Current.heap[i] ELSE [Current.heap[i] EXCEPT !.v = All(@)]]

\* Hot swap: of the functions of the module before, the first of each name gets
\* the last of this name in the new module.
Swapped(all) ==
  LET before == IF modules = <<>> THEN {} ELSE {i \in Last(modules) + 1 .. Len(fns) : IsFunction(all[i])}
      now == {i \in Len(fns) + 1 .. Len(all) : IsFunction(all[i])}
      Same(i) == {j \in now : all[j].name = all[i].name}
      IsFirst(i) == \A j \in before : all[j].name = all[i].name => i <= j
  IN [i \in DOMAIN all |-> IF i \in before /\ IsFirst(i) /\ Same(i) # {}
                           THEN [all[i] EXCEPT !.updated = CHOOSE j \in Same(i) : \A l \in Same(i) : l <= j] ELSE all[i]]

LoadCode ==
  /\ stage = "prompt" /\ fault = "none" /\ at <= Len(Steps) /\ Idle
  /\ Sessions[session].patient => Quiet
  /\ LET all == fns \o NewFunctions IN fns' = IF Current.swap THEN Swapped(all) ELSE all
  /\ heap' = heap \o NewObjects
  /\ modules' = IF Current.fns = <<>> THEN modules ELSE Append(modules, Len(fns))
  /\ stage' = "loaded"
  /\ UNCHANGED <<session, at, incremental, procs, run, others, queue, out, fault>>

(***************************************************************************)
(* Execution.                                                              *)
(***************************************************************************)
\* IncrementalStackShift: only where there are new constants.
Unshifted(P, f) == P                       \* mutant: the variables stay where they are
IncrementalStackShift(P, f) ==
  LET F == fns[f]
      old == P.base + F.constantsStart + incremental.constants
      new == P.base + F.localsStart
      moved   == CopyCells(P, new, SubSeq(P.stack, old + 1, old + incremental.locals))
      cleared == CopyCells(moved, new + incremental.locals, [i \in 1 .. F.tempStart - F.localsStart - incremental.locals |-> Zero])
  IN IF old = new THEN P ELSE CopyCells(cleared, old, SubSeq(F.constants, incremental.constants + 1, Len(F.constants)))

\* Under the lock of the main process the frame of the line before gives way to a
\* larger one in the same place.
ExecuteFunctionIncremental(f) ==
  LET frame == SetupStackFrame(PopStackFrame(procs[1]), f)
  IN /\ ~Locked(1)
     /\ procs' = [procs EXCEPT ![1] = [IncrementalStackShift(frame, f) EXCEPT !.ip[2] = @ + incremental.ip]]
     /\ incremental' = [incremental EXCEPT !.constants = Len(fns[f].constants), !.locals = fns[f].tempStart - fns[f].localsStart]
     /\ StartThread(<<ExecutionLoop(1, "entry", 0)>>)
     /\ UNCHANGED <<fns, heap, queue, out, fault>>

\* GenerateUniqueProcess and SendMessage.
Spawn(f) ==
  /\ procs' = Append(procs, NewProcess) /\ out' = Append(out, <<>>)
  /\ queue' = Append(queue, <<[fn |-> f, args |-> <<>>, promise |-> 0]>>)
  /\ UNCHANGED <<fns, heap, run, others, fault, incremental>>

\* The function that the step names, the first of its module.
Named == LET in == {i \in modules[Current.module] + 1 .. Len(fns) : IsFunction(fns[i]) /\ fns[i].name = Current.name}
         IN CHOOSE i \in in : \A j \in in : i <= j

RunLine ==
  /\ stage = "loaded" /\ fault = "none"
  /\ stage' = "prompt" /\ at' = at + 1 /\ UNCHANGED <<session, modules>>
  /\ CASE Current.task \in {"null", "terminate"} -> Fault(Current.task) /\ UNCHANGED <<others, incremental>>
       [] Current.task = "entry" -> ExecuteFunctionIncremental(Named)
       [] Current.task = "call"  -> ExecuteFunction(Named) /\ UNCHANGED incremental
       [] Current.task = "spawn" -> Spawn(Named)
       [] OTHER -> UNCHANGED <<machine, incremental>>

\* ExecutionLoopIncremental notes where the next line goes on: at the instruction
\* that has returned or thrown.
LineEnds ==
  /\ LoopEnds("loop") /\ Last(run).after = "entry"
  /\ run' = <<>> /\ UNCHANGED others /\ incremental' = [incremental EXCEPT !.ip = ip[2] - 1]
  /\ UNCHANGED <<session, at, stage, modules, fns, procs, heap, queue, out, fault>>

Stop ==
  /\ stage = "prompt" /\ ((at > Len(Steps) /\ Quiet) \/ fault # "none")
  /\ stage' = "ended" /\ UNCHANGED <<session, at, modules, incremental, machine>>

Step == stage # "ended" /\ Execute /\ UNCHANGED prompt
SwitchThread == stage # "ended" /\ Preempt /\ UNCHANGED prompt

Next == LoadCode \/ RunLine \/ LineEnds \/ Step \/ SwitchThread \/ Stop

(***************************************************************************)
(* Properties.                                                             *)
(***************************************************************************)
\* Between lines the main process has the frame of the prompt alone, and what is
\* noted of it is what it holds.
TypeOK ==
  /\ stage \in {"prompt", "loaded", "ended"} /\ at \in 1 .. Len(Steps) + 1
  /\ Len(queue) = Len(procs) /\ Len(out) = Len(procs)
  /\ (\A thread \in Threads : Head(thread).pid # 1) /\ procs[1].frames # <<>> =>
       LET F == fns[procs[1].ip[1]]
       IN /\ Len(procs[1].frames) = 1 /\ procs[1].base = 0 /\ procs[1].top = F.storage
          /\ incremental.constants = Len(F.constants) /\ incremental.locals = F.tempStart - F.localsStart

Answers == stage = "ended" => out \in Expected
NoFault == fault = "none"

\* The cells of the first n variables of the prompt's function f.
Variables(P, f, n) == SubSeq(P.stack, P.base + fns[f].localsStart + 1, P.base + fns[f].localsStart + n)
EntriesBefore == {n \in 1 .. at - 1 : Steps[n].task = "entry"}

\* A line that starts finds the variables of the lines before under their names,
\* as those have left them, wherever they lie now.
VariablesKept ==
  [][stage = "loaded" /\ stage' = "prompt" /\ Current.task = "entry" /\ EntriesBefore # {} =>
       LET names == Steps[CHOOSE n \in EntriesBefore : \A m \in EntriesBefore : m <= n].locals
       IN /\ SubSeq(Current.locals, 1, Len(names)) = names
          /\ Variables(procs'[1], procs'[1].ip[1], Len(names)) = Variables(procs[1], procs[1].ip[1], Len(names))]_vars

\* A line that was compiled is executed, and the prompt comes back.
PromptReturns == stage = "loaded" ~> stage # "loaded" /\ Idle

Spec == Init /\ [][Next]_vars /\ WF_vars(RunLine \/ LineEnds \/ Step)
=============================================================================
