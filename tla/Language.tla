------------------------------ MODULE Language ------------------------------
(***************************************************************************)
(* Compiled programs (module Compiler) on the virtual machine, from main() *)
(* until nothing is left to do.                                            *)
(***************************************************************************)
EXTENDS Interpreter

CONSTANT Programs  \* a sequence of what Generate makes of programs, with what they may print

VARIABLES
  program,  \* which one is executed
  stage     \* "compiled", "running", "ended" or "rejected"

compiler == <<program, stage>>
vars == <<compiler, machine>>

Expected == Programs[program].prints

Init ==
  /\ program \in DOMAIN Programs
  /\ stage = IF Programs[program].accepted THEN "compiled" ELSE "rejected"
  /\ fns = Programs[program].fns /\ heap = Programs[program].heap
  /\ procs = <<NewProcess>> /\ run = <<>> /\ others = {} /\ queue = << <<>> >> /\ out = << <<>> >> /\ fault = "none"

Launch == stage = "compiled" /\ stage' = "running" /\ ExecuteFunction(Programs[program].main) /\ UNCHANGED program

Quiet == Threads = {} /\ \A pid \in DOMAIN queue : queue[pid] = <<>>

Step == stage = "running" /\ Execute /\ UNCHANGED compiler
SwitchThread == stage = "running" /\ Preempt /\ UNCHANGED compiler
Stop == stage = "running" /\ (Quiet \/ fault # "none") /\ stage' = "ended" /\ UNCHANGED <<program, machine>>

Next == Launch \/ Step \/ SwitchThread \/ Stop

(***************************************************************************)
(* Properties.                                                             *)
(***************************************************************************)
TypeOK ==
  /\ stage \in {"compiled", "running", "ended", "rejected"}
  /\ Len(queue) = Len(procs) /\ Len(out) = Len(procs)
  /\ \A thread \in Threads : \A n \in DOMAIN thread : thread[n].pid \in DOMAIN procs

AgreesWithSource == stage = "ended" => out \in Expected
Accepted == stage = "rejected" => Expected = {}
NoFault == fault = "none"
InStep == Running /\ Last(run).k = "while" => Dispatched = ip

\* The cells of the running function or block where its constants are hold them.
ConstantsKept ==
  Running =>
    LET f == fns[ip[1]]
    IN \A n \in DOMAIN f.constants :
         f.constants[n] # Zero => Process.stack[Process.base + f.constantsStart + n] = f.constants[n]

Finishes == stage = "running" ~> stage = "ended"

Spec == Init /\ [][Next]_vars /\ WF_vars(Step \/ Stop)
=============================================================================
