------------------------------- MODULE Process -------------------------------
(***************************************************************************)
(* The life of user processes: exec, wait and exit (userprog/process.c and *)
(* the system calls that call it).                                         *)
(*                                                                         *)
(* All of this runs with interrupts on, so the processes interleave        *)
(* between any two statements that touch shared state.  A process is its   *)
(* thread and its tid.  Its child_process record belongs to the parent's   *)
(* child_list; sema_load and sema_wait are in struct thread, which is      *)
(* never freed: process_exit ends in a thread_block that nothing undoes,   *)
(* before thread_exit takes the thread off all_list.                       *)
(*                                                                         *)
(* sema_down takes a unit and is enabled when there is one; that nobody    *)
(* then sleeps on is NoLostWakeup of Synch.                                *)
(***************************************************************************)
EXTENDS Integers, FiniteSets, TLC

CONSTANTS
  Procs,         \* processes and the initial thread
  main,          \* the initial thread, which runs the tasks of run_actions
  Statuses,      \* arguments of exit
  MaxChildren,   \* bound: children of one process
  LoadFails,     \* may load fail?
  MemoryFails    \* may palloc_get_page and malloc fail?

ASSUME ProcessAssumption ==
  /\ main \in Procs
  /\ Statuses \subseteq Int /\ Procs \cap Int = {}
  /\ MaxChildren \in Nat
  /\ {LoadFails, MemoryFails} \subseteq BOOLEAN

ERROR == -1   \* also TID_ERROR and INIT_EXIT_STATUS

VARIABLES
  pc,            \* where the process is
  parent,        \* thread.parent
  children,      \* thread.child_list, by process
  cp,            \* thread.child_proc, and whether the record is still allocated
  load_status, sema_load, executable, sema_wait,   \* of struct thread
  arg,           \* the child of the call that is being made; p itself: none
  ret,           \* result of the call that has been made
  code,          \* history: what the process exited with
  panicked       \* the kernel dereferenced NULL

thread == <<parent, load_status, sema_load, executable, sema_wait>>
vars == <<pc, thread, children, cp, arg, ret, code, panicked>>

NoRecord  == [mem |-> "null", exit |-> FALSE, wait |-> FALSE, exit_status |-> ERROR, zombi |-> 0]
NewRecord == [NoRecord EXCEPT !.mem = "live"]

Init ==
  /\ pc = [p \in Procs |-> IF p = main THEN "run" ELSE "unborn"]
  /\ parent = [p \in Procs |-> p]
  /\ children = [p \in Procs |-> {}]
  /\ cp = [p \in Procs |-> NoRecord]
  /\ load_status = [p \in Procs |-> "not_loaded"]
  /\ sema_load = [p \in Procs |-> 0] /\ sema_wait = [p \in Procs |-> 0]
  /\ executable = [p \in Procs |-> FALSE]
  /\ arg = [p \in Procs |-> p]
  /\ ret = [p \in Procs |-> 0]
  /\ code = [p \in Procs |-> ERROR]
  /\ panicked = FALSE

At(p, label) == ~panicked /\ pc[p] = label
Goto(p, label) == pc' = [pc EXCEPT ![p] = label]

\* The call returns v to p; run_task goes on to wait for the process.
Returns(p, v, label) ==
  /\ ret' = [ret EXCEPT ![p] = v]
  /\ arg' = [arg EXCEPT ![p] = p]
  /\ Goto(p, label)

ExecReturns(p, v) == Returns(p, v, IF p = main THEN "task" ELSE "run")

\* A call has been made with the child c.
Calls(p, c) ==
  /\ arg' = [arg EXCEPT ![p] = c]
  /\ ret' = [ret EXCEPT ![p] = 0]

\* No thread ever leaves all_list.
thread_exist(t) == pc[t] # "unborn"

\* The children that p has had.
Born(p) == {q \in Procs \ {main} : thread_exist(q) /\ parent[q] = p}

free(ps) == [p \in Procs |-> IF p \in ps THEN [cp[p] EXCEPT !.mem = "freed"] ELSE cp[p]]

-----------------------------------------------------------------------------
(* exec.                                                                   *)

\* No page for the copy of the command line.
ExecNoPage(p) ==
  /\ At(p, "run") /\ MemoryFails
  /\ ExecReturns(p, ERROR)
  /\ UNCHANGED <<thread, children, cp, code, panicked>>

\* thread_create fails: get_thread (TID_ERROR) is NULL and is dereferenced.
ExecNoThread(p) ==
  /\ At(p, "run") /\ MemoryFails
  /\ panicked' = TRUE
  /\ UNCHANGED <<pc, thread, children, cp, arg, ret, code>>

\* thread_create and add_child_proc, up to sema_down (&child_t->sema_load).
process_execute(p, c) ==
  /\ At(p, "run") /\ pc[c] = "unborn"
  /\ Cardinality(Born(p)) < MaxChildren
  /\ parent' = [parent EXCEPT ![c] = p]
  /\ \/ /\ cp' = [cp EXCEPT ![c] = NewRecord]
        /\ children' = [children EXCEPT ![p] = @ \cup {c}]
     \/ MemoryFails /\ UNCHANGED <<cp, children>>
  /\ Calls(p, c)
  /\ pc' = [pc EXCEPT ![p] = "load_wait", ![c] = "start"]
  /\ UNCHANGED <<load_status, sema_load, executable, sema_wait, code, panicked>>

LoadReturn(p) ==
  /\ At(p, "load_wait") /\ sema_load[arg[p]] > 0
  /\ sema_load' = [sema_load EXCEPT ![arg[p]] = @ - 1]
  /\ ExecReturns(p, IF load_status[arg[p]] = "fail" THEN ERROR ELSE arg[p])
  /\ UNCHANGED <<parent, load_status, executable, sema_wait, children, cp, code, panicked>>

\* No memory for the second copy: start_process returns and the thread exits.
StartNoMemory(c) ==
  /\ At(c, "start") /\ MemoryFails
  /\ Goto(c, "exiting")
  /\ UNCHANGED <<thread, children, cp, arg, ret, code, panicked>>

\* Slip: the parent is released before the result is stored.
start_process_early(c) ==
  /\ At(c, "start")
  /\ sema_load' = [sema_load EXCEPT ![c] = @ + 1]
  /\ Goto(c, "run")
  /\ executable' = [executable EXCEPT ![c] = TRUE]
  /\ UNCHANGED <<parent, load_status, sema_wait, children, cp, arg, ret, code, panicked>>

\* Slip: only a failure is reported.
start_process_silent(c) ==
  /\ At(c, "start")
  /\ load_status' = [load_status EXCEPT ![c] = "success"]
  /\ executable' = [executable EXCEPT ![c] = TRUE]
  /\ Goto(c, "run")
  /\ UNCHANGED <<parent, sema_load, sema_wait, children, cp, arg, ret, code, panicked>>

start_process(c) ==
  /\ At(c, "start")
  /\ \E success \in IF LoadFails THEN BOOLEAN ELSE {TRUE} :
       /\ load_status' = [load_status EXCEPT ![c] = IF success THEN "success" ELSE "fail"]
       /\ executable' = [executable EXCEPT ![c] = success]
       /\ Goto(c, IF success THEN "run" ELSE "exiting")
  /\ sema_load' = [sema_load EXCEPT ![c] = @ + 1]
  /\ UNCHANGED <<parent, sema_wait, children, cp, arg, ret, code, panicked>>

-----------------------------------------------------------------------------
(* wait.                                                                   *)

\* The argument: any number in a user process, the tid of the task in run_task.
MayWaitFor(p, t) ==
  \/ At(p, "run") /\ p # main
  \/ At(p, "task") /\ t = ret[p]

\* get_child_proc finds the records of the caller's list only.
WaitRefused(p, t) ==
  /\ MayWaitFor(p, t)
  /\ ~(t \in children[p] /\ ~cp[t].wait)
  /\ Returns(p, ERROR, "run")
  /\ UNCHANGED <<thread, children, cp, code, panicked>>

process_wait(p, c) ==
  /\ MayWaitFor(p, c)
  /\ c \in children[p] /\ ~cp[c].wait
  /\ cp' = [cp EXCEPT ![c].wait = TRUE]
  /\ Calls(p, c)
  /\ Goto(p, "wait_test")
  /\ UNCHANGED <<thread, children, code, panicked>>

WaitTest(p) ==
  /\ At(p, "wait_test")
  /\ Goto(p, IF cp[arg[p]].exit THEN "wait_up" ELSE "wait_down")
  /\ UNCHANGED <<thread, children, cp, arg, ret, code, panicked>>

\* sema_up (&child->sema_zombi) wakes a child that sleeps there.
WaitUp(p) ==
  /\ At(p, "wait_up")
  /\ cp' = [cp EXCEPT ![arg[p]].zombi = @ + 1]
  /\ pc' = [pc EXCEPT ![p] = "wait_read",
                      ![arg[p]] = IF @ = "zombie" THEN "exit_down" ELSE @]
  /\ UNCHANGED <<thread, children, arg, ret, code, panicked>>

WaitDown(p) ==
  /\ At(p, "wait_down") /\ sema_wait[p] > 0
  /\ sema_wait' = [sema_wait EXCEPT ![p] = @ - 1]
  /\ Goto(p, "wait_read")
  /\ UNCHANGED <<parent, load_status, sema_load, executable, children, cp, arg, ret, code, panicked>>

\* Slip: the record is freed and stays on the list.
WaitReturn_listed(p) ==
  /\ At(p, "wait_read")
  /\ Returns(p, cp[arg[p]].exit_status, "run")
  /\ cp' = free({arg[p]})
  /\ UNCHANGED <<thread, children, code, panicked>>

\* The status is read, and remove_child_proc.
WaitReturn(p) ==
  /\ At(p, "wait_read")
  /\ Returns(p, cp[arg[p]].exit_status, "run")
  /\ children' = [children EXCEPT ![p] = @ \ {arg[p]}]
  /\ cp' = free({arg[p]})
  /\ UNCHANGED <<thread, code, panicked>>

-----------------------------------------------------------------------------
(* exit.  A write to a freed record has no effect on the model; a read of  *)
(* one yields any value.                                                   *)

\* Slip: the status is stored only for a parent that waits already.
exit_if_waiting(p, status) ==
  /\ At(p, "run") /\ p # main
  /\ cp' = IF cp[p].wait THEN [cp EXCEPT ![p].exit_status = status] ELSE cp
  /\ code' = [code EXCEPT ![p] = status]
  /\ Goto(p, "exiting")
  /\ Calls(p, p) /\ UNCHANGED <<thread, children, panicked>>

\* The system call stores the status in the record.
exit(p, status) ==
  /\ At(p, "run") /\ p # main
  /\ cp' = IF thread_exist(parent[p]) /\ cp[p].mem # "null"
           THEN [cp EXCEPT ![p].exit_status = status] ELSE cp
  /\ code' = [code EXCEPT ![p] = status]
  /\ Goto(p, "exiting")
  /\ Calls(p, p) /\ UNCHANGED <<thread, children, panicked>>

\* An exception in user code, or the end of main: no status is stored.
thread_exit(p) ==
  /\ At(p, "run")
  /\ Goto(p, "exiting")
  /\ Calls(p, p) /\ UNCHANGED <<thread, children, cp, code, panicked>>

\* process_exit up to free_child_proc; the message reads the record.
ProcessExit(p) ==
  /\ At(p, "exiting")
  /\ IF executable[p] /\ cp[p].mem = "null"
     THEN panicked' = TRUE /\ UNCHANGED pc
     ELSE Goto(p, "exit_free") /\ UNCHANGED panicked
  /\ UNCHANGED <<thread, children, cp, arg, ret, code>>

free_child_proc(p) ==
  /\ At(p, "exit_free")
  /\ cp' = free(children[p])
  /\ children' = [children EXCEPT ![p] = {}]
  /\ Goto(p, "exit_set")
  /\ UNCHANGED <<thread, arg, ret, code, panicked>>

\* Slip: the exit flag is not set.
ExitSet_unset(p) ==
  /\ At(p, "exit_set")
  /\ Goto(p, IF thread_exist(parent[p]) /\ executable[p] /\ cp[p].mem # "null"
             THEN "exit_test" ELSE "gone")
  /\ UNCHANGED <<thread, children, cp, arg, ret, code, panicked>>

\* A process that was not loaded tells its parent nothing.
ExitSet(p) ==
  /\ At(p, "exit_set")
  /\ IF thread_exist(parent[p]) /\ executable[p] /\ cp[p].mem # "null"
     THEN cp' = [cp EXCEPT ![p].exit = TRUE] /\ Goto(p, "exit_test")
     ELSE Goto(p, "gone") /\ UNCHANGED cp
  /\ UNCHANGED <<thread, children, arg, ret, code, panicked>>

ExitTest(p) ==
  /\ At(p, "exit_test")
  /\ \E wait \in IF cp[p].mem = "live" THEN {cp[p].wait} ELSE BOOLEAN :
       Goto(p, IF wait THEN "exit_up" ELSE "exit_down")
  /\ UNCHANGED <<thread, children, cp, arg, ret, code, panicked>>

ExitUp(p) ==
  /\ At(p, "exit_up")
  /\ sema_wait' = [sema_wait EXCEPT ![parent[p]] = @ + 1]
  /\ Goto(p, "gone")
  /\ UNCHANGED <<parent, load_status, sema_load, executable, children, cp, arg, ret, code, panicked>>

\* Slip: the semaphore is decremented without a test.
ExitDown_untested(p) ==
  /\ At(p, "exit_down")
  /\ Goto(p, "gone") /\ cp' = [cp EXCEPT ![p].zombi = @ - 1]
  /\ UNCHANGED <<thread, children, arg, ret, code, panicked>>

\* sema_down (&cur->child_proc->sema_zombi), tested again after each wakeup.
ExitDown(p) ==
  /\ At(p, "exit_down")
  /\ \E value \in IF cp[p].mem = "live" THEN {cp[p].zombi} ELSE {0, 1} :
       IF value = 0
       THEN Goto(p, "zombie") /\ UNCHANGED cp
       ELSE Goto(p, "gone") /\ cp' = IF cp[p].mem = "live" THEN [cp EXCEPT ![p].zombi = @ - 1] ELSE cp
  /\ UNCHANGED <<thread, children, arg, ret, code, panicked>>

-----------------------------------------------------------------------------
\* What the kernel does for p once it has been called.
Step(p) ==
  \/ LoadReturn(p) \/ StartNoMemory(p) \/ start_process(p)
  \/ WaitTest(p) \/ WaitUp(p) \/ WaitDown(p) \/ WaitReturn(p)
  \/ ProcessExit(p) \/ free_child_proc(p) \/ ExitSet(p)
  \/ ExitTest(p) \/ ExitUp(p) \/ ExitDown(p)

\* What p calls.
Call(p) ==
  \/ ExecNoPage(p) \/ ExecNoThread(p) \/ thread_exit(p)
  \/ \E c \in Procs : process_execute(p, c) \/ process_wait(p, c)
  \/ \E t \in Procs \cup {ERROR} : WaitRefused(p, t)
  \/ \E status \in Statuses : exit(p, status)

Next == \E p \in Procs : Step(p) \/ Call(p)

Spec == Init /\ [][Next]_vars

-----------------------------------------------------------------------------
(* Properties.                                                             *)

Exiting(p) ==
  pc[p] \in {"exiting", "exit_free", "exit_set", "exit_test", "exit_up", "exit_down", "zombie", "gone"}

\* The record says so, or said so until it was freed.
Died(p) == pc[p] \in {"exit_test", "exit_up", "exit_down", "zombie", "gone"}

TypeOK ==
  /\ \A p \in Procs :
       \/ Exiting(p)
       \/ pc[p] \in {"unborn", "start", "run", "task", "load_wait",
                     "wait_test", "wait_up", "wait_down", "wait_read"}
  /\ parent \in [Procs -> Procs] /\ children \in [Procs -> SUBSET Procs]
  /\ cp \in [Procs -> [mem : {"null", "live", "freed"}, exit : BOOLEAN, wait : BOOLEAN,
                       exit_status : Statuses \cup {ERROR}, zombi : {0, 1}]]
  /\ load_status \in [Procs -> {"not_loaded", "success", "fail"}]
  /\ sema_load \in [Procs -> {0, 1}] /\ sema_wait \in [Procs -> 0..MaxChildren]
  /\ executable \in [Procs -> BOOLEAN] /\ arg \in [Procs -> Procs]
  /\ ret \in [Procs -> Procs \cup Statuses \cup {0, ERROR}]
  /\ code \in [Procs -> Statuses \cup {ERROR}] /\ panicked \in BOOLEAN

\* process.c, remove_child_proc and free_child_proc: the records on a process's
\* list are exactly the allocated ones of its children, so that none is freed
\* twice or lost, and the one that process_wait works on stays there.
RecordsListed ==
  /\ \A p, q \in Procs : p \in children[q] <=> parent[p] = q /\ cp[p].mem = "live"
  /\ \A p \in Procs : pc[p] \in {"wait_test", "wait_up", "wait_down", "wait_read"}
                        => arg[p] \in children[p]

\* process.c, process_execute: it returns only after the child has finished
\* loading, with the child's tid exactly if loading succeeded.
ExecAfterLoad ==
  [][\A p \in Procs : pc[p] = "load_wait" /\ pc'[p] # "load_wait" =>
       /\ load_status[arg[p]] # "not_loaded"
       /\ ret'[p] = arg[p] <=> load_status[arg[p]] = "success"]_vars

\* process.c, process_wait: "Waits for thread TID to die and returns its exit
\* status", -1 if the kernel terminated it: so it is for a process that has had
\* one child (sema_wait belongs to the parent, and the token of another child
\* that was waited for may still be there).
WaitReturnsStatus ==
  [][\A p \in Procs : pc[p] = "wait_read" /\ pc'[p] # "wait_read" /\ Born(p) = {arg[p]} =>
       Died(arg[p]) /\ ret'[p] = code[arg[p]]]_vars

\* So exec and wait never return an answer that is not yet known.
CallsAnswer == ExecAfterLoad /\ WaitReturnsStatus

\* process.c, process_wait: a wait for a child that was loaded and exits comes to
\* an end, whichever of the two looks at the record first.  (One that was not
\* loaded does not up sema_wait: its parent waits for ever.)
WaitCompletes ==
  \A p \in Procs :
    []<>(panicked \/ ~(pc[p] = "wait_down" /\ executable[arg[p]] /\ Exiting(arg[p])))

\* The thread exits without having tried to load: start_process had no memory.
Silent(c) == Exiting(c) /\ load_status[c] = "not_loaded"

\* process.c, process_execute: the call returns once the child has loaded or has
\* failed to.  (A child that is Silent does not up sema_load: its parent waits for
\* ever.)
ExecCompletes ==
  \A p \in Procs : []<>(panicked \/ Silent(arg[p]) \/ pc[p] # "load_wait")

\* So the only sleeps on sema_load and sema_wait that never end are for a child
\* that could not be loaded.
CallsCompleteIfLoaded == WaitCompletes /\ ExecCompletes

-----------------------------------------------------------------------------
\* For TLC: the user processes are interchangeable.
UserSymmetry == Permutations(Procs \ {main})
=============================================================================
