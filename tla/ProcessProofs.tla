---------------------------- MODULE ProcessProofs ----------------------------
(***************************************************************************)
(* exec, wait and exit for any number of processes, statuses and children: *)
(* the records of children are where parent and child look for them, and   *)
(* exec and wait return only answers that are known.                       *)
(***************************************************************************)
EXTENDS Integers, Process, TLAPS

\* Where a process can be, and what a record holds.
Labels == {"unborn", "start", "run", "task", "load_wait",
           "wait_test", "wait_up", "wait_down", "wait_read",
           "exiting", "exit_free", "exit_set", "exit_test", "exit_up", "exit_down",
           "zombie", "gone"}

Records == [mem : {"null", "live", "freed"}, exit : BOOLEAN, wait : BOOLEAN,
            exit_status : Statuses \cup {ERROR}, zombi : Int]

\* The types; the semaphores' values are natural numbers.
TypeInv ==
  /\ pc \in [Procs -> Labels]
  /\ parent \in [Procs -> Procs] /\ children \in [Procs -> SUBSET Procs]
  /\ cp \in [Procs -> Records]
  /\ load_status \in [Procs -> {"not_loaded", "success", "fail"}]
  /\ sema_load \in [Procs -> Nat] /\ sema_wait \in [Procs -> Nat]
  /\ executable \in [Procs -> BOOLEAN] /\ arg \in [Procs -> Procs]
  /\ ret \in [Procs -> Procs \cup Statuses \cup {0, ERROR}]
  /\ code \in [Procs -> Statuses \cup {ERROR}]

\* A process that was not created is as Init has it, and the parent of one that
\* was has been created too.  The initial thread has no record.
BirthInv ==
  /\ \A p \in Procs : pc[p] = "unborn" =>
       /\ cp[p].mem = "null" /\ children[p] = {} /\ sema_load[p] = 0 /\ sema_wait[p] = 0
       /\ load_status[p] = "not_loaded" /\ code[p] = ERROR /\ ~executable[p]
  /\ \A p \in Procs : pc[p] # "unborn" => pc[parent[p]] # "unborn"
  /\ cp[main].mem = "null" /\ ~executable[main] /\ pc[main] \notin {"unborn", "start"}

\* sema_load is upped after the result of loading is stored.
LoadInv == \A p \in Procs : sema_load[p] > 0 => load_status[p] # "not_loaded"

\* What an allocated record says is so.
RecordInv ==
  /\ \A p \in Procs : cp[p].mem = "live" =>
       /\ cp[p].exit_status = code[p]
       /\ cp[p].exit => Died(p)
  /\ \A p \in Procs : pc[p] \in {"exit_test", "exit_up", "exit_down", "zombie"} => executable[p]

\* A child of p has died.
DeadChild(p) == \E c \in Born(p) : Died(c)

\* A unit of sema_wait was put there by a child that died, and a parent that has
\* taken it, or has seen the exit flag, has such a child.
TokenInv ==
  \A p \in Procs : sema_wait[p] > 0 \/ pc[p] \in {"wait_up", "wait_read"} => DeadChild(p)

\* The inductive invariant.
ProcInv == TypeInv /\ RecordsListed /\ BirthInv /\ LoadInv /\ RecordInv /\ TokenInv

\* The fields of a record that the invariant speaks of, other than the status.
Keeps(q) == cp'[q].mem = cp[q].mem /\ (cp'[q].exit => cp[q].exit)

\* What the assignments to records leave of them.
LEMMA NewRecords ==
  /\ NoRecord \in Records /\ NoRecord.mem = "null" /\ ~NoRecord.exit
  /\ NewRecord \in Records /\ NewRecord.mem = "live" /\ ~NewRecord.exit
  /\ NewRecord.exit_status = ERROR
<1>1. NoRecord \in Records /\ NoRecord.mem = "null" /\ ~NoRecord.exit
  BY DEF Records, NoRecord, ERROR
<1>2. NewRecord \in Records
  BY <1>1, Zenon DEF NewRecord, Records
<1>3. NewRecord.mem = "live" /\ ~NewRecord.exit /\ NewRecord.exit_status = ERROR
  BY Zenon DEF NewRecord, NoRecord
<1> QED
  BY <1>1, <1>2, <1>3, Zenon

\* Counting zombies in a record changes nothing else of it.
LEMMA ZombiUpdate ==
  ASSUME cp \in [Procs -> Records], NEW c \in Procs, NEW z \in Int,
         cp' = [cp EXCEPT ![c].zombi = z]
  PROVE  /\ cp' \in [Procs -> Records]
         /\ \A q \in Procs : Keeps(q) /\ cp'[q].exit_status = cp[q].exit_status
<1>1. cp' \in [Procs -> Records]
  BY DEF Records
<1>2. \A q \in Procs : cp'[q].mem = cp[q].mem /\ cp'[q].exit_status = cp[q].exit_status
  BY Zenon DEF Records
<1>3. \A q \in Procs : cp'[q].exit => cp[q].exit
  BY Zenon DEF Records
<1> QED
  BY <1>1, <1>2, <1>3, Zenon DEF Keeps

\* Marking a child as waited for changes nothing else of its record.
LEMMA WaitUpdate ==
  ASSUME cp \in [Procs -> Records], NEW c \in Procs,
         cp' = [cp EXCEPT ![c].wait = TRUE]
  PROVE  /\ cp' \in [Procs -> Records]
         /\ \A q \in Procs : Keeps(q) /\ cp'[q].exit_status = cp[q].exit_status
<1>1. cp' \in [Procs -> Records]
  BY Zenon DEF Records
<1>2. \A q \in Procs : cp'[q].mem = cp[q].mem /\ cp'[q].exit_status = cp[q].exit_status
  BY Zenon DEF Records
<1>3. \A q \in Procs : cp'[q].exit => cp[q].exit
  BY Zenon DEF Records
<1> QED
  BY <1>1, <1>2, <1>3, Zenon DEF Keeps

\* Marking a child as exited changes nothing else of its record.
LEMMA ExitUpdate ==
  ASSUME cp \in [Procs -> Records], NEW c \in Procs,
         cp' = [cp EXCEPT ![c].exit = TRUE]
  PROVE  /\ cp' \in [Procs -> Records]
         /\ \A q \in Procs : /\ q # c => Keeps(q)
                             /\ cp'[q].mem = cp[q].mem /\ cp'[q].exit_status = cp[q].exit_status
<1>1. cp' \in [Procs -> Records]
  BY Zenon DEF Records
<1>2. \A q \in Procs : cp'[q].mem = cp[q].mem /\ cp'[q].exit_status = cp[q].exit_status
  BY Zenon DEF Records
<1>3. \A q \in Procs : q # c /\ cp'[q].exit => cp[q].exit
  BY Zenon DEF Records
<1> QED
  BY <1>1, <1>2, <1>3, Zenon DEF Keeps

\* Storing an exit status changes nothing else of the record.
LEMMA StatusUpdate ==
  ASSUME cp \in [Procs -> Records], NEW c \in Procs, NEW v \in Statuses,
         cp' = [cp EXCEPT ![c].exit_status = v]
  PROVE  /\ cp' \in [Procs -> Records]
         /\ \A q \in Procs :
              Keeps(q) /\ cp'[q].exit_status = IF q = c THEN v ELSE cp[q].exit_status
<1>1. cp' \in [Procs -> Records]
  BY DEF Records
<1>2. \A q \in Procs : cp'[q].mem = cp[q].mem
  BY Zenon DEF Records
<1>3. \A q \in Procs : cp'[q].exit_status = IF q = c THEN v ELSE cp[q].exit_status
  BY Zenon DEF Records
<1>4. \A q \in Procs : cp'[q].exit => cp[q].exit
  BY Zenon DEF Records
<1> QED
  BY <1>1, <1>2, <1>3, <1>4, Zenon DEF Keeps

\* A step of p that leaves the lists and the records' memory alone, and after
\* which p is not in process_wait, keeps the records where they are looked for.
LEMMA ListedStays ==
  ASSUME TypeInv, RecordsListed, NEW p \in Procs, UNCHANGED <<parent, children>>,
         \A q \in Procs : cp'[q].mem = cp[q].mem,
         pc'[p] \notin {"wait_test", "wait_up", "wait_down", "wait_read"},
         \A q \in Procs \ {p} : pc'[q] = pc[q] /\ arg'[q] = arg[q]
  PROVE  RecordsListed'
<1>1. /\ \A q, r \in Procs : q \in children'[r] <=> parent'[q] = r /\ cp'[q].mem = "live"
  BY DEF RecordsListed
<1>2. ASSUME NEW q \in Procs, pc'[q] \in {"wait_test", "wait_up", "wait_down", "wait_read"}
      PROVE  arg'[q] \in children'[q]
  <2>1. q # p /\ pc'[q] = pc[q] /\ arg'[q] = arg[q]
    BY <1>2, Zenon
  <2> QED
    BY <1>2, <2>1, Zenon DEF RecordsListed
<1> QED
  BY <1>1, <1>2, Zenon DEF RecordsListed

\* Records whose status follows the exit status say what is so, when nobody comes
\* to the end of process_exit who has no executable.
LEMMA RecordStays ==
  ASSUME RecordInv, \A q \in Procs : Died(q) => Died(q)', UNCHANGED executable,
         \A q \in Procs : Keeps(q),
         \A q \in Procs : cp[q].mem = "live" /\ cp[q].exit_status = code[q]
                             => cp'[q].exit_status = code'[q],
         \A q \in Procs : pc'[q] \in {"exit_test", "exit_up", "exit_down", "zombie"}
                             => pc[q] \in {"exit_test", "exit_up", "exit_down", "zombie"}
  PROVE  RecordInv'
<1>1. ASSUME NEW q \in Procs, cp'[q].mem = "live"
      PROVE  cp'[q].exit_status = code'[q] /\ (cp'[q].exit => Died(q)')
  BY <1>1, Zenon DEF RecordInv, Keeps
<1>2. ASSUME NEW q \in Procs, pc'[q] \in {"exit_test", "exit_up", "exit_down", "zombie"}
      PROVE  executable'[q]
  BY <1>2, Zenon DEF RecordInv
<1> QED
  BY <1>1, <1>2, Zenon DEF RecordInv

\* free of the records of S leaves the others as they are.
LEMMA FreeUpdate ==
  ASSUME cp \in [Procs -> Records], NEW S \in SUBSET Procs, cp' = free(S)
  PROVE  /\ cp' \in [Procs -> Records]
         /\ \A q \in S : cp'[q].mem = "freed"
         /\ \A q \in Procs \ S : cp'[q] = cp[q]
<1>1. ASSUME NEW r \in Records PROVE [r EXCEPT !.mem = "freed"] \in Records
  BY Zenon DEF Records
<1>2. \A q \in S : cp'[q].mem = "freed"
  BY Zenon DEF free, Records
<1> QED
  BY <1>1, <1>2, Zenon DEF free

\* A process that has been created stays, with its parent, and death is final.
LEMMA DeathIsFinal ==
  ASSUME TypeInv, NEW p \in Procs, Step(p) \/ Call(p)
  PROVE  /\ \A q \in Procs : pc[q] # "unborn" => pc'[q] # "unborn" /\ parent'[q] = parent[q]
         /\ \A q \in Procs : Died(q) => Died(q)'
         /\ \A q \in Procs : DeadChild(q) => DeadChild(q)'
<1> DEFINE Stays ==
             /\ \A q \in Procs : pc[q] # "unborn" => pc'[q] # "unborn" /\ parent'[q] = parent[q]
             /\ \A q \in Procs : Died(q) => Died(q)'
<1> USE DEF TypeInv, At, Goto, Returns, ExecReturns, Calls, thread, Died
<1>1. ASSUME LoadReturn(p) \/ StartNoMemory(p) \/ start_process(p) PROVE Stays
  <2>1. CASE LoadReturn(p) \/ StartNoMemory(p)
    BY <2>1, Zenon DEF LoadReturn, StartNoMemory
  <2>2. CASE start_process(p)
    BY <2>2, Zenon DEF start_process
  <2> QED
    BY <1>1, <2>1, <2>2, Zenon
<1>2. ASSUME WaitTest(p) \/ WaitUp(p) \/ WaitDown(p) \/ WaitReturn(p) PROVE Stays
  BY <1>2 DEF WaitTest, WaitUp, WaitDown, WaitReturn
<1>3. ASSUME ProcessExit(p) \/ free_child_proc(p) \/ ExitSet(p) PROVE Stays
  BY <1>3 DEF ProcessExit, free_child_proc, ExitSet
<1>4. ASSUME ExitTest(p) \/ ExitUp(p) \/ ExitDown(p) PROVE Stays
  BY <1>4 DEF ExitTest, ExitUp, ExitDown
<1>5. ASSUME ExecNoPage(p) \/ ExecNoThread(p) \/ thread_exit(p) PROVE Stays
  BY <1>5 DEF ExecNoPage, ExecNoThread, thread_exit
<1>6. ASSUME NEW c \in Procs, process_execute(p, c) \/ process_wait(p, c) PROVE Stays
  BY <1>6 DEF process_execute, process_wait, MayWaitFor
<1>7. ASSUME NEW t \in Procs \cup {ERROR}, WaitRefused(p, t) PROVE Stays
  BY <1>7, Zenon DEF WaitRefused, MayWaitFor
<1>8. ASSUME NEW status \in Statuses, exit(p, status) PROVE Stays
  BY <1>8, Zenon DEF exit
<1>9. Stays
  BY <1>1, <1>2, <1>3, <1>4, <1>5, <1>6, <1>7, <1>8, Zenon DEF Step, Call
<1>10. ASSUME NEW q \in Procs, DeadChild(q) PROVE DeadChild(q)'
  <2>1. PICK c \in Born(q) : Died(c)
    BY <1>10, Zenon DEF DeadChild
  <2>2. c \in Born(q)' /\ Died(c)'
    BY <1>9, <2>1, Zenon DEF Born, thread_exist
  <2> QED
    BY <2>2, Zenon DEF DeadChild
<1> QED
  BY <1>9, <1>10, Zenon

\* Every step preserves the invariant.
LEMMA StepInv ==
  ASSUME ProcInv, NEW p \in Procs, Step(p) \/ Call(p)
  PROVE  ProcInv'
<1> USE ProcessAssumption
    DEF ProcInv, At, Goto, Returns, ExecReturns, Calls, thread, ERROR, thread_exist
<1>1. /\ \A q \in Procs : Died(q) => Died(q)'
      /\ \A q \in Procs : DeadChild(q) => DeadChild(q)'
  BY DeathIsFinal, Zenon
<1>2. \A q \in Procs : parent[q] \in Procs /\ arg[q] \in Procs /\ children[q] \in SUBSET Procs
  BY Zenon DEF TypeInv
<1>3. CASE LoadReturn(p)
  <2> USE <1>3 DEF LoadReturn
  <2>1. TypeInv' /\ RecordsListed' /\ BirthInv' /\ LoadInv'
    BY DEF TypeInv, Labels, RecordsListed, BirthInv, LoadInv
  <2>2. RecordInv' /\ TokenInv'
    BY <1>1 DEF TypeInv, BirthInv, RecordInv, TokenInv, Died
  <2> QED
    BY <2>1, <2>2, Zenon
<1>4. CASE StartNoMemory(p)
  <2> USE <1>4 DEF StartNoMemory
  <2>1. TypeInv' /\ RecordsListed' /\ BirthInv' /\ LoadInv'
    BY DEF TypeInv, Labels, RecordsListed, BirthInv, LoadInv
  <2>2. RecordInv' /\ TokenInv'
    BY <1>1 DEF TypeInv, BirthInv, RecordInv, TokenInv, Died
  <2> QED
    BY <2>1, <2>2, Zenon
<1>5. CASE start_process(p)
  <2> USE <1>5 DEF start_process
  <2>1. PICK success \in BOOLEAN :
          /\ load_status' = [load_status EXCEPT ![p] = IF success THEN "success" ELSE "fail"]
          /\ executable' = [executable EXCEPT ![p] = success]
          /\ Goto(p, IF success THEN "run" ELSE "exiting")
    BY Zenon
  <2>2. executable' \in [Procs -> BOOLEAN]
    BY <2>1, Zenon DEF TypeInv
  <2>3. TypeInv'
    BY <2>1, <2>2 DEF TypeInv, Labels
  <2>4. RecordsListed'
    BY <2>1, <2>2 DEF TypeInv, RecordsListed, BirthInv
  <2>5. BirthInv'
    BY <2>1, <2>2 DEF TypeInv, RecordsListed, BirthInv
  <2>6. LoadInv'
    BY <2>1, <2>2, Zenon DEF TypeInv, LoadInv
  <2>7. RecordInv'
    BY <1>1, <2>1, <2>2 DEF TypeInv, RecordsListed, BirthInv, RecordInv, Died
  <2>8. TokenInv'
    BY <1>1, <2>1, <2>2 DEF TypeInv, RecordsListed, BirthInv, RecordInv, TokenInv
  <2> QED
    BY <2>3, <2>4, <2>5, <2>6, <2>7, <2>8, Zenon
<1>6. CASE WaitTest(p)
  <2> USE <1>6 DEF WaitTest
  <2>1. ASSUME cp[arg[p]].exit PROVE DeadChild(p)
    <3>1. arg[p] \in children[p] /\ cp[arg[p]].mem = "live" /\ parent[arg[p]] = p
      BY Zenon DEF TypeInv, RecordsListed
    <3>2. arg[p] \in Born(p) /\ Died(arg[p])
      BY <2>1, <3>1, NewRecords, Zenon DEF TypeInv, BirthInv, RecordInv, Born
    <3> QED
      BY <3>2, Zenon DEF DeadChild
  <2>2. TypeInv'
    BY <2>1, Zenon DEF TypeInv, Labels
  <2>3. RecordsListed'
    BY <2>1 DEF TypeInv, RecordsListed, BirthInv
  <2>4. BirthInv'
    BY <2>1 DEF TypeInv, RecordsListed, BirthInv
  <2>5. LoadInv'
    BY <2>1, Zenon DEF TypeInv, LoadInv
  <2>6. RecordInv'
    BY <1>1, <2>1 DEF TypeInv, RecordsListed, BirthInv, RecordInv, Died
  <2>7. TokenInv'
    BY <1>1, <2>1 DEF TypeInv, RecordsListed, BirthInv, RecordInv, TokenInv
  <2> QED
    BY <2>2, <2>3, <2>4, <2>5, <2>6, <2>7, Zenon
<1>7. CASE WaitUp(p)
  <2> DEFINE c == arg[p]
  <2>1. /\ pc[p] = "wait_up" /\ UNCHANGED <<thread, children, arg, ret, code>>
        /\ pc' = [pc EXCEPT ![p] = "wait_read", ![c] = IF @ = "zombie" THEN "exit_down" ELSE @]
    BY <1>7, Zenon DEF WaitUp
  <2>2. /\ cp' \in [Procs -> Records]
        /\ \A q \in Procs : Keeps(q) /\ cp'[q].exit_status = cp[q].exit_status
    <3> DEFINE z == cp[c].zombi + 1
    <3>1. c \in Procs /\ z \in Int /\ cp' = [cp EXCEPT ![c].zombi = z]
      BY <1>7 DEF WaitUp, TypeInv, Records
    <3> HIDE DEF z
    <3> QED
      BY <3>1, ZombiUpdate, Zenon DEF TypeInv
  <2>3. TypeInv'
    BY <2>1, <2>2, Zenon DEF TypeInv, Labels
  <2>4. \A q \in Procs : \/ pc'[q] = pc[q]
                         \/ q = p /\ pc'[q] = "wait_read"
                         \/ pc[q] = "zombie" /\ pc'[q] = "exit_down"
    BY <2>1, Zenon DEF TypeInv
  <2>5. /\ pc[p] = "wait_up" /\ UNCHANGED <<thread, children, arg, ret, code>>
        /\ \A q \in Procs : cp'[q].mem = cp[q].mem /\ cp'[q].exit_status = cp[q].exit_status
        /\ \A q \in Procs : cp'[q].exit => cp[q].exit
    BY <2>1, <2>2, Zenon DEF Keeps
  <2>6. RecordsListed'
    BY <1>2, <2>4, <2>5 DEF RecordsListed
  <2>7. BirthInv'
    BY <1>2, <2>4, <2>5 DEF BirthInv
  <2>8. LoadInv'
    BY <2>5, Zenon DEF LoadInv
  <2>9. RecordInv'
    BY <1>1, <2>4, <2>5, Zenon DEF RecordInv
  <2>10. TokenInv'
    BY <1>1, <2>4, <2>5, Zenon DEF TokenInv
  <2> QED
    BY <2>3, <2>6, <2>7, <2>8, <2>9, <2>10, Zenon
<1>8. CASE WaitDown(p)
  <2> USE <1>8 DEF WaitDown
  <2>1. TypeInv' /\ RecordsListed' /\ BirthInv' /\ LoadInv'
    BY DEF TypeInv, Labels, RecordsListed, BirthInv, LoadInv
  <2>2. RecordInv' /\ TokenInv'
    BY <1>1 DEF TypeInv, BirthInv, RecordInv, TokenInv, Died
  <2> QED
    BY <2>1, <2>2, Zenon
<1>9. CASE WaitReturn(p)
  <2> DEFINE c == arg[p]
  <2>1. /\ pc[p] = "wait_read" /\ pc' = [pc EXCEPT ![p] = "run"]
        /\ arg' = [arg EXCEPT ![p] = p] /\ ret' = [ret EXCEPT ![p] = cp[c].exit_status]
        /\ children' = [children EXCEPT ![p] = @ \ {c}]
        /\ UNCHANGED <<thread, code>>
    BY <1>9, Zenon DEF WaitReturn
  <2>2. /\ cp' \in [Procs -> Records]
        /\ cp'[c].mem = "freed"
        /\ \A q \in Procs \ {c} : cp'[q] = cp[q]
    <3>1. cp' = free({c}) /\ {c} \in SUBSET Procs
      BY <1>9 DEF WaitReturn, TypeInv
    <3> QED
      BY <3>1, FreeUpdate, Zenon DEF TypeInv
  <2>3. TypeInv'
    <3>1. cp[c].exit_status \in Statuses \cup {ERROR}
      BY Zenon DEF TypeInv, Records
    <3> QED
      BY <2>1, <2>2, <3>1, Zenon DEF TypeInv, Labels
  <2>4. /\ pc'[p] = "run" /\ \A q \in Procs \ {p} : pc'[q] = pc[q] /\ arg'[q] = arg[q]
        /\ \A q \in Procs : children'[q] = IF q = p THEN children[p] \ {c} ELSE children[q]
        /\ c \in children[p] /\ pc[c] # "unborn" /\ cp[c].mem = "live"
        /\ parent[c] = p /\ c # main
    BY <1>2, <2>1 DEF TypeInv, RecordsListed, BirthInv
  <2>5. UNCHANGED <<thread, code>> /\ pc[p] = "wait_read"
    BY <2>1, Zenon
  <2>6. RecordsListed'
    BY <1>2, <2>2, <2>4, <2>5 DEF RecordsListed
  <2>7. BirthInv'
    BY <1>2, <2>2, <2>4, <2>5 DEF BirthInv
  <2>8. LoadInv'
    BY <2>5, Zenon DEF LoadInv
  <2>9. RecordInv'
    BY <1>1, <2>2, <2>4, <2>5 DEF RecordInv
  <2>10. TokenInv'
    BY <1>1, <2>2, <2>4, <2>5, Zenon DEF TokenInv
  <2> QED
    BY <2>3, <2>6, <2>7, <2>8, <2>9, <2>10, Zenon
<1>10. CASE ProcessExit(p)
  <2> USE <1>10 DEF ProcessExit
  <2>1. TypeInv' /\ RecordsListed' /\ BirthInv' /\ LoadInv'
    BY DEF TypeInv, Labels, RecordsListed, BirthInv, LoadInv
  <2>2. RecordInv' /\ TokenInv'
    BY <1>1 DEF TypeInv, BirthInv, RecordInv, TokenInv, Died
  <2> QED
    BY <2>1, <2>2, Zenon
<1>11. CASE free_child_proc(p)
  <2>1. /\ pc[p] = "exit_free" /\ pc' = [pc EXCEPT ![p] = "exit_set"]
        /\ children' = [children EXCEPT ![p] = {}]
        /\ UNCHANGED <<thread, arg, ret, code>>
    BY <1>11, Zenon DEF free_child_proc
  <2>2. /\ cp' \in [Procs -> Records]
        /\ \A q \in children[p] : cp'[q].mem = "freed"
        /\ \A q \in Procs \ children[p] : cp'[q] = cp[q]
    <3>1. cp' = free(children[p]) /\ children[p] \in SUBSET Procs
      BY <1>11, Zenon DEF free_child_proc, TypeInv
    <3> QED
      BY <3>1, FreeUpdate, Zenon DEF TypeInv
  <2>3. /\ \A q \in children[p] : cp'[q].mem = "freed"
        /\ \A q \in Procs \ children[p] : cp'[q] = cp[q]
    BY <2>2, Zenon
  <2>4. TypeInv'
    BY <2>1, <2>2, <2>3, Zenon DEF TypeInv, Labels
  <2>5. RecordsListed'
    BY <2>1, <2>3 DEF TypeInv, RecordsListed, BirthInv
  <2>6. BirthInv'
    BY <2>1, <2>3 DEF TypeInv, RecordsListed, BirthInv
  <2>7. LoadInv'
    BY <2>1, <2>3, Zenon DEF TypeInv, LoadInv
  <2>8. RecordInv'
    BY <1>1, <2>1, <2>3 DEF TypeInv, RecordsListed, BirthInv, RecordInv, Died
  <2>9. TokenInv'
    BY <1>1, <2>1, <2>3 DEF TypeInv, RecordsListed, BirthInv, RecordInv, TokenInv
  <2> QED
    BY <2>4, <2>5, <2>6, <2>7, <2>8, <2>9, Zenon
<1>12. CASE ExitSet(p)
  <2>1. /\ pc[p] = "exit_set" /\ UNCHANGED <<thread, children, arg, ret, code>>
        /\ \/ /\ executable[p] /\ cp' = [cp EXCEPT ![p].exit = TRUE]
              /\ pc' = [pc EXCEPT ![p] = "exit_test"]
           \/ cp' = cp /\ pc' = [pc EXCEPT ![p] = "gone"]
    BY <1>12, Zenon DEF ExitSet
  <2>2. /\ cp' \in [Procs -> Records]
        /\ \A q \in Procs : (q # p => Keeps(q)) /\ cp'[q].mem = cp[q].mem
                            /\ cp'[q].exit_status = cp[q].exit_status
    BY <2>1, ExitUpdate, Zenon DEF TypeInv, Keeps
  <2>3. TypeInv'
    BY <2>1, <2>2 DEF TypeInv, Labels
  <2>4. /\ (executable[p] /\ pc'[p] = "exit_test") \/ pc'[p] = "gone"
        /\ \A q \in Procs \ {p} : pc'[q] = pc[q]
        /\ \A q \in Procs : cp'[q].mem = cp[q].mem /\ cp'[q].exit_status = cp[q].exit_status
        /\ \A q \in Procs \ {p} : cp'[q].exit => cp[q].exit
    BY <2>1, <2>2 DEF TypeInv, Keeps
  <2>5. UNCHANGED <<thread, children, arg, ret, code>> /\ pc[p] = "exit_set"
    BY <2>1, Zenon
  <2>6. RecordsListed'
    BY <1>2, <2>4, <2>5 DEF RecordsListed
  <2>7. BirthInv'
    BY <1>2, <2>4, <2>5 DEF BirthInv
  <2>8. LoadInv'
    BY <2>5, Zenon DEF LoadInv
  <2>9. RecordInv'
    BY <1>1, <2>4, <2>5 DEF RecordInv, Died
  <2>10. TokenInv'
    BY <1>1, <2>4, <2>5, Zenon DEF TokenInv
  <2> QED
    BY <2>3, <2>6, <2>7, <2>8, <2>9, <2>10, Zenon
<1>13. CASE ExitTest(p)
  <2> USE <1>13 DEF ExitTest
  <2>1. TypeInv' /\ RecordsListed' /\ BirthInv' /\ LoadInv'
    BY DEF TypeInv, Labels, RecordsListed, BirthInv, LoadInv
  <2>2. RecordInv' /\ TokenInv'
    BY <1>1 DEF TypeInv, BirthInv, RecordInv, TokenInv, Died
  <2> QED
    BY <2>1, <2>2, Zenon
<1>14. CASE ExitUp(p)
  <2> USE <1>14 DEF ExitUp
  <2>1. DeadChild(parent[p])'
    <3>1. p \in Born(parent[p])' /\ Died(p)'
      BY Zenon DEF TypeInv, BirthInv, RecordInv, Born, Died
    <3> QED
      BY <3>1, Zenon DEF DeadChild
  <2>2. TypeInv'
    BY <2>1 DEF TypeInv, Labels
  <2>3. RecordsListed'
    BY <2>1 DEF TypeInv, RecordsListed, BirthInv
  <2>4. BirthInv'
    BY <2>1 DEF TypeInv, RecordsListed, BirthInv
  <2>5. LoadInv'
    BY <2>1, Zenon DEF TypeInv, LoadInv
  <2>6. RecordInv'
    BY <1>1, <2>1 DEF TypeInv, RecordsListed, BirthInv, RecordInv, Died
  <2>7. TokenInv'
    BY <1>1, <2>1 DEF TypeInv, RecordsListed, BirthInv, RecordInv, TokenInv
  <2> QED
    BY <2>2, <2>3, <2>4, <2>5, <2>6, <2>7, Zenon
<1>15. CASE ExitDown(p)
  <2>1. /\ pc[p] = "exit_down" /\ UNCHANGED <<thread, children, arg, ret, code>>
        /\ pc' = [pc EXCEPT ![p] = "zombie"] \/ pc' = [pc EXCEPT ![p] = "gone"]
    BY <1>15, Zenon DEF ExitDown
  <2>2. /\ cp' \in [Procs -> Records]
        /\ \A q \in Procs : Keeps(q) /\ cp'[q].exit_status = cp[q].exit_status
    <3> DEFINE z == cp[p].zombi - 1
    <3>1. cp' = cp \/ cp' = [cp EXCEPT ![p].zombi = z]
      BY <1>15, Zenon DEF ExitDown
    <3>2. z \in Int
      BY DEF TypeInv, Records
    <3> HIDE DEF z
    <3> QED
      BY <3>1, <3>2, ZombiUpdate, Zenon DEF TypeInv, Keeps
  <2>3. TypeInv'
    BY <2>1, <2>2, Zenon DEF TypeInv, Labels
  <2>4. /\ pc'[p] \in {"zombie", "gone"} /\ \A q \in Procs \ {p} : pc'[q] = pc[q]
        /\ \A q \in Procs : cp'[q].mem = cp[q].mem /\ cp'[q].exit_status = cp[q].exit_status
        /\ \A q \in Procs : cp'[q].exit => cp[q].exit
    BY <2>1, <2>2 DEF TypeInv, Keeps
  <2>5. RecordsListed'
    BY <2>1, <2>4, ListedStays, Zenon
  <2>6. BirthInv'
    BY <1>2, <2>1, <2>4 DEF BirthInv
  <2>7. LoadInv'
    BY <2>1, Zenon DEF LoadInv
  <2>8. RecordInv'
    BY <1>1, <2>1, <2>4, Zenon DEF RecordInv
  <2>9. TokenInv'
    BY <1>1, <2>1, <2>4, Zenon DEF TokenInv
  <2> QED
    BY <2>3, <2>5, <2>6, <2>7, <2>8, <2>9, Zenon
<1>16. CASE ExecNoPage(p)
  <2> USE <1>16 DEF ExecNoPage
  <2>1. TypeInv' /\ RecordsListed' /\ BirthInv' /\ LoadInv'
    BY DEF TypeInv, Labels, RecordsListed, BirthInv, LoadInv
  <2>2. RecordInv' /\ TokenInv'
    BY <1>1 DEF TypeInv, BirthInv, RecordInv, TokenInv, Died
  <2> QED
    BY <2>1, <2>2, Zenon
<1>17. CASE ExecNoThread(p)
  <2> USE <1>17 DEF ExecNoThread
  <2>1. TypeInv' /\ RecordsListed' /\ BirthInv' /\ LoadInv'
    BY DEF TypeInv, Labels, RecordsListed, BirthInv, LoadInv
  <2>2. RecordInv' /\ TokenInv'
    BY <1>1, Zenon DEF TypeInv, BirthInv, RecordInv, TokenInv, Died
  <2> QED
    BY <2>1, <2>2, Zenon
<1>18. CASE thread_exit(p)
  <2> USE <1>18 DEF thread_exit
  <2>1. TypeInv' /\ RecordsListed' /\ BirthInv' /\ LoadInv'
    BY DEF TypeInv, Labels, RecordsListed, BirthInv, LoadInv
  <2>2. RecordInv' /\ TokenInv'
    BY <1>1 DEF TypeInv, BirthInv, RecordInv, TokenInv, Died
  <2> QED
    BY <2>1, <2>2, Zenon
<1>19. ASSUME NEW c \in Procs, process_execute(p, c) PROVE ProcInv'
  <2>1. /\ pc[p] = "run" /\ pc[c] = "unborn" /\ parent' = [parent EXCEPT ![c] = p]
        /\ arg' = [arg EXCEPT ![p] = c] /\ ret' = [ret EXCEPT ![p] = 0]
        /\ pc' = [pc EXCEPT ![p] = "load_wait", ![c] = "start"]
        /\ UNCHANGED <<load_status, sema_load, executable, sema_wait, code>>
    BY <1>19, Zenon DEF process_execute
  <2>2. /\ c # main /\ c # p /\ cp[c].mem = "null" /\ sema_wait[c] = 0 /\ code[c] = ERROR
        /\ ~executable[c]
        /\ \A q \in Procs : c \notin children[q]
    BY <2>1, NewRecords, Zenon DEF TypeInv, RecordsListed, BirthInv
  <2>3. /\ cp' \in [Procs -> Records] /\ children' \in [Procs -> SUBSET Procs]
        /\ \A q \in Procs : q # c => cp'[q] = cp[q]
        /\ \/ /\ cp'[c].mem = "live" /\ ~cp'[c].exit /\ cp'[c].exit_status = ERROR
              /\ \A q \in Procs : children'[q] = IF q = p THEN children[p] \cup {c} ELSE children[q]
           \/ cp'[c].mem = "null" /\ children' = children
    <3>1. CASE UNCHANGED <<cp, children>>
      BY <2>2, <3>1, Zenon DEF TypeInv
    <3>2. CASE cp' = [cp EXCEPT ![c] = NewRecord] /\ children' = [children EXCEPT ![p] = @ \cup {c}]
      BY <3>2, NewRecords DEF TypeInv
    <3> QED
      BY <1>19, <3>1, <3>2, Zenon DEF process_execute
  <2>4. TypeInv'
    <3>1. pc' \in [Procs -> Labels] /\ parent' \in [Procs -> Procs] /\ arg' \in [Procs -> Procs]
      BY <2>1, Zenon DEF TypeInv, Labels
    <3>2. ret' \in [Procs -> Procs \cup Statuses \cup {0, ERROR}]
      BY <2>1, Zenon DEF TypeInv
    <3> QED
      BY <2>1, <2>3, <3>1, <3>2, Zenon DEF TypeInv
  <2>5. /\ \A q \in Procs \ {c} : cp'[q] = cp[q] /\ parent'[q] = parent[q]
        /\ \A q \in Procs \ {c, p} : pc'[q] = pc[q] /\ arg'[q] = arg[q]
        /\ pc'[p] = "load_wait" /\ pc'[c] = "start" /\ parent'[c] = p
        /\ pc[p] = "run" /\ UNCHANGED <<load_status, sema_load, executable, sema_wait, code>>
    BY <2>1, <2>2, <2>3 DEF TypeInv
  <2>6. RecordsListed'
    <3>1. \A r, q \in Procs : r \in children'[q] <=> parent'[r] = q /\ cp'[r].mem = "live"
      BY <2>2, <2>3, <2>5, <1>2 DEF RecordsListed
    <3>2. \A r \in Procs : pc'[r] \in {"wait_test", "wait_up", "wait_down", "wait_read"}
                             => arg'[r] \in children'[r]
      BY <2>3, <2>5, Zenon DEF RecordsListed
    <3> QED
      BY <3>1, <3>2, Zenon DEF RecordsListed
  <2>7. BirthInv'
    <3>1. \A q \in Procs : pc'[q] = "unborn" =>
            /\ q # c /\ q # p /\ pc[q] = "unborn" /\ cp'[q] = cp[q] /\ children'[q] = children[q]
      BY <2>3, <2>5, Zenon
    <3>2. \A q \in Procs : pc'[q] # "unborn" => pc'[parent'[q]] # "unborn"
      BY <2>5, <1>2 DEF BirthInv
    <3>3. cp'[main] = cp[main] /\ pc'[main] \notin {"unborn", "start"}
      BY <2>2, <2>5, Zenon DEF BirthInv
    <3> QED
      BY <2>5, <3>1, <3>2, <3>3 DEF BirthInv
  <2>8. LoadInv'
    BY <2>5, Zenon DEF LoadInv
  <2>9. RecordInv'
    <3>1. ASSUME NEW q \in Procs, cp'[q].mem = "live"
          PROVE  cp'[q].exit_status = code'[q] /\ (cp'[q].exit => Died(q)')
      <4>1. CASE q = c
        BY <2>2, <2>3, <2>5, <3>1, <4>1, Zenon
      <4>2. CASE q # c
        <5>1. cp'[q] = cp[q] /\ code'[q] = code[q]
          BY <2>5, <4>2, Zenon
        <5>2. Died(q) => Died(q)'
          BY <1>1, <2>5, <4>2, Zenon
        <5> QED
          BY <3>1, <5>1, <5>2, Zenon DEF RecordInv
      <4> QED
        BY <4>1, <4>2, Zenon
    <3>2. \A q \in Procs : pc'[q] \in {"exit_test", "exit_up", "exit_down", "zombie"} => executable'[q]
      BY <2>5, Zenon DEF RecordInv
    <3> QED
      BY <3>1, <3>2, Zenon DEF RecordInv
  <2>10. TokenInv'
    BY <1>1, <2>2, <2>5, Zenon DEF TokenInv
  <2> QED
    BY <2>4, <2>6, <2>7, <2>8, <2>9, <2>10, Zenon
<1>20. ASSUME NEW c \in Procs, process_wait(p, c) PROVE ProcInv'
  <2> USE <1>20 DEF process_wait, MayWaitFor
  <2>1. /\ cp' \in [Procs -> Records]
        /\ \A q \in Procs : Keeps(q) /\ cp'[q].exit_status = cp[q].exit_status
    BY WaitUpdate, Zenon DEF TypeInv
  <2>2. TypeInv'
    BY <2>1, Zenon DEF TypeInv, Labels
  <2>3. RecordsListed'
    BY <2>1 DEF TypeInv, RecordsListed, BirthInv, Keeps
  <2>4. BirthInv'
    BY <2>1 DEF TypeInv, RecordsListed, BirthInv, Keeps
  <2>5. LoadInv'
    BY <2>1, Zenon DEF TypeInv, LoadInv, Keeps
  <2>6. RecordInv'
    BY <1>1, <2>1 DEF TypeInv, RecordsListed, BirthInv, RecordInv, Died, Keeps
  <2>7. TokenInv'
    BY <1>1, <2>1 DEF TypeInv, RecordsListed, BirthInv, RecordInv, TokenInv
  <2> QED
    BY <2>2, <2>3, <2>4, <2>5, <2>6, <2>7, Zenon
<1>21. ASSUME NEW t \in Procs \cup {ERROR}, WaitRefused(p, t) PROVE ProcInv'
  <2> USE <1>21 DEF WaitRefused, MayWaitFor
  <2>1. TypeInv' /\ RecordsListed' /\ BirthInv' /\ LoadInv'
    BY DEF TypeInv, Labels, RecordsListed, BirthInv, LoadInv
  <2>2. RecordInv' /\ TokenInv'
    BY <1>1 DEF TypeInv, BirthInv, RecordInv, TokenInv, Died
  <2> QED
    BY <2>1, <2>2, Zenon
<1>22. ASSUME NEW status \in Statuses, exit(p, status) PROVE ProcInv'
  <2>1. /\ pc[p] = "run" /\ p # main /\ pc' = [pc EXCEPT ![p] = "exiting"]
        /\ arg' = [arg EXCEPT ![p] = p] /\ ret' = [ret EXCEPT ![p] = 0]
        /\ code' = [code EXCEPT ![p] = status] /\ UNCHANGED <<thread, children>>
    BY <1>22, Zenon DEF exit
  <2>2. /\ cp' \in [Procs -> Records]
        /\ \A q \in Procs : Keeps(q) /\ (q # p => cp'[q].exit_status = cp[q].exit_status)
        /\ cp[p].mem = "live" => cp'[p].exit_status = status
    <3>1. CASE cp' = [cp EXCEPT ![p].exit_status = status]
      <4>1. cp \in [Procs -> Records]
        BY Zenon DEF TypeInv
      <4> QED
        BY <1>22, <3>1, <4>1, StatusUpdate, Zenon
    <3>2. CASE cp' = cp /\ cp[p].mem = "null"
      BY <3>2, Zenon DEF TypeInv, Keeps
    <3>3. pc[parent[p]] # "unborn"
      BY <2>1, Zenon DEF BirthInv
    <3> QED
      BY <1>22, <3>1, <3>2, <3>3, Zenon DEF exit
  <2>3. TypeInv'
    BY <2>1, <2>2, Zenon DEF TypeInv, Labels
  <2>4. /\ pc'[p] = "exiting" /\ \A q \in Procs \ {p} : pc'[q] = pc[q] /\ arg'[q] = arg[q]
        /\ \A q \in Procs : cp'[q].mem = cp[q].mem
        /\ \A q \in Procs : cp'[q].exit => cp[q].exit
        /\ \A q \in Procs : cp[q].mem = "live" /\ cp[q].exit_status = code[q]
                              => cp'[q].exit_status = code'[q]
        /\ \A q \in Procs \ {p} : code'[q] = code[q]
    BY <2>1, <2>2 DEF TypeInv, Keeps
  <2>5. UNCHANGED <<thread, children>> /\ pc[p] = "run" /\ p # main
    BY <2>1, Zenon
  <2>6. RecordsListed'
    BY <2>4, <2>5, ListedStays, Zenon
  <2>7. BirthInv'
    BY <1>2, <2>4, <2>5, SMTT(30) DEF BirthInv
  <2>8. LoadInv'
    BY <2>5, Zenon DEF LoadInv
  <2>9. RecordInv'
    BY <1>1, <2>2, <2>4, <2>5, RecordStays, Zenon
  <2>10. TokenInv'
    BY <1>1, <2>4, <2>5, Zenon DEF TokenInv
  <2> QED
    BY <2>3, <2>6, <2>7, <2>8, <2>9, <2>10, Zenon
<1> QED
  BY <1>3, <1>4, <1>5, <1>6, <1>7, <1>8, <1>9, <1>10, <1>11, <1>12, <1>13, <1>14, <1>15, <1>16,
     <1>17, <1>18, <1>19, <1>20, <1>21, <1>22, Zenon DEF Step, Call

\* The invariant holds when only the initial thread runs.
LEMMA InitInv == Init => ProcInv
<1> SUFFICES ASSUME Init PROVE ProcInv
  BY Zenon
<1> USE ProcessAssumption, NewRecords DEF Init, ERROR
<1>1. TypeInv
  BY Zenon DEF TypeInv, Labels
<1>2. RecordsListed /\ LoadInv /\ RecordInv
  BY DEF RecordsListed, LoadInv, RecordInv
<1>3. BirthInv /\ TokenInv
  BY DEF BirthInv, TokenInv
<1> QED
  BY <1>1, <1>2, <1>3, Zenon DEF ProcInv

\* Between the statements of exec, wait and exit the records, semaphores and
\* program counters of all processes agree, however the processes interleave and
\* whichever allocation fails.
THEOREM ProcessInvariant == Spec => []ProcInv
<1>1. ProcInv /\ UNCHANGED vars => ProcInv'
  BY DEF ProcInv, TypeInv, RecordsListed, BirthInv, LoadInv, RecordInv, TokenInv, DeadChild,
         Born, Died, thread_exist, vars, thread
<1>2. ProcInv /\ [Next]_vars => ProcInv'
  BY <1>1, StepInv, Zenon DEF Next
<1> QED
  BY InitInv, <1>2, PTL DEF Spec

\* process.c, remove_child_proc and free_child_proc: for any number of processes
\* the records on a list are exactly the allocated ones of the owner's children,
\* and the one that process_wait works on stays listed until it returns.
THEOREM RecordsListedHolds == Spec => []RecordsListed
<1>1. ProcInv => RecordsListed
  BY Zenon DEF ProcInv
<1> QED
  BY ProcessInvariant, <1>1, PTL

\* A process inside exec or wait is moved by its own step only.
LEMMA OwnStep ==
  ASSUME ProcInv, NEW p \in Procs, pc[p] \in {"load_wait", "wait_read"}, pc'[p] # pc[p],
         NEW q \in Procs, Step(q) \/ Call(q)
  PROVE  LoadReturn(p) \/ WaitReturn(p)
<1> USE DEF ProcInv, TypeInv, At, Goto, Returns, ExecReturns, Calls
<1>1. ~(ExecNoPage(q) \/ ExecNoThread(q) \/ thread_exit(q))
  BY Zenon DEF ExecNoPage, ExecNoThread, thread_exit
<1>2. \A c \in Procs : ~process_execute(q, c) /\ ~process_wait(q, c)
  BY DEF process_execute, process_wait, MayWaitFor
<1>3. \A t \in Procs \cup {ERROR} : ~WaitRefused(q, t)
  BY Zenon DEF WaitRefused, MayWaitFor
<1>4. \A status \in Statuses : ~exit(q, status)
  BY Zenon DEF exit
<1>5. ~(StartNoMemory(q) \/ start_process(q)) /\ ~(WaitTest(q) \/ WaitUp(q) \/ WaitDown(q))
  <2>1. ~StartNoMemory(q)
    BY Zenon DEF StartNoMemory
  <2>2. ~start_process(q)
    BY Zenon DEF start_process
  <2>3. ~(WaitTest(q) \/ WaitUp(q) \/ WaitDown(q))
    <3>1. ~WaitTest(q)
      BY Zenon DEF WaitTest
    <3>2. ~WaitUp(q) /\ ~WaitDown(q)
      BY ZenonT(40) DEF WaitUp, WaitDown
    <3> QED
      BY <3>1, <3>2, Zenon
  <2> QED
    BY <2>1, <2>2, <2>3, Zenon
<1>6. ~(ProcessExit(q) \/ free_child_proc(q) \/ ExitSet(q))
  BY Zenon DEF ProcessExit, free_child_proc, ExitSet
<1>7. ~(ExitTest(q) \/ ExitUp(q) \/ ExitDown(q))
  BY Zenon DEF ExitTest, ExitUp, ExitDown
<1>8. LoadReturn(q) \/ WaitReturn(q) => q = p
  BY Zenon DEF LoadReturn, WaitReturn
<1> QED
  BY <1>1, <1>2, <1>3, <1>4, <1>5, <1>6, <1>8, <1>7, Zenon DEF Step, Call

\* process.c, process_execute and process_wait: exec answers only when the child
\* has stored the result of loading, with its tid exactly if that is success, and
\* wait by a process with one child returns only what that child, by then dead,
\* exited with.
THEOREM CallsAnswerHolds == Spec => CallsAnswer
<1> DEFINE Exec(p) == pc[p] = "load_wait" /\ pc'[p] # "load_wait" =>
                        /\ load_status[arg[p]] # "not_loaded"
                        /\ ret'[p] = arg[p] <=> load_status[arg[p]] = "success"
           Wait(p) == pc[p] = "wait_read" /\ pc'[p] # "wait_read" /\ Born(p) = {arg[p]} =>
                        Died(arg[p]) /\ ret'[p] = code[arg[p]]
<1>1. ASSUME ProcInv, Next, NEW p \in Procs PROVE Exec(p)
  <2> SUFFICES ASSUME pc[p] = "load_wait", pc'[p] # "load_wait" PROVE Exec(p)!2
    BY Zenon
  <2>1. LoadReturn(p)
    BY <1>1, OwnStep, Zenon DEF Next, WaitReturn, At
  <2>2. arg[p] \in Procs /\ sema_load[arg[p]] > 0
    BY <1>1, <2>1, Zenon DEF LoadReturn, ProcInv, TypeInv
  <2>3. load_status[arg[p]] \in {"success", "fail"}
    BY <1>1, <2>2, Zenon DEF ProcInv, TypeInv, LoadInv
  <2>4. ret'[p] = IF load_status[arg[p]] = "fail" THEN ERROR ELSE arg[p]
    BY <1>1, <2>1, Zenon DEF LoadReturn, ExecReturns, Returns, ProcInv, TypeInv
  <2>5. ERROR # arg[p]
    BY <2>2, ProcessAssumption DEF ERROR
  <2> QED
    BY <2>3, <2>4, <2>5, Zenon
<1>2. ASSUME ProcInv, Next, NEW p \in Procs PROVE Wait(p)
  <2> SUFFICES ASSUME pc[p] = "wait_read", pc'[p] # "wait_read", Born(p) = {arg[p]}
               PROVE  Died(arg[p]) /\ ret'[p] = code[arg[p]]
    BY Zenon
  <2>1. WaitReturn(p)
    BY <1>2, OwnStep, Zenon DEF Next, LoadReturn, At
  <2>2. Died(arg[p])
    BY <1>2, Zenon DEF ProcInv, TokenInv, DeadChild
  <2>3. cp[arg[p]].exit_status = code[arg[p]]
    BY <1>2 DEF ProcInv, TypeInv, RecordsListed, RecordInv
  <2>4. ret'[p] = cp[arg[p]].exit_status
    BY <1>2, <2>1, Zenon DEF WaitReturn, Returns, ProcInv, TypeInv
  <2> QED
    BY <2>2, <2>3, <2>4, Zenon
<1>3. ProcInv /\ [Next]_vars => [\A p \in Procs : Exec(p)]_vars
  BY <1>1, Zenon
<1>4. ProcInv /\ [Next]_vars => [\A p \in Procs : Wait(p)]_vars
  BY <1>2, Zenon
<1> QED
  BY ProcessInvariant, <1>3, <1>4, PTL DEF Spec, CallsAnswer, ExecAfterLoad, WaitReturnsStatus
=============================================================================
