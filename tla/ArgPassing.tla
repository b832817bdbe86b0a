----------------------------- MODULE ArgPassing -----------------------------
(***************************************************************************)
(* How load of userprog/process.c passes a command line to a program:      *)
(* parse_cmd_args cuts it into the words of argv[], growing the array when *)
(* it is full, and setup_stack copies the words and their addresses onto   *)
(* the page of the user stack.  Several processes may be loading at once:  *)
(* they share the size MAX_ARGS.                                           *)
(*                                                                         *)
(* A command line is the sequence of the lengths of its words.  stack maps *)
(* an address of the stack page to the byte written there: byte k of word  *)
(* n of the line, or byte k of a number.                                   *)
(***************************************************************************)
EXTENDS Integers, Sequences, SequencesExt

CONSTANTS Procs,
          CommandLines,
          InitMaxArgs,      \* MAX_ARGS at boot: 256
          MaxMaxArgs,       \* bound on MAX_ARGS
          PGSIZE, PHYS_BASE, MAX_ARGS_SIZE,
          NoMemory,         \* may malloc, realloc and palloc_get_page fail?
          StrayLengths      \* of what a pointer that is not argv[]'s leads to

VARIABLES MAX_ARGS, line, argv, argc, i, address, esp, stack, pc

Pointer == 4    \* sizeof (char *)

(* argv is the array of load: its size, and whether the block has been     *)
(* freed; array is the size of the block that parse_cmd_args writes to.    *)
Init == /\ MAX_ARGS = InitMaxArgs
        /\ line \in [Procs -> CommandLines]
        /\ argv = [p \in Procs |-> [size |-> 0, array |-> 0, freed |-> FALSE]]
        /\ argc = [p \in Procs |-> 0] /\ i = [p \in Procs |-> 0]
        /\ address = [p \in Procs |-> << >>]
        /\ esp = [p \in Procs |-> PHYS_BASE]
        /\ stack = [p \in Procs |-> << >>]
        /\ pc = [p \in Procs |-> "load"]

Goto(p, l) == pc' = [pc EXCEPT ![p] = l]
StackUnchanged == UNCHANGED <<i, address, esp, stack>>

(* malloc (sizeof (char * ) * MAX_ARGS), and the first word.               *)
load(p) == /\ pc[p] = "load"
           /\ argv' = [argv EXCEPT ![p] = [size |-> MAX_ARGS, array |-> MAX_ARGS, freed |-> FALSE]]
           /\ argc' = [argc EXCEPT ![p] = 1]
           /\ Goto(p, "parse")
           /\ UNCHANGED <<MAX_ARGS, line>> /\ StackUnchanged

(* The result of malloc or of realloc is not tested: the next store goes   *)
(* through a null pointer, and the kernel panics.                          *)
no_memory(p) == /\ NoMemory
                /\ \/ pc[p] = "load"
                   \/ pc[p] = "parse" /\ argc[p] < Len(line[p]) /\ argc[p] >= MAX_ARGS
                /\ Goto(p, "fault")
                /\ UNCHANGED <<MAX_ARGS, line, argv, argc>> /\ StackUnchanged

(* Slip: the array does not grow with MAX_ARGS.                            *)
grow_same(p) == /\ pc[p] = "parse" /\ argc[p] < Len(line[p]) /\ argc[p] >= MAX_ARGS
                /\ MAX_ARGS' = 2 * MAX_ARGS /\ MAX_ARGS' <= MaxMaxArgs
                /\ argv' = [argv EXCEPT ![p].freed = TRUE]
                /\ Goto(p, "store")
                /\ UNCHANGED <<line, argc>> /\ StackUnchanged

(* MAX_ARGS doubles; realloc moves the array and frees the old block, which *)
(* load still points to.                                                   *)
grow(p) == /\ pc[p] = "parse" /\ argc[p] < Len(line[p]) /\ argc[p] >= MAX_ARGS
           /\ MAX_ARGS' = 2 * MAX_ARGS /\ MAX_ARGS' <= MaxMaxArgs
           /\ argv' = [argv EXCEPT ![p].array = MAX_ARGS', ![p].freed = TRUE]
           /\ Goto(p, "store")
           /\ UNCHANGED <<line, argc>> /\ StackUnchanged

room(p) == /\ pc[p] = "parse" /\ argc[p] < Len(line[p]) /\ argc[p] < MAX_ARGS
           /\ Goto(p, "store")
           /\ UNCHANGED <<MAX_ARGS, line, argv, argc>> /\ StackUnchanged

store(p) == /\ pc[p] = "store"
            /\ argc' = [argc EXCEPT ![p] = @ + 1]
            /\ Goto(p, "parse")
            /\ UNCHANGED <<MAX_ARGS, line, argv>> /\ StackUnchanged

(* parse_cmd_args returns, and setup_stack gets and installs the stack     *)
(* page, or fails.                                                         *)
setup_stack(p) == /\ pc[p] = "parse" /\ argc[p] = Len(line[p])
                  /\ i' = [i EXCEPT ![p] = argc[p]]
                  /\ Goto(p, "words") \/ (NoMemory /\ Goto(p, "failed"))
                  /\ UNCHANGED <<MAX_ARGS, line, argv, argc, address, esp, stack>>

-----------------------------------------------------------------------------
Bottom == PHYS_BASE - PGSIZE

Bytes(kind, v, n) == [k \in 0 .. n - 1 |-> <<kind, v, k>>]

(* memcpy (a, data, n): below the stack page the kernel faults.            *)
Fits(a) == a >= Bottom
Written(st, a, data) == [b \in DOMAIN st \cup {a + k : k \in DOMAIN data} |->
                           IF b - a \in DOMAIN data THEN data[b - a] ELSE st[b]]

LocalsUnchanged == UNCHANGED <<MAX_ARGS, line, argv, argc>>

(* load's argv still has what parse_cmd_args stored: it was not moved, and *)
(* word n was stored inside it.                                            *)
Trusted(p, n) == ~argv[p].freed /\ n <= argv[p].array

(* The strings that argv[n - 1] may lead to: the word, unless the array has *)
(* been freed, and any other one if the place is not, or no longer, the    *)
(* array's.                                                                *)
Read(p, n) ==
  (IF argv[p].freed THEN {} ELSE {[kind |-> "word", length |-> line[p][n]]}) \cup
  (IF Trusted(p, n) THEN {} ELSE {[kind |-> "stray", length |-> k] : k \in StrayLengths})

(* One turn of the loop over the words, the last word first.               *)
push_word(p) ==
  /\ pc[p] = "words" /\ i[p] > 0
  /\ \E arg \in Read(p, i[p]) :
       LET len_arg == arg.length + 1  a == esp[p] - len_arg
       IN /\ esp' = [esp EXCEPT ![p] = a]
          /\ address' = [address EXCEPT ![p] = <<a>> \o @]
          /\ IF PHYS_BASE - a > MAX_ARGS_SIZE
             THEN Goto(p, "failed") /\ UNCHANGED <<i, stack>>
             ELSE /\ stack' = [stack EXCEPT ![p] = Written(@, a, Bytes(arg.kind, i[p], len_arg))]
                  /\ i' = [i EXCEPT ![p] = @ - 1]
                  /\ UNCHANGED pc
  /\ LocalsUnchanged

(* argv[i] is not a pointer: the kernel faults in strlen.                  *)
bad_word(p) ==
  /\ pc[p] = "words" /\ i[p] > 0 /\ ~Trusted(p, i[p])
  /\ Goto(p, "fault")
  /\ LocalsUnchanged /\ StackUnchanged

(* address[argc] = 0 is one past the end of the array.  The compiler keeps *)
(* the stack aligned to 16 bytes, so that this is padding unless the array *)
(* itself takes a multiple of that.  Then it is another variable of the    *)
(* frame: that one is lost, or it is stored to before the word is read.    *)
Spare(n) == (Pointer * n) % 16 # 0
Stray == -1    \* some other number
LastWord(n) == IF Spare(n) THEN {0} ELSE {0, Stray}

align(p) ==
  /\ pc[p] = "words" /\ i[p] = 0
  /\ \/ \E last \in LastWord(argc[p]) :
          LET word_align == esp[p] % Pointer  a == esp[p] - word_align
          IN /\ esp' = [esp EXCEPT ![p] = a]
             /\ address' = [address EXCEPT ![p] = Append(@, last)]
             /\ i' = [i EXCEPT ![p] = argc[p] + 1]
             /\ stack' = [stack EXCEPT ![p] = Written(@, a, Bytes("number", last, word_align))]
             /\ Goto(p, "addresses")
     \/ ~Spare(argc[p]) /\ Goto(p, "fault") /\ StackUnchanged
  /\ LocalsUnchanged

Push(p, v) == LET a == esp[p] - Pointer
              IN /\ Fits(a)
                 /\ esp' = [esp EXCEPT ![p] = a]
                 /\ stack' = [stack EXCEPT ![p] = Written(@, a, Bytes("number", v, Pointer))]

Overflow(p) == /\ ~Fits(esp[p] - Pointer)
               /\ Goto(p, "fault")
               /\ UNCHANGED <<i, esp, stack>>

(* Slip: the null pointer that ends argv[] is not pushed.                  *)
push_address_last(p) == /\ pc[p] = "addresses" /\ i[p] > 0
                        /\ \/ /\ i[p] = argc[p] + 1
                              /\ i' = [i EXCEPT ![p] = @ - 1] /\ UNCHANGED <<esp, stack, pc>>
                           \/ /\ i[p] <= argc[p] /\ Push(p, address[p][i[p]])
                              /\ i' = [i EXCEPT ![p] = @ - 1] /\ UNCHANGED pc
                           \/ Overflow(p)
                        /\ LocalsUnchanged /\ UNCHANGED address

push_address(p) == /\ pc[p] = "addresses" /\ i[p] > 0
                   /\ \/ /\ Push(p, address[p][i[p]])
                         /\ i' = [i EXCEPT ![p] = @ - 1] /\ UNCHANGED pc
                      \/ Overflow(p)
                   /\ LocalsUnchanged /\ UNCHANGED address

(* The address of argv[], argc, and address[argc] for a return address.    *)
push_frame(p) == /\ \/ /\ pc[p] = "addresses" /\ i[p] = 0
                       /\ \/ Push(p, esp[p]) /\ Goto(p, "argc") /\ UNCHANGED i
                          \/ Overflow(p)
                    \/ /\ pc[p] = "argc"
                       /\ \/ Push(p, argc[p]) /\ Goto(p, "return") /\ UNCHANGED i
                          \/ Overflow(p)
                    \/ /\ pc[p] = "return"
                       /\ \/ Push(p, address[p][argc[p] + 1]) /\ Goto(p, "done") /\ UNCHANGED i
                          \/ Overflow(p)
                 /\ LocalsUnchanged /\ UNCHANGED address

Next == \E p \in Procs :
          \/ load(p) \/ no_memory(p) \/ grow(p) \/ room(p) \/ store(p)
          \/ setup_stack(p) \/ push_word(p) \/ bad_word(p) \/ align(p)
          \/ push_address(p) \/ push_frame(p)

-----------------------------------------------------------------------------
Number(p, a, v) == \A k \in 0 .. Pointer - 1 : stack[p][a + k] = <<"number", v, k>>

(* What the program finds when it starts, by the 80x86 calling convention: *)
(* the stack pointer is aligned; above a null return address are argc and  *)
(* the address of argv[], whose argc pointers lead to the words of the     *)
(* command line in order, each with its final null byte, and whose last    *)
(* pointer is null.  So it is if the line fits the array that load began   *)
(* with (realloc's block is not load's argv), except that the null pointer *)
(* and the return address are both whatever is in address[argc], which     *)
(* setup_stack stores past the end of its array.                           *)
StackLayoutUnlessGrown ==
  \A p \in Procs : pc[p] = "done" /\ Trusted(p, argc[p]) =>
    /\ esp[p] % Pointer = 0
    /\ Number(p, esp[p] + 4, Len(line[p]))
    /\ \E v \in Bottom .. PHYS_BASE, last \in LastWord(Len(line[p])) :
         /\ Number(p, esp[p], last)
         /\ Number(p, esp[p] + 8, v)
         /\ Number(p, v + Pointer * Len(line[p]), last)
         /\ \A n \in 1 .. Len(line[p]) :
              \E w \in Bottom .. PHYS_BASE :
                /\ Number(p, v + Pointer * (n - 1), w)
                /\ \A k \in 0 .. line[p][n] : stack[p][w + k] = <<"word", n, k>>

(* A word is stored inside the array that parse_cmd_args got for it.       *)
TokensInArray == \A p \in Procs : argc[p] <= argv[p].array
=============================================================================
