----------------------------- MODULE MCPrograms ------------------------------
(***************************************************************************)
(* What gives a program its memory and its files, for TLC: page            *)
(* directories, system call arguments, the loading of the executable and   *)
(* of the command line, and open files.  A behaviour explores one of them; *)
(* the page directories of the others stay as they are initially, and      *)
(* their other variables are NULL.  at, i and call are variables that      *)
(* several of them have.                                                   *)
(*                                                                         *)
(* Open files have two processes, in one of these settings:                *)
(*   shared:  on one file, that each process can open three times;         *)
(*   several: on two files, and each process can open twice; the files     *)
(*            stay empty;                                                  *)
(*   written: the same with files that are written, and one open;          *)
(*   listed:  on a file and a directory.                                   *)
(* Nothing in the code keeps their calls apart.  MCSpec is about calls     *)
(* that come in turn, OverlapSpec about calls that overlap.                *)
(***************************************************************************)
EXTENDS Pagedir, Sequences, SequencesExt

CONSTANTS t, u, p, q, file_a, file_b, dir_a

VARIABLES part, at, i, call,
  frame, ram, before, str, kptr, done,
  file, segment, pages, left, status,
  MAX_ARGS, line, argv, argc, address, esp, stack,
  named, disk, size, inode, open_inodes, file_list, fd, executable, image, lost, panicked

arguments == <<frame, ram, before, str, kptr, done>>
elf == <<file, segment, pages, left, status>>
command == <<MAX_ARGS, line, argv, argc, address, esp, stack>>
opened == <<named, disk, size, inode, open_inodes, file_list, fd, executable, image, lost, panicked>>

\* Two processes; two page directories with room for one page table more, and
\* two user pages.
ASSUME PagedirAssumption == Constants

\* Two user pages, not both of which need be mapped, on three frames.
UserMemory == INSTANCE UserMemory WITH
  PGSIZE <- 2, UserPages <- 2, FrameCnt <- 3, MaxSize <- 3, Char <- 1, New <- 2, pc <- at,
  Calls <- {"exec", "create", "remove", "open", "chdir", "mkdir", "readdir", "write", "read", "seek"}

PtLoad(off, va, fsz, msz, w) ==
  [type |-> "load", offset |-> off, vaddr |-> va, filesz |-> fsz, memsz |-> msz, writable |-> w]
Elf(phdrs, num, len) == [valid |-> TRUE, length |-> len, phnum |-> num, phdrs |-> phdrs]

\* One segment with any offset, address and sizes, in a file of six bytes.
OneSegment == INSTANCE ElfLoad WITH
  PGSIZE <- 4, PHYS_BASE <- 20, WORD_SIZE <- 28, UserPages <- 9, KernelFails <- FALSE, free <- left,
  Executables <- {Elf(<<PtLoad(off, va, fsz, msz, TRUE)>>, 1, 6) :
                    off \in 0..7, va \in 0..27, fsz \in 0..9, msz \in 0..27}

\* Two headers of any kind, with every way in which loading may fail.
Headers == {[type |-> "ignored"], [type |-> "dynamic"]} \cup
           {PtLoad(off, va, fsz, msz, w) :
              off \in {1, 5}, va \in {5, 9, 13}, fsz \in {0, 4}, msz \in {3, 5}, w \in BOOLEAN}
SomeHeaders == INSTANCE ElfLoad WITH
  PGSIZE <- 4, PHYS_BASE <- 20, WORD_SIZE <- 28, UserPages <- 4, KernelFails <- TRUE, free <- left,
  Executables <- {Elf(<<h, g>>, num, len) : h, g \in Headers, num \in {2, 3}, len \in {8, 12}}
                 \cup {[Elf(<<>>, 0, 3) EXCEPT !.valid = FALSE]}

\* Command lines that fit a page: of up to three words of several lengths or four
\* short ones, and of up to five short words, for which argv[] has to grow twice; and
\* two processes that load at once, for one or both of which it has to grow.
Lines(lengths, n) ==
  {l \in UNION {[1..k -> lengths] : k \in 1..n} : FoldSeq(+, 0, l) + Len(l) <= 48}
FewWords == INSTANCE ArgPassing WITH
  Procs <- {t}, CommandLines <- Lines({1, 2, 5, 9, 16}, 3) \cup Lines({1, 2}, 4), InitMaxArgs <- 4, MaxMaxArgs <- 8,
  PGSIZE <- 48, PHYS_BASE <- 64, MAX_ARGS_SIZE <- 48, NoMemory <- FALSE, StrayLengths <- {}, pc <- at
ManyWords == INSTANCE ArgPassing WITH
  Procs <- {t}, CommandLines <- Lines({1, 2}, 5), InitMaxArgs <- 2, MaxMaxArgs <- 8,
  PGSIZE <- 48, PHYS_BASE <- 64, MAX_ARGS_SIZE <- 48, NoMemory <- TRUE, StrayLengths <- {0, 16}, pc <- at
PairOfLoads == INSTANCE ArgPassing WITH
  Procs <- {t, u}, CommandLines <- Lines({1}, 3), InitMaxArgs <- 2, MaxMaxArgs <- 4,
  PGSIZE <- 48, PHYS_BASE <- 64, MAX_ARGS_SIZE <- 48, NoMemory <- TRUE, StrayLengths <- {1}, pc <- at

Shared == INSTANCE OpenFiles WITH
  Procs <- {p, q}, Names <- {file_a}, Dirs <- {}, MaxFd <- 4, MaxLength <- 1, pc <- at,
  MaxInodes <- 3, NoMemory <- {"inode", "file", "file_process"}, MaxLost <- 1
Several == INSTANCE OpenFiles WITH
  Procs <- {p, q}, Names <- {file_a, file_b}, Dirs <- {}, MaxFd <- 3, MaxLength <- 0, pc <- at,
  MaxInodes <- 3, NoMemory <- {"inode", "file"}, MaxLost <- 0
Written == INSTANCE OpenFiles WITH
  Procs <- {p, q}, Names <- {file_a, file_b}, Dirs <- {}, MaxFd <- 2, MaxLength <- 1, pc <- at,
  MaxInodes <- 3, NoMemory <- {"inode", "file"}, MaxLost <- 0
Listed == INSTANCE OpenFiles WITH
  Procs <- {p, q}, Names <- {file_a, dir_a}, Dirs <- {dir_a}, MaxFd <- 3, MaxLength <- 1, pc <- at,
  MaxInodes <- 3, NoMemory <- {}, MaxLost <- 0

\* The step leaves at most one process in a call that opens or closes.
Outside == {"new", "loaded", "user", "exit", "dead"}
InTurn == at'[p] \in Outside \/ at'[q] \in Outside

NoArguments == frame = NULL /\ ram = NULL /\ before = NULL /\ str = NULL /\ kptr = NULL /\ done = NULL
NoElf == file = NULL /\ segment = NULL /\ pages = NULL /\ left = NULL /\ status = NULL
NoCommand == MAX_ARGS = NULL /\ line = NULL /\ argv = NULL /\ argc = NULL /\ address = NULL /\ esp = NULL /\ stack = NULL
NoFiles ==
  /\ named = NULL /\ disk = NULL /\ size = NULL /\ inode = NULL /\ open_inodes = NULL /\ file_list = NULL
  /\ fd = NULL /\ executable = NULL /\ image = NULL /\ lost = NULL /\ panicked = NULL

MCInit ==
  /\ \/ part = "pagedir" /\ at = NULL /\ i = NULL /\ call = NULL /\ NoArguments /\ NoElf /\ NoCommand /\ NoFiles
     \/ part = "memory" /\ UserMemory!Init /\ i = NULL /\ NoElf /\ NoCommand /\ NoFiles
     \/ /\ \/ part = "segment" /\ OneSegment!Init
           \/ part = "headers" /\ SomeHeaders!Init
        /\ at = NULL /\ call = NULL /\ NoArguments /\ NoCommand /\ NoFiles
     \/ /\ \/ part = "few" /\ FewWords!Init
           \/ part = "many" /\ ManyWords!Init
           \/ part = "pair" /\ PairOfLoads!Init
        /\ call = NULL /\ NoArguments /\ NoElf /\ NoFiles
     \/ /\ \/ part = "shared" /\ Shared!Init
           \/ part = "several" /\ Several!Init
           \/ part = "written" /\ Written!Init
           \/ part = "listed" /\ Listed!Init
        /\ i = NULL /\ NoArguments /\ NoElf /\ NoCommand
  /\ Init /\ (part # "pagedir" => cpu = t)

MCNext ==
  /\ \/ part = "pagedir" /\ Next /\ UNCHANGED <<at, i, call, arguments, elf, command, opened>>
     \/ part = "memory" /\ UserMemory!Next /\ UNCHANGED <<i, vars, elf, command, opened>>
     \/ /\ \/ part = "segment" /\ OneSegment!Next
           \/ part = "headers" /\ SomeHeaders!Next
        /\ UNCHANGED <<at, call, vars, arguments, command, opened>>
     \/ /\ \/ part = "few" /\ FewWords!Next
           \/ part = "many" /\ ManyWords!Next
           \/ part = "pair" /\ PairOfLoads!Next
        /\ UNCHANGED <<call, vars, arguments, elf, opened>>
     \/ /\ \/ part = "shared" /\ Shared!Next
           \/ part = "several" /\ Several!Next
           \/ part = "written" /\ Written!Next
           \/ part = "listed" /\ Listed!Next
        /\ InTurn
        /\ UNCHANGED <<i, vars, arguments, elf, command>>
  /\ UNCHANGED part

MCSpec == MCInit /\ [][MCNext]_<<part, at, i, call, vars, arguments, elf, command, opened>>

\* One file, and calls that overlap in any way.
OverlapSpec ==
  /\ MCInit /\ part = "shared"
  /\ [][Shared!Next /\ UNCHANGED <<part, i, vars, arguments, elf, command>>]_<<part, at, i, call, vars, arguments, elf, command, opened>>

\* The processes that have files open are interchangeable.
FileSymmetry == Permutations({p, q})

-----------------------------------------------------------------------------
\* A call takes, or puts, exactly the caller's bytes if they lie in a page or in pages
\* that follow each other in RAM; only a bad pointer ends the process, and no bad string
\* is used (see UserMemory).
ArgumentsExactIfContiguous ==
  part = "memory" => UserMemory!TransferExactIfContiguous /\ UserMemory!PointersChecked

\* Every byte of the executable is where its header says; no header makes load map
\* page 0 or a page of the kernel, or breaks load_segment's assertions; however
\* loading ends, the process gives all its pages back (see ElfLoad).
ProgramLoaded ==
  /\ part = "segment" => /\ OneSegment!ImageLoaded /\ OneSegment!OnlyUserPages
                         /\ OneSegment!WholePages /\ OneSegment!PagesReturned
  /\ part = "headers" => /\ SomeHeaders!ImageLoaded /\ SomeHeaders!OnlyUserPages
                         /\ SomeHeaders!WholePages /\ SomeHeaders!PagesReturned

\* The program finds argc and argv[] as the convention says, unless the kernel's argv[]
\* had to grow; and no word is stored outside that array, if one process loads at a time
\* or none has grown it yet (see ArgPassing).
StackExactUnlessGrown ==
  /\ part = "few" => FewWords!StackLayoutUnlessGrown /\ FewWords!TokensInArray
  /\ part = "many" => ManyWords!StackLayoutUnlessGrown /\ ManyWords!TokensInArray
  /\ part = "pair" => /\ PairOfLoads!StackLayoutUnlessGrown
                      /\ MAX_ARGS = 2 => PairOfLoads!TokensInArray

\* When no two calls that open or close a file are under way at once, which nothing in
\* the code sees to, the counts are those of the users, so a running program's file
\* cannot be written, the last closer of a removed file deletes it, and a sector has
\* one inode in memory, which is the one last saved: see OpenFiles.
OpenersCountedInTurn ==
  /\ part = "shared" => /\ Shared!CountsMatch /\ Shared!ExecutableDenied
                        /\ Shared!RemovedDeleted /\ Shared!LoadsCurrent
                        /\ Shared!OneInodePerSector
  /\ part = "several" => /\ Several!CountsMatch /\ Several!ExecutableDenied
                         /\ Several!RemovedDeleted /\ Several!LoadsCurrent
                         /\ Several!OneInodePerSector
  /\ part = "written" => /\ Written!CountsMatch /\ Written!ExecutableDenied
                         /\ Written!RemovedDeleted /\ Written!LoadsCurrent
                         /\ Written!OneInodePerSector
  /\ part = "listed" => /\ Listed!CountsMatch /\ Listed!ExecutableDenied
                        /\ Listed!RemovedDeleted /\ Listed!LoadsCurrent
                        /\ Listed!OneInodePerSector

\* inode.c says of the list of open inodes: "so that opening a single inode twice
\* returns the same `struct inode'" (see OpenFiles).
OneInodePerSector == Shared!OneInodePerSector
=============================================================================
