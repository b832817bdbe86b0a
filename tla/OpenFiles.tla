------------------------------ MODULE OpenFiles ------------------------------
(***************************************************************************)
(* Open files: the descriptor tables of userprog/syscall.c, the struct     *)
(* files of filesys/file.c and the shared struct inodes of                 *)
(* filesys/inode.c with their counts of openers and of those who deny      *)
(* writes.  Opening and closing an inode takes several steps, and sleeps   *)
(* on the disk in between.  No lock is taken on the way, so the calls of   *)
(* several processes overlap.  The directory is not under src/: a name is  *)
(* found or not, and looking one up opens its inode.                       *)
(***************************************************************************)
EXTENDS Integers, FiniteSetsExt, SequencesExt

CONSTANTS
  Procs,
  Names, Dirs,       \* a name stands for the sector of its inode as well
  MaxInodes,         \* struct inodes allocated in a behaviour
  MaxFd,             \* largest descriptor handed out
  MaxLength,         \* of a file
  NoMemory,          \* allocations that may fail: "inode", "file", "file_process"
  MaxLost,           \* bound: struct files that are lost in a behaviour
  NULL

INIT_FD == 2

VARIABLES
  named,        \* names the directory has
  disk,         \* length in the inode's sector of each name
  inode,        \* the struct inodes in the order of allocation; a freed one is not live
  open_inodes,
  file_list,    \* of each process: descriptor -> struct file, and is_dir
  fd,           \* next descriptor of each process
  executable,   \* of each process, a struct file or NULL
  image,        \* the inode of the struct file that load has left open, or NULL
  pc, call,     \* progress in a call: what for, the name, the inode, the file
  panicked,
  size,         \* what the last write left as the length, for LoadsCurrent
  lost          \* of each inode, the open struct files that nothing refers to

tables == <<file_list, fd, executable, image, lost>>

NoCall == [use |-> NULL, name |-> NULL, inode |-> NULL, next |-> "user"]

Init ==
  /\ named = Names /\ disk = [s \in Names |-> 0] /\ size = disk
  /\ inode = <<>> /\ open_inodes = <<>>
  /\ file_list = [p \in Procs |-> <<>>]
  /\ fd = [p \in Procs |-> INIT_FD]
  /\ executable = [p \in Procs |-> NULL] /\ image = [p \in Procs |-> NULL]
  /\ pc = [p \in Procs |-> "new"]
  /\ call = [p \in Procs |-> NoCall]
  /\ lost = [n \in 1..MaxInodes |-> 0]
  /\ panicked = FALSE

At(p, label) == ~panicked /\ pc[p] = label
Goto(p, label) == pc' = [pc EXCEPT ![p] = label]

Lost == FoldFunction(+, 0, lost)

\* The end of a call.
Return(p) == Goto(p, call[p].next) /\ call' = [call EXCEPT ![p] = NoCall]

struct_file(n) == [inode |-> n, pos |-> 0, deny_write |-> FALSE, is_dir |-> FALSE]

-----------------------------------------------------------------------------
(* inode_open, on behalf of filesys_open and filesys_remove.               *)

\* Slip: only the front of the list is looked at.
Search_front(p, use, name, next) ==
  LET n == IF open_inodes # <<>> /\ inode[Head(open_inodes)].sector = name
           THEN Head(open_inodes) ELSE NULL
  IN  /\ call' = [call EXCEPT ![p] = [use |-> use, name |-> name, inode |-> n, next |-> next]]
      /\ IF n = NULL
         THEN Goto(p, "insert") /\ UNCHANGED inode
         ELSE Goto(p, "opened") /\ inode' = [inode EXCEPT ![n].open_cnt = @ + 1]
      /\ UNCHANGED <<named, disk, size, open_inodes, tables, panicked>>

\* The list is searched; an inode found gets one more opener.
Search(p, use, name, next) ==
  LET found == {n \in ToSet(open_inodes) : inode[n].sector = name}
      n == IF found = {} THEN NULL ELSE CHOOSE k \in found : TRUE
  IN  /\ call' = [call EXCEPT ![p] = [use |-> use, name |-> name, inode |-> n, next |-> next]]
      /\ IF n = NULL
         THEN Goto(p, "insert") /\ UNCHANGED inode
         ELSE Goto(p, "opened") /\ inode' = [inode EXCEPT ![n].open_cnt = @ + 1]
      /\ UNCHANGED <<named, disk, size, open_inodes, tables, panicked>>

open(p, name) == At(p, "user") /\ fd[p] <= MaxFd /\ name \in named /\ Search(p, "open", name, "user")
remove(p, name) == At(p, "user") /\ name \in named \ Dirs /\ Search(p, "remove", name, "user")

\* load opens the program's file, and start_process once more when load has
\* succeeded; it hands the result to file_deny_write, which asserts that there is one.
load(p, name) == At(p, "new") /\ name \in named \ Dirs /\ Search(p, "load", name, "loaded")
start_process(p) ==
  LET name == inode[image[p]].sector IN
  /\ At(p, "loaded")
  /\ \/ name \in named /\ Search(p, "start", name, "user")
     \/ /\ name \notin named
        /\ panicked' = TRUE
        /\ UNCHANGED <<named, disk, size, inode, open_inodes, tables, pc, call>>

\* NULL comes back from filesys_open.
OpenFails(p) ==
  CASE call[p].use = "start" -> panicked' = TRUE /\ UNCHANGED <<pc, call>>
    [] call[p].use = "load" -> Goto(p, "dead") /\ call' = [call EXCEPT ![p] = NoCall] /\ UNCHANGED panicked
    [] OTHER -> Return(p) /\ UNCHANGED panicked

\* malloc gives no inode.
InsertFails(p) ==
  /\ At(p, "insert") /\ "inode" \in NoMemory
  /\ OpenFails(p)
  /\ UNCHANGED <<named, disk, size, inode, open_inodes, tables>>

\* malloc, list_push_front and the fields.
Insert(p) ==
  LET n == Len(inode) + 1 IN
  /\ At(p, "insert") /\ n <= MaxInodes
  /\ inode' = Append(inode, [sector |-> call[p].name, open_cnt |-> 1, deny_write_cnt |-> 0,
                             removed |-> FALSE, length |-> NULL, live |-> TRUE])
  /\ open_inodes' = <<n>> \o open_inodes
  /\ call' = [call EXCEPT ![p].inode = n]
  /\ Goto(p, "load")
  /\ UNCHANGED <<named, disk, size, tables, panicked>>

\* block_read of the inode's data.
Load(p) ==
  /\ At(p, "load")
  /\ inode' = [inode EXCEPT ![call[p].inode].length = disk[call[p].name]]
  /\ Goto(p, "opened")
  /\ UNCHANGED <<named, disk, size, open_inodes, tables, call, panicked>>

-----------------------------------------------------------------------------
(* What the inode was opened for.                                          *)

\* Slip: the inode stays open.
FileFails_open(p) ==
  /\ At(p, "opened") /\ call[p].use # "remove" /\ "file" \in NoMemory
  /\ OpenFails(p)
  /\ UNCHANGED <<named, disk, size, inode, open_inodes, tables>>

\* file_open closes the inode again when there is no memory for the file.
FileFails(p) ==
  /\ At(p, "opened") /\ call[p].use # "remove" /\ "file" \in NoMemory
  /\ IF call[p].use = "start" THEN panicked' = TRUE /\ UNCHANGED <<pc, call>>
     ELSE /\ Goto(p, "close") /\ UNCHANGED panicked
          /\ call' = [call EXCEPT ![p].next = IF call[p].use = "load" THEN "dead" ELSE @]
  /\ UNCHANGED <<named, disk, size, inode, open_inodes, tables>>

\* load closes the file when it fails, and only then.
LoadFails(p) ==
  /\ At(p, "opened") /\ call[p].use = "load"
  /\ Goto(p, "close") /\ call' = [call EXCEPT ![p].next = "dead"]
  /\ UNCHANGED <<named, disk, size, inode, open_inodes, tables, panicked>>

LoadSucceeds(p) ==
  /\ At(p, "opened") /\ call[p].use = "load"
  /\ image' = [image EXCEPT ![p] = call[p].inode]
  /\ Return(p)
  /\ UNCHANGED <<named, disk, size, inode, open_inodes, file_list, fd, executable, lost, panicked>>

\* open enters the file by add_file or, by sub_dir in its inode, by add_dir.
add_file(p) ==
  /\ At(p, "opened") /\ call[p].use = "open"
  /\ file_list' = [file_list EXCEPT ![p] =
                     (fd[p] :> [struct_file(call[p].inode) EXCEPT !.is_dir = call[p].name \in Dirs]) @@ @]
  /\ fd' = [fd EXCEPT ![p] = @ + 1]
  /\ Return(p)
  /\ UNCHANGED <<named, disk, size, inode, open_inodes, executable, image, lost, panicked>>

\* There is no memory for the entry: open returns an error, and the file stays open
\* with nobody to close it.
AddFails(p) ==
  /\ At(p, "opened") /\ call[p].use = "open" /\ "file_process" \in NoMemory
  /\ Lost < MaxLost
  /\ lost' = [lost EXCEPT ![call[p].inode] = @ + 1]
  /\ Return(p)
  /\ UNCHANGED <<named, disk, size, inode, open_inodes, file_list, fd, executable, image, panicked>>

file_deny_write(p) ==
  LET n == call[p].inode IN
  /\ At(p, "opened") /\ call[p].use = "start"
  /\ executable' = [executable EXCEPT ![p] = [struct_file(n) EXCEPT !.deny_write = TRUE]]
  /\ inode' = [inode EXCEPT ![n].deny_write_cnt = @ + 1]
  /\ panicked' = (inode[n].deny_write_cnt + 1 > inode[n].open_cnt)
  /\ Return(p)
  /\ UNCHANGED <<named, disk, size, open_inodes, file_list, fd, image, lost>>

\* dir_remove erases the entry, marks the inode and closes it.
inode_remove(p) ==
  /\ At(p, "opened") /\ call[p].use = "remove"
  /\ named' = named \ {call[p].name}
  /\ inode' = [inode EXCEPT ![call[p].inode].removed = TRUE]
  /\ Goto(p, "close")
  /\ UNCHANGED <<disk, size, open_inodes, tables, call, panicked>>

-----------------------------------------------------------------------------
(* file_close and inode_close.                                             *)

\* Slip: a file gives back the right to write that others denied.
file_close_allow(p, file, next) ==
  LET n == file.inode IN
  /\ inode' = [inode EXCEPT ![n].deny_write_cnt = Max({@ - 1, 0})]
  /\ call' = [call EXCEPT ![p] = [use |-> "close", name |-> inode[n].sector, inode |-> n, next |-> next]]
  /\ Goto(p, "close")
  /\ UNCHANGED <<named, disk, size, open_inodes, fd, image, lost, panicked>>

\* file_allow_write gives back the right to write, with its assertions; the
\* entry goes at the end, but nobody else looks at it.
file_close(p, file, next) ==
  LET n == file.inode
      denied == inode[n].deny_write_cnt
  IN  /\ IF file.deny_write
         THEN /\ inode' = [inode EXCEPT ![n].deny_write_cnt = @ - 1]
              /\ panicked' = ~(denied \in 1..inode[n].open_cnt)
         ELSE UNCHANGED <<inode, panicked>>
      /\ call' = [call EXCEPT ![p] = [use |-> "close", name |-> inode[n].sector, inode |-> n, next |-> next]]
      /\ Goto(p, "close")
      /\ UNCHANGED <<named, disk, size, open_inodes, fd, image, lost>>

Without(f, k) == [j \in DOMAIN f \ {k} |-> f[j]]

close(p, k) ==
  /\ At(p, "user") /\ k \in DOMAIN file_list[p]
  /\ file_list' = [file_list EXCEPT ![p] = Without(@, k)]
  /\ file_close(p, file_list[p][k], "user")
  /\ UNCHANGED executable

\* inode_close: --inode->open_cnt == 0.
Decrement(p) ==
  LET n == call[p].inode IN
  /\ At(p, "close")
  /\ inode' = [inode EXCEPT ![n].open_cnt = @ - 1]
  /\ IF inode[n].open_cnt = 1 THEN Goto(p, "unlist") /\ UNCHANGED call ELSE Return(p)
  /\ UNCHANGED <<named, disk, size, open_inodes, tables, panicked>>

\* list_remove.
Unlist(p) ==
  /\ At(p, "unlist")
  /\ open_inodes' = SelectSeq(open_inodes, LAMBDA n : n # call[p].inode)
  /\ Goto(p, "save")
  /\ UNCHANGED <<named, disk, size, inode, tables, call, panicked>>

\* Slip: the inode is not written to its sector.
Save_not(p) ==
  LET n == call[p].inode IN
  /\ At(p, "save")
  /\ disk' = [disk EXCEPT ![inode[n].sector] = IF inode[n].removed THEN NULL ELSE @]
  /\ inode' = [inode EXCEPT ![n].live = FALSE]
  /\ Return(p)
  /\ UNCHANGED <<named, size, open_inodes, tables, panicked>>

\* Slip: the blocks of a removed file are not released.
Save_kept(p) ==
  LET n == call[p].inode IN
  /\ At(p, "save")
  /\ disk' = [disk EXCEPT ![inode[n].sector] = inode[n].length]
  /\ inode' = [inode EXCEPT ![n].live = FALSE]
  /\ Return(p)
  /\ UNCHANGED <<named, size, open_inodes, tables, panicked>>

\* The blocks of a removed file are released, the inode of another is written to
\* its sector; the memory is freed.
Save(p) ==
  LET n == call[p].inode IN
  /\ At(p, "save")
  /\ disk' = [disk EXCEPT ![inode[n].sector] = IF inode[n].removed THEN NULL ELSE inode[n].length]
  /\ inode' = [inode EXCEPT ![n].live = FALSE]
  /\ Return(p)
  /\ UNCHANGED <<named, size, open_inodes, tables, panicked>>

\* process_exit: close_all_file, then the executable.
process_exit(p) ==
  /\ At(p, "user") /\ Goto(p, "exit")
  /\ UNCHANGED <<named, disk, size, inode, open_inodes, tables, call, panicked>>

ExitStep(p) ==
  /\ At(p, "exit")
  /\ IF file_list[p] # <<>>
     THEN LET k == Min(DOMAIN file_list[p]) IN
          /\ file_list' = [file_list EXCEPT ![p] = Without(@, k)]
          /\ file_close(p, file_list[p][k], "exit")
          /\ UNCHANGED executable
     ELSE /\ executable' = [executable EXCEPT ![p] = NULL]
          /\ file_close(p, executable[p], "dead")
          /\ UNCHANGED file_list

-----------------------------------------------------------------------------
(* The other system calls on a descriptor.  Reading and writing move the   *)
(* position by a byte; what they do to the data is in module Inode.        *)

Same == UNCHANGED <<named, disk, open_inodes, fd, executable, image, lost, pc, call>>
Known(p, k) == k \in DOMAIN file_list[p]
Moved(p, k, pos) == file_list' = [file_list EXCEPT ![p][k].pos = pos]

\* read and filesize use the file of an entry for a directory, which is not set.
read(p, k) ==
  LET f == file_list[p][k] IN
  /\ At(p, "user") /\ Known(p, k)
  /\ \/ f.is_dir /\ panicked' \in BOOLEAN /\ UNCHANGED file_list
     \/ ~f.is_dir /\ f.pos < inode[f.inode].length /\ Moved(p, k, f.pos + 1) /\ UNCHANGED panicked
  /\ Same /\ UNCHANGED <<inode, size>>

\* Nothing is written to a directory, nor when writes are denied; otherwise the
\* file grows as needed.
write(p, k) ==
  LET f == file_list[p][k] IN
  /\ At(p, "user") /\ Known(p, k)
  /\ ~f.is_dir /\ inode[f.inode].deny_write_cnt = 0 /\ f.pos < MaxLength
  /\ inode' = [inode EXCEPT ![f.inode].length = Max({@, f.pos + 1})]
  /\ size' = [size EXCEPT ![inode[f.inode].sector] = inode'[f.inode].length]
  /\ Moved(p, k, f.pos + 1)
  /\ Same /\ UNCHANGED panicked

\* seek looks into the entry before it checks that there is one, as does tell.
seek(p, k, pos) ==
  /\ At(p, "user")
  /\ \/ ~Known(p, k) /\ panicked' = TRUE /\ UNCHANGED file_list
     \/ Known(p, k) /\ ~file_list[p][k].is_dir /\ Moved(p, k, pos) /\ UNCHANGED panicked
  /\ Same /\ UNCHANGED <<inode, size>>

-----------------------------------------------------------------------------
Call(p) ==
  \/ \E name \in Names : load(p, name) \/ open(p, name) \/ remove(p, name)
  \/ \E k \in INIT_FD..MaxFd :
       \/ close(p, k) \/ read(p, k) \/ write(p, k)
       \/ \E pos \in 0..MaxLength : seek(p, k, pos)
  \/ process_exit(p)

Step(p) ==
  \/ LoadFails(p) \/ LoadSucceeds(p) \/ start_process(p)
  \/ InsertFails(p) \/ Insert(p) \/ Load(p)
  \/ FileFails(p) \/ add_file(p) \/ AddFails(p) \/ file_deny_write(p) \/ inode_remove(p)
  \/ Decrement(p) \/ Unlist(p) \/ Save(p) \/ ExitStep(p)

Next == \E p \in Procs : Call(p) \/ Step(p)

-----------------------------------------------------------------------------
(* Properties.                                                             *)

Entries(n) ==
  {<<p, k>> \in Procs \X (INIT_FD..MaxFd) : k \in DOMAIN file_list[p] /\ file_list[p][k].inode = n}
Images(n) == {p \in Procs : image[p] = n}
Running(n) == {p \in Procs : executable[p] # NULL /\ executable[p].inode = n}
Inside(n) == {p \in Procs : call[p].inode = n /\ pc[p] \in {"load", "opened", "close"}}
Closing(n) == {p \in Procs : call[p].inode = n /\ pc[p] \in {"unlist", "save"}}

\* open_cnt is the number of struct files and of calls under way that have the
\* inode, those that load has left open and those that are lost included, and
\* writes are denied by the executables among them: it is freed when the last is
\* gone, not before and not later.
CountsMatch ==
  \A n \in DOMAIN inode : inode[n].live =>
    /\ inode[n].open_cnt = Cardinality(Entries(n)) + Cardinality(Running(n)) + Cardinality(Inside(n))
                             + Cardinality(Images(n)) + lost[n]
    /\ inode[n].deny_write_cnt = Cardinality(Running(n))
    /\ inode[n].open_cnt > 0 \/ Closing(n) # {}

\* The file of a running program cannot be written through any inode.
ExecutableDenied ==
  \A p \in Procs : executable[p] # NULL =>
    \A n \in ToSet(open_inodes) :
      inode[n].sector = inode[executable[p].inode].sector => inode[n].deny_write_cnt > 0

Unused(n) == Entries(n) \cup Running(n) \cup Inside(n) \cup Closing(n) = {}

\* A removed file that nobody has open any more, that no program was loaded from
\* and of which no struct file is lost, is gone from the disk.
RemovedDeleted ==
  \A s \in Names \ named :
    (\A n \in DOMAIN inode : inode[n].sector = s => Unused(n) /\ Images(n) = {} /\ lost[n] = 0)
      => disk[s] = NULL

\* "opening a single inode twice returns the same `struct inode'" (open_inodes):
\* the struct inodes in use are allocated, and each is for another sector.
InUse == {n \in DOMAIN inode : Entries(n) \cup Running(n) \cup Images(n) \cup Inside(n) # {}}
OneInodePerSector ==
  \A m, n \in InUse : inode[m].live /\ (m # n => inode[m].sector # inode[n].sector)

\* "Closes INODE and writes it to disk": who reads an inode from its sector finds
\* what the last closer had.
LoadsCurrent ==
  \A n \in ToSet(open_inodes) : inode[n].length \in {NULL, size[inode[n].sector]}
=============================================================================
