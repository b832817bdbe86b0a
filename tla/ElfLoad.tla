------------------------------- MODULE ElfLoad -------------------------------
(***************************************************************************)
(* load of userprog/process.c: how an ELF executable becomes the pages of  *)
(* a process.  The program headers are read one by one; the pages of a     *)
(* segment are taken from the user pool, filled from the file and          *)
(* installed; last comes the page of the stack.  Any of these may fail,    *)
(* and process_exit then has to give every page back.                      *)
(*                                                                         *)
(* Byte n of the file is the value n + 1, a zeroed byte is 0.  Addresses   *)
(* and sizes are unsigned numbers below WORD_SIZE (2^32 in the code), and  *)
(* wrap as they do there.  pages maps the number of a user page to what    *)
(* the page directory says of it.                                          *)
(***************************************************************************)
EXTENDS Integers, Sequences, FiniteSets

CONSTANTS PGSIZE, PHYS_BASE, WORD_SIZE,
          Executables,    \* files: [valid, length, phnum, phdrs]
          UserPages,      \* pages in the user pool
          KernelFails,    \* may an allocation from the kernel pool fail?
          NULL

VARIABLES file, i, segment, pages, free, status

Uint(x) == x % WORD_SIZE
pg_round_down(a) == a - (a % PGSIZE)
ROUND_UP(x) == (Uint(x + PGSIZE - 1) \div PGSIZE) * PGSIZE
is_user_vaddr(a) == a < PHYS_BASE

Init == /\ file \in Executables
        /\ i = 0 /\ segment = NULL
        /\ pages = << >> /\ free = UserPages
        /\ status = "start"

fail == /\ status' = "failed"
        /\ UNCHANGED <<file, i, segment, pages, free>>

(* pagedir_create, filesys_open and the test of the executable header.     *)
load == /\ status = "start" /\ file.valid
        /\ status' = "loading"
        /\ UNCHANGED <<file, i, segment, pages, free>>

load_refused == /\ status = "start"
                /\ ~file.valid \/ KernelFails
                /\ fail

-----------------------------------------------------------------------------
Between == status = "loading" /\ segment = NULL
Header == file.phdrs[i + 1]

(* The header table is shorter than e_phnum says: file_ofs has passed the  *)
(* end of the file, or the read is short.                                  *)
header_missing == /\ Between /\ i < file.phnum /\ i >= Len(file.phdrs)
                  /\ fail

HasHeader == Between /\ i < file.phnum /\ i < Len(file.phdrs)

header_ignored == /\ HasHeader /\ Header.type = "ignored"
                  /\ i' = i + 1
                  /\ UNCHANGED <<file, segment, pages, free, status>>

header_refused == /\ HasHeader /\ Header.type = "dynamic"
                  /\ fail

(* Slip: a segment in page 0 is accepted.                                  *)
validate_segment_zero(p) ==
  /\ p.offset % PGSIZE = p.vaddr % PGSIZE
  /\ p.offset <= file.length
  /\ p.memsz >= p.filesz /\ p.memsz # 0
  /\ is_user_vaddr(p.vaddr) /\ is_user_vaddr(Uint(p.vaddr + p.memsz))
  /\ Uint(p.vaddr + p.memsz) >= p.vaddr

validate_segment(p) ==
  /\ p.offset % PGSIZE = p.vaddr % PGSIZE
  /\ p.offset <= file.length
  /\ p.memsz >= p.filesz /\ p.memsz # 0
  /\ is_user_vaddr(p.vaddr) /\ is_user_vaddr(Uint(p.vaddr + p.memsz))
  /\ Uint(p.vaddr + p.memsz) >= p.vaddr
  /\ p.vaddr >= PGSIZE

segment_invalid == /\ HasHeader /\ Header.type = "load" /\ ~validate_segment(Header)
                   /\ fail

(* Slip: the zeros start where the segment's file bytes would end if the   *)
(* segment began on a page boundary.                                       *)
ReadBytes_unaligned(p) == p.filesz

ReadBytes(p) == IF p.filesz > 0 THEN Uint((p.vaddr % PGSIZE) + p.filesz) ELSE 0

(* Slip: the size is not rounded up to whole pages.                        *)
PageBytes_exact(p) == Uint((p.vaddr % PGSIZE) + p.memsz)

PageBytes(p) == ROUND_UP(Uint((p.vaddr % PGSIZE) + p.memsz))

(* load_segment is called: its arguments, and the file's position.         *)
load_segment == /\ HasHeader /\ Header.type = "load" /\ validate_segment(Header)
                /\ segment' = [pos        |-> pg_round_down(Header.offset),
                               upage      |-> pg_round_down(Header.vaddr),
                               read_bytes |-> ReadBytes(Header),
                               zero_bytes |-> Uint(PageBytes(Header) - ReadBytes(Header)),
                               writable   |-> Header.writable]
                /\ UNCHANGED <<file, i, pages, free, status>>

-----------------------------------------------------------------------------
(* One turn of load_segment's loop: a page is taken, filled and installed. *)
Loading == status = "loading" /\ segment # NULL
Filling == Loading /\ (segment.read_bytes > 0 \/ segment.zero_bytes > 0)

page_read_bytes == IF segment.read_bytes < PGSIZE THEN segment.read_bytes ELSE PGSIZE
page_zero_bytes == PGSIZE - page_read_bytes

ReadsWhole == segment.pos + page_read_bytes <= file.length \/ page_read_bytes = 0

no_page == /\ Filling /\ free = 0
           /\ fail

(* The page is freed again: free is as it was.                             *)
short_read == /\ Filling /\ free > 0 /\ ~ReadsWhole
              /\ fail

Mapped(a) == a \div PGSIZE \in DOMAIN pages

(* Slip: the page that could not be installed is not freed.                *)
install_fails_lost == /\ Filling /\ free > 0 /\ ReadsWhole
                      /\ Mapped(segment.upage) \/ KernelFails
                      /\ status' = "failed" /\ free' = free - 1
                      /\ UNCHANGED <<file, i, segment, pages>>

install_fails == /\ Filling /\ free > 0 /\ ReadsWhole
                 /\ Mapped(segment.upage) \/ KernelFails
                 /\ fail

With(a, page) == [n \in DOMAIN pages \cup {a \div PGSIZE} |->
                    IF n = a \div PGSIZE THEN page ELSE pages[n]]

fill_page ==
  /\ Filling /\ free > 0 /\ ReadsWhole /\ ~Mapped(segment.upage)
  /\ pages' = With(segment.upage,
                   [bytes    |-> [b \in 0 .. PGSIZE - 1 |->
                                    IF b < page_read_bytes THEN segment.pos + b + 1 ELSE 0],
                    writable |-> segment.writable])
  /\ free' = free - 1
  /\ segment' = [segment EXCEPT !.pos = @ + page_read_bytes,
                                !.upage = Uint(@ + PGSIZE),
                                !.read_bytes = @ - page_read_bytes,
                                !.zero_bytes = Uint(@ - page_zero_bytes)]
  /\ UNCHANGED <<file, i, status>>

segment_loaded == /\ Loading /\ segment.read_bytes = 0 /\ segment.zero_bytes = 0
                  /\ segment' = NULL /\ i' = i + 1
                  /\ UNCHANGED <<file, pages, free, status>>

-----------------------------------------------------------------------------
StackPage == PHYS_BASE - PGSIZE
Headed == Between /\ i = file.phnum

setup_stack_fails == /\ Headed
                     /\ free = 0 \/ Mapped(StackPage) \/ KernelFails
                     /\ fail

(* What setup_stack writes to the page is the subject of ArgPassing.        *)
setup_stack == /\ Headed /\ free > 0 /\ ~Mapped(StackPage)
               /\ pages' = With(StackPage, [bytes |-> [b \in 0 .. PGSIZE - 1 |-> 0],
                                            writable |-> TRUE])
               /\ free' = free - 1
               /\ status' = "loaded"
               /\ UNCHANGED <<file, i, segment>>

(* pagedir_destroy frees the page of every present entry.                  *)
process_exit == /\ status \in {"failed", "loaded"}
                /\ free' = free + Cardinality(DOMAIN pages)
                /\ pages' = << >> /\ status' = "exited"
                /\ UNCHANGED <<file, i, segment>>

Next == \/ load \/ load_refused
        \/ header_missing \/ header_ignored \/ header_refused
        \/ segment_invalid \/ load_segment
        \/ no_page \/ short_read \/ install_fails \/ fill_page \/ segment_loaded
        \/ setup_stack_fails \/ setup_stack \/ process_exit

-----------------------------------------------------------------------------
Segments == {file.phdrs[k] : k \in {k \in 1 .. file.phnum : file.phdrs[k].type = "load"}}

(* When load reports success every byte of every segment is where its      *)
(* header says: the first filesz bytes are those of the file from offset   *)
(* on, the bytes up to memsz are zero, and the page is writable exactly    *)
(* when the header asks for it (load's comment, and load_segment's).       *)
ImageLoaded ==
  status = "loaded" =>
    \A p \in Segments : \A k \in 0 .. p.memsz - 1 :
      /\ Mapped(p.vaddr + k)
      /\ LET page == pages[(p.vaddr + k) \div PGSIZE]
         IN /\ page.writable = p.writable
            /\ page.bytes[(p.vaddr + k) % PGSIZE] =
                 IF k < p.filesz THEN p.offset + k + 1 ELSE 0

(* No header makes load map page 0 or a page of the kernel's half, which   *)
(* the kernel shares between all processes (validate_segment's checks,     *)
(* and pagedir_set_page's assertion).                                      *)
OnlyUserPages == \A n \in DOMAIN pages : n > 0 /\ is_user_vaddr(n * PGSIZE)

(* load_segment's assertions: what is left of a segment is always a whole  *)
(* number of pages, read from a whole page of the file.                    *)
WholePages == segment # NULL =>
                /\ Uint(segment.read_bytes + segment.zero_bytes) % PGSIZE = 0
                /\ segment.read_bytes > 0 => segment.pos % PGSIZE = 0

(* Whichever way load ends, the user pool has all its pages again when the *)
(* process has exited.                                                     *)
PagesReturned == status = "exited" => free = UserPages
=============================================================================
