------------------------------- MODULE Pagedir -------------------------------
(***************************************************************************)
(* The page directories of userprog/pagedir.c as processes use them: load  *)
(* makes a directory, install_page fills it, the processor translates with *)
(* it and caches in its TLB, a switch of threads activates another one,    *)
(* and process_exit destroys it.  A user page is a pair of its indices in  *)
(* directory and page table; kernel mappings never change and are left     *)
(* out.  The timer may switch threads between any two steps.               *)
(***************************************************************************)
EXTENDS Naturals

CONSTANTS
  Threads,
  KernelPool, UserPool,    \* page numbers, of which palloc gives the first free one
  PdNos, PtNos,            \* indices in a directory and in a page table
  NULL

Pages == KernelPool \cup UserPool
Constants == KernelPool \cap UserPool = {} /\ NULL \notin Pages

VARIABLES
  free,       \* pages that palloc may give
  dir,        \* page directories, by the page they are in: the page tables
  table,      \* page tables, by the page they are in: the entries
  pagedir,    \* of each thread
  pd,         \* process_exit's local variable
  pc,
  cpu,        \* the running thread
  cr3,        \* the active directory; NULL is init_page_dir
  tlb         \* cached translations of user pages

memory == <<free, dir, table>>
vars == <<memory, pagedir, pd, pc, cpu, cr3, tlb>>

NoEntry == [page |-> NULL, P |-> FALSE, W |-> FALSE, A |-> FALSE, D |-> FALSE]
NoDir == [k \in PdNos |-> NULL]
NoTable == [k \in PtNos |-> NoEntry]

Init ==
  /\ free = Pages
  /\ dir = [p \in Pages |-> NoDir] /\ table = [p \in Pages |-> NoTable]
  /\ pagedir = [t \in Threads |-> NULL] /\ pd = [t \in Threads |-> NULL]
  /\ pc = [t \in Threads |-> "load"]
  /\ cpu \in Threads /\ cr3 = NULL /\ tlb = {}

At(t, label) == cpu = t /\ pc[t] = label
Goto(t, label) == pc' = [pc EXCEPT ![t] = label]

\* Loading CR3 empties the TLB.
pagedir_activate(d) == cr3' = d /\ tlb' = {}

(* Slip: the TLB is left as it is.                                         *)
invalidate_pagedir_not(d) == UNCHANGED <<cr3, tlb>>

invalidate_pagedir(d) ==
  IF cr3 = d THEN pagedir_activate(d) ELSE UNCHANGED <<cr3, tlb>>

\* thread_schedule_tail calls process_activate for the thread it switched to.
process_activate(t) ==
  /\ t # cpu /\ cpu' = t
  /\ pagedir_activate(pagedir[t])
  /\ UNCHANGED <<memory, pagedir, pd, pc>>

\* A page of the pool, if there is one.
palloc_get_page(pool) == {p \in free \cap pool : \A q \in free \cap pool : p <= q}

\* load: pagedir_create; without memory the process exits.
pagedir_create(t) ==
  /\ At(t, "load")
  /\ \/ \E p \in palloc_get_page(KernelPool) :
          /\ free' = free \ {p} /\ dir' = [dir EXCEPT ![p] = NoDir]
          /\ pagedir' = [pagedir EXCEPT ![t] = p]
          /\ Goto(t, "activate")
     \/ /\ palloc_get_page(KernelPool) = {}
        /\ Goto(t, "exit") /\ UNCHANGED <<free, dir, pagedir>>
  /\ UNCHANGED <<table, pd, cpu, cr3, tlb>>

Activate(t) ==
  /\ At(t, "activate") /\ Goto(t, "run")
  /\ pagedir_activate(pagedir[t])
  /\ UNCHANGED <<memory, pagedir, pd, cpu>>

\* lookup_page without create.
Table(d, v) == dir[d][v[1]]
Entry(d, v) == IF Table(d, v) = NULL THEN NoEntry ELSE table[Table(d, v)][v[2]]
SetEntry(d, v, e) == table' = [table EXCEPT ![Table(d, v)][v[2]] = e]

Directories == {pagedir[t] : t \in Threads} \ {NULL}
UserPages == PdNos \X PtNos

NewEntry(p, writable) == [NoEntry EXCEPT !.page = p, !.P = TRUE, !.W = writable]

\* install_page with a page from palloc_get_page, in pagedir_set_page: the
\* table is there, or is made.  Without memory the page is given back and the
\* process exits.
pagedir_set_page(t, v, writable) ==
  /\ At(t, "run") /\ ~Entry(pagedir[t], v).P
  /\ \E p \in palloc_get_page(UserPool) :
       LET d == pagedir[t]
       IN  \/ /\ Table(d, v) # NULL
              /\ SetEntry(d, v, NewEntry(p, writable))
              /\ free' = free \ {p} /\ UNCHANGED dir
           \/ /\ Table(d, v) = NULL
              /\ \E q \in palloc_get_page(KernelPool) :
                   /\ dir' = [dir EXCEPT ![d][v[1]] = q]
                   /\ table' = [table EXCEPT ![q] =
                                  [NoTable EXCEPT ![v[2]] = NewEntry(p, writable)]]
                   /\ free' = free \ {p, q}
  /\ UNCHANGED <<pagedir, pd, pc, cpu, cr3, tlb>>

\* The caller gives the page back; nothing in the kernel calls it so far.
pagedir_clear_page(d, v) ==
  /\ Entry(d, v).P
  /\ SetEntry(d, v, [Entry(d, v) EXCEPT !.P = FALSE])
  /\ free' = free \cup {Entry(d, v).page}
  /\ invalidate_pagedir(d)
  /\ UNCHANGED <<dir, pagedir, pd, pc, cpu>>

SetBits(d, v, e, clears) ==
  /\ Table(d, v) # NULL /\ SetEntry(d, v, e)
  /\ IF clears THEN invalidate_pagedir(d) ELSE UNCHANGED <<cr3, tlb>>
  /\ UNCHANGED <<free, dir, pagedir, pd, pc, cpu>>

pagedir_set_dirty(d, v, dirty) ==
  SetBits(d, v, [Entry(d, v) EXCEPT !.D = dirty], ~dirty)

pagedir_set_accessed(d, v, accessed) ==
  SetBits(d, v, [Entry(d, v) EXCEPT !.A = accessed], ~accessed)

(***************************************************************************)
(* The processor: an access finds the translation in the TLB or walks the  *)
(* tables, caches what it finds and sets the bits; else it faults, and     *)
(* page_fault has the process exit.                                        *)
(***************************************************************************)
Cached(v) == {e \in tlb : e.user = v}

Access(t, v, write) ==
  /\ At(t, "run")
  /\ LET e == Entry(cr3, v)
         hit == \E c \in Cached(v) : write => c.D /\ c.W
         permitted == \/ hit
                      \/ e.P /\ (write => e.W)
     IN  IF ~permitted
         THEN Goto(t, "exit") /\ UNCHANGED <<table, tlb>>
         ELSE /\ ~hit
              /\ SetEntry(cr3, v, [e EXCEPT !.A = TRUE, !.D = e.D \/ write])
              /\ tlb' = (tlb \ Cached(v)) \cup
                        {[user |-> v, page |-> e.page, W |-> e.W, D |-> e.D \/ write]}
              /\ UNCHANGED pc
  /\ UNCHANGED <<free, dir, pagedir, pd, cpu, cr3>>

exit(t) ==
  /\ At(t, "run") /\ Goto(t, "exit")
  /\ UNCHANGED <<memory, pagedir, pd, cpu, cr3, tlb>>

(***************************************************************************)
(* The end of process_exit.                                                *)
(***************************************************************************)
(* Slip: the thread keeps its directory.                                   *)
process_exit_kept(t) ==
  /\ At(t, "exit")
  /\ pd' = [pd EXCEPT ![t] = pagedir[t]]
  /\ Goto(t, IF pagedir[t] = NULL THEN "done" ELSE "deactivate")
  /\ UNCHANGED <<memory, pagedir, cpu, cr3, tlb>>

process_exit(t) ==
  /\ At(t, "exit")
  /\ pd' = [pd EXCEPT ![t] = pagedir[t]]
  /\ pagedir' = [pagedir EXCEPT ![t] = NULL]
  /\ Goto(t, IF pagedir[t] = NULL THEN "done" ELSE "deactivate")
  /\ UNCHANGED <<memory, cpu, cr3, tlb>>

Deactivate(t) ==
  /\ At(t, "deactivate") /\ Goto(t, "destroy")
  /\ pagedir_activate(NULL)
  /\ UNCHANGED <<memory, pagedir, pd, cpu>>

Tables(d) == {dir[d][k] : k \in PdNos} \ {NULL}

\* The page tables of a directory, and the pages that they map.
Referenced(d) ==
  Tables(d) \cup
  {p \in Pages : \E q \in Tables(d) : \E k \in PtNos : table[q][k].P /\ table[q][k].page = p}

(* Slip: the page tables are forgotten.                                    *)
Freed_pages(d) == (Referenced(d) \ Tables(d)) \cup {d}

Freed(d) == Referenced(d) \cup {d}

\* What is in a freed page is nobody's business; it is reset here.
pagedir_destroy(t) ==
  /\ At(t, "destroy") /\ Goto(t, "done")
  /\ LET freed == Freed(pd[t])
     IN  /\ free' = free \cup freed
         /\ dir' = [p \in Pages |-> IF p \in freed THEN NoDir ELSE dir[p]]
         /\ table' = [p \in Pages |-> IF p \in freed THEN NoTable ELSE table[p]]
  /\ pd' = [pd EXCEPT ![t] = NULL]
  /\ UNCHANGED <<pagedir, cpu, cr3, tlb>>

\* A thread that is done sleeps for good; a new process takes its place.
NewProcess(t) ==
  /\ At(t, "done") /\ Goto(t, "load")
  /\ UNCHANGED <<memory, pagedir, pd, cpu, cr3, tlb>>

Next ==
  \/ \E t \in Threads :
       \/ process_activate(t) \/ pagedir_create(t) \/ Activate(t) \/ exit(t)
       \/ process_exit(t) \/ Deactivate(t) \/ pagedir_destroy(t) \/ NewProcess(t)
       \/ \E v \in UserPages, b \in BOOLEAN : pagedir_set_page(t, v, b) \/ Access(t, v, b)
  \/ \E d \in Directories, v \in UserPages :
       \/ pagedir_clear_page(d, v)
       \/ \E b \in BOOLEAN : pagedir_set_dirty(d, v, b) \/ pagedir_set_accessed(d, v, b)

Spec == Init /\ [][Next]_vars

-----------------------------------------------------------------------------
(* process_exit: "a timer interrupt can't switch back to the process page  *)
(* directory", so "our active page directory" is never "one that's been    *)
(* freed (and cleared)"; nor is any directory a thread would be given.     *)
ActiveNotFreed == (Directories \cup ({cr3} \ {NULL})) \cap free = {}

(* What the TLB translates is what the page tables say, and a write that   *)
(* it lets through has set the dirty bit.  Later accesses to a page that   *)
(* pagedir_clear_page cleared fault.                                       *)
TlbCoherent ==
  \A c \in tlb : LET e == Entry(cr3, c.user)
                 IN  e.P /\ e.page = c.page /\ e.W = c.W /\ e.A /\ (c.D => e.D)

\* The directories that somebody still has, once each.
Live == (Directories \cup {pd[t] : t \in Threads}) \ {NULL}

(* No page is lost, freed twice or shared: a page that is not free is a    *)
(* directory, or is in exactly one directory, as page table or user page.  *)
PagesAccounted ==
  /\ free \cap UNION {Referenced(d) \cup {d} : d \in Live} = {}
  /\ free \cup UNION {Referenced(d) \cup {d} : d \in Live} = Pages
  /\ \A d, e \in Live : d # e => Referenced(d) \cap (Referenced(e) \cup {e}) = {}
  /\ \A d \in Live : \A v, w \in UserPages :
       v # w /\ Entry(d, v).P /\ Entry(d, w).P => Entry(d, v).page # Entry(d, w).page

(* An address space is its process's alone, and the processor sees it as   *)
(* pagedir.c has set it up.                                                *)
AddressSpacesSound == ActiveNotFreed /\ TlbCoherent /\ PagesAccounted
=============================================================================
