----------------------------- MODULE UserMemory ------------------------------
(***************************************************************************)
(* How a system call reaches the caller's memory in userprog/syscall.c:    *)
(* the pointer is checked, byte by byte, then translated once to a kernel  *)
(* address, and the call works on the bytes from there on.                 *)
(*                                                                         *)
(* The user's pages are mapped to frames of the kernel's RAM, which is one *)
(* range of kernel addresses.  A call is one of four kinds: on a string    *)
(* (exec, create, remove, open, chdir, mkdir), readdir, which is given a   *)
(* buffer but checks a string, write from a buffer and read into one.      *)
(***************************************************************************)
EXTENDS Integers, Sequences, FiniteSets, Functions

CONSTANTS PGSIZE, UserPages, FrameCnt,
          MaxSize,
          Char,       \* a character that is not the NUL
          New,        \* what a call puts into the user's buffer
          Calls,      \* the system calls that are made
          NULL

PHYS_BASE == UserPages * PGSIZE    \* user addresses are below
RAM == 0..(FrameCnt * PGSIZE - 1)
Frames == 0..(FrameCnt - 1)

\* What the switch of syscall_handler has done to a call's pointer argument.
syscall_handler ==
  [halt |-> "none", exit |-> "none", wait |-> "none", filesize |-> "none",
   seek |-> "none", tell |-> "none", close |-> "none", isdir |-> "none",
   inumber |-> "none",
   exec |-> "string", create |-> "string", remove |-> "string",
   open |-> "string", chdir |-> "string", mkdir |-> "string",
   readdir |-> "readdir", read |-> "read", write |-> "write"]

VARIABLES
  frame,      \* of each user page, or NULL
  ram, before,
  call,       \* the number of the call, and its arguments
  str,        \* the address that the check has come to
  kptr,       \* what get_kernel_ptr returned
  done,       \* bytes transferred
  pc

given == <<frame, before, call>>

Kind == syscall_handler[call.number]

\* pagedir_get_page: the kernel's address for a user address, or NULL.
pagedir_get_page(a) ==
  IF frame[a \div PGSIZE] = NULL THEN NULL
  ELSE frame[a \div PGSIZE] * PGSIZE + (a % PGSIZE)

is_user_vaddr(a) == a < PHYS_BASE

get_kernel_ptr(a) == IF is_user_vaddr(a) THEN pagedir_get_page(a) ELSE NULL

\* The byte that the user has at a mapped address.
User(memory, a) == memory[get_kernel_ptr(a)]

\* The user's bytes that a call is about: up to the NUL, or a buffer.
Mapped(a) == get_kernel_ptr(a) # NULL
Ends(a) ==
  {b \in a..(PHYS_BASE - 1) : (\A x \in a..b : Mapped(x)) /\ User(before, b) = 0}
Last ==
  IF Kind = "string"
  THEN CHOOSE b \in Ends(call.ptr) : \A c \in Ends(call.ptr) : b <= c
  ELSE call.ptr + call.size - 1

Valid ==
  IF Kind = "string" THEN Ends(call.ptr) # {}
  ELSE \A a \in call.ptr..Last : Mapped(a)

Init ==
  /\ frame \in {f \in [0..(UserPages - 1) -> Frames \cup {NULL}] :
                  \A p, q \in DOMAIN f : p # q /\ f[p] = f[q] => f[p] = NULL}
  /\ ram \in [RAM -> {0, Char}] /\ before = ram
  /\ call \in [number : Calls, ptr : 0..PHYS_BASE, size : 1..MaxSize]
  /\ str = call.ptr /\ kptr = NULL /\ done = <<>> /\ pc = "check"

exit(label) == pc = label /\ pc' = "exit" /\ UNCHANGED <<given, ram, str, kptr, done>>

Check(next) ==
  /\ pc = "check" /\ pc' = next
  /\ str' = str + 1
  /\ UNCHANGED <<given, ram, kptr, done>>

AsString == Kind \in {"string", "readdir"}

(* Slip: the NUL is looked for at the user's address of the first page.    *)
is_valid_string_once ==
  /\ AsString
  /\ IF get_kernel_ptr(call.ptr) = NULL THEN exit("check")
     ELSE Check(IF ram[(get_kernel_ptr(call.ptr) + str - call.ptr) % (FrameCnt * PGSIZE)] = 0
                THEN "translate" ELSE "check")

\* One round of is_valid_string: exits, goes on, or has found the end.
is_valid_string ==
  /\ AsString
  /\ IF get_kernel_ptr(str) = NULL THEN exit("check")
     ELSE Check(IF ram[get_kernel_ptr(str)] = 0 THEN "translate" ELSE "check")

\* One round of is_valid_buffer.
is_valid_buffer ==
  /\ Kind \in {"read", "write"}
  /\ IF ~is_user_vaddr(str) THEN exit("check")
     ELSE Check(IF str - call.ptr + 1 = call.size THEN "translate" ELSE "check")

(* Slip: the place of the byte in its page is lost.                        *)
Translate_page ==
  /\ pc = "translate"
  /\ IF get_kernel_ptr(call.ptr) = NULL THEN exit("translate")
     ELSE /\ pc' = "work" /\ kptr' = get_kernel_ptr(call.ptr) - (call.ptr % PGSIZE)
          /\ UNCHANGED <<given, ram, str, done>>

Translate ==
  /\ pc = "translate"
  /\ IF get_kernel_ptr(call.ptr) = NULL THEN exit("translate")
     ELSE /\ pc' = "work" /\ kptr' = get_kernel_ptr(call.ptr)
          /\ UNCHANGED <<given, ram, str, done>>

AsInput == Kind \in {"string", "write"}

Finished(transferred) ==
  IF Kind = "string" THEN transferred[Len(transferred)] = 0
  ELSE Len(transferred) = call.size

\* One byte is taken from the kernel's address, or put there.  Past the RAM
\* there is a page fault in the kernel, which panics.
Work ==
  /\ pc = "work"
  /\ LET k == kptr + Len(done)
     IN  IF k \notin RAM
         THEN pc' = "fault" /\ UNCHANGED <<ram, done>>
         ELSE /\ done' = Append(done, IF AsInput THEN ram[k] ELSE New)
              /\ ram' = IF AsInput THEN ram ELSE [ram EXCEPT ![k] = New]
              /\ pc' = IF Finished(done') THEN "returned" ELSE "work"
  /\ UNCHANGED <<given, str, kptr>>

\* A call without a pointer.
NoPointer ==
  /\ pc = "check" /\ Kind = "none" /\ pc' = "returned"
  /\ UNCHANGED <<given, ram, str, kptr, done>>

Next == NoPointer \/ is_valid_string \/ is_valid_buffer \/ Translate \/ Work

-----------------------------------------------------------------------------
(* The caller's bytes lie one after the other in RAM, as they do in a page *)
(* and in pages whose frames follow each other.                            *)
Contiguous ==
  \A a \in call.ptr..Last : get_kernel_ptr(a) = get_kernel_ptr(call.ptr) + a - call.ptr

(* A call "to write size bytes from buffer", or on a string, has taken the *)
(* caller's bytes; one "to read size bytes ... into a buffer" has changed  *)
(* the caller's buffer and nothing else.  So it is if they are Contiguous: *)
(* syscall_handler translates the first byte's address alone, and goes on  *)
(* from there into whatever frame comes next.                              *)
TransferExactIfContiguous ==
  pc = "returned" /\ Kind # "none" /\ Valid /\ Contiguous =>
    IF AsInput
    THEN done = [k \in 1..(Last - call.ptr + 1) |-> User(before, call.ptr + k - 1)]
    ELSE \A k \in RAM : ram[k] = IF \E a \in call.ptr..Last : get_kernel_ptr(a) = k
                                THEN New ELSE before[k]

(* is_valid_ptr "checks to make sure that the pointer addresss is a valid  *)
(* pointer. If not, then exit with an error": the process exits only if a  *)
(* byte is not mapped, and no string that is not all mapped is used.       *)
(* readdir, which checks its buffer as a string, is left out.              *)
PointersChecked ==
  /\ pc = "exit" /\ Kind # "readdir" => ~Valid
  /\ pc \in {"work", "returned"} /\ Kind # "none" => IF Kind = "string" THEN Valid ELSE Mapped(call.ptr)
=============================================================================
