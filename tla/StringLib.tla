------------------------------ MODULE StringLib ------------------------------
(***************************************************************************)
(* The routines of lib/string.c on a block of N bytes: memmove a byte at a *)
(* time, the limited copies, strtok_r from its first call to the one that  *)
(* returns a null pointer, and the routines that compare and search.  A    *)
(* character is its code.                                                  *)
(***************************************************************************)
EXTENDS Integers, SequencesExt

CONSTANTS N,            \* bytes of the block
          Letters,      \* the characters of the block
          Delimiters,   \* those that separate tokens
          NUL, NULL

Addr == 0..(N - 1)

VARIABLES mem, before,      \* the block, and as it was at the call
          call,             \* the call: fn, dst, src, size and a character ch
          dst, src, size,   \* the locals of memmove
          save_ptr, tokens, \* strtok_r's position, and what it returned
          ret, pc

\* The length of the string at p, and whether there is one.
IsString(p, m) == \E q \in p..(N - 1) : m[q] = NUL
strlen(p, m) == (CHOOSE q \in p..(N - 1) : m[q] = NUL /\ \A r \in p..(q - 1) : m[r] # NUL) - p

\* What the routines ask of their callers.
Legal(c, m) ==
  CASE c.fn = "memmove" -> c.dst + c.size <= N /\ c.src + c.size <= N
    [] c.fn = "strlcpy" ->
         /\ IsString(c.src, m) /\ c.dst + c.size <= N
         /\ (c.src..(c.src + strlen(c.src, m))) \cap (c.dst..(c.dst + c.size - 1)) = {}
    [] c.fn = "strlcat" ->
         /\ IsString(c.src, m) /\ IsString(c.dst, m) /\ c.dst + c.size <= N
         /\ LET top == c.dst + (IF c.size > strlen(c.dst, m) THEN c.size - 1 ELSE strlen(c.dst, m))
            IN  (c.src..(c.src + strlen(c.src, m))) \cap (c.dst..top) = {}
    [] c.fn = "strtok_r" -> IsString(c.src, m) /\ c.dst = 0 /\ c.size = 0
    [] c.fn = "memcmp" -> c.dst + c.size <= N /\ c.src + c.size <= N
    [] c.fn = "memchr" -> c.dst + c.size <= N /\ c.src = 0
    [] c.fn \in {"strchr", "strrchr"} -> IsString(c.dst, m) /\ c.src = 0 /\ c.size = 0
    [] OTHER -> IsString(c.dst, m) /\ IsString(c.src, m) /\ c.size = 0

\* The routines that compare two strings, or search the first for the second.
Searches == {"strcmp", "strcspn", "strpbrk", "strspn", "strstr"}

Calls ==
  [fn : {"memmove", "strlcpy", "strlcat", "strtok_r", "memcmp"} \cup Searches,
   dst : 0..N, src : 0..N, size : 0..N, ch : {NUL}]
  \cup [fn : {"memchr", "strchr", "strrchr"}, dst : 0..N, src : {0}, size : 0..N, ch : Letters \cup {NUL}]

Init ==
  /\ mem \in [Addr -> Letters \cup {NUL}] /\ before = mem
  /\ call \in Calls
  /\ Legal(call, mem)
  /\ dst = call.dst /\ src = call.src /\ size = call.size
  /\ save_ptr = NULL /\ tokens = <<>> /\ ret = NULL /\ pc = "call"

\* memcpy of cnt bytes between places that do not overlap, then the null byte.
CopyString(to, from, cnt) ==
  [a \in Addr |-> IF a \in to..(to + cnt - 1) THEN mem[from + a - to]
                  ELSE IF a = to + cnt THEN NUL ELSE mem[a]]

Returns(v) == ret' = v /\ pc' = "returned"

(* Slip: memmove copies upward whatever the order of the two.              *)
Upward_always == TRUE

\* memmove chooses its direction so that no byte is overwritten unread.
Upward == call.dst < call.src

memmove_entry ==
  /\ call.fn = "memmove" /\ pc = "call" /\ pc' = "copy"
  /\ dst' = IF Upward THEN dst ELSE dst + size
  /\ src' = IF Upward THEN src ELSE src + size
  /\ UNCHANGED <<mem, before, call, size, save_ptr, tokens, ret>>

memmove_byte ==
  /\ pc = "copy" /\ size > 0 /\ size' = size - 1
  /\ IF Upward
     THEN /\ mem' = [mem EXCEPT ![dst] = mem[src]]
          /\ dst' = dst + 1 /\ src' = src + 1
     ELSE /\ mem' = [mem EXCEPT ![dst - 1] = mem[src - 1]]
          /\ dst' = dst - 1 /\ src' = src - 1
  /\ UNCHANGED <<before, call, save_ptr, tokens, ret, pc>>

\* It returns its local, not its argument.
memmove_return ==
  /\ pc = "copy" /\ size = 0 /\ Returns(dst)
  /\ UNCHANGED <<mem, before, call, dst, src, size, save_ptr, tokens>>

Least(x, y) == IF x < y THEN x ELSE y

(* Slip: no room is left for the null byte.                                *)
strlcpy_full ==
  /\ call.fn = "strlcpy" /\ pc = "call"
  /\ LET src_len == strlen(call.src, mem)
     IN  /\ mem' = IF call.size > 0
                   THEN CopyString(call.dst, call.src, Least(src_len, call.size))
                   ELSE mem
         /\ Returns(src_len)
  /\ UNCHANGED <<before, call, dst, src, size, save_ptr, tokens>>

strlcpy ==
  /\ call.fn = "strlcpy" /\ pc = "call"
  /\ LET src_len == strlen(call.src, mem)
     IN  /\ mem' = IF call.size > 0
                   THEN CopyString(call.dst, call.src, Least(src_len, call.size - 1))
                   ELSE mem
         /\ Returns(src_len)
  /\ UNCHANGED <<before, call, dst, src, size, save_ptr, tokens>>

strlcat ==
  /\ call.fn = "strlcat" /\ pc = "call"
  /\ LET src_len == strlen(call.src, mem)
         dst_len == strlen(call.dst, mem)
     IN  /\ mem' = IF call.size > 0 /\ dst_len < call.size
                   THEN CopyString(call.dst + dst_len, call.src, Least(src_len, call.size - dst_len - 1))
                   ELSE mem
         /\ Returns(src_len + dst_len)
  /\ UNCHANGED <<before, call, dst, src, size, save_ptr, tokens>>

\* Where strtok_r stops skipping: the first byte from s on that does not, or
\* does, separate; the null byte ends both.
SkipDelimiters(s) ==
  CHOOSE q \in s..(N - 1) : mem[q] \notin Delimiters /\ \A r \in s..(q - 1) : mem[r] \in Delimiters
SkipToken(s) ==
  CHOOSE q \in s..(N - 1) :
    /\ mem[q] \in Delimiters \cup {NUL}
    /\ \A r \in s..(q - 1) : mem[r] \notin Delimiters \cup {NUL}

(* Slip: the position saved is that of the null byte just written.         *)
Saved_at(e) == e

\* The position strtok_r saves at the end e of a token.
Saved(e) == IF mem[e] # NUL THEN e + 1 ELSE e

strtok_r ==
  /\ call.fn = "strtok_r" /\ pc = "call"
  /\ LET token == SkipDelimiters(IF save_ptr = NULL THEN call.src ELSE save_ptr)
         end   == SkipToken(token)
     IN  IF mem[token] = NUL
         THEN save_ptr' = token /\ Returns(NULL) /\ UNCHANGED <<mem, tokens>>
         ELSE /\ mem' = [mem EXCEPT ![end] = NUL]
              /\ save_ptr' = Saved(end)
              /\ tokens' = Append(tokens, token)
              /\ UNCHANGED <<ret, pc>>
  /\ UNCHANGED <<before, call, dst, src, size>>

-----------------------------------------------------------------------------
(* The loops of the routines that only read.  Each is the recursion of its *)
(* loop over the position that it moves.                                   *)

memcmp(a, b, cnt) ==
  LET from[k \in 0..cnt] == IF k = cnt THEN 0
                            ELSE IF mem[a + k] = mem[b + k] THEN from[k + 1]
                            ELSE IF mem[a + k] > mem[b + k] THEN 1 ELSE -1
  IN  from[0]

(* Slip: strings are equal when the first has ended.                       *)
strcmp_prefix(a, b) ==
  LET from[k \in 0..N] == IF mem[a + k] = NUL THEN 0
                          ELSE IF mem[a + k] = mem[b + k] THEN from[k + 1]
                          ELSE IF mem[a + k] < mem[b + k] THEN -1 ELSE 1
  IN  from[0]

strcmp(a, b) ==
  LET from[k \in 0..N] == IF mem[a + k] # NUL /\ mem[a + k] = mem[b + k] THEN from[k + 1]
                          ELSE IF mem[a + k] < mem[b + k] THEN -1
                          ELSE IF mem[a + k] > mem[b + k] THEN 1 ELSE 0
  IN  from[0]

memchr(block, ch, cnt) ==
  LET from[k \in 0..cnt] == IF k = cnt THEN NULL
                            ELSE IF mem[block + k] = ch THEN block + k ELSE from[k + 1]
  IN  from[0]

strchr(string, c) ==
  LET from[p \in Addr] == IF mem[p] = c THEN p
                          ELSE IF mem[p] = NUL THEN NULL ELSE from[p + 1]
  IN  from[string]

strcspn(string, stop) ==
  LET from[k \in 0..N] == IF mem[string + k] # NUL /\ strchr(stop, mem[string + k]) = NULL
                          THEN from[k + 1] ELSE k
  IN  from[0]

strspn(string, skip) ==
  LET from[k \in 0..N] == IF mem[string + k] # NUL /\ strchr(skip, mem[string + k]) # NULL
                          THEN from[k + 1] ELSE k
  IN  from[0]

strpbrk(string, stop) ==
  LET from[p \in Addr] == IF mem[p] = NUL THEN NULL
                          ELSE IF strchr(stop, mem[p]) # NULL THEN p ELSE from[p + 1]
  IN  from[string]

strrchr(string, c) ==
  LET from[p \in Addr] == IF mem[p] = NUL THEN NULL
                          ELSE IF from[p + 1] # NULL THEN from[p + 1]
                          ELSE IF mem[p] = c THEN p ELSE NULL
  IN  from[string]

(* Slip: the last place is not tried.                                      *)
LastPlace_short(haystack, needle) == strlen(haystack, mem) - strlen(needle, mem) - 1

\* The last place at which strstr looks for the needle.
LastPlace(haystack, needle) == strlen(haystack, mem) - strlen(needle, mem)

strstr(haystack, needle) ==
  LET from[k \in 0..(N + 1)] == IF k > LastPlace(haystack, needle) THEN NULL
                                ELSE IF memcmp(haystack + k, needle, strlen(needle, mem)) = 0
                                THEN haystack + k ELSE from[k + 1]
  IN  from[0]

Result ==
  CASE call.fn = "memcmp"  -> memcmp(call.dst, call.src, call.size)
    [] call.fn = "strcmp"  -> strcmp(call.dst, call.src)
    [] call.fn = "memchr"  -> memchr(call.dst, call.ch, call.size)
    [] call.fn = "strchr"  -> strchr(call.dst, call.ch)
    [] call.fn = "strrchr" -> strrchr(call.dst, call.ch)
    [] call.fn = "strcspn" -> strcspn(call.dst, call.src)
    [] call.fn = "strspn"  -> strspn(call.dst, call.src)
    [] call.fn = "strpbrk" -> strpbrk(call.dst, call.src)
    [] call.fn = "strstr"  -> strstr(call.dst, call.src)

Reads ==
  /\ call.fn \in Searches \cup {"memcmp", "memchr", "strchr", "strrchr"} /\ pc = "call"
  /\ Returns(Result)
  /\ UNCHANGED <<mem, before, call, dst, src, size, save_ptr, tokens>>

Next ==
  \/ memmove_entry \/ memmove_byte \/ memmove_return
  \/ strlcpy \/ strlcat \/ strtok_r \/ Reads

-----------------------------------------------------------------------------
StringAt(p, m) == [i \in 1..strlen(p, m) |-> m[p + i - 1]]
Outside(lo, cnt) == \A a \in Addr \ (lo..(lo + cnt - 1)) : mem[a] = before[a]

(* "Copies SIZE bytes from SRC to DST, which are allowed to overlap", and  *)
(* writes nowhere else.                                                    *)
MoveExact ==
  call.fn = "memmove" /\ pc = "returned" =>
    /\ \A i \in 0..(call.size - 1) : mem[call.dst + i] = before[call.src + i]
    /\ Outside(call.dst, call.size)

(* The copies keep to SIZE bytes, end the string, cut it no shorter than   *)
(* they must, and return the length it would have had.                     *)
LimitedCopy ==
  call.fn \in {"strlcpy", "strlcat"} /\ pc = "returned" =>
    LET old   == IF call.fn = "strlcat" THEN StringAt(call.dst, before) ELSE <<>>
        whole == old \o StringAt(call.src, before)
    IN  /\ ret = Len(whole)
        /\ Outside(call.dst, call.size)
        /\ call.size > Len(old) =>
             StringAt(call.dst, mem) = SubSeq(whole, 1, Least(Len(whole), call.size - 1))

(* The tokens are, in order, the longest runs of other characters in the   *)
(* string, each ended by a null byte; nothing past the string is written.  *)
TokensExact ==
  call.fn = "strtok_r" /\ pc = "returned" =>
    LET end    == call.src + strlen(call.src, before)
        InWord(a) == a \in call.src..(end - 1) /\ before[a] \notin Delimiters
        starts == {a \in Addr : InWord(a) /\ ~InWord(a - 1)}
    IN  /\ ToSet(tokens) = starts
        /\ \A i, j \in DOMAIN tokens : i < j => tokens[i] < tokens[j]
        /\ \A a \in starts : \A i \in a..end :
             (\A k \in a..i : InWord(k)) <=> (i - a < strlen(a, mem))
        /\ Outside(call.src, end - call.src)

Block(p, cnt) == [i \in 1..cnt |-> before[p + i - 1]]

(* -1, 0 or 1 for two sequences in the order of a dictionary.              *)
Order(a, b) ==
  LET differ == {i \in 1..Least(Len(a), Len(b)) : a[i] # b[i]}
      first  == CHOOSE i \in differ : \A j \in differ : i <= j
      Sign(x, y) == IF x < y THEN -1 ELSE IF x > y THEN 1 ELSE 0
  IN  IF differ = {} THEN Sign(Len(a), Len(b)) ELSE Sign(a[first], b[first])

(* memcmp and strcmp order blocks and strings as a dictionary does.        *)
ComparedExactly ==
  pc = "returned" =>
    /\ call.fn = "memcmp" => ret = Order(Block(call.dst, call.size), Block(call.src, call.size))
    /\ call.fn = "strcmp" => ret = Order(StringAt(call.dst, before), StringAt(call.src, before))

IsFirst(p, S) == IF S = {} THEN p = NULL ELSE p \in S /\ \A q \in S : p <= q
IsLast(p, S) == IF S = {} THEN p = NULL ELSE p \in S /\ \A q \in S : p >= q

(* Each search returns the first place, or for strrchr the last, that its  *)
(* comment names, or a null pointer if there is none; "if C == '\0' then   *)
(* [strchr] returns a pointer to the null terminator".                     *)
FoundExactly ==
  pc = "returned" /\ call.fn \in (Searches \ {"strcmp"}) \cup {"memchr", "strchr", "strrchr"} =>
    LET string == StringAt(call.dst, before)
        second == StringAt(call.src, before)
        In(S)  == {call.dst + i - 1 : i \in {i \in DOMAIN string : string[i] \in S}}
        end    == call.dst + Len(string)
    IN  CASE call.fn = "memchr" ->
               IsFirst(ret, {p \in call.dst..(call.dst + call.size - 1) : before[p] = call.ch})
          [] call.fn = "strchr"  -> IsFirst(ret, IF call.ch = NUL THEN {end} ELSE In({call.ch}))
          [] call.fn = "strrchr" -> IsLast(ret, In({call.ch}))
          [] call.fn = "strpbrk" -> IsFirst(ret, In(ToSet(second)))
          [] call.fn = "strcspn" -> IsFirst(call.dst + ret, In(ToSet(second)) \cup {end})
          [] call.fn = "strspn"  -> IsFirst(call.dst + ret, In(ToSet(string) \ ToSet(second)) \cup {end})
          [] call.fn = "strstr"  ->
               IsFirst(ret, {p \in call.dst..end : /\ p + Len(second) <= end
                                                   /\ Block(p, Len(second)) = second})
=============================================================================
