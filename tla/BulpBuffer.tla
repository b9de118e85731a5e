----------------------------- MODULE BulpBuffer -----------------------------
(***************************************************************************)
(* bulp-buffer.c / bulp-buffer.h: byte queues kept as singly linked lists  *)
(* of fragments.                                                           *)
(*                                                                         *)
(* A fragment is a native one (one malloc of BUF_CHUNK_SIZE bytes, header  *)
(* included, that goes to a recycling bin shared by all buffers) or a      *)
(* GENERIC one (a header for memory the caller lends, given back through   *)
(* its destroy callback).  The list of a buffer is the sequence chain[b]   *)
(* of the fragments met from first_frag along `next'; last_frag is kept    *)
(* apart, because the code keeps it apart and can get it wrong.  The       *)
(* fields of fragment f are                                                *)
(*     kind[f]   FREE: not allocated; NATIVE; or the lent object of a      *)
(*               GENERIC fragment,                                         *)
(*     start[f]  buf_start,                                                *)
(*     data[f]   the buf_length bytes of valid data.                       *)
(* The library has one thread: every call is one step, except              *)
(* write_all_to_fd, which waits for its file descriptor between steps.     *)
(* The fields of a fragment in the bin are dead until                      *)
(* new_native_fragment resets them, so they are blanked when it goes in;   *)
(* and all fragments in the bin are alike, so the recycling stack is a set.*)
(***************************************************************************)
EXTENDS Integers, Sequences, FiniteSets, SequencesExt

CONSTANTS
  Buffers,                 (* the buffers of the program                  *)
  Frag,                    (* fragment headers the allocator can hand out *)
  Foreign,                 (* objects lent through append_foreign         *)
  Byte,                    (* the byte values told apart                  *)
  NUL,                     (* the byte 0                                  *)
  LF,                      (* the byte '\n'                               *)
  Hole,                    (* an uninitialised reserved byte              *)
  NULL, FREE, NATIVE,
  BUF_CHUNK_SIZE,          (* bytes of a native allocation                *)
  Header,                  (* sizeof (BulpBufferFragment)                 *)
  MAX_RECYCLED,            (* fragments the bin may hold                  *)
  MAX_FRAGMENTS_TO_WRITE,  (* iovecs handed to one writev                 *)
  Data,                    (* BOUND: the byte strings callers append      *)
  MaxSize                  (* BOUND: bytes in one buffer                  *)

Cap == BUF_CHUNK_SIZE - Header

ASSUME SizeAssumption ==
  /\ BUF_CHUNK_SIZE \in Nat /\ Header \in Nat /\ Cap > 0
  /\ MAX_RECYCLED \in Nat \ {0}
  /\ MAX_FRAGMENTS_TO_WRITE \in Nat \ {0}
  /\ MaxSize \in Nat

ASSUME ValueAssumption ==
  /\ IsFiniteSet(Frag) /\ NULL \notin Frag /\ NULL \notin Buffers
  /\ FREE # NATIVE /\ FREE \notin Foreign /\ NATIVE \notin Foreign
  /\ {NUL, LF, Hole} \subseteq Byte /\ NUL # Hole
  /\ \A s \in Data : s \in Seq(Byte \ {Hole})

VARIABLES
  live,          (* live[b]: initialised, and not cleared since           *)
  chain,         (* chain[b]: first_frag and its successors               *)
  last,          (* last[b]: last_frag                                    *)
  size,          (* size[b]: the size field                               *)
  kind, start, data,
  bin,           (* the fragments on recycling_stack                      *)
  num_recycled,
  lent,          (* objects lent and not yet destroyed                    *)
  ph,            (* the outstanding BulpBufferPlaceholder, or NULL        *)
  flush,         (* the buffer write_all_to_fd is busy with, or NULL      *)
  io             (* the observable call of the last step (ByteQueues)     *)

listVars == <<live, chain, last, size>>
fragVars == <<kind, start, data>>
binVars  == <<bin, num_recycled>>
vars == <<listVars, fragVars, binVars, lent, ph, flush, io>>

-----------------------------------------------------------------------------
(* Fragments.                                                              *)

Lesser(m, n) == IF m <= n THEN m ELSE n

Placed(c) == {c[i] : i \in 1 .. Len(c)}

IndexIn(c, f) == CHOOSE i \in 1 .. Len(c) : c[i] = f

(* The first index past the valid data: buf_start + buf_length.            *)
End(f) == start[f] + Len(data[f])

(* Broken variant: what was read from the front counts as room again.      *)
Avail_ForgetsStart(f) == IF kind[f] = NATIVE THEN Cap - Len(data[f]) ELSE 0

(* bulp_buffer_fragment_avail: a GENERIC fragment has buf_max_size equal   *)
(* to the length it was lent with, so nothing is ever available in it.     *)
Avail(f) == IF kind[f] = NATIVE THEN Cap - End(f) ELSE 0

(* What a list has room for behind its last_frag.                          *)
Room(tail) == IF tail = NULL THEN 0 ELSE Avail(tail)

(* A field of the fragments, set to v for some of them.                    *)
With(field, gone, v) == [f \in Frag |-> IF f \in gone THEN v ELSE field[f]]

(* Offsets(c, d)[i]: bytes in the first i fragments of list c.             *)
Offsets(c, d) ==
  LET off[i \in 0 .. Len(c)] == IF i = 0 THEN 0 ELSE off[i - 1] + Len(d[c[i]])
  IN off

Contents(c, d) == FlattenSeq([i \in 1 .. Len(c) |-> d[c[i]]])

Bytes(b) == Contents(chain[b], data)

Call(op, b, to, want, s) == [op |-> op, buf |-> b, to |-> to, want |-> want, bytes |-> s]
NoCall == Call("idle", NULL, NULL, 0, <<>>)

(* Bytes of list b in front of those reserved by the placeholder.          *)
Ahead(b) == Offsets(chain[b], data)[IndexIn(chain[b], ph.frag) - 1] + ph.off - start[ph.frag]

(* ph after n bytes, and with them the first k fragments, were taken from  *)
(* the front of b: it cannot be filled in once the recorded fragment or a  *)
(* reserved byte is gone.                                                  *)
Disturb(b, k, n) ==
  IF ph # NULL /\ ph.frag \in Placed(chain[b])
     /\ (IndexIn(chain[b], ph.frag) <= k \/ n > Ahead(b))
  THEN [ph EXCEPT !.fresh = FALSE] ELSE ph

-----------------------------------------------------------------------------
(* Allocation and recycling.                                               *)

Unallocated == {f \in Frag : kind[f] = FREE}

(* The ways k calls of new_native_fragment can turn out: the bin is        *)
(* emptied before malloc is asked for a new one.                           *)
Fresh(k) ==
  {fs \in [1 .. k -> bin \cup Unallocated] :
     /\ \A i, j \in 1 .. k : fs[i] = fs[j] => i = j
     /\ Placed(fs) \subseteq bin \/ bin \subseteq Placed(fs)}

(* Broken variant: num_recycled goes down for every allocation.            *)
new_native_fragment_CountsMalloc(fs) ==
  /\ bin' = bin \ Placed(fs)
  /\ num_recycled' = num_recycled - Len(fs)
  /\ kind' = With(kind, Placed(fs), NATIVE)
  /\ start' = With(start, Placed(fs), 0)

new_native_fragment(fs) ==
  /\ bin' = bin \ Placed(fs)
  /\ num_recycled' = num_recycled - Cardinality(bin \cap Placed(fs))
  /\ kind' = With(kind, Placed(fs), NATIVE)
  /\ start' = With(start, Placed(fs), 0)

(* Broken variant: the bin takes everything.                               *)
Kept_Unlimited(gone) == {{f \in gone : kind[f] = NATIVE}}

(* Which native fragments of a set that is let go still fit in the bin.    *)
Kept(gone) ==
  LET natives == {f \in gone : kind[f] = NATIVE}
  IN {keep \in SUBSET natives :
        Cardinality(keep) =
          Lesser(Cardinality(natives), MAX_RECYCLED - num_recycled)}

(* Broken variant: the destroy callback is forgotten.                      *)
recycle_WithoutDestroy(gone) ==
  \E keep \in Kept(gone) :
    /\ bin' = bin \cup keep
    /\ num_recycled' = num_recycled + Cardinality(keep)
    /\ kind' = With(kind, gone \ keep, FREE)
    /\ UNCHANGED lent

(* recycle, for every fragment of `gone': a GENERIC one is destroyed and   *)
(* freed, a native one goes to the bin, or is freed when the bin is full.  *)
recycle(gone) ==
  \E keep \in Kept(gone) :
    /\ bin' = bin \cup keep
    /\ num_recycled' = num_recycled + Cardinality(keep)
    /\ kind' = With(kind, gone \ keep, FREE)
    /\ lent' = lent \ {kind[f] : f \in gone}

-----------------------------------------------------------------------------
(* Adding at the end.                                                      *)

(* Native fragments that n bytes need beyond the room there is.            *)
Needed(n, room) == IF n <= room THEN 0 ELSE (n - room + Cap - 1) \div Cap

(* Broken variant: first_frag is set although there is a last_frag.        *)
Link_AtFront(c, tail, fs) == IF fs = <<>> THEN c ELSE fs

(* fs linked behind last_frag: a list whose last_frag is NULL starts over. *)
Link(c, tail, fs) ==
  IF fs = <<>> THEN c ELSE IF tail = NULL THEN fs ELSE c \o fs

(* The bytes s written to the room of `tail' and then to fs, in order.     *)
Fill(d, tail, fs, s) ==
  LET r == Lesser(Len(s), Room(tail))
  IN [f \in Frag |->
        IF f \in Placed(fs)
        THEN LET i == IndexIn(fs, f)
             IN SubSeq(s, r + (i - 1) * Cap + 1, Lesser(r + i * Cap, Len(s)))
        ELSE IF f = tail THEN d[f] \o SubSeq(s, 1, r) ELSE d[f]]

(* The loop of bulp_buffer_append, on a list whose fields are as they are. *)
Store(b, s) ==
  /\ size[b] + Len(s) <= MaxSize
  /\ \E fs \in Fresh(Needed(Len(s), Room(last[b]))) :
       /\ chain' = [chain EXCEPT ![b] = Link(@, last[b], fs)]
       /\ last' = [last EXCEPT ![b] = IF fs = <<>> THEN @ ELSE fs[Len(fs)]]
       /\ data' = Fill(data, last[b], fs, s)
       /\ new_native_fragment(fs)
  /\ size' = [size EXCEPT ![b] = @ + Len(s)]

Ready(b) == live[b] /\ flush = NULL

append(b, s) ==
  /\ Ready(b)
  /\ Store(b, s)
  /\ io' = Call("put", b, NULL, 0, s)
  /\ UNCHANGED <<live, lent, ph, flush>>

append_repeated_byte(b, count, byte) == append(b, [i \in 1 .. count |-> byte])

append_string0(b, s) == append(b, Append(s, NUL))

(* bulp_buffer_append_small and append_byte: a copy in place when the last *)
(* fragment is native and has room, bulp_buffer_append otherwise.          *)
append_small(b, s) ==
  LET f == last[b]
      inPlace == f # NULL /\ kind[f] = NATIVE /\ End(f) + Len(s) <= Cap
  IN \/ /\ inPlace
        /\ Ready(b) /\ size[b] + Len(s) <= MaxSize
        /\ data' = [data EXCEPT ![f] = @ \o s]
        /\ size' = [size EXCEPT ![b] = @ + Len(s)]
        /\ io' = Call("put", b, NULL, 0, s)
        /\ UNCHANGED <<live, chain, last, kind, start, binVars, lent, ph, flush>>
     \/ /\ ~inPlace
        /\ append(b, s)

(* bulp_buffer_readv: whatever one read(2) returned is appended.           *)
readv(b) == \E s \in Data : append(b, s)

(* new_foreign_fragment and the linking, for object o of content s, after  *)
(* the native fragments `trial' were allocated and recycled.               *)
StoreForeign(b, o, s, trial) ==
  /\ size[b] + Len(s) <= MaxSize
  /\ \E f \in Unallocated \ trial :
       /\ kind' = [With(kind, trial, NATIVE) EXCEPT ![f] = o]
       /\ start' = With(start, trial \cup {f}, 0)
       /\ data' = [With(data, trial, <<>>) EXCEPT ![f] = s]
       /\ chain' = [chain EXCEPT ![b] = Link(@, last[b], <<f>>)]
       /\ last' = [last EXCEPT ![b] = f]
  /\ size' = [size EXCEPT ![b] = @ + Len(s)]
  /\ lent' = lent \cup {o}
  /\ bin' = bin \cup trial
  /\ num_recycled' = num_recycled + Cardinality(trial)

(* A zero-length object is destroyed at once and leaves no fragment.       *)
append_foreign(b, o, s) ==
  /\ Ready(b) /\ o \notin lent
  /\ IF s = <<>>
     THEN UNCHANGED <<chain, last, size, fragVars, binVars, lent>>
     ELSE StoreForeign(b, o, s, {})
  /\ io' = Call("put", b, NULL, 0, s)
  /\ UNCHANGED <<live, ph, flush>>

(* The text as vsnprintf leaves it in rem bytes: when it fills them, its   *)
(* last character has given way to the terminating NUL.                    *)
Printed(s, rem) ==
  IF Len(s) = rem THEN [s EXCEPT ![rem] = NUL] ELSE s

(* vprintf tries the text in the last fragment's room or, when there is    *)
(* none, in a new fragment, which is recycled when the text is empty or    *)
(* does not fit.  What that leaves in the bin that was not there before:   *)
Trials(b) ==
  IF Room(last[b]) = 0 /\ bin = {} THEN {{f} : f \in Unallocated} ELSE {{}}

(* bulp_buffer_vprintf.  (A recycled trial fragment is the first one that  *)
(* the bulp_buffer_append of the slab takes out of the bin again.)         *)
vprintf(b, s) ==
  LET room == Room(last[b])
      rem == IF room = 0 THEN Cap ELSE room
  IN /\ Ready(b)
     /\ \/ /\ s = <<>>
           /\ \E trial \in Trials(b) :
                /\ kind' = With(kind, trial, NATIVE)
                /\ start' = With(start, trial, 0)
                /\ data' = With(data, trial, <<>>)
                /\ bin' = bin \cup trial
                /\ num_recycled' = num_recycled + Cardinality(trial)
           /\ UNCHANGED <<chain, last, size, lent>>
        \/ /\ s # <<>> /\ Len(s) - rem < BUF_CHUNK_SIZE
           /\ Store(b, Printed(s, rem))
           /\ UNCHANGED lent
        \/ /\ Len(s) - rem >= BUF_CHUNK_SIZE
           /\ \E trial \in Trials(b), o \in Foreign \ lent : StoreForeign(b, o, s, trial)
     /\ io' = Call("format", b, NULL, 0, s)
     /\ UNCHANGED <<live, ph, flush>>

-----------------------------------------------------------------------------
(* Taking from the front.                                                  *)

(* Broken variant: a fragment that is read to its last byte stays.         *)
Whole_KeepsEmptied(c, n) ==
  LET off == Offsets(c, data)
  IN Cardinality({i \in 1 .. Len(c) : off[i] < n})

(* How many whole fragments of list c go when n bytes are taken (the loop  *)
(* runs while bytes are still wanted), and how many bytes go in all.       *)
Whole(c, n) ==
  LET off == Offsets(c, data)
  IN Cardinality({i \in 1 .. Len(c) : off[i - 1] < n /\ off[i] <= n})

(* Broken variant: only whole fragments are counted.                       *)
Taken_WholeOnly(c, n) == Offsets(c, data)[Whole(c, n)]

Taken(c, n) ==
  LET k == Whole(c, n)
  IN IF k < Len(c) THEN n ELSE Offsets(c, data)[k]

(* Broken variant: last_frag survives the last fragment.                   *)
Unlink_KeepsLast(b, n) ==
  LET c == chain[b]
      k == Whole(c, n)
      gone == Placed(SubSeq(c, 1, k))
      part == IF k < Len(c) THEN n - Offsets(c, data)[k] ELSE 0
      front(f) == k < Len(c) /\ f = c[k + 1]
  IN /\ chain' = [chain EXCEPT ![b] = SubSeq(c, k + 1, Len(c))]
     /\ size' = [size EXCEPT ![b] = @ - Taken(c, n)]
     /\ start' = [f \in Frag |-> IF f \in gone THEN 0
                                 ELSE IF front(f) THEN start[f] + part ELSE start[f]]
     /\ data' = [f \in Frag |-> IF f \in gone THEN <<>>
                                ELSE IF front(f) THEN SubSeq(data[f], part + 1, Len(data[f]))
                                ELSE data[f]]
     /\ recycle(gone)
     /\ ph' = Disturb(b, k, n)
     /\ UNCHANGED <<live, last>>

(* The loop of bulp_buffer_read and of bulp_buffer_discard: whole          *)
(* fragments are unlinked and recycled, and the front one of those that    *)
(* stay is advanced.                                                       *)
Unlink(b, n) ==
  LET c == chain[b]
      k == Whole(c, n)
      gone == Placed(SubSeq(c, 1, k))
      part == IF k < Len(c) THEN n - Offsets(c, data)[k] ELSE 0
      front(f) == k < Len(c) /\ f = c[k + 1]
  IN /\ chain' = [chain EXCEPT ![b] = SubSeq(c, k + 1, Len(c))]
     /\ last' = [last EXCEPT ![b] = IF k = Len(c) THEN NULL ELSE @]
     /\ size' = [size EXCEPT ![b] = @ - Taken(c, n)]
     /\ start' = [f \in Frag |-> IF f \in gone THEN 0
                                 ELSE IF front(f) THEN start[f] + part ELSE start[f]]
     /\ data' = [f \in Frag |-> IF f \in gone THEN <<>>
                                ELSE IF front(f) THEN SubSeq(data[f], part + 1, Len(data[f]))
                                ELSE data[f]]
     /\ recycle(gone)
     /\ ph' = Disturb(b, k, n)
     /\ UNCHANGED live

(* The caller is handed the first bytes of the list.                       *)
Deliver(b, n) ==
  io' = Call("take", b, NULL, n, SubSeq(Bytes(b), 1, Taken(chain[b], n)))

read(b, n) ==
  /\ Ready(b)
  /\ Unlink(b, n) /\ Deliver(b, n)
  /\ UNCHANGED flush

(* The same loop; the bytes are not copied out, only counted.              *)
discard(b, n) == read(b, n)

(* bulp_buffer_read_line and parse_string0: everything up to the first     *)
(* delimiter, or nothing when there is none.                               *)
read_until(b, delim) ==
  /\ delim \in Placed(Bytes(b))
  /\ read(b, SelectInSeq(Bytes(b), LAMBDA byte : byte = delim))

empty_to_string(b) == read(b, size[b])

(* The bytes one writev can be given: those of the first fragments.        *)
Offered(c) == Offsets(c, data)[Lesser(Len(c), MAX_FRAGMENTS_TO_WRITE)]

(* The kernel takes w of them.  (EINTR, EAGAIN and errors change nothing.) *)
writev(b, w) ==
  /\ w \in 1 .. Offered(chain[b])
  /\ read(b, w)

writev_len(b, max_bytes, w) ==
  /\ w <= max_bytes
  /\ writev(b, w)

(* bulp_buffer_write_all_to_fd: one writev after the other until the       *)
(* buffer is empty or one fails; the program is blocked in the meantime.   *)
write_all_to_fd(b) ==
  /\ Ready(b) /\ size[b] > 0
  /\ flush' = b
  /\ io' = NoCall
  /\ UNCHANGED <<listVars, fragVars, binVars, lent, ph>>

write_all_step(b, w) ==
  /\ flush = b
  /\ w \in 1 .. Offered(chain[b])
  /\ Unlink(b, w) /\ Deliver(b, w)
  /\ flush' = IF size'[b] > 0 THEN b ELSE NULL

write_all_fails(b) ==
  /\ flush = b
  /\ flush' = NULL
  /\ io' = NoCall
  /\ UNCHANGED <<listVars, fragVars, binVars, lent, ph>>

-----------------------------------------------------------------------------
(* From buffer to buffer.                                                  *)

(* Broken variant: src keeps its list.                                     *)
drain_Shares(dst, src) ==
  /\ Ready(dst) /\ Ready(src) /\ dst # src
  /\ size[dst] + size[src] <= MaxSize
  /\ io' = Call("move", src, dst, size[src], <<>>)
  /\ chain' = [chain EXCEPT ![dst] = Link(@, last[dst], chain[src])]
  /\ last' = [last EXCEPT ![dst] = IF chain[src] = <<>> THEN @ ELSE last[src]]
  /\ size' = [size EXCEPT ![dst] = @ + size[src]]
  /\ UNCHANGED <<live, fragVars, binVars, lent, ph, flush>>

(* Broken variant: src is put in front of dst.                             *)
drain_AtFront(dst, src) ==
  /\ Ready(dst) /\ Ready(src) /\ dst # src
  /\ size[dst] + size[src] <= MaxSize
  /\ io' = Call("move", src, dst, size[src], <<>>)
  /\ chain' = [chain EXCEPT ![dst] = chain[src] \o @, ![src] = <<>>]
  /\ last' = [last EXCEPT ![dst] = IF @ = NULL THEN last[src] ELSE @, ![src] = NULL]
  /\ size' = [size EXCEPT ![dst] = @ + size[src], ![src] = 0]
  /\ UNCHANGED <<live, fragVars, binVars, lent, ph, flush>>

(* bulp_buffer_drain: the whole list of src is spliced behind dst's.       *)
drain(dst, src) ==
  /\ Ready(dst) /\ Ready(src) /\ dst # src
  /\ size[dst] + size[src] <= MaxSize
  /\ io' = Call("move", src, dst, size[src], <<>>)
  /\ IF chain[src] = <<>>
     THEN UNCHANGED <<chain, last, size>>
     ELSE /\ chain' = [chain EXCEPT ![dst] = Link(@, last[dst], chain[src]), ![src] = <<>>]
          /\ last' = [last EXCEPT ![dst] = last[src], ![src] = NULL]
          /\ size' = [size EXCEPT ![dst] = @ + size[src], ![src] = 0]
  /\ UNCHANGED <<live, fragVars, binVars, lent, ph, flush>>

(* bulp_buffer_transfer: fragments that fit entirely in n bytes change     *)
(* lists, then the rest is appended as a copy and src's front advanced.    *)
transfer(dst, src, n) ==
  LET c == chain[src]
      off == Offsets(c, data)
      k == Cardinality({i \in 1 .. Len(c) : off[i] <= n})
      part == IF k < Len(c) THEN n - off[k] ELSE 0
      copied == IF part = 0 THEN <<>> ELSE SubSeq(data[c[k + 1]], 1, part)
      front(f) == part > 0 /\ f = c[k + 1]
      moved == Link(chain[dst], last[dst], SubSeq(c, 1, k))
      tail == IF k = 0 THEN last[dst] ELSE c[k]
  IN /\ Ready(dst) /\ Ready(src) /\ dst # src
     /\ size[dst] + off[k] + part <= MaxSize
     /\ \E fs \in Fresh(Needed(part, Room(tail))) :
          /\ chain' = [chain EXCEPT ![dst] = Link(moved, tail, fs),
                                    ![src] = SubSeq(c, k + 1, Len(c))]
          /\ last' = [last EXCEPT ![dst] = IF fs = <<>> THEN tail ELSE fs[Len(fs)],
                                  ![src] = IF k = Len(c) THEN NULL ELSE @]
          /\ LET filled == Fill(data, tail, fs, copied)
             IN data' = [f \in Frag |-> IF front(f)
                                        THEN SubSeq(data[f], part + 1, Len(data[f]))
                                        ELSE filled[f]]
          /\ bin' = bin \ Placed(fs)
          /\ num_recycled' = num_recycled - Cardinality(bin \cap Placed(fs))
          /\ kind' = With(kind, Placed(fs), NATIVE)
          /\ start' = [f \in Frag |-> IF f \in Placed(fs) THEN 0
                                      ELSE IF front(f) THEN start[f] + part ELSE start[f]]
     /\ size' = [size EXCEPT ![dst] = @ + off[k] + part, ![src] = @ - (off[k] + part)]
     /\ ph' = Disturb(src, k, off[k] + part)
     /\ io' = Call("move", src, dst, n, <<>>)
     /\ UNCHANGED <<live, lent, flush>>

-----------------------------------------------------------------------------
(* Placeholders: room reserved now and filled in later.                    *)

NoHoles == \A f \in Frag : \A i \in 1 .. Len(data[f]) : data[f][i] # Hole

(* Broken variant: the offset is taken from the length of the valid data.  *)
append_placeholder_ForgetsStart(b, n) ==
  /\ Ready(b) /\ n > 0 /\ NoHoles
  /\ Store(b, [i \in 1 .. n |-> Hole])
  /\ ph' = [frag  |-> IF last[b] = NULL THEN Head(chain'[b]) ELSE last[b],
            off   |-> IF last[b] = NULL THEN 0 ELSE Len(data[last[b]]),
            len   |-> n,
            fresh |-> TRUE]
  /\ io' = Call("put", b, NULL, 0, [i \in 1 .. n |-> Hole])
  /\ UNCHANGED <<live, lent, flush>>

(* bulp_buffer_append_placeholder.  BOUND: one placeholder at a time.      *)
append_placeholder(b, n) ==
  /\ Ready(b) /\ n > 0 /\ NoHoles
  /\ Store(b, [i \in 1 .. n |-> Hole])
  /\ ph' = [frag  |-> IF last[b] = NULL THEN Head(chain'[b]) ELSE last[b],
            off   |-> IF last[b] = NULL THEN 0 ELSE End(last[b]),
            len   |-> n,
            fresh |-> TRUE]
  /\ io' = Call("put", b, NULL, 0, [i \in 1 .. n |-> Hole])
  /\ UNCHANGED <<live, lent, flush>>

(* bulp_buffer_placeholder_set writes from index `off' of the recorded     *)
(* fragment to its end, then from index 0 of its successors.  (The caller  *)
(* does so while the recorded fragment and the reserved bytes are still in *)
(* their list, where index 0 of a successor is the start of its data.)     *)
placeholder_set(s) ==
  /\ flush = NULL /\ ph # NULL /\ ph.fresh /\ Len(s) = ph.len
  /\ \E b \in Buffers :
       LET c == chain[b]
           at(f, j) == Offsets(c, data)[IndexIn(c, f) - 1] + j - Ahead(b)
       IN /\ live[b] /\ ph.frag \in Placed(c)
          /\ data' = [f \in Frag |->
               IF f \in Placed(c)
               THEN [j \in 1 .. Len(data[f]) |->
                       IF at(f, j) \in 1 .. ph.len THEN s[at(f, j)] ELSE data[f][j]]
               ELSE data[f]]
  /\ ph' = NULL
  /\ io' = Call("supply", NULL, NULL, 0, s)
  /\ UNCHANGED <<listVars, kind, start, binVars, lent, flush>>

-----------------------------------------------------------------------------
(* Throwing away.                                                          *)

LetGo(b) ==
  LET gone == Placed(chain[b])
  IN /\ recycle(gone)
     /\ start' = With(start, gone, 0)
     /\ data' = With(data, gone, <<>>)
     /\ ph' = Disturb(b, Len(chain[b]), size[b])
     /\ io' = Call("empty", b, NULL, 0, <<>>)
     /\ UNCHANGED flush

(* bulp_buffer_clear recycles the fragments and leaves the fields of the   *)
(* buffer as they were: size, and pointers to what is now recycled.        *)
clear(b) ==
  /\ Ready(b)
  /\ LetGo(b)
  /\ live' = [live EXCEPT ![b] = FALSE]
  /\ UNCHANGED <<chain, last, size>>

reset(b) ==
  /\ Ready(b)
  /\ LetGo(b)
  /\ chain' = [chain EXCEPT ![b] = <<>>]
  /\ last' = [last EXCEPT ![b] = NULL]
  /\ size' = [size EXCEPT ![b] = 0]
  /\ UNCHANGED live

init(b) ==
  /\ ~live[b] /\ flush = NULL
  /\ live' = [live EXCEPT ![b] = TRUE]
  /\ chain' = [chain EXCEPT ![b] = <<>>]
  /\ last' = [last EXCEPT ![b] = NULL]
  /\ size' = [size EXCEPT ![b] = 0]
  /\ io' = NoCall
  /\ UNCHANGED <<fragVars, binVars, lent, ph, flush>>

cleanup_recycling_bin ==
  /\ flush = NULL
  /\ kind' = With(kind, bin, FREE)
  /\ bin' = {} /\ num_recycled' = 0
  /\ io' = NoCall
  /\ UNCHANGED <<listVars, start, data, lent, ph, flush>>

-----------------------------------------------------------------------------
Init ==
  /\ live = [b \in Buffers |-> TRUE]
  /\ chain = [b \in Buffers |-> <<>>]
  /\ last = [b \in Buffers |-> NULL]
  /\ size = [b \in Buffers |-> 0]
  /\ kind = [f \in Frag |-> FREE]
  /\ start = [f \in Frag |-> 0]
  /\ data = [f \in Frag |-> <<>>]
  /\ bin = {} /\ num_recycled = 0
  /\ lent = {} /\ ph = NULL /\ flush = NULL
  /\ io = NoCall

Adding(b) ==
  \/ \E s \in Data : append(b, s)
  \/ \E s \in Data : append_string0(b, s)
  \/ \E n \in 0 .. MaxSize : append_repeated_byte(b, n, NUL)
  \/ \E s \in Data : append_small(b, s)
  \/ readv(b)
  \/ \E o \in Foreign, s \in Data : append_foreign(b, o, s)
  \/ \E s \in Data : vprintf(b, s)
  \/ \E n \in 1 .. MaxSize : append_placeholder(b, n)

Taking(b) ==
  \/ \E n \in 0 .. MaxSize : read(b, n)
  \/ \E n \in 0 .. MaxSize : discard(b, n)
  \/ \E x \in {LF, NUL} : read_until(b, x)
  \/ empty_to_string(b)
  \/ \E w \in 1 .. MaxSize : writev(b, w)
  \/ \E m, w \in 1 .. MaxSize : writev_len(b, m, w)

Flushing(b) ==
  \/ write_all_to_fd(b)
  \/ \E w \in 1 .. MaxSize : write_all_step(b, w)
  \/ write_all_fails(b)

Discarding(b) == clear(b) \/ reset(b) \/ init(b)

Moving(dst, src) ==
  \/ drain(dst, src)
  \/ \E n \in 0 .. MaxSize : transfer(dst, src, n)

Next ==
  \/ \E b \in Buffers : Adding(b) \/ Taking(b) \/ Flushing(b) \/ Discarding(b)
  \/ \E dst, src \in Buffers : Moving(dst, src)
  \/ \E s \in Data : placeholder_set(s)
  \/ cleanup_recycling_bin

Spec == Init /\ [][Next]_vars

-----------------------------------------------------------------------------
(* Properties.                                                             *)

Placeholder == [frag : Frag, off : Nat, len : Nat, fresh : BOOLEAN]

(* The values the fields of buffers, fragments and of the bin can have.    *)
TypeOK ==
  /\ live \in [Buffers -> BOOLEAN]
  /\ chain \in [Buffers -> Seq(Frag)]
  /\ last \in [Buffers -> Frag \cup {NULL}]
  /\ size \in [Buffers -> Nat]
  /\ kind \in [Frag -> {FREE, NATIVE} \cup Foreign]
  /\ start \in [Frag -> Nat]
  /\ data \in [Frag -> Seq(Byte)]
  /\ bin \in SUBSET Frag
  /\ num_recycled \in Nat
  /\ lent \in SUBSET Foreign
  /\ ph \in Placeholder \cup {NULL}
  /\ flush \in Buffers \cup {NULL}

LiveBuffers == {b \in Buffers : live[b]}

(* verify_buffer (CHECK_INTEGRITY in debug builds): the size field is the  *)
(* sum of the fragments' lengths and no fragment in a list is empty.       *)
Integrity ==
  \A b \in LiveBuffers :
    /\ size[b] = Offsets(chain[b], data)[Len(chain[b])]
    /\ \A f \in Placed(chain[b]) : data[f] # <<>>

(* A list has no cycle, no two lists share a fragment, and none reaches a  *)
(* fragment that is free or in the recycling bin, whatever the order in    *)
(* which fragments were spliced, copied, recycled and taken again.         *)
Ownership ==
  /\ \A b \in LiveBuffers : \A i, j \in 1 .. Len(chain[b]) :
       chain[b][i] = chain[b][j] => i = j
  /\ \A b, d \in LiveBuffers : b # d => Placed(chain[b]) \cap Placed(chain[d]) = {}
  /\ \A b \in LiveBuffers : \A f \in Placed(chain[b]) : f \notin bin /\ kind[f] # FREE
  /\ \A f \in bin : kind[f] = NATIVE

(* Nothing leaks: a fragment that is allocated can be reached from a       *)
(* buffer in use or from the recycling bin.                                *)
NoLeak ==
  \A f \in Frag : kind[f] # FREE =>
    f \in bin \/ \E b \in LiveBuffers : f \in Placed(chain[b])

(* last_frag is where the list ends, in particular after its last fragment *)
(* has gone to another buffer or to the bin: bulp_buffer_append links and  *)
(* writes through it without looking.                                      *)
LastFragIsTail ==
  \A b \in LiveBuffers :
    last[b] = IF chain[b] = <<>> THEN NULL ELSE chain[b][Len(chain[b])]

(* num_recycled counts the stack it stands for and never passes its limit, *)
(* though one call may recycle many fragments.                             *)
RecyclingBounded ==
  num_recycled = Cardinality(bin) /\ num_recycled <= MAX_RECYCLED

(* The destroy callback of a lent object has run exactly when no buffer    *)
(* can reach the object any more; until then one fragment stands for it.   *)
LentIsReachable ==
  \A o \in Foreign :
    /\ o \in lent => \E f \in Frag : kind[f] = o
    /\ \A f \in Frag : kind[f] = o =>
         /\ o \in lent
         /\ \A g \in Frag : kind[g] = o => g = f
         /\ \E b \in LiveBuffers : f \in Placed(chain[b])

(* The valid data of a native fragment lies inside its allocation, however *)
(* it was advanced, filled and spliced.                                    *)
InsideAllocation ==
  \A f \in Frag : kind[f] = NATIVE => End(f) <= Cap

(* Until the recorded fragment or a reserved byte is taken from the list   *)
(* that holds a placeholder, the walk of bulp_buffer_placeholder_set meets *)
(* the reserved bytes and no other, whatever was appended, spliced, copied *)
(* and taken ahead of it in the meantime.                                  *)
PlaceholderFindsItsBytes ==
  ph # NULL /\ ph.fresh =>
    \E b \in LiveBuffers :
      /\ ph.frag \in Placed(chain[b])
      /\ LET i == IndexIn(chain[b], ph.frag)
             rest == Contents(SubSeq(chain[b], i, Len(chain[b])), data)
             skip == ph.off - start[ph.frag]
         IN /\ skip >= 0
            /\ \A j \in 1 .. Len(rest) :
                 rest[j] = Hole <=> j - skip \in 1 .. ph.len
            /\ \A j \in i + 1 .. Len(chain[b]) :
                 Hole \in Placed(data[chain[b][j]]) => start[chain[b][j]] = 0

(* bulp-buffer.h calls a placeholder "data that will be filled in later":  *)
(* as long as its reserved bytes all wait in a buffer, the fragment it     *)
(* recorded is still in a buffer, so that it can be filled in.             *)
PlaceholderStaysUsable ==
  ph # NULL /\ (\E b \in LiveBuffers :
                  Cardinality({i \in 1 .. Len(Bytes(b)) : Bytes(b)[i] = Hole}) = ph.len)
    => \E b \in LiveBuffers : ph.frag \in Placed(chain[b])

(* printf(3) semantics: the formatted text itself enters the buffer.       *)
PrintfExact ==
  [][\A b \in Buffers :
       io'.op = "format" /\ io'.buf = b => Bytes(b)' = Bytes(b) \o io'.bytes]_vars

(* The buffers are FIFO queues of bytes: module ByteQueues.                *)
Queues == INSTANCE ByteQueues
  WITH queue <- [b \in Buffers |-> IF live[b] THEN Bytes(b) ELSE <<>>]

ImplementsByteQueues == Queues!Spec

(* write_all_to_fd ends, if the file descriptor goes on accepting bytes.   *)
FairSpec ==
  /\ Spec
  /\ \A b \in Buffers : WF_vars(\E w \in 1 .. MaxSize : write_all_step(b, w))

FlushEnds == \A b \in Buffers : flush = b ~> flush = NULL

(* The states, without the record of the last call, which no action reads, *)
(* without the fields clear leaves behind, which nothing reads before init *)
(* sets them, and without a placeholder nobody may fill in any more.       *)
StateView ==
  LET inUse(field, v) == [b \in Buffers |-> IF live[b] THEN field[b] ELSE v]
  IN <<live, inUse(chain, <<>>), inUse(last, NULL), inUse(size, 0), fragVars, binVars, lent,
       IF ph # NULL /\ ph.fresh THEN ph ELSE NULL, flush>>
=============================================================================
