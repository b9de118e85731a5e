-------------------------- MODULE IndexReaderProofs -------------------------
(***************************************************************************)
(* What a caller of the reader may rely on, for every index, every place   *)
(* where one of its files breaks off or is spoilt, every way in which the  *)
(* kernel answers, and every size of a slab:                               *)
(*   - no pointer that it was given dangles while it may use it, though    *)
(*     the slab is used again for the next blob and may move when it grows *)
(*     (PointersStayGood);                                                 *)
(*   - the records come whole and in the order in which they were written  *)
(*     (RecordsComeInOrder);                                               *)
(*   - the end that it is told is the end of the index (EndIsRight).       *)
(* The last two hold until the reader comes to what is spoilt.  The code   *)
(* does not find out about all of that: ReadAsWritten says how far they    *)
(* go.  They follow from where the reader stands in five places at         *)
(* once, its two files, heap_offset, its slab and its caller: OrderInv.    *)
(***************************************************************************)
EXTENDS IndexReader, SequenceFacts

Fields == {"heap_offset", "compressed_blob_slab", "uncompressed_slab",
           "uncompressed_data_at", "latest_length"}

(* The reader's place is kept in the slab as it is, but for a reader that  *)
(* has told an error: then the blob may have been given a new slab, and    *)
(* the place is that of the last one.                                      *)
PlaceIsFresh ==
  told.result # "ERROR" =>
    ireader.uncompressed_data_at.data = ireader.uncompressed_slab.data

(* While a call goes on the caller has nothing in hand.                    *)
CallerWaits == call # NULL => told.result = "running"

IInv ==
  /\ DOMAIN ireader = Fields
  /\ "off" \in DOMAIN ireader.uncompressed_data_at
  /\ "data" \in DOMAIN ireader.uncompressed_data_at
  /\ PlaceIsFresh
  /\ CallerWaits
  /\ NothingDangles

-----------------------------------------------------------------------------
(* A record that is told is told in the slab that the reader then has, and *)
(* the reader's place is behind it; or there was none to tell.             *)
InTheSlab(r) ==
  /\ DOMAIN ireader' = Fields
  /\ "off" \in DOMAIN ireader'.uncompressed_data_at
  /\ "data" \in DOMAIN ireader'.uncompressed_data_at
  /\ ireader'.uncompressed_slab = r.uncompressed_slab
  /\ ireader'.uncompressed_data_at.data = r.uncompressed_slab.data
  /\ told'.data.data = r.uncompressed_slab.data

LEMMA ToldIsFresh ==
  ASSUME NEW r, DOMAIN r = Fields, TellRecord(r)
  PROVE  \/ ireader' = r /\ told' = [result |-> "ERROR"]
         \/ InTheSlab(r)
<1>1. CASE \E off, length, behind : ToldBehind(r, off, length, behind)
  <2>1. PICK off, length, behind : ToldBehind(r, off, length, behind)
    BY <1>1
  <2> DEFINE slab == r.uncompressed_slab
             place == Pointer(slab, behind)
             data == Pointer(slab, off)
  <2>2. /\ ireader' = [r EXCEPT !.latest_length = length, !.uncompressed_data_at = place]
        /\ told' = [result |-> "OK", data |-> data, length |-> length]
    BY <2>1 DEF ToldBehind, Deliver
  <2>3. /\ place = [data |-> slab.data, off |-> behind]
        /\ data = [data |-> slab.data, off |-> off]
    BY DEF Pointer
  <2> HIDE DEF place, data
  <2>4. /\ DOMAIN ireader' = Fields
        /\ ireader'.uncompressed_slab = slab
        /\ ireader'.uncompressed_data_at = place
    BY <2>2 DEF Fields
  <2> QED  BY <2>2, <2>3, <2>4 DEF InTheSlab
<1>2. CASE ireader' = r /\ Return("ERROR")
  BY <1>2 DEF Return
<1>3. \/ ireader' = r /\ Return("ERROR")
      \/ \E off, length, behind : ToldBehind(r, off, length, behind)
  BY DEF TellRecord
<1> QED  BY <1>1, <1>2, <1>3

-----------------------------------------------------------------------------
(* peek, and advance behind its first assignment.                          *)
LEMMA PeekKeeps ==
  ASSUME IInv, NEW latest_length, call = NULL, told.result # "ERROR", peek(latest_length)
  PROVE  IInv'
<1>1. ireader.uncompressed_data_at.data = ireader.uncompressed_slab.data
  BY DEF IInv, PlaceIsFresh
<1>2. CASE latest_length > 0
  <2> DEFINE at == [ireader.uncompressed_data_at EXCEPT !.off = @ - latest_length]
  <2>1. /\ told' = [result |-> "OK", data |-> at, length |-> latest_length]
        /\ UNCHANGED <<fileVars, ireader>>
    BY <1>2 DEF peek, Deliver
  <2>2. at.data = ireader.uncompressed_data_at.data
    BY DEF IInv
  <2> HIDE DEF at
  <2> QED  BY <1>1, <2>1, <2>2 DEF IInv, PlaceIsFresh, CallerWaits, NothingDangles, fileVars
<1>3. CASE ~(latest_length > 0) /\ at_end
  <2>1. /\ told' = [result |-> "running"]
        /\ ireader' = [ireader EXCEPT !.latest_length = latest_length]
    BY <1>3 DEF peek, Return
  <2>2. /\ DOMAIN ireader' = Fields
        /\ ireader'.uncompressed_slab = ireader.uncompressed_slab
        /\ ireader'.uncompressed_data_at = ireader.uncompressed_data_at
    BY <2>1 DEF IInv, Fields
  <2> QED  BY <1>1, <2>1, <2>2 DEF IInv, PlaceIsFresh, CallerWaits, NothingDangles
<1>4. CASE ~(latest_length > 0) /\ ~at_end
  <2>1. TellRecord(ireader) /\ UNCHANGED fileVars
    BY <1>4 DEF peek
  <2>2. call' = NULL
    BY <2>1 DEF fileVars
  <2>3. DOMAIN ireader = Fields
    BY DEF IInv
  <2>4. \/ ireader' = ireader /\ told' = [result |-> "ERROR"]
        \/ InTheSlab(ireader)
    BY <2>1, <2>3, ToldIsFresh
  <2> QED  BY <2>2, <2>4 DEF InTheSlab, IInv, PlaceIsFresh, CallerWaits, NothingDangles
<1> QED  BY <1>2, <1>3, <1>4

(* The entry of the next blob.                                             *)
LEMMA EntryKeeps == IInv /\ GotEntry => IInv'
<1> SUFFICES ASSUME IInv, GotEntry PROVE IInv'
  OBVIOUS
<1> DEFINE ie == call.got[1][1]
<1>1. call # NULL
  BY DEF GotEntry, Ended
<1>2. told.result = "running"
  BY <1>1 DEF IInv, CallerWaits
<1>3. CASE ireader.heap_offset # ie.compressed_blob_offset
  <2>1. told' = [result |-> "abort"] /\ call' = NULL /\ UNCHANGED ireader
    BY <1>3 DEF GotEntry, Return
  <2> QED  BY <1>2, <2>1 DEF IInv, PlaceIsFresh, CallerWaits, NothingDangles
<1>4. CASE ~(ireader.heap_offset # ie.compressed_blob_offset)
  <2>1. /\ ireader' = [ireader EXCEPT
             !.heap_offset = @ + ie.compressed_blob_length,
             !.compressed_blob_slab = set_size(@, ie.compressed_blob_length)]
        /\ UNCHANGED told
    BY <1>4 DEF GotEntry
  <2>2. /\ DOMAIN ireader' = Fields
        /\ ireader'.uncompressed_slab = ireader.uncompressed_slab
        /\ ireader'.uncompressed_data_at = ireader.uncompressed_data_at
    BY <2>1 DEF IInv, Fields
  <2> QED  BY <1>2, <2>1, <2>2 DEF IInv, PlaceIsFresh, CallerWaits, NothingDangles
<1> QED  BY <1>3, <1>4

(* The blob: it may have moved the slab, but nobody has a pointer into it. *)
LEMMA BlobKeeps == IInv /\ GotBlob => IInv'
<1> SUFFICES ASSUME IInv, GotBlob PROVE IInv'
  OBVIOUS
<1> DEFINE comp == Copied(ireader.compressed_blob_slab, 0, call.got)
           outs == bulp_decompress(wrote.algo, Behind(comp, 0, comp.length), ireader.uncompressed_slab)
           got == [ireader EXCEPT !.compressed_blob_slab = comp]
           r(slab) == [got EXCEPT !.uncompressed_slab = slab, !.uncompressed_data_at = Pointer(slab, 0)]
<1>1. /\ call' = NULL
      /\ \E out \in outs : IF out.ok THEN TellRecord(r(out.slab))
                          ELSE ireader' = [got EXCEPT !.uncompressed_slab = out.slab]
                               /\ told' = [result |-> "ERROR"]
  BY DEF GotBlob, Return
<1> HIDE DEF comp, outs
<1>2. PICK slab : \/ TellRecord(r(slab))
                  \/ ireader' = [got EXCEPT !.uncompressed_slab = slab] /\ told' = [result |-> "ERROR"]
  BY <1>1
<1>3. /\ DOMAIN ireader = Fields /\ DOMAIN got = Fields
      /\ got.uncompressed_data_at = ireader.uncompressed_data_at
  BY DEF IInv, Fields
<1> HIDE DEF got
<1>4. /\ DOMAIN r(slab) = Fields
      /\ r(slab).uncompressed_slab = slab
      /\ r(slab).uncompressed_data_at = [data |-> slab.data, off |-> 0]
  BY <1>3 DEF Fields, Pointer
<1>5. CASE TellRecord(r(slab))
  <2> HIDE DEF r
  <2>1. \/ ireader' = r(slab) /\ told' = [result |-> "ERROR"]
        \/ InTheSlab(r(slab))
    BY <1>4, <1>5, ToldIsFresh
  <2> QED  BY <1>1, <1>4, <2>1 DEF InTheSlab, IInv, PlaceIsFresh, CallerWaits, NothingDangles
<1>6. CASE ireader' = [got EXCEPT !.uncompressed_slab = slab] /\ told' = [result |-> "ERROR"]
  <2>1. /\ DOMAIN ireader' = Fields
        /\ ireader'.uncompressed_data_at = ireader.uncompressed_data_at
    BY <1>3, <1>6 DEF Fields
  <2> QED  BY <1>1, <1>6, <2>1 DEF IInv, PlaceIsFresh, CallerWaits, NothingDangles
<1> QED  BY <1>2, <1>5, <1>6

(* The kernel changes the call under way and never ends or begins one.     *)
LEMMA KernelKeeps == IInv /\ KernelStep => IInv'
<1> SUFFICES ASSUME IInv, KernelStep PROVE IInv'
  OBVIOUS
<1>1. call # NULL /\ UNCHANGED <<ireader, told>>
  BY DEF KernelStep, readerVars, Kernel, Answer, ReadSome, ReadNothing, ReadClosed,
         ReadFails, Running
<1> QED  BY <1>1 DEF IInv, PlaceIsFresh, CallerWaits, NothingDangles

-----------------------------------------------------------------------------
LEMMA InitHolds == Init => IInv
<1> SUFFICES ASSUME Init PROVE IInv
  OBVIOUS
<1>1. /\ ireader = [heap_offset |-> 0, compressed_blob_slab |-> SlabInit,
                    uncompressed_slab |-> SlabInit,
                    uncompressed_data_at |-> [data |-> SlabInit.data, off |-> 0],
                    latest_length |-> 0]
      /\ call = NULL /\ told = [result |-> "nothing"]
  BY DEF Init, Pointer
<1>2. /\ DOMAIN ireader = Fields
      /\ ireader.uncompressed_slab = SlabInit
      /\ ireader.uncompressed_data_at = [data |-> SlabInit.data, off |-> 0]
  BY <1>1 DEF Fields
<1> QED  BY <1>1, <1>2 DEF IInv, PlaceIsFresh, CallerWaits, NothingDangles

LEMMA StepKeeps == IInv /\ [Next]_vars => IInv'
<1> SUFFICES ASSUME IInv, [Next]_vars PROVE IInv'
  OBVIOUS
<1>1. CASE Peek
  <2>1. call = NULL /\ told.result # "ERROR" /\ peek(ireader.latest_length)
    BY <1>1 DEF Peek, MayCall
  <2> QED  BY <2>1, PeekKeeps
<1>2. CASE Advance
  <2>1. call = NULL /\ told.result # "ERROR" /\ peek(0)
    BY <1>2 DEF Advance, MayCall
  <2> QED  BY <2>1, PeekKeeps
<1>3. CASE Close
  <2>1. UNCHANGED <<call, ireader, told>>
    BY <1>3 DEF Close
  <2> QED  BY <2>1 DEF IInv, PlaceIsFresh, CallerWaits, NothingDangles
<1>4. CASE KernelStep
  BY <1>4, KernelKeeps
<1>5. CASE GotEntry
  BY <1>5, EntryKeeps
<1>6. CASE GotBlob
  BY <1>6, BlobKeeps
<1>7. CASE GotNothing
  <2>1. call # NULL /\ call' = NULL /\ UNCHANGED ireader
    BY <1>7 DEF GotNothing, Ended
  <2>2. told.result = "running"
    BY <2>1 DEF IInv, CallerWaits
  <2>3. told'.result # "OK"
    <3>1. told' = [result |-> IF call.fd = "index" THEN call.result ELSE "ERROR"]
      BY <1>7 DEF GotNothing, Return
    <3>2. call.result \in {"EOF", "ERROR"}
      BY <1>7 DEF GotNothing, Ended
    <3> QED  BY <3>1, <3>2
  <2> QED  BY <2>1, <2>2, <2>3 DEF IInv, PlaceIsFresh, CallerWaits, NothingDangles
<1>8. CASE UNCHANGED vars
  BY <1>8 DEF vars, fileVars, IInv, PlaceIsFresh, CallerWaits, NothingDangles
<1> QED
  BY <1>1, <1>2, <1>3, <1>4, <1>5, <1>6, <1>7, <1>8 DEF Next, ReaderGoesOn

(* bulp_readonly_index_reader_peek and _advance give pointers into         *)
(* uncompressed_slab, which the next blob overwrites and may move: the     *)
(* pointer a caller has in hand is always one into the slab as it is.      *)
THEOREM PointersStayGood == Spec => []NothingDangles
<1>1. IInv => NothingDangles
  BY DEF IInv
<1> QED  BY <1>1, InitHolds, StepKeeps, PTL DEF Spec

-----------------------------------------------------------------------------
(* What the reader has in its hands, and what it has yet to read.          *)

Slabs == {s \in [length : Nat, alloced : Nat, data : Nat, bytes : Seq(Cell)] :
            Len(s.bytes) = s.alloced /\ s.length <= s.alloced}

(* The bytes of each record of a blob, and each blob as the heap has it.   *)
Spelled(blob) == [k \in 1 .. Len(blob) |-> RecordBytes(blob[k])]
Compressed(algo, s) ==
  IF algo = NONE THEN s ELSE IF algo = ZLIB THEN <<Len(s)>> \o Squeezed(ZLIB, s)
  ELSE Squeezed(SNAPPY, s)
Packed(algo, blobs) == [i \in 1 .. Len(blobs) |-> Compressed(algo, BlobBytes(blobs[i]))]
EntriesFor(packed) ==
  [i \in 1 .. Len(packed) |-> [compressed_blob_offset |-> Len(JoinedUpto(packed, i - 1)),
                               compressed_blob_length |-> Len(packed[i])]]

Blobs == wrote.blobs
InHeap == Packed(wrote.algo, wrote.blobs)
Blob(k) == IF k = 0 THEN <<>> ELSE Blobs[k]

WroteInv ==
  /\ wrote.algo \in {NONE, ZLIB, SNAPPY} /\ wrote.blobs \in Contents
  /\ wrote.heap = FlattenSeq(InHeap) /\ wrote.entries = EntriesFor(InHeap)

(* What the files are made of, whatever has become of them.                *)
EntryCell == Entry \X Nat
FilesInv ==
  /\ file \in [Files -> [bytes : Seq(FileCell), pos : Nat, open : BOOLEAN]]
  /\ file["heap"].bytes \in Seq(Cell) /\ file["index"].bytes \in Seq(EntryCell)
  /\ \A f \in Files : file[f].pos <= Len(file[f].bytes)

(* The call under way asks for a number of bytes, and has what the file    *)
(* is made of.                                                             *)
CallTyped ==
  call # NULL =>
    /\ call \in Calls
    /\ call.fd = "index" => call.len = EntrySize /\ call.got \in Seq(EntryCell)
    /\ call.result = "OK" => Len(call.got) = call.len

(* The slab has the k-th blob, and the reader has come to behind its j-th  *)
(* record; the files stand behind what has been read.                      *)
Placed(k, j) ==
  /\ k \in 0 .. Len(Blobs) /\ j \in 0 .. Len(Blob(k))
  /\ ireader.uncompressed_data_at =
       Pointer(ireader.uncompressed_slab, Len(JoinedUpto(Spelled(Blob(k)), j)))
  /\ Behind(ireader.uncompressed_slab, 0, ireader.uncompressed_slab.length) = BlobBytes(Blob(k))
  /\ ireader.uncompressed_slab.length = Len(BlobBytes(Blob(k)))
Stands(k) ==
  /\ file["index"].pos = k * EntrySize
  /\ file["heap"].pos = Len(JoinedUpto(InHeap, k)) /\ ireader.heap_offset = Len(JoinedUpto(InHeap, k))

(* The caller has the j-th record of the k-th blob in hand.                *)
InHand(k, j) ==
  /\ call = NULL /\ k > 0 /\ j > 0 /\ Placed(k, j) /\ Stands(k)
  /\ ireader.latest_length = Len(Blobs[k][j].key) + Len(Blobs[k][j].value)
  /\ told = [result |-> "OK",
             data |-> [ireader.uncompressed_data_at EXCEPT !.off = @ - ireader.latest_length],
             length |-> ireader.latest_length]
  /\ passed = Len(JoinedUpto(Blobs, k - 1)) + (j - 1)

(* The records of k blobs have been passed and the caller has nothing.     *)
Empty(k) ==
  /\ Placed(k, Len(Blob(k))) /\ ireader.latest_length = 0 /\ passed = Len(JoinedUpto(Blobs, k))
Waiting(k) ==
  /\ call = NULL /\ Empty(k) /\ Stands(k)
  /\ told \in {[result |-> "nothing"], [result |-> "EOF"]}
  /\ told.result = "EOF" => Len(file["index"].bytes) = k * EntrySize

(* A call of bulp_util_readn that has read what lies between start and the *)
(* descriptor's place.                                                     *)
Reads(f, start, len) ==
  /\ call \in [fd : {f}, len : {len}, got : Seq(FileCell),
               result : Results]
  /\ Len(call.got) <= len /\ file[f].pos = start + Len(call.got)
  /\ \A i \in 1 .. Len(call.got) : call.got[i] = file[f].bytes[start + i]
  /\ call.result = "OK" => Len(call.got) = len
  /\ call.result = "EOF" => Len(call.got) = 0 /\ Len(file[f].bytes) = start

(* The entry behind the k-th is read, then its blob.                       *)
ReadingEntry(k) ==
  /\ call # NULL /\ told = [result |-> "running"] /\ Empty(k)
  /\ Reads("index", k * EntrySize, EntrySize)
  /\ file["heap"].pos = Len(JoinedUpto(InHeap, k)) /\ ireader.heap_offset = Len(JoinedUpto(InHeap, k))
ReadingBlob(k) ==
  /\ call # NULL /\ told = [result |-> "running"] /\ Empty(k)
  /\ k + 1 \in 1 .. Len(Blobs)
  /\ Reads("heap", Len(JoinedUpto(InHeap, k)), Len(InHeap[k + 1]))
  /\ file["index"].pos = (k + 1) * EntrySize
  /\ ireader.heap_offset = Len(JoinedUpto(InHeap, k + 1))
  /\ ireader.compressed_blob_slab.length = Len(InHeap[k + 1])

Failed == call = NULL /\ told = [result |-> "ERROR"]

Readers == [heap_offset : Nat, compressed_blob_slab : Slabs, uncompressed_slab : Slabs,
            uncompressed_data_at : [data : Nat, off : Nat], latest_length : Nat]
ReaderTyped == ireader \in Readers

OrderInv ==
  /\ WroteInv /\ FilesInv
  /\ \/ Failed
     \/ /\ ReaderTyped
        /\ \E k \in 0 .. Len(Blobs) :
             \/ \E j \in 0 .. Len(Blob(k)) : InHand(k, j)
             \/ Waiting(k) \/ ReadingEntry(k) \/ ReadingBlob(k)

-----------------------------------------------------------------------------
(* Slabs.                                                                  *)

(* The loop of bulp_slab_set_size ends with enough.                        *)
LEMMA DoubledIsEnough ==
  ASSUME NEW alloced \in Nat, NEW size \in Nat
  PROVE  Doubled(alloced, size) \in Nat /\ Doubled(alloced, size) >= size
<1> DEFINE X == Nat \ {0}
           b == IF alloced = 0 THEN SLAB_MIN ELSE 2 * alloced
           F == [i \in 1 .. size |-> [x \in X |-> IF x < size THEN 2 * x ELSE x]]
           Step(f) == [k \in 0 .. size |->
                         IF k = 0 THEN b
                         ELSE IF f[k - 1] < size THEN 2 * f[k - 1] ELSE f[k - 1]]
           f == CHOOSE f : f = Step(f)
<1>1. b \in X /\ F \in [1 .. size -> [X -> X]]
  BY SlabAssumption
<1>2. PICK g \in [0 .. size -> X] : g[0] = b /\ \A i \in 1 .. size : g[i] = F[i][g[i - 1]]
  <2> HIDE DEF X, F, b
  <2> QED BY <1>1, Iterated
<1>3. \A i \in 1 .. size : g[i] = IF g[i - 1] < size THEN 2 * g[i - 1] ELSE g[i - 1]
  <2> SUFFICES ASSUME NEW i \in 1 .. size
               PROVE  g[i] = IF g[i - 1] < size THEN 2 * g[i - 1] ELSE g[i - 1]
    OBVIOUS
  <2>1. i - 1 \in 0 .. size
    OBVIOUS
  <2>2. g[i - 1] \in X
    BY <2>1
  <2> QED BY <1>2, <2>2
<1> HIDE DEF F, b
<1>4. g = Step(g)
  <2>1. \A k \in 0 .. size :
          g[k] = IF k = 0 THEN b ELSE IF g[k - 1] < size THEN 2 * g[k - 1] ELSE g[k - 1]
    <3> SUFFICES ASSUME NEW k \in 0 .. size
                 PROVE  g[k] = IF k = 0 THEN b
                               ELSE IF g[k - 1] < size THEN 2 * g[k - 1] ELSE g[k - 1]
      OBVIOUS
    <3>1. CASE k = 0
      BY <1>2, <3>1
    <3>2. CASE k # 0
      <4>1. k \in 1 .. size
        BY <3>2
      <4> QED BY <1>3, <3>2, <4>1
    <3> QED BY <3>1, <3>2
  <2> QED BY <2>1
<1>5. f = Step(f)
  <2> HIDE DEF Step
  <2> QED BY <1>4
<1>6. Doubled(alloced, size) = f[size]
  BY DEF Doubled, b
<1> HIDE DEF f
<1>7. f[0] = b /\ \A k \in 1 .. size : f[k] = IF f[k - 1] < size THEN 2 * f[k - 1] ELSE f[k - 1]
  <2>1. \A k \in 0 .. size : f[k] = Step(f)[k]
    BY <1>5
  <2>2. f[0] = b
    <3>1. 0 \in 0 .. size
      OBVIOUS
    <3> QED BY <2>1, <3>1
  <2>3. ASSUME NEW k \in 1 .. size
        PROVE  f[k] = IF f[k - 1] < size THEN 2 * f[k - 1] ELSE f[k - 1]
    <3>1. k \in 0 .. size /\ k # 0
      OBVIOUS
    <3> QED BY <2>1, <3>1
  <2> QED BY <2>2, <2>3
<1>8. \A k \in 0 .. size : f[k] \in X /\ (f[k] >= size \/ f[k] > k)
  <2> DEFINE T == {k \in 0 .. size : f[k] \in X /\ (f[k] >= size \/ f[k] > k)}
  <2>1. 0 \in T
    BY <1>1, <1>7
  <2>2. ASSUME NEW k \in 1 .. size, k - 1 \in T PROVE k \in T
    <3>1. f[k - 1] \in X /\ (f[k - 1] >= size \/ f[k - 1] > k - 1)
      BY <2>2
    <3>2. f[k] = IF f[k - 1] < size THEN 2 * f[k - 1] ELSE f[k - 1]
      BY <1>7
    <3>3. f[k] \in X /\ (f[k] >= size \/ f[k] > k)
      BY <3>1, <3>2
    <3> QED BY <3>3
  <2> HIDE DEF T
  <2>3. 0 .. size \subseteq T
    BY <2>1, <2>2, IndexInduction
  <2> QED BY <2>3 DEF T
<1>9. size \in 0 .. size
  OBVIOUS
<1> QED BY <1>6, <1>8, <1>9

LEMMA SlabFields ==
  ASSUME NEW slab \in Slabs
  PROVE  /\ slab.length \in Nat /\ slab.alloced \in Nat /\ slab.data \in Nat
         /\ slab.bytes \in Seq(Cell) /\ Len(slab.bytes) = slab.alloced
         /\ slab.length <= slab.alloced
         /\ slab = [length |-> slab.length, alloced |-> slab.alloced,
                    data |-> slab.data, bytes |-> slab.bytes]
BY DEF Slabs

LEMMA SlabInitIsSlab == SlabInit \in Slabs
<1>1. <<>> \in Seq(Cell) /\ Len(<<>>) = 0
  OBVIOUS
<1> QED BY <1>1 DEF SlabInit, Slabs

LEMMA SetSizeIsSlab ==
  ASSUME NEW slab \in Slabs, NEW size \in Nat
  PROVE  set_size(slab, size) \in Slabs /\ set_size(slab, size).length = size
<1> USE SlabFields
<1>1. CASE slab.alloced >= size
  <2>1. set_size(slab, size) = [slab EXCEPT !.length = size]
    BY <1>1 DEF set_size
  <2>2. [slab EXCEPT !.length = size] = [length |-> size, alloced |-> slab.alloced,
                                         data |-> slab.data, bytes |-> slab.bytes]
    OBVIOUS
  <2> QED BY <1>1, <2>1, <2>2 DEF Slabs
<1>2. CASE ~(slab.alloced >= size)
  <2> DEFINE n == Doubled(slab.alloced, size)
             fill == [i \in 1 .. n - slab.alloced |-> Garbage]
             z == slab.bytes \o fill
  <2>1. n \in Nat /\ n >= size /\ n - slab.alloced \in Nat
    BY <1>2, DoubledIsEnough
  <2> HIDE DEF n
  <2>2. fill \in Seq(Cell) /\ Len(fill) = n - slab.alloced
    <3>1. fill \in [1 .. n - slab.alloced -> Cell]
      BY DEF Cell
    <3> HIDE DEF fill
    <3> QED BY <2>1, <3>1, FunctionIsSeq
  <2>3. set_size(slab, size) = [length |-> size, alloced |-> n, data |-> slab.data + 1, bytes |-> z]
    BY <1>2 DEF set_size, n
  <2> HIDE DEF fill
  <2>4. z \in Seq(Cell) /\ Len(z) = Len(slab.bytes) + Len(fill)
    <3>1. slab.bytes \in Seq(Cell)
      BY SlabFields
    <3> QED BY ONLY <2>2, <3>1, ConcatProperties DEF z
  <2> HIDE DEF z
  <2>5. Len(z) = n
    BY <2>1, <2>2, <2>4, SlabFields
  <2> QED BY <2>1, <2>3, <2>4, <2>5 DEF Slabs
<1> QED BY <1>1, <1>2

(* What is copied to the beginning of a slab is there, and nothing else    *)
(* changes.                                                                *)
LEMMA CopiedIsThere ==
  ASSUME NEW slab \in Slabs, NEW s \in Seq(Cell), Len(s) <= slab.length
  PROVE  /\ Copied(slab, 0, s) \in Slabs /\ Copied(slab, 0, s).length = slab.length
         /\ Copied(slab, 0, s).data = slab.data
         /\ Behind(Copied(slab, 0, s), 0, Len(s)) = s
<1> DEFINE n == slab.alloced
           z == [i \in DOMAIN slab.bytes |->
                   IF i \in 0 + 1 .. 0 + Len(s) THEN s[i - 0] ELSE slab.bytes[i]]
           c == Copied(slab, 0, s)
<1>1. /\ n \in Nat /\ Len(s) \in Nat /\ slab.length \in Nat /\ slab.length <= n
      /\ DOMAIN slab.bytes = 1 .. n
      /\ \A i \in 1 .. n : slab.bytes[i] \in Cell
      /\ \A i \in 1 .. Len(s) : s[i] \in Cell
  <2>1. slab.bytes \in Seq(Cell) /\ Len(slab.bytes) = n
    BY SlabFields
  <2> QED BY <2>1, SlabFields, LenProperties, ElementOfSeq
<1>2. \A i \in 1 .. n : z[i] = IF i <= Len(s) THEN s[i] ELSE slab.bytes[i]
  BY <1>1
<1>3. z \in [1 .. n -> Cell]
  <2>1. ASSUME NEW i \in 1 .. n PROVE z[i] \in Cell
    <3>1. CASE i <= Len(s)
      <4>1. i \in 1 .. Len(s)
        BY <1>1, <3>1
      <4> HIDE DEF z
      <4> QED BY <1>1, <1>2, <3>1, <4>1
    <3>2. CASE ~(i <= Len(s))
      <4> HIDE DEF z
      <4> QED BY <1>1, <1>2, <3>2
    <3> QED BY <3>1, <3>2
  <2>2. z = [i \in 1 .. n |-> z[i]]
    BY <1>1
  <2> HIDE DEF z
  <2> QED BY <2>1, <2>2
<1>4. c = [length |-> slab.length, alloced |-> n, data |-> slab.data, bytes |-> z]
  <2>1. c = [slab EXCEPT !.bytes = z]
    BY SlabFields DEF Copied
  <2> HIDE DEF z, c
  <2> QED BY <2>1, SlabFields
<1> HIDE DEF z, c
<1>5. z \in Seq(Cell) /\ Len(z) = n
  BY <1>1, <1>3, FunctionIsSeq
<1>6. c \in Slabs /\ c.length = slab.length /\ c.data = slab.data /\ c.bytes = z
  BY <1>1, <1>4, <1>5, SlabFields DEF Slabs
<1>7. SubSeq(z, 1, Len(s)) = s
  <2> DEFINE y == SubSeq(z, 1, Len(s))
  <2>1. y \in Seq(Cell) /\ Len(y) = Len(s) /\ \A i \in 1 .. Len(s) : y[i] = z[i]
    <3>1. Len(s) \in 0 .. Len(z)
      BY <1>1, <1>5
    <3> QED BY <1>5, <3>1, CutSeq
  <2> HIDE DEF y
  <2>2. \A i \in 1 .. Len(s) : i \in 1 .. n /\ i <= Len(s)
    BY <1>1
  <2>3. \A i \in 1 .. Len(y) : y[i] = s[i]
    BY <1>2, <2>1, <2>2
  <2>4. y = s
    BY <2>1, <2>3, SeqEqual
  <2> QED BY <2>4 DEF y
<1>8. Behind(c, 0, Len(s)) = s
  <2>1. Behind(c, 0, Len(s)) = SubSeq(z, 0 + 1, 0 + Len(s)) /\ 0 + 1 = 1 /\ 0 + Len(s) = Len(s)
    BY <1>1, <1>6 DEF Behind
  <2> QED BY <1>7, <2>1
<1> QED BY <1>6, <1>8 DEF c

LEMMA SetDataIsThere ==
  ASSUME NEW slab \in Slabs, NEW s \in Seq(Cell)
  PROVE  /\ set_data(slab, s) \in Slabs /\ set_data(slab, s).length = Len(s)
         /\ Behind(set_data(slab, s), 0, Len(s)) = s
<1>1. Len(s) \in Nat
  BY LenProperties
<1>2. set_size(slab, Len(s)) \in Slabs /\ set_size(slab, Len(s)).length = Len(s)
  BY <1>1, SetSizeIsSlab
<1> QED BY <1>1, <1>2, CopiedIsThere DEF set_data

(* What is cut off a slab leaves what lies before.                         *)
LEMMA TruncateKeeps ==
  ASSUME NEW slab \in Slabs, NEW size \in Nat, size <= slab.length
  PROVE  /\ truncate(slab, size) \in Slabs /\ truncate(slab, size).length = size
         /\ Behind(truncate(slab, size), 0, size) = Behind(slab, 0, size)
<1>1. truncate(slab, size) = [length |-> size, alloced |-> slab.alloced,
                              data |-> slab.data, bytes |-> slab.bytes]
  BY SlabFields DEF truncate
<1> QED BY <1>1, SlabFields DEF Slabs, Behind

-----------------------------------------------------------------------------
(* Compression.                                                            *)

LEMMA RawAreCells ==
  ASSUME NEW s \in Seq(Raw)
  PROVE  s \in Seq(Cell)
<1>1. Raw \subseteq Cell
  BY DEF Cell
<1> QED BY <1>1, SeqMonotonic

LEMMA SqueezedIsTwo ==
  ASSUME NEW s \in Seq(Raw), NEW algo \in {ZLIB, SNAPPY}
  PROVE  /\ Squeezed(algo, s) \in Seq(Cell) /\ Len(Squeezed(algo, s)) = 2
         /\ Squeezed(algo, s)[1] = [by |-> algo, of |-> s, half |-> 1]
         /\ Squeezed(algo, s)[2] = [by |-> algo, of |-> s, half |-> 2]
<1> DEFINE x == [by |-> algo, of |-> s, half |-> 1]
           y == [by |-> algo, of |-> s, half |-> 2]
<1>1. x \in Cell /\ y \in Cell
  BY DEF Cell
<1>2. Squeezed(algo, s) = <<x, y>>
  BY DEF Squeezed
<1> HIDE DEF x, y
<1>3. <<x, y>> \in Seq(Cell) /\ Len(<<x, y>>) = 2 /\ <<x, y>>[1] = x /\ <<x, y>>[2] = y
  BY <1>1
<1> QED BY <1>2, <1>3 DEF x, y

(* The cells of a compressed blob.                                         *)
LEMMA CompressedCells ==
  ASSUME NEW s \in Seq(Raw), NEW algo \in {NONE, ZLIB, SNAPPY}
  PROVE  /\ Compressed(algo, s) \in Seq(Cell)
         /\ algo = NONE => Compressed(algo, s) = s
         /\ algo = ZLIB => /\ Compressed(algo, s) = <<Len(s)>> \o Squeezed(ZLIB, s)
                           /\ Len(Compressed(algo, s)) = 3
                           /\ Compressed(algo, s)[1] = Len(s)
                           /\ Compressed(algo, s)[2] = [by |-> ZLIB, of |-> s, half |-> 1]
                           /\ Compressed(algo, s)[3] = [by |-> ZLIB, of |-> s, half |-> 2]
         /\ algo = SNAPPY => /\ Compressed(algo, s) = Squeezed(SNAPPY, s)
                             /\ Len(Compressed(algo, s)) = 2
                             /\ Compressed(algo, s)[1] = [by |-> SNAPPY, of |-> s, half |-> 1]
                             /\ Compressed(algo, s)[2] = [by |-> SNAPPY, of |-> s, half |-> 2]
<1>1. CASE algo = NONE
  BY <1>1, RawAreCells, CompressionAssumption DEF Compressed
<1>2. CASE algo = SNAPPY
  BY <1>2, SqueezedIsTwo, CompressionAssumption DEF Compressed
<1>3. CASE algo = ZLIB
  <2> DEFINE h == <<Len(s)>>
             q == Squeezed(ZLIB, s)
  <2>1. Compressed(algo, s) = h \o q
    BY <1>3, CompressionAssumption DEF Compressed
  <2>2. h \in Seq(Cell) /\ Len(h) = 1 /\ h[1] = Len(s)
    <3>1. Len(s) \in Cell
      BY LenProperties DEF Cell, Raw
    <3> QED BY <3>1
  <2>3. /\ q \in Seq(Cell) /\ Len(q) = 2
        /\ q[1] = [by |-> ZLIB, of |-> s, half |-> 1]
        /\ q[2] = [by |-> ZLIB, of |-> s, half |-> 2]
    BY SqueezedIsTwo
  <2> HIDE DEF h, q
  <2>4. /\ h \o q \in Seq(Cell) /\ Len(h \o q) = 1 + 2
        /\ \A i \in 1 .. 1 + 2 : (h \o q)[i] = IF i <= 1 THEN h[i] ELSE q[i - 1]
    <3>1. /\ h \o q \in Seq(Cell) /\ Len(h \o q) = Len(h) + Len(q)
          /\ \A i \in 1 .. Len(h) + Len(q) :
               (h \o q)[i] = IF i <= Len(h) THEN h[i] ELSE q[i - Len(h)]
      <4>1. h \in Seq(Cell) /\ q \in Seq(Cell)
        BY ONLY <2>2, <2>3
      <4> QED BY ONLY <4>1, ConcatProperties
    <3>2. Len(h) = 1 /\ Len(q) = 2
      BY ONLY <2>2, <2>3
    <3> QED BY ONLY <3>1, <3>2
  <2>5. (h \o q)[1] = h[1] /\ (h \o q)[2] = q[1] /\ (h \o q)[3] = q[2] /\ Len(h \o q) = 3
    BY <2>4
  <2> QED BY <1>3, <2>1, <2>2, <2>3, <2>4, <2>5, CompressionAssumption DEF h, q
<1> QED BY <1>1, <1>2, <1>3

LEMMA TailOfThree ==
  ASSUME NEW S, NEW z \in Seq(S), Len(z) = 3
  PROVE  Tail(z) \in Seq(S) /\ Len(Tail(z)) = 2 /\ Tail(z)[1] = z[2] /\ Tail(z)[2] = z[3]
<1>1. z # <<>>
  <2>1. Len(<<>>) = 0
    OBVIOUS
  <2> QED BY <2>1
<1>2. /\ Tail(z) \in Seq(S) /\ Len(Tail(z)) = Len(z) - 1
      /\ \A i \in 1 .. Len(Tail(z)) : Tail(z)[i] = z[i + 1]
  BY <1>1, HeadTailProperties
<1>3. Len(Tail(z)) = 2 /\ 1 \in 1 .. 2 /\ 2 \in 1 .. 2 /\ 1 + 1 = 2 /\ 2 + 1 = 3
  BY <1>2
<1>4. Tail(z)[1] = z[1 + 1] /\ Tail(z)[2] = z[2 + 1]
  BY <1>2, <1>3
<1> QED BY <1>2, <1>3, <1>4

(* What bulp_compress leaves in its slab.                                  *)
LEMMA CompressTells ==
  ASSUME NEW slab \in Slabs, NEW s \in Seq(Raw), NEW algo \in {NONE, ZLIB, SNAPPY}
  PROVE  LET out == bulp_compress(algo, s, slab)
         IN /\ out \in Slabs /\ out.length = Len(Compressed(algo, s))
            /\ Behind(out, 0, out.length) = Compressed(algo, s)
<1> DEFINE out == bulp_compress(algo, s, slab)
           z == Compressed(algo, s)
<1> SUFFICES /\ out \in Slabs /\ out.length = Len(z)
             /\ Behind(out, 0, Len(z)) = z
  OBVIOUS
<1>0. Len(s) \in Nat /\ s \in Seq(Cell) /\ z \in Seq(Cell)
  BY LenProperties, RawAreCells, CompressedCells
<1>1. CASE algo = NONE
  <2>1. z = s /\ out = set_data(slab, s)
    BY <1>1, CompressionAssumption DEF Compressed, bulp_compress
  <2> HIDE DEF z, out
  <2> QED BY <1>0, <2>1, SetDataIsThere
<1>2. ASSUME NEW n \in Nat, n >= Len(z), out = truncate(Copied(set_size(slab, n), 0, z), Len(z))
      PROVE  /\ out \in Slabs /\ out.length = Len(z)
             /\ Behind(out, 0, Len(z)) = z
  <2> DEFINE a == set_size(slab, n)
             b == Copied(a, 0, z)
  <2> HIDE DEF z, out
  <2>1. a \in Slabs /\ a.length = n /\ Len(z) \in Nat
    BY <1>0, SetSizeIsSlab, LenProperties
  <2>2. out = truncate(b, Len(z))
    BY <1>2
  <2> HIDE DEF a
  <2>3. b \in Slabs /\ b.length = n /\ Behind(b, 0, Len(z)) = z
    BY <1>0, <1>2, <2>1, CopiedIsThere
  <2> HIDE DEF b
  <2> QED BY <1>2, <2>1, <2>2, <2>3, TruncateKeeps
<1>3. CASE algo = ZLIB
  <2>1. z = <<Len(s)>> \o Squeezed(ZLIB, s) /\ Len(z) = 3
    BY <1>3, CompressedCells
  <2>2. out = truncate(Copied(set_size(slab, 1 + Bound(s)), 0,
                              <<Len(s)>> \o Squeezed(ZLIB, s)), 3)
    BY <1>3, CompressionAssumption DEF bulp_compress
  <2>3. 1 + Bound(s) \in Nat /\ 1 + Bound(s) >= 3
    BY <1>0 DEF Bound
  <2> HIDE DEF z, out
  <2> QED BY <1>2, <2>1, <2>2, <2>3
<1>4. CASE algo = SNAPPY
  <2>1. z = Squeezed(SNAPPY, s) /\ Len(z) = 2
    BY <1>4, CompressedCells
  <2>2. out = truncate(Copied(set_size(slab, Bound(s)), 0, Squeezed(SNAPPY, s)), 2)
    BY <1>4, CompressionAssumption DEF bulp_compress
  <2>3. Bound(s) \in Nat /\ Bound(s) >= 2
    BY <1>0 DEF Bound
  <2> HIDE DEF z, out
  <2> QED BY <1>2, <2>1, <2>2, <2>3
<1> QED BY <1>1, <1>3, <1>4

LEMMA SqueezedIsWhole ==
  ASSUME NEW s \in Seq(Raw), NEW algo \in {ZLIB, SNAPPY}
  PROVE  Whole(algo, Squeezed(algo, s))
<1> DEFINE q == Squeezed(algo, s)
           x == [by |-> algo, of |-> s, half |-> 1]
<1>1. Len(q) = 2 /\ q[1] = x
  BY SqueezedIsTwo
<1>2. x.of = s /\ x # Garbage
  <2>1. x \in [by : {ZLIB, SNAPPY}, of : Seq(Raw), half : {1, 2}]
    OBVIOUS
  <2>2. x.of = s
    OBVIOUS
  <2> HIDE DEF x
  <2> QED BY <2>1, <2>2, ReaderAssumption
<1>3. q # <<>>
  <2>1. Len(<<>>) = 0
    OBVIOUS
  <2> HIDE DEF q
  <2> QED BY <1>1, <2>1
<1> HIDE DEF x
<1>4. q[1].of = s /\ q[1] # Garbage
  BY <1>1, <1>2
<1> QED BY <1>3, <1>4 DEF Whole

(* bulp_decompress gives back what was compressed.                         *)
LEMMA DecompressTells ==
  ASSUME NEW slab \in Slabs, NEW s \in Seq(Raw), NEW algo \in {NONE, ZLIB, SNAPPY}
  PROVE  bulp_decompress(algo, Compressed(algo, s), slab) = {[ok |-> TRUE, slab |-> set_data(slab, s)]}
<1> DEFINE z == Compressed(algo, s)
<1>1. CASE algo = NONE
  <2>1. z = s
    BY <1>1 DEF Compressed
  <2> HIDE DEF z
  <2>2. bulp_decompress(algo, z, slab) = {[ok |-> TRUE, slab |-> set_data(slab, z)]}
    BY <1>1, CompressionAssumption DEF bulp_decompress
  <2> QED BY <2>1, <2>2 DEF z
<1>2. CASE algo = ZLIB
  <2>1. Tail(z) = Squeezed(ZLIB, s)
    <3> DEFINE q == Squeezed(ZLIB, s)
    <3>1. /\ z \in Seq(Cell) /\ Len(z) = 3
          /\ z[2] = [by |-> ZLIB, of |-> s, half |-> 1]
          /\ z[3] = [by |-> ZLIB, of |-> s, half |-> 2]
      BY <1>2, CompressedCells
    <3>2. /\ q \in Seq(Cell) /\ Len(q) = 2
          /\ q[1] = [by |-> ZLIB, of |-> s, half |-> 1]
          /\ q[2] = [by |-> ZLIB, of |-> s, half |-> 2]
      BY SqueezedIsTwo
    <3> HIDE DEF z, q
    <3>3. Tail(z) \in Seq(Cell) /\ Len(Tail(z)) = 2 /\ Tail(z)[1] = z[2] /\ Tail(z)[2] = z[3]
      BY <3>1, TailOfThree
    <3>4. \A i \in 1 .. 2 : i = 1 \/ i = 2
      OBVIOUS
    <3>5. Tail(z)[1] = q[1] /\ Tail(z)[2] = q[2]
      BY <3>1, <3>2, <3>3
    <3>6. Len(Tail(z)) = Len(q) /\ \A i \in 1 .. Len(Tail(z)) : Tail(z)[i] = q[i]
      BY <3>2, <3>3, <3>4, <3>5
    <3>7. Tail(z) = q
      BY <3>2, <3>3, <3>6, SeqEqual
    <3> QED BY <3>7 DEF q
  <2>2. Squeezed(ZLIB, s)[1].of = s
    <3>1. Squeezed(ZLIB, s)[1] = [by |-> ZLIB, of |-> s, half |-> 1]
      BY SqueezedIsTwo
    <3> QED BY <3>1
  <2>3. Len(z) = 3 /\ z[1] = Len(s) /\ Len(s) \in Nat
    BY <1>2, CompressedCells, LenProperties
  <2> HIDE DEF z
  <2>4. Whole(ZLIB, Tail(z)) /\ Tail(z)[1].of = s
    BY <2>1, <2>2, SqueezedIsWhole
  <2>5. Lengths(z, 1) = {Len(s)}
    BY <2>3 DEF Lengths
  <2>6. Len(s) # NoLength /\ Len(s) <= Len(s)
    BY <2>3 DEF NoLength
  <2>7. Inflated(z, slab, Len(s)) = [ok |-> TRUE, slab |-> set_data(slab, s)]
    BY <2>4, <2>6 DEF Inflated, set_data
  <2>8. bulp_decompress(ZLIB, z, slab) = {Inflated(z, slab, length) : length \in Lengths(z, 1)}
    BY CompressionAssumption DEF bulp_decompress
  <2> QED BY <1>2, <2>5, <2>7, <2>8 DEF z
<1>3. CASE algo = SNAPPY
  <2>1. z = Squeezed(SNAPPY, s)
    BY <1>3, CompressedCells
  <2>2. Squeezed(SNAPPY, s)[1].of = s
    <3>1. Squeezed(SNAPPY, s)[1] = [by |-> SNAPPY, of |-> s, half |-> 1]
      BY SqueezedIsTwo
    <3> QED BY <3>1
  <2> HIDE DEF z
  <2>3. Whole(SNAPPY, z) /\ z[1].of = s /\ z # <<>> /\ z[1] # Garbage /\ Len(s) \in Nat
    BY <2>1, <2>2, SqueezedIsWhole, LenProperties DEF Whole
  <2>4. HeadLengths(z) = {Len(s)} /\ Len(s) # NoLength
    BY <2>3 DEF HeadLengths, NoLength
  <2>5. Unsnapped(z, slab, Len(s)) = {[ok |-> TRUE, slab |-> set_data(slab, s)]}
    BY <2>3, <2>4 DEF Unsnapped
  <2>6. bulp_decompress(SNAPPY, z, slab) = UNION {Unsnapped(z, slab, length) : length \in HeadLengths(z)}
    BY CompressionAssumption DEF bulp_decompress
  <2> QED BY <1>3, <2>4, <2>5, <2>6 DEF z
<1> QED BY <1>1, <1>2, <1>3

-----------------------------------------------------------------------------
(* What was written.                                                       *)

Record == [key : Seq(Bytes), value : Seq(Bytes)]

LEMMA ContentsTyped ==
  ASSUME NEW blobs \in Contents
  PROVE  /\ blobs \in Seq(Seq(Record)) /\ Len(blobs) \in Nat
         /\ \A i \in 1 .. Len(blobs) :
              /\ blobs[i] \in Seq(Record) /\ Len(blobs[i]) \in Nat /\ Len(blobs[i]) > 0
              /\ \A k \in 1 .. Len(blobs[i]) :
                   blobs[i][k] \in Record /\ Len(blobs[i][k].key) > 0
<1> DEFINE T == Seq(Record)
<1>1. blobs \in Seq(T)
  BY ReaderAssumption DEF Record
<1>2. Len(blobs) \in Nat /\ DOMAIN blobs = 1 .. Len(blobs)
  BY <1>1, LenProperties
<1>3. ASSUME NEW i \in 1 .. Len(blobs)
      PROVE  /\ blobs[i] \in T /\ Len(blobs[i]) \in Nat /\ Len(blobs[i]) > 0
             /\ \A k \in 1 .. Len(blobs[i]) :
                  blobs[i][k] \in Record /\ Len(blobs[i][k].key) > 0
  <2> DEFINE blob == blobs[i]
  <2>1. blob \in T
    <3> HIDE DEF T
    <3> QED BY <1>1, ElementOfSeq
  <2>2. blob # <<>> /\ \A k \in DOMAIN blob : blob[k].key # <<>>
    BY <1>2, ReaderAssumption
  <2> HIDE DEF blob
  <2>3. Len(blob) \in Nat /\ DOMAIN blob = 1 .. Len(blob) /\ Len(blob) > 0
    BY <2>1, <2>2, LenProperties, EmptySeq
  <2>4. ASSUME NEW k \in 1 .. Len(blob) PROVE blob[k] \in Record /\ Len(blob[k].key) > 0
    <3>1. blob[k] \in Record
      BY <2>1, ElementOfSeq
    <3>2. blob[k].key \in Seq(Bytes) /\ blob[k].key # <<>>
      BY <2>2, <2>3, <3>1 DEF Record
    <3>3. Len(blob[k].key) \in Nat \ {0}
      BY <3>2, EmptySeq
    <3> QED BY <3>1, <3>3
  <2> QED BY <2>1, <2>3, <2>4 DEF blob
<1> QED BY <1>1, <1>2, <1>3

LEMMA RecordSpelled ==
  ASSUME NEW r \in Record
  PROVE  /\ r.key \o r.value \in Seq(Raw)
         /\ Len(r.key) \in Nat /\ Len(r.value) \in Nat
         /\ Len(r.key \o r.value) = Len(r.key) + Len(r.value)
         /\ RecordBytes(r) = <<Len(r.key), Len(r.value)>> \o (r.key \o r.value)
         /\ RecordBytes(r) \in Seq(Raw)
         /\ Len(RecordBytes(r)) = 2 + (Len(r.key) + Len(r.value))
         /\ RecordBytes(r)[1] = Len(r.key) /\ RecordBytes(r)[2] = Len(r.value)
         /\ \A i \in 1 .. Len(r.key) + Len(r.value) :
              RecordBytes(r)[2 + i] = (r.key \o r.value)[i]
<1> DEFINE k == r.key
           v == r.value
           h == <<Len(k), Len(v)>>
           y == k \o v
           z == h \o y
<1>1. k \in Seq(Bytes) /\ v \in Seq(Bytes) /\ Bytes \subseteq Raw /\ Nat \subseteq Raw
  BY DEF Record, Raw
<1> HIDE DEF k, v
<1>2. k \in Seq(Raw) /\ v \in Seq(Raw) /\ Len(k) \in Nat /\ Len(v) \in Nat
  BY <1>1, SeqMonotonic, LenProperties
<1>3. h \in Seq(Raw) /\ Len(h) = 2 /\ h[1] = Len(k) /\ h[2] = Len(v)
  BY <1>1, <1>2
<1>4. RecordBytes(r) = (h \o k) \o v
  BY DEF RecordBytes, k, v
<1> HIDE DEF h
<1>5. (h \o k) \o v = h \o (k \o v)
  <2>1. h \in Seq(Raw) /\ k \in Seq(Raw) /\ v \in Seq(Raw)
    BY <1>2, <1>3
  <2> QED BY ONLY <2>1, ConcatAssociative
<1>6. y \in Seq(Raw) /\ Len(y) = Len(k) + Len(v)
  BY <1>2, ConcatProperties
<1> HIDE DEF y
<1>7. /\ z \in Seq(Raw) /\ Len(z) = Len(h) + Len(y)
      /\ \A i \in 1 .. Len(h) + Len(y) : z[i] = IF i <= Len(h) THEN h[i] ELSE y[i - Len(h)]
  <2>1. h \in Seq(Raw) /\ y \in Seq(Raw)
    BY <1>3, <1>6
  <2> QED BY ONLY <2>1, ConcatProperties
<1> HIDE DEF z
<1>8. Len(z) = 2 + Len(y) /\ z[1] = h[1] /\ z[2] = h[2]
  BY <1>2, <1>3, <1>6, <1>7
<1>9. ASSUME NEW i \in 1 .. Len(y) PROVE z[2 + i] = y[i]
  <2> DEFINE m == 2 + i
  <2>1. m \in 1 .. Len(h) + Len(y) /\ ~(m <= Len(h)) /\ m - Len(h) = i
    BY <1>2, <1>3, <1>6
  <2> HIDE DEF m
  <2>2. z[m] = y[i]
    BY <1>7, <2>1
  <2> QED BY <2>2 DEF m
<1> QED BY <1>2, <1>3, <1>4, <1>5, <1>6, <1>7, <1>8, <1>9 DEF z, y, k, v, h

LEMMA BlobSpelled ==
  ASSUME NEW blob \in Seq(Record)
  PROVE  /\ Spelled(blob) \in Seq(Seq(Raw)) /\ Len(Spelled(blob)) = Len(blob)
         /\ Len(blob) \in Nat
         /\ \A k \in 1 .. Len(blob) : Spelled(blob)[k] = RecordBytes(blob[k])
         /\ BlobBytes(blob) = FlattenSeq(Spelled(blob))
         /\ BlobBytes(blob) \in Seq(Raw) /\ Len(BlobBytes(blob)) \in Nat
<1> DEFINE n == Len(blob)
           z == Spelled(blob)
           T == Seq(Raw)
<1>1. n \in Nat /\ DOMAIN blob = 1 .. n
  BY LenProperties
<1>2. \A k \in 1 .. n : blob[k] \in Record
  BY ElementOfSeq
<1>3. \A k \in 1 .. n : RecordBytes(blob[k]) \in T
  BY <1>2, RecordSpelled
<1>4. z = [k \in 1 .. n |-> RecordBytes(blob[k])]
  BY DEF Spelled
<1>5. z \in [1 .. n -> T] /\ \A k \in 1 .. n : z[k] = RecordBytes(blob[k])
  BY <1>3, <1>4
<1>6. BlobBytes(blob) = FlattenSeq(z)
  BY <1>1, <1>4 DEF BlobBytes
<1> HIDE DEF z, n
<1>7. z \in Seq(T) /\ Len(z) = n
  <2> HIDE DEF T
  <2> QED BY <1>1, <1>5, FunctionIsSeq
<1>8. FlattenSeq(z) \in Seq(Raw)
  BY <1>7, FlattenType
<1>9. Len(FlattenSeq(z)) \in Nat
  BY <1>8, LenProperties
<1> QED BY <1>1, <1>5, <1>6, <1>7, <1>8, <1>9 DEF z, n

LEMMA PackedTyped ==
  ASSUME NEW algo \in {NONE, ZLIB, SNAPPY}, NEW blobs \in Contents
  PROVE  /\ Packed(algo, blobs) \in Seq(Seq(Cell)) /\ Len(Packed(algo, blobs)) = Len(blobs)
         /\ \A i \in 1 .. Len(blobs) :
              /\ Packed(algo, blobs)[i] = Compressed(algo, BlobBytes(blobs[i]))
              /\ Packed(algo, blobs)[i] \in Seq(Cell)
<1> DEFINE n == Len(blobs)
           z == Packed(algo, blobs)
           T == Seq(Cell)
<1>1. n \in Nat /\ \A i \in 1 .. n : blobs[i] \in Seq(Record)
  BY ContentsTyped
<1>2. \A i \in 1 .. n : Compressed(algo, BlobBytes(blobs[i])) \in T
  BY <1>1, BlobSpelled, CompressedCells
<1>3. z = [i \in 1 .. n |-> Compressed(algo, BlobBytes(blobs[i]))]
  BY DEF Packed
<1>4. z \in [1 .. n -> T] /\ \A i \in 1 .. n : z[i] = Compressed(algo, BlobBytes(blobs[i]))
  BY <1>2, <1>3
<1> HIDE DEF z, n
<1>5. z \in Seq(T) /\ Len(z) = n
  <2> HIDE DEF T
  <2> QED BY <1>1, <1>4, FunctionIsSeq
<1> QED BY <1>2, <1>4, <1>5 DEF z, n

(* One blob more.                                                          *)
Writings == [slab : Slabs, heap : Seq(Cell), entries : Seq(Entry)]
LEMMA WrittenStep ==
  ASSUME NEW algo \in {NONE, ZLIB, SNAPPY}, NEW w \in Writings, NEW blob \in Seq(Record)
  PROVE  /\ WrittenBehind(algo, w, blob) \in Writings
         /\ WrittenBehind(algo, w, blob).heap = w.heap \o Compressed(algo, BlobBytes(blob))
         /\ WrittenBehind(algo, w, blob).entries =
              Append(w.entries,
                     [compressed_blob_offset |-> Len(w.heap),
                      compressed_blob_length |-> Len(Compressed(algo, BlobBytes(blob)))])
<1> DEFINE s == BlobBytes(blob)
           out == bulp_compress(algo, s, w.slab)
           c == Compressed(algo, s)
           e == [compressed_blob_offset |-> Len(w.heap), compressed_blob_length |-> Len(c)]
<1>1. s \in Seq(Raw) /\ w.slab \in Slabs /\ w.heap \in Seq(Cell) /\ w.entries \in Seq(Entry)
  BY BlobSpelled DEF Writings
<1> HIDE DEF s
<1>2. out \in Slabs /\ out.length = Len(c) /\ Behind(out, 0, out.length) = c /\ c \in Seq(Cell)
  BY <1>1, CompressTells, CompressedCells
<1>3. WrittenBehind(algo, w, blob) =
        [slab |-> out, heap |-> w.heap \o c, entries |-> Append(w.entries, e)]
  BY <1>2 DEF WrittenBehind, s
<1> HIDE DEF out, c
<1>4. Len(w.heap) \in Nat /\ Len(c) \in Nat
  BY <1>1, <1>2, LenProperties
<1>5. e \in Entry
  BY <1>4 DEF Entry
<1> HIDE DEF e
<1>6. w.heap \o c \in Seq(Cell) /\ Append(w.entries, e) \in Seq(Entry)
  BY <1>1, <1>2, <1>5, ConcatProperties
<1> QED BY <1>2, <1>3, <1>6 DEF Writings, c, e, s

(* The heap is the compressed blobs, one behind the other, and the entries *)
(* say where each of them is.                                              *)
LEMMA WrittenIs ==
  ASSUME NEW algo \in {NONE, ZLIB, SNAPPY}, NEW blobs \in Contents
  PROVE  /\ Written(algo, blobs).heap = FlattenSeq(Packed(algo, blobs))
         /\ Written(algo, blobs).entries = EntriesFor(Packed(algo, blobs))
<1> DEFINE n == Len(blobs)
           P == Packed(algo, blobs)
           b == [slab |-> SlabInit, heap |-> <<>>, entries |-> <<>>]
           F == [i \in 1 .. n |-> [x \in Writings |-> WrittenBehind(algo, x, blobs[i])]]
           Step(f) == [i \in 0 .. n |-> IF i = 0 THEN b ELSE WrittenBehind(algo, f[i - 1], blobs[i])]
           f == CHOOSE f : f = Step(f)
<1>0. n \in Nat /\ \A i \in 1 .. n : blobs[i] \in Seq(Record)
  BY ContentsTyped
<1>1. b \in Writings
  BY SlabInitIsSlab DEF Writings
<1>2. \A i \in 1 .. n : \A x \in Writings : WrittenBehind(algo, x, blobs[i]) \in Writings
  BY <1>0, WrittenStep
<1>3. F \in [1 .. n -> [Writings -> Writings]]
  BY <1>2
<1>4. PICK g \in [0 .. n -> Writings] : g[0] = b /\ \A i \in 1 .. n : g[i] = F[i][g[i - 1]]
  <2>1. n \in Nat
    BY <1>0
  <2> HIDE DEF F, b, n
  <2> QED BY ONLY <2>1, <1>1, <1>3, Iterated
<1>5. \A i \in 1 .. n : g[i] = WrittenBehind(algo, g[i - 1], blobs[i])
  <2> SUFFICES ASSUME NEW i \in 1 .. n PROVE g[i] = WrittenBehind(algo, g[i - 1], blobs[i])
    OBVIOUS
  <2>1. i - 1 \in 0 .. n
    BY <1>0
  <2>2. g[i - 1] \in Writings
    BY <2>1
  <2> QED BY <1>4, <2>2
<1> HIDE DEF F, b, n
<1>6. g = Step(g)
  <2>1. \A i \in 0 .. n : g[i] = IF i = 0 THEN b ELSE WrittenBehind(algo, g[i - 1], blobs[i])
    <3> SUFFICES ASSUME NEW i \in 0 .. n
                 PROVE  g[i] = IF i = 0 THEN b ELSE WrittenBehind(algo, g[i - 1], blobs[i])
      OBVIOUS
    <3>1. CASE i = 0
      BY <1>4, <3>1
    <3>2. CASE i # 0
      <4>1. i \in 1 .. n
        BY <1>0, <3>2
      <4> QED BY <1>5, <3>2, <4>1
    <3> QED BY <3>1, <3>2
  <2> QED BY <2>1
<1>7. f = Step(f)
  <2> HIDE DEF Step
  <2> QED BY <1>6
<1>8. Written(algo, blobs) = f[n]
  BY DEF Written, b, n
<1> HIDE DEF f
<1>9. f[0] = b /\ \A i \in 1 .. n : f[i] = WrittenBehind(algo, f[i - 1], blobs[i])
  <2>1. \A k \in 0 .. n : f[k] = Step(f)[k]
    BY <1>7
  <2>2. f[0] = b
    <3>1. 0 \in 0 .. n
      BY <1>0
    <3> QED BY <2>1, <3>1
  <2>3. ASSUME NEW k \in 1 .. n PROVE f[k] = WrittenBehind(algo, f[k - 1], blobs[k])
    <3>1. k \in 0 .. n /\ k # 0
      BY <1>0
    <3> QED BY <2>1, <3>1
  <2> QED BY <2>2, <2>3
<1>10. /\ P \in Seq(Seq(Cell)) /\ Len(P) = n
       /\ \A i \in 1 .. n : P[i] = Compressed(algo, BlobBytes(blobs[i]))
  BY PackedTyped DEF n
<1> HIDE DEF P
<1> DEFINE E(m) == [compressed_blob_offset |-> Len(JoinedUpto(P, m - 1)),
                    compressed_blob_length |-> Len(P[m])]
           Good(i) == /\ f[i] \in Writings /\ f[i].heap = JoinedUpto(P, i) /\ Len(f[i].entries) = i
                      /\ \A m \in 1 .. i : f[i].entries[m] = E(m)
           T == {i \in 0 .. n : Good(i)}
<1>11. 0 \in T
  <2>1. JoinedUpto(P, 0) = <<>> /\ Len(<<>>) = 0
    BY <1>10, UptoJoins
  <2>2. f[0].heap = <<>> /\ f[0].entries = <<>> /\ f[0] \in Writings
    BY <1>1, <1>9 DEF b
  <2>3. Good(0)
    BY <2>1, <2>2
  <2> HIDE DEF Good
  <2> QED BY <1>0, <2>3
<1>12. ASSUME NEW i \in 1 .. n, i - 1 \in T PROVE i \in T
  <2> DEFINE p == f[i - 1]
             q == f[i]
  <2>1. /\ p \in Writings /\ p.heap = JoinedUpto(P, i - 1) /\ Len(p.entries) = i - 1
        /\ \A m \in 1 .. i - 1 : p.entries[m] = E(m)
    BY <1>12
  <2>2. q = WrittenBehind(algo, p, blobs[i]) /\ blobs[i] \in Seq(Record)
    BY <1>0, <1>9
  <2> HIDE DEF p, q
  <2>3. /\ q \in Writings /\ q.heap = p.heap \o P[i]
        /\ q.entries = Append(p.entries, [compressed_blob_offset |-> Len(p.heap),
                                          compressed_blob_length |-> Len(P[i])])
    <3> DEFINE blob == blobs[i]
               w == WrittenBehind(algo, p, blob)
               c == Compressed(algo, BlobBytes(blob))
    <3>1. c = P[i] /\ q = w /\ p \in Writings /\ blob \in Seq(Record)
      BY <1>10, <2>1, <2>2
    <3> HIDE DEF blob
    <3>2. /\ w \in Writings /\ w.heap = p.heap \o c
          /\ w.entries = Append(p.entries, [compressed_blob_offset |-> Len(p.heap),
                                            compressed_blob_length |-> Len(c)])
      BY ONLY <3>1, WrittenStep, algo \in {NONE, ZLIB, SNAPPY}
    <3> HIDE DEF w, c
    <3> QED BY ONLY <3>1, <3>2
  <2>4. q.heap = JoinedUpto(P, i)
    <3>1. i \in 1 .. Len(P)
      BY <1>10
    <3>2. JoinedUpto(P, i) = JoinedUpto(P, i - 1) \o P[i]
      BY <1>10, <3>1, UptoJoins
    <3> QED BY <2>1, <2>3, <3>2
  <2>5. q.entries = Append(p.entries, E(i)) /\ p.entries \in Seq(Entry)
    BY <2>1, <2>3 DEF Writings
  <2> HIDE DEF E
  <2>6. /\ Len(q.entries) = (i - 1) + 1 /\ q.entries[(i - 1) + 1] = E(i)
        /\ \A m \in 1 .. i - 1 : q.entries[m] = p.entries[m]
    BY <1>0, <2>1, <2>5
  <2>7. (i - 1) + 1 = i /\ \A m \in 1 .. i : m \in 1 .. i - 1 \/ m = i
    BY <1>0
  <2>8. \A m \in 1 .. i : q.entries[m] = E(m)
    BY <2>1, <2>6, <2>7
  <2>9. Good(i)
    BY <2>3, <2>4, <2>6, <2>7, <2>8 DEF q
  <2> HIDE DEF Good
  <2> QED BY <1>0, <2>9
<1>13. 0 .. n \subseteq T
  <2> HIDE DEF T
  <2> QED BY <1>0, <1>11, <1>12, IndexInduction
<1>14. Good(n)
  <2> HIDE DEF Good
  <2>1. n \in 0 .. n
    BY <1>0
  <2> QED BY <1>13, <2>1
<1>15. f[n].heap = FlattenSeq(P)
  BY <1>10, <1>14, UptoJoins
<1>16. f[n].entries = EntriesFor(P)
  <2> DEFINE z == f[n].entries
  <2>1. z \in Seq(Entry) /\ Len(z) = n /\ \A m \in 1 .. n : z[m] = E(m)
    BY <1>14 DEF Writings
  <2>2. EntriesFor(P) = [m \in 1 .. n |-> E(m)]
    BY <1>10 DEF EntriesFor
  <2> HIDE DEF z, E
  <2>3. z = [m \in 1 .. n |-> z[m]]
    BY <2>1
  <2>4. z = EntriesFor(P)
    BY <2>1, <2>2, <2>3
  <2> QED BY <2>4 DEF z
<1> QED BY <1>8, <1>15, <1>16 DEF P

(* Where the blobs are in the heap that was written.                       *)
LEMMA HeapPlaces ==
  ASSUME WroteInv
  PROVE  /\ InHeap \in Seq(Seq(Cell)) /\ Len(InHeap) = Len(Blobs) /\ Len(Blobs) \in Nat
         /\ wrote.heap \in Seq(Cell) /\ Len(wrote.heap) \in Nat
         /\ Len(JoinedUpto(InHeap, 0)) = 0 /\ Len(JoinedUpto(InHeap, Len(Blobs))) = Len(wrote.heap)
         /\ \A k \in 1 .. Len(Blobs) :
              /\ InHeap[k] = Compressed(wrote.algo, BlobBytes(Blobs[k]))
              /\ Len(JoinedUpto(InHeap, k - 1)) \in Nat /\ Len(InHeap[k]) \in Nat
              /\ Len(JoinedUpto(InHeap, k)) = Len(JoinedUpto(InHeap, k - 1)) + Len(InHeap[k])
              /\ Len(JoinedUpto(InHeap, k)) <= Len(wrote.heap)
              /\ \A m \in 1 .. Len(InHeap[k]) :
                   wrote.heap[Len(JoinedUpto(InHeap, k - 1)) + m] = InHeap[k][m]
<1> DEFINE P == InHeap
           n == Len(Blobs)
<1>1. wrote.algo \in {NONE, ZLIB, SNAPPY} /\ Blobs \in Contents /\ wrote.heap = FlattenSeq(P)
  BY DEF WroteInv, Blobs
<1>2. n \in Nat
  BY <1>1, ContentsTyped
<1>3. /\ P \in Seq(Seq(Cell)) /\ Len(P) = n
      /\ \A k \in 1 .. n : P[k] = Compressed(wrote.algo, BlobBytes(Blobs[k]))
  BY <1>1, PackedTyped DEF InHeap, Blobs
<1> HIDE DEF P, n
<1>4. wrote.heap \in Seq(Cell) /\ Len(wrote.heap) \in Nat
  BY <1>1, <1>3, FlattenType, LenProperties
<1>5. Len(JoinedUpto(P, 0)) = 0 /\ Len(JoinedUpto(P, n)) = Len(wrote.heap)
  <2>1. JoinedUpto(P, 0) = <<>> /\ JoinedUpto(P, n) = FlattenSeq(P)
    BY <1>3, UptoJoins
  <2>2. Len(<<>>) = 0
    OBVIOUS
  <2> QED BY <1>1, <2>1, <2>2
<1>6. \A k \in 1 .. n :
         /\ Len(JoinedUpto(P, k - 1)) \in Nat /\ Len(P[k]) \in Nat
         /\ Len(JoinedUpto(P, k)) = Len(JoinedUpto(P, k - 1)) + Len(P[k])
         /\ Len(JoinedUpto(P, k)) <= Len(FlattenSeq(P))
         /\ \A m \in 1 .. Len(P[k]) : FlattenSeq(P)[Len(JoinedUpto(P, k - 1)) + m] = P[k][m]
  <2>1. \A k \in 1 .. Len(P) :
         /\ Len(JoinedUpto(P, k - 1)) \in Nat /\ Len(P[k]) \in Nat
         /\ Len(JoinedUpto(P, k)) = Len(JoinedUpto(P, k - 1)) + Len(P[k])
         /\ Len(JoinedUpto(P, k)) <= Len(FlattenSeq(P))
         /\ \A m \in 1 .. Len(P[k]) : FlattenSeq(P)[Len(JoinedUpto(P, k - 1)) + m] = P[k][m]
    BY ONLY <1>3, UptoParts
  <2> QED BY ONLY <1>3, <2>1
<1> QED BY <1>1, <1>2, <1>3, <1>4, <1>5, <1>6 DEF P, n

LEMMA EntriesTyped ==
  ASSUME WroteInv
  PROVE  /\ wrote.entries \in Seq(Entry) /\ Len(wrote.entries) = Len(Blobs)
         /\ \A k \in 1 .. Len(Blobs) :
              /\ wrote.entries[k].compressed_blob_offset = Len(JoinedUpto(InHeap, k - 1))
              /\ wrote.entries[k].compressed_blob_length = Len(InHeap[k])
<1> DEFINE P == InHeap
           n == Len(Blobs)
           e(k) == [compressed_blob_offset |-> Len(JoinedUpto(P, k - 1)), compressed_blob_length |-> Len(P[k])]
<1>1. Len(P) = n /\ n \in Nat /\ wrote.entries = [k \in 1 .. n |-> e(k)]
  BY HeapPlaces DEF WroteInv, EntriesFor
<1>2. \A k \in 1 .. n : e(k) \in Entry
  BY HeapPlaces DEF Entry
<1>3. \A k \in 1 .. n : /\ e(k).compressed_blob_offset = Len(JoinedUpto(P, k - 1))
                        /\ e(k).compressed_blob_length = Len(P[k])
  OBVIOUS
<1> HIDE DEF e, n, P
<1>4. wrote.entries \in [1 .. n -> Entry]
  BY <1>1, <1>2
<1>5. wrote.entries \in Seq(Entry) /\ Len(wrote.entries) = n
  BY <1>1, <1>4, FunctionIsSeq
<1>6. \A k \in 1 .. n : wrote.entries[k] = e(k)
  BY <1>1
<1> QED BY <1>3, <1>5, <1>6 DEF n, P

(* And the entries in the index.                                           *)
LEMMA IndexPlaces ==
  ASSUME WroteInv
  PROVE  /\ EntryBytes(wrote.entries) \in Seq(Entry \X Nat)
         /\ Len(EntryBytes(wrote.entries)) = Len(Blobs) * EntrySize
         /\ \A k \in 1 .. Len(Blobs) : \A m \in 1 .. EntrySize :
              EntryBytes(wrote.entries)[(k - 1) * EntrySize + m] = <<wrote.entries[k], m>>
<1> DEFINE T == Entry \X Nat
           U == Seq(T)
           n == Len(Blobs)
           W == wrote.entries
           c(k) == [m \in 1 .. EntrySize |-> <<W[k], m>>]
           z == [k \in 1 .. n |-> c(k)]
<1>1. W \in Seq(Entry) /\ Len(W) = n /\ n \in Nat /\ EntrySize \in Nat
  BY EntriesTyped, HeapPlaces, ReaderAssumption
<1>2. \A k \in 1 .. n : W[k] \in Entry
  BY <1>1, ElementOfSeq
<1>3. ASSUME NEW k \in 1 .. n
      PROVE  c(k) \in U /\ Len(c(k)) = EntrySize /\ \A m \in 1 .. EntrySize : c(k)[m] = <<W[k], m>>
  <2>1. \A m \in 1 .. EntrySize : <<W[k], m>> \in T
    BY <1>1, <1>2
  <2> HIDE DEF T
  <2>2. c(k) \in [1 .. EntrySize -> T] /\ \A m \in 1 .. EntrySize : c(k)[m] = <<W[k], m>>
    BY <2>1
  <2> HIDE DEF c
  <2>3. c(k) \in Seq(T) /\ Len(c(k)) = EntrySize
    BY <1>1, <2>2, FunctionIsSeq
  <2> QED BY <2>2, <2>3
<1>4. EntryBytes(W) = FlattenSeq(z)
  <2>1. DOMAIN W = 1 .. n
    BY <1>1, LenProperties
  <2> QED BY <2>1 DEF EntryBytes
<1> HIDE DEF c, n, W
<1>5. z \in [1 .. n -> U] /\ \A k \in 1 .. n : z[k] = c(k)
  BY <1>3
<1> HIDE DEF z
<1>6. z \in Seq(U) /\ Len(z) = n
  <2> HIDE DEF U
  <2> QED BY <1>1, <1>5, FunctionIsSeq
<1>7. \A k \in 1 .. n : Len(z[k]) = EntrySize
  BY <1>3, <1>5
<1> HIDE DEF T
<1>8. FlattenSeq(z) \in Seq(T)
  BY <1>6, FlattenType
<1>9. \A k \in 0 .. n : Len(JoinedUpto(z, k)) = k * EntrySize
  <2>1. z \in Seq(Seq(T)) /\ \A k \in 1 .. Len(z) : Len(z[k]) = EntrySize
    BY <1>6, <1>7
  <2> QED BY <1>1, <1>6, <2>1, UptoAlike
<1>10. Len(FlattenSeq(z)) = n * EntrySize
  <2>1. JoinedUpto(z, n) = FlattenSeq(z)
    BY <1>6, UptoJoins
  <2>2. n \in 0 .. n
    BY <1>1
  <2> QED BY <1>9, <2>1, <2>2
<1>11. ASSUME NEW k \in 1 .. n, NEW m \in 1 .. EntrySize
       PROVE  FlattenSeq(z)[(k - 1) * EntrySize + m] = <<W[k], m>>
  <2>1. k \in 1 .. Len(z) /\ m \in 1 .. Len(z[k]) /\ k - 1 \in 0 .. n
    BY <1>1, <1>6, <1>7
  <2>2. FlattenSeq(z)[Len(JoinedUpto(z, k - 1)) + m] = z[k][m]
    BY <1>6, <2>1, UptoParts
  <2>3. Len(JoinedUpto(z, k - 1)) = (k - 1) * EntrySize
    BY <1>9, <2>1
  <2>4. z[k][m] = <<W[k], m>>
    BY <1>3, <1>5
  <2> QED BY <2>2, <2>3, <2>4
<1> QED BY <1>4, <1>8, <1>10, <1>11 DEF n, W, T

-----------------------------------------------------------------------------
(* The beginning.                                                          *)

LEMMA CellsAreFileCells ==
  /\ \A s \in Seq(Cell) : s \in Seq(FileCell)
  /\ \A s \in Seq(Entry \X Nat) : s \in Seq(FileCell)
<1>1. Cell \subseteq FileCell /\ (Entry \X Nat) \subseteq FileCell
  BY DEF FileCell
<1> HIDE DEF FileCell, Cell, Entry
<1>2. ASSUME NEW s \in Seq(Cell) PROVE s \in Seq(FileCell)
  BY <1>1, SeqMonotonic
<1>3. ASSUME NEW s \in Seq(Entry \X Nat) PROVE s \in Seq(FileCell)
  <2> DEFINE T == Entry \X Nat
  <2>1. s \in Seq(T) /\ T \subseteq FileCell
    BY <1>1
  <2> HIDE DEF T
  <2> QED BY <2>1, SeqMonotonic
<1> QED BY <1>2, <1>3

(* What is left of a file that is cut off.                                 *)
LEMMA SurvivedIsPrefix ==
  ASSUME NEW S, NEW s \in Seq(S), NEW z \in Survived(s)
  PROVE  /\ z \in Seq(S) /\ Len(z) <= Len(s)
         /\ \A i \in 1 .. Len(z) : z[i] = s[i]
<1>1. PICK n \in 0 .. Len(s) : z = SubSeq(s, 1, n)
  BY DEF Survived
<1>2. Len(s) \in Nat
  BY LenProperties
<1>3. z \in Seq(S) /\ Len(z) = n /\ \A i \in 1 .. n : z[i] = s[i]
  BY <1>1, CutSeq
<1> QED BY <1>2, <1>3

LEMMA InitWrites == Init => WroteInv
<1> SUFFICES ASSUME Init PROVE WroteInv
  OBVIOUS
<1>1. PICK algo \in {NONE, ZLIB, SNAPPY}, blobs \in Contents :
        wrote = [algo |-> algo, blobs |-> blobs, entries |-> Written(algo, blobs).entries,
                 heap |-> Written(algo, blobs).heap]
  BY DEF Init
<1>2. /\ Written(algo, blobs).heap = FlattenSeq(Packed(algo, blobs))
      /\ Written(algo, blobs).entries = EntriesFor(Packed(algo, blobs))
  BY WrittenIs
<1> QED BY <1>1, <1>2 DEF WroteInv, InHeap

(* A cell that is spoilt is a cell still, and so is an entry's.            *)
LEMMA SpoiltHeapTyped ==
  ASSUME NEW heap \in Seq(Cell), NEW z \in SpoiltHeaps(heap)
  PROVE  z \in Seq(Cell)
<1>1. PICK i \in DOMAIN heap : z = [heap EXCEPT ![i] = Garbage]
  BY DEF SpoiltHeaps
<1>2. Garbage \in Cell /\ DOMAIN heap = 1 .. Len(heap)
  BY LenProperties DEF Cell
<1> HIDE DEF Cell
<1> QED BY <1>1, <1>2, ExceptSeq

LEMMA EntryBytesTyped ==
  ASSUME NEW W \in Seq(Entry)
  PROVE  EntryBytes(W) \in Seq(EntryCell)
<1> DEFINE T == EntryCell
           U == Seq(T)
           n == Len(W)
           c(k) == [m \in 1 .. EntrySize |-> <<W[k], m>>]
           z == [k \in 1 .. n |-> c(k)]
<1>1. n \in Nat /\ EntrySize \in Nat /\ DOMAIN W = 1 .. n
  BY ReaderAssumption, LenProperties
<1>2. \A k \in 1 .. n : W[k] \in Entry
  BY <1>1, ElementOfSeq
<1>3. ASSUME NEW k \in 1 .. n PROVE c(k) \in U
  <2>1. \A m \in 1 .. EntrySize : <<W[k], m>> \in T
    BY <1>1, <1>2 DEF EntryCell
  <2> HIDE DEF T
  <2>2. c(k) \in [1 .. EntrySize -> T]
    BY <2>1
  <2> HIDE DEF c
  <2> QED BY <1>1, <2>2, FunctionIsSeq
<1>4. EntryBytes(W) = FlattenSeq(z)
  BY <1>1 DEF EntryBytes
<1> HIDE DEF c, n
<1>5. z \in [1 .. n -> U]
  BY <1>3
<1> HIDE DEF z
<1>6. z \in Seq(U)
  <2> HIDE DEF U
  <2> QED BY <1>1, <1>5, FunctionIsSeq
<1> HIDE DEF T
<1> QED BY <1>4, <1>6, FlattenType DEF T

LEMMA SpoiltIndexTyped ==
  ASSUME NEW W \in Seq(Entry), NEW z \in SpoiltIndices(W)
  PROVE  z \in Seq(EntryCell)
<1>1. PICK i \in DOMAIN W : \E e \in SpoiltEntry(W[i]) : z = EntryBytes([W EXCEPT ![i] = e])
  BY DEF SpoiltIndices
<1>2. i \in 1 .. Len(W) /\ W[i] \in Entry
  BY LenProperties, ElementOfSeq
<1>0. PICK e \in SpoiltEntry(W[i]) : z = EntryBytes([W EXCEPT ![i] = e])
  BY <1>1
<1>3. e \in Entry
  BY <1>2 DEF SpoiltEntry, Entry
<1>4. [W EXCEPT ![i] = e] \in Seq(Entry)
  BY <1>2, <1>3, ExceptSeq
<1> QED BY <1>0, <1>4, EntryBytesTyped

LEMMA InitFiles == Init => FilesInv
<1> SUFFICES ASSUME Init PROVE FilesInv
  OBVIOUS
<1>0. WroteInv
  BY InitWrites
<1> DEFINE W == wrote.entries
           all == EntryBytes(W)
           h == wrote.heap
<1>1. PICK index \in Survived(all) \cup SpoiltIndices(W),
           heap \in Survived(h) \cup SpoiltHeaps(h) :
        file = [f \in Files |-> Opened(IF f = "index" THEN index ELSE heap)]
  BY DEF Init
<1>2. Files = {"index", "heap"} /\ "index" # "heap"
  BY ReaderAssumption
<1>3. file["index"] = Opened(index) /\ file["heap"] = Opened(heap)
  BY <1>1, <1>2
<1>4. index \in Seq(EntryCell)
  <2>1. W \in Seq(Entry)
    BY <1>0, EntriesTyped
  <2>2. all \in Seq(EntryCell)
    BY <2>1, EntryBytesTyped
  <2> HIDE DEF all, W
  <2> QED BY <1>1, <2>1, <2>2, SurvivedIsPrefix, SpoiltIndexTyped
<1>5. heap \in Seq(Cell)
  <2>1. h \in Seq(Cell)
    BY <1>0, HeapPlaces
  <2> HIDE DEF h
  <2> QED BY <1>1, <2>1, SurvivedIsPrefix, SpoiltHeapTyped
<1>6. index \in Seq(FileCell) /\ heap \in Seq(FileCell)
  BY <1>4, <1>5, CellsAreFileCells DEF EntryCell
<1> HIDE DEF all, h, W
<1>7. file \in [Files -> [bytes : Seq(FileCell), pos : Nat, open : BOOLEAN]]
  BY <1>1, <1>2, <1>6 DEF Opened
<1>8. \A f \in Files : file[f].pos <= Len(file[f].bytes)
  <2>1. Len(index) \in Nat /\ Len(heap) \in Nat
    BY <1>6, LenProperties
  <2> QED BY <1>2, <1>3, <2>1 DEF Opened
<1>9. file["index"].bytes = index /\ file["heap"].bytes = heap
  BY <1>3 DEF Opened
<1> QED BY <1>4, <1>5, <1>7, <1>8, <1>9 DEF FilesInv

LEMMA InitIsOrdered == Init => OrderInv
<1> SUFFICES ASSUME Init PROVE OrderInv
  OBVIOUS
<1>1. WroteInv /\ FilesInv
  BY InitWrites, InitFiles
<1>2. /\ ireader = [heap_offset |-> 0, compressed_blob_slab |-> SlabInit,
                    uncompressed_slab |-> SlabInit,
                    uncompressed_data_at |-> [data |-> SlabInit.data, off |-> 0],
                    latest_length |-> 0]
      /\ call = NULL /\ told = [result |-> "nothing"] /\ passed = 0
  BY DEF Init, Pointer
<1>3. ReaderTyped
  <2>1. SlabInit.data = 0
    BY DEF SlabInit
  <2> QED BY <1>2, <2>1, SlabInitIsSlab DEF ReaderTyped, Readers
<1>4. /\ Len(JoinedUpto(InHeap, 0)) = 0 /\ Len(Blobs) \in Nat
  BY <1>1, HeapPlaces
<1>5. Blob(0) = <<>> /\ Len(Blob(0)) = 0 /\ <<>> \in Seq(Record)
  BY DEF Blob
<1>6. Spelled(<<>>) = <<>>
  BY DEF Spelled
<1>7. JoinedUpto(<<>>, 0) = <<>> /\ FlattenSeq(<<>>) = <<>>
  <2>1. SubSeq(<<>>, 1, 0) = <<>>
    BY SubSeqEmpty
  <2> QED BY <2>1, FlattenFew DEF JoinedUpto
<1>8. BlobBytes(<<>>) = <<>>
  BY <1>5, <1>6, <1>7, BlobSpelled
<1>9. Placed(0, 0)
  <2>1. SlabInit.length = 0 /\ SlabInit.data = 0 /\ SlabInit.bytes = <<>>
    BY DEF SlabInit
  <2>2. Behind(SlabInit, 0, 0) = <<>>
    <3>1. SubSeq(<<>>, 0 + 1, 0 + 0) = <<>>
      BY SubSeqEmpty
    <3> QED BY <2>1, <3>1 DEF Behind
  <2>3. Len(<<>>) = 0
    OBVIOUS
  <2>4. Pointer(SlabInit, Len(JoinedUpto(Spelled(Blob(0)), 0))) = [data |-> SlabInit.data, off |-> 0]
    BY <1>5, <1>6, <1>7, <2>3 DEF Pointer
  <2>5. ireader.uncompressed_slab = SlabInit
        /\ ireader.uncompressed_data_at = [data |-> SlabInit.data, off |-> 0]
    BY <1>2
  <2>6. 0 \in 0 .. Len(Blobs) /\ 0 \in 0 .. Len(Blob(0))
    BY <1>4, <1>5
  <2> QED BY <1>5, <1>8, <2>1, <2>2, <2>3, <2>4, <2>5, <2>6 DEF Placed
<1>10. Stands(0)
  <2>1. file["index"].pos = 0 /\ file["heap"].pos = 0
    BY ReaderAssumption DEF Init, Opened
  <2>2. 0 * EntrySize = 0
    BY ReaderAssumption
  <2> QED BY <1>2, <1>4, <2>1, <2>2 DEF Stands
<1>11. Len(JoinedUpto(Blobs, 0)) = 0
  <2>1. Blobs \in Seq(Seq(Record))
    BY <1>1, ContentsTyped DEF WroteInv, Blobs
  <2>2. JoinedUpto(Blobs, 0) = <<>> /\ Len(<<>>) = 0
    BY <2>1, UptoJoins
  <2> QED BY <2>2
<1>12. Waiting(0)
  BY <1>2, <1>5, <1>9, <1>10, <1>11 DEF Waiting, Empty
<1>13. 0 \in 0 .. Len(Blobs)
  BY <1>4
<1> QED BY <1>1, <1>3, <1>12, <1>13 DEF OrderInv

-----------------------------------------------------------------------------
(* The kernel's steps.                                                     *)

LEMMA FileFields ==
  ASSUME FilesInv, NEW f \in Files
  PROVE  /\ file[f] \in [bytes : Seq(FileCell), pos : Nat, open : BOOLEAN]
         /\ file[f].bytes \in Seq(FileCell) /\ Len(file[f].bytes) \in Nat
         /\ file[f].pos \in Nat /\ file[f].pos <= Len(file[f].bytes)
         /\ file[f].open \in BOOLEAN
<1>1. file[f] \in [bytes : Seq(FileCell), pos : Nat, open : BOOLEAN] /\ file[f].pos <= Len(file[f].bytes)
  BY DEF FilesInv
<1> HIDE DEF FileCell
<1>2. file[f].bytes \in Seq(FileCell)
  BY <1>1
<1> QED BY <1>1, <1>2, LenProperties

(* The bytes of the files stay what they were.                             *)
LEMMA BytesKept ==
  ASSUME FilesInv,
         file' \in [Files -> [bytes : Seq(FileCell), pos : Nat, open : BOOLEAN]],
         \A f \in Files : file'[f].bytes = file[f].bytes /\ file'[f].pos <= Len(file'[f].bytes)
  PROVE  FilesInv'
<1>1. file'["index"].bytes = file["index"].bytes /\ file'["heap"].bytes = file["heap"].bytes
  BY ReaderAssumption
<1> QED BY <1>1 DEF FilesInv

LEMMA AheadIs ==
  ASSUME FilesInv, NEW f \in Files
  PROVE  /\ Ahead(f) \in Seq(FileCell) /\ Len(Ahead(f)) \in Nat
         /\ Len(Ahead(f)) <= Len(file[f].bytes) - file[f].pos /\ file[f].pos \in Nat
         /\ \A i \in 1 .. Len(Ahead(f)) : Ahead(f)[i] = file[f].bytes[file[f].pos + i]
         /\ file[f].open /\ Ahead(f) = <<>> => file[f].pos = Len(file[f].bytes)
<1> DEFINE s == file[f].bytes
           p == file[f].pos
           z == SubSeq(s, p + 1, Len(s))
<1>1. s \in Seq(FileCell) /\ Len(s) \in Nat /\ p \in Nat /\ p <= Len(s)
  BY FileFields
<1> HIDE DEF s, p
<1>2. z \in Seq(FileCell) /\ Len(z) = Len(s) - p /\ \A i \in 1 .. Len(s) - p : z[i] = s[p + i]
  <2>1. p \in 0 .. Len(s)
    BY <1>1
  <2> QED BY <1>1, <2>1, CutSeq
<1>3. Len(<<>>) = 0 /\ <<>> \in Seq(FileCell)
  OBVIOUS
<1>4. Ahead(f) = IF file[f].open THEN z ELSE <<>>
  BY DEF Ahead, s, p
<1> HIDE DEF z
<1>5. CASE file[f].open
  BY <1>1, <1>2, <1>3, <1>4, <1>5 DEF s, p
<1>6. CASE ~file[f].open
  BY <1>1, <1>3, <1>4, <1>6 DEF s, p
<1> QED BY <1>5, <1>6

(* The descriptors only move on.                                           *)
MovesOn == \A f \in Files : file'[f].bytes = file[f].bytes /\ file'[f].pos >= file[f].pos

(* A descriptor moves behind what has been read.                           *)
LEMMA FilesMove ==
  ASSUME FilesInv, NEW f \in Files, NEW n \in Nat, n <= Len(Ahead(f)),
         file' = [file EXCEPT ![f].pos = @ + n]
  PROVE  /\ FilesInv' /\ MovesOn /\ file'[f].pos = file[f].pos + n
         /\ \A g \in Files : /\ file'[g].bytes = file[g].bytes
                             /\ g # f => file'[g].pos = file[g].pos
<1> DEFINE s == file[f].bytes
           x == [file[f] EXCEPT !.pos = @ + n]
           a == Ahead(f)
<1>1. Len(a) \in Nat /\ Len(a) <= Len(s) - file[f].pos /\ Len(s) \in Nat /\ file[f].pos \in Nat
  BY AheadIs, FileFields
<1>2. x.bytes = s /\ x.pos = file[f].pos + n /\ x \in [bytes : Seq(FileCell), pos : Nat, open : BOOLEAN]
  <2> DEFINE y == file[f]
             T == Seq(FileCell)
  <2>1. y \in [bytes : T, pos : Nat, open : BOOLEAN] /\ s = y.bytes
    BY FileFields
  <2>2. x = [y EXCEPT !.pos = @ + n]
    BY DEF x
  <2> HIDE DEF x, y, T, s
  <2>3. x = [bytes |-> y.bytes, pos |-> y.pos + n, open |-> y.open]
    BY <2>1, <2>2
  <2>4. y.bytes \in T /\ y.pos + n \in Nat /\ y.open \in BOOLEAN
    BY <2>1
  <2> HIDE DEF a
  <2>5. x.bytes = s /\ x.pos = y.pos + n /\ x \in [bytes : T, pos : Nat, open : BOOLEAN]
    BY <2>1, <2>3, <2>4
  <2> QED BY <2>5 DEF y, T
<1>3. file' = [file EXCEPT ![f] = x]
  OBVIOUS
<1> HIDE DEF x
<1>4. /\ file' \in [Files -> [bytes : Seq(FileCell), pos : Nat, open : BOOLEAN]]
      /\ file'[f] = x /\ \A g \in Files : g # f => file'[g] = file[g]
  BY <1>2, <1>3 DEF FilesInv
<1> HIDE DEF a
<1>5. ASSUME NEW g \in Files
      PROVE  /\ file'[g].bytes = file[g].bytes /\ file'[g].pos <= Len(file'[g].bytes)
             /\ file'[g].pos >= file[g].pos
             /\ g # f => file'[g].pos = file[g].pos
  <2>1. CASE g = f
    <3>1. file'[g].bytes = s /\ file'[g].pos = file[f].pos + n
      BY <1>2, <1>4, <2>1
    <3> QED BY <1>1, <2>1, <3>1 DEF a
  <2>2. CASE g # f
    BY <1>4, <2>2, FileFields
  <2> QED BY <2>1, <2>2
<1>6. MovesOn
  BY <1>5 DEF MovesOn
<1>7. \A g \in Files : file'[g].bytes = file[g].bytes /\ file'[g].pos <= Len(file'[g].bytes)
  BY <1>5
<1>8. \A g \in Files : g # f => file'[g].pos = file[g].pos
  BY <1>5
<1>9. file'[f].pos = file[f].pos + n
  BY <1>2, <1>4
<1> HIDE DEF s
<1> QED BY <1>4, <1>6, <1>7, <1>8, <1>9, BytesKept

(* What a step of the kernel leaves of the files.                          *)
Untouched(f) ==
  /\ UNCHANGED call.fd
  /\ \A g \in Files : /\ file'[g].bytes = file[g].bytes
                      /\ g # f => file'[g].pos = file[g].pos

(* bulp_util_readn goes on, a read at a time, or ends.                     *)
LEMMA ReadSomeKeeps ==
  ASSUME FilesInv, NEW f \in Files, NEW start \in Nat, NEW len \in Nat,
         Reads(f, start, len), ReadSome, UNCHANGED wrote
  PROVE  FilesInv' /\ Reads(f, start, len)' /\ Untouched(f)
<1> DEFINE L == Len(call.got)
           s == file[f].bytes
           a == Ahead(f)
<1>1. call.fd = f /\ call.len = len /\ call.got \in Seq(FileCell)
  BY DEF Reads
<1>2. PICK n \in 1 .. len - L :
        /\ n <= Len(a)
        /\ file' = [file EXCEPT ![f].pos = @ + n]
        /\ call' = [call EXCEPT !.got = @ \o SubSeq(a, 1, n),
                                !.result = IF L + n = len THEN "OK" ELSE "running"]
  BY <1>1 DEF ReadSome
<1>3. /\ L \in Nat /\ L <= len /\ file[f].pos = start + L
      /\ \A i \in 1 .. L : call.got[i] = s[start + i]
  BY <1>1, LenProperties DEF Reads
<1>4. /\ a \in Seq(FileCell) /\ Len(a) \in Nat /\ Len(a) <= Len(s) - file[f].pos
      /\ \A i \in 1 .. Len(a) : a[i] = s[file[f].pos + i]
  BY AheadIs
<1>5. /\ file \in [Files -> [bytes : Seq(FileCell), pos : Nat, open : BOOLEAN]]
      /\ Len(s) \in Nat /\ file[f].pos \in Nat
  BY FileFields DEF FilesInv
<1>9. /\ FilesInv' /\ file'[f].pos = file[f].pos + n
      /\ \A g \in Files : /\ file'[g].bytes = file[g].bytes
                          /\ g # f => file'[g].pos = file[g].pos
  <2>1. n \in Nat
    BY <1>3
  <2> HIDE DEF a
  <2> QED BY <1>2, <2>1, FilesMove DEF a
<1> DEFINE m == SubSeq(a, 1, n)
           w == call.got \o m
<1>10. m \in Seq(FileCell) /\ Len(m) = n /\ \A i \in 1 .. n : m[i] = a[i]
  <2>1. n \in 0 .. Len(a)
    BY <1>2, <1>4
  <2> HIDE DEF a
  <2> QED BY <1>4, <2>1, CutSeq
<1> HIDE DEF a, m
<1>11. /\ w \in Seq(FileCell) /\ Len(w) = Len(call.got) + Len(m)
       /\ \A i \in 1 .. Len(call.got) + Len(m) :
            w[i] = IF i <= Len(call.got) THEN call.got[i] ELSE m[i - Len(call.got)]
  <2>1. call.got \in Seq(FileCell) /\ m \in Seq(FileCell)
    BY <1>1, <1>10
  <2> QED BY ONLY <2>1, ConcatProperties
<1> HIDE DEF w
<1>12. Len(w) = L + n /\ Len(w) <= len /\ L + n \in Nat
  BY <1>2, <1>3, <1>10, <1>11
<1>13. ASSUME NEW i \in 1 .. Len(w) PROVE w[i] = s[start + i]
  <2>1. i \in 1 .. L + n /\ i \in 1 .. Len(call.got) + Len(m)
    BY <1>10, <1>12
  <2>2. CASE i <= L
    <3>1. i \in 1 .. L /\ w[i] = call.got[i]
      BY <1>3, <1>11, <2>1, <2>2
    <3> QED BY <1>3, <3>1
  <2>3. CASE ~(i <= L)
    <3> DEFINE j == i - L
    <3>1. j \in 1 .. n /\ L + j = i
      BY ONLY <1>3, <2>1, <2>3, n \in 1 .. len - L, len \in Nat
    <3>2. w[i] = m[j]
      BY <1>11, <2>1, <2>3
    <3> HIDE DEF j
    <3>3. m[j] = a[j] /\ j \in 1 .. Len(a)
      BY <1>2, <1>4, <1>10, <3>1
    <3>4. a[j] = s[file[f].pos + j]
      BY <1>4, <3>3
    <3>5. file[f].pos + j = start + i
      <4> DEFINE P == file[f].pos
      <4>1. P = start + L /\ L \in Nat /\ L + j = i
        BY ONLY <1>3, <3>1
      <4>2. j \in Int
        BY ONLY <3>1, n \in 1 .. len - L
      <4> HIDE DEF P, L
      <4>3. P + j = start + i
        BY ONLY <4>1, <4>2, start \in Nat
      <4> QED BY <4>3 DEF P
    <3> QED BY <3>2, <3>3, <3>4, <3>5
  <2> QED BY <2>2, <2>3
<1>14. call' = [call EXCEPT !.got = w, !.result = IF L + n = len THEN "OK" ELSE "running"]
  BY <1>2 DEF w, m
<1>15. call' = [fd |-> f, len |-> len, got |-> w, result |-> IF L + n = len THEN "OK" ELSE "running"]
  <2>1. call \in [fd : {f}, len : {len}, got : Seq(FileCell),
                  result : Results]
    BY DEF Reads
  <2> HIDE DEF L
  <2> QED BY <1>14, <2>1
<1> HIDE DEF L
<1>16. /\ call'.fd = f /\ call'.got = w /\ call'.result = IF L + n = len THEN "OK" ELSE "running"
       /\ call' \in [fd : {f}, len : {len}, got : Seq(FileCell),
                     result : Results]
  BY <1>11, <1>15 DEF Results
<1>17. file'[f].bytes = s /\ file'[f].pos = start + Len(w)
  BY <1>3, <1>9, <1>12
<1>18. Reads(f, start, len)'
  BY <1>12, <1>13, <1>16, <1>17 DEF Reads
<1>19. Untouched(f)
  BY <1>1, <1>9, <1>16 DEF Untouched
<1> QED BY <1>9, <1>18, <1>19

LEMMA KernelReads ==
  ASSUME FilesInv, NEW f \in Files, NEW start \in Nat, NEW len \in Nat,
         Reads(f, start, len), Kernel, UNCHANGED wrote
  PROVE  FilesInv' /\ Reads(f, start, len)' /\ Untouched(f)
<1>1. CASE ReadSome
  BY <1>1, ReadSomeKeeps
<1>2. /\ call \in [fd : {f}, len : {len}, got : Seq(FileCell),
                   result : Results]
      /\ Len(call.got) <= len /\ file[f].pos = start + Len(call.got)
      /\ \A i \in 1 .. Len(call.got) : call.got[i] = file[f].bytes[start + i]
  BY DEF Reads
<1>3. ASSUME NEW result \in {"EOF", "ERROR"}, call' = [call EXCEPT !.result = result],
             UNCHANGED file,
             result = "EOF" => Len(call.got) = 0 /\ Len(file[f].bytes) = start
      PROVE  FilesInv' /\ Reads(f, start, len)' /\ Untouched(f)
  <2>1. /\ call' \in [fd : {f}, len : {len}, got : Seq(FileCell),
                      result : Results]
        /\ call'.got = call.got /\ call'.result = result /\ call'.fd = call.fd
    BY <1>2, <1>3 DEF Results
  <2>2. Reads(f, start, len)'
    BY <1>2, <1>3, <2>1 DEF Reads
  <2>3. FilesInv'
    <3>1. \A g \in Files : file'[g].bytes = file[g].bytes /\ file'[g].pos <= Len(file'[g].bytes)
      BY <1>3, FileFields
    <3>2. file' \in [Files -> [bytes : Seq(FileCell), pos : Nat, open : BOOLEAN]]
      BY <1>3 DEF FilesInv
    <3> QED BY <3>1, <3>2, BytesKept
  <2> QED BY <1>3, <2>1, <2>2, <2>3 DEF Untouched
<1>4. CASE ReadNothing
  <2>1. /\ call' = [call EXCEPT !.result = IF call.got = <<>> THEN "EOF" ELSE "ERROR"]
        /\ UNCHANGED file /\ Ahead(f) = <<>> /\ file[f].open
    BY <1>2, <1>4 DEF ReadNothing
  <2>2. file[f].pos = Len(file[f].bytes)
    BY <2>1, AheadIs
  <2>3. CASE call.got = <<>>
    <3>1. Len(call.got) = 0 /\ call' = [call EXCEPT !.result = "EOF"]
      BY <2>1, <2>3
    <3>2. Len(file[f].bytes) = start
      BY <1>2, <2>2, <3>1
    <3> QED BY <1>3, <2>1, <3>1, <3>2
  <2>4. CASE call.got # <<>>
    BY <1>3, <2>1, <2>4
  <2> QED BY <2>3, <2>4
<1>5. CASE ReadClosed \/ ReadFails
  BY <1>3, <1>5 DEF ReadClosed, ReadFails, Fails
<1> QED BY <1>1, <1>4, <1>5 DEF Kernel, Answer

(* A call is not NULL.                                                     *)
LEMMA ReadIsCall ==
  ASSUME NEW f \in Files, NEW len \in Nat,
         NEW c \in [fd : {f}, len : {len}, got : Seq(FileCell),
                    result : Results]
  PROVE  c # NULL
<1> DEFINE T == Seq(FileCell)
           C == [fd : Files, len : Nat, got : T, result : Results]
<1>1. c \in [fd : {f}, len : {len}, got : T, result : Results] /\ C = Calls
  BY DEF Calls
<1> HIDE DEF T
<1>2. /\ c = [fd |-> c.fd, len |-> c.len, got |-> c.got, result |-> c.result]
      /\ c.fd \in Files /\ c.len \in Nat /\ c.got \in T /\ c.result \in Results
  BY <1>1
<1>3. c \in C
  BY <1>2
<1> QED BY <1>1, <1>3, ReaderAssumption

(* What the reader has is not the kernel's to change.                      *)
LEMMA PlacesKept ==
  ASSUME UNCHANGED <<ireader, wrote, told, passed>>, NEW k \in 0 .. Len(Blobs)
  PROVE  /\ Empty(k) => Empty(k)'
         /\ \A f \in Files : Len(JoinedUpto(InHeap, k))' = Len(JoinedUpto(InHeap, k))
<1>1. Blobs' = Blobs /\ InHeap' = InHeap /\ Blob(k)' = Blob(k)
  BY DEF Blobs, InHeap, Blob
<1>2. Placed(k, Len(Blob(k))) => Placed(k, Len(Blob(k)))'
  BY <1>1 DEF Placed
<1> QED BY <1>1, <1>2 DEF Empty

LEMMA KernelOrders ==
  ASSUME OrderInv, KernelStep
  PROVE  OrderInv'
<1>1. /\ call # NULL /\ Kernel /\ UNCHANGED <<ireader, wrote, told, passed>>
      /\ "index" \in Files /\ "heap" \in Files
  BY ReaderAssumption DEF KernelStep, Kernel, Answer, ReadSome, ReadNothing, ReadClosed, ReadFails,
     Running, readerVars
<1>2. /\ WroteInv /\ FilesInv /\ WroteInv' /\ ReaderTyped /\ ReaderTyped'
      /\ InHeap' = InHeap /\ Blobs' = Blobs
  <2>1. ~Failed
    BY <1>1 DEF Failed
  <2>2. WroteInv /\ FilesInv /\ ReaderTyped
    BY <2>1 DEF OrderInv
  <2> QED BY <1>1, <2>2 DEF WroteInv, ReaderTyped, InHeap, Blobs
<1>3. PICK k \in 0 .. Len(Blobs) : ReadingEntry(k) \/ ReadingBlob(k)
  BY <1>1 DEF OrderInv, Failed, InHand, Waiting
<1> DEFINE here == Len(JoinedUpto(InHeap, k))
<1>4. here \in Nat /\ here' = here /\ k \in Nat /\ k \in (0 .. Len(Blobs))'
  <2>1. here \in Nat
    <3>1. CASE k = 0
      BY <1>2, <3>1, HeapPlaces
    <3>2. CASE k # 0
      <4>1. k \in 1 .. Len(Blobs)
        BY <1>2, <3>2, HeapPlaces
      <4>2. /\ Len(JoinedUpto(InHeap, k - 1)) \in Nat /\ Len(InHeap[k]) \in Nat
            /\ Len(JoinedUpto(InHeap, k)) = Len(JoinedUpto(InHeap, k - 1)) + Len(InHeap[k])
        BY <1>2, <4>1, HeapPlaces
      <4>3. PICK a \in Nat, b \in Nat : a = Len(JoinedUpto(InHeap, k - 1)) /\ b = Len(InHeap[k])
        BY <4>2
      <4>4. here = a + b
        BY <4>2, <4>3
      <4> HIDE DEF here
      <4> QED BY <4>4
    <3> QED BY <3>1, <3>2
  <2> QED BY <1>2, <2>1, HeapPlaces
<1>5. CASE ReadingEntry(k)
  <2>1. k * EntrySize \in Nat /\ EntrySize \in Nat
    BY <1>4, ReaderAssumption
  <2>2. Reads("index", k * EntrySize, EntrySize) /\ Empty(k) /\ told = [result |-> "running"]
        /\ file["heap"].pos = here /\ ireader.heap_offset = here
    BY <1>5 DEF ReadingEntry
  <2>3. FilesInv' /\ Reads("index", k * EntrySize, EntrySize)' /\ Untouched("index")
    BY <1>1, <1>2, <2>1, <2>2, KernelReads
  <2>4. call' # NULL
    <3>1. call' \in [fd : {"index"}, len : {EntrySize}, got : Seq(FileCell),
                     result : Results]
      BY <2>3 DEF Reads
    <3> QED BY <1>1, <2>1, <3>1, ReadIsCall
  <2>5. Empty(k)'
    BY <1>1, <2>2, PlacesKept
  <2>6. file'["heap"].pos = here
    BY <1>1, <2>2, <2>3 DEF Untouched
  <2>7. ReadingEntry(k)'
    BY <1>1, <1>4, <2>2, <2>3, <2>4, <2>5, <2>6 DEF ReadingEntry
  <2> QED BY <1>2, <1>4, <2>3, <2>7 DEF OrderInv
<1>6. CASE ReadingBlob(k)
  <2> DEFINE len == Len(InHeap[k + 1])
  <2>1. len \in Nat /\ k + 1 \in 1 .. Len(Blobs)
    BY <1>2, <1>6, HeapPlaces DEF ReadingBlob
  <2>2. /\ Reads("heap", here, len) /\ Empty(k) /\ told = [result |-> "running"]
        /\ file["index"].pos = (k + 1) * EntrySize
    BY <1>6 DEF ReadingBlob
  <2> HIDE DEF here, len
  <2>3. FilesInv' /\ Untouched("heap")
    BY <1>1, <1>2, <1>4, <2>1, <2>2, KernelReads
  <2>4. Reads("heap", here, len)'
    <3>1. PICK start \in Nat, n \in Nat : start = here /\ n = len
      BY <1>4, <2>1
    <3>2. Reads("heap", start, n)
      BY <2>2, <3>1
    <3>3. Reads("heap", start, n)'
      BY <1>1, <1>2, <3>2, KernelReads
    <3>4. len' = len
      BY <1>2 DEF len
    <3> QED BY <1>4, <3>1, <3>3, <3>4
  <2>5. call' # NULL
    <3>1. PICK start \in Nat, n \in Nat : start = here /\ n = len
      BY <1>4, <2>1
    <3>2. Reads("heap", start, n)'
      BY <1>1, <1>2, <2>2, <3>1, KernelReads
    <3>3. call' \in [fd : {"heap"}, len : {n}, got : Seq(FileCell),
                     result : Results]
      BY <3>2 DEF Reads
    <3> QED BY <1>1, <3>3, ReadIsCall
  <2>6. Empty(k)'
    BY <1>1, <2>2, PlacesKept
  <2>7. file'["index"].pos = (k + 1) * EntrySize
    BY <1>1, <2>2, <2>3 DEF Untouched
  <2>8. ReadingBlob(k)'
    BY <1>1, <1>2, <1>4, <1>6, <2>2, <2>4, <2>5, <2>6, <2>7 DEF ReadingBlob, here, len
  <2> QED BY <1>2, <1>4, <2>3, <2>8 DEF OrderInv
<1> QED BY <1>3, <1>5, <1>6

-----------------------------------------------------------------------------
(* Telling a record.                                                       *)

LEMMA BytesAt ==
  ASSUME NEW y, NEW b, NEW z, NEW off \in Nat, NEW n \in Nat, NEW len \in Nat,
         off + (2 + n) <= len, \A i \in 1 .. len : y[i] = b[i],
         \A i \in 1 .. 2 + n : b[off + i] = z[i]
  PROVE  /\ off + 2 + n = off + (2 + n) /\ off + (2 + n) <= len
         /\ y[off + 1] = z[1] /\ y[off + 2] = z[2]
         /\ \A i \in 1 .. n : y[off + 2 + i] = z[2 + i]
<1>1. ASSUME NEW i \in 1 .. 2 + n PROVE y[off + i] = z[i]
  <2>1. off + i \in 1 .. len
    OBVIOUS
  <2> QED BY <2>1
<1>2. 1 \in 1 .. 2 + n /\ 2 \in 1 .. 2 + n
  OBVIOUS
<1>3. ASSUME NEW i \in 1 .. n PROVE y[off + 2 + i] = z[2 + i]
  <2>1. 2 + i \in 1 .. 2 + n /\ off + (2 + i) = off + 2 + i
    OBVIOUS
  <2> QED BY <1>1, <2>1
<1> QED BY <1>1, <1>2, <1>3

(* Where the reader is in its slab.                                        *)
Here == ireader.uncompressed_data_at.off

(* A slab with a blob has its j-th record where those before it end: the   *)
(* two lengths, and the key and the value behind them.                     *)
LaidOut(slab, blob, j, off, n) ==
  /\ Len(JoinedUpto(Spelled(blob), j)) = off + 2 + n /\ off + 2 + n <= slab.length
  /\ off + 2 <= Len(BlobBytes(blob))
  /\ BlobBytes(blob)[off + 1] = Len(blob[j].key) /\ BlobBytes(blob)[off + 2] = Len(blob[j].value)
  /\ slab.bytes[off + 1] = Len(blob[j].key) /\ slab.bytes[off + 2] = Len(blob[j].value)
  /\ \A i \in 1 .. n : slab.bytes[off + 2 + i] = (blob[j].key \o blob[j].value)[i]

LEMMA RecordAt ==
  ASSUME NEW blob \in Seq(Record), NEW slab \in Slabs, slab.length = Len(BlobBytes(blob)),
         Behind(slab, 0, slab.length) = BlobBytes(blob), NEW j \in 1 .. Len(blob),
         NEW off \in Nat, off = Len(JoinedUpto(Spelled(blob), j - 1)),
         NEW n \in Nat, n = Len(blob[j].key) + Len(blob[j].value)
  PROVE  LaidOut(slab, blob, j, off, n)
<1> DEFINE s == Spelled(blob)
           b == BlobBytes(blob)
           z == RecordBytes(blob[j])
           kv == blob[j].key \o blob[j].value
<1>1. /\ s \in Seq(Seq(Raw)) /\ Len(s) = Len(blob) /\ s[j] = z
      /\ b = FlattenSeq(s)
  BY BlobSpelled
<1>2. /\ n \in Nat /\ Len(z) = 2 + n /\ z[1] = Len(blob[j].key) /\ z[2] = Len(blob[j].value)
      /\ \A i \in 1 .. n : z[2 + i] = kv[i]
  <2>1. blob[j] \in Record
    OBVIOUS
  <2>2. /\ Len(blob[j].key) \in Nat /\ Len(blob[j].value) \in Nat
        /\ Len(z) = 2 + (Len(blob[j].key) + Len(blob[j].value))
        /\ z[1] = Len(blob[j].key) /\ z[2] = Len(blob[j].value)
        /\ \A i \in 1 .. Len(blob[j].key) + Len(blob[j].value) : z[2 + i] = kv[i]
    BY <2>1, RecordSpelled
  <2> HIDE DEF z, kv
  <2> QED BY <2>2
<1>3. /\ Len(JoinedUpto(s, j - 1)) \in Nat
      /\ Len(JoinedUpto(s, j)) = Len(JoinedUpto(s, j - 1)) + Len(s[j])
      /\ Len(JoinedUpto(s, j)) <= Len(FlattenSeq(s)) /\ Len(FlattenSeq(s)) \in Nat
      /\ \A i \in 1 .. Len(s[j]) : FlattenSeq(s)[Len(JoinedUpto(s, j - 1)) + i] = s[j][i]
  <2>1. j \in 1 .. Len(s)
    BY <1>1
  <2> HIDE DEF s
  <2> QED BY <1>1, <2>1, UptoParts
<1>4. /\ off \in Nat /\ Len(JoinedUpto(s, j)) = off + (2 + n) /\ off + (2 + n) <= Len(b)
      /\ Len(b) \in Nat /\ \A i \in 1 .. 2 + n : b[off + i] = z[i]
  <2> HIDE DEF s, b, z
  <2>1. off = Len(JoinedUpto(s, j - 1))
    BY DEF s
  <2> QED BY <1>1, <1>2, <1>3, <2>1
<1>5. \A i \in 1 .. Len(b) : slab.bytes[i] = b[i]
  <2>1. /\ slab.bytes \in Seq(Cell) /\ slab.length \in 0 .. Len(slab.bytes)
        /\ b = SubSeq(slab.bytes, 1, slab.length) /\ slab.length = Len(b)
    <3>1. slab.bytes \in Seq(Cell) /\ slab.length \in Nat /\ Len(slab.bytes) \in Nat
          /\ slab.length <= Len(slab.bytes)
      BY SlabFields
    <3>2. SubSeq(slab.bytes, 0 + 1, 0 + slab.length) = SubSeq(slab.bytes, 1, slab.length)
      BY <3>1
    <3> QED BY <3>1, <3>2 DEF Behind
  <2> HIDE DEF b
  <2>2. \A i \in 1 .. slab.length : SubSeq(slab.bytes, 1, slab.length)[i] = slab.bytes[i]
    BY <2>1, CutSeq
  <2> QED BY <2>1, <2>2
<1>6. PICK len \in Nat : len = Len(b)
  BY <1>4
<1>7. /\ off + 2 + n = off + (2 + n) /\ off + (2 + n) <= len
      /\ slab.bytes[off + 1] = z[1] /\ slab.bytes[off + 2] = z[2]
      /\ \A i \in 1 .. n : slab.bytes[off + 2 + i] = z[2 + i]
  <2>1. /\ off + (2 + n) <= len /\ \A i \in 1 .. len : slab.bytes[i] = b[i]
        /\ \A i \in 1 .. 2 + n : b[off + i] = z[i]
    BY <1>4, <1>5, <1>6
  <2> HIDE DEF b, z
  <2> QED BY ONLY <2>1, n \in Nat, off \in Nat, len \in Nat, BytesAt
<1>12. /\ off + 2 <= Len(b)
       /\ b[off + 1] = Len(blob[j].key) /\ b[off + 2] = Len(blob[j].value)
  <2> HIDE DEF b, z
  <2>1. 1 \in 1 .. 2 + n /\ 2 \in 1 .. 2 + n
    BY ONLY n \in Nat
  <2>2. b[off + 1] = z[1] /\ b[off + 2] = z[2]
    BY <1>4, <2>1
  <2>3. off + 2 <= len
    BY ONLY <1>7, off \in Nat, n \in Nat, len \in Nat
  <2> QED BY <1>2, <1>6, <2>2, <2>3
<1> HIDE DEF s, b, z, kv
<1>8. slab.length = len
  BY <1>6 DEF b
<1>9. Len(JoinedUpto(s, j)) = off + 2 + n
  BY <1>4, <1>7
<1>10. \A i \in 1 .. n : slab.bytes[off + 2 + i] = kv[i]
  BY <1>2, <1>7
<1>11. off + 2 + n <= slab.length
  BY <1>7, <1>8
<1> QED BY <1>2, <1>7, <1>9, <1>10, <1>11, <1>12 DEF s, b, kv, LaidOut


LEMMA BlobsTyped ==
  ASSUME WroteInv
  PROVE  /\ Blobs \in Seq(Seq(Record)) /\ Len(Blobs) \in Nat
         /\ \A k \in 0 .. Len(Blobs) :
              /\ Blob(k) \in Seq(Record) /\ Len(Blob(k)) \in Nat
              /\ \A j \in 1 .. Len(Blob(k)) :
                   Blob(k)[j] \in Record /\ Len(Blob(k)[j].key) \in Nat \ {0}
                   /\ Len(Blob(k)[j].value) \in Nat
         /\ \A k \in 1 .. Len(Blobs) : Blob(k) = Blobs[k] /\ Len(Blob(k)) > 0
<1> DEFINE B == Blobs
<1>1. /\ B \in Seq(Seq(Record)) /\ Len(B) \in Nat
      /\ \A i \in 1 .. Len(B) :
           /\ B[i] \in Seq(Record) /\ Len(B[i]) \in Nat /\ Len(B[i]) > 0
           /\ \A k \in 1 .. Len(B[i]) : B[i][k] \in Record /\ Len(B[i][k].key) > 0
  BY ContentsTyped DEF WroteInv, Blobs
<1>2. \A r \in Record : Len(r.key) \in Nat /\ Len(r.value) \in Nat
  BY RecordSpelled
<1> HIDE DEF B
<1>3. /\ Blob(0) = <<>> /\ \A k \in 1 .. Len(B) : Blob(k) = B[k]
  BY <1>1 DEF Blob, B
<1>4. <<>> \in Seq(Record) /\ Len(<<>>) = 0
  OBVIOUS
<1>5. ASSUME NEW k \in 0 .. Len(B)
      PROVE  /\ Blob(k) \in Seq(Record) /\ Len(Blob(k)) \in Nat
             /\ \A j \in 1 .. Len(Blob(k)) :
                  Blob(k)[j] \in Record /\ Len(Blob(k)[j].key) \in Nat \ {0}
                  /\ Len(Blob(k)[j].value) \in Nat
  <2>1. CASE k = 0
    <3>1. Blob(k) = <<>> /\ 1 .. Len(<<>>) = {}
      BY <1>3, <1>4, <2>1
    <3> QED BY <1>4, <3>1
  <2>2. CASE k # 0
    <3>1. k \in 1 .. Len(B)
      BY <1>1, <2>2
    <3> HIDE DEF Record
    <3>2. Blob(k) = B[k] /\ B[k] \in Seq(Record) /\ Len(B[k]) \in Nat
      BY <1>1, <1>3, <3>1
    <3>3. ASSUME NEW j \in 1 .. Len(B[k])
          PROVE  /\ B[k][j] \in Record /\ Len(B[k][j].key) \in Nat \ {0}
                 /\ Len(B[k][j].value) \in Nat
      <4>1. B[k][j] \in Record /\ Len(B[k][j].key) > 0
        BY <1>1, <3>1
      <4>2. Len(B[k][j].key) \in Nat /\ Len(B[k][j].value) \in Nat
        BY <1>2, <4>1
      <4> QED BY <4>1, <4>2
    <3> QED BY <3>2, <3>3
  <2> QED BY <2>1, <2>2
<1> QED BY <1>1, <1>3, <1>5 DEF B

(* The reader has told the j-th record of the k-th blob.                   *)
HasTold(k, j) ==
  /\ ReaderTyped' /\ Placed(k, j)'
  /\ ireader'.latest_length = Len(Blobs[k][j].key) + Len(Blobs[k][j].value)
  /\ told' = [result |-> "OK",
              data |-> [ireader'.uncompressed_data_at EXCEPT !.off = @ - ireader'.latest_length],
              length |-> ireader'.latest_length]

LEMMA Tells ==
  ASSUME WroteInv, UNCHANGED wrote, NEW k \in 1 .. Len(Blobs), NEW j \in 1 .. Len(Blobs[k]),
         NEW r \in Readers, NEW slab \in Slabs, slab = r.uncompressed_slab,
         slab.length = Len(BlobBytes(Blobs[k])),
         Behind(slab, 0, slab.length) = BlobBytes(Blobs[k]),
         NEW off \in Nat, off = Len(JoinedUpto(Spelled(Blobs[k]), j - 1)),
         r.uncompressed_data_at.off = off, TellRecord(r)
  PROVE  HasTold(k, j) /\ ireader'.heap_offset = r.heap_offset
<1> DEFINE blob == Blobs[k]
           key == blob[j].key
           value == blob[j].value
<1>1. /\ Blob(k) = blob /\ blob \in Seq(Record) /\ k \in 0 .. Len(Blobs)
      /\ Len(blob) \in Nat /\ Len(key) \in Nat /\ Len(value) \in Nat
  <2>1. k \in 0 .. Len(Blobs) /\ Blob(k) = Blobs[k]
    BY BlobsTyped
  <2> HIDE DEF Record
  <2> QED BY <2>1, BlobsTyped
<1>2. PICK n \in Nat : n = Len(key) + Len(value)
  <2>1. PICK a \in Nat, b \in Nat : a = Len(key) /\ b = Len(value)
    BY <1>1
  <2>2. a + b \in Nat
    OBVIOUS
  <2> QED BY <2>1, <2>2
<1> HIDE DEF key, value
<1>3. /\ Len(JoinedUpto(Spelled(blob), j)) = off + 2 + n
      /\ off + 2 <= Len(BlobBytes(blob))
      /\ BlobBytes(blob)[off + 1] = Len(key) /\ BlobBytes(blob)[off + 2] = Len(value)
  <2>1. /\ slab.length = Len(BlobBytes(blob)) /\ Behind(slab, 0, slab.length) = BlobBytes(blob)
        /\ j \in 1 .. Len(blob) /\ off = Len(JoinedUpto(Spelled(blob), j - 1))
        /\ n = Len(blob[j].key) + Len(blob[j].value) /\ blob \in Seq(Record)
    BY <1>1, <1>2 DEF key, value
  <2> HIDE DEF blob, Slabs, Record
  <2>2. LaidOut(slab, blob, j, off, n)
    BY ONLY slab \in Slabs, off \in Nat, n \in Nat, <2>1, RecordAt
  <2> QED BY <2>2 DEF key, value, LaidOut
<1> DEFINE place == Pointer(slab, off + 2 + n)
<1>4. /\ Lengths(InSlab(r), off + 1) = {Len(key)} /\ Len(key) # NoLength
      /\ Lengths(InSlab(r), off + 2) = {Len(value)} /\ Len(value) # NoLength
  <2> DEFINE b == BlobBytes(blob)
  <2>1. InSlab(r) = b
    BY DEF InSlab
  <2>2. /\ off + 2 <= Len(b) /\ Len(b) \in Nat /\ b[off + 1] = Len(key) /\ b[off + 2] = Len(value)
    <3>1. b \in Seq(Raw)
      BY <1>1, BlobSpelled
    <3> HIDE DEF b
    <3>2. Len(b) \in Nat
      BY <3>1, LenProperties
    <3> QED BY <1>3, <3>2 DEF b
  <2> HIDE DEF b, blob
  <2>3. ~(off + 1 > Len(b)) /\ ~(off + 2 > Len(b))
    BY <2>2
  <2> QED BY <1>1, <2>1, <2>2, <2>3 DEF Lengths, NoLength
<1>5. /\ ireader' = [r EXCEPT !.latest_length = n, !.uncompressed_data_at = place]
      /\ told' = [result |-> "OK", data |-> Pointer(slab, off + 2), length |-> n]
  <2>1. ToldBehind(r, off + 2, Len(key) + Len(value), off + 2 + Len(key) + Len(value))
    <3> HIDE DEF blob
    <3> QED BY <1>4 DEF TellRecord
  <2>2. off + 2 + Len(key) + Len(value) = off + 2 + n
    <3> HIDE DEF blob
    <3>1. PICK a \in Nat, b \in Nat : a = Len(key) /\ b = Len(value)
      BY <1>1
    <3>2. off + 2 + a + b = off + 2 + (a + b)
      OBVIOUS
    <3> QED BY <1>2, <3>1, <3>2
  <2> QED BY <1>2, <2>1, <2>2 DEF ToldBehind, Deliver
<1>6. /\ place = [data |-> slab.data, off |-> off + 2 + n]
      /\ Pointer(slab, off + 2) = [data |-> slab.data, off |-> off + 2]
      /\ off + 2 + n \in Nat /\ off + 2 \in Nat /\ slab.data \in Nat
      /\ (off + 2 + n) - n = off + 2
  <2>1. slab.data \in Nat
    BY SlabFields
  <2>2. off + 2 + n \in Nat /\ off + 2 \in Nat /\ (off + 2 + n) - n = off + 2
    BY ONLY off \in Nat, n \in Nat
  <2> QED BY <2>1, <2>2 DEF Pointer
<1>7. place \in [data : Nat, off : Nat] /\ [place EXCEPT !.off = @ - n] = Pointer(slab, off + 2)
  <2> DEFINE o == off + 2 + n
             p == off + 2
  <2>1. o \in Nat /\ p \in Nat /\ o - n = p /\ slab.data \in Nat
    BY <1>6
  <2> HIDE DEF o, p
  <2>2. [data |-> slab.data, off |-> o] \in [data : Nat, off : Nat]
    BY <2>1
  <2>3. [[data |-> slab.data, off |-> o] EXCEPT !.off = @ - n] = [data |-> slab.data, off |-> p]
    BY <2>1
  <2> QED BY <1>6, <2>2, <2>3 DEF o, p
<1> HIDE DEF place
<1>8. /\ ireader' = [heap_offset |-> r.heap_offset, compressed_blob_slab |-> r.compressed_blob_slab,
                     uncompressed_slab |-> r.uncompressed_slab,
                     uncompressed_data_at |-> place, latest_length |-> n]
      /\ r.heap_offset \in Nat /\ r.compressed_blob_slab \in Slabs
  <2> HIDE DEF Slabs
  <2> QED BY <1>5 DEF Readers
<1>9. /\ ReaderTyped' /\ ireader'.heap_offset = r.heap_offset
      /\ ireader'.uncompressed_slab = slab /\ ireader'.uncompressed_data_at = place
      /\ ireader'.latest_length = n
  <2> HIDE DEF Slabs
  <2>1. r.uncompressed_slab \in Slabs
    BY DEF Readers
  <2> QED BY <1>7, <1>8, <2>1 DEF ReaderTyped, Readers
<1>10. Placed(k, j)'
  <2>1. Blobs' = Blobs /\ Blob(k)' = Blob(k)
    BY DEF Blobs, Blob
  <2>2. j \in 0 .. Len(Blob(k))
    BY <1>1
  <2>3. place = Pointer(slab, Len(JoinedUpto(Spelled(blob), j)))
    BY <1>3 DEF place
  <2>4. Behind(slab, 0, slab.length) = BlobBytes(blob) /\ slab.length = Len(BlobBytes(blob))
    OBVIOUS
  <2> HIDE DEF blob
  <2> QED BY <1>1, <1>9, <2>1, <2>2, <2>3, <2>4 DEF Placed
<1>11. told' = [result |-> "OK",
                data |-> [ireader'.uncompressed_data_at EXCEPT !.off = @ - ireader'.latest_length],
                length |-> ireader'.latest_length]
  BY <1>5, <1>7, <1>9
<1>12. ireader'.latest_length = Len(Blobs[k][j].key) + Len(Blobs[k][j].value)
  BY <1>2, <1>9 DEF key, value
<1> QED BY <1>9, <1>10, <1>11, <1>12 DEF HasTold

(* The reader is at the end of its slab when it has told each record.      *)
LEMMA AtEndIs ==
  ASSUME WroteInv, ReaderTyped, NEW k \in 0 .. Len(Blobs), NEW j \in 0 .. Len(Blob(k)), Placed(k, j)
  PROVE  /\ at_end <=> j = Len(Blob(k))
         /\ Here = Len(JoinedUpto(Spelled(Blob(k)), j)) /\ Here \in Nat
<1> DEFINE blob == Blob(k)
           s == Spelled(blob)
           slab == ireader.uncompressed_slab
<1>1. /\ blob \in Seq(Record) /\ Len(blob) \in Nat
      /\ \A i \in 1 .. Len(blob) :
           blob[i] \in Record /\ Len(blob[i].key) \in Nat \ {0} /\ Len(blob[i].value) \in Nat
  BY BlobsTyped
<1>2. /\ s \in Seq(Seq(Raw)) /\ Len(s) = Len(blob) /\ BlobBytes(blob) = FlattenSeq(s)
      /\ \A i \in 1 .. Len(blob) : s[i] = RecordBytes(blob[i])
  BY <1>1, BlobSpelled
<1>3. ireader.uncompressed_data_at = [data |-> slab.data, off |-> Len(JoinedUpto(s, j))]
      /\ slab.length = Len(FlattenSeq(s))
  BY <1>2 DEF Placed, Pointer
<1>4. Here = Len(JoinedUpto(s, j))
  BY <1>3 DEF Here
<1>5. Here \in Nat
  <2> HIDE DEF Slabs
  <2>1. ireader.uncompressed_data_at \in [data : Nat, off : Nat]
    BY DEF ReaderTyped, Readers
  <2> QED BY <2>1 DEF Here
<1>6. at_end <=> Len(JoinedUpto(s, j)) = Len(FlattenSeq(s))
  <2> DEFINE a == Len(JoinedUpto(s, j))
             b == Len(FlattenSeq(s))
  <2>1. /\ ireader.uncompressed_data_at = [data |-> slab.data, off |-> a]
        /\ get_end(slab) = [data |-> slab.data, off |-> b]
    BY <1>3 DEF get_end, Pointer
  <2> HIDE DEF a, b
  <2>2. [data |-> slab.data, off |-> a] = [data |-> slab.data, off |-> b] <=> a = b
    <3>1. /\ [data |-> slab.data, off |-> a].off = a
          /\ [data |-> slab.data, off |-> b].off = b
      OBVIOUS
    <3> QED BY <3>1
  <2>3. at_end <=> a = b
    BY <2>1, <2>2 DEF at_end
  <2> QED BY <2>3 DEF a, b
<1>7. CASE j = Len(blob)
  <2>1. JoinedUpto(s, Len(s)) = FlattenSeq(s)
    <3> HIDE DEF s
    <3> QED BY <1>2, UptoJoins
  <2> QED BY <1>2, <1>4, <1>5, <1>6, <1>7, <2>1
<1>8. CASE j # Len(blob)
  <2>1. j + 1 \in 1 .. Len(s) /\ (j + 1) - 1 = j /\ j + 1 \in 1 .. Len(blob)
    BY <1>1, <1>2, <1>8
  <2>2. /\ Len(JoinedUpto(s, (j + 1) - 1)) \in Nat
        /\ Len(JoinedUpto(s, j + 1)) = Len(JoinedUpto(s, (j + 1) - 1)) + Len(s[j + 1])
        /\ Len(JoinedUpto(s, j + 1)) <= Len(FlattenSeq(s)) /\ Len(FlattenSeq(s)) \in Nat
        /\ Len(s[j + 1]) \in Nat
    <3> HIDE DEF s
    <3> QED BY <1>2, <2>1, UptoParts
  <2>3. Len(s[j + 1]) # 0
    <3>1. blob[j + 1] \in Record /\ s[j + 1] = RecordBytes(blob[j + 1])
      BY <1>1, <1>2, <2>1
    <3>2. RecordBytes(blob[j + 1])[1] = Len(blob[j + 1].key)
          /\ Len(RecordBytes(blob[j + 1])) = 2 + (Len(blob[j + 1].key) + Len(blob[j + 1].value))
      BY <3>1, RecordSpelled
    <3>3. PICK a \in Nat, b \in Nat : a = Len(blob[j + 1].key) /\ b = Len(blob[j + 1].value)
      BY <1>1, <2>1
    <3>4. 2 + (a + b) # 0
      OBVIOUS
    <3> HIDE DEF blob, s
    <3> QED BY <3>1, <3>2, <3>3, <3>4
  <2>4. PICK a \in Nat, b \in Nat, c \in Nat :
          a = Len(JoinedUpto(s, j)) /\ b = Len(FlattenSeq(s)) /\ c = Len(s[j + 1])
    BY <2>1, <2>2
  <2>5. a + c <= b /\ c # 0
    BY <2>1, <2>2, <2>3, <2>4
  <2>6. a # b
    BY <2>5
  <2> QED BY <1>4, <1>5, <1>6, <1>8, <2>4, <2>6
<1> QED BY <1>7, <1>8

-----------------------------------------------------------------------------
(* The calls of peek and advance.                                          *)

(* What stays when nothing is written and the files are left alone.        *)
LEMMA FilesKept ==
  ASSUME WroteInv, FilesInv, UNCHANGED <<wrote, file>>
  PROVE  /\ WroteInv' /\ FilesInv' /\ Blobs' = Blobs /\ InHeap' = InHeap
         /\ \A k : Blob(k)' = Blob(k)
<1>1. Blobs' = Blobs /\ InHeap' = InHeap /\ WroteInv' /\ \A k : Blob(k)' = Blob(k)
  BY DEF WroteInv, InHeap, Blobs, Blob
<1>2. FilesInv'
  BY DEF FilesInv
<1> QED BY <1>1, <1>2

(* The records up to the k-th blob, and with j of that one.                *)
LEMMA PassedSo ==
  ASSUME WroteInv, NEW k \in 1 .. Len(Blobs)
  PROVE  /\ Len(JoinedUpto(Blobs, k - 1)) \in Nat /\ Len(Blob(k)) \in Nat
         /\ Len(JoinedUpto(Blobs, k)) = Len(JoinedUpto(Blobs, k - 1)) + Len(Blob(k))
<1> DEFINE B == Blobs
<1>1. B \in Seq(Seq(Record)) /\ Blob(k) = B[k] /\ k \in 1 .. Len(B)
  BY BlobsTyped
<1> HIDE DEF B, Record
<1>2. /\ Len(JoinedUpto(B, k - 1)) \in Nat /\ Len(B[k]) \in Nat
      /\ Len(JoinedUpto(B, k)) = Len(JoinedUpto(B, k - 1)) + Len(B[k])
  BY <1>1, UptoParts
<1> QED BY <1>1, <1>2 DEF B

(* A call that has nothing in hand tells the next record, or reads.        *)
LEMMA NextIsTold ==
  ASSUME WroteInv, FilesInv, ReaderTyped, call = NULL, UNCHANGED wrote,
         NEW k \in 0 .. Len(Blobs), NEW j \in 0 .. Len(Blob(k)), Placed(k, j), Stands(k), peek(0),
         j = Len(Blob(k)) => passed' = Len(JoinedUpto(Blobs, k)),
         j # Len(Blob(k)) => passed' = Len(JoinedUpto(Blobs, k - 1)) + j
  PROVE  OrderInv'
<1>1. /\ (at_end <=> j = Len(Blob(k))) /\ Here = Len(JoinedUpto(Spelled(Blob(k)), j)) /\ Here \in Nat
  BY AtEndIs
<1>2. k \in Nat /\ Len(Blob(k)) \in Nat /\ Len(Blobs) \in Nat
  BY BlobsTyped
<1>3. CASE j = Len(Blob(k))
  <2>1. /\ call' = [fd |-> "index", len |-> EntrySize, got |-> <<>>, result |-> "running"]
        /\ ireader' = [ireader EXCEPT !.latest_length = 0]
        /\ told' = [result |-> "running"] /\ UNCHANGED file
    BY <1>1, <1>3, ReaderAssumption DEF peek, readn, Return
  <2>2. /\ WroteInv' /\ FilesInv' /\ Blobs' = Blobs /\ InHeap' = InHeap /\ Blob(k)' = Blob(k)
    BY <2>1, FilesKept
  <2>3. ireader' = [heap_offset |-> ireader.heap_offset,
                    compressed_blob_slab |-> ireader.compressed_blob_slab,
                    uncompressed_slab |-> ireader.uncompressed_slab,
                    uncompressed_data_at |-> ireader.uncompressed_data_at, latest_length |-> 0]
        /\ ireader.heap_offset \in Nat /\ ireader.compressed_blob_slab \in Slabs
        /\ ireader.uncompressed_slab \in Slabs
        /\ ireader.uncompressed_data_at \in [data : Nat, off : Nat]
    <3> HIDE DEF Slabs
    <3> QED BY <2>1 DEF ReaderTyped, Readers
  <2>4. /\ ReaderTyped' /\ ireader'.heap_offset = ireader.heap_offset
        /\ ireader'.uncompressed_slab = ireader.uncompressed_slab
        /\ ireader'.uncompressed_data_at = ireader.uncompressed_data_at
        /\ ireader'.latest_length = 0
    <3> HIDE DEF Slabs
    <3> QED BY <2>3 DEF ReaderTyped, Readers
  <2>5. Placed(k, Len(Blob(k)))'
    <3>1. Placed(k, j)'
      BY <2>2, <2>4 DEF Placed
    <3> QED BY <1>3, <2>2, <3>1
  <2>6. Empty(k)'
    BY <1>3, <2>2, <2>4, <2>5 DEF Empty
  <2>7. call' # NULL /\ Reads("index", k * EntrySize, EntrySize)'
    <3>1. <<>> \in Seq(FileCell) /\ Len(<<>>) = 0 /\ 1 .. 0 = {}
      OBVIOUS
    <3>2. /\ call' \in [fd : {"index"}, len : {EntrySize}, got : Seq(FileCell), result : Results]
          /\ call'.got = <<>> /\ call'.result = "running"
      BY <2>1, <3>1 DEF Results
    <3>3. call' # NULL
      BY <3>2, ReadIsCall, ReaderAssumption
    <3>4. file["index"].pos = k * EntrySize /\ k * EntrySize + 0 = k * EntrySize /\ 0 <= EntrySize
      BY <1>2, ReaderAssumption DEF Stands
    <3> QED BY <2>1, <3>1, <3>2, <3>3, <3>4 DEF Reads
  <2>8. ReadingEntry(k)'
    BY <2>1, <2>2, <2>4, <2>6, <2>7 DEF ReadingEntry, Stands
  <2> QED BY <2>2, <2>4, <2>8 DEF OrderInv
<1>4. CASE j # Len(Blob(k))
  <2>1. k \in 1 .. Len(Blobs) /\ Blob(k) = Blobs[k] /\ j + 1 \in 1 .. Len(Blobs[k])
        /\ (j + 1) - 1 = j
    <3>1. k # 0
      <4>1. k = 0 => Len(Blob(k)) = 0
        BY DEF Blob
      <4> QED BY <1>2, <1>4, <4>1
    <3>2. k \in 1 .. Len(Blobs)
      BY <1>2, <3>1
    <3>3. Blob(k) = Blobs[k]
      BY <3>2, BlobsTyped
    <3> QED BY <1>2, <1>4, <3>2, <3>3
  <2> DEFINE slab == ireader.uncompressed_slab
  <2>2. TellRecord(ireader) /\ UNCHANGED <<file, call>>
    BY <1>1, <1>4 DEF peek, fileVars
  <2>3. /\ slab \in Slabs /\ ireader \in Readers /\ slab.length = Len(BlobBytes(Blobs[k]))
        /\ Behind(slab, 0, slab.length) = BlobBytes(Blobs[k])
        /\ Here = Len(JoinedUpto(Spelled(Blobs[k]), (j + 1) - 1))
    <3> HIDE DEF Slabs
    <3> QED BY <1>1, <2>1 DEF Placed, ReaderTyped, Readers
  <2>4. HasTold(k, j + 1) /\ ireader'.heap_offset = ireader.heap_offset
    <3> DEFINE i == j + 1
               off == Here
    <3>1. i \in 1 .. Len(Blobs[k]) /\ off = Len(JoinedUpto(Spelled(Blobs[k]), i - 1)) /\ off \in Nat
      BY <1>1, <2>1, <2>3
    <3> HIDE DEF i, off, slab
    <3>2. HasTold(k, i) /\ ireader'.heap_offset = ireader.heap_offset
      <4>1. /\ TellRecord(ireader) /\ slab = ireader.uncompressed_slab
            /\ ireader.uncompressed_data_at.off = off
        BY <2>2 DEF off, slab, Here
      <4> QED BY <2>1, <2>3, <3>1, <4>1, Tells
    <3> QED BY <3>2 DEF i
  <2>5. WroteInv' /\ FilesInv' /\ Blobs' = Blobs /\ InHeap' = InHeap /\ Blob(k)' = Blob(k)
    BY <2>2, FilesKept
  <2>6. passed' = Len(JoinedUpto(Blobs, k - 1)) + ((j + 1) - 1)
    BY <1>4, <2>1
  <2>7. Stands(k)'
    BY <2>2, <2>4, <2>5 DEF Stands
  <2>8. InHand(k, j + 1)'
    <3> DEFINE i == j + 1
    <3>1. HasTold(k, i) /\ passed' = Len(JoinedUpto(Blobs, k - 1)) + (i - 1) /\ k > 0 /\ i > 0
      BY <1>2, <2>1, <2>4, <2>6
    <3> HIDE DEF i
    <3>2. call' = NULL
      BY <2>2
    <3>3. InHand(k, i)'
      BY <2>5, <2>7, <3>1, <3>2 DEF InHand, HasTold
    <3> QED BY <3>3 DEF i
  <2>9. j + 1 \in 0 .. Len(Blob(k))'
    BY <1>2, <2>1, <2>5
  <2>10. ReaderTyped'
    BY <2>4 DEF HasTold
  <2> QED BY <2>5, <2>8, <2>9, <2>10 DEF OrderInv
<1> QED BY <1>3, <1>4

(* What a caller may call in.                                              *)
LEMMA CallerHas ==
  ASSUME OrderInv, MayCall
  PROVE  /\ WroteInv /\ FilesInv /\ ReaderTyped /\ call = NULL
         /\ \E k \in 0 .. Len(Blobs) : Waiting(k) \/ \E j \in 0 .. Len(Blob(k)) : InHand(k, j)
<1>1. ~Failed /\ call = NULL
  BY DEF MayCall, Failed
<1> QED BY <1>1 DEF OrderInv, ReadingEntry, ReadingBlob

LEMMA PeekOrders ==
  ASSUME OrderInv, Peek
  PROVE  OrderInv'
<1>1. /\ WroteInv /\ FilesInv /\ ReaderTyped /\ call = NULL /\ peek(ireader.latest_length)
      /\ UNCHANGED wrote /\ UNCHANGED passed
  BY CallerHas DEF Peek
<1>2. PICK k \in 0 .. Len(Blobs) : Waiting(k) \/ \E j \in 0 .. Len(Blob(k)) : InHand(k, j)
  BY CallerHas DEF Peek
<1>3. CASE Waiting(k)
  <2>1. /\ Placed(k, Len(Blob(k))) /\ Stands(k) /\ peek(0) /\ passed' = Len(JoinedUpto(Blobs, k))
        /\ Len(Blob(k)) \in 0 .. Len(Blob(k))
    BY <1>1, <1>3, BlobsTyped DEF Waiting, Empty
  <2> DEFINE j == Len(Blob(k))
  <2>2. j \in 0 .. Len(Blob(k)) /\ Placed(k, j) /\ j = Len(Blob(k))
    BY <2>1
  <2> HIDE DEF j
  <2> QED BY <1>1, <2>1, <2>2, NextIsTold
<1>4. ASSUME NEW j \in 0 .. Len(Blob(k)), InHand(k, j)
      PROVE  OrderInv'
  <2>1. k \in 1 .. Len(Blobs) /\ j \in 1 .. Len(Blob(k)) /\ Blob(k) = Blobs[k]
    <3>1. k > 0 /\ j > 0
      BY <1>4 DEF InHand
    <3>2. k \in 1 .. Len(Blobs)
      BY <1>1, <3>1, BlobsTyped
    <3>3. Len(Blob(k)) \in Nat /\ Blob(k) = Blobs[k]
      BY <1>1, <3>2, BlobsTyped
    <3> QED BY <3>1, <3>2, <3>3
  <2>2. ireader.latest_length > 0
    <3> HIDE DEF Record
    <3>1. Len(Blobs[k][j].key) \in Nat \ {0} /\ Len(Blobs[k][j].value) \in Nat
      BY <1>1, <2>1, BlobsTyped
    <3>2. PICK a \in Nat \ {0}, b \in Nat : a = Len(Blobs[k][j].key) /\ b = Len(Blobs[k][j].value)
      BY <3>1
    <3>3. ireader.latest_length = a + b
      BY <1>4, <3>2 DEF InHand
    <3> QED BY <3>3
  <2>3. /\ told' = [result |-> "OK",
                    data |-> [ireader.uncompressed_data_at EXCEPT !.off = @ - ireader.latest_length],
                    length |-> ireader.latest_length]
        /\ UNCHANGED <<file, call, ireader>>
    BY <1>1, <2>2 DEF peek, Deliver, fileVars
  <2>4. told' = told
    BY <1>4, <2>3 DEF InHand
  <2>5. WroteInv' /\ FilesInv' /\ Blobs' = Blobs /\ InHeap' = InHeap /\ Blob(k)' = Blob(k)
    BY <1>1, <2>3, FilesKept
  <2>6. InHand(k, j)' /\ ReaderTyped'
    <3>1. Placed(k, j)' /\ Stands(k)' /\ ReaderTyped'
      BY <1>1, <1>4, <2>3, <2>5 DEF InHand, Placed, Stands, ReaderTyped
    <3> QED BY <1>1, <1>4, <2>3, <2>4, <2>5, <3>1 DEF InHand
  <2> QED BY <2>5, <2>6 DEF OrderInv
<1> QED BY <1>2, <1>3, <1>4

LEMMA AdvanceOrders ==
  ASSUME OrderInv, Advance
  PROVE  OrderInv'
<1>1. /\ WroteInv /\ FilesInv /\ ReaderTyped /\ call = NULL /\ peek(0) /\ UNCHANGED wrote
      /\ passed' = IF told.result = "OK" THEN passed + 1 ELSE passed
  BY CallerHas DEF Advance
<1>2. PICK k \in 0 .. Len(Blobs) : Waiting(k) \/ \E j \in 0 .. Len(Blob(k)) : InHand(k, j)
  BY CallerHas DEF Advance
<1>3. CASE Waiting(k)
  <2>1. /\ Placed(k, Len(Blob(k))) /\ Stands(k) /\ passed' = Len(JoinedUpto(Blobs, k))
        /\ Len(Blob(k)) \in 0 .. Len(Blob(k))
    <3>1. told.result # "OK"
      BY <1>3 DEF Waiting
    <3> QED BY <1>1, <1>3, <3>1, BlobsTyped DEF Waiting, Empty
  <2> DEFINE j == Len(Blob(k))
  <2>2. j \in 0 .. Len(Blob(k)) /\ Placed(k, j) /\ j = Len(Blob(k))
    BY <2>1
  <2> HIDE DEF j
  <2> QED BY <1>1, <2>1, <2>2, NextIsTold
<1>4. ASSUME NEW j \in 0 .. Len(Blob(k)), InHand(k, j)
      PROVE  OrderInv'
  <2>1. k \in 1 .. Len(Blobs) /\ j \in Nat
    BY <1>1, <1>4, BlobsTyped DEF InHand
  <2>2. PICK a \in Nat, b \in Nat : a = Len(JoinedUpto(Blobs, k - 1)) /\ b = Len(Blob(k))
    BY <1>1, <2>1, PassedSo
  <2>3. Len(JoinedUpto(Blobs, k)) = a + b
    BY <1>1, <2>1, <2>2, PassedSo
  <2>4. passed' = passed + 1 /\ passed = a + (j - 1)
    BY <1>1, <1>4, <2>2 DEF InHand
  <2>5. passed' = a + j
    BY <2>1, <2>4
  <2>6. Placed(k, j) /\ Stands(k)
    BY <1>4 DEF InHand
  <2>7. j = Len(Blob(k)) => passed' = Len(JoinedUpto(Blobs, k))
    BY <2>2, <2>3, <2>5
  <2>8. j # Len(Blob(k)) => passed' = Len(JoinedUpto(Blobs, k - 1)) + j
    BY <2>2, <2>5
  <2> QED BY <1>1, <1>4, <2>6, <2>7, <2>8, NextIsTold
<1> QED BY <1>2, <1>3, <1>4

LEMMA CloseKeeps ==
  ASSUME FilesInv, Close
  PROVE  /\ FilesInv'
         /\ MovesOn /\ \A f \in Files : file'[f].bytes = file[f].bytes /\ file'[f].pos = file[f].pos
<1>1. file' = [f \in Files |-> [file[f] EXCEPT !.open = FALSE]]
  BY DEF Close
<1>2. ASSUME NEW f \in Files
      PROVE  /\ file'[f] \in [bytes : Seq(FileCell), pos : Nat, open : BOOLEAN]
             /\ file'[f].bytes = file[f].bytes /\ file'[f].pos = file[f].pos
  <2> DEFINE T == Seq(FileCell)
             x == file[f]
  <2>1. x \in [bytes : T, pos : Nat, open : BOOLEAN] /\ file'[f] = [x EXCEPT !.open = FALSE]
    BY <1>1, FileFields
  <2> HIDE DEF T, x
  <2>2. /\ file'[f] \in [bytes : T, pos : Nat, open : BOOLEAN]
        /\ file'[f].bytes = x.bytes /\ file'[f].pos = x.pos
    BY <2>1
  <2> QED BY <2>2 DEF T, x
<1>3. file' \in [Files -> [bytes : Seq(FileCell), pos : Nat, open : BOOLEAN]]
  <2> DEFINE R == [bytes : Seq(FileCell), pos : Nat, open : BOOLEAN]
             h == [f \in Files |-> [file[f] EXCEPT !.open = FALSE]]
  <2>1. file' = h /\ \A f \in Files : file'[f] \in R
    BY <1>1, <1>2
  <2>2. h = [f \in Files |-> h[f]]
    OBVIOUS
  <2> HIDE DEF R, h
  <2>3. file' \in [Files -> R]
    BY <2>1, <2>2
  <2> QED BY <2>3 DEF R
<1>4. \A f \in Files : file[f].pos \in Nat /\ file[f].pos <= Len(file[f].bytes)
  BY FileFields
<1>5. MovesOn
  BY <1>2, <1>4 DEF MovesOn
<1>6. \A f \in Files : file'[f].bytes = file[f].bytes /\ file'[f].pos = file[f].pos
  BY <1>2
<1> QED BY <1>3, <1>4, <1>5, <1>6, BytesKept

LEMMA CloseOrders ==
  ASSUME OrderInv, Close
  PROVE  OrderInv'
<1>1. call = NULL /\ UNCHANGED <<call, ireader, wrote, told, passed>>
  BY DEF Close
<1>2. WroteInv /\ FilesInv /\ WroteInv' /\ Blobs' = Blobs /\ InHeap' = InHeap /\ \A k : Blob(k)' = Blob(k)
  BY <1>1 DEF OrderInv, WroteInv, Blobs, InHeap, Blob
<1>3. \A f \in Files : file'[f].bytes = file[f].bytes /\ file'[f].pos = file[f].pos
  BY <1>2, CloseKeeps
<1>4. FilesInv'
  BY <1>2, CloseKeeps
<1>5. CASE Failed
  BY <1>1, <1>2, <1>4, <1>5 DEF OrderInv, Failed
<1>6. CASE ~Failed
  <2>1. ReaderTyped /\ ReaderTyped'
    BY <1>1, <1>6 DEF OrderInv, ReaderTyped
  <2>2. PICK k \in 0 .. Len(Blobs) : Waiting(k) \/ \E j \in 0 .. Len(Blob(k)) : InHand(k, j)
    BY <1>1, <1>6 DEF OrderInv, ReadingEntry, ReadingBlob
  <2>3. /\ file'["index"].bytes = file["index"].bytes /\ file'["index"].pos = file["index"].pos
        /\ file'["heap"].pos = file["heap"].pos
    BY <1>3, ReaderAssumption
  <2>4. Stands(k) => Stands(k)'
    BY <1>1, <1>2, <2>3 DEF Stands
  <2>5. \A j \in 0 .. Len(Blob(k)) : Placed(k, j) => Placed(k, j)'
    BY <1>1, <1>2 DEF Placed
  <2>6. CASE Waiting(k)
    <3>1. Empty(k)'
      BY <1>1, <2>6, PlacesKept DEF Waiting
    <3>2. Waiting(k)'
      BY <1>1, <2>3, <2>4, <2>6, <3>1 DEF Waiting
    <3> QED BY <1>2, <1>4, <2>1, <3>2 DEF OrderInv
  <2>7. ASSUME NEW j \in 0 .. Len(Blob(k)), InHand(k, j)
        PROVE  OrderInv'
    <3>1. InHand(k, j)'
      BY <1>1, <1>2, <2>4, <2>5, <2>7 DEF InHand
    <3> QED BY <1>2, <1>4, <2>1, <3>1 DEF OrderInv
  <2> QED BY <2>2, <2>6, <2>7
<1> QED BY <1>5, <1>6

-----------------------------------------------------------------------------
(* What the reader has read of a file that is as it was written.           *)

LEMMA ReadMeans ==
  ASSUME NEW S, NEW s \in Seq(S), NEW t \in Seq(S), NEW p \in 0 .. Len(s)
  PROVE  IsPrefix(SubSeq(s, 1, p), t) <=> p <= Len(t) /\ \A i \in 1 .. p : s[i] = t[i]
<1> DEFINE u == SubSeq(s, 1, p)
<1>1. u \in Seq(S) /\ Len(u) = p /\ (\A i \in 1 .. p : u[i] = s[i]) /\ p \in Nat
  BY CutSeq
<1>2. Len(t) \in Nat
  BY LenProperties
<1>3. SubSeq(u, 1, p) = u
  BY <1>1, SubSeqFull
<1> HIDE DEF u
<1>4. CASE p <= Len(t)
  <2> DEFINE v == SubSeq(t, 1, p)
  <2>1. p \in 0 .. Len(t)
    BY <1>1, <1>2, <1>4
  <2>2. v \in Seq(S) /\ Len(v) = p /\ \A i \in 1 .. p : v[i] = t[i]
    BY <2>1, CutSeq
  <2> HIDE DEF v
  <2>3. u = v <=> \A i \in 1 .. p : u[i] = v[i]
    <3>1. ASSUME \A i \in 1 .. p : u[i] = v[i] PROVE u = v
      BY ONLY <1>1, <2>2, <3>1, SeqEqual
    <3> QED BY <3>1
  <2>4. IsPrefix(u, t) <=> u = v
    BY <1>1, <1>3, <1>4 DEF IsPrefix, v
  <2>5. (\A i \in 1 .. p : u[i] = v[i]) <=> \A i \in 1 .. p : s[i] = t[i]
    BY ONLY <1>1, <2>2
  <2> QED BY <1>4, <2>3, <2>4, <2>5 DEF u
<1>5. CASE ~(p <= Len(t))
  BY <1>1, <1>5 DEF IsPrefix, u
<1> QED BY <1>4, <1>5

LEMMA OriginalTyped ==
  ASSUME WroteInv, NEW f \in Files
  PROVE  Original(f) \in Seq(FileCell)
<1>1. wrote.heap \in Seq(Cell) /\ EntryBytes(wrote.entries) \in Seq(Entry \X Nat)
  BY HeapPlaces, IndexPlaces
<1>2. wrote.heap \in Seq(FileCell) /\ EntryBytes(wrote.entries) \in Seq(FileCell)
  BY <1>1, CellsAreFileCells
<1> QED BY <1>2 DEF Original

LEMMA ReadFrom ==
  ASSUME WroteInv, FilesInv, ReadAsWritten, NEW f \in Files
  PROVE  /\ file[f].pos \in Nat /\ file[f].pos <= Len(Original(f))
         /\ \A i \in 1 .. file[f].pos : file[f].bytes[i] = Original(f)[i]
<1> DEFINE s == file[f].bytes
           t == Original(f)
           p == file[f].pos
<1>1. s \in Seq(FileCell) /\ t \in Seq(FileCell) /\ p \in Nat /\ p \in 0 .. Len(s)
  BY FileFields, OriginalTyped
<1>2. IsPrefix(SubSeq(s, 1, p), t)
  BY DEF ReadAsWritten
<1> HIDE DEF s, t, p, FileCell
<1>3. p <= Len(t) /\ \A i \in 1 .. p : s[i] = t[i]
  BY <1>1, <1>2, ReadMeans
<1> QED BY <1>1, <1>3 DEF s, t, p

LEMMA ReadFromIndex ==
  ASSUME WroteInv, FilesInv, ReadAsWritten
  PROVE  /\ file["index"].pos \in Nat /\ file["index"].pos <= Len(EntryBytes(wrote.entries))
         /\ \A i \in 1 .. file["index"].pos :
              file["index"].bytes[i] = EntryBytes(wrote.entries)[i]
<1>1. "index" \in Files /\ Original("index") = EntryBytes(wrote.entries)
  BY ReaderAssumption DEF Original
<1> QED BY <1>1, ReadFrom

LEMMA ReadFromHeap ==
  ASSUME WroteInv, FilesInv, ReadAsWritten
  PROVE  \A i \in 1 .. file["heap"].pos : file["heap"].bytes[i] = wrote.heap[i]
<1>1. "heap" \in Files /\ Original("heap") = wrote.heap
  BY ReaderAssumption DEF Original
<1> QED BY <1>1, ReadFrom

(* A reader that has read only what was written had read only that before. *)
LEMMA AsWrittenBefore ==
  ASSUME WroteInv, FilesInv, FilesInv', UNCHANGED wrote, ReadAsWritten',
         \A f \in Files : file'[f].bytes = file[f].bytes /\ file'[f].pos >= file[f].pos
  PROVE  ReadAsWritten
<1>1. SUFFICES ASSUME NEW f \in Files PROVE IsPrefix(SubSeq(file[f].bytes, 1, file[f].pos), Original(f))
  BY DEF ReadAsWritten
<1> DEFINE s == file[f].bytes
           t == Original(f)
           p == file[f].pos
           q == file'[f].pos
<1>2. s \in Seq(FileCell) /\ t \in Seq(FileCell) /\ p \in Nat /\ p \in 0 .. Len(s) /\ Len(t) \in Nat
  BY FileFields, OriginalTyped, LenProperties
<1>3. q \in Nat /\ q \in 0 .. Len(s) /\ q >= p
  <2>1. file'[f] \in [bytes : Seq(FileCell), pos : Nat, open : BOOLEAN] /\ q <= Len(file'[f].bytes)
    BY DEF FilesInv
  <2>2. q \in Nat
    <3> HIDE DEF FileCell
    <3> QED BY <2>1
  <2>3. file'[f].bytes = s /\ q >= p
    OBVIOUS
  <2>4. Len(s) \in Nat
    BY FileFields
  <2> QED BY <2>1, <2>2, <2>3, <2>4
<1>4. IsPrefix(SubSeq(s, 1, q), t)
  <2>1. Original(f)' = t /\ file'[f].bytes = s
    BY DEF Original
  <2>2. IsPrefix(SubSeq(file'[f].bytes, 1, q), Original(f)')
    BY DEF ReadAsWritten
  <2> QED BY <2>1, <2>2
<1> HIDE DEF s, t, p, q, FileCell
<1>5. q <= Len(t) /\ \A i \in 1 .. q : s[i] = t[i]
  BY <1>2, <1>3, <1>4, ReadMeans
<1>6. p <= Len(t) /\ \A i \in 1 .. p : s[i] = t[i]
  BY <1>2, <1>3, <1>5
<1>7. IsPrefix(SubSeq(s, 1, p), t)
  BY <1>2, <1>6, ReadMeans
<1> QED BY <1>7 DEF s, t, p

-----------------------------------------------------------------------------
(* The reader goes on with what has been read.                             *)

LEMMA EntriesBefore ==
  ASSUME NEW a \in Nat, NEW b \in Nat, NEW e \in Nat \ {0}, a * e + e <= b * e
  PROVE  a + 1 <= b /\ (a + 1) * e = a * e + e
<1>1. (a + 1) * e = a * e + e
  OBVIOUS
<1>2. CASE b <= a
  <2>1. PICK d \in Nat : a = b + d
    <3>1. a - b \in Nat /\ a = b + (a - b)
      BY <1>2
    <3> QED BY <3>1
  <2>2. a * e = b * e + d * e /\ d * e \in Nat /\ b * e \in Nat
    BY <2>1
  <2>3. FALSE
    BY <2>2
  <2> QED BY <2>3
<1> QED BY <1>1, <1>2

(* What is being read.                                                     *)
LEMMA ReaderReads ==
  ASSUME OrderInv, call # NULL
  PROVE  /\ WroteInv /\ FilesInv /\ ReaderTyped
         /\ \E k \in 0 .. Len(Blobs) : \/ ReadingEntry(k) /\ call.fd = "index"
                                       \/ ReadingBlob(k) /\ call.fd = "heap"
<1>1. WroteInv /\ FilesInv /\ ReaderTyped
  BY DEF OrderInv, Failed
<1>2. PICK k \in 0 .. Len(Blobs) : ReadingEntry(k) \/ ReadingBlob(k)
  BY DEF OrderInv, Failed, InHand, Waiting
<1>3. ReadingEntry(k) => call.fd = "index"
  BY DEF ReadingEntry, Reads
<1>4. ReadingBlob(k) => call.fd = "heap"
  BY DEF ReadingBlob, Reads
<1> QED BY <1>1, <1>2, <1>3, <1>4

LEMMA NothingOrders ==
  ASSUME OrderInv, GotNothing
  PROVE  OrderInv'
<1>1. /\ call # NULL /\ call.result \in {"EOF", "ERROR"} /\ call' = NULL
      /\ told' = [result |-> IF call.fd = "index" THEN call.result ELSE "ERROR"]
      /\ UNCHANGED <<file, ireader, wrote, passed>>
  BY DEF GotNothing, Ended, Return
<1>2. WroteInv /\ FilesInv /\ ReaderTyped
  BY <1>1, ReaderReads
<1>3. WroteInv' /\ FilesInv' /\ Blobs' = Blobs /\ InHeap' = InHeap /\ ReaderTyped'
      /\ \A k : Blob(k)' = Blob(k)
  BY <1>1, <1>2, FilesKept DEF ReaderTyped
<1>4. CASE told' = [result |-> "ERROR"]
  BY <1>1, <1>3, <1>4 DEF OrderInv, Failed
<1>5. CASE told' # [result |-> "ERROR"]
  <2>1. call.fd = "index" /\ call.result = "EOF" /\ told' = [result |-> "EOF"]
    BY <1>1, <1>5
  <2>2. PICK k \in 0 .. Len(Blobs) : ReadingEntry(k)
    BY <1>1, <2>1, ReaderReads
  <2>3. /\ Len(call.got) = 0 /\ Len(file["index"].bytes) = k * EntrySize
        /\ file["index"].pos = k * EntrySize + Len(call.got)
    BY <2>1, <2>2 DEF ReadingEntry, Reads
  <2>4. k * EntrySize + 0 = k * EntrySize
    BY <1>2, ReaderAssumption, BlobsTyped
  <2>5. Stands(k)
    BY <2>2, <2>3, <2>4 DEF Stands, ReadingEntry
  <2>6. Stands(k)'
    BY <1>1, <1>3, <2>5 DEF Stands
  <2>7. Placed(k, Len(Blob(k)))'
    BY <1>1, <1>3, <2>2 DEF Placed, ReadingEntry, Empty
  <2>8. Empty(k)'
    BY <1>1, <1>3, <2>2, <2>7 DEF Empty, ReadingEntry
  <2>9. Waiting(k)'
    BY <1>1, <2>1, <2>3, <2>6, <2>8 DEF Waiting
  <2> QED BY <1>3, <2>9 DEF OrderInv
<1> QED BY <1>4, <1>5

(* The entry that has come is the one behind those that came before.       *)
LEMMA EntryHasCome ==
  ASSUME WroteInv, FilesInv, ReadAsWritten, NEW k \in 0 .. Len(Blobs), ReadingEntry(k),
         call.result = "OK"
  PROVE  /\ k + 1 \in 1 .. Len(Blobs) /\ file["index"].pos = (k + 1) * EntrySize
         /\ call.got[1][1] = wrote.entries[k + 1]
<1> DEFINE E == EntrySize
           bytes == file["index"].bytes
           all == EntryBytes(wrote.entries)
<1>1. /\ k \in Nat /\ Len(Blobs) \in Nat /\ E \in Nat \ {0} /\ Len(all) = Len(Blobs) * E
      /\ \A i \in 1 .. Len(Blobs) : \A m \in 1 .. E : all[(i - 1) * E + m] = <<wrote.entries[i], m>>
  <2>1. Len(Blobs) \in Nat /\ E \in Nat \ {0}
    BY ReaderAssumption, BlobsTyped
  <2>2. k \in Nat
    BY <2>1
  <2>3. /\ Len(all) = Len(Blobs) * EntrySize
        /\ \A i \in 1 .. Len(Blobs) : \A m \in 1 .. EntrySize :
             all[(i - 1) * EntrySize + m] = <<wrote.entries[i], m>>
    BY IndexPlaces
  <2> HIDE DEF all
  <2> QED BY <2>1, <2>2, <2>3
<1>2. /\ Len(call.got) = E /\ file["index"].pos = k * E + E
      /\ \A i \in 1 .. E : call.got[i] = bytes[k * E + i]
  BY DEF ReadingEntry, Reads
<1>3. /\ file["index"].pos \in Nat /\ file["index"].pos <= Len(all)
      /\ \A i \in 1 .. file["index"].pos : bytes[i] = all[i]
  BY ReadFromIndex
<1> HIDE DEF bytes, all, E
<1>4. PICK n \in Nat, len \in Nat : n = Len(Blobs) /\ len = file["index"].pos
  BY <1>1, <1>3
<1>5. k * E + E <= len /\ len <= n * E /\ k * E \in Nat /\ n * E \in Nat
  BY <1>1, <1>2, <1>3, <1>4
<1>6. k * E + E <= n * E
  <2>1. PICK x \in Nat, y \in Nat : x = k * E /\ y = n * E
    BY <1>5
  <2>2. x + E <= len /\ len <= y /\ E \in Nat
    BY <1>1, <1>5, <2>1
  <2>3. x + E <= y
    BY <2>2
  <2> QED BY <2>1, <2>3
<1>7. k + 1 <= n /\ (k + 1) * E = k * E + E
  BY <1>1, <1>6, EntriesBefore
<1>8. k + 1 \in 1 .. Len(Blobs) /\ (k + 1) - 1 = k
  BY <1>1, <1>4, <1>7
<1>9. call.got[1] = <<wrote.entries[k + 1], 1>>
  <2>1. 1 \in 1 .. E /\ k * E + 1 \in 1 .. len
    BY <1>1, <1>5
  <2>2. call.got[1] = all[k * E + 1]
    BY <1>2, <1>3, <1>4, <2>1
  <2>3. all[((k + 1) - 1) * E + 1] = <<wrote.entries[k + 1], 1>>
    BY <1>1, <1>8, <2>1
  <2> QED BY <1>8, <2>2, <2>3
<1> QED BY <1>2, <1>7, <1>8, <1>9 DEF E

LEMMA EntryOrders ==
  ASSUME OrderInv, ReadAsWritten, GotEntry
  PROVE  OrderInv'
<1>1. /\ call # NULL /\ call.result = "OK" /\ call.fd = "index"
      /\ UNCHANGED <<file, wrote, passed>>
  BY DEF GotEntry, Ended
<1>2. WroteInv /\ FilesInv /\ ReaderTyped
  BY <1>1, ReaderReads
<1>3. PICK k \in 0 .. Len(Blobs) : ReadingEntry(k)
  BY <1>1, ReaderReads
<1> DEFINE i == k + 1
           ie == wrote.entries[i]
           slab == ireader.compressed_blob_slab
<1>4. /\ i \in 1 .. Len(Blobs) /\ file["index"].pos = i * EntrySize /\ call.got[1][1] = ie /\ i - 1 = k
  <2>1. k \in Nat
    BY <1>2, BlobsTyped
  <2>2. (k + 1) - 1 = k
    BY <2>1
  <2> QED BY <1>1, <1>2, <1>3, <2>2, EntryHasCome
<1> HIDE DEF i, ie
<1>5. PICK here \in Nat, len \in Nat :
        /\ here = Len(JoinedUpto(InHeap, k)) /\ len = Len(InHeap[i])
        /\ Len(JoinedUpto(InHeap, i)) = here + len
        /\ ie.compressed_blob_offset = here /\ ie.compressed_blob_length = len
  <2>1. /\ Len(JoinedUpto(InHeap, i - 1)) \in Nat /\ Len(InHeap[i]) \in Nat
        /\ Len(JoinedUpto(InHeap, i)) = Len(JoinedUpto(InHeap, i - 1)) + Len(InHeap[i])
    BY <1>2, <1>4, HeapPlaces
  <2>2. ie.compressed_blob_offset = Len(JoinedUpto(InHeap, i - 1)) /\ ie.compressed_blob_length = Len(InHeap[i])
    BY <1>2, <1>4, EntriesTyped DEF ie
  <2> QED BY <1>4, <2>1, <2>2
<1>6. /\ ireader.heap_offset = here /\ told = [result |-> "running"] /\ Empty(k)
      /\ file["heap"].pos = here
  BY <1>3, <1>5 DEF ReadingEntry
<1>7. /\ ireader' = [ireader EXCEPT !.heap_offset = @ + len, !.compressed_blob_slab = set_size(@, len)]
      /\ call' = [fd |-> "heap", len |-> len, got |-> <<>>,
                  result |-> IF len = 0 THEN "OK" ELSE "running"]
      /\ told' = told
  BY <1>4, <1>5, <1>6 DEF GotEntry, readn
<1>8. /\ slab \in Slabs /\ set_size(slab, len) \in Slabs /\ set_size(slab, len).length = len
  <2>1. slab \in Slabs
    <3> HIDE DEF Slabs
    <3> QED BY <1>2 DEF ReaderTyped, Readers
  <2> QED BY <2>1, SetSizeIsSlab
<1>9. /\ ireader' = [heap_offset |-> here + len, compressed_blob_slab |-> set_size(slab, len),
                     uncompressed_slab |-> ireader.uncompressed_slab,
                     uncompressed_data_at |-> ireader.uncompressed_data_at,
                     latest_length |-> ireader.latest_length]
      /\ ireader.uncompressed_slab \in Slabs
      /\ ireader.uncompressed_data_at \in [data : Nat, off : Nat] /\ ireader.latest_length \in Nat
  <2> HIDE DEF Slabs
  <2> QED BY <1>2, <1>6, <1>7 DEF ReaderTyped, Readers
<1> DEFINE after == set_size(slab, len)
<1>10. /\ ReaderTyped' /\ ireader'.heap_offset = here + len
       /\ ireader'.compressed_blob_slab.length = len
       /\ ireader'.uncompressed_slab = ireader.uncompressed_slab
       /\ ireader'.uncompressed_data_at = ireader.uncompressed_data_at
       /\ ireader'.latest_length = ireader.latest_length
  <2>1. after \in Slabs /\ after.length = len /\ here + len \in Nat
    BY <1>8
  <2>2. ireader' = [heap_offset |-> here + len, compressed_blob_slab |-> after,
                    uncompressed_slab |-> ireader.uncompressed_slab,
                    uncompressed_data_at |-> ireader.uncompressed_data_at,
                    latest_length |-> ireader.latest_length]
    BY <1>9
  <2> HIDE DEF after, Slabs
  <2> QED BY <1>9, <2>1, <2>2 DEF ReaderTyped, Readers
<1>11. WroteInv' /\ FilesInv' /\ Blobs' = Blobs /\ InHeap' = InHeap /\ Blob(k)' = Blob(k)
  BY <1>1, <1>2, FilesKept
<1>12. Empty(k)'
  <2>1. Placed(k, Len(Blob(k)))'
    BY <1>6, <1>10, <1>11 DEF Placed, Empty
  <2> QED BY <1>1, <1>6, <1>10, <1>11, <2>1 DEF Empty
<1>13. call' # NULL /\ Reads("heap", here, len)'
  <2>1. <<>> \in Seq(FileCell) /\ Len(<<>>) = 0 /\ 1 .. 0 = {}
    OBVIOUS
  <2>2. /\ call' \in [fd : {"heap"}, len : {len}, got : Seq(FileCell), result : Results]
        /\ call'.got = <<>> /\ call'.result = IF len = 0 THEN "OK" ELSE "running"
    BY <1>7, <2>1 DEF Results
  <2>3. call' # NULL
    BY <2>2, ReadIsCall, ReaderAssumption
  <2>4. here + 0 = here /\ 0 <= len
    OBVIOUS
  <2> QED BY <1>1, <1>6, <2>1, <2>2, <2>3, <2>4 DEF Reads
<1>14. ReadingBlob(k)'
  <2> QED BY <1>1, <1>4, <1>5, <1>6, <1>7, <1>10, <1>11, <1>12, <1>13 DEF ReadingBlob, i
<1> QED BY <1>10, <1>11, <1>14 DEF OrderInv

(* The bytes of a blob that have come are what was written.                *)
LEMMA BlobHasCome ==
  ASSUME WroteInv, FilesInv, ReadAsWritten, NEW k \in 0 .. Len(Blobs), ReadingBlob(k),
         call.result = "OK", NEW i, i = k + 1, NEW z, z = InHeap[i]
  PROVE  /\ i \in 1 .. Len(Blobs) /\ call.got = z /\ z \in Seq(Cell)
         /\ Len(z) \in Nat /\ file["heap"].pos = Len(JoinedUpto(InHeap, i))
<1> DEFINE here == Len(JoinedUpto(InHeap, k))
           bytes == file["heap"].bytes
           all == wrote.heap
           got == call.got
<1>1. i \in 1 .. Len(Blobs) /\ i - 1 = k
  <2>1. k \in Nat
    BY BlobsTyped
  <2> QED BY <2>1 DEF ReadingBlob
<1>2. /\ here \in Nat /\ Len(z) \in Nat /\ z \in Seq(Cell)
      /\ Len(JoinedUpto(InHeap, i)) = here + Len(z) /\ here + Len(z) <= Len(all) /\ Len(all) \in Nat
      /\ \A m \in 1 .. Len(z) : all[here + m] = z[m]
  <2>1. /\ Len(JoinedUpto(InHeap, i - 1)) \in Nat /\ Len(InHeap[i]) \in Nat
        /\ Len(JoinedUpto(InHeap, i)) = Len(JoinedUpto(InHeap, i - 1)) + Len(InHeap[i])
        /\ Len(JoinedUpto(InHeap, i)) <= Len(wrote.heap)
        /\ \A m \in 1 .. Len(InHeap[i]) :
             wrote.heap[Len(JoinedUpto(InHeap, i - 1)) + m] = InHeap[i][m]
    BY <1>1, HeapPlaces
  <2>2. InHeap \in Seq(Seq(Cell)) /\ i \in 1 .. Len(InHeap) /\ Len(all) \in Nat
    BY <1>1, HeapPlaces
  <2>3. z \in Seq(Cell)
    <3> DEFINE T == Seq(Cell)
    <3>1. InHeap \in Seq(T)
      BY <2>2
    <3> HIDE DEF T
    <3>2. InHeap[i] \in T
      BY <2>2, <3>1
    <3> QED BY <3>2 DEF T
  <2> QED BY <1>1, <2>1, <2>2, <2>3
<1>3. /\ Len(got) = Len(z) /\ file["heap"].pos = here + Len(z)
      /\ \A m \in 1 .. Len(z) : got[m] = bytes[here + m]
      /\ got \in Seq(FileCell)
  BY DEF ReadingBlob, Reads
<1>4. /\ bytes \in Seq(Cell) /\ Len(bytes) \in Nat /\ here + Len(z) <= Len(bytes)
  <2>1. bytes \in Seq(Cell)
    BY DEF FilesInv
  <2> QED BY <1>3, <2>1, FileFields, ReaderAssumption
<1>5. \A m \in 1 .. file["heap"].pos : bytes[m] = all[m]
  BY ReadFromHeap
<1> HIDE DEF here
<1>6. PICK len \in Nat, l \in Nat : len = Len(z) /\ l = Len(bytes)
  BY <1>2, <1>4
<1>7. \A m \in 1 .. len : here + m \in 1 .. l /\ here + m \in 1 .. file["heap"].pos
  BY <1>2, <1>3, <1>4, <1>6
<1>8. got \in Seq(Cell)
  <2>1. \A m \in 1 .. len : got[m] \in Cell
    <3> HIDE DEF Cell, bytes, got
    <3>1. \A j \in 1 .. l : bytes[j] \in Cell
      BY <1>4, <1>6
    <3> QED BY <1>3, <1>6, <1>7, <3>1
  <2>2. got \in [1 .. len -> Cell]
    <3> DEFINE g == got
    <3>1. g \in Seq(FileCell) /\ Len(g) = len
      BY <1>3, <1>6
    <3> HIDE DEF Cell, FileCell, g
    <3>2. DOMAIN g = 1 .. len /\ g = [m \in 1 .. len |-> g[m]]
      BY <3>1
    <3>3. \A m \in 1 .. len : g[m] \in Cell
      BY <2>1 DEF g
    <3>4. g \in [1 .. len -> Cell]
      BY <3>2, <3>3
    <3> QED BY <3>4 DEF g
  <2> QED BY <2>2, FunctionIsSeq
<1>9. \A m \in 1 .. len : got[m] = z[m]
  <2> HIDE DEF bytes, got, all
  <2> QED BY <1>2, <1>3, <1>5, <1>6, <1>7
<1>10. got = z
  <2> HIDE DEF got, Cell
  <2>1. got \in Seq(Cell) /\ z \in Seq(Cell) /\ Len(got) = Len(z)
    BY <1>2, <1>3, <1>8
  <2>2. \A m \in 1 .. Len(got) : got[m] = z[m]
    BY <1>3, <1>6, <1>9
  <2> QED BY ONLY <2>1, <2>2, SeqEqual
<1> QED BY <1>1, <1>2, <1>3, <1>10

LEMMA BlobOrders ==
  ASSUME OrderInv, ReadAsWritten, GotBlob
  PROVE  OrderInv'
<1>1. /\ call # NULL /\ call.result = "OK" /\ call.fd = "heap" /\ call' = NULL
      /\ UNCHANGED <<file, wrote, passed>>
  BY DEF GotBlob, Ended
<1>2. WroteInv /\ FilesInv /\ ReaderTyped
  BY <1>1, ReaderReads
<1>3. PICK k \in 0 .. Len(Blobs) : ReadingBlob(k)
  BY <1>1, ReaderReads
<1>4. WroteInv' /\ FilesInv' /\ Blobs' = Blobs /\ InHeap' = InHeap /\ \A b : Blob(b)' = Blob(b)
  BY <1>1, <1>2, FilesKept
<1> DEFINE i == k + 1
           z == InHeap[i]
           got == call.got
           slab == ireader.compressed_blob_slab
           comp == Copied(slab, 0, got)
           s == BlobBytes(Blobs[i])
           dec == set_data(ireader.uncompressed_slab, s)
           r == [[ireader EXCEPT !.compressed_blob_slab = comp]
                   EXCEPT !.uncompressed_slab = dec, !.uncompressed_data_at = Pointer(dec, 0)]
<1>5. /\ i \in 1 .. Len(Blobs) /\ got = z /\ z \in Seq(Cell) /\ got \in Seq(Cell)
      /\ Len(z) \in Nat /\ Len(got) = Len(z) /\ file["heap"].pos = Len(JoinedUpto(InHeap, i))
  <2> HIDE DEF z, got
  <2>1. z = InHeap[i]
    BY DEF z
  <2> HIDE DEF i
  <2>2. i = k + 1
    BY DEF i
  <2> QED BY <1>1, <1>2, <1>3, <2>1, <2>2, BlobHasCome DEF got
<1>6. /\ ireader.heap_offset = Len(JoinedUpto(InHeap, i)) /\ slab.length = Len(z)
      /\ file["index"].pos = i * EntrySize
      /\ passed = Len(JoinedUpto(Blobs, k)) /\ i - 1 = k /\ i > 0
  <2>1. k \in Nat
    BY <1>2, BlobsTyped
  <2>2. i - 1 = k /\ i > 0
    BY <2>1
  <2> QED BY <1>3, <2>2 DEF ReadingBlob, Empty
<1>7. /\ slab \in Slabs /\ ireader.uncompressed_slab \in Slabs /\ ireader.heap_offset \in Nat
      /\ ireader.uncompressed_data_at \in [data : Nat, off : Nat] /\ ireader.latest_length \in Nat
      /\ ireader = [heap_offset |-> ireader.heap_offset, compressed_blob_slab |-> slab,
                    uncompressed_slab |-> ireader.uncompressed_slab,
                    uncompressed_data_at |-> ireader.uncompressed_data_at,
                    latest_length |-> ireader.latest_length]
  <2> HIDE DEF Slabs
  <2> QED BY <1>2 DEF ReaderTyped, Readers
<1>8. comp \in Slabs /\ Behind(comp, 0, comp.length) = got
  <2> HIDE DEF slab, got, z, Slabs, Cell
  <2>1. Len(got) <= slab.length
    <3>1. slab.length \in Nat
      BY <1>7, SlabFields
    <3> QED BY <1>5, <1>6, <3>1
  <2>2. /\ comp \in Slabs /\ comp.length = slab.length
        /\ Behind(comp, 0, Len(got)) = got
    BY <1>5, <1>7, <2>1, CopiedIsThere
  <2> QED BY <1>5, <1>6, <2>2
<1>9. /\ wrote.algo \in {NONE, ZLIB, SNAPPY} /\ z = Compressed(wrote.algo, s)
      /\ s \in Seq(Raw) /\ Blobs[i] \in Seq(Record)
  <2>1. Blobs[i] \in Seq(Record)
    <3>1. Blobs \in Seq(Seq(Record))
      BY <1>2, BlobsTyped
    <3> HIDE DEF i, Record
    <3> QED BY ONLY <1>5, <3>1, ElementOfSeq
  <2>2. z = Compressed(wrote.algo, s)
    BY <1>2, <1>5, HeapPlaces
  <2>3. s \in Seq(Raw)
    BY <2>1, BlobSpelled
  <2> QED BY <1>2, <2>1, <2>2, <2>3 DEF WroteInv
<1>10. TellRecord(r)
  <2> DEFINE outs == bulp_decompress(wrote.algo, Behind(comp, 0, comp.length),
                                     ireader.uncompressed_slab)
             w == [ireader EXCEPT !.compressed_blob_slab = comp]
             out(a) == [w EXCEPT !.uncompressed_slab = a, !.uncompressed_data_at = Pointer(a, 0)]
  <2>1. outs = {[ok |-> TRUE, slab |-> dec]}
    <3>1. Behind(comp, 0, comp.length) = Compressed(wrote.algo, s)
      BY <1>5, <1>8, <1>9
    <3> DEFINE algo == wrote.algo
               y == ireader.uncompressed_slab
    <3>2. algo \in {NONE, ZLIB, SNAPPY} /\ y \in Slabs /\ s \in Seq(Raw)
      BY <1>7, <1>9
    <3>3. outs = bulp_decompress(algo, Compressed(algo, s), y) /\ dec = set_data(y, s)
      BY <3>1
    <3> HIDE DEF s, algo, y, outs, dec, Slabs
    <3> QED BY <3>2, <3>3, DecompressTells
  <2>2. \E o \in outs : IF o.ok THEN TellRecord(out(o.slab))
                        ELSE ireader' = [w EXCEPT !.uncompressed_slab = o.slab] /\ Return("ERROR")
    <3> HIDE DEF TellRecord
    <3> QED BY DEF GotBlob
  <2> HIDE DEF outs, TellRecord, dec
  <2>3. TellRecord(out(dec))
    <3> HIDE DEF out
    <3> QED BY <2>1, <2>2
  <2> QED BY <2>3 DEF w, out
<1> HIDE DEF comp
<1>12. OrderInv'
  <2>2. dec \in Slabs /\ dec.length = Len(s) /\ Behind(dec, 0, dec.length) = s
    <3>1. s \in Seq(Cell)
      BY <1>9, RawAreCells
    <3> HIDE DEF s
    <3> QED BY <1>7, <3>1, SetDataIsThere
  <2>3. /\ r = [heap_offset |-> ireader.heap_offset, compressed_blob_slab |-> comp,
                uncompressed_slab |-> dec,
                uncompressed_data_at |-> [data |-> dec.data, off |-> 0],
                latest_length |-> ireader.latest_length]
    <3> DEFINE w == ireader
               y == ireader.uncompressed_slab
               place == Pointer(dec, 0)
    <3>1. w = [heap_offset |-> w.heap_offset, compressed_blob_slab |-> slab,
               uncompressed_slab |-> y, uncompressed_data_at |-> w.uncompressed_data_at,
               latest_length |-> w.latest_length]
      BY <1>7
    <3>2. r = [[w EXCEPT !.compressed_blob_slab = comp]
                 EXCEPT !.uncompressed_slab = dec, !.uncompressed_data_at = place]
      OBVIOUS
    <3>3. place = [data |-> dec.data, off |-> 0]
      BY DEF Pointer
    <3> HIDE DEF w, r, dec, slab, y, place
    <3>4. r = [heap_offset |-> w.heap_offset, compressed_blob_slab |-> comp,
               uncompressed_slab |-> dec, uncompressed_data_at |-> place,
               latest_length |-> w.latest_length]
      BY <3>1, <3>2
    <3> QED BY <3>3, <3>4 DEF w
  <2>4. /\ r \in Readers /\ r.uncompressed_slab = dec /\ r.heap_offset = ireader.heap_offset
        /\ r.uncompressed_data_at.off = 0
    <3>1. dec.data \in Nat
      BY <2>2, SlabFields
    <3>2. [data |-> dec.data, off |-> 0] \in [data : Nat, off : Nat]
      BY <3>1
    <3> HIDE DEF dec, Slabs, r
    <3> QED BY <1>7, <1>8, <2>2, <2>3, <3>2 DEF Readers
  <2>5. TellRecord(r)
    BY <1>10
  <2>6. 0 = Len(JoinedUpto(Spelled(Blobs[i]), 1 - 1)) /\ 1 \in 1 .. Len(Blobs[i])
    <3>1. Len(Blobs[i]) \in Nat /\ Len(Blobs[i]) > 0
      BY <1>2, <1>5, BlobsTyped, <1>9, BlobSpelled
    <3>2. JoinedUpto(Spelled(Blobs[i]), 0) = <<>>
      <4>1. Spelled(Blobs[i]) \in Seq(Seq(Raw))
        BY <1>9, BlobSpelled
      <4> QED BY <4>1, UptoJoins
    <3>3. Len(<<>>) = 0 /\ 1 - 1 = 0
      OBVIOUS
    <3> QED BY <3>1, <3>2, <3>3
  <2> HIDE DEF dec, r, i
  <2>7. dec.length = Len(BlobBytes(Blobs[i])) /\ Behind(dec, 0, dec.length) = BlobBytes(Blobs[i])
    BY <2>2
  <2>8. HasTold(i, 1) /\ ireader'.heap_offset = r.heap_offset
    <3>1. PICK off \in Nat, j \in {1} : off = 0 /\ j = 1
      OBVIOUS
    <3>2. off = Len(JoinedUpto(Spelled(Blobs[i]), j - 1)) /\ j \in 1 .. Len(Blobs[i])
          /\ TellRecord(r) /\ r.uncompressed_data_at.off = off
      BY <2>4, <2>5, <2>6, <3>1
    <3>3. HasTold(i, j) /\ ireader'.heap_offset = r.heap_offset
      BY <1>1, <1>2, <1>5, <2>2, <2>4, <2>7, <3>2, Tells
    <3> QED BY <3>1, <3>3
  <2>9. Stands(i)'
    BY <1>1, <1>4, <1>5, <1>6, <2>4, <2>8 DEF Stands
  <2>10. passed' = Len(JoinedUpto(Blobs, i - 1)) + (1 - 1)
    <3>1. k \in 0 .. Len(Blobs) /\ Len(JoinedUpto(Blobs, i - 1)) \in Nat
      BY <1>2, <1>5, PassedSo
    <3>2. PICK n \in Nat : n = Len(JoinedUpto(Blobs, i - 1))
      BY <3>1
    <3>3. n + (1 - 1) = n
      OBVIOUS
    <3> QED BY <1>1, <1>6, <3>2, <3>3
  <2>11. InHand(i, 1)'
    <3>1. 1 > 0
      OBVIOUS
    <3> QED BY <1>1, <1>4, <1>6, <2>8, <2>9, <2>10, <3>1 DEF InHand, HasTold
  <2>12. i \in 0 .. Len(Blobs)' /\ 1 \in 0 .. Len(Blob(i))' /\ ReaderTyped'
    <3>1. Blob(i) = Blobs[i] /\ i \in 0 .. Len(Blobs)
      BY <1>2, <1>5, BlobsTyped
    <3>2. 1 \in 0 .. Len(Blobs[i])
      BY <2>6
    <3>3. Blob(i)' = Blob(i) /\ Blobs' = Blobs
      BY <1>4
    <3> QED BY <2>8, <3>1, <3>2, <3>3 DEF HasTold
  <2> QED BY <1>4, <2>11, <2>12 DEF OrderInv
<1> QED BY <1>12

LEMMA StepOrders == OrderInv /\ ReadAsWritten /\ [Next]_vars => OrderInv'
<1> SUFFICES ASSUME OrderInv, ReadAsWritten, [Next]_vars PROVE OrderInv'
  OBVIOUS
<1>1. CASE Peek
  BY <1>1, PeekOrders
<1>2. CASE Advance
  BY <1>2, AdvanceOrders
<1>3. CASE Close
  BY <1>3, CloseOrders
<1>4. CASE KernelStep
  BY <1>4, KernelOrders
<1>5. CASE GotEntry
  BY <1>5, EntryOrders
<1>6. CASE GotBlob
  BY <1>6, BlobOrders
<1>7. CASE GotNothing
  BY <1>7, NothingOrders
<1>8. CASE UNCHANGED vars
  <2>1. UNCHANGED <<file, call, ireader, wrote, told, passed>>
    BY <1>8 DEF vars, fileVars
  <2>2. WroteInv /\ FilesInv
    BY DEF OrderInv
  <2>3. WroteInv' /\ FilesInv' /\ Blobs' = Blobs /\ InHeap' = InHeap /\ \A k : Blob(k)' = Blob(k)
    BY <2>1, <2>2, FilesKept
  <2>4. CASE Failed
    BY <2>1, <2>3, <2>4 DEF OrderInv, Failed
  <2>5. ASSUME ReaderTyped, NEW k \in 0 .. Len(Blobs), Waiting(k) \/ ReadingEntry(k) \/ ReadingBlob(k)
        PROVE  OrderInv'
    <3>1. Empty(k)'
      BY <2>1, <2>5, PlacesKept DEF Waiting, ReadingEntry, ReadingBlob
    <3>2. Stands(k) => Stands(k)'
      BY <2>1, <2>3 DEF Stands
    <3>3. \A f, a, b : Reads(f, a, b) => Reads(f, a, b)'
      BY <2>1 DEF Reads
    <3>4. Waiting(k) => Waiting(k)'
      BY <2>1, <2>3, <3>1, <3>2 DEF Waiting
    <3>5. ReadingEntry(k) => ReadingEntry(k)'
      BY <2>1, <2>3, <3>1, <3>3 DEF ReadingEntry
    <3>6. ReadingBlob(k) => ReadingBlob(k)'
      BY <2>1, <2>3, <3>1, <3>3 DEF ReadingBlob
    <3>7. ReaderTyped'
      BY <2>1, <2>5 DEF ReaderTyped
    <3> QED BY <2>3, <2>5, <3>4, <3>5, <3>6, <3>7 DEF OrderInv
  <2>6. ASSUME ReaderTyped, NEW k \in 0 .. Len(Blobs), NEW j \in 0 .. Len(Blob(k)), InHand(k, j)
        PROVE  OrderInv'
    <3>1. Placed(k, j)' /\ Stands(k)' /\ ReaderTyped'
      BY <2>1, <2>3, <2>6 DEF InHand, Placed, Stands, ReaderTyped
    <3>2. InHand(k, j)'
      BY <2>1, <2>3, <2>6, <3>1 DEF InHand
    <3> QED BY <2>3, <3>1, <3>2 DEF OrderInv
  <2> QED BY <2>4, <2>5, <2>6 DEF OrderInv
<1> QED BY <1>1, <1>2, <1>3, <1>4, <1>5, <1>6, <1>7, <1>8 DEF Next, ReaderGoesOn

-----------------------------------------------------------------------------
(* What the places say of the caller's records.                            *)

LEMMA CutMiddle ==
  ASSUME NEW S, NEW s \in Seq(S), NEW p \in Nat, NEW n \in Nat, p + n <= Len(s)
  PROVE  /\ SubSeq(s, p + 1, p + n) \in Seq(S) /\ Len(SubSeq(s, p + 1, p + n)) = n
         /\ \A m \in 1 .. n : SubSeq(s, p + 1, p + n)[m] = s[p + m]
<1> DEFINE a == p + 1
           b == p + n
           d == SubSeq(s, a, b)
<1>1. /\ a \in Int /\ b \in Int /\ (b - a) + 1 = n /\ (a <= b <=> n > 0)
      /\ \A m \in Nat : (a + m) - 1 = p + m
  OBVIOUS
<1>2. \A i \in a .. b : s[i] \in S
  <2>1. Len(s) \in Nat
    OBVIOUS
  <2>2. \A i \in a .. b : i \in 1 .. Len(s)
    BY <2>1
  <2> QED BY <2>2
<1> HIDE DEF a, b
<1>3. /\ d \in Seq(S) /\ Len(d) = IF a <= b THEN b - a + 1 ELSE 0
      /\ \A i \in 1 .. b - a + 1 : d[i] = s[a + i - 1]
  BY <1>1, <1>2, SubSeqProperties
<1> HIDE DEF d
<1>4. Len(d) = n
  BY <1>1, <1>3
<1>5. ASSUME NEW m \in 1 .. n PROVE d[m] = s[p + m]
  <2>1. m \in 1 .. b - a + 1 /\ a + m - 1 = p + m
    BY <1>1
  <2> QED BY <1>3, <2>1
<1> QED BY <1>3, <1>4, <1>5 DEF a, b, d

LEMMA InHandIsRecord ==
  ASSUME WroteInv, ReaderTyped, NEW k \in 1 .. Len(Blobs), NEW j \in 1 .. Len(Blob(k)), InHand(k, j)
  PROVE  RecordsInOrder
<1> DEFINE slab == ireader.uncompressed_slab
           blob == Blobs[k]
           key == blob[j].key
           value == blob[j].value
           kv == key \o value
           B == Blobs
<1>1. /\ Blob(k) = blob /\ blob \in Seq(Record) /\ B \in Seq(Seq(Record))
      /\ Len(key) \in Nat /\ Len(value) \in Nat /\ blob[j] \in Record /\ Len(blob) \in Nat
      /\ k \in 0 .. Len(Blobs)
  <2>1. Blob(k) = blob /\ k \in 0 .. Len(Blobs)
    BY BlobsTyped
  <2> HIDE DEF Record
  <2> QED BY <2>1, BlobsTyped
<1>2. /\ Blobs[k][j] = blob[j] /\ j \in 1 .. Len(blob)
      /\ ireader.uncompressed_data_at = Pointer(slab, Len(JoinedUpto(Spelled(blob), j)))
      /\ Behind(slab, 0, slab.length) = BlobBytes(blob) /\ slab.length = Len(BlobBytes(blob))
      /\ ireader.latest_length = Len(key) + Len(value)
      /\ told = [result |-> "OK",
                 data |-> [ireader.uncompressed_data_at EXCEPT !.off = @ - ireader.latest_length],
                 length |-> ireader.latest_length]
      /\ passed = Len(JoinedUpto(Blobs, k - 1)) + (j - 1)
  BY <1>1 DEF InHand, Placed
<1>3. slab \in Slabs
  <2> HIDE DEF Slabs
  <2> QED BY DEF ReaderTyped, Readers
<1>4. PICK n \in Nat : n = Len(key) + Len(value)
  <2>1. PICK a \in Nat, b \in Nat : a = Len(key) /\ b = Len(value)
    BY <1>1
  <2>2. a + b \in Nat
    OBVIOUS
  <2> QED BY <2>1, <2>2
<1>5. PICK off \in Nat : off = Len(JoinedUpto(Spelled(blob), j - 1))
  <2>1. Spelled(blob) \in Seq(Seq(Raw)) /\ j \in 1 .. Len(Spelled(blob))
    BY <1>1, <1>2, BlobSpelled
  <2> QED BY <2>1, UptoParts
<1>6. LaidOut(slab, blob, j, off, n)
  <2>1. /\ slab.length = Len(BlobBytes(blob)) /\ Behind(slab, 0, slab.length) = BlobBytes(blob)
        /\ j \in 1 .. Len(blob) /\ off = Len(JoinedUpto(Spelled(blob), j - 1))
        /\ n = Len(blob[j].key) + Len(blob[j].value) /\ blob \in Seq(Record) /\ slab \in Slabs
    BY <1>1, <1>2, <1>3, <1>4, <1>5
  <2> HIDE DEF blob, Slabs, Record, slab
  <2> QED BY ONLY off \in Nat, n \in Nat, <2>1, RecordAt
<1>7. /\ Len(JoinedUpto(Spelled(blob), j)) = off + 2 + n /\ off + 2 + n <= slab.length
      /\ \A i \in 1 .. n : slab.bytes[off + 2 + i] = kv[i]
  BY <1>6 DEF LaidOut
<1>8. told.data = Pointer(slab, off + 2) /\ told.length = n
  <2> DEFINE o == off + 2 + n
             p == off + 2
  <2>1. o \in Nat /\ p \in Nat /\ o - n = p
    BY ONLY off \in Nat, n \in Nat
  <2>2. ireader.uncompressed_data_at = [data |-> slab.data, off |-> o]
        /\ Pointer(slab, p) = [data |-> slab.data, off |-> p] /\ ireader.latest_length = n
    BY <1>2, <1>4, <1>7 DEF Pointer
  <2> HIDE DEF o, p, slab
  <2>3. [[data |-> slab.data, off |-> o] EXCEPT !.off = @ - n] = [data |-> slab.data, off |-> p]
    BY <2>1
  <2>4. told.data = [data |-> slab.data, off |-> p] /\ told.length = n
    BY <1>2, <2>2, <2>3
  <2> QED BY <2>2, <2>4 DEF p
<1>9. told.result = "OK" /\ told.data.off = off + 2 /\ told.data.data = slab.data
  BY <1>2, <1>8 DEF Pointer
<1>10. Behind(slab, off + 2, n) = kv
  <2> DEFINE y == slab.bytes
             at == off + 2
             c == SubSeq(y, 1, at + n)
  <2>1. y \in Seq(Cell) /\ Len(y) \in Nat /\ slab.length \in Nat /\ slab.length <= Len(y)
    BY <1>3, SlabFields
  <2>2. at \in Nat /\ at + n \in Nat /\ at + n <= Len(y) /\ at + n = off + 2 + n
    BY <1>7, <2>1
  <2>3. kv \in Seq(Raw) /\ Len(kv) = n
    <3>1. /\ kv \in Seq(Raw) /\ Len(kv) = Len(key) + Len(value)
      BY <1>1, RecordSpelled
    <3> QED BY <1>4, <3>1
  <2>4. kv \in Seq(Cell)
    BY <2>3, RawAreCells
  <2> HIDE DEF y, at, kv, Cell, slab
  <2> DEFINE d == SubSeq(y, at + 1, at + n)
  <2>5. d \in Seq(Cell) /\ Len(d) = n /\ \A m \in 1 .. n : d[m] = y[at + m]
    BY ONLY <2>1, <2>2, CutMiddle, n \in Nat
  <2> HIDE DEF d
  <2>6. \A m \in 1 .. n : y[at + m] = kv[m]
    BY <1>7 DEF at, y
  <2>7. \A m \in 1 .. Len(d) : d[m] = kv[m]
    BY <2>5, <2>6
  <2>8. d = kv
    <3>1. Len(d) = Len(kv)
      BY <2>3, <2>5
    <3> QED BY ONLY <2>4, <2>5, <2>7, <3>1, SeqEqual
  <2>9. Behind(slab, at, n) = d
    BY DEF Behind, d, y
  <2> QED BY <2>8, <2>9 DEF at
<1>11. passed < Len(Records) /\ Records[passed + 1] = blob[j]
  <2>1. k \in 1 .. Len(B) /\ B[k] = blob /\ Records = FlattenSeq(B)
    BY DEF Records, Blobs
  <2> HIDE DEF B, Record
  <2>2. /\ Len(JoinedUpto(B, k - 1)) \in Nat /\ Len(B[k]) \in Nat
        /\ Len(JoinedUpto(B, k)) = Len(JoinedUpto(B, k - 1)) + Len(B[k])
        /\ Len(JoinedUpto(B, k)) <= Len(FlattenSeq(B)) /\ Len(FlattenSeq(B)) \in Nat
        /\ \A m \in 1 .. Len(B[k]) : FlattenSeq(B)[Len(JoinedUpto(B, k - 1)) + m] = B[k][m]
    BY <1>1, <2>1, UptoParts
  <2>3. PICK a \in Nat, b \in Nat, c \in Nat :
          a = Len(JoinedUpto(B, k - 1)) /\ b = Len(B[k]) /\ c = Len(Records)
    BY <2>1, <2>2
  <2>4. a + b <= c /\ passed = a + (j - 1) /\ j \in 1 .. b
    BY <1>2, <2>1, <2>2, <2>3 DEF B
  <2>5. passed + 1 = a + j /\ passed < c
    BY <2>4
  <2>6. Records[a + j] = blob[j]
    BY <2>1, <2>2, <2>3, <2>4
  <2> QED BY <2>3, <2>5, <2>6
<1> QED BY <1>8, <1>9, <1>10, <1>11 DEF RecordsInOrder, NothingDangles

LEMMA OrderTells == (ReadAsWritten => OrderInv) => RecordsInOrder
<1>0. CASE ~ReadAsWritten
  BY <1>0 DEF RecordsInOrder
<1> SUFFICES ASSUME OrderInv PROVE RecordsInOrder
  BY <1>0
<1>1. CASE told.result # "OK"
  BY <1>1 DEF RecordsInOrder
<1>2. CASE told.result = "OK"
  <2>1. WroteInv /\ ReaderTyped
    BY <1>2 DEF OrderInv, Failed
  <2>2. PICK k \in 0 .. Len(Blobs) : \E j \in 0 .. Len(Blob(k)) : InHand(k, j)
    BY <1>2 DEF OrderInv, Failed, Waiting, ReadingEntry, ReadingBlob
  <2>3. PICK j \in 0 .. Len(Blob(k)) : InHand(k, j)
    BY <2>2
  <2>4. k > 0 /\ j > 0
    BY <2>3 DEF InHand
  <2>5. k \in 1 .. Len(Blobs) /\ j \in 1 .. Len(Blob(k))
    BY <2>1, <2>4, BlobsTyped
  <2> QED BY <2>1, <2>3, <2>5, InHandIsRecord
<1> QED BY <1>1, <1>2

LEMMA OrderEnds == (ReadAsWritten => OrderInv) => EndIsTheEnd
<1>0. CASE ~ReadAsWritten
  BY <1>0 DEF EndIsTheEnd
<1> SUFFICES ASSUME OrderInv PROVE EndIsTheEnd
  BY <1>0
<1>1. \A k, j : InHand(k, j) => told.result = "OK"
  <2>1. ASSUME NEW d, NEW l, told = [result |-> "OK", data |-> d, length |-> l]
        PROVE  told.result = "OK"
    BY <2>1
  <2> QED BY <2>1 DEF InHand
<1>2. \A k : Waiting(k) => told.result \in {"nothing", "EOF"}
  BY DEF Waiting
<1>3. \A k : ReadingEntry(k) \/ ReadingBlob(k) => told.result = "running"
  BY DEF ReadingEntry, ReadingBlob
<1>4. Failed => told.result = "ERROR"
  BY DEF Failed
<1>5. told.result # "abort"
  BY <1>1, <1>2, <1>3, <1>4 DEF OrderInv
<1>6. ASSUME told.result = "EOF"
      PROVE  LET n == Len(file["index"].bytes) \div EntrySize
             IN /\ Len(file["index"].bytes) = n * EntrySize
                /\ passed = Len(FlattenSeq(SubSeq(wrote.blobs, 1, n)))
  <2>1. WroteInv
    BY DEF OrderInv
  <2>2. PICK k \in 0 .. Len(Blobs) : Waiting(k)
    BY <1>6, <1>1, <1>3, <1>4 DEF OrderInv
  <2>3. Len(file["index"].bytes) = k * EntrySize /\ passed = Len(JoinedUpto(Blobs, k))
    BY <1>6, <2>2 DEF Waiting, Empty
  <2>4. k \in Nat /\ EntrySize \in Nat \ {0}
    BY <2>1, BlobsTyped, ReaderAssumption
  <2>5. (k * EntrySize) \div EntrySize = k
    BY <2>4
  <2> QED BY <2>3, <2>5 DEF JoinedUpto, Blobs
<1> QED BY <1>5, <1>6 DEF EndIsTheEnd

(* Off what was written the reader may be anywhere; but its calls still    *)
(* ask for numbers of bytes, and its descriptors only move on.             *)

LEMMA StaysPut ==
  ASSUME FilesInv, UNCHANGED file
  PROVE  FilesInv' /\ MovesOn
<1>1. FilesInv'
  BY DEF FilesInv
<1>2. \A f \in Files : file[f].pos \in Nat
  BY FileFields
<1> QED BY <1>1, <1>2 DEF MovesOn

LEMMA AheadTyped ==
  ASSUME NEW S, NEW f \in Files, FilesInv, file[f].bytes \in Seq(S)
  PROVE  Ahead(f) \in Seq(S)
<1> DEFINE s == file[f].bytes
           p == file[f].pos
<1>1. p \in 0 .. Len(s) /\ <<>> \in Seq(S)
  BY FileFields
<1> HIDE DEF s, p
<1>2. SubSeq(s, p + 1, Len(s)) \in Seq(S)
  BY <1>1, CutSeq DEF s
<1> QED BY <1>1, <1>2 DEF Ahead, s, p

LEMMA KernelTypes ==
  ASSUME FilesInv, CallTyped, KernelStep
  PROVE  FilesInv' /\ CallTyped' /\ MovesOn
<1>1. Kernel /\ call # NULL
  BY DEF KernelStep, Kernel, Answer, ReadSome, ReadNothing, ReadClosed, ReadFails, Running
<1> DEFINE c == call
           f == call.fd
<1>2. /\ c \in Calls /\ f \in Files /\ c.len \in Nat /\ c.got \in Seq(FileCell)
      /\ c = [fd |-> f, len |-> c.len, got |-> c.got, result |-> c.result]
      /\ f = "index" => c.len = EntrySize /\ c.got \in Seq(EntryCell)
  <2> DEFINE T == Seq(FileCell)
  <2>1. c \in [fd : Files, len : Nat, got : T, result : Results]
    BY <1>1 DEF CallTyped, Calls
  <2> HIDE DEF T, c
  <2>2. /\ c.fd \in Files /\ c.len \in Nat /\ c.got \in T
        /\ c = [fd |-> c.fd, len |-> c.len, got |-> c.got, result |-> c.result]
    BY <2>1
  <2> QED BY <1>1, <2>1, <2>2 DEF CallTyped, Calls, T, c
<1>3. ASSUME NEW got \in Seq(FileCell), NEW result \in Results,
             call' = [fd |-> f, len |-> c.len, got |-> got, result |-> result],
             f = "index" => got \in Seq(EntryCell),
             result = "OK" => Len(got) = c.len
      PROVE  CallTyped'
  <2> DEFINE T == Seq(FileCell)
  <2>1. got \in T
    OBVIOUS
  <2> HIDE DEF T, c, f
  <2>2. /\ call' \in [fd : Files, len : Nat, got : T, result : Results]
        /\ call'.fd = f /\ call'.len = c.len /\ call'.got = got /\ call'.result = result
    BY <1>2, <1>3, <2>1
  <2> QED BY <1>2, <1>3, <2>2 DEF CallTyped, Calls, T
<1>4. CASE ReadSome
  <2> DEFINE L == Len(c.got)
             a == Ahead(f)
  <2>1. PICK n \in 1 .. c.len - L :
          /\ n <= Len(a) /\ file' = [file EXCEPT ![f].pos = @ + n]
          /\ call' = [c EXCEPT !.got = @ \o SubSeq(a, 1, n),
                                !.result = IF L + n = c.len THEN "OK" ELSE "running"]
    BY <1>4 DEF ReadSome
  <2>2. L \in Nat /\ n \in Nat /\ Len(a) \in Nat /\ a \in Seq(FileCell)
    <3>1. L \in Nat
      BY <1>2, LenProperties
    <3>2. n \in Nat
      <4> HIDE DEF L
      <4> QED BY <1>2, <3>1
    <3> QED BY <1>2, <3>1, <3>2, AheadIs
  <2>3. FilesInv' /\ MovesOn
    <3> HIDE DEF c, a, f
    <3>1. n <= Len(Ahead(f))
      BY <2>1 DEF a
    <3> QED BY <1>2, <2>1, <2>2, <3>1, FilesMove
  <2> DEFINE m == SubSeq(a, 1, n)
             w == c.got \o m
             result == IF L + n = c.len THEN "OK" ELSE "running"
  <2>4. n \in 0 .. Len(a)
    BY <2>1, <2>2
  <2>5. m \in Seq(FileCell) /\ Len(m) = n
    <3> HIDE DEF a
    <3> QED BY <2>2, <2>4, CutSeq
  <2>6. f = "index" => m \in Seq(EntryCell)
    <3>1. CASE f = "index"
      <4>1. file[f].bytes \in Seq(EntryCell)
        BY <3>1 DEF FilesInv
      <4>2. a \in Seq(EntryCell)
        <5> HIDE DEF f
        <5> QED BY <1>2, <4>1, AheadTyped DEF a
      <4> HIDE DEF a
      <4> QED BY <2>4, <4>2, CutSeq
    <3> QED BY <3>1
  <2> HIDE DEF m
  <2>7. w \in Seq(FileCell) /\ Len(w) = L + n
    <3> DEFINE g == c.got
    <3>1. g \in Seq(FileCell) /\ m \in Seq(FileCell) /\ L = Len(g)
      BY <1>2, <2>5
    <3> HIDE DEF g, L, FileCell
    <3>2. g \o m \in Seq(FileCell) /\ Len(g \o m) = Len(g) + Len(m)
      BY ONLY <3>1, ConcatProperties
    <3> QED BY <2>5, <3>1, <3>2 DEF g
  <2>8. f = "index" => w \in Seq(EntryCell)
    <3>1. CASE f = "index"
      <4>1. c.got \in Seq(EntryCell) /\ m \in Seq(EntryCell)
        BY <1>2, <2>6, <3>1
      <4> QED BY ONLY <4>1, ConcatProperties
    <3> QED BY <3>1
  <2>9. call' = [fd |-> f, len |-> c.len, got |-> w, result |-> result]
    <3> DEFINE N == c.len
               T == Seq(FileCell)
    <3>1. c \in [fd : {f}, len : {N}, got : T, result : Results]
      BY <1>2 DEF Calls
    <3>2. call' = [c EXCEPT !.got = w, !.result = result]
      BY <2>1 DEF m
    <3> HIDE DEF c, f, w, result, N, T
    <3>3. call' = [fd |-> f, len |-> N, got |-> w, result |-> result]
      BY ONLY <3>1, <3>2
    <3> QED BY <3>3 DEF N
  <2>10. result \in Results /\ (result = "OK" => Len(w) = c.len)
    <3> HIDE DEF w
    <3> QED BY <2>7 DEF Results
  <2> HIDE DEF w, result, c, f
  <2>11. CallTyped'
    BY <1>3, <2>7, <2>8, <2>9, <2>10
  <2> QED BY <2>3, <2>11
<1>5. CASE ReadNothing \/ ReadClosed \/ ReadFails
  <2>1. PICK result \in {"EOF", "ERROR"} : call' = [c EXCEPT !.result = result] /\ UNCHANGED file
    <3>1. \/ call' = [c EXCEPT !.result = "EOF"] /\ UNCHANGED file
          \/ call' = [c EXCEPT !.result = "ERROR"] /\ UNCHANGED file
      BY <1>5 DEF ReadNothing, ReadClosed, ReadFails, Fails
    <3> QED BY <3>1
  <2>2. call' = [fd |-> f, len |-> c.len, got |-> c.got, result |-> result]
    <3> HIDE DEF c, f
    <3> QED BY <1>2, <2>1
  <2>3. result \in Results /\ result # "OK"
    BY DEF Results
  <2> HIDE DEF c, f
  <2>4. CallTyped'
    BY <1>2, <1>3, <2>2, <2>3
  <2> QED BY <2>1, <2>4, StaysPut
<1> QED BY <1>1, <1>4, <1>5 DEF Kernel, Answer

(* A call that begins.                                                     *)
LEMMA ReadnTypes ==
  ASSUME NEW f \in Files, NEW len \in Nat, readn(f, len), f = "index" => len = EntrySize
  PROVE  CallTyped'
<1> DEFINE T == Seq(FileCell)
           result == IF len = 0 THEN "OK" ELSE "running"
<1>1. <<>> \in T /\ <<>> \in Seq(EntryCell) /\ Len(<<>>) = 0 /\ result \in Results
  BY DEF Results
<1>2. call' = [fd |-> f, len |-> len, got |-> <<>>, result |-> result]
  BY DEF readn
<1>3. result = "OK" => len = 0
  OBVIOUS
<1> HIDE DEF T, result
<1>4. /\ call' \in [fd : Files, len : Nat, got : T, result : Results]
      /\ call'.fd = f /\ call'.len = len /\ call'.got = <<>> /\ call'.result = result
  BY <1>1, <1>2
<1> QED BY <1>1, <1>3, <1>4 DEF CallTyped, Calls, T

LEMMA PeekTypes ==
  ASSUME FilesInv, CallTyped, NEW latest_length, peek(latest_length)
  PROVE  FilesInv' /\ CallTyped' /\ MovesOn
<1>1. CASE UNCHANGED fileVars
  BY <1>1, StaysPut DEF fileVars, CallTyped
<1>2. CASE readn("index", EntrySize) /\ UNCHANGED file
  <2>1. "index" \in Files /\ EntrySize \in Nat
    BY ReaderAssumption
  <2> QED BY <1>2, <2>1, ReadnTypes, StaysPut
<1> QED BY <1>1, <1>2 DEF peek

LEMMA EntryTypes ==
  ASSUME FilesInv, CallTyped, GotEntry
  PROVE  FilesInv' /\ CallTyped' /\ MovesOn
<1>1. UNCHANGED file
  BY DEF GotEntry
<1>2. CASE call' = NULL
  BY <1>1, <1>2, StaysPut DEF CallTyped
<1>3. CASE readn("heap", call.got[1][1].compressed_blob_length)
  <2>1. call.got \in Seq(EntryCell) /\ Len(call.got) = EntrySize
    BY DEF GotEntry, Ended, CallTyped
  <2>2. 1 \in 1 .. Len(call.got)
    BY <2>1, ReaderAssumption
  <2>3. call.got[1] \in EntryCell
    BY <2>1, <2>2, ElementOfSeq
  <2>4. call.got[1][1].compressed_blob_length \in Nat
    BY <2>3 DEF EntryCell, Entry
  <2>5. "heap" \in Files /\ "heap" # "index"
    BY ReaderAssumption
  <2> QED BY <1>1, <1>3, <2>4, <2>5, ReadnTypes, StaysPut
<1> QED BY <1>2, <1>3 DEF GotEntry

LEMMA StepTypes ==
  ASSUME FilesInv, CallTyped, [Next]_vars
  PROVE  FilesInv' /\ CallTyped' /\ MovesOn /\ UNCHANGED wrote
<1>1. CASE Peek
  BY <1>1, PeekTypes DEF Peek
<1>2. CASE Advance
  BY <1>2, PeekTypes DEF Advance
<1>3. CASE Close
  <2>1. UNCHANGED <<call, wrote>>
    BY <1>3 DEF Close
  <2>2. FilesInv' /\ MovesOn
    BY <1>3, CloseKeeps
  <2> QED BY <2>1, <2>2 DEF CallTyped
<1>4. CASE KernelStep
  BY <1>4, KernelTypes DEF KernelStep, readerVars
<1>5. CASE GotEntry
  BY <1>5, EntryTypes DEF GotEntry
<1>6. CASE GotBlob
  <2>1. call' = NULL /\ UNCHANGED <<file, wrote>>
    BY <1>6 DEF GotBlob
  <2> QED BY <2>1, StaysPut DEF CallTyped
<1>7. CASE GotNothing
  <2>1. call' = NULL /\ UNCHANGED <<file, wrote>>
    BY <1>7 DEF GotNothing
  <2> QED BY <2>1, StaysPut DEF CallTyped
<1>8. CASE UNCHANGED vars
  BY <1>8, StaysPut DEF vars, fileVars, CallTyped
<1> QED BY <1>1, <1>2, <1>3, <1>4, <1>5, <1>6, <1>7, <1>8 DEF Next, ReaderGoesOn

(* Until the reader comes to what is spoilt, where it is in the index, in  *)
(* the heap, in its slab, and what it has told of it, agree.               *)
ReaderInv == WroteInv /\ FilesInv /\ CallTyped /\ (ReadAsWritten => OrderInv)

THEOREM OrderInductive == Spec => []ReaderInv
<1>1. Init => ReaderInv
  BY InitIsOrdered DEF ReaderInv, OrderInv, Init, CallTyped
<1>2. ReaderInv /\ [Next]_vars => ReaderInv'
  <2> SUFFICES ASSUME ReaderInv, [Next]_vars PROVE ReaderInv'
    OBVIOUS
  <2>1. WroteInv /\ FilesInv /\ CallTyped
    BY DEF ReaderInv
  <2>2. FilesInv' /\ CallTyped' /\ MovesOn /\ UNCHANGED wrote
    BY <2>1, StepTypes
  <2>3. WroteInv'
    BY <2>1, <2>2 DEF WroteInv, InHeap
  <2>4. ASSUME ReadAsWritten' PROVE OrderInv'
    <3>1. ReadAsWritten
      BY <2>1, <2>2, <2>4, AsWrittenBefore DEF MovesOn
    <3>2. OrderInv
      BY <3>1 DEF ReaderInv
    <3> QED BY <3>1, <3>2, StepOrders
  <2> QED BY <2>2, <2>3, <2>4 DEF ReaderInv
<1> QED BY <1>1, <1>2, PTL DEF Spec

(* The records come in the order in which they were written, whole, until  *)
(* the reader comes to what is spoilt: for every index, algorithm, place   *)
(* where a file breaks off or a cell of it is spoilt, and way in which the *)
(* kernel splits a read.                                                   *)
THEOREM RecordsComeInOrder == Spec => []RecordsInOrder
<1>1. ReaderInv => RecordsInOrder
  BY OrderTells DEF ReaderInv
<1> QED BY <1>1, OrderInductive, PTL

(* An end that is told is the end of what the index file holds, and the    *)
(* reader finds no entry that does not follow the last one, until it comes *)
(* to what is spoilt.                                                      *)
THEOREM EndIsRight == Spec => []EndIsTheEnd
<1>1. ReaderInv => EndIsTheEnd
  BY OrderEnds DEF ReaderInv
<1> QED BY <1>1, OrderInductive, PTL
=============================================================================
