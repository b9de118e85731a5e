----------------------------- MODULE IndexReader ----------------------------
(***************************************************************************)
(* The reader of bulp-readonly-index.c: it goes through an index from its  *)
(* first record to its last, entry by entry of the index file and blob by  *)
(* blob of the heap file, both through bulp_util_readn, and uncompresses   *)
(* each blob into the slab that its callers are given pointers into.       *)
(*                                                                         *)
(* A call that has to read is several steps: the kernel's, and the ones    *)
(* in which the reader goes on with what bulp_util_readn has returned.     *)
(***************************************************************************)
EXTENDS FileHelpers, Compression

CONSTANTS
  EntrySize,      (* sizeof (BulpIndexEntry), in cells                     *)
  Bytes,          (* what keys and values are made of                      *)
  Contents        (* BOUND: what an index may hold: blobs of records       *)

(* What slabs and files are made of: raw bytes and lengths, the halves of   *)
(* compressed data, memory nobody has written to, the cells of entries.    *)
Raw == Nat \cup Bytes
Cell == Raw \cup [by : {ZLIB, SNAPPY}, of : Seq(Raw), half : {1, 2}] \cup {Garbage}
Entry == [compressed_blob_offset : Nat, compressed_blob_length : Nat]
FileCell == Cell \cup (Entry \X Nat)
Results == {"running", "OK", "EOF", "ERROR"}
Calls == [fd : Files, len : Nat, got : Seq(FileCell), result : Results]

ASSUME ReaderAssumption ==
  /\ NULL \notin Calls
  /\ Garbage \notin [by : {ZLIB, SNAPPY}, of : Seq(Raw), half : {1, 2}]
  /\ EntrySize \in Nat \ {0} /\ Files = {"index", "heap"}
  /\ Contents \subseteq Seq(Seq([key : Seq(Bytes), value : Seq(Bytes)]))
  /\ \A blobs \in Contents : \A i \in DOMAIN blobs :
       blobs[i] # <<>> /\ \A k \in DOMAIN blobs[i] : blobs[i][k].key # <<>>

VARIABLES
  ireader,        (* the fields of BulpReadonlyIndexReader                 *)
  wrote,          (* what was written: algorithm, blobs, entries, heap     *)
  told,           (* what the last call of peek or advance returned        *)
  passed          (* the records the caller has advanced past              *)

fileVars == <<file, call>>
vars == <<fileVars, ireader, wrote, told, passed>>

-----------------------------------------------------------------------------
(* The files: entries that follow each other in the heap, lengths before   *)
(* the bytes of a record.                                                  *)

RecordBytes(r) == <<Len(r.key), Len(r.value)>> \o r.key \o r.value
BlobBytes(blob) == FlattenSeq([k \in DOMAIN blob |-> RecordBytes(blob[k])])

(* One slab serves for all blobs that are compressed.                      *)
WrittenBehind(algo, w, blob) ==
  LET slab == bulp_compress(algo, BlobBytes(blob), w.slab)
  IN [slab |-> slab,
      heap |-> w.heap \o Behind(slab, 0, slab.length),
      entries |-> Append(w.entries, [compressed_blob_offset |-> Len(w.heap),
                                     compressed_blob_length |-> slab.length])]
Written(algo, blobs) ==
  LET w[i \in 0 .. Len(blobs)] ==
        IF i = 0 THEN [slab |-> SlabInit, heap |-> <<>>, entries |-> <<>>]
        ELSE WrittenBehind(algo, w[i - 1], blobs[i])
  IN w[Len(blobs)]

EntryBytes(entries) ==
  FlattenSeq([i \in DOMAIN entries |-> [k \in 1 .. EntrySize |-> <<entries[i], k>>]])

Opened(bytes) == [bytes |-> bytes, pos |-> 0, open |-> TRUE]

(* The writer may have died between any two bytes of either file, or a     *)
(* part of one is not what was written: any cell of the heap, a length or  *)
(* compressed or not, and the offset or the length of any entry.           *)
Survived(s) == {SubSeq(s, 1, n) : n \in 0 .. Len(s)}
SpoiltHeaps(heap) == {[heap EXCEPT ![i] = Garbage] : i \in DOMAIN heap}
SpoiltEntry(ie) ==
  {[ie EXCEPT !.compressed_blob_offset = @ + 1],
   [ie EXCEPT !.compressed_blob_length = @ + 1],
   [ie EXCEPT !.compressed_blob_length = 0]}
SpoiltIndices(entries) ==
  {EntryBytes(spoilt) :
     spoilt \in UNION {{[entries EXCEPT ![i] = ie] : ie \in SpoiltEntry(entries[i])}
                        : i \in DOMAIN entries}}

-----------------------------------------------------------------------------
at_end == ireader.uncompressed_data_at = get_end(ireader.uncompressed_slab)

Return(result) == told' = [result |-> result]
Deliver(at, length) == told' = [result |-> "OK", data |-> at, length |-> length]

(* The record that two lengths at the reader's place announce, which may   *)
(* be more than the slab has left.                                         *)
ToldBehind(r, off, length, behind) ==
  /\ ireader' = [r EXCEPT !.latest_length = length,
                          !.uncompressed_data_at = Pointer(r.uncompressed_slab, behind)]
  /\ Deliver(Pointer(r.uncompressed_slab, off), length)
InSlab(r) == Behind(r.uncompressed_slab, 0, r.uncompressed_slab.length)

(* Broken variant: the lengths are taken for a part of the record.         *)
TellRecord_WithLengths(r) ==
  LET at == r.uncompressed_data_at.off
  IN \E key_len \in Lengths(InSlab(r), at + 1) :
       IF key_len = NoLength THEN ireader' = r /\ Return("ERROR")
       ELSE \E value_len \in Lengths(InSlab(r), at + 2) :
              IF value_len = NoLength THEN ireader' = r /\ Return("ERROR")
              ELSE ToldBehind(r, at + 2, key_len + value_len + 2, at + 2 + key_len + value_len)

(* Lines 352 to 370.                                                       *)
TellRecord(r) ==
  LET at == r.uncompressed_data_at.off
  IN \E key_len \in Lengths(InSlab(r), at + 1) :
       IF key_len = NoLength THEN ireader' = r /\ Return("ERROR")
       ELSE \E value_len \in Lengths(InSlab(r), at + 2) :
              IF value_len = NoLength THEN ireader' = r /\ Return("ERROR")
              ELSE ToldBehind(r, at + 2, key_len + value_len, at + 2 + key_len + value_len)

(* peek, and advance behind its first assignment.                          *)
peek(latest_length) ==
  IF latest_length > 0
  THEN /\ Deliver([ireader.uncompressed_data_at EXCEPT !.off = @ - latest_length], latest_length)
       /\ UNCHANGED <<fileVars, ireader>>
  ELSE IF at_end
  THEN /\ readn("index", EntrySize)
       /\ ireader' = [ireader EXCEPT !.latest_length = latest_length]
       /\ Return("running")
       /\ UNCHANGED file
  ELSE /\ TellRecord(ireader)
       /\ UNCHANGED fileVars

(* A caller gives up after an error.  BOUND: and behind a record that goes *)
(* past the slab's end, where the code reads memory that is not the slab's *)
(* and of which nothing is said.                                           *)
MayCall ==
  /\ call = NULL /\ told.result \notin {"ERROR", "abort"}
  /\ ireader.uncompressed_data_at.off <= ireader.uncompressed_slab.length

Peek ==
  /\ MayCall
  /\ peek(ireader.latest_length)
  /\ UNCHANGED <<wrote, passed>>

Advance ==
  /\ MayCall
  /\ peek(0)
  /\ passed' = IF told.result = "OK" THEN passed + 1 ELSE passed
  /\ UNCHANGED wrote

(* The entry has come: it must name the blob behind the last one, whose    *)
(* bytes are read next.                                                    *)
GotEntry ==
  /\ Ended("OK") /\ call.fd = "index"
  /\ LET ie == call.got[1][1]
     IN IF ireader.heap_offset # ie.compressed_blob_offset
        THEN /\ Return("abort") /\ call' = NULL
             /\ UNCHANGED ireader
        ELSE /\ ireader' = [ireader EXCEPT
                  !.heap_offset = @ + ie.compressed_blob_length,
                  !.compressed_blob_slab = set_size(@, ie.compressed_blob_length)]
             /\ readn("heap", ie.compressed_blob_length)
             /\ UNCHANGED told
  /\ UNCHANGED <<file, wrote, passed>>

(* The blob has come.                                                      *)
GotBlob ==
  /\ Ended("OK") /\ call.fd = "heap" /\ call' = NULL
  /\ LET comp == Copied(ireader.compressed_blob_slab, 0, call.got)
         got == [ireader EXCEPT !.compressed_blob_slab = comp]
     IN \E out \in bulp_decompress(wrote.algo, Behind(comp, 0, comp.length),
                                    ireader.uncompressed_slab) :
          IF out.ok
          THEN TellRecord([got EXCEPT !.uncompressed_slab = out.slab,
                                      !.uncompressed_data_at = Pointer(out.slab, 0)])
          ELSE ireader' = [got EXCEPT !.uncompressed_slab = out.slab] /\ Return("ERROR")
  /\ UNCHANGED <<file, wrote, passed>>

(* No entry is the end of the index; no blob behind an entry is an error.  *)
GotNothing ==
  /\ Ended("EOF") \/ Ended("ERROR")
  /\ call' = NULL
  /\ Return(IF call.fd = "index" THEN call.result ELSE "ERROR")
  /\ UNCHANGED <<file, ireader, wrote, passed>>

Close ==
  /\ call = NULL /\ \E f \in Files : file[f].open
  /\ file' = [f \in Files |-> [file[f] EXCEPT !.open = FALSE]]
  /\ UNCHANGED <<call, ireader, wrote, told, passed>>

Init ==
  /\ \E algo \in {NONE, ZLIB, SNAPPY}, blobs \in Contents :
       \E w \in {Written(algo, blobs)} :
         \E index \in Survived(EntryBytes(w.entries)) \cup SpoiltIndices(w.entries),
            heap \in Survived(w.heap) \cup SpoiltHeaps(w.heap) :
           /\ index = EntryBytes(w.entries) \/ heap = w.heap
           /\ file = [f \in Files |-> Opened(IF f = "index" THEN index ELSE heap)]
           /\ wrote = [algo |-> algo, blobs |-> blobs, entries |-> w.entries, heap |-> w.heap]
  /\ call = NULL
  /\ ireader = [heap_offset |-> 0, compressed_blob_slab |-> SlabInit,
                uncompressed_slab |-> SlabInit,
                uncompressed_data_at |-> Pointer(SlabInit, 0), latest_length |-> 0]
  /\ told = [result |-> "nothing"]
  /\ passed = 0

ReaderGoesOn == GotEntry \/ GotBlob \/ GotNothing
readerVars == <<ireader, wrote, told, passed>>
KernelStep == Kernel /\ UNCHANGED readerVars
Next == Peek \/ Advance \/ Close \/ KernelStep \/ ReaderGoesOn

Spec == Init /\ [][Next]_vars

(* The kernel answers a read in the end (EINTR does not go on for ever),   *)
(* and the reader does not stop in the middle of a call.                   *)
FairSpec ==
  Spec /\ WF_vars(Answer /\ UNCHANGED readerVars) /\ WF_vars(ReaderGoesOn)

-----------------------------------------------------------------------------
Records == FlattenSeq(wrote.blobs)

(* The pointer that a caller was last given points into the slab as it is, *)
(* not into memory that realloc has moved.                                 *)
NothingDangles ==
  told.result = "OK" => told.data.data = ireader.uncompressed_slab.data

(* What has been read of either file is what was written: the reader has   *)
(* not come to what is spoilt, if anything is.                             *)
Original(f) == IF f = "index" THEN EntryBytes(wrote.entries) ELSE wrote.heap
ReadAsWritten ==
  \A f \in Files : IsPrefix(SubSeq(file[f].bytes, 1, file[f].pos), Original(f))

(* Until the reader comes to what is spoilt, what a caller has in hand is  *)
(* the record behind those it has advanced past: the bytes at the pointer  *)
(* it was given, which still points into the slab, are the record's key    *)
(* and value, whatever has been read since, and however the bytes came.    *)
RecordsInOrder ==
  ReadAsWritten /\ told.result = "OK" =>
    /\ passed < Len(Records)
    /\ NothingDangles
    /\ Behind(ireader.uncompressed_slab, told.data.off, told.length)
         = Records[passed + 1].key \o Records[passed + 1].value

(* The end is told when every entry has been read and every record been    *)
(* passed; an index that breaks off inside an entry is an error, and no    *)
(* part of an index that was written makes the reader abort.               *)
EndIsTheEnd ==
  ReadAsWritten =>
    /\ told.result = "EOF" =>
         LET n == Len(file["index"].bytes) \div EntrySize
         IN /\ Len(file["index"].bytes) = n * EntrySize
            /\ passed = Len(FlattenSeq(SubSeq(wrote.blobs, 1, n)))
    /\ told.result # "abort"

(* A call returns, however few bytes the kernel gives it each time and     *)
(* wherever the files break off.                                           *)
CallsReturn == call # NULL ~> call = NULL
=============================================================================
