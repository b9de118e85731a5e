# Verification of bulp

bulp is a C library for binary serialization: byte buffers, formats for values,
memory pools, a namespace of named formats and a sorted on-disk index. This
directory holds its TLA+ specifications, the TLC configurations that check them
and the proofs about them. All paths below are relative to the repository root;
the sources are in `src/`.

The library is single-threaded and has no callbacks that re-enter it, except the
destroy callback of lent memory. What is hard about it is therefore not
interleaving but *ownership and bookkeeping over long sequences of calls*: linked
fragments that move between buffers and a shared recycling bin, raw pointers into
them that are kept for later, partial writes and reads, several fields that must
change together, and functions that are called repeatedly until they are done.

## 1. Inventory

| Component | State it keeps | Operations | Hard behaviour | What makes it correct |
|---|---|---|---|---|
| Byte buffers, `bulp-buffer.c/.h` | per buffer: `size`, `first_frag`, `last_frag`; per fragment: `buf_start`, `buf_length`, `buf_max_size`, owner callback; a recycling stack and `num_recycled` shared by all buffers | append (copy, repeated byte, lent memory, formatted text), read, discard, read line or string, writev, flush, drain, transfer, placeholders, clear, reset, bin cleanup | fragments change lists; `last_frag` and placeholders are raw pointers; the kernel takes part of what it is offered; text that just fits | FIFO order of bytes; sizes add up; every fragment in one place; lent memory given back once, in time; no write past an allocation; a flush ends |
| Memory pools, `bulp-mem-pool.*` | chunk list, bump pointer, bytes left; fixed pool: free list and pieces left | alloc (aligned or not), must_alloc, strdup, fixed alloc and free, clear | alignment at the end of a chunk; oversize chunk behind the head; use after clear | blocks disjoint, inside their chunk, aligned |
| Slab, `bulp-slab.h` | data, length, allocated length | set_size, set_data, truncate, append, clear | growth by doubling moves the data; use after clear | length within allocation, content kept |
| Data builder, `bulp-data-builder.*` | list of pieces in two pools, current piece | append, placeholder, update, build, to_buffer | placeholders in the middle that are filled in later or never | build gives the pieces' bytes in order |
| File helpers, `bulp-util.*` | none | readn, writen, pread, file_load | short counts, EINTR, end of file | all bytes, the end, or an error |
| Sorted indexer, `bulp-sorted-indexer.*` | collected entries, files of keys, blobs and levels, a finish state | write, flush, run_finish, finish, destroy | resumable finish; errors between two files | every entry written once, in order; the index points at it |
| Read-only index, `bulp-readonly-index.*` | reader: two descriptors, offset in the heap, two slabs, a place; lookup: mappings, levels, a cache | open; peek, advance, close; lookup | files cut off or spoilt; pointers into a slab that is used again; levels of sparse entries | the records in order, then the end; finds what is there, and nothing else |
| Namespaces and reference counts, `bulp-namespace.c`, `bulp-format.*` | tree of names, entries, format reference counts | add, look up, force, canonical names, ref and unref | node replaced in a tree while it is used; prefix lookups | a name finds what it was bound to; destroyed at the last unref |
| Formats, `bulp-format-*.c` | per format: members sorted by name and by tag | pack, unpack, packed_size, look-ups, destruct | bit packing; optional and missing members | unpack inverts pack; sizes agree |
| Scalar formats and varints, `bulp-builtins-*.h`, `bulp-namespace-toplevel-formats.c` | none | pack, unpack, validate, sizes | boundaries of the encodings | unpack inverts pack |
| Comparators, `bulp-comparator.*` | none | compare, compare2 | integers lie low byte first, folded or with a sign bit | the order of the values; both agree |
| Description parser, `bulp-namespace-parser.c` | tokens, a parse context | tokenize, parse, free | ownership when parsing fails | what is created is freed once |
| Tree and list macros, `dsk-*.h` | (third party) | insert, remove, replace, look up | | ordered, balanced |
| Errors, UTF, JSON, compression, generators, unfinished files | | | | see `PROJECT.json` |

How they interact: formats pack into a data builder, which draws on two memory
pools and can hand its bytes to a buffer; buffers call the kernel through
`readv`/`writev` and the owner of lent memory through its destroy callback; the
sorted indexer collects entries in slabs, compresses them and writes them with
the file helpers, and a finished index is read by the read-only index; the parser
builds formats and binds them in namespaces, which share them by reference count.

The hazards of each component, at their lines, are listed in `PROJECT.json` under
`hazards`, with the properties that cover them.

## 2. The modules

| Modules | What they are | Runs | Proofs |
|---|---|---|---|
| `ByteQueues`, `BulpBuffer` | the abstract queues, and the buffers that implement them | `buffer_structure`, `buffer_fifo`, `buffer_flush`, `buffer_printf`, `buffer_placeholder` | `BulpBufferProofs`, `ByteQueuesProofs` |
| `BufferScans` | the calls that look at a buffer and change nothing, over `BulpBuffer` | `buffer_lent` | `BulpBufferProofs` |
| `Heap`, `MemPool`, `MemPoolFixed`, `DataBuilder` | blocks of memory, the two pools, and the builder made of one of each | `memory` | `MemoryProofs` |
| `IntCodecs`, `Formats`, `FormatStreams` | integers as bytes, formats made of formats, two programs that exchange values | `formats`, `formats_message`, `formats_struct` | `IntCodecsProofs` |
| `Comparators` | packed values compared where they lie, over `FormatStreams` | `formats` | |
| `RedBlackTree`, `Namespace`, `DescriptionParser` | the tree macros, the namespaces and reference counts, the parser that fills them | `names` | `RedBlackTreeProofs`, `NamespaceProofs` |
| `NameTables` | what namespaces promise, without trees; `Namespace` implements it | `names` | `NamespaceProofs` |
| `Slab`, `Compression`, `FileHelpers`, `IndexReader` | the reader of an index over a kernel that gives it what it likes | `index_reader` | `IndexReaderProofs` |

A module `MC...` gives an instance of the constants for TLC. Two modules drive
several specifications at once: `MCMemory` and `MCNames` choose at the start which
of their clients runs. `SequenceFacts` has what the proofs of several components
need about sequences.

What could still be added: the lookup of the read-only index and the sorted indexer,
once they are finished (section 11); proofs about the fixed-size integers and about
formats made of formats.

## 3. The buffer modules

`BulpBuffer` is the code's state and calls.

| Code | Model |
|---|---|
| `BulpBuffer` (`bulp-buffer.h:42-48`) | `size[b]`, `chain[b]` (first_frag and its successors), `last[b]` (last_frag), `live[b]` (initialised and not cleared since) |
| `BulpBufferFragment` (`bulp-buffer.h:21-40`) | `kind[f]` (free, native, or the lent object), `start[f]` (buf_start), `data[f]` (the buf_length valid bytes) |
| `recycling_stack`, `num_recycled` | `bin`, `num_recycled` |
| memory lent by callers | `lent` |
| a `BulpBufferPlaceholder` | `ph` (fragment, offset in the allocation, length) |
| `bulp_buffer_write_all_to_fd` in progress | `flush` |

Every function is one action, because the library has one thread, with one
exception: `write_all_to_fd` is a loop of `writev` calls between which the kernel
decides how much it takes, so each `writev` is a step and the other calls wait.
The actions keep the code's control: when a fragment is new and when it is
recycled, which branch `append_small` and `vprintf` take, what is linked where,
that `clear` leaves the fields of the buffer alone. A loop over fragments is one
step that says which fragments it consumed (`Whole`, `Fitting`, `Needed`) and
what became of the one it stopped in. `BUF_CHUNK_SIZE` and the header size are
parameters, so that a native fragment of the small instances has room for two
bytes.

Abstractions: a native fragment taken from the bin or from `malloc` is any member
of `bin`, or of the unallocated ones when the bin is empty, so the bin is a set
rather than a stack; the fields of a fragment in the bin are dead until
`new_native_fragment` resets them and are blanked; a reserved byte nobody has
filled in is the value `Hole`; a lent object is given back and destroyed in the
step that lets go of its fragment. A placeholder carries a flag `fresh`, which is
the caller's knowledge and not the library's: it goes down when the recorded
fragment or a reserved byte is taken from the buffer, and the caller then does
not fill the placeholder in any more.

`ByteQueues` is the abstract specification: each buffer is a FIFO queue of bytes
(put, take, move from queue to queue, supply reserved bytes, empty). It knows no
fragments. `BulpBuffer` implements it under the refinement mapping
`queue[b] = Contents(chain[b], data)` (empty for a cleared buffer), with the
observable call of each step in `io`.

`BufferScans` has the calls that only look: `peek`, `index_of`, `str_index_of`,
`polystr_index_of` with `fragment_n_str`, `find_fragment`, `get_byte_at`,
`get_last_byte`, `fragment_peek` and `fragment_advance`, each as an operator that
walks along the pieces of a buffer as the code's loops do. `ScansAgree` compares
their answers with definitions over the flat bytes, in every state of a run that
splits bytes over native, lent and empty fragments. `Wild` stands for a look outside
a fragment's bytes or outside `init_char_map`. Bytes of 0x80 and above are the set
`High`; in a string of `char`, which has a sign, such a byte is `Negative` and equals no
byte of a buffer. Several of the scans are wrong in cases the property names, because
the code really answers wrongly there: `str_index_of` compares a `uint8_t` with a `char`
(`src/bulp-buffer.c:812,837`) and never finds a string with a byte of 0x80 or above;
`init_char_map` has 128 bits for 256 bytes, so `polystr_index_of` writes behind it for a
string that begins with such a byte (line 1103), and reads behind it when it comes to one
in the buffer, unless all strings begin alike (line 1135); `fragment_n_str` takes
its index into the next fragment as it was in the last one, so that a list of
strings is only searched correctly where they lie inside fragments, and
`polystr_index_of` looks at one byte more than there is after a guess that failed
(`PolystrAgrees`); `fragment_peek` takes the first part of a copy as if it began
where the fragment begins and `fragment_advance` counts the first fragment twice, so
both are right only inside one fragment; `get_byte_at` looks at the fragment where
the walk ended although it may be empty.

## 4. The memory modules

`MemPool` and `MemPoolFixed` are the two pools of `bulp-mem-pool.h/.c`, over the
blocks of memory of `Heap`. `DataBuilder` is `bulp-data-builder.c` and contains
one pool of each kind (`str_buf` is the variable `pool`, `piece_buf` is `fixed`).

| Code | Model |
|---|---|
| `BulpMemPool` (`bulp-mem-pool.h:8-14`) | `pool`: `all_chunk_list`, `chunk` (a block and an offset), `chunk_left`; `live` and `aligned` are the caller's knowledge |
| what `malloc` returned and `free` has not taken back, and the caller's own buffer | `memory`, `slabs`: a size for every block that may be touched |
| `BulpMemPoolFixed` (`bulp-mem-pool.h:42-50`) | `fixed` |
| what callers hold | `given` (allocations with their sizes), `out` (pieces) |
| `BulpDataBuilder` | `queue` (the list of pieces), `piece` (their `len` and `data`), `cur_len`, `bytes` (what is stored in `str_buf`'s blocks) |
| what callers supplied | `told`, one entry for each piece, and `sent` |

Each function is one action; `must_alloc` and the three ways `fixed_alloc` finds a
piece keep their order and guards. `chunk_left` is an `unsigned`: the alignment
step subtracts without a check, so it is computed modulo `UIntSize`. The first
pointer of a `malloc`'d block is the link of the chunk list, and nothing handed out
may cover it. Addresses are concrete and so are the bytes stored at them: a piece
that pointed to the wrong place, or a later copy that ran over an earlier one,
would show in what `build` writes.

Abstractions: blocks of the C heap are infinitely far apart. An allocation of no
bytes is no memory. After `init_buf` with a caller's buffer only unaligned memory
is asked for: the only caller is the data builder and `memdup` asks for nothing
else; a pool from `bulp_mem_pool_init` is asked for both. A piece's length is less
than `PLACEHOLDER_SIZE` (4 GiB). The pool, or the builder, is not used between
`clear` and the next `init_buf`. `n_pieces` is set to 0 and never used.

## 5. The format modules

`IntCodecs` is `bulp-builtins-int.h`, `Formats` the `vfuncs` tables of all kinds of
format, `FormatStreams` the two programs that call them.

| Code | Model |
|---|---|
| `bulp_ushort_*`, `bulp_uint_*`, `bulp_ulong_*` | `GroupCount`, `PackGroups`, and `ShortGroups` or `UlongUnpack`, which differ in when they look at the length and in the ninth byte |
| zigzag, `bulp_short_*`, `bulp_int_*`, `bulp_long_*` | `Zigzag`, `Unzigzag`, `Folded` |
| `bulp_uint8_*` ... `bulp_int64_*` | `FixedPack`, `UintNUnpack`, `IntNUnpack` |
| `BulpFormat` and its `vfuncs` table | a record with the fields of the C structure; `PackedSize`, `Pack`, `PackTo`, `Unpack`, `ValidateNative` choose by its type |
| `bulp_format_new_enum`, `_union`, `_struct`, `bulp_format_packed_new`, `_optional_of`, `_array_of` | `NewEnum`, `NewUnion`, `NewStruct`, `Packed`, `OptionalOf`, `ArrayOf` |
| lookup by value and by name | `Bisect` over `list` and `by_name` |
| a native object | a TLA+ value: an integer, a sequence of bytes, elements or members, `<<>>` or `<<v>>` for an optional |
| `packed_data` and `packed_len` | an address and a length in `mem`, which holds the reader's bytes and, at every other address, one unknown byte |
| a `BulpDataBuilder` given to `pack_to` | the list of pieces and `cur_len`, without the pools of `DataBuilder` |

`Unpack` gives a set of outcomes, because the code reads variables that a failed
call has not set (`unpack__ascii`, `unpack__union`), and an outcome may be a failed
assertion. Addresses are integers and may be negative: arrays, unions and messages
look for their parts at `packed_data - at`, and the model does so too. `packed_len -
at` is a `size_t` and wraps (`Left`). Where the unused bits of the last byte of
packed elements come from, `junk`, is what the memory held.

The actions of `FormatStreams`: `PackItem` and `PackItemTo` write the next value of
a schema, `Deliver` hands one more byte to the reader, `UnpackItem` is a reader that
tries the next value as soon as it likes, keeps what was accepted, and after a
refusal waits for another byte, which is what the "too short" error is for.
`ForeignByte` makes the bytes come from elsewhere.

Properties about reading are stated for schemas whose formats read forward
(`Forward`): everything but arrays, unions, messages and structs, whose unpacking is
not the inverse of their packing (three of the disagreements below), and optionals
of a format that looks at its first byte before it looks at the length. What is
promised of all formats, those included, is `SizeIsExact` and `LookupsAgree`.

`Comparators` is `bulp-comparator.c`, as far as its functions are written: `compare`
and `compare2` of integers of both kinds, enums, strings and binary data, and
`bulp_comparator_new_auto`, which picks among them. The file does not compile yet (it has
`...` where code is missing), so nothing calls it;
the `unsafe` unpack functions it uses are declared and defined nowhere, and are
modelled as the others without their look at the length. `ComparedAsValues` takes
every two of the values a schema has (and integers next to them and of opposite
sign), packs them in memory that holds different bytes behind them, and requires the
order of the values of the functions that are named for the format (`NamedFor`).

What `bulp_comparator_new_auto` picks is another matter. The initialiser of the integer
formats is positional and has three values for the four fields `byte_size`,
`log2_byte_size`, `is_signed` and `is_b128` (`src/bulp-namespace-toplevel-formats.c:23-25`,
`src/bulp-format.h:70-76`): `is_signed` goes to `log2_byte_size`, `is_b128` to `is_signed`,
and `is_b128` stays false. `IntFormat` has the fields as the initialiser leaves them, and
what the functions in the `vfuncs` table were written for in `codec`. `ComparedAsValues`
says that the functions found by these fields order the values only of `uint8` among
the integers, and of everything that is not an integer.

## 6. The names modules

`RedBlackTree` is the macros of `dsk-rbtree-macros.h` that the program uses, `Namespace`
is `bulp-namespace.c`, `bulp-format.c` and the reference counting of the format
constructors and destructors, `DescriptionParser` is `bulp-namespace-parser.c`.

| Code | Model |
|---|---|
| a tree: `top` and the links and colour in its nodes | a record with `top` and a function `at` from nodes to links, colour and entry; every macro takes a tree and returns one |
| `BulpNamespaceTreeNode` on the stack of `force_subnamespace_1`, or from `malloc` | `OnStack(name)`, `Malloced(name)` |
| `BulpNamespace`, `BulpFormat` | `store.ns`, `store.fmt`, numbered in the order they are made; a number is not used again, so a dangling pointer is the number of an object that is `Freed` |
| `canonical_ns`, `array_of`, the `element_format` of an array | numbers that hold no reference |
| an abort, a failed assertion, a bad access | `store.crashed` |
| references nobody can give back any more | `store.leaks` |
| references the caller holds | `held` |
| `BulpParseContext` and the local variables of the parser's loops | `parse`: tokens, place, the stanza that is open, its items |

A call of the namespace interface is one action. A parse takes a step for each turn
of its loops, since it may be refused at each of them with some stanzas bound: the
header, each member, value, case or field, each separator, and the end of a stanza, which
makes the format and binds it. `Namespaces` is the specification of a caller's calls,
`Descriptions` that of a caller who also has texts parsed, of any set `Texts`, and waits
for each to end. `TextsAssumption` says that a text is finite and that its words are among
`Names`; the lexeme after an `=`, which the tokenizer takes for a number, may be anything.

The tokenizer's case of `=` runs on into that of the digits, whose scan takes one
character, whatever it is, and the digits behind it (`src/bulp-json-helpers.c:32-37`). So a
`Blank` is a lexeme there: a blank and a number are one token, which `strtoul` reads as the
number, and `= 10` is accepted (as `tests/enums-0.c` has it). Any other first character
is a token of its own that `is_uint` refuses, or makes the scan fail, depending on letters
that a lexeme does not have (`misread`); a signed number, which `strtoul` would take, is left
out. The enums of the texts are written with the blank, the cases of unions without.

Abstractions: a text is a sequence of lexemes; a name is its spelling as a sequence of
numbers, so that prefixes are prefixes. Where the code reads memory it has not set
(`array_of` of a new struct, union or packed format) or a token beyond the last one,
the model takes any of the outcomes. A caller keeps to the rules of reference counting. It
may still make the process end, in ways the code documents nowhere: a canonical name
given twice is avoided by the model's caller, an array of a format whose `array_of` is
unset is not.

`TreesSearchable` is the invariant of red-black trees, and that no node of the stack is left in
one. `RefCountsExact` counts the references to every object from everything that takes one. An
array is made with a reference that no call gives back, and counts as its own owner for ever.
Its pointer to its element takes none (`src/bulp-format-array.c:132`): when the element is
freed, an array that is bound or a member has a pointer to freed memory, and the property, which
is about what is counted, does not exclude that; nor does anything in the code. `NamesLead` says
what `bulp_namespace_query` and canonical names find: `query_1_len` takes a longer name of a
node for a smaller one, and so may miss a name that begins another; the property allows that and
nothing else. `ParsedAsWritten` compares what a text has bound with the description the text was
written from. `NameTables` is the abstract specification: a name that is bound means the same
thing until its whole table goes away.

## 7. The index modules

`IndexReader` is the sequential reader of `bulp-readonly-index.c`, over `Slab`
(`bulp-slab.h`), `Compression` (`bulp-compression.c`) and `FileHelpers`
(`bulp_util_readn`).

| Code | Model |
|---|---|
| `BulpReadonlyIndexReader` | `ireader`: `heap_offset`, the two slabs, the place in the uncompressed one, `latest_length` |
| a slab | `length`, `alloced`, the contents of the allocation, and the number of the allocation: `realloc` may move it, so a pointer is a number and an offset, and pointers with an older number dangle |
| descriptors and files | `file`: bytes, offset, open |
| `bulp_util_readn` in progress | `call` |
| what the caller was given, and what it has gone past | `told`, `passed` |

A call of `peek` or `advance` that has to read is several steps: each `read` of the
kernel, which gives any part of what is left, nothing at the end, or an error; and
the reader going on. Either file may end anywhere (`Survived`); or any one cell of the heap
is spoilt, of a length or of compressed or uncompressed bytes (`SpoiltHeaps`); or the
offset or the length in one entry is (`SpoiltIndices`). The writer of the files,
`Written`, is the layout that the reader and `bulp-indexer-defs.h` agree on. The length
a varint would take is one cell here; a spoilt one is read as any number up to
`MaxLength`, or runs off the end (`Lengths`).

zlib and snappy are external: what they make is a sequence of cells that holds together
as a whole. `bulp_decompress` gives zlib the length in the prefix, sets the slab to that
length, and accepts what zlib finds whole without comparing how much came out
(`src/bulp-compression.c:26-34`), so a prefix that is too large is accepted and the slab
ends in what it held before; one that is too small is refused. Raw bytes are accepted
whatever they are, and snappy, which has no checksum, may make anything of spoilt ones
(`Unsnapped`). Nor does the reader compare `key_len + value_len` with what the slab has
(`src/bulp-readonly-index.c:367-369`): the record then goes past the slab's end. All of
this is in the model, and so nothing can be promised of spoilt data: `RecordsInOrder`
and `EndIsTheEnd` hold as long as what has been read of both files is what was written
(`ReadAsWritten`), which in a file that breaks off is always.

A caller stops after an error; what the code does then is listed under the hazards
(`readonly-index.c:325`). It also stops behind a record that goes past the slab's end,
where the reader looks at memory that is not the slab's. The sum of the two lengths
does not wrap.

## 8. The runs

| Run | Instance | What it shows |
|---|---|---|
| `buffer_structure` | 2 buffers, 4 fragments of 2 bytes, bin of 1, 1 lent object, strings of 0, 1 and 3 bytes that differ only by being reserved or not | types, `Integrity` (what `verify_buffer` asserts in debug builds), `Ownership`, `LastFragIsTail` and `PlaceholderFindsItsBytes` through every interleaving of calls on both buffers |
| `buffer_fifo` | 2 buffers, 3 fragments, strings whose order can be told apart | `ImplementsByteQueues`: order and content of bytes through splices, transfers, partial reads and placeholders |
| `buffer_lent` | 1 buffer, 4 fragments, bin of 2, 2 lent objects, texts that fit the room, fit a new fragment exactly, or are lent by `vprintf`; 3 strings to look for | `NoLeak`, `LentIsReachable`, `InsideAllocation`, and `ScansAgree` in every state |
| `buffer_flush` | 1 buffer, 2 fragments, fairness | `FlushEnds` |
| `memory` | a data builder, a client of a `MemPool` or a client of a `MemPoolFixed`; 3 blocks, chunks of 4 bytes, pointers of 2, slabs of 2 pieces | `AllocationsInside`, `AllocationsApart`, `AllocationsAligned`, `ChunksOwned`; `PieceHeldOnce`, `PiecesApart`, `SlabsOwned`; `PiecesAreTold` and `SizeIsBuilt` |
| `formats` | 15 schemas with every kind of format, `pack`, `pack_to` or up to 5 foreign bytes of {0, 1, 4, 7} | `SizeIsExact`, `RoundTrip`, `RefusedOnlyWhenShort`, `StaysInside`, `AcceptedCanBeSent`, `NoEarlyAcceptance`, `LookupsAgree`, `ComparedAsValues` |
| `names` | a caller of 5 calls on 2 namespaces and 3 formats; or one namespace that gets 7 names in any order; or up to two texts, whole, cut off anywhere or with one lexeme replaced | `TreesSearchable`, `RefCountsExact`, `NamesLead`, `ParsedAsWritten`, `ImplementsNameTables` |
| `index_reader` | 4 indexes of up to 3 blobs and 4 records, uncompressed, zlib or snappy, cut off anywhere, or with a spoilt cell or entry | `RecordsInOrder`, `EndIsTheEnd`, `CallsReturn` |
| `formats_message`, `formats_struct` | one schema each | the two disagreements of formats below |
| `buffer_printf`, `buffer_placeholder` | as above | the two disagreements of buffers below |

Bounds of `memory`. Requests of 0, 1, 2 and 4 bytes: odd sizes that leave the
pointer unaligned, one that fits exactly and one of `ChunkSize`, which takes the
path of large chunks; three blocks let a large chunk be linked behind a head that
has a successor. A builder has up to 4 pieces and 6 bytes, its first buffer has 3
bytes and room for no or one piece, so that both pools leave the stack. `UIntSize`
is 10: a `chunk_left` that wrapped would exceed every chunk. Deadlock is not
checked there, since all blocks can be in use.

Bounds of `formats`. A byte has three bits and a group two (`Group` = 4), a ushort
5 bits, a uint 9 and a ulong 19. These are the widths at which the last group of
each is filled as in the code: 16, 32 and 64 bits leave 2, 4 and 8 bits for the last
of 3, 5 and 9 bytes, and 5, 9 and 19 leave 1, 1 and 3 bits, so that the last byte of a
ushort or uint is never full, and that of a ulong always is. The values of each
item are those at both ends and at the changes of length. Foreign bytes are a
terminator, a small number, the lowest byte that says another follows and the
highest byte; five of them are the longest uint. `LookupsAgree` meets lists of
2, 3 and 5 entries, declared out of order, with values that follow on and values
that are set. A length of binary data whose sum with its prefix exceeds a `uint32_t`
is left out of `AcceptedCanBeSent` (`LengthFits`): the code compares the sum after it
has wrapped. Deadlock is not checked: a stream ends.

Bounds of `names`. Five calls are enough to make two namespaces and a format, share
them and give them up in any order, and to reach a structure whose member is gone
from everywhere else. The names `a`, `ab` and `b` give a name that begins another.
Seven names and a builtin one let the tree
go through the cases of the insertion: a red uncle, single and double rotations on
both sides, and replacements of nodes that have been moved up. The texts together have every kind of stanza, arrays
of arrays, values set and following on, dotted names and names in use; the lexemes
put into them are separators, keywords, numbers that are not integers, a character
that begins no token and a blank. A second text is parsed only after a complete one.
Deadlock is not checked: a program may stop.

Bounds of `index_reader`. The indexes are an empty one, one blob of two records, and blobs that
grow and shrink, so that the slab is moved and is used again for less than it holds. A spoilt
length is read as any number up to `MaxLength` = 6, more than some blobs have and less than
others, so that prefixes that are too small and too large occur, and records that go past the
slab's end. Keys and values are made of `Bytes`, here three different ones. With `SLAB_MIN` of 2
cells a slab doubles up to three times. A slab's contents that were not written are `Garbage`.
Only one of the two files is cut off or spoilt. Deadlock is not checked: after an error nobody
calls any more.

The patterns of `buffer_lent` are one byte, two, and three of which the second equals the first,
so that a guess fails after it has matched for a while; the buffer of at most 5 bytes splits
them at every place. `NUL` is a byte `z` of its own, which texts never have. The run has one
buffer: that nothing leaks in a splice, and that lent objects survive one, is not seen in it and
rests on the theorems `NothingLeaks` and `LentUntilUnreachable`, which are about any number of
buffers.

Bounds of the buffer runs. `MaxSize` limits the bytes of one buffer to 3 (5 with
lent text); with two bytes to a fragment a list then has up to three fragments, and
first, middle and last fragment, full and partly read ones, and a fragment that is
first and last at once all occur. Three or four headers are enough for two lists and
the bin to compete for them, and for allocation to find the bin empty.
`MAX_RECYCLED` of 1 or 2 makes it overflow in one call. At most one placeholder is
outstanding (`NoHoles`), and callers append only strings from `Data`. An allocation
that the pool of headers cannot serve is not a behaviour: the code aborts when
`malloc` fails.

Fragments and buffers are symmetric: no action tells them apart, `NULL` and the
values are not permuted. Runs use the view `StateView`, which drops the record of
the last call (no action reads it), the fields that `clear` leaves behind
(nothing reads them before `init` sets them) and a placeholder nobody may
fill in. `FlushEnds` is checked without symmetry and without a view. Deadlock is
not checked: a program may stop calling the library, and in the bounded
instances all buffers can be full while a flush has failed for good.

Fairness. Two liveness properties are checked. `FlushEnds`, the end of
`write_all_to_fd`, assumes weak fairness of `write_all_step` only: the loop calls
`writev` again immediately, and a descriptor that keeps accepting at least one byte
makes each call take something. Without that assumption (a descriptor that never
accepts) the code really does not end. `CallsReturn` assumes that the kernel answers
a `read` in the end (it may be interrupted, but not for ever; it need not fail) and
that the reader does not stop in the middle of a call, since the code after
`bulp_util_readn` is straight-line code of the same thread.

### Disagreements the runs show

- `buffer_printf`: `bulp_buffer_vprintf` compares `req <= rem`
  (`src/bulp-buffer.c:1204`) although `vsnprintf` needs one more byte for its NUL.
  A text exactly as long as the room loses its last character.
- `buffer_placeholder`: when `last_frag` is full, `append_placeholder` records it
  with an offset at its end (`src/bulp-buffer.c:1600`) although all reserved bytes
  are in the next fragment. Reading the older bytes recycles the recorded
  fragment while every reserved byte still waits in the buffer.

- `formats_message`: `unpack__message` reads tags and lengths at `packed_data - at`
  and looks up the tag although `value + 1` was written
  (`src/bulp-format-struct.c:198,216`). With a number before the message, whose
  bytes then serve as the length, a message is accepted without its member.
- `formats_struct`: `unpack__struct` skips a nul (`src/bulp-format-struct.c:341`) that
  no packing function writes, and so the first byte of the next value.

Seen while modelling and part of the model, but without a run of their own:

- `bulp_buffer_clear` leaves `size`, `first_frag` and `last_frag` as they were,
  although the comment at `src/bulp-buffer.c:729-731` says a cleared buffer may be
  used again.
- A struct cut off before an optional member makes `assert(packed_len > 0)` fail
  (`src/bulp-format-optional.c:75`).
- `bulp_namespace_query` does not find a name when a longer name that begins with it
  is bound above it in the tree (`src/bulp-namespace.c:149`).
- `bulp_namespace_force_subnamespace` looks up every component of a dotted name in
  the namespace it was called with.
- `bulp_format_array_of` reads a field that the constructors of structs, unions and
  packed formats leave unset.
- `str_index_of` never finds a string with a byte of 0x80 or above, and
  `polystr_index_of` leaves `init_char_map` for such bytes, as section 3 says, with what
  else the scans get wrong.
- The fields of every integer format are one off from `log2_byte_size` on (section 5).
  `tests/various-builtins.c:24` asserts `is_signed` of them, and the comparator of every integer
  but `uint8` is the wrong one.
- `bulp_decompress` accepts a zlib blob whose length prefix is too large, and the reader a
  record longer than its slab (section 7).
- An array keeps a pointer to its element that holds no reference (section 6).
- A value given to a member of a struct is checked and not passed over, so that
  every such member is refused. The case of `=` runs on into that of the digits, and
  takes whatever follows as a number. The parser looks at one token more than there
  is; `namespace int;` fails an assertion; an enum without values, and a union with
  a case of type void when it is destroyed, are bad accesses; an enum is never given
  up by the parser.

## 9. The proofs

### Buffers

Proved with TLAPS, for every set of buffers, every finite set of fragments, every
set of lent objects and bytes, every chunk and header size with room for at least
one byte, and every bound of the bin of at least one (the assumptions
`SizeAssumption` and `ValueAssumption` of `BulpBuffer`, which TLC evaluates in
every run; the second says that `NUL`, `LF` and `Hole` are bytes and `Hole` is not
`NUL`, or the NUL that `append_string0` writes could not be told from a byte nobody
has filled in):

`TypeCorrect`, `SizesAddUp` (`Integrity`), `Owned` (`Ownership`), `NothingLeaks`
(`NoLeak`), `LastIsTail` (`LastFragIsTail`), `BinBounded` (`RecyclingBounded`),
`LentUntilUnreachable` (`LentIsReachable`) and `WithinAllocation`
(`InsideAllocation`), each as `Spec => []...`, from `Inductive == Spec => []IInv`.

The inductive invariant. None of these invariants is inductive alone. That a
fragment taken for an append is not already in some list needs `Ownership` of the
bin; that the append does not lose the list needs `LastFragIsTail`; that it stays
inside the allocation needs `InsideAllocation` of the last fragment; that the sum
of lengths stays right when another buffer's fragment is filled needs that lists
are disjoint; that a destroyed object is not still reachable needs that only one
fragment stands for it. `IInv` says all of it at once, in a form fit for proofs:
`Good(c, t, n, d)` is what one list promises (no repetition, its tail, its sum, no
empty fragment), and `Sorted(B, pl, kd, bn, ln)` is where the fragments are. Both
are formulas about constants, so that a step that changes a list twice (a transfer
moves fragments, then stores a copy) applies two lemmas to an intermediate value
no state has.

The argument, module by module:

- `BulpBufferProofs`, first part: the operators. `Offsets` is a recursive function; its
  defining equation is proved to have exactly one solution for every list
  (`SumsExist`, `OffsetsDef`, `SumsUnique`, by least counterexample), and from it
  sums of concatenations, cuts and single changes. `FittingBounds` and
  `TakenBounds` say where the read and transfer loops stop, `FillLengths`,
  `FilledTotal` and `Stored` what the append loop leaves in each fragment. Then
  `IInv`, and what happens to one list (`GoodStored`, `GoodTaken`, `GoodFirst`,
  `GoodJoin`, ...) and to the places of fragments (`SortedGrow`, `SortedLend`,
  `SortedShrink`, `SortedMove`, ...).
- `BulpBufferProofs`, second part: one lemma per kind of step that changes the lists
  (`StoreKeepsCore`, `UnlinkKeepsCore`, `SpliceKeepsCore`, `TransferKeepsCore`,
  ...), one per call, and the theorems.
- `ByteQueuesProofs`: the refinement, `BuffersAreQueues == Spec =>
  ImplementsByteQueues`, and `PlaceholderFound == Spec => []PlaceholderFindsItsBytes`.

The refinement. The queue of a buffer is `Contents(chain[b], data)`, the
concatenation of what its fragments hold. `SequenceFacts` proves that a
concatenation, which the community modules define by a fold, is what is reached by
appending one piece after another (`FlattenIsJoin`), and from that how it splits, grows
and changes. On it rest the lemmas about lists: `ContentsStored` (what the append loop
spreads over fragments comes out in one piece), `ContentsTaken` (what is taken is
what stood in front), `ContentsConcat` (splicing). Each call then says of the queues
what it does, in one of four forms: `Grows`, `Takes`, `Moves`, or supplies the
reserved bytes; and from that a lemma for each of the calls (`PutStep`, `TakeStep`,
`DrainStep`, `TransferStep`, `SupplyStep`, ...) shows that it is the operation of
`ByteQueues` that its `io` names, or none.

The refinement is not provable from `IInv` alone. To supply the reserved bytes, and no
others, the walk of `bulp_buffer_placeholder_set` has to find them: the recorded fragment
must be in a list, at an offset from which the reserved bytes follow, the fragments the
walk moves on to must hold their data at index 0, and no byte without a value may wait
elsewhere. That is `PhInv` (in `MarkedAt` and `Holds`). A call that takes bytes in front
of the placeholder keeps it; one that reaches a reserved byte makes the placeholder
stale (`fresh` goes down), and nothing is said of it any more. `PlaceholderKept ==
Spec => [](IInv /\ PhInv)` is proved call by call (`PhGrows`, `PhTakes`, `PhMoves`,
`PhDrains`, `PhBegins`, ...). It holds of a placeholder that is `fresh`; the run
`buffer_placeholder` shows what happens to another.

The scans. The last part of `BulpBufferProofs` proves `ScansAlwaysAgree == Spec => []ScansAgree`, for
buffers of any number of fragments of any lengths and any finite set of non-empty
patterns (`PatternsAssumption`). It needs of the state only `TypeOK` and, for
`get_last_byte`, `LastFragIsTail`; the rest is about the operators. Every scan is a
recursive function of the number of a fragment that looks at the fragment and goes on
with the next, and the value it carries along (an offset, what is left, what was told)
is an argument of the function's value. `SequenceFacts` has what all of them need:
`WalkExists`, that an equation of that form has a solution, and `WalkInduction`,
that what holds behind the last fragment, and in a fragment if it holds in the
next, holds in all of them. The bytes of fragment `i` are those of the flat buffer
behind `Before(p, i)` (`Laid`), every place of the flat buffer lies in exactly one
non-empty fragment (`PlaceOf`), and a slice is found again in the pieces (`SliceIs`). Then one closed form
for each scan: `PeekIs`, `IndexIs`, `GuessIs` (a guess holds exactly when the flat
bytes hold the string there), `StrIndexIs`, `FindIs`, `PlacesRight`, `CopiesRight`,
and for a list of strings `FragmentStrIs` (1 as soon as the rest of the fragment
holds the string, whatever the index into the next one) and `ToldIs`, from which
`PolystrRight`. A string with a byte of `High` has a negative character that is
in no buffer, so `str_index_of` comes to its end.

Only model-checked: `FlushEnds` (liveness under fairness is out of the provers' reach).

### Pools and data builder

Proved for all chunk, pointer and piece sizes, slab sizes, requests and buffers
that satisfy `HeapAssumption`, `PoolAssumption`, `FixedAssumption` and
`BuilderAssumption` (a chunk is a multiple of a pointer and fits an `unsigned`; a
piece has room for a pointer):

- `MemoryProofs`, first part: `PoolStaysInside`, `PoolSharesNothing`, `PoolAligns` and
  `PoolOwnsItsChunks`. The invariant adds to them that the rest of the current
  chunk is free and lies inside its block (`RestIsFree`), and that in a pool that
  hands out aligned memory `chunk + chunk_left` is aligned (`EndIsAligned`). That
  is why the unchecked subtraction in `bulp_mem_pool_align` never wraps: the bytes
  to the next multiple of a pointer fit before an aligned end (`AlignmentFits`).
- `MemoryProofs`, second part: `NoPieceTwice`, `PiecesStayApart` and `PoolOwnsItsSlabs`.
  Which pieces callers hold is a bag, so that a piece cut twice would be in it twice
  (`NoPieceTwice` is about that as well as about the free list).
  The invariant adds that the pieces not yet cut lie behind every piece of the
  current slab.
- `MemoryProofs`, third part: `UsesItsPools` shows that the builder implements the
  specifications of both pools, so their theorems hold for the pools inside a
  builder. `NothingIsOverwritten` (`PiecesAreTold`) then follows from an invariant
  that ties every piece to an allocation of `str_buf` (`Backed`): a new copy goes
  to memory no allocation covers, and a new piece structure to an address no
  queued piece has. `SizeIsRight` (`SizeIsBuilt`) says that once every
  placeholder is filled in the size that was counted is the length of what `build`
  writes. It needs a strengthening of its own, `SizeInv`: counted is what was *supplied*, placeholders that wait left out
  (`JoinedAppend`, and for one that is filled in the middle `FlattenLonger`), and no
  supplied piece is as long as the mark of a placeholder, or it could be supplied
  again.

### Integer codecs

`IntCodecsProofs` is about every value and every width that fits the number of bytes
the code uses (`WidthAssumption`), in memory that holds anything around the bytes:
`UshortRoundTrip`, `UintRoundTrip` and `UlongRoundTrip` say that a packed number has the
promised size, comes back from its bytes, and is refused while some are missing;
`ZigzagInverse` that folding a signed number keeps it in its word and loses nothing,
the least number included; `SignedRoundTrip` puts them together.

The argument: the groups of a number are its successive quotients (`ShiftedSteps`),
so a number below `Group^n` has no group after the n-th (`LastGroups`, by `DivBelow`).
All bytes but the last say that another follows, so the reader finds as many as
were written (`GroupsRead`) and, while some are missing, looks for more than there
are (`GroupsMissing`). Joining them is Horner's rule from the last group down, each
step of which is the division lemma `DivMod`. At most nine positions exist, so the
least one with a property is found by cases (`LeastPosition`) and no induction is
needed.

Only model-checked: everything about formats made of other formats. `Formats` is
recursive in the format, which the provers in use do not reach.

### Index reader

`IndexReaderProofs` is about every index (blobs of records whose keys are not empty),
every algorithm, every place where one of the files breaks off, every spoilt cell of the
heap and number of an entry, every behaviour of the kernel and every size of a slab
(`ReaderAssumption`, `CompressionAssumption`, `SlabAssumption`). What the theorems say of
spoilt files ends where the reader comes to what is spoilt; only that pointers stay good
(`PointersStayGood`) has no such end.

`PointersStayGood`: the pointer a caller has in hand points into the slab as it is
(`NothingDangles`). That is not inductive: the second call of `peek` computes its
pointer from the place the reader keeps, and a blob that arrives may move the slab. The
invariant adds that the reader's place is in the slab as it is unless an error was told
(`PlaceIsFresh`), and that a caller has nothing in hand while a call goes on
(`CallerWaits`), which is why the slab may move then.

`RecordsComeInOrder` (`RecordsInOrder`) and `EndIsRight` (`EndIsTheEnd`) need to know
where the reader stands in five places at once: in the index file, in the heap, in
`heap_offset`, in its slab, and with its caller. `OrderInv` says that they agree, as one
of four situations: a record is in hand (`InHand(k, j)`: the j-th of the k-th blob), none
is (`Waiting(k)`), the next entry is being read (`ReadingEntry(k)`), or its blob is
(`ReadingBlob(k)`); or an error has been told. Of a reader that has read something spoilt
it says nothing, so what is inductive is `ReaderInv`: the files are of cells and entries and
what is under way is a read of them (`FilesInv`, `CallTyped`), and `ReadAsWritten => OrderInv`.
A step never makes `ReadAsWritten` true again (`AsWrittenBefore`: what was read before is a part of
what has been read since), and from it follows that the bytes just read are those written
(`ReadFrom`). `OrderInductive == Spec => []ReaderInv` is proved with one lemma for each action:

- what was written: `WrittenIs` says what the loop over the blobs leaves in heap and
  entries (each round is `WrittenStep`, put together by `Iterated`), `HeapPlaces` and
  `IndexPlaces` where each blob and entry then lies;
- slabs: `DoubledIsEnough` that the doubling ends with enough, `SetSizeIsSlab`,
  `CopiedIsThere`, and of the algorithms `DecompressTells`;
- `KernelReads`: a `bulp_util_readn` under way has what lies between where it began and
  where the descriptor stands, whichever way the kernel splits it;
- `EntryHasCome` and `BlobHasCome` find in what was read the entry and the blob that come
  next, so that `heap_offset` agrees (and the reader does not abort) and a blob is the
  one written; `Tells` and `AtEndIs` that the lengths in the slab
  lead from record to record, and to the slab's end after the last.

`InHandIsRecord` then reads the record off the slab. Only model-checked: `CallsReturn`,
which is liveness.

### Trees

`RedBlackTreeProofs` is about every tree, of any size and shape, every order and every
node. A tree is a record of links, so that nothing says by itself that they are those of a
tree; what does is `Search(t, below, less)` and its part for the colours: `below[x]` is
the set of nodes under `x`, one for each node and consistent with the links, so that what
hangs to the left is less than the node and what hangs to the right is not, and
`black[x]` is the number of black nodes on every way down from `x`. Both functions
exist for every tree the macros make, and the proofs carry them along: a rotation
changes them at two nodes, a recolouring at three.

- `LookupFinds`: the descent of `DSK_RBTREE_LOOKUP_COMPARATOR` goes to a node that compares
  equal, and ends at `NULL` only when there is none.
- `InsertKeeps`: `DSK_RBTREE_INSERT` keeps the tree a red-black tree. Its loop is followed
  turn by turn: what is wrong at the start of a turn is at most that the current node and
  its parent are both red, and a turn mends that or moves it two levels up.
- `ReplaceKeeps`: `DSK_RBTREE_REPLACE_NODE` puts a node in the place of another that stands
  at the same place in the order.

### Namespaces and reference counts

`NamespaceProofs` is about every set of names with their spellings, every number of namespaces,
formats, references and members, and every caller that keeps to the rules. It assumes
`NamesAssumption` (spellings are finite and tell names apart), `NullAssumption` (a null
pointer is no object, node or entry), `CallerAssumption` (the names a caller uses are
names, and arrays are made by `bulp_format_array_of` only, `src/src/bulp-format-array.c:120-126`;
a caller's structures are not arrays) and, where texts are parsed, `TextsAssumption`. First
come the theorems about a caller's calls (`Namespaces`), then those that add the parser
(`Descriptions`).

The invariant `StoreSound` says that the heap is well formed (`Sound`: every living
namespace has a red-black tree of `malloc`ed nodes in the order of `strcmp`, entries and
members refer to objects that were made, and the canonical name of a format leads to it
while its namespace is there). Every operator of the model gets a lemma that says what it
makes of such a heap: `Becomes(s, u)`, that `u` is sound, has every object `s` had under
its number, and that a name bound in a namespace stays bound to the same thing as long
as the namespace is there. That is what callers of destructors rely on, for a destructor frees
objects in the middle of the list of what is still to be freed. From it:

- `TreesStaySearchable` (`TreesSearchable`), with the lemma that `StrCmp` is an order
  (`CmpIs`) and the theorems about trees. `force_subnamespace_1` inserts a node of its
  stack and replaces it by another before it returns (`ForceFree`).
- `CanonicalNamesKeepLeading`: the pointers of a format to its namespace and to the name in
  one of its nodes hold no reference, and still never lead elsewhere.
- `NamespacesAreTables`: `Namespaces => ImplementsNameTables`, the refinement. The abstract table
  of a namespace is what `bulp_namespace_query_1` finds for each name.
- `RefCountsStayExact` (`RefCountsExact`). The invariant is `Accounted`: besides `StoreSound`,
  that for every object the count less what entries, members, the static variable and an
  array itself account for (`Bal`) is what the caller holds and what was lost. Each operator
  *settles* (`Settles(s, u, e, d)`): of what is not accounted for, only that of `e` changes, by
  `d`. A destructor settles only in the end: while it runs, an object's balance is
  what it was and the number of references to it that are still to be given back (`todo`)
  (`UnrefBalances`), and no unref meets an object that is gone, or the balance would be
  less than nothing. `GiveBack` stops after as many turns as there are references;
  `Len(todo)` and the references of living objects together lose one with every turn, so
  nothing is left to give back by then (`UnrefsBalance`, `GiveBackSettles`).
- `NamesAlwaysLead`: `NamesLead` in every heap whose process has not ended. `CmpLen` differs from
  `Cmp` only at names that go on after the one looked for (`CmpLenIs`), so
  `query_1_len` finds what `query_1` finds, or nothing and there is such a name in the
  namespace (`EntryForIs`). A namespace on the way is there because it is bound and counts
  are exact (`BoundAlive`); this is where the property rests on the one before.

The parser changes the heap in the middle of a text, turn by turn, and the text may be
anything. Its invariant is `DescriptionSound`: `Accounted`, and while the process and the
parser go on, `ParserWhole`: the tokens are good (a word is a name, unless it is a
`NUMBER`), the place is among them, the namespaces the parser was given and has forced are
there, and every item it has collected has no format or one that was made. It does not
say that an item's format is still there; one that is gone would end the process
(`crashed`) when the stanza takes its reference, and what the theorems say of counts and of
`NamesLead` is about processes that go on. The lemmas follow the parser's functions:

- what the tokenizer returns (`TokensAreGood`), how many tokens a dotted name takes
  (`DottedNameIs`), and that its words are names (`PathOfIs`, `NamespaceWords`, in which one
  token beyond the text may be looked at);
- what a member's type leaves: arrays are made on the way, and nothing else changes
  (`Quiet`, `ArrayMarksAre`, `FormatIsRead`, `ItemIsRead`), whether the item is accepted or not;
- what the header leaves, forcing one namespace after the other (`ForcedArrives`);
- what a finished stanza leaves: its format is made, bound if the name is free, and given back,
  or for an enum is one reference that is lost (`StanzaCounts`; lost references are
  `leaks`, which `RefCountsExact` counts, `LeakCounts`).

With one lemma for each action (`...Carries`, joined in `StepCarries`) come
`ParsingKeepsCounts`, `ParsingKeepsTrees`, `ParsedNamesLead` and `ParsingKeepsTables`: the
four properties above, of every run of calls and texts.

### What is not proved

Formats made of formats, the streams and the comparators are only model-checked: their
operators are recursive in the format, which the provers do not reach. So the
properties of `FormatStreams` and `ComparedAsValues` rest on the runs alone, and so does
`ParsedAsWritten`, which says by induction over a description what its text comes to. So do both
liveness properties: fairness and `ENABLED` are out of the prover's reach.

## 10. Hazards without a property

`PROJECT.json` names each with the reason. They are code nothing calls
(`maybe_remove_empty_fragment`, `dump`, or a buffer after `clear`), code whose outcome
is undefined and which the model leaves out (the sorted indexer), what a caller meets
who goes on after an error (the reader of an index), and two cases in which the
code is known to go wrong and the properties are stated without them: an optional
member of a struct that is cut off, and lengths of binary data near 2^32.

Other hazards have a property and a note of what it leaves open: a placeholder whose
bytes are transferred away is not filled in any more; what `init_char_map` does
behind its sixteen bytes is only shown to be reached; nothing keeps an array's
`element` in being; and what a reader is handed once it has come to spoilt bytes is
only shown to come back, not to be right.

## 11. What is not modelled

The sorted indexer: `bulp_sorted_indexer_new` leaves the number of levels, the
levels and the total size of the blobs as `malloc` returned them and allocates the
size of a pointer for its entries, so that nothing after it has a defined outcome.
The lookup of the read-only index: it calls a comparator with five arguments where
the type has three, and uses a cache and slabs nobody has set. Code generation,
random data for tests, errors (text only) and the UTF scan are listed in
`PROJECT.json` with their reasons; of the JSON helpers the scan of a number is in
`DescriptionParser`.

Within the buffers: 32-bit wrap-around of `size` (more
than 4 GiB in one buffer), failure of `malloc` (the code aborts), `EINTR` and
errors of single `writev`/`readv` calls outside a flush (they change nothing), several
placeholders at once, `bulp_buffer_dump`, and the `HACKS` pair
`append_empty_fragment`/`maybe_remove_empty_fragment`, which has no caller.

Within the comparators: messages, structs, unions, optionals and arrays, whose
functions are not written; floats; packed elements, where the condition that tells
fields inside a byte from fields across bytes is the wrong way round, so that a
field shorter than what is left of its byte makes an unsigned count wrap.

Within the names: the version number of a namespace, `foreach`, and names in quotes.
Within the index: errors of `open` and of `fstat`, and the other calls of `bulp-util.c`.

Within the formats: the layout of native objects (the code never assigns
`native_offset`, nor the fields that are its counterpart in unions), and the memory
that unpacked arrays and optionals take from the pool; `string` and `string0`, whose
scan of UTF-8 is in `bulp-utf.c`, and floats; text in error objects; the conversion
between the native C types of packed elements and numbers; names with a given
length in lookups; the destruction of formats. `validate_native` is modelled, with
the missing entry that arrays and unions call untested as the answer "crash";
it is used by `AcceptedCanBeSent` for the formats that read forward.
