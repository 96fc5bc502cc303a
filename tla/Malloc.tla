------------------------------- MODULE Malloc -------------------------------
(* The memory allocator of the C library (lib/mylibc/stdlib/malloc.c): Doug *)
(* Lea's boundary tags and bins on top of sbrk().                           *)
(*                                                                          *)
(* All of the allocator's state is one record, `heap': `mem' holds the      *)
(* words the allocator or a program has written, by address (the size of a  *)
(* chunk p is at p + 4, the size of a free chunk also at its end, which is  *)
(* the last word of the program's data when the chunk is in use); `bin' the *)
(* non-empty bins, each the sequence of its chunks in the order of fd, bin  *)
(* 1 being last_remainder; `marked' the blocks of bins set in binblocks.    *)
(* An operation maps a heap to a heap, or to a heap and an address: the     *)
(* operations call each other, and none of them is ever interrupted.        *)
(*                                                                          *)
(* A program marks the first and the last word of each of its blocks.       *)
EXTENDS Integers, FiniteSets, Sequences, SequencesExt, FiniteSetsExt

CONSTANTS
    HeapStarts,      \* values of _heap (ram.lds aligns it to 4 bytes)
    HeapSize,        \* _stack_end - _heap
    PageSize,        \* malloc_getpagesize
    TopBit,          \* the first size_t that is negative as a long
    Tags,            \* what programs write: one tag per block
    Requests,        \* sizes asked for
    Alignments,      \* alignments asked of memalign()
    Pads,            \* arguments of malloc_trim()
    DefaultTrim,     \* DEFAULT_TRIM_THRESHOLD
    TrimThresholds,  \* values mallopt() gives M_TRIM_THRESHOLD
    TopPads,         \* values mallopt() gives M_TOP_PAD
    ForeignSizes,    \* arguments of a program's own sbrk()
    MaxCalls         \* bound on the calls of a behaviour

\* The heap is smaller than half of the address space, as it is on every
\* board, pages and alignments are multiples of 8 bytes, and no request is so
\* large that its size overflows.
ASSUME MallocConstants ==
    /\ HeapStarts \subseteq Nat \ {0}
    /\ HeapSize \in Nat /\ TopBit \in Nat /\ HeapSize < TopBit
    /\ PageSize \in Nat /\ PageSize >= 16 /\ PageSize % 8 = 0
    /\ Requests \subseteq Nat /\ Alignments \subseteq Nat
    /\ \A al \in Alignments : al > 8 => al % 8 = 0
    /\ \A n \in Requests, al \in Alignments \union {PageSize} :
          n + 2 * PageSize + al + 128 < TopBit
    /\ Pads \subseteq Nat /\ TopPads \subseteq Nat /\ ForeignSizes \subseteq Nat
    /\ \A pad \in Pads \union TopPads \union {0} : pad + 2 * PageSize + 64 < TopBit
    /\ DefaultTrim \in Nat /\ TrimThresholds \subseteq Nat

VARIABLES
    heap,     \* the allocator
    blocks,   \* tag -> [mem, req] of the block a program holds under it
    refused,  \* bytes the last call could not allocate, or 0
    dirty,    \* did the last calloc() leave a word that may not be zero?
    lost,     \* did the last realloc() not keep a word of the block?
    calls     \* calls so far

mallocVars == <<heap, blocks, refused, dirty, lost, calls>>

SIZE_SZ == 4
MALLOC_ALIGNMENT == 8
MINSIZE == 16
MAX_SMALLBIN_SIZE == 512
BINBLOCKWIDTH == 4
InitialTop == 0

RoundUp(x, m) == ((x + m - 1) \div m) * m

\* The value of an unsigned word read as a long.
Long(x) ==
    LET u == x % (2 * TopBit)
    IN IF u >= TopBit THEN u - 2 * TopBit ELSE u

request2size(req) ==
    LET padded == req + SIZE_SZ + MALLOC_ALIGNMENT - 1
    IN IF Long(padded) < MINSIZE + MALLOC_ALIGNMENT - 1
       THEN MINSIZE
       ELSE (padded - (padded % MALLOC_ALIGNMENT)) % (2 * TopBit)

smallbin_index(sz) == sz \div 8

bin_index(sz) ==
    LET pages == sz \div 512
    IN CASE pages = 0 -> sz \div 8
         [] pages \in 1 .. 4 -> 56 + sz \div 64
         [] pages \in 5 .. 20 -> 91 + sz \div 512
         [] pages \in 21 .. 84 -> 110 + sz \div 4096
         [] pages \in 85 .. 340 -> 119 + sz \div 32768
         [] pages \in 341 .. 1364 -> 124 + sz \div 262144
         [] OTHER -> 126

is_small_request(nb) == nb < MAX_SMALLBIN_SIZE - 8
idx2binblock(i) == i \div BINBLOCKWIDTH

-----------------------------------------------------------------------------
(* Chunks: their tags in memory.                                            *)

Word(h, a) == IF a \in DOMAIN h.mem THEN h.mem[a] ELSE 0
Put(h, a, v) ==
    [h EXCEPT !.mem =
        [x \in DOMAIN @ \union {a} |-> IF x = a THEN v ELSE @[x]]]

HeadOf(h, p) == Word(h, p + SIZE_SZ)
chunksize(h, p) == IF p = InitialTop THEN 0 ELSE (HeadOf(h, p) \div 4) * 4
prev_inuse(h, p) == HeadOf(h, p) % 2 = 1
next_chunk(h, p) == p + chunksize(h, p)
inuse(h, p) == prev_inuse(h, next_chunk(h, p))

set_head(h, p, size) == Put(h, p + SIZE_SZ, size + 1)
set_head_size(h, p, size) ==
    Put(h, p + SIZE_SZ, size + (HeadOf(h, p) % 2))
set_foot(h, p, size) == Put(h, p + size, size)
SetFree(h, p, size) == set_foot(set_head(h, p, size), p, size)
set_inuse_bit(h, next) ==
    Put(h, next + SIZE_SZ, (HeadOf(h, next) \div 2) * 2 + 1)
clear_inuse_bit(h, next) == Put(h, next + SIZE_SZ, chunksize(h, next))

chunk2mem(p) == p + 2 * SIZE_SZ
mem2chunk(m) == m - 2 * SIZE_SZ

-----------------------------------------------------------------------------
(* Bins.                                                                    *)

last_remainder == 1

Bin(h, i) == IF i \in DOMAIN h.bin THEN h.bin[i] ELSE << >>
SetBin(h, i, s) ==
    [h EXCEPT !.bin =
        [j \in (DOMAIN @ \union {i}) \ {k \in {i} : s = << >>} |->
            IF j = i THEN s ELSE @[j]]]

IsLastRemainder(h, p) == Bin(h, last_remainder) = <<p>>
link_last_remainder(h, p) == SetBin(h, last_remainder, <<p>>)
clear_last_remainder(h) == SetBin(h, last_remainder, << >>)

unlink(h, p) ==
    LET i == CHOOSE i \in DOMAIN h.bin : p \in ToSet(h.bin[i])
        k == CHOOSE k \in DOMAIN h.bin[i] : h.bin[i][k] = p
    IN SetBin(h, i, RemoveAt(h.bin[i], k))

\* Large bins are kept in decreasing order of size.
frontlink(h, p, size) ==
    LET small == size < MAX_SMALLBIN_SIZE
        i == IF small THEN smallbin_index(size) ELSE bin_index(size)
        s == Bin(h, i)
        notLarger == {k \in DOMAIN s : chunksize(h, s[k]) <= size}
        at == IF small THEN 1
              ELSE IF notLarger = {} THEN Len(s) + 1 ELSE Min(notLarger)
        marks == IF small \/ s = << >> THEN {idx2binblock(i)} ELSE {}
    IN [SetBin(h, i, InsertAt(s, at, p)) EXCEPT !.marked = @ \union marks]

\* The first chunk, from the back of bin i, that holds nb bytes; or 0.
FirstFit(h, i, nb) ==
    LET s == Bin(h, i)
        fits == {k \in DOMAIN s : chunksize(h, s[k]) >= nb}
    IN IF fits = {} THEN 0 ELSE s[Max(fits)]

-----------------------------------------------------------------------------
(* The system's memory.                                                     *)

\* `high' is the highest break so far: above it memory is as the machine
\* found it, below it what has been given back is zero.
mem_malloc_init(start) ==
    [mem |-> << >>, bin |-> << >>, marked |-> {}, top |-> InitialTop,
     brk |-> start, start |-> start, end |-> start + HeapSize,
     base |-> -1, high |-> start, fence |-> {},
     trim_threshold |-> DefaultTrim, top_pad |-> 0]

SbrkFails(h, increment) ==
    h.brk + increment < h.start \/ h.brk + increment > h.end
sbrk(h, increment) ==
    IF SbrkFails(h, increment) THEN h
    ELSE [h EXCEPT !.brk = @ + increment,
                   !.high = Max({@, h.brk + increment})]

malloc_trim(h, pad) ==
    LET size == chunksize(h, h.top)
        spare == (size - pad - MINSIZE + PageSize - 1) % (2 * TopBit)
        extra == Long((spare \div PageSize - 1) * PageSize)
    IN IF \/ extra < PageSize
          \/ h.brk # h.top + size
          \/ SbrkFails(h, -extra)
       THEN h
       ELSE set_head(sbrk(h, -extra), h.top, size - extra)

-----------------------------------------------------------------------------
(* free()                                                                   *)

FreeIntoTop(h, p, size) ==
    LET back == ~prev_inuse(h, p)
        q == IF back THEN p - Word(h, p) ELSE p
        all == size + chunksize(h, h.top) + (p - q)
        h1 == IF back THEN unlink(h, q) ELSE h
        h2 == [set_head(h1, q, all) EXCEPT !.top = q]
    IN IF all >= h.trim_threshold THEN malloc_trim(h2, h.top_pad) ELSE h2

\* The free chunk `next' becomes a part of q; if it was last_remainder, q is.
TakeNext(h, q, next) ==
    IF IsLastRemainder(h, next) THEN link_last_remainder(h, q) ELSE unlink(h, next)

\* The free chunk q is in no bin, unless it is last_remainder.
PutInBin(h, q, size) ==
    IF IsLastRemainder(h, q) THEN h ELSE frontlink(h, q, size)

\* A mutant of FreeIntoBin: it does not merge with a free next chunk.
MutantNoForward(h, p, size) ==
    LET back == ~prev_inuse(h, p)
        q == IF back THEN p - Word(h, p) ELSE p
        all == size + (p - q)
        h1 == clear_inuse_bit(IF back THEN unlink(h, q) ELSE h, p + size)
    IN PutInBin(SetFree(h1, q, all), q, all)

FreeIntoBin(h, p, size) ==
    LET next == p + size
        q == IF prev_inuse(h, p) THEN p ELSE p - Word(h, p)
        forward == ~inuse(h, next)
        all == size + (p - q) + (IF forward THEN chunksize(h, next) ELSE 0)
        h1 == clear_inuse_bit(h, next)
        h2 == IF q # p /\ ~IsLastRemainder(h, q) THEN unlink(h1, q) ELSE h1
    IN PutInBin(SetFree(IF forward THEN TakeNext(h2, q, next) ELSE h2, q, all), q, all)

fREe(h, m) ==
    LET p == mem2chunk(m)
        size == chunksize(h, p)
    IN CASE m = 0 -> h
         [] m # 0 /\ p + size = h.top -> FreeIntoTop(h, p, size)
         [] OTHER -> FreeIntoBin(h, p, size)

-----------------------------------------------------------------------------
(* malloc()                                                                 *)

Null(h) == [h |-> h, mem |-> 0]
Found(h, p) == [h |-> h, mem |-> chunk2mem(p)]

\* Two markers keep chunks from being merged across a program's own sbrk().
\* What is left of an old top too small to be freed stays before them.
Fence(h, old, size) ==
    LET cut == ((size - 3 * SIZE_SZ) \div MALLOC_ALIGNMENT) * MALLOC_ALIGNMENT
        h1 == set_head_size(h, old, cut)
        h2 == set_head(h1, old + cut, SIZE_SZ)
        h3 == set_head(h2, old + cut + SIZE_SZ, SIZE_SZ)
        left == {p \in {old} : cut < MINSIZE}
        h4 == [h3 EXCEPT !.fence =
                  @ \union {old + cut, old + cut + SIZE_SZ} \union left]
    IN IF cut >= MINSIZE THEN fREe(h4, chunk2mem(old)) ELSE h4

\* The system's memory goes on right behind top ...
ExtendContiguous(h, size) ==
    set_head(sbrk(h, size), h.top, size + chunksize(h, h.top))

\* ... or begins a new top, aligned at both ends by a second sbrk().
ExtendElsewhere(h, size) ==
    LET front == (-h.brk) % MALLOC_ALIGNMENT
        new == h.brk + front
        correction == front + RoundUp(new + size, PageSize) - (new + size)
        h1 == [sbrk(h, size) EXCEPT !.base = IF @ = -1 THEN h.brk ELSE @]
        h2 == sbrk(h1, correction)
        h3 == set_head([h2 EXCEPT !.top = new], new, h2.brk - new)
    IN CASE SbrkFails(h1, correction) -> h1
         [] ~SbrkFails(h1, correction) /\ h.top = InitialTop -> h3
         [] OTHER -> Fence(h3, h.top, chunksize(h, h.top))

malloc_extend_top(h, nb) ==
    LET least == nb + h.top_pad + MINSIZE
        size == IF h.base # -1 THEN RoundUp(least, PageSize) ELSE least
    IN CASE SbrkFails(h, size) -> h
         [] ~SbrkFails(h, size) /\ h.brk = next_chunk(h, h.top) ->
                ExtendContiguous(h, size)
         [] OTHER -> ExtendElsewhere(h, size)

SpareInTop(h, nb) == chunksize(h, h.top) - nb

TakeFromTop(h, nb) ==
    LET rest == h.top + nb
        h1 == set_head([h EXCEPT !.top = rest], h.top, nb)
    IN IF SpareInTop(h, nb) < MINSIZE THEN Null(h)
       ELSE Found(set_head(h1, rest, SpareInTop(h, nb)), h.top)

FromTop(h, nb) ==
    TakeFromTop(IF SpareInTop(h, nb) < MINSIZE THEN malloc_extend_top(h, nb)
                ELSE h, nb)

\* Give out p, which is in no bin: all of it, or its front.
UseAll(h, p) == Found(set_inuse_bit(h, next_chunk(h, p)), p)
Split(h, p, nb) ==
    LET rest == p + nb
        size == chunksize(h, p) - nb
        h1 == set_head(link_last_remainder(h, rest), p, nb)
    IN Found(SetFree(h1, rest, size), p)

\* A chunk that holds nb bytes with less than MINSIZE to spare, or 0.
ExactFit(h, nb) ==
    LET i == bin_index(nb)
        q == FirstFit(h, i, nb)
        small == {j \in {i, i + 1} : Bin(h, j) # << >>}
    IN CASE is_small_request(nb) /\ small = {} -> 0
         [] is_small_request(nb) /\ small # {} -> Last(Bin(h, Min(small)))
         [] ~is_small_request(nb) /\ q # 0 ->
                IF chunksize(h, q) - nb < MINSIZE THEN q ELSE 0
         [] OTHER -> 0

\* A mutant of SearchFrom: the bin of a large request is never searched again.
MutantNextBin(h, nb) ==
    IF is_small_request(nb) THEN smallbin_index(nb) + 2
    ELSE bin_index(nb) + 1

\* The bin the search for a larger chunk begins with.
SearchFrom(h, nb) ==
    CASE is_small_request(nb) -> smallbin_index(nb) + 2
      [] ~is_small_request(nb) /\ FirstFit(h, bin_index(nb), nb) # 0 ->
            bin_index(nb)
      [] OTHER -> bin_index(nb) + 1

\* A block the search leaves without a chunk is unmarked, unless the bins
\* it did not look at hold one.
Unmarked(h, from, blks) ==
    {b \in blks : \A i \in b * BINBLOCKWIDTH .. from - 1 : Bin(h, i) = << >>}

\* Search the marked blocks of bins in order of size, then top.
FromBins(h, from, nb) ==
    LET block(i) == idx2binblock(i)
        hits == {i \in DOMAIN h.bin : /\ i >= from
                                      /\ block(i) \in h.marked
                                      /\ FirstFit(h, i, nb) # 0}
        passed == {b \in h.marked : /\ b >= block(from)
                                    /\ \A i \in hits : b < block(i)}
        h1 == [h EXCEPT !.marked = @ \ Unmarked(h, from, passed)]
        p == FirstFit(h, Min(hits), nb)
    IN CASE hits = {} -> FromTop(h1, nb)
         [] hits # {} /\ chunksize(h, p) - nb >= MINSIZE ->
                Split(unlink(h1, p), p, nb)
         [] OTHER -> UseAll(unlink(h1, p), p)

mALLOc(h, bytes) ==
    LET nb == request2size(bytes)
        exact == ExactFit(h, nb)
        isLast == Bin(h, last_remainder) # << >>
        p == Bin(h, last_remainder)[1]
        spare == chunksize(h, p) - nb
        h1 == clear_last_remainder(h)
        h2 == IF isLast THEN frontlink(h1, p, chunksize(h, p)) ELSE h
    IN CASE Long(bytes) < 0 -> Null(h)
         [] Long(bytes) >= 0 /\ exact # 0 -> UseAll(unlink(h, exact), exact)
         [] Long(bytes) >= 0 /\ exact = 0 ->
                CASE isLast /\ spare >= MINSIZE -> Split(h, p, nb)
                  [] isLast /\ spare \in 0 .. MINSIZE - 1 -> UseAll(h1, p)
                  [] OTHER -> FromBins(h2, SearchFrom(h, nb), nb)

-----------------------------------------------------------------------------
(* realloc(), memalign(), calloc()                                          *)

MALLOC_COPY(h, dest, src, n) ==
    LET range == dest .. dest + n - 1
        to == {a \in range : a - dest + src \in DOMAIN h.mem}
    IN [h EXCEPT !.mem =
          [a \in (DOMAIN @ \ range) \union to |->
              IF a \in to THEN @[a - dest + src] ELSE @[a]]]

\* Cut the `size' bytes that p has now down to nb, if a chunk is left over.
SplitRealloc(h, p, size, nb) ==
    LET rest == p + nb
        h1 == set_head(set_head_size(h, p, nb), rest, size - nb)
        h2 == set_inuse_bit(set_head_size(h, p, size), p + size)
    IN IF size - nb >= MINSIZE
       THEN Found(fREe(set_inuse_bit(h1, p + size), chunk2mem(rest)), p)
       ELSE Found(h2, p)

\* p grows to nb bytes at the cost of top.
GrowIntoTop(h, p, size, nb) ==
    Found(set_head_size(set_head([h EXCEPT !.top = p + nb],
                                 p + nb, size - nb), p, nb), p)

\* A mutant of ReallocElsewhere: the last word, which lies in the next chunk,
\* is not copied.
MutantCopyShort(r, m, oldsize, bytes) ==
    LET copied == MALLOC_COPY(r.h, r.mem, m, oldsize - 2 * SIZE_SZ)
    IN IF r.mem = 0 THEN r ELSE [r EXCEPT !.h = fREe(copied, m)]

\* The program's block m goes to the new one that malloc() gave, r.
ReallocElsewhere(r, m, oldsize, bytes) ==
    LET old == mem2chunk(m)
        new == mem2chunk(r.mem)
        copied == MALLOC_COPY(r.h, r.mem, m, oldsize - SIZE_SZ)
    IN CASE r.mem = 0 -> r
         [] r.mem # 0 /\ new = next_chunk(r.h, old) ->
                SplitRealloc(r.h, old, oldsize + chunksize(r.h, new),
                             request2size(bytes))
         [] OTHER -> [r EXCEPT !.h = fREe(copied, m)]

rEALLOc(h, m, bytes) ==
    LET p == mem2chunk(m)
        nb == request2size(bytes)
        size == chunksize(h, p)
        next == p + size
        atTop == next = h.top
        forward == IF atTop \/ ~inuse(h, next) THEN chunksize(h, next) ELSE 0
        room == IF atTop THEN nb + MINSIZE ELSE nb
        back == IF prev_inuse(h, p) THEN 0 ELSE Word(h, p)
        prev == p - back
        nextOff == IF atTop THEN h ELSE unlink(h, next)
        Shift(g) == MALLOC_COPY(unlink(g, prev), chunk2mem(prev), m,
                                size - SIZE_SZ)
        Settle(g, q, total) == IF atTop THEN GrowIntoTop(g, q, total, nb)
                               ELSE SplitRealloc(g, q, total, nb)
        ahead == forward > 0 /\ size + forward >= room
        both == back > 0 /\ forward > 0 /\ back + size + forward >= room
        behind == back > 0 /\ back + size >= nb
    IN CASE Long(bytes) < 0 -> Null(h)
         [] Long(bytes) >= 0 /\ m = 0 -> mALLOc(h, bytes)
         [] Long(bytes) >= 0 /\ m # 0 ->
            CASE size >= nb -> SplitRealloc(h, p, size, nb)
              [] size < nb /\ ahead -> Settle(nextOff, p, size + forward)
              [] size < nb /\ ~ahead /\ both ->
                    Settle(Shift(nextOff), prev, back + size + forward)
              [] size < nb /\ ~ahead /\ ~both /\ behind ->
                    SplitRealloc(Shift(h), prev, back + size, nb)
              [] OTHER -> ReallocElsewhere(mALLOc(h, bytes), m, size, bytes)

\* Give out p cut to nb bytes, if a chunk is left over.
CutTail(h, p, nb) ==
    LET rest == p + nb
        spare == chunksize(h, p) - nb
        h1 == set_head_size(set_head(h, rest, spare), p, nb)
    IN Found(IF spare >= MINSIZE THEN fREe(h1, chunk2mem(rest)) ELSE h, p)

\* The block r.mem begins where the alignment says: what is before is freed.
AlignIn(r, alignment, nb) ==
    LET align == Max({alignment, MINSIZE})
        p == mem2chunk(r.mem)
        spot == mem2chunk(RoundUp(r.mem, align))
        new == IF spot - p < MINSIZE THEN spot + align ELSE spot
        size == chunksize(r.h, p) - (new - p)
        h1 == set_inuse_bit(set_head(r.h, new, size), new + size)
        lead == fREe(set_head_size(h1, p, new - p), r.mem)
    IN CASE r.mem = 0 \/ alignment <= MALLOC_ALIGNMENT -> r
         [] r.mem # 0 /\ alignment > MALLOC_ALIGNMENT ->
                IF r.mem % align = 0 THEN CutTail(r.h, p, nb)
                ELSE CutTail(lead, new, nb)

mEMALIGn(h, alignment, bytes) ==
    LET nb == request2size(bytes)
        more == nb + Max({alignment, MINSIZE}) + MINSIZE
    IN IF Long(bytes) < 0 THEN Null(h)
       ELSE AlignIn(mALLOc(h, IF alignment <= MALLOC_ALIGNMENT THEN bytes ELSE more),
                    alignment, nb)

vALLOc(h, bytes) == mEMALIGn(h, PageSize, bytes)
pvALLOc(h, bytes) == mEMALIGn(h, PageSize, RoundUp(bytes, PageSize))

\* How much of the block calloc() clears: all of it, or only what was in top
\* before top was extended, because sbrk() is taken to clear memory.
ClearedUpTo(h, r) ==
    LET p == mem2chunk(r.mem)
        size == chunksize(r.h, p)
        oldtop == chunksize(h, h.top)
    IN r.mem - SIZE_SZ + (IF p = h.top /\ size > oldtop THEN oldtop ELSE size)

\* MALLOC_ZERO(), on the words that are known.
Cleared(h, n, r) ==
    LET zeroed == {a \in DOMAIN r.h.mem : /\ a >= r.mem
                                          /\ a < ClearedUpTo(h, r)}
    IN IF Long(n) < 0 \/ r.mem = 0 THEN Null(r.h)
       ELSE [r EXCEPT !.h.mem = [a \in DOMAIN @ |->
                                    IF a \in zeroed THEN 0 ELSE @[a]]]

cALLOc(h, n, elem_size) == Cleared(h, n, mALLOc(h, (n * elem_size) % (2 * TopBit)))

malloc_usable_size(h, m) ==
    IF m = 0 \/ ~inuse(h, mem2chunk(m)) THEN 0
    ELSE chunksize(h, mem2chunk(m)) - SIZE_SZ

-----------------------------------------------------------------------------
(* Programs that use the allocator.                                         *)

FreeChunks(h) == UNION {ToSet(h.bin[i]) : i \in DOMAIN h.bin}
UsedChunks(bl) == {mem2chunk(bl[t].mem) : t \in DOMAIN bl}
Chunks(h, bl) ==
    FreeChunks(h) \union UsedChunks(bl) \union h.fence
    \union ({h.top} \ {InitialTop})

\* The words of a block that its program marks.
Marks(b) ==
    IF b.req = 0 THEN {} ELSE {b.mem, b.mem + ((b.req - 1) \div 4) * 4}

\* What memory that nobody reads again holds is forgotten.
Forget(h, bl) ==
    LET known == {p + SIZE_SZ : p \in Chunks(h, bl)}
                 \union {next_chunk(h, p) : p \in FreeChunks(h)}
                 \union UNION {Marks(bl[t]) : t \in DOMAIN bl}
    IN [h EXCEPT !.mem = [a \in DOMAIN @ \intersect known |-> @[a]]]

\* A program gets the block r.mem under tag t and marks it.
Receive(t, r, req) ==
    LET b == [mem |-> r.mem, req |-> req]
        bl == [u \in DOMAIN blocks \union {t} |-> IF u = t THEN b ELSE blocks[u]]
        h == [r.h EXCEPT !.mem = [a \in DOMAIN @ \union Marks(b) |->
                                     IF a \in Marks(b) THEN t ELSE @[a]]]
    IN IF r.mem = 0
       THEN heap' = Forget(r.h, blocks) /\ UNCHANGED blocks
       ELSE heap' = Forget(h, bl) /\ blocks' = bl

MallocInit ==
    /\ \E start \in HeapStarts : heap = mem_malloc_init(start)
    /\ blocks = << >>
    /\ refused = 0
    /\ dirty = FALSE /\ lost = FALSE /\ calls = 0

Allocate(t, r, req, asked) ==
    /\ t \in Tags \ DOMAIN blocks
    /\ Receive(t, r, req)
    /\ refused' = IF r.mem = 0 THEN asked ELSE 0

Malloc(t) ==
    \E n \in Requests :
        Allocate(t, mALLOc(heap, n), n, n) /\ dirty' = FALSE /\ lost' = FALSE

Memalign(t) ==
    \E n \in Requests, al \in Alignments :
        /\ Allocate(t, mEMALIGn(heap, al, n), n,
                    request2size(n) + Max({al, MINSIZE}) + MINSIZE)
        /\ dirty' = FALSE /\ lost' = FALSE

Valloc(t) ==
    \E n \in Requests :
        /\ \/ Allocate(t, vALLOc(heap, n), n,
                       request2size(n) + PageSize + MINSIZE)
           \/ Allocate(t, pvALLOc(heap, n), n,
                       request2size(RoundUp(n, PageSize)) + PageSize + MINSIZE)
        /\ dirty' = FALSE /\ lost' = FALSE

CallocGave(t, r, n) ==
    /\ Allocate(t, r, n, n)
    /\ dirty' = /\ r.mem # 0
                /\ ClearedUpTo(heap, r) < r.mem + n
                /\ heap.high < r.mem + n
    /\ lost' = FALSE

Calloc(t) == \E n \in Requests : CallocGave(t, cALLOc(heap, 1, n), n)

\* A program that is refused more memory keeps what it has.
ReallocGave(t, b, r, n) ==
    /\ Receive(t, r, n)
    /\ refused' = IF r.mem = 0 THEN n ELSE 0
    /\ lost' = /\ r.mem # 0
               /\ \E a \in Marks(b) : /\ a < b.mem + n
                                     /\ Word(r.h, a - b.mem + r.mem) # t
    /\ dirty' = FALSE

Realloc(t) ==
    /\ t \in DOMAIN blocks
    /\ \E n \in Requests :
          ReallocGave(t, blocks[t], rEALLOc(heap, blocks[t].mem, n), n)

Free(t) ==
    /\ t \in DOMAIN blocks
    /\ LET bl == [u \in DOMAIN blocks \ {t} |-> blocks[u]]
       IN heap' = Forget(fREe(heap, blocks[t].mem), bl) /\ blocks' = bl
    /\ refused' = 0 /\ dirty' = FALSE /\ lost' = FALSE

Trim ==
    /\ \E pad \in Pads : heap' = malloc_trim(heap, pad)
    /\ heap.top # InitialTop
    /\ refused' = 0 /\ dirty' = FALSE /\ lost' = FALSE
    /\ UNCHANGED blocks

mALLOPt ==
    /\ \/ \E v \in TrimThresholds : heap' = [heap EXCEPT !.trim_threshold = v]
       \/ \E v \in TopPads : heap' = [heap EXCEPT !.top_pad = v]
    /\ refused' = 0 /\ dirty' = FALSE /\ lost' = FALSE
    /\ UNCHANGED blocks

\* A program takes memory from the system by itself (once: a bound).
ForeignSbrk ==
    /\ heap.fence = {} /\ heap.brk = next_chunk(heap, heap.top)
    /\ \E n \in ForeignSizes : heap' = sbrk(heap, n)
    /\ refused' = 0 /\ dirty' = FALSE /\ lost' = FALSE
    /\ UNCHANGED blocks

MallocNext ==
    /\ calls < MaxCalls /\ calls' = calls + 1
    /\ \/ \E t \in Tags : \/ Malloc(t) \/ Memalign(t) \/ Valloc(t)
                          \/ Calloc(t) \/ Realloc(t) \/ Free(t)
       \/ Trim
       \/ mALLOPt
       \/ ForeignSbrk

MallocSpec == MallocInit /\ [][MallocNext]_mallocVars

-----------------------------------------------------------------------------
\* What do_check_free_chunk() and do_check_inuse_chunk() assert, of every
\* chunk at all times: chunks lie side by side up to top; a chunk is free
\* iff the bit in its neighbour says so; a free chunk has its size at both
\* ends and borders no free chunk and not top.
ChunksSound ==
    \A p \in Chunks(heap, blocks) \ (heap.fence \union {heap.top}) :
        LET next == next_chunk(heap, p)
            free == p \in FreeChunks(heap)
        IN /\ chunksize(heap, p) >= MINSIZE
           /\ next \in Chunks(heap, blocks)
           /\ \A q \in Chunks(heap, blocks) : ~(p < q /\ q < next)
           /\ inuse(heap, p) = ~free
           /\ free => /\ Word(heap, next) = chunksize(heap, p)
                      /\ next \notin FreeChunks(heap) \union {heap.top}

\* The free chunks can be found: each is in one bin, the bin of its size,
\* large ones in decreasing order, and the block of that bin is marked.
BinsSound ==
    \A i \in DOMAIN heap.bin :
        LET s == heap.bin[i]
        IN /\ Cardinality(ToSet(s)) = Len(s)
           /\ \A j \in DOMAIN heap.bin \ {i} :
                 ToSet(heap.bin[j]) \intersect ToSet(s) = {}
           /\ IF i = last_remainder THEN Len(s) = 1
              ELSE /\ \A k \in DOMAIN s : bin_index(chunksize(heap, s[k])) = i
                   /\ \A k \in 1 .. Len(s) - 1 :
                         chunksize(heap, s[k]) >= chunksize(heap, s[k + 1])
                   /\ idx2binblock(i) \in heap.marked

\* The heap as malloc.c's own checks want it after every call, and every free
\* chunk within reach of the next.
HeapSound == ChunksSound /\ BinsSound

\* A block is aligned, as large as was asked for, inside what the system
\* gave, and holds what its program wrote, whatever other blocks did since:
\* realloc() moves the contents and nothing else is ever written there.
BlocksKept ==
  /\ ~lost
  /\ \A t \in DOMAIN blocks :
        LET b == blocks[t]
        IN /\ b.mem % MALLOC_ALIGNMENT = 0
           /\ b.req <= malloc_usable_size(heap, b.mem)
           /\ b.mem + b.req <= heap.brk
           /\ \A a \in Marks(b) : Word(heap, a) = t

\* Memory is refused only when there is none: no free chunk is large enough,
\* top is not, and the system has not enough left to extend it.
RefusedWhenFull ==
    refused # 0 =>
        LET nb == request2size(refused)
        IN /\ \A p \in FreeChunks(heap) : chunksize(heap, p) < nb
           /\ chunksize(heap, heap.top) < nb + MINSIZE
           /\ heap.brk + RoundUp(nb + heap.top_pad + MINSIZE, PageSize)
                + MALLOC_ALIGNMENT > heap.end

\* calloc() returns memory that is zero.
CallocIsZero == ~dirty
=============================================================================
