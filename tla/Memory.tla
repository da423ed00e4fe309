------------------------------- MODULE Memory ---------------------------------
(* common/mm.c: the allocators and the object pools, which get their memory *)
(* from the system and not from one another.                                *)
(*                                                                          *)
(* Of the allocators one passes calls on, and one keeps a header with every *)
(* block, on a list.  A client gives a block back once, to the allocator    *)
(* that is configured then.                                                 *)
(*                                                                          *)
(* A pool has chunks of slots, in each a bit mask of the free ones with a   *)
(* cached word that says where to look, a list of the chunks with space and *)
(* one of the full ones.  The callbacks that set an object up and clean it  *)
(* up may use the pool; a call they interrupt goes on with what it looked   *)
(* up before.  The lengths of the lists, nspace and nfull, are left out:    *)
(* nothing reads them.                                                      *)
EXTENDS Integers, Sequences, FiniteSets, SequencesExt, Functions

CONSTANTS Sizes,       \* what blocks are asked for
          MaxBlocks,   \* bound on the blocks ever made
          MaskBits,    \* slots per word of the mask: 32 in the code
          EmptyWords,  \* the words of a chunk that chunk_empty knows: 16
          PoolSizes,   \* the pools: slots per chunk, limit (0 is none), callbacks
          Wrap,        \* the counter of objects is one of 0 .. Wrap - 1
          MaxChunks,   \* bound on the chunks of the pool: then memory is out
          MaxDepth     \* bound on the calls within callbacks

(* Chunks have slots, and a size_t can count the slots that fit in memory.  *)
ASSUME MemoryAssumption ==
    /\ Sizes \subseteq Nat /\ MaskBits \in Nat \ {0} /\ MaxChunks \in Nat /\ Wrap \in Nat
    /\ PoolSizes \subseteq [nperchunk : Nat \ {0}, limit : Nat, setup : BOOLEAN, cleanup : BOOLEAN]
    /\ \A p \in PoolSizes : MaxChunks * p.nperchunk < Wrap

VARIABLES mode,                      \* __mm.mode
          given,                     \* block -> its size, of those clients hold
          headed,                    \* header -> the size in it: __mm.blocks
          cur_blocks, cur_alloc, max_blocks, max_alloc,
          blocksMade,                \* the number of the last block
          blockFault                 \* history: how memory was misused, and nothing follows

VARIABLES pool,          \* its nperchunk, limit and callbacks
          chunks,        \* chunk -> its free slots, and the words with any (cache)
          space, full,   \* the two lists of chunks
          nobj,          \* the objects counted
          nested,        \* the callbacks that run, the innermost last
          held,          \* history: the objects clients hold
          flaws          \* history: which of "overtaken", "refused", "inner" happened

blockVars == <<mode, given, headed, cur_blocks, cur_alloc, max_blocks, max_alloc, blocksMade, blockFault>>

Larger(a, b) == IF a > b THEN a ELSE b
With(f, b, size) == [x \in DOMAIN f \cup {b} |-> IF x = b THEN size ELSE f[x]]
Without(f, b) == [x \in DOMAIN f \ {b} |-> f[x]]

BlocksInit == /\ mode \in {"passthru", "debug"} /\ given = <<>> /\ headed = <<>>
              /\ cur_blocks = 0 /\ cur_alloc = 0 /\ max_blocks = 0 /\ max_alloc = 0
              /\ blocksMade = 0 /\ blockFault = "none"

BlockAlloc(size) ==
    /\ blockFault = "none" /\ blocksMade < MaxBlocks
    /\ blocksMade' = blocksMade + 1 /\ given' = With(given, blocksMade + 1, size)
    /\ IF mode = "debug"
       THEN /\ headed' = With(headed, blocksMade + 1, size)
            /\ cur_blocks' = cur_blocks + 1 /\ max_blocks' = Larger(max_blocks, cur_blocks + 1)
            /\ cur_alloc' = cur_alloc + size /\ max_alloc' = Larger(max_alloc, cur_alloc + size)
       ELSE UNCHANGED <<headed, cur_blocks, cur_alloc, max_blocks, max_alloc>>
    /\ UNCHANGED <<mode, blockFault>>

(* A block that is given to the other allocator than the one it is from.    *)
Misread(b) == IF mode = "debug" /\ b \notin DOMAIN headed THEN "unheaded"
              ELSE IF mode = "passthru" /\ b \in DOMAIN headed THEN "header" ELSE "none"

(* memblk_resize links and fills in the block that was, wherever realloc    *)
(* has moved it.                                                            *)
BlockResize(b, size, moves) ==
    /\ blockFault = "none" /\ b \in DOMAIN given
    /\ given' = [given EXCEPT ![b] = size]
    /\ blockFault' = IF Misread(b) = "none" /\ mode = "debug" /\ moves THEN "moved" ELSE Misread(b)
    /\ IF mode = "debug" /\ Misread(b) = "none"
       THEN /\ headed' = [headed EXCEPT ![b] = size]
            /\ cur_alloc' = cur_alloc - headed[b] + size
            /\ max_alloc' = Larger(max_alloc, cur_alloc')
       ELSE UNCHANGED <<headed, cur_alloc, max_alloc>>
    /\ UNCHANGED <<mode, cur_blocks, max_blocks, blocksMade>>

BlockFree(b) ==
    /\ blockFault = "none" /\ b \in DOMAIN given
    /\ given' = Without(given, b) /\ blockFault' = Misread(b)
    /\ IF mode = "debug" /\ Misread(b) = "none"
       THEN /\ headed' = Without(headed, b)
            /\ cur_blocks' = cur_blocks - 1 /\ cur_alloc' = cur_alloc - headed[b]
       ELSE UNCHANGED <<headed, cur_blocks, cur_alloc>>
    /\ UNCHANGED <<mode, max_blocks, max_alloc, blocksMade>>

(* mrp_mm_config: only the blocks with a header are known to be out.        *)
Configure(type) ==
    /\ blockFault = "none" /\ cur_blocks = 0 /\ mode' = type
    /\ UNCHANGED <<given, headed, cur_blocks, cur_alloc, max_blocks, max_alloc, blocksMade, blockFault>>

BlocksNext == \/ \E size \in Sizes : BlockAlloc(size)
              \/ \E b \in DOMAIN given : BlockFree(b) \/ \E size \in Sizes, moves \in BOOLEAN : BlockResize(b, size, moves)
              \/ \E type \in {"passthru", "debug"} : Configure(type)

------------------------------------------------------------------------------
(* No block with a header is given to the allocator that knows of none.     *)
(* Until a block is moved, or one without is given to the other, the list   *)
(* has the header of each block that is out and was made with one, with its *)
(* size, and the numbers of blocks and bytes are theirs, and never were     *)
(* more than their maxima (memblk_alloc, memblk_resize, memblk_free and     *)
(* mrp_mm_config).                                                          *)
BlocksAreSound ==
    /\ blockFault # "header"
    /\ blockFault = "none" =>
         /\ \A b \in DOMAIN headed : b \in DOMAIN given /\ given[b] = headed[b]
         /\ cur_blocks = Cardinality(DOMAIN headed)
         /\ cur_alloc = SumFunction(headed)
         /\ cur_blocks <= max_blocks /\ cur_alloc <= max_alloc

------------------------------------------------------------------------------
poolVars == <<pool, chunks, space, full, nobj, nested, held, flaws>>

RoundUp(n, unit) == (n + unit - 1) \div unit
Slots == 0 .. pool.nperchunk - 1
Words(slots) == {s \div MaskBits : s \in slots}
Least(S) == CHOOSE x \in S : \A y \in S : x <= y
NewChunk == [free |-> Slots, cache |-> Words(Slots)]      \* chunk_init
Spare == (1 .. MaxChunks) \ DOMAIN chunks

(* mrp_objpool_create: the limit is rounded up to whole chunks.             *)
PoolInit ==
    /\ \E p \in PoolSizes : pool = [p EXCEPT !.limit = RoundUp(@, p.nperchunk) * p.nperchunk]
    /\ chunks = <<>> /\ space = <<>> /\ full = <<>> /\ nobj = 0
    /\ nested = <<>> /\ held = {} /\ flaws = {}

Top == nested[Len(nested)]
Running(kind) == nested # <<>> /\ Top.kind = kind
MayCall == Len(nested) < MaxDepth

------------------------------------------------------------------------------
(* mrp_objpool_alloc: the first free slot of the first chunk with space, of *)
(* a new one when there is none.                                            *)
Alloc ==
    /\ MayCall /\ (pool.limit = 0 \/ nobj < pool.limit)
    /\ space = <<>> => Spare # {}
    /\ LET grow == space = <<>>
           c == IF grow THEN Least(Spare) ELSE Head(space)
           chunk == IF grow THEN NewChunk ELSE chunks[c]
           word == Least(chunk.cache)
           slot == Least({s \in chunk.free : s \div MaskBits = word})
           left == [free |-> chunk.free \ {slot}, cache |-> Words(chunk.free \ {slot})]
           exhausted == left.cache = {}
           listed == IF grow THEN <<c>> ELSE space
       IN  /\ chunks' = [x \in DOMAIN chunks \cup {c} |-> IF x = c THEN left ELSE chunks[x]]
           /\ space' = IF exhausted THEN Tail(listed) ELSE listed
           /\ full' = IF exhausted THEN Append(full, c) ELSE full
           /\ IF pool.setup
              THEN /\ nested' = Append(nested, [kind |-> "setup", obj |-> <<c, slot>>, full |-> FALSE])
                   /\ UNCHANGED <<nobj, held>>
              ELSE nobj' = (nobj + 1) % Wrap /\ held' = held \cup {<<c, slot>>} /\ UNCHANGED nested
           /\ flaws' = IF \E i \in DOMAIN nested : nested[i].kind = "setup" THEN flaws \cup {"inner"} ELSE flaws
    /\ UNCHANGED pool

(* The rest of mrp_objpool_free: the chunk gets the slot back, and changes  *)
(* lists if it was full when the call began.                                *)
Release(obj, wasFull) ==
    LET c == obj[1]
    IN  /\ chunks' = [chunks EXCEPT ![c] = [free |-> @.free \cup {obj[2]},
                                           cache |-> @.cache \cup {obj[2] \div MaskBits}]]
        /\ IF wasFull
           THEN full' = RemoveFirst(full, c) /\ space' = Append(RemoveFirst(space, c), c)
           ELSE UNCHANGED <<space, full>>
        /\ nobj' = IF nobj = 0 THEN Wrap - 1 ELSE nobj - 1

(* mrp_objpool_free, whose callback runs before the rest.                   *)
Cleanup(stack, obj) ==
    IF pool.cleanup
    THEN /\ nested' = Append(stack, [kind |-> "cleanup", obj |-> obj, full |-> chunks[obj[1]].cache = {}])
         /\ UNCHANGED <<chunks, space, full, nobj>>
    ELSE nested' = stack /\ Release(obj, chunks[obj[1]].cache = {})

Free(obj) == /\ MayCall /\ obj \in held
             /\ held' = held \ {obj} /\ Cleanup(nested, obj) /\ UNCHANGED <<pool, flaws>>

CleanupReturns ==
    /\ Running("cleanup") /\ nested' = Front(nested) /\ Release(Top.obj, Top.full)
    /\ flaws' = IF Top.full # (chunks[Top.obj[1]].cache = {}) THEN flaws \cup {"overtaken"} ELSE flaws
    /\ UNCHANGED <<pool, held>>

(* A setup that fails gives back an object that was not counted.            *)
SetupReturns(ok) ==
    /\ Running("setup")
    /\ IF ok THEN /\ nested' = Front(nested) /\ nobj' = (nobj + 1) % Wrap /\ held' = held \cup {Top.obj}
                  /\ UNCHANGED <<chunks, space, full, flaws>>
       ELSE Cleanup(Front(nested), Top.obj) /\ flaws' = flaws \cup {"refused"} /\ UNCHANGED held
    /\ UNCHANGED pool

------------------------------------------------------------------------------
(* mrp_objpool_grow: memory may run out on the way.  Chunks are numbered in *)
(* the order they are got.                                                  *)
Got(new) == /\ \A i, j \in DOMAIN new : i < j => new[i] < new[j]
            /\ \A i \in DOMAIN new, c \in Spare : c < new[i] => \E j \in DOMAIN new : new[j] = c

Grow(n) ==
    /\ MayCall
    /\ \E got \in 1 .. RoundUp(n, pool.nperchunk) : \E new \in [1 .. got -> Spare] :
         /\ Got(new)
         /\ space' = space \o new
         /\ chunks' = [c \in DOMAIN chunks \cup ToSet(new) |->
                          IF c \in DOMAIN chunks THEN chunks[c] ELSE NewChunk]
    /\ UNCHANGED <<pool, full, nobj, nested, held, flaws>>

ChunkEmptyByCache(c) == chunks[c].cache = 0 .. EmptyWords - 1     \* mutant: does not look at the mask

ChunkEmpty(c) == chunks[c].cache = 0 .. EmptyWords - 1 /\ chunks[c].free = Slots

(* pool_shrink: it looks whether it has freed enough after each chunk.      *)
Visited(before, i, want) ==
    IF (i = 1 \/ Cardinality(before.gone) < want) /\ ChunkEmpty(space[i])
    THEN [left |-> before.left, gone |-> before.gone \cup {space[i]}]
    ELSE [left |-> Append(before.left, space[i]), gone |-> before.gone]

Shrunk(want) ==
    LET Visit[i \in 0 .. Len(space)] ==
            IF i = 0 THEN [left |-> <<>>, gone |-> {}] ELSE Visited(Visit[i - 1], i, want)
    IN  Visit[Len(space)]

Shrink(n) ==
    /\ MayCall
    /\ LET shrunk == Shrunk(RoundUp(n, pool.nperchunk))
       IN  /\ shrunk.gone # {}
           /\ space' = shrunk.left
           /\ chunks' = [c \in DOMAIN chunks \ shrunk.gone |-> chunks[c]]
    /\ UNCHANGED <<pool, full, nobj, nested, held, flaws>>

PoolNext == \/ Alloc \/ (\E obj \in held : Free(obj)) \/ CleanupReturns
            \/ (\E ok \in BOOLEAN : SetupReturns(ok))
            \/ \E n \in {0, 1, pool.nperchunk + 1} : (n > 0 /\ Grow(n)) \/ Shrink(n)

------------------------------------------------------------------------------
(* pool_calc_sizes: how many objects of a size there are per chunk, with    *)
(* words of 4 bytes, a header of 32 and the mask at byte 28 of the chunk.   *)
PerChunk(objsize, chunkSize) ==
    LET size == RoundUp(objsize, 8) * 8
        room(n) == 32 + 4 + (4 * (n + 31)) \div 32 + n * size
        n1 == (32 * chunkSize - 32 * 32 - 4 * 63) \div (32 * size + 4)
        rest == (room(n1) - n1 * size) % 8
        n2 == IF rest # 0 /\ room(n1) + 8 - rest > chunkSize THEN n1 - 1 ELSE n1
    IN  IF room(n2) + (IF rest = 0 THEN 0 ELSE 8 - rest) > chunkSize THEN 0 ELSE n2

(* The objects of a chunk end within it, and there is room for one if it is *)
(* 48 bytes smaller: else there are none, and the division by their number  *)
(* in mrp_objpool_grow fails.                                               *)
ObjectsFit(objsize, chunkSize) ==
    LET n == PerChunk(objsize, chunkSize)
    IN  /\ 28 + 4 * RoundUp(n, 32) + n * RoundUp(objsize, 8) * 8 <= chunkSize
        /\ objsize + 48 <= chunkSize => n > 0

InUse == {obj \in (DOMAIN chunks) \X Slots : obj[2] \notin chunks[obj[1]].free}

(* No slot is handed out twice, and none of a chunk that was freed: the     *)
(* slots in use are those that clients hold, each once, and those whose     *)
(* callbacks run.  Every chunk is on one list, and one on the list of space *)
(* has a slot to give; one on the other list has none, unless a cleanup     *)
(* overtook the call it was made from.  Objects are counted unless a setup  *)
(* refused one, and then are within the limit if no setup allocates         *)
(* (mrp_objpool_alloc, mrp_objpool_free, pool_grow and pool_shrink).        *)
PoolIsSound ==
    /\ InUse = held \cup {nested[i].obj : i \in DOMAIN nested}
    /\ Cardinality(InUse) = Cardinality(held) + Len(nested)
    /\ ToSet(space \o full) = DOMAIN chunks /\ Len(space) + Len(full) = Cardinality(DOMAIN chunks)
    /\ \A c \in ToSet(space) : chunks[c].free # {} /\ chunks[c].cache = Words(chunks[c].free)
    /\ "overtaken" \notin flaws => \A c \in ToSet(full) : chunks[c].free = {} /\ chunks[c].cache = {}
    /\ "refused" \notin flaws =>
         /\ nobj = Cardinality(held) + Cardinality({i \in DOMAIN nested : nested[i].kind = "cleanup"})
         /\ "inner" \notin flaws => pool.limit = 0 \/ Cardinality(InUse) <= pool.limit

MemoryInit == BlocksInit /\ PoolInit
MemoryNext == \/ BlocksNext /\ UNCHANGED poolVars
              \/ PoolNext /\ UNCHANGED blockVars
MemorySpec == MemoryInit /\ [][MemoryNext]_<<blockVars, poolVars>>

(* Of the allocators and of the pools, see there.                           *)
MemoryIsSound == BlocksAreSound /\ PoolIsSound
==============================================================================
