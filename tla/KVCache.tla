------------------------------- MODULE KVCache -------------------------------
(***************************************************************************)
(* The paged KV cache with prefix caching: KVCacheManager, the full        *)
(* attention manager and BlockPool (vllm/v1/core/kv_cache_manager.py,      *)
(* single_type_kv_cache_manager.py, block_pool.py), one KV cache group.    *)
(*                                                                         *)
(* A block hash chains over the tokens up to the end of the block; it is   *)
(* modelled as that token prefix, so hashes do not collide.                *)
(*                                                                         *)
(* Slots are allocated, and full blocks entered in the hash map, while a   *)
(* step is being scheduled; the keys and values are written when the       *)
(* workers execute the step (Execute).  A block therefore really holds     *)
(* what it was assigned when it is neither due nor blank.                  *)
(***************************************************************************)
EXTENDS QueueOrder

CONSTANTS
    Requests,  \* request ids
    Content,   \* the tokens of every request
    BlockSize,
    NumBlocks  \* blocks 1..NumBlocks; the null block 0 never leaves the pool

ASSUME CacheAssumption ==
    /\ IsFiniteSet(Requests)
    /\ DOMAIN Content = Requests
    /\ \A r \in Requests : Content[r] \in Seq(ToSet(Content[r])) /\ Content[r] # <<>>
    /\ BlockSize \in Nat \ {0}
    /\ NumBlocks \in Nat

VARIABLES
    table,     \* req_to_blocks
    numCached, \* num_cached_block; 0 when absent
    computed,  \* tokens of a request that have slots in its blocks
    refCnt,    \* KVCacheBlock.ref_cnt
    freeQueue, \* free_block_queue, next block to hand out first
    blockHash, \* KVCacheBlock.block_hash, NoHash when unset
    cached,    \* cached_block_hash_to_block: each hash's blocks, oldest first
    assigned,  \* history: the token prefix whose keys and values a block is to hold
    due,       \* history: of every request, the blocks that the step being
               \*   scheduled will write when it is executed
    blank      \* history: blocks given up before the step that was to write them

books == <<table, numCached, computed, refCnt, freeQueue, blockHash, cached, assigned>>
kv == <<table, numCached, computed, refCnt, freeQueue, blockHash, cached,
        assigned, due, blank>>

Blocks == 1..NumBlocks
NoHash == <<>>
Cdiv(a, b) == (a + b - 1) \div b
Floor(a, b) == a \div b
Smaller(a, b) == IF a <= b THEN a ELSE b

\* The block hash of the i-th block of request r.
HashOf(r, i) == SubSeq(Content[r], 1, i * BlockSize)
FullBlocks(r) == 1..Floor(Len(Content[r]), BlockSize)
Hashes == UNION {{HashOf(r, i) : i \in FullBlocks(r)} : r \in Requests}

CacheInit ==
    /\ table = [r \in Requests |-> <<>>]
    /\ numCached = [r \in Requests |-> 0]
    /\ computed = [r \in Requests |-> 0]
    /\ refCnt = [b \in Blocks |-> 0]
    /\ freeQueue = [b \in Blocks |-> b]
    /\ blockHash = [b \in Blocks |-> NoHash]
    /\ cached = [h \in Hashes |-> <<>>]
    /\ assigned = [b \in Blocks |-> <<>>]
    /\ due = [r \in Requests |-> {}]
    /\ blank = {}

-----------------------------------------------------------------------------
\* get_computed_blocks: the longest chain of cached blocks, short of the last of
\* the request's len tokens, which has to be computed to obtain logits.
MaxHit(len) == Floor(len - 1, BlockSize)
\* Mutant: blocks are looked up by their own tokens, without the prefix.
LookUpByTokens(r, i) ==
    LET tail(h) == SubSeq(h, Len(h) - BlockSize + 1, Len(h))
        same == {h \in Hashes : cached[h] # <<>> /\ tail(h) = tail(HashOf(r, i))}
    IN  IF same = {} THEN <<>> ELSE cached[CHOOSE h \in same : TRUE]

\* get_cached_block takes the first of the blocks with the hash.
LookUp(r, i) == cached[HashOf(r, i)]
IsHit(r, k) == \A i \in 1..k : LookUp(r, i) # <<>>
HitLength(r, len) == CHOOSE k \in 0..MaxHit(len) :
                        IsHit(r, k) /\ (k < MaxHit(len) => ~IsHit(r, k + 1))
HitBlocks(r, len) == [i \in 1..HitLength(r, len) |-> Head(LookUp(r, i))]

\* get_num_blocks_to_allocate: a hit nobody references leaves the free queue too.
BlocksToAllocate(refs, r, hits, n) ==
    Cdiv(n, BlockSize) - Len(hits) - Len(table[r])
        + Cardinality({b \in ToSet(hits) : refs[b] = 0})
NewBlockCount(r, hits, n) == Cdiv(n, BlockSize) - Len(hits) - Len(table[r])
CanAllocate(r, hits, n) == BlocksToAllocate(refCnt, r, hits, n) <= Len(freeQueue)

\* Mutant: a hit stays an eviction candidate.
TouchedInQueue(queue, bs) == queue
\* touch: the blocks are referenced once more and are not eviction candidates.
Touched(queue, bs) == Removed(queue, ToSet(bs))
AddRefs(refs, bs) == [b \in Blocks |-> IF b \in bs THEN refs[b] + 1 ELSE refs[b]]

\* FreeKVCacheBlockQueue: the n oldest blocks leave at the front (popleft_n),
\* blocks that are freed join at the back (append_n).
Popped(queue, n) == SubSeq(queue, 1, n)
AfterPop(queue, n) == SubSeq(queue, n + 1, Len(queue))
AppendN(queue, bs) == queue \o bs

\* What the block at index i of request r's table is for when n tokens have slots.
DataOf(r, i, n) == SubSeq(Content[r], 1, Smaller(i * BlockSize, n))

\* Mutant: a block that is handed out again keeps its place in the map.
EvictNothing(map, new) == map
\* _maybe_evict_cached_block for every block of new.
Evict(map, new) == [h \in Hashes |-> Removed(map[h], ToSet(new))]

\* cache_full_blocks: the blocks of tbl from index lo + 1 to hi get their hashes.
CacheFull(map, r, tbl, lo, hi) ==
    [h \in Hashes |->
        LET mine == {i \in (lo + 1)..hi : HashOf(r, i) = h}
        IN  IF mine = {} THEN map[h] ELSE Append(map[h], tbl[CHOOSE i \in mine : TRUE])]

\* KVCacheManager.allocate_slots up to n tokens in all, hits being the blocks
\* that prefix caching found (none for a request that has blocks already), from
\* the reference counts refs and the free queue free.
AllocateFrom(refs, free, r, hits, n) ==
    LET k == NewBlockCount(r, hits, n)
        queue == Touched(free, hits)
        new == Popped(queue, k)
        tbl == table[r] \o hits \o new
        before == IF table[r] = <<>> THEN Len(hits) ELSE numCached[r]
        full == Floor(n, BlockSize)
        start == Floor(IF table[r] = <<>> THEN Len(hits) * BlockSize ELSE computed[r],
                       BlockSize)
    IN  /\ BlocksToAllocate(refs, r, hits, n) <= Len(free)
        /\ freeQueue' = AfterPop(queue, k)
        /\ refCnt' = AddRefs(refs, ToSet(hits) \cup ToSet(new))
        /\ table' = [table EXCEPT ![r] = tbl]
        /\ blockHash' = [b \in Blocks |->
                IF \E i \in (before + 1)..full : tbl[i] = b
                   THEN HashOf(r, CHOOSE i \in (before + 1)..full : tbl[i] = b)
                   ELSE IF b \in ToSet(new) THEN NoHash ELSE blockHash[b]]
        /\ cached' = CacheFull(Evict(cached, new), r, tbl, before, full)
        /\ numCached' = [numCached EXCEPT ![r] = full]
        /\ computed' = [computed EXCEPT ![r] = n]
        \* The step is to write the slots of the new tokens, and no others.
        /\ assigned' = [b \in Blocks |->
                IF \E i \in (start + 1)..Len(tbl) : tbl[i] = b
                   THEN DataOf(r, CHOOSE i \in DOMAIN tbl : tbl[i] = b, n)
                   ELSE assigned[b]]
        /\ due' = [due EXCEPT ![r] = @ \cup {tbl[i] : i \in (start + 1)..Len(tbl)}]
        /\ blank' = blank \ ToSet(new)

AllocateSlots(r, hits, n) == AllocateFrom(refCnt, freeQueue, r, hits, n)

\* A waiting request: look up the prefix cache, then allocate its first chunk.
ScheduleNew(r, n) ==
    /\ table[r] = <<>>
    /\ n > HitLength(r, Len(Content[r])) * BlockSize
    /\ AllocateSlots(r, HitBlocks(r, Len(Content[r])), n)

\* A running request gets slots for more of its tokens.
ScheduleMore(r, n) ==
    /\ table[r] # <<>>
    /\ n > computed[r]
    /\ AllocateSlots(r, <<>>, n)

\* Mutant: every reference is dropped twice.
DropTwice(bs) == [b \in Blocks |-> IF b \in bs THEN refCnt[b] - 2 ELSE refCnt[b]]
DropRefs(bs) == [b \in Blocks |-> IF b \in bs THEN refCnt[b] - 1 ELSE refCnt[b]]

\* Mutant: the head of the table is freed first.
HeadFirst(r) == table[r]

\* KVCacheManager.free on preemption, abort or completion: the tail first.
FreeOrder(r) == Reverse(table[r])
\* free_blocks: the blocks that lose their last reference, in this order.
StillShared(bs) == {b \in bs : DropRefs(bs)[b] # 0}
Unreferenced(bs) == Removed(bs, StillShared(ToSet(bs)))
Free(r) ==
    /\ table[r] # <<>>
    /\ refCnt' = DropRefs(ToSet(table[r]))
    /\ freeQueue' = AppendN(freeQueue, Unreferenced(FreeOrder(r)))
    /\ table' = [table EXCEPT ![r] = <<>>]
    /\ numCached' = [numCached EXCEPT ![r] = 0]
    /\ computed' = [computed EXCEPT ![r] = 0]
    \* Blocks of a step that is still to be executed are not written any more,
    \* and keep their hashes.
    /\ due' = [due EXCEPT ![r] = {}]
    /\ blank' = blank \cup due[r]
    /\ UNCHANGED <<blockHash, cached, assigned>>

\* reset_prefix_cache refuses while any block is in use.
ResetPrefixCache ==
    /\ Len(freeQueue) = NumBlocks
    /\ cached' = [h \in Hashes |-> <<>>]
    /\ blockHash' = [b \in Blocks |-> NoHash]
    /\ UNCHANGED <<table, numCached, computed, refCnt, freeQueue, assigned, due, blank>>

\* execute_model: the workers write the slots of everything in the step.
WriteBatch ==
    /\ due' = [r \in Requests |-> {}]
    /\ blank' = blank
    /\ UNCHANGED books
Execute == (\E r \in Requests : due[r] # {}) /\ WriteBatch

CacheNext ==
    \/ \E r \in Requests : \E n \in 1..Len(Content[r]) : ScheduleNew(r, n) \/ ScheduleMore(r, n)
    \/ \E r \in Requests : Free(r)
    \/ ResetPrefixCache
    \/ Execute

CacheSpec == CacheInit /\ [][CacheNext]_kv

\* The discipline that the cache leaves to the scheduler: a request that has
\* slots in the step being scheduled is not freed before the step is executed.
\* FCFS, INFERCEPT and LIGHTLLM keep to it, for they preempt the last running
\* request; PRIORITY, MARS, AUTELLIX and CONTINUUM do not.
FreesWritten == \A r \in Requests : table[r] # <<>> /\ table'[r] = <<>> => due[r] = {}
OrderlySpec == CacheInit /\ [][CacheNext /\ FreesWritten]_kv

-----------------------------------------------------------------------------
BooksTypeOK ==
    /\ table \in [Requests -> Seq(Blocks)]
    /\ numCached \in [Requests -> Nat]
    /\ computed \in [Requests -> Nat]
    /\ refCnt \in [Blocks -> Nat]
    /\ freeQueue \in Seq(Blocks)
    /\ blockHash \in [Blocks -> Hashes \cup {NoHash}]
    /\ cached \in [Hashes -> Seq(Blocks)]
    /\ DOMAIN assigned = Blocks
CacheTypeOK ==
    /\ BooksTypeOK
    /\ due \in [Requests -> SUBSET Blocks]
    /\ blank \subseteq Blocks

\* A block's reference count is the number of requests whose table has it, no
\* table has a block twice, and the free queue holds exactly the blocks that
\* nobody references, once each.
RefCountExact ==
    /\ \A b \in Blocks : refCnt[b] = Cardinality({r \in Requests : Contains(table[r], b)})
    /\ \A r \in Requests : \A i, j \in DOMAIN table[r] : i # j => table[r][i] # table[r][j]
    /\ ToSet(freeQueue) = {b \in Blocks : refCnt[b] = 0}
    /\ \A i, j \in DOMAIN freeQueue : i # j => freeQueue[i] # freeQueue[j]

\* However requests share, free and take over blocks, the pool's books are exact.
BlocksSound == CacheTypeOK /\ RefCountExact

\* Whatever is shared, evicted, freed and handed out again in between, every
\* block of a request is for the keys and values of that request's own tokens.
ContentIsolated ==
    \A r \in Requests : \A i \in DOMAIN table[r] :
        assigned[table[r][i]] = DataOf(r, i, computed[r])

\* The hash map and the blocks' own hashes agree, and a hash tells the truth
\* about what the block is for.
CacheMapConsistent ==
    /\ \A h \in Hashes, b \in Blocks : Contains(cached[h], b) <=> blockHash[b] = h
    /\ \A b \in Blocks : blockHash[b] # NoHash => assigned[b] = blockHash[b]
    /\ \A r \in Requests : \A i \in DOMAIN table[r] :
          blockHash[table[r][i]] = IF i <= numCached[r] THEN HashOf(r, i) ELSE NoHash

\* Every block that a lookup can find or a request reads is written, or will be
\* written by the step being scheduled for a request that has it in its table.
ReadableIsWritten ==
    \A b \in Blocks : blockHash[b] # NoHash \/ refCnt[b] > 0 =>
        /\ b \notin blank
        /\ \A r \in Requests : b \in due[r] => Contains(table[r], b)

\* A hit holds what its hash says once the step is executed, and nobody reads
\* the keys and values of another: of the orderly specification only.
CacheSound == ContentIsolated /\ CacheMapConsistent /\ ReadableIsWritten

\* If a block hash is not cached then no longer hash of the chain is: eviction
\* takes the tail of a chain before its head, so a lookup may stop at a miss.
ChainsPrefixClosed ==
    \A r \in Requests : \A i \in FullBlocks(r) :
        i > 1 /\ cached[HashOf(r, i)] # <<>> => cached[HashOf(r, i - 1)] # <<>>
=============================================================================
