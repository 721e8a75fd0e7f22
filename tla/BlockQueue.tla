----------------------------- MODULE BlockQueue -----------------------------
(***************************************************************************)
(* What the pool promises: the block pool of the frozen vLLM sources, one  *)
(* queue of free blocks (FreeKVCacheBlockQueue) and one table from hashes  *)
(* to blocks (BlockHashToBlockMap).  All blocks but the null block are in  *)
(* the queue at the beginning, in the order of their numbers.              *)
(***************************************************************************)
EXTENDS OrderedDicts

CONSTANTS Blocks,  \* the blocks 1 .. num_gpu_blocks - 1
          Hashes,  \* the block hashes
          NoHash,  \* block_hash is None
          MaxRefs  \* bound: references of one block

VARIABLES queue,       \* the doubly linked list of free blocks, head first
          ref_cnt,     \* references of each block
          block_hash,  \* hash of each block
          cached       \* cached_block_hash_to_block: the blocks of each hash

vars == <<queue, ref_cnt, block_hash, cached>>

Remove(s, b) == Without(s, b)

Init ==
  /\ queue = [i \in Blocks |-> i]
  /\ ref_cnt = [b \in Blocks |-> 0]
  /\ block_hash = [b \in Blocks |-> NoHash]
  /\ cached = [h \in Hashes |-> <<>>]

(* get_new_blocks(1): pop the head and evict what it caches. *)
GetNewBlock ==
  /\ queue # <<>>
  /\ LET b == Head(queue)
         h == block_hash[b]
     IN  /\ queue' = Tail(queue)
         /\ ref_cnt[b] = 0
         /\ ref_cnt' = [ref_cnt EXCEPT ![b] = 1]
         /\ block_hash' = [block_hash EXCEPT ![b] = NoHash]
         /\ cached' = IF h = NoHash THEN cached
                      ELSE [cached EXCEPT ![h] = Remove(@, b)]

(* touch([b]): a block with no reference leaves the queue. *)
TouchBlock(b) ==
  /\ ref_cnt[b] < MaxRefs
  /\ ref_cnt' = [ref_cnt EXCEPT ![b] = @ + 1]
  /\ queue' = IF ref_cnt[b] = 0 THEN Remove(queue, b) ELSE queue
  /\ UNCHANGED <<block_hash, cached>>

(* cache_full_blocks for one full block without a hash. *)
CacheFullBlock(b, h) ==
  /\ ref_cnt[b] > 0
  /\ block_hash[b] = NoHash
  /\ block_hash' = [block_hash EXCEPT ![b] = h]
  /\ cached' = [cached EXCEPT ![h] = Append(@, b)]
  /\ UNCHANGED <<queue, ref_cnt>>

(* free_blocks: hashless blocks are prepended, cached ones appended. *)
FreeBlocks(ordered) ==
  /\ \A b \in Range(ordered) : ref_cnt[b] > 0
  /\ LET idle == {b \in Range(ordered) : ref_cnt[b] = 1}
         hashed == {b \in idle : block_hash[b] # NoHash}
     IN  queue' = Kept(ordered, idle \ hashed) \o queue \o Kept(ordered, hashed)
  /\ ref_cnt' = [b \in Blocks |-> IF b \in Range(ordered) THEN ref_cnt[b] - 1 ELSE ref_cnt[b]]
  /\ UNCHANGED <<block_hash, cached>>

Batches == UNION {Injection(1 .. n, Blocks) : n \in Blocks}

Next ==
  \/ GetNewBlock
  \/ \E b \in Blocks : TouchBlock(b)
  \/ \E b \in Blocks, h \in Hashes : CacheFullBlock(b, h)
  \/ \E ordered \in Batches : FreeBlocks(ordered)

Spec == Init /\ [][Next]_vars
=============================================================================
