-------------------------------- MODULE Arena -------------------------------
(***************************************************************************)
(* The per-thread memory of a compiled program                             *)
(* (src/src/vm/runtime_bindings.cpp, AOT string arena and "Per-request     *)
(* malloc-object region").                                                 *)
(*                                                                         *)
(* Strings are bumped out of a chain of blocks.  arena_save pushes a       *)
(* checkpoint, arena_restore rewinds to it and keeps it, arena_drop rewinds*)
(* and releases it; blocks are never freed, so an allocation after a       *)
(* rewind takes over the blocks behind the current one.  Object and array  *)
(* literals are malloc'd; inside a scope they are also tracked in a region *)
(* the rewind frees.  What csv_parse, regex_capture, keys, the JSON and    *)
(* HTTP parsers and the database give back is a container in the arena     *)
(* (obj.arena_allocated), in a scope or outside every one.  A store runs a *)
(* write barrier: into a malloc'd container that is not tracked goes a     *)
(* permanent copy of a value that would die.                               *)
(*                                                                         *)
(* One unit of memory is AOT_ARENA_ALIGNMENT bytes.  A container holds one *)
(* reference, and one in the arena is one allocation, its items included.  *)
(* arLive, the place in it arAt gives (to the code only whether there is   *)
(* one is known), the mark of a checkpoint and what a reference says of    *)
(* dead values are history: the code has no such thing.                    *)
(***************************************************************************)
EXTENDS Integers, Sequences

CONSTANTS
    Blocks,          \* blocks malloc can hand out; bounds the chain
    BlockSize,       \* AOT_ARENA_BLOCK_SIZE
    AllocSizes,      \* sizes the program asks for
    CheckpointMax,   \* AOT_ARENA_CHECKPOINT_MAX
    MaxLive,         \* bound on the allocations alive at once
    Objs             \* the containers there can be

ASSUME ArenaAssumption ==
    /\ Blocks \subseteq Nat /\ 1 \in Blocks
    /\ BlockSize \in Nat \ {0}
    /\ AllocSizes \subseteq Nat \ {0}
    /\ CheckpointMax \in Nat
    /\ MaxLive \in Nat
    /\ Objs \subseteq Nat

VARIABLES
    arChain,    \* the blocks in the order of their next pointers
    arSize,     \* arSize[b]: block->size, 0 before the block exists
    arUsed,     \* arUsed[b]: block->used
    arCur,      \* g_aot_string_arena->current
    arCps,      \* g_arena_checkpoints up to g_arena_checkpoint_top
    arRegion,   \* g_region
    arSet,      \* g_region_set
    arHeap,     \* the containers there are: not freed and not rewound
    arAt,       \* arAt[o]: container o's place in arLive when it is
                \* arena_allocated, 0 when it is malloc'd
    arRef,      \* arRef[o]: what container o refers to
    arLive      \* history: the allocations no rewind has ended, oldest first

arVars == <<arChain, arSize, arUsed, arCur, arCps, arRegion, arSet, arHeap,
            arAt, arRef, arLive>>

strings == <<arChain, arSize, arUsed, arCur, arLive>>
containers == <<arRegion, arSet, arHeap, arAt, arRef>>

\* A reference: to nothing, to permanent memory, to an allocation of the arena
\* (by its place in arLive), to a container, or to a value that has died.
\* `inner` says it was stored raw from a scope inside the container's own.
Null == [to |-> "null", id |-> 0, inner |-> FALSE]
Refs == [to : {"null", "permanent", "dead"}, id : {0}, inner : BOOLEAN]
        \cup [to : {"string"}, id : 1..MaxLive, inner : BOOLEAN]
        \cup [to : {"object"}, id : Objs, inner : BOOLEAN]

Checkpoints == [block : Blocks, used : Nat, region : Nat, mark : 0..MaxLive]

ArTypeOK ==
    /\ arChain \in Seq(Blocks)
    /\ arSize \in [Blocks -> Nat]
    /\ arUsed \in [Blocks -> Nat]
    /\ arCur \in Blocks
    /\ arCps \in Seq(Checkpoints) /\ Len(arCps) <= CheckpointMax
    /\ arRegion \in Seq(Objs)
    /\ arSet \subseteq Objs
    /\ arHeap \subseteq Objs
    /\ arAt \in [Objs -> 0..MaxLive]
    /\ arRef \in [Objs -> Refs]
    /\ arLive \in Seq([block : Blocks, off : Nat, size : AllocSizes])

\* aot_arena_init: one block.
ArInit ==
    /\ arChain = <<1>>
    /\ arSize = [b \in Blocks |-> IF b = 1 THEN BlockSize ELSE 0]
    /\ arUsed = [b \in Blocks |-> 0]
    /\ arCur = 1
    /\ arCps = <<>>
    /\ arRegion = <<>>
    /\ arSet = {}
    /\ arHeap = {}
    /\ arAt = [o \in Objs |-> 0]
    /\ arRef = [o \in Objs |-> Null]
    /\ arLive = <<>>

-----------------------------------------------------------------------------
(* aot_arena_alloc *)

\* The place of block b in the chain.
Place(b) == CHOOSE i \in DOMAIN arChain : arChain[i] = b

\* The blocks behind block b, and the one right behind it.
Behind(b) == {arChain[i] : i \in {i \in DOMAIN arChain : i > Place(b)}}
HasNext(b) == Place(b) < Len(arChain)
NextBlock(b) == arChain[Place(b) + 1]

\* Mutant: the test for room forgets the size asked for.
Fits_Anything(n) == arUsed[arCur] <= arSize[arCur]

Fits(n) == arUsed[arCur] + n <= arSize[arCur]

\* n units are taken from block b at offset off.
Take(b, off, n) ==
    /\ Len(arLive) < MaxLive
    /\ arUsed' = [arUsed EXCEPT ![b] = off + n]
    /\ arCur' = b
    /\ arLive' = Append(arLive, [block |-> b, off |-> off, size |-> n])

\* The current block has room.
ArBump(n) ==
    /\ Fits(n)
    /\ Take(arCur, arUsed[arCur], n)
    /\ UNCHANGED <<arChain, arSize>>

\* The block behind is big enough: it is taken over from its start.
ArReuse(n) ==
    /\ ~Fits(n)
    /\ HasNext(arCur) /\ n <= arSize[NextBlock(arCur)]
    /\ Take(NextBlock(arCur), 0, n)
    /\ UNCHANGED <<arChain, arSize>>

\* Chain s with block b behind place p.
Spliced(s, p, b) == SubSeq(s, 1, p) \o <<b>> \o SubSeq(s, p + 1, Len(s))

\* A new block is spliced in behind the current one.  (When malloc fails the
\* allocation is malloc'd too, outside the arena.)
ArGrow(n) ==
    /\ ~Fits(n)
    /\ ~(HasNext(arCur) /\ n <= arSize[NextBlock(arCur)])
    /\ \E b \in Blocks :
          /\ arSize[b] = 0
          /\ arSize' = [arSize EXCEPT ![b] = IF n > BlockSize THEN n ELSE BlockSize]
          /\ arChain' = Spliced(arChain, Place(arCur), b)
          /\ Take(b, 0, n)

ArPut(n) == ArBump(n) \/ ArReuse(n) \/ ArGrow(n)

ArAlloc(n) == ArPut(n) /\ UNCHANGED <<arCps, containers>>

-----------------------------------------------------------------------------
(* Checkpoints *)

\* aot_arena_save; with a full stack it returns -1 and saves nothing.
ArSave ==
    /\ Len(arCps) < CheckpointMax
    /\ arCps' = Append(arCps, [block |-> arCur, used |-> arUsed[arCur],
                               region |-> Len(arRegion), mark |-> Len(arLive)])

\* The containers of the region a rewind to checkpoint k frees.
FreedBy(k) ==
    {arRegion[i] : i \in {i \in DOMAIN arRegion : i > arCps[k].region}}

\* The containers it ends: those, and the ones in the memory it takes back.
Ended(k) == FreedBy(k) \cup {o \in Objs : arAt[o] > arCps[k].mark}

\* References to what a rewind to k ends point to dead memory.
Buried(k, r) ==
    IF \/ r.to = "string" /\ r.id > arCps[k].mark
       \/ r.to = "object" /\ r.id \in Ended(k)
    THEN [to |-> "dead", id |-> 0, inner |-> r.inner]
    ELSE r

\* Mutant: the containers are freed but stay in g_region_set.
RewindRegion_KeepSet(k) ==
    /\ arHeap' = arHeap \ Ended(k)
    /\ arAt' = [o \in Objs |-> IF o \in Ended(k) THEN 0 ELSE arAt[o]]
    /\ arRegion' = SubSeq(arRegion, 1, arCps[k].region)
    /\ arRef' = [o \in Objs |->
                    IF o \in Ended(k) THEN Null ELSE Buried(k, arRef[o])]
    /\ UNCHANGED arSet

\* The containers tracked since checkpoint k are freed; those in the arena go
\* with its memory.
RewindRegion(k) ==
    /\ arHeap' = arHeap \ Ended(k)
    /\ arAt' = [o \in Objs |-> IF o \in Ended(k) THEN 0 ELSE arAt[o]]
    /\ arSet' = arSet \ FreedBy(k)
    /\ arRegion' = SubSeq(arRegion, 1, arCps[k].region)
    /\ arRef' = [o \in Objs |->
                    IF o \in Ended(k) THEN Null ELSE Buried(k, arRef[o])]

\* aot_arena_rewind_to(k): the blocks behind the checkpoint's are emptied, its
\* own block and the region go back to their marks.
Rewind(k) ==
    /\ arUsed' = [b \in Blocks |->
                     IF b \in Behind(arCps[k].block) THEN 0
                     ELSE IF b = arCps[k].block THEN arCps[k].used
                     ELSE arUsed[b]]
    /\ arCur' = arCps[k].block
    /\ arLive' = SubSeq(arLive, 1, arCps[k].mark)
    /\ RewindRegion(k)
    /\ UNCHANGED <<arChain, arSize>>

\* aot_arena_restore: rewind, keep checkpoint k, drop those above it.
ArRestore(k) ==
    /\ k \in DOMAIN arCps
    /\ Rewind(k)
    /\ arCps' = SubSeq(arCps, 1, k)

\* aot_arena_drop: rewind and release checkpoint k with those above it.
ArDrop(k) ==
    /\ k \in DOMAIN arCps
    /\ Rewind(k)
    /\ arCps' = SubSeq(arCps, 1, k - 1)

-----------------------------------------------------------------------------
(* Containers and the write barrier *)

\* An object or array literal: malloc, and region_track inside a scope.
ArNewObject ==
    \E o \in Objs \ arHeap :
        /\ arHeap' = arHeap \cup {o}
        /\ arRef' = [arRef EXCEPT ![o] = Null]
        /\ IF arCps = <<>>
           THEN UNCHANGED <<arRegion, arSet>>
           ELSE arRegion' = Append(arRegion, o) /\ arSet' = arSet \cup {o}
        /\ UNCHANGED <<strings, arCps, arAt>>

\* A container built in the arena by a builtin: marked arena_allocated, and
\* never tracked.
ArNewArray(n) ==
    /\ ArPut(n)
    /\ \E o \in Objs \ arHeap :
          /\ arHeap' = arHeap \cup {o}
          /\ arAt' = [arAt EXCEPT ![o] = Len(arLive) + 1]
          /\ arRef' = [arRef EXCEPT ![o] = Null]
    /\ UNCHANGED <<arCps, arRegion, arSet>>

\* obj_is_transient: in the arena, or tracked.
Transient(o) == arAt[o] > 0 \/ o \in arSet

\* The checkpoints a rewind to which ends a container, or string p; a value
\* of none outlives every scope.
EndObject(o) == {k \in DOMAIN arCps : o \in Ended(k)}
EndString(p) == {k \in DOMAIN arCps : p > arCps[k].mark}

\* wb_persist_escape, then the store: what container c refers to afterwards.
\* A value is of a scope inside c's when some rewind ends it and keeps c.
Stored(c, to, id, transient, ends) ==
    IF ~Transient(c) /\ transient
    THEN [to |-> "permanent", id |-> 0, inner |-> FALSE]
    ELSE [to |-> to, id |-> id, inner |-> ~(ends \subseteq EndObject(c))]

\* Storing an arena string; every arena string counts as transient.
ArStoreString(c) ==
    /\ c \in arHeap
    /\ arLive # <<>>
    /\ arRef' = [arRef EXCEPT ![c] =
          Stored(c, "string", Len(arLive), TRUE, EndString(Len(arLive)))]
    /\ UNCHANGED <<strings, arCps, arRegion, arSet, arHeap, arAt>>

\* Storing a container.
ArStoreObject(c, v) ==
    /\ {c, v} \subseteq arHeap /\ c # v
    /\ arRef' = [arRef EXCEPT ![c] =
          Stored(c, "object", v, Transient(v), EndObject(v))]
    /\ UNCHANGED <<strings, arCps, arRegion, arSet, arHeap, arAt>>

ArNext ==
    \/ \E n \in AllocSizes : ArAlloc(n) \/ ArNewArray(n)
    \/ ArSave /\ UNCHANGED <<strings, containers>>
    \/ \E k \in 1..CheckpointMax : ArRestore(k) \/ ArDrop(k)
    \/ ArNewObject
    \/ \E c \in Objs : ArStoreString(c)
    \/ \E c, v \in Objs : ArStoreObject(c, v)

ArSpec == ArInit /\ [][ArNext]_arVars

-----------------------------------------------------------------------------
(* Correctness. *)

\* Whatever the order of saves, restores and drops, two allocations that no
\* rewind has ended share no memory, and each lies inside its block and below
\* the block's `used`, so that no later one is put on top of it.
LiveDisjoint ==
    \A i \in DOMAIN arLive :
        LET x == arLive[i] IN
        /\ x.off + x.size <= arSize[x.block]
        /\ x.off + x.size <= arUsed[x.block]
        /\ \A j \in 1..(i - 1) :
              arLive[j].block = x.block => arLive[j].off + arLive[j].size <= x.off

\* A malloc'd container that outlives every scope never refers to dead memory.
\* Any other does only when a value of an inner scope was stored into it: the
\* barrier takes "container is transient" to mean "freed together with v",
\* which neither nested scopes nor a container in the arena keep.
DanglesOnlyAcrossScopes ==
    \A o \in arHeap :
        arRef[o].to = "dead" => arRef[o].inner /\ (arAt[o] > 0 \/ EndObject(o) # {})

\* The comment on g_region_set: a value stored into a persistent container (a
\* global) survives the next arena_restore.  No container that outlives every
\* scope refers to dead memory, wherever it was built.
GlobalsNeverDangle ==
    \A o \in arHeap : EndObject(o) = {} => arRef[o].to # "dead"
=============================================================================
