------------------------------ MODULE LfsAlloc ------------------------------
(***************************************************************************)
(* The blocks of littlefs (lib/littlefs-SSI/lfs.c): the allocator with its *)
(* lookahead window, the lists of blocks files are made of, and a write    *)
(* session of filesys.c on top of them: start, append, complete, cancel.   *)
(*                                                                         *)
(* No table says which blocks are free.  The allocator looks through a     *)
(* window of the disk, marking what it finds reachable from the directory  *)
(* and from the open file; blocks handed out since the last checkpoint are *)
(* reachable from nowhere, and only the count `ckpoint` keeps them from    *)
(* being handed out again.  A file is written into new blocks and becomes  *)
(* part of the directory in the commit that closes it.                     *)
(*                                                                         *)
(* Sizes are in pieces, one program unit each; the room that the pointers  *)
(* take in a block is left out.  LfsDir models the directory's commits;    *)
(* here a commit takes the blocks it needs and is one step.                *)
(***************************************************************************)
EXTENDS Integers, Sequences, FiniteSets, FiniteSetsExt

CONSTANTS
  BlockCount,  \* FILESYS_BLOCK_COUNT: 2048
  Window,      \* 8 * FILESYS_CFG_LOOKAHEAD_SIZE: 128
  PerBlock,    \* pieces in a block: 16
  InlineMax,   \* pieces a file may have within the directory: 1
  Names,
  NoName,
  MaxSize,     \* bound of the model: pieces of a file
  Announced,   \* bound of the model: sizes announced
  Starts,      \* bound of the model: where a window may start after mounting
  MaxOps,      \* bound of the model: calls of filesys.c that change the disk
  MaxLosses,   \* bound of the model: losses of power
  MaxBad,      \* bound of the model: programs that do not stick
  BadFirst     \* bound of the model: whether the first of a block may be one

ASSUME AllocAssumption ==
  /\ BlockCount \in Nat /\ BlockCount > 2 /\ Window \in 1..BlockCount
  /\ PerBlock \in Nat \ {0} /\ InlineMax \in 0..PerBlock /\ MaxSize \in Nat
  /\ Announced \subseteq 1..MaxSize /\ Starts \subseteq 0..(BlockCount - 1)
  /\ NoName \notin Names /\ BadFirst \in BOOLEAN

Blocks == 0..(BlockCount - 1)
Super == {0, 1}
NoBlock == -1

(* What a block holds: pointers to earlier blocks of its file, and pieces, *)
(* each known by its file and its place there.                             *)
Directory == [ptrs |-> <<>>, text |-> <<<<NoName, 0>>>>]
Garbage == [ptrs |-> <<>>, text |-> <<<<NoName, 1>>>>]

(* An entry of the directory.                                              *)
Entry == [inline : BOOLEAN, head : Blocks \cup {NoBlock}, size : 0..MaxSize]
Gone == [inline |-> TRUE, head |-> NoBlock, size |-> -1]
Created == [inline |-> TRUE, head |-> NoBlock, size |-> 0]

NoFile == [name |-> NoName, inline |-> TRUE, writing |-> FALSE, dirty |-> FALSE,
           block |-> NoBlock, pos |-> 0, off |-> 0, head |-> NoBlock, size |-> 0,
           left |-> 0]

(* Where the code stands: what it is about to do; "halt" is the walk of a  *)
(* list of open files that leads into a frame that is gone.                *)
Place == {"idle", "write", "alloc", "got", "flush", "commit", "sync", "failed", "halt"}
Caller == {"none", "extend", "outline", "relocate", "reflush", "split", "split2", "move"}

VARIABLES
  entries,   \* the directory, on disk
  meta,      \* the blocks the directory itself lies in
  data,      \* what each block holds
  la,        \* lfs->lookahead: start, size, next, ckpoint, and the bits set
  f,         \* the lfs_file_t that is open; left counts pieces still to write
  listed,    \* whether lfs->mlist holds a file whose call has returned
  session,   \* the file filesys.c is writing, or NoName
  at, caller,
  got,       \* the block lfs_alloc returned
  held,      \* blocks a commit has taken
  todo,      \* commits to make: <<name, entry>>
  counts,    \* bounds: calls, losses, bad
  \* History, since the last checkpoint:
  handed,    \* blocks handed out
  missed     \* blocks that were free but marked in the window, or given up

disk == <<entries, meta, data>>
place == <<at, caller, got>>
seen == <<handed, missed>>
allocVars == <<disk, la, f, listed, session, place, held, todo, counts, seen>>

-----------------------------------------------------------------------------
(* Lists of blocks.  A store says what each block holds.                   *)

Least(S) == Min(S)

(* lfs_ctz_index of the last piece of a file of n pieces.                  *)
LastIndex(n) == (n - 1) \div PerBlock

(* How far back the pointers of block i lead: 2^k, for every k such that   *)
(* 2^k divides i.                                                          *)
Distances[i \in 0..MaxSize] ==
  IF i = 0 THEN {}
  ELSE {1} \cup (IF i % 2 = 0 THEN {2 * d : d \in Distances[i \div 2]} ELSE {})

(* The pointer followed on the way to an earlier block: the one that leads *)
(* back the farthest, and not too far.                                     *)
Hop(i, target) == Max({d \in Distances[i] : d <= i - target})

(* lfs_ctz_find: block `target` of the file whose block `current` is head. *)
Find(store, head, current, target) ==
  LET from[i \in 0..current] ==
        [b \in Blocks |->
           IF i <= target THEN b
           ELSE IF Hop(i, target) \in DOMAIN store[b].ptrs
                THEN from[i - Hop(i, target)][store[b].ptrs[Hop(i, target)]]
                ELSE NoBlock]
  IN IF head \in Blocks THEN from[current][head] ELSE NoBlock

(* lfs_ctz_traverse reads one pointer of a block with an odd index, two of *)
(* another.                                                                *)
Reads(i) == 2 - (i % 2)

(* lfs_ctz_traverse from block `index` of a file: the blocks visited.      *)
Visit(store, head, index) ==
  LET from[i \in 0..index] ==
        [b \in Blocks |->
           {b} \cup IF i = 0 \/ Reads(i) \notin DOMAIN store[b].ptrs THEN {}
                    ELSE {store[b].ptrs[d] : d \in 1..Reads(i)}
                           \cup from[i - Reads(i)][store[b].ptrs[Reads(i)]]]
  IN IF head \in Blocks THEN from[index][head] ELSE {}

Traverse(store, head, size) == IF size = 0 THEN {} ELSE Visit(store, head, LastIndex(size))

(* The pointers of a new block i behind head: each but the first is read   *)
(* from the block that the one before it leads to.                         *)
Skips(store, head, i) ==
  CHOOSE p \in [Distances[i] -> Blocks] :
    \A d \in Distances[i] :
      p[d] = IF d = 1 THEN head ELSE store[p[d \div 2]].ptrs[d \div 2]

InDirectory ==
  meta \cup UNION {Traverse(data, entries[n].head, entries[n].size) :
                   n \in {m \in Names : ~entries[m].inline}}

(* The open file: as it will be committed, and as it is being written.     *)
InFile ==
  IF f.inline THEN {}
  ELSE (IF f.dirty THEN Traverse(data, f.head, f.size) ELSE {})
         \cup (IF f.writing THEN Traverse(data, f.block, f.pos) ELSE {})

(* Mutant: the open file is forgotten.                                     *)
DirectoryOnly == InDirectory

(* lfs_fs_traverse_                                                        *)
InUse == InDirectory \cup InFile

-----------------------------------------------------------------------------
(* The allocator.                                                          *)

At(offset) == (la.start + offset) % BlockCount

(* Offsets of the window not looked at yet, and those of them not marked.  *)
Ahead == la.next..(la.size - 1)
FreeAhead == Ahead \ la.used

(* lfs_alloc_ckpoint                                                       *)
Checkpoint ==
  /\ la' = [la EXCEPT !.ckpoint = BlockCount]
  /\ handed' = {}
  /\ missed' = {At(o) : o \in {p \in Ahead \cap la.used : At(p) \notin InUse}}

(* A request is begun.                                                     *)
Alloc(who) == at' = "alloc" /\ caller' = who /\ got' = NoBlock

(* A free block is handed out, and the window moved to the next free one.  *)
AllocFound ==
  /\ at = "alloc" /\ FreeAhead # {}
  /\ LET o == Least(FreeAhead)
         next == Least((FreeAhead \ {o}) \cup {la.size})
     IN /\ la' = [la EXCEPT !.next = next, !.ckpoint = @ - (next - la.next)]
        /\ got' = At(o)
        /\ handed' = handed \cup {At(o)}
  /\ at' = "got"
  /\ UNCHANGED <<disk, f, listed, session, caller, held, todo, counts, missed>>

(* Blocks that may still be looked at behind this window.                  *)
Remaining == la.ckpoint - (la.size - la.next)

(* Mutant: a window reaches further than the checkpoint allows.            *)
WholeWindow(n) == Window

WindowSize(n) == Least({Window, n})

(* Mutant: one block is stepped over.                                      *)
StartBeyond == At(la.size + 1)

NewStart == At(la.size)

(* Mutant: every scan is a checkpoint.                                     *)
Refreshed(n) == BlockCount

Kept(n) == n

(* lfs_alloc_scan: the next window is filled in.                           *)
AllocScan ==
  /\ at = "alloc" /\ FreeAhead = {} /\ Remaining > 0
  /\ LET size == WindowSize(Remaining)
     IN la' = [start |-> NewStart, size |-> size, next |-> 0, ckpoint |-> Kept(Remaining),
               used |-> {o \in 0..(size - 1) : (NewStart + o) % BlockCount \in InUse}]
  /\ UNCHANGED <<disk, f, listed, session, place, held, todo, counts, seen>>

FileCaller == caller \in {"extend", "outline", "relocate", "reflush"}
OutOfSpace == at = "alloc" /\ FreeAhead = {} /\ Remaining <= 0

(* LFS_ERR_NOSPC.  It fails a write; a directory stays in its blocks.      *)
AllocFails ==
  /\ OutOfSpace
  /\ la' = [la EXCEPT !.next = la.size, !.ckpoint = Remaining]
  /\ at' = IF FileCaller THEN "failed" ELSE "sync"
  /\ held' = IF caller = "split2" THEN {} ELSE held
  /\ caller' = IF FileCaller THEN caller ELSE "none"
  /\ got' = NoBlock
  /\ UNCHANGED <<disk, f, listed, session, todo, counts, seen>>

-----------------------------------------------------------------------------
(* Writing a file: lfs_file_flushedwrite, lfs_file_flush, lfs_file_sync.   *)

Pieces(n) == [i \in 1..n |-> <<f.name, f.pos + i>>]
Chunk == Least({f.left, PerBlock - f.off})

(* A block with what the first off pieces of the file's block were.        *)
Copied(off) == [data[f.block] EXCEPT !.text = SubSeq(@, 1, off)]

MayBeBad == counts.bad < MaxBad
CountBad == counts' = [counts EXCEPT !.bad = @ + 1]

(* An inline file that stays small: the pieces are kept in the cache.      *)
WriteInline ==
  /\ at = "write" /\ f.inline /\ f.left > 0
  /\ f.pos + f.left <= InlineMax
  /\ f' = [f EXCEPT !.pos = @ + f.left, !.left = 0, !.writing = TRUE]
  /\ Checkpoint
  /\ UNCHANGED <<disk, listed, session, place, held, todo, counts>>

(* lfs_file_outline: it grows too large, and moves into a block.           *)
Outline ==
  /\ at = "write" /\ f.inline /\ f.left > 0
  /\ f.pos + f.left > InlineMax
  /\ f' = [f EXCEPT !.off = f.pos]
  /\ Checkpoint
  /\ Alloc("outline")
  /\ UNCHANGED <<disk, listed, session, held, todo, counts>>

NeedsBlock == ~f.writing \/ f.off = PerBlock

(* A new block is needed, behind the last one or in place of it.           *)
Extend ==
  /\ at = "write" /\ ~f.inline /\ f.left > 0 /\ NeedsBlock
  /\ f' = [f EXCEPT !.block =
             IF f.writing \/ f.pos = 0 THEN @
             ELSE Find(data, f.head, LastIndex(f.size), LastIndex(f.pos))]
  /\ Checkpoint
  /\ Alloc("extend")
  /\ UNCHANGED <<disk, listed, session, held, todo, counts>>

(* As many pieces as fit are programmed.                                   *)
Program ==
  /\ at = "write" /\ ~f.inline /\ f.left > 0 /\ ~NeedsBlock
  /\ data' = [data EXCEPT ![f.block] = [Copied(f.off) EXCEPT !.text = @ \o Pieces(Chunk)]]
  /\ f' = [f EXCEPT !.pos = @ + Chunk, !.off = @ + Chunk, !.left = @ - Chunk]
  /\ Checkpoint
  /\ UNCHANGED <<entries, meta, listed, session, place, held, todo, counts>>

(* They read back differently: what the block held moves to a new one.     *)
(* There is no checkpoint.  When nothing is in the block yet but its       *)
(* pointers, f.pos is still the end of the block before it, and            *)
(* lfs_fs_traverse_ takes f.block for that one: BadFirst.                  *)
ProgramFails ==
  /\ at = "write" /\ ~f.inline /\ f.left > 0 /\ ~NeedsBlock
  /\ MayBeBad
  /\ f.off > 0 \/ f.pos = 0 \/ BadFirst
  /\ CountBad
  /\ Alloc("relocate")
  /\ UNCHANGED <<disk, la, f, listed, session, held, todo, seen>>

WriteDone ==
  /\ at = "write" /\ f.left = 0
  /\ at' = "flush"
  /\ UNCHANGED <<disk, la, f, listed, session, caller, got, held, todo, counts, seen>>

(* lfs_ctz_extend with the block got: the last block again if it is not    *)
(* full, else pointers.                                                    *)
Extension ==
  IF f.pos = 0 THEN [off |-> 0, content |-> [ptrs |-> <<>>, text |-> <<>>]]
  ELSE LET off == ((f.pos - 1) % PerBlock) + 1
       IN IF off < PerBlock
          THEN [off |-> off, content |-> Copied(off)]
          ELSE [off |-> 0, content |-> [ptrs |-> Skips(data, f.block, LastIndex(f.pos) + 1),
                                        text |-> <<>>]]

(* lfs_file_relocate: what is in the cache or in the block so far.         *)
Relocation ==
  [off |-> f.off,
   content |-> IF caller = "outline"
               THEN [ptrs |-> <<>>, text |-> [i \in 1..f.off |-> <<f.name, i>>]]
               ELSE Copied(f.off)]

NewBlock == IF caller = "extend" THEN Extension ELSE Relocation

UseBlock ==
  /\ at = "got" /\ FileCaller
  /\ data' = [data EXCEPT ![got] = NewBlock.content]
  /\ f' = [f EXCEPT !.block = got, !.off = NewBlock.off, !.writing = TRUE, !.inline = FALSE]
  /\ at' = IF caller = "reflush" THEN "flush" ELSE "write"
  /\ caller' = "none" /\ got' = NoBlock
  /\ missed' = missed \cup IF caller \in {"relocate", "reflush"} THEN {f.block} ELSE {}
  /\ UNCHANGED <<entries, meta, la, listed, session, held, todo, counts, handed>>

(* Not when nothing is to be programmed.                                   *)
BlockIsBad ==
  /\ at = "got" /\ FileCaller
  /\ MayBeBad
  /\ NewBlock.content # [ptrs |-> <<>>, text |-> <<>>]
  /\ CountBad
  /\ data' = [data EXCEPT ![got] = Garbage]
  /\ Alloc(caller)
  /\ UNCHANGED <<entries, meta, la, f, listed, session, held, todo, seen>>

(* lfs_file_flush and the commit of lfs_file_sync_.                        *)
Flush ==
  /\ at = "flush"
  /\ f' = [f EXCEPT !.head = f.block, !.size = f.pos, !.writing = FALSE, !.dirty = TRUE]
  /\ todo' = <<[name |-> f.name,
                entry |-> [inline |-> f.inline,
                           head |-> IF f.inline THEN NoBlock ELSE f.block,
                           size |-> f.pos]]>>
  /\ at' = "commit"
  /\ UNCHANGED <<disk, la, listed, session, caller, got, held, counts, seen>>

(* The last piece was still in the cache and does not stick.               *)
FlushFails ==
  /\ at = "flush" /\ ~f.inline /\ f.writing
  /\ MayBeBad
  /\ CountBad
  /\ Alloc("reflush")
  /\ UNCHANGED <<disk, la, f, listed, session, held, todo, seen>>

(* The commit may split its pair, move half of it, or both, or neither.    *)
TakeForDirectory ==
  /\ at = "commit"
  /\ \/ held = {} /\ Alloc("split")
     \/ Cardinality(held) \in {0, 2} /\ meta # Super /\ Alloc("move")
     \/ at' = "sync" /\ UNCHANGED <<caller, got>>
  /\ UNCHANGED <<disk, la, f, listed, session, held, todo, counts, seen>>

HoldBlock ==
  /\ at = "got" /\ ~FileCaller
  /\ held' = held \cup {got}
  /\ IF caller = "split" THEN Alloc("split2")
     ELSE /\ at' = IF caller = "split2" THEN "commit" ELSE "sync"
          /\ caller' = "none" /\ got' = NoBlock
  /\ UNCHANGED <<disk, la, f, listed, session, todo, counts, seen>>

(* The commit is written.  One that deletes an entry may drop a pair.      *)
CommitDirectory ==
  /\ at = "sync"
  /\ LET c == Head(todo)
         moved == IF Cardinality(held) % 2 = 1 THEN 1 ELSE 0
         dropped == IF c.entry = Gone THEN {0, 2} ELSE {0}
     IN /\ entries' = [entries EXCEPT ![c.name] = c.entry]
        /\ \E n \in dropped : \E old \in kSubset(n + moved, meta \ Super) :
             meta' = (meta \cup held) \ old
  /\ data' = [b \in Blocks |-> IF b \in held THEN Directory ELSE data[b]]
  /\ held' = {}
  /\ todo' = Tail(todo)
  /\ IF Len(todo) > 1 THEN at' = "commit" /\ UNCHANGED f
                      ELSE at' = "idle" /\ f' = NoFile
  /\ UNCHANGED <<la, listed, session, caller, got, counts, seen>>

-----------------------------------------------------------------------------
(* filesys.c.                                                              *)

Begin ==
  /\ at = "idle"
  /\ counts.ops < MaxOps
  /\ counts' = [counts EXCEPT !.ops = @ + 1]

Walked == at' = IF listed THEN "halt" ELSE "commit"

(* lfs_fs_size_: the blocks that lfs_fs_traverse_ visits.                  *)
SizeOnDisk == Cardinality(InDirectory)

(* filesys_start_file_write, where there seems to be room: the entry is    *)
(* created or emptied, and gets its attribute.                             *)
filesys_start_file_write ==
  /\ Begin
  /\ session = NoName
  /\ \E n \in Names, size \in Announced :
       /\ SizeOnDisk + (size + PerBlock - 1) \div PerBlock <= BlockCount
       /\ session' = n
       /\ todo' = IF entries[n] = Gone
                  THEN <<[name |-> n, entry |-> Created], [name |-> n, entry |-> Created]>>
                  ELSE <<[name |-> n, entry |-> entries[n]], [name |-> n, entry |-> Created]>>
  /\ Walked
  /\ UNCHANGED <<disk, la, f, listed, caller, got, held, seen>>

(* filesys_write_buffer_to_mram: the file is opened to append k pieces.    *)
(* Nothing keeps them within the size that was announced.                  *)
filesys_write_buffer_to_mram ==
  /\ Begin
  /\ session # NoName
  /\ LET e == entries[session]
     IN \E k \in 1..(MaxSize - e.size) :
          f' = [NoFile EXCEPT !.name = session, !.inline = e.inline, !.head = e.head,
                              !.size = e.size, !.pos = e.size, !.left = k]
  /\ at' = IF listed THEN "halt" ELSE "write"
  /\ UNCHANGED <<disk, la, listed, session, caller, got, held, todo, seen>>

(* It fails: filesys_cancel_file_write deletes the entry, and the function *)
(* returns without closing the file.                                       *)
WriteFailed ==
  /\ at = "failed" /\ caller # "reflush"
  /\ todo' = <<[name |-> f.name, entry |-> Gone]>>
  /\ at' = "commit" /\ caller' = "none"
  /\ listed' = TRUE
  /\ session' = NoName
  /\ UNCHANGED <<disk, la, f, got, held, counts, seen>>

(* What fails is the flush in lfs_file_close: the file is off the list,    *)
(* and the session goes on.                                                *)
CloseFailed ==
  /\ at = "failed" /\ caller = "reflush"
  /\ at' = "idle" /\ caller' = "none"
  /\ f' = NoFile
  /\ UNCHANGED <<disk, la, listed, session, got, held, todo, counts, seen>>

(* filesys_complete_file_write only reads.                                 *)
filesys_complete_file_write ==
  /\ at = "idle" /\ session # NoName
  /\ session' = NoName
  /\ UNCHANGED <<disk, la, f, listed, place, held, todo, counts, seen>>

filesys_cancel_file_write ==
  /\ Begin
  /\ session # NoName
  /\ todo' = <<[name |-> session, entry |-> Gone]>>
  /\ session' = NoName
  /\ Walked
  /\ UNCHANGED <<disk, la, f, listed, caller, got, held, seen>>

(* lfs_mount: the window is dropped, and starts anywhere.                  *)
Mounted(start) ==
  /\ la' = [start |-> start, size |-> 0, next |-> 0, ckpoint |-> BlockCount, used |-> {}]
  /\ f' = NoFile
  /\ listed' = FALSE
  /\ session' = NoName
  /\ at' = "idle" /\ caller' = "none" /\ got' = NoBlock
  /\ held' = {} /\ todo' = <<>>
  /\ handed' = {} /\ missed' = {}

PowerLoss ==
  /\ counts.losses < MaxLosses
  /\ counts' = [counts EXCEPT !.losses = @ + 1]
  /\ \E start \in Starts : Mounted(start)
  /\ UNCHANGED disk

(* An assertion fails or the watchdog barks; nothing else that may come of *)
(* the walk is taken to reach the disk.                                    *)
Reset ==
  /\ at = "halt"
  /\ \E start \in Starts : Mounted(start)
  /\ UNCHANGED <<disk, counts>>

AllocInit ==
  /\ entries = [n \in Names |-> Gone]
  /\ meta = Super
  /\ data = [b \in Blocks |-> IF b \in Super THEN Directory ELSE Garbage]
  /\ \E start \in Starts :
       la = [start |-> start, size |-> 0, next |-> 0, ckpoint |-> BlockCount, used |-> {}]
  /\ f = NoFile /\ listed = FALSE /\ session = NoName
  /\ at = "idle" /\ caller = "none" /\ got = NoBlock
  /\ held = {} /\ todo = <<>>
  /\ counts = [ops |-> 0, losses |-> 0, bad |-> 0]
  /\ handed = {} /\ missed = {}

(* What the code does between the call of a function and its return.       *)
Step ==
  \/ AllocFound \/ AllocScan \/ AllocFails
  \/ WriteInline \/ Outline \/ Extend \/ Program \/ WriteDone \/ UseBlock \/ Flush
  \/ TakeForDirectory \/ HoldBlock \/ CommitDirectory \/ WriteFailed \/ CloseFailed
  \/ Reset

Bad == ProgramFails \/ BlockIsBad \/ FlushFails

Call ==
  \/ filesys_start_file_write \/ filesys_write_buffer_to_mram
  \/ filesys_complete_file_write \/ filesys_cancel_file_write

AllocNext == Step \/ Bad \/ Call \/ PowerLoss

(* One thread runs the code, and it does not stop within a call.           *)
AllocSpec == AllocInit /\ [][AllocNext]_allocVars /\ WF_allocVars(Step)

-----------------------------------------------------------------------------
(* Properties.                                                             *)

(* The variables have their types; the count of the allocator, which is    *)
(* unsigned, stays within the disk.                                        *)
AllocTypeOK ==
  /\ entries \in [Names -> Entry \cup {Gone}]
  /\ meta \subseteq Blocks /\ held \subseteq Blocks
  /\ la.start \in Blocks /\ la.size \in 0..Window /\ la.next \in 0..la.size
  /\ la.ckpoint \in (la.size - la.next)..BlockCount
  /\ la.used \subseteq 0..(Window - 1)
  /\ f.block \in Blocks \cup {NoBlock} /\ f.pos \in 0..MaxSize /\ f.off \in 0..PerBlock
  /\ at \in Place /\ caller \in Caller /\ got \in Blocks \cup {NoBlock}
  /\ listed \in BOOLEAN

(* Whatever was allocated, given up, deleted or interrupted: the directory *)
(* lies in its own blocks, and every file in it, read the way lfs_ctz_find *)
(* reads it, has all its pieces in their places.                           *)
FilesIntact ==
  /\ \A b \in meta : data[b] = Directory
  /\ \A n \in Names : ~entries[n].inline =>
       \A i \in 1..entries[n].size :
         LET e == entries[n]
             b == Find(data, e.head, LastIndex(e.size), LastIndex(i))
             at_ == ((i - 1) % PerBlock) + 1
         IN b \in Blocks /\ at_ \in DOMAIN data[b].text /\ data[b].text[at_] = <<n, i>>

(* A write is told that there is no space only if every block not in use   *)
(* was handed out since the checkpoint, to be found bad, or is one that    *)
(* became free after the window in force was filled in.                    *)
NoSpaceIsReal ==
  OutOfSpace /\ FileCaller => Blocks \ InUse \subseteq handed \cup missed

(* lfs.c asserts, when a file is opened, that it is not in the list of     *)
(* open files: no file is opened while the list still holds one whose call *)
(* has returned.                                                           *)
NoneLeftOpen == at # "halt"

(* Every call returns, also when the disk is full and blocks are bad.      *)
CallsReturn == at # "idle" ~> at = "idle"
=============================================================================
