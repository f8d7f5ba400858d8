------------------------------- MODULE LfsDir -------------------------------
(***************************************************************************)
(* The root directory of littlefs (lib/littlefs-SSI/lfs.c) on the MRAM,    *)
(* the only directory the flight software uses: formatting, mounting, and  *)
(* every commit to an entry, with a loss of power at any write.            *)
(*                                                                         *)
(* The directory is a list of metadata pairs.  A pair is two blocks; each  *)
(* is a log of commits behind a revision count, and the one with the newer *)
(* count and a good first commit is the pair's state.  A commit is         *)
(* appended while there is room that is known to be erased; otherwise the  *)
(* pair is compacted into its other block, split, or moved to a new block. *)
(*                                                                         *)
(* lfs_mram_wrap_erase does nothing.  Behind the last commit of a block    *)
(* lie commits of earlier generations whose checksums still fit.  What     *)
(* keeps them out is the first bit of a tag: a commit says which value the *)
(* next valid one will have, the opposite of what lies there.              *)
(*                                                                         *)
(* An appended commit takes one slot of a block; a compacted one the first *)
(* slot, or the whole block when it has more than Half entries.  The worst *)
(* case is taken: stale commits begin exactly where new ones would.        *)
(***************************************************************************)
EXTENDS Integers, Sequences, FiniteSets, FiniteSetsExt

CONSTANTS
  R0, R1,      \* blocks 0 and 1, which hold the head of the list
  Spare,       \* the other blocks
  NFiles,      \* bound of the model: file names, in their order
  Slots,       \* commits that fit in a block
  Half,        \* entries in half a block
  Cycles,      \* (block_cycles + 1) | 1: 501
  RevBits,     \* width of a revision count: 32
  MaxOps,      \* bound of the model: operations begun
  MaxLosses,   \* bound of the model: losses of power
  MaxBad       \* bound of the model: blocks found unwritable

(* A new pair starts up to Cycles revisions ahead of what its blocks held: *)
(* half the width or more, and lfs_scmp takes the old block for the newer. *)
(* RevBits itself matters only through the number of revision counts.      *)
ASSUME GeometryAssumption ==
  /\ R0 # R1 /\ {R0, R1} \cap Spare = {} /\ IsFiniteSet(Spare)
  /\ NFiles \in Nat /\ Slots \in Nat \ {0, 1} /\ Half \in Nat \ {0}
  /\ Cycles \in Nat \ {0, 1, 2}
  /\ 2^RevBits \in Nat /\ 2^RevBits \div 2 > Cycles

Blocks == {R0, R1} \cup Spare
Files == 1..NFiles
Values == {"v", "w"}
Empty == "v"     \* what lfs_file_opencfg creates
Gone == "gone"
Keep == "keep"

(* Entry 0 is the superblock's, with the smallest id of its pair.          *)
Names == 0..NFiles
RevMod == 2^RevBits
Rev == 0..(RevMod - 1)
Pair == Blocks \X Blocks
Nil == <<>>

(* A slot as it lies on the disk: the leading bit of its first tag; whether *)
(* its checksum fits; the leading bit it announces for the next commit;    *)
(* whether it is as the commit before it has recorded (LFS_TYPE_FCRC); and *)
(* what it does to the entries and to the pointer to the next pair.        *)
Slot == [lead : 0..1, good : BOOLEAN, phase : 0..1, fresh : BOOLEAN,
         put : [Names -> Values \cup {Gone, Keep}], tail : Pair \cup {Nil, <<Keep>>}]
Nothing == [x \in Names |-> Keep]
Bad(lead) == [lead |-> lead, good |-> FALSE, phase |-> 0, fresh |-> FALSE,
              put |-> Nothing, tail |-> <<Keep>>]

(* lfs_mdir_t: a pair as it is known in RAM, the block in use first; off   *)
(* is the number of commits found.                                         *)
Mdir == [pair : Pair, rev : Rev, entries : [Names -> Values \cup {Gone}],
         tail : Pair \cup {Nil}, off : 0..Slots, phase : 0..1, erased : BOOLEAN]

(* Between which writes the code stands.                                   *)
Place == {"blank", "mount", "idle", "append", "compact", "unsplit", "split",
          "expand", "ready", "write", "pred"}

VARIABLES
  disk,      \* each block: its revision count and its slots
  root,      \* lfs->root
  at,        \* a Place
  op,        \* the operation begun: <<file, value>>, or <<>>
  error,     \* whether the last one ended with an error
  dir,       \* the mdir a commit is made to, with the change applied
  change,    \* that change, as a commit appends it: [put, tail]
  old,       \* the pair dir had when the commit began
  split,     \* the mdir being written by lfs_dir_split
  taken,     \* blocks allocated since the operation began
  counts,    \* bounds: operations, losses, bad blocks
  \* History:
  entries    \* the entries as the disk has them

commit == <<dir, change, old, split, taken>>
vars == <<disk, root, at, op, error, commit, counts, entries>>

-----------------------------------------------------------------------------
(* Reading.                                                                *)

SamePair(p, q) == {p[1], p[2]} \cap {q[1], q[2]} # {}
IsHead(p) == SamePair(p, <<R0, R1>>)

(* lfs_scmp(r, s) > 0                                                      *)
Newer(r, s) == (r - s) % RevMod \in 1..(RevMod \div 2 - 1)

Expected(log, i) == IF i = 1 THEN 1 ELSE log[i - 1].phase

Valid(log, i) == log[i].lead = Expected(log, i) /\ log[i].good

(* How many commits fetching finds in a block.                             *)
Commits(log) == Max({n \in 0..Slots : \A i \in 1..n : Valid(log, i)})

(* What the first n commits of a log leave of x.                           *)
Latest(log, n, x) ==
  LET puts == {i \in 1..n : log[i].put[x] # Keep}
  IN IF puts = {} THEN Gone ELSE log[Max(puts)].put[x]
LatestTail(log, n) ==
  LET tails == {i \in 1..n : log[i].tail # <<Keep>>}
  IN IF tails = {} THEN Nil ELSE log[Max(tails)].tail

(* lfs_dir_fetchmatch, whose off is 0 if the pair is corrupt.              *)
Fetch(d, p) ==
  LET r == IF Newer(d[p[2]].rev, d[p[1]].rev) THEN 2 ELSE 1
      a == IF Commits(d[p[r]].log) > 0 THEN r ELSE 3 - r
      log == d[p[a]].log
      n == Commits(log)
      phase == IF n = 0 THEN 1 ELSE log[n].phase
  IN [pair |-> <<p[a], p[3 - a]>>, rev |-> d[p[a]].rev,
      entries |-> [x \in Names |-> Latest(log, n, x)], tail |-> LatestTail(log, n),
      off |-> n, phase |-> phase,
      erased |-> n \in 1..(Slots - 1) /\ log[n + 1].lead # phase /\ log[n + 1].fresh]

(* The list from a pair on, cut where a pair is corrupt or a cycle closes. *)
Ends(m) == m.off = 0 \/ m.tail = Nil

ChainFrom(d, p) ==
  LET list[k \in 0..Cardinality(Blocks)] ==
        IF k = 0 THEN <<Fetch(d, p)>>
        ELSE LET l == list[k - 1]
                 m == l[Len(l)]
             IN IF Ends(m) THEN l ELSE Append(l, Fetch(d, m.tail))
  IN list[Cardinality(Blocks)]
Chain(d) == ChainFrom(d, <<R0, R1>>)

Present(m) == {x \in Names : m.entries[x] # Gone}

(* The entries as the disk has them.                                       *)
EntriesOn(d) ==
  LET c == Chain(d)
      holding(f) == {i \in DOMAIN c : f \in Present(c[i])}
  IN [f \in Files |-> IF holding(f) = {} THEN Gone ELSE c[Min(holding(f))].entries[f]]

(* lfs_mount: the root is the last pair with a superblock entry.           *)
Mountable(d) == LET c == Chain(d) IN 0 \in Present(c[1]) /\ \A i \in DOMAIN c : c[i].off > 0
RootOf(d) ==
  LET c == Chain(d) IN c[Max({i \in DOMAIN c : 0 \in Present(c[i])})].pair

(* lfs_dir_find: from the root on, the first pair that holds f, or one     *)
(* behind it; the last pair if none does.                                  *)
Find(d, r, f) ==
  LET c == ChainFrom(d, r)
      hits == {i \in DOMAIN c : \E x \in Present(c[i]) : x >= f}
  IN c[IF hits = {} THEN Len(c) ELSE Min(hits)]

(* lfs_fs_pred: the pairs whose tail is p.                                 *)
Preds(d, p) == LET c == Chain(d)
               IN {c[i] : i \in {j \in DOMAIN c : c[j].tail # Nil /\ SamePair(c[j].tail, p)}}

InUse(d) == LET c == Chain(d) IN UNION {{c[i].pair[1], c[i].pair[2]} : i \in DOMAIN c}

(* Mutant: blocks handed out a moment ago are handed out again.            *)
FreeInTree == Blocks \ InUse(disk)

(* lfs_alloc: blocks not in the tree and not handed out since it was       *)
(* looked through.                                                         *)
Free == Blocks \ (InUse(disk) \cup taken)

-----------------------------------------------------------------------------
(* Writing.                                                                *)

(* A revision count is 32 bits wide.                                       *)
Inc(r) == (r + 1) % RevMod

(* lfs_dir_needsrelocation                                                 *)
Tired(m) == Inc(m.rev) % Cycles = 0

(* Mutant: the next commit always has the same leading bit.                *)
PerturbNot(log, i) == 0

(* lfs_dir_commitcrc: the leading bit the commit in slot i announces.      *)
Perturb(log, i) == IF i < Slots THEN 1 - log[i + 1].lead ELSE 0

(* A commit written to slot i, and the checksum of what follows recorded.  *)
WithCommit(log, i, put, tail) ==
  [j \in 1..Slots |->
     IF j = i THEN [lead |-> Expected(log, i), good |-> TRUE, phase |-> Perturb(log, i),
                    fresh |-> FALSE, put |-> put, tail |-> tail]
     ELSE IF j = i + 1 THEN [log[j] EXCEPT !.fresh = TRUE]
     ELSE log[j]]

(* lfs_dir_compact's block: all of m in one commit.                        *)
Compacted(m, log) ==
  LET whole == Cardinality(Present(m)) > Half
      put == [x \in Names |-> IF x \in Present(m) THEN m.entries[x] ELSE Keep]
      over == IF whole THEN [j \in 1..Slots |-> Bad(0)] ELSE log
      new == WithCommit(over, 1, put, m.tail)
  IN IF whole THEN [new EXCEPT ![1].phase = 0, ![2].fresh = FALSE] ELSE new

WriteBlock(m) ==
  disk' = [disk EXCEPT ![m.pair[2]] = [rev |-> m.rev, log |-> Compacted(m, @.log)]]

(* A write cut short: bytes are written in their order, the lower end of a *)
(* revision count first, the leading bit with the first byte of a commit.  *)
(* A count that is cut short has some of its low bits from the new one.    *)
TornAppend == [disk EXCEPT ![dir.pair[1]].log[dir.off + 1] = Bad(dir.phase)]

Mixed(was, new) ==
  {(was \div m) * m + (new % m) : m \in {n \in 1..RevMod : RevMod % n = 0}}
TornBlock(m) ==
  LET b == m.pair[2]
  IN {[disk EXCEPT ![b].rev = r, ![b].log[1] = Bad(@.lead)] : r \in Mixed(disk[b].rev, m.rev)}
       \cup {[disk EXCEPT ![b].rev = m.rev, ![b].log[1] = Bad(1)]}

Swapped(m) == [m EXCEPT !.pair = <<@[2], @[1]>>]

NoMdir == [pair |-> <<R0, R1>>, rev |-> 0, entries |-> [x \in Names |-> Gone],
           tail |-> Nil, off |-> 0, phase |-> 1, erased |-> FALSE]
NoChange == [put |-> Nothing, tail |-> <<Keep>>]
Cleared ==
  /\ dir' = NoMdir /\ split' = NoMdir
  /\ change' = NoChange
  /\ old' = <<R0, R1>>
  /\ taken' = {}

-----------------------------------------------------------------------------
(* Committing: lfs_dir_relocatingcommit and what it calls.                 *)

(* The commit of a change to m: dir becomes m with the change.             *)
StartCommit(m, c) ==
  /\ dir' = [m EXCEPT
       !.entries = [x \in Names |-> IF c.put[x] = Keep THEN m.entries[x] ELSE c.put[x]],
       !.tail = IF c.tail = <<Keep>> THEN @ ELSE c.tail]
  /\ change' = c
  /\ old' = m.pair
  /\ at' = IF m.erased THEN "append" ELSE "compact"

Return(e) == at' = "idle" /\ op' = <<>> /\ error' = e /\ Cleared

(* lfs_dir_commitattr, lfs_dir_commitcrc at the end of the log.            *)
AppendCommit ==
  /\ at = "append"
  /\ disk' = [disk EXCEPT ![dir.pair[1]].log =
                WithCommit(@, dir.off + 1, change.put, change.tail)]
  /\ Return(FALSE)
  /\ UNCHANGED <<root, counts>>

(* It does not fit, which shows before anything is written or after a part *)
(* of it is; or what is read back differs.                                 *)
AppendFails ==
  /\ at = "append"
  /\ disk' \in {disk, TornAppend}
  /\ at' = "compact"
  /\ UNCHANGED <<root, op, error, commit, counts>>

(* How many of n entries are moved to a new pair: halved until they fit.   *)
Moved[n \in 0..Cardinality(Names)] ==
  IF n <= Half \/ n = 1 THEN n ELSE Moved[n - n \div 2]

(* The greatest n names of S.                                              *)
Upper(S, n) == {x \in S : Cardinality({y \in S : y > x}) < n}

Restricted(es, S) == [x \in Names |-> IF x \in S THEN es[x] ELSE Gone]

(* lfs_alignup of the revision count found in a new pair.                  *)
Aligned(r) == (((r + Cycles - 1) % RevMod) \div Cycles) * Cycles

(* lfs_dir_alloc and the start of lfs_dir_split: S goes to a new pair.     *)
SplitOff(S, next) ==
  \E b \in Free : \E c \in Free \ {b} :
    /\ split' = [NoMdir EXCEPT !.pair = <<b, c>>, !.rev = Inc(Aligned(disk[b].rev)),
                               !.entries = Restricted(dir.entries, S), !.tail = dir.tail]
    /\ taken' = taken \cup {b, c}
    /\ at' = next

(* lfs_dir_splittingcompact: while the entries are more than half a block. *)
SplitEntries ==
  /\ at = "compact"
  /\ LET here == Present(dir)
         n == Moved[Cardinality(here)]
     IN IF n < Cardinality(here) /\ Cardinality(Free) > 1
          THEN SplitOff(Upper(here, n), "split")
          ELSE at' = "unsplit" /\ UNCHANGED <<split, taken>>
  /\ UNCHANGED <<disk, root, op, error, dir, change, old, counts>>

(* A pair at the head of the list that is due moves all it has to a new    *)
(* root, unless the disk is nearly full, and keeps a superblock entry.     *)
ExpandSuperblock ==
  /\ at = "unsplit"
  /\ LET free == Cardinality(Blocks) - Cardinality(InUse(disk))
     IN IF /\ Tired(dir) /\ IsHead(dir.pair)
           /\ free > Cardinality(Blocks) \div 8 /\ Cardinality(Free) > 1
          THEN SplitOff(Present(dir), "expand")
          ELSE at' = "ready" /\ UNCHANGED <<split, taken>>
  /\ UNCHANGED <<disk, root, op, error, dir, change, old, counts>>

(* The new pair is written; dir keeps the other entries and points to it.  *)
WriteSplit ==
  /\ at \in {"split", "expand"}
  /\ WriteBlock(split)
  /\ LET new == Swapped(split).pair
         kept == IF at = "expand" THEN {0} ELSE Present(dir) \ Present(split)
     IN /\ dir' = [dir EXCEPT !.entries = Restricted(@, kept), !.tail = new]
        /\ root' = IF at = "expand" /\ SamePair(dir.pair, root) THEN new ELSE root
  /\ at' = IF at = "split" THEN "compact" ELSE "ready"
  /\ split' = NoMdir
  /\ UNCHANGED <<op, error, change, old, taken, counts>>

(* The start of lfs_dir_compact: a pair that is due moves to a new block,  *)
(* if there is one.                                                        *)
NextRevision ==
  /\ at = "ready"
  /\ LET m == [dir EXCEPT !.rev = Inc(@)]
     IN \/ /\ ~Tired(dir) \/ IsHead(dir.pair) \/ Free = {}
           /\ dir' = m /\ UNCHANGED taken
        \/ /\ Tired(dir) /\ ~IsHead(dir.pair)
           /\ \E b \in Free : dir' = [m EXCEPT !.pair[2] = b] /\ taken' = taken \cup {b}
  /\ at' = "write"
  /\ UNCHANGED <<disk, root, op, error, change, old, split, counts>>

(* Whether lfs_dir_compact has been at "relocate", with or without success. *)
Relocated ==
  ~IsHead(dir.pair) /\ (dir.rev % Cycles = 0 \/ dir.pair[2] \notin {old[1], old[2]})

(* The compacted pair is written.  It is in force at once, unless it moved. *)
WriteCompacted ==
  /\ at = "write" /\ op # <<>>
  /\ WriteBlock(dir)
  /\ IF ~Relocated
     THEN Return(FALSE) /\ UNCHANGED root
     ELSE /\ at' = "pred"
          /\ dir' = Swapped(dir)
          /\ root' = IF SamePair(old, root) THEN dir'.pair ELSE root
          /\ UNCHANGED <<op, error, change, old, split, taken>>
  /\ UNCHANGED counts

(* lfs_dir_orphaningcommit: the pair before it is made to point to it.     *)
UpdatePred ==
  /\ at = "pred"
  /\ \E p \in Preds(disk, old) :
       StartCommit(p, [put |-> Nothing, tail |-> dir.pair])
  /\ UNCHANGED <<disk, root, op, error, split, taken, counts>>

(* A block turns out unwritable: another is taken.  If there is none, a    *)
(* split is given up, and the commit fails.  Left out are a bad block in   *)
(* the head, since littlefs is then "frozen" and makes no promises, and    *)
(* the failure of a commit to a superblock pair between the head and the   *)
(* root: with two such pairs the root has been moved in RAM already        *)
(* (lfs.c:2472) when that commit fails, and lookups miss the entries.      *)
BadBlock ==
  /\ counts.bad < MaxBad
  /\ counts' = [counts EXCEPT !.bad = @ + 1]
  /\ \/ /\ at \in {"split", "expand"}
        /\ disk' \in TornBlock(split)
        /\ \/ \E b \in Free : /\ split' = [split EXCEPT !.pair[2] = b]
                              /\ taken' = taken \cup {b}
                              /\ UNCHANGED at
           \/ /\ Free = {}
              /\ at' = IF at = "split" THEN "unsplit" ELSE "ready"
              /\ split' = NoMdir
              /\ UNCHANGED taken
        /\ UNCHANGED <<op, error, dir, change, old>>
     \/ /\ at = "write" /\ op # <<>> /\ ~IsHead(dir.pair)
        /\ disk' \in TornBlock(dir)
        /\ \/ \E b \in Free : /\ dir' = [dir EXCEPT !.pair[2] = b]
                              /\ taken' = taken \cup {b}
                              /\ UNCHANGED <<at, op, error, change, old, split>>
           \/ /\ Free = {} /\ (0 \notin Present(dir) \/ SamePair(old, root))
              /\ Return(TRUE)
  /\ UNCHANGED root

-----------------------------------------------------------------------------
(* Operations.                                                             *)

(* Entries are written by lfs_file_opencfg (create), lfs_file_sync and     *)
(* lfs_setattr, and deleted by lfs_remove.  A pair that would be left      *)
(* without entries is dropped: the pair before it gets its tail.           *)
BeginOp ==
  /\ at = "idle"
  /\ counts.ops < MaxOps
  /\ counts' = [counts EXCEPT !.ops = @ + 1]
  /\ \E f \in Files, v \in Values \cup {Gone} :
       LET m == Find(disk, root, f)
           empties == v = Gone /\ Present(m) = {f}
       IN /\ m.entries[f] # v /\ (m.entries[f] = Gone => v = Empty)
          /\ op' = <<f, v>>
          /\ IF empties
             THEN \E p \in Preds(disk, m.pair) :
                    StartCommit(p, [put |-> Nothing, tail |-> m.tail])
             ELSE StartCommit(m, [put |-> [Nothing EXCEPT ![f] = v], tail |-> <<Keep>>])
  /\ UNCHANGED <<disk, root, error, split, taken>>

(* lfs_format: the pair (1, 0) is compacted twice, so that nothing older   *)
(* can be mounted.                                                         *)
Format ==
  /\ at = "blank"
  /\ dir' = [NoMdir EXCEPT !.pair = <<R1, R0>>, !.rev = Inc(Aligned(disk[R1].rev)),
                           !.entries[0] = Empty]
  /\ at' = "write"
  /\ UNCHANGED <<disk, root, op, error, change, old, split, taken, counts>>

FormatWrite ==
  /\ at = "write" /\ op = <<>>
  /\ WriteBlock(dir)
  /\ IF dir.pair[2] = R0
     THEN dir' = [Swapped(dir) EXCEPT !.rev = Inc(@)] /\ UNCHANGED <<at, change, old, split, taken>>
     ELSE at' = "mount" /\ Cleared
  /\ UNCHANGED <<root, op, error, counts>>

(* filesys_initialize, and filesys_reformat_initialize where it fails.     *)
Mount ==
  /\ at = "mount"
  /\ IF Mountable(disk) THEN at' = "idle" /\ root' = RootOf(disk)
                        ELSE at' = "blank" /\ UNCHANGED root
  /\ UNCHANGED <<disk, op, error, commit, counts>>

PowerLoss ==
  /\ counts.losses < MaxLosses
  /\ counts' = [counts EXCEPT !.losses = @ + 1]
  /\ disk' \in {disk} \cup
       CASE at = "append" -> {TornAppend}
         [] at \in {"split", "expand"} -> TornBlock(split)
         [] at = "write" -> TornBlock(dir)
         [] OTHER -> {}
  /\ at' = "mount"
  /\ op' = <<>>
  /\ error' = TRUE
  /\ Cleared
  /\ UNCHANGED root

(* A chip as it comes: all bits alike.                                     *)
Init ==
  /\ \E bit \in 0..1 :
       disk = [b \in Blocks |-> [rev |-> bit * (RevMod - 1), log |-> [i \in 1..Slots |-> Bad(bit)]]]
  /\ root = <<R0, R1>>
  /\ at = "mount"
  /\ op = <<>>
  /\ error = FALSE
  /\ dir = NoMdir /\ split = NoMdir /\ change = NoChange /\ old = <<R0, R1>> /\ taken = {}
  /\ counts = [ops |-> 0, losses |-> 0, bad |-> 0]
  /\ entries = EntriesOn(disk)

Commit ==
  \/ AppendCommit \/ AppendFails \/ SplitEntries \/ ExpandSuperblock \/ WriteSplit
  \/ NextRevision \/ WriteCompacted \/ UpdatePred \/ BadBlock

Next ==
  /\ BeginOp \/ Commit \/ Format \/ FormatWrite \/ Mount \/ PowerLoss
  /\ entries' = EntriesOn(disk')

Spec == Init /\ [][Next]_vars

-----------------------------------------------------------------------------
(* Properties.                                                             *)

(* The disk and what RAM knows of it have their types.                     *)
TypeOK ==
  /\ disk \in [Blocks -> [rev : Rev, log : [1..Slots -> Slot]]]
  /\ root \in Pair
  /\ at \in Place
  /\ op \in {<<>>} \cup (Files \X (Values \cup {Gone}))
  /\ error \in BOOLEAN
  /\ dir \in Mdir /\ split \in Mdir
  /\ change \in [put : [Names -> Values \cup {Gone, Keep}], tail : Pair \cup {Nil, <<Keep>>}]
  /\ old \in Pair
  /\ taken \subseteq Blocks
  /\ entries \in [Files -> Values \cup {Gone}]

(* Whatever was compacted, split, moved, dropped or cut short: every pair  *)
(* of the list has a good commit, no block is in two pairs and the list    *)
(* ends; between operations lookups from the root in RAM find what listing *)
(* finds, and mounting again would find the same root.  Nothing leaves its *)
(* type, a revision count at its wrap included.                            *)
ListSound ==
  LET c == Chain(disk)
      mounted == at \notin {"mount", "blank"} /\ (at = "write" => op # <<>>)
  IN /\ TypeOK
     /\ mounted =>
          /\ \A i \in DOMAIN c : c[i].off > 0
          /\ c[Len(c)].tail = Nil
          /\ \A i, j \in DOMAIN c : i # j => ~SamePair(c[i].pair, c[j].pair)
     /\ at = "idle" =>
          /\ \A f \in Files : Find(disk, root, f).entries[f] = entries[f]
          /\ SamePair(root, RootOf(disk))

(* Every operation takes effect at once and as a whole, has taken effect   *)
(* when it returns without an error, and a loss of power at any write      *)
(* leaves the state before it or the one after it; no commit of an earlier *)
(* generation ever comes back.                                             *)
Directory == INSTANCE LfsDirectory
AtomicOps == Directory!Spec
=============================================================================
