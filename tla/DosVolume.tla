----------------------------- MODULE DosVolume ------------------------------
(***************************************************************************)
(* What DOS (dos/dos.asm) does to the FAT16 volume: the calls that create, *)
(* truncate, grow, delete and flush files and directories, one step per    *)
(* block written, with the power failing between any two writes and with   *)
(* writes that fail.                                                       *)
(*                                                                         *)
(* DOS runs one call at a time.  What it does in memory between two writes *)
(* is merged into the step that ends with the write, or that decides which *)
(* write comes next.  Names, sizes and the bytes of files are left out: a  *)
(* directory entry is known by where it is, a file by its clusters.  Path  *)
(* resolution and the other read-only walks through directories are        *)
(* DOS_STAT: all they do is make DOS commit a changed FAT sector.          *)
(***************************************************************************)
EXTENDS Naturals, FiniteSets

CONSTANTS
  MAXCLUS,   \* clusters are numbered 2 .. MAXCLUS-1
  PerSector, \* FAT entries in a sector of the FAT
  ROOTN,     \* entries in the root directory
  DIRN,      \* entries in a cluster of any other directory
  Setups     \* the ways to start: records of
             \*   handles   the file slots
             \*   boot      clusters of the one file on the volume, in rising order
             \*   crashes   whether the power may fail
             \*   failures  which writes may fail: of the FAT, of entries, of file data

Clusters == 2 .. MAXCLUS - 1

ASSUME VolumeAssumption ==
  /\ MAXCLUS \in Nat /\ 3 <= MAXCLUS /\ MAXCLUS <= 65526 /\ PerSector \in Nat \ {0}
  /\ ROOTN \in Nat /\ DIRN \in Nat \ {0}

ASSUME SetupAssumption ==
  \A s \in Setups :
    /\ s.handles \subseteq Nat /\ s.crashes \in BOOLEAN
    /\ s.failures \subseteq {"fat", "entry", "data"}
    /\ s.boot \subseteq Clusters

\* The file on the volume has an entry in the root directory.
ASSUME BootAssumption == ROOTN = 0 => \A s \in Setups : s.boot = {}

VARIABLES
  fat1,         \* disk: the FAT, first copy
  stale,        \* disk: FAT sectors whose second copy is behind the first
  ents,         \* disk: the directory entries, by place
  junk,         \* disk: clusters whose last write was file data
  fat,          \* the FAT as DOS sees it: copy 1 under the sector in FATBUF
  FATDIRTY,     \* the FAT sector in FATBUF, if it has changes not on disk
  copy2,        \* FAT_COMMIT has written copy 1 and not yet copy 2
  ALLOC_HINT,   \* where the next search for a free cluster starts
  CWDCLUS,      \* the current directory's first cluster
  slot,         \* the open files
  op,           \* the call in progress
  setup         \* which of the setups this is

disk  == <<fat1, stale, ents, junk>>
cache == <<fat, FATDIRTY, copy2, ALLOC_HINT>>
vars  == <<disk, cache, CWDCLUS, slot, op, setup>>

Handles == setup.handles

FREE == 0
EOC  == 65535
NONE == 65535                 \* FATBUF has no changes
Sec(c) == c \div PerSector

\* Where an entry can be: in the root (region 0) or in a directory's cluster.
Loc == {<<0, i>> : i \in 1 .. ROOTN} \union (Clusters \X (1 .. DIRN))
Blank == [kind |-> "free", clus |-> 0]
Closed == [inuse |-> FALSE, startclus |-> 0, dirloc |-> <<0, 0>>, dirty |-> 0]
IdleOp == [pc |-> "idle", h |-> 0, loc |-> <<0, 0>>, dir |-> 0, clus |-> 0,
           prev |-> 0, idx |-> 0, from |-> 0, then |-> "idle"]

-----------------------------------------------------------------------------
(* Chains. *)

\* The walk along the links of FAT f from c; it stays at what ends the chain.
Walk(f, c) ==
  LET step[i \in 0 .. MAXCLUS] ==
        IF i = 0 THEN c
        ELSE LET p == step[i - 1] IN IF p \in Clusters THEN f[p] ELSE p
  IN step

\* The n-th cluster after c in FAT f, or what ends the chain before it.
After(f, c, n) == Walk(f, c)[n]

\* The clusters of the chain that starts at c.
Chain(f, c) == {After(f, c, n) : n \in 0 .. MAXCLUS - 3} \intersect Clusters

ChainLen(f, c) == Cardinality(Chain(f, c))
LastOf(f, c) == CHOOSE x \in Chain(f, c) : f[x] \notin Clusters

\* The directories: the root and what live entries say are directories.
Dirs == {0} \union {ents[l].clus : l \in {m \in Loc : ents[m].kind = "dir"}}

\* The regions that hold directory d's entries, in DOS's view of the FAT.
Region(d) == IF d = 0 THEN {0} ELSE Chain(fat, d)
Entries(d) == {l \in Loc : l[1] \in Region(d)}

\* OPEN_FINDSLOT: the first slot not in use.
FreeSlot(h) == ~slot[h].inuse /\ \A g \in Handles : g < h => slot[g].inuse

\* CHECK_NOT_OPEN
NotOpen(l) == \A h \in Handles : ~(slot[h].inuse /\ slot[h].dirloc = l)

-----------------------------------------------------------------------------
(* The FAT cache.  FatWanted is the FAT entries the next step looks at: if *)
(* one is in another sector and FATBUF is dirty, LOAD_FAT_ENTRY commits    *)
(* first.  The steps at a commit point commit in any case.  A sector in    *)
(* FATBUF without changes is as on disk, so which one it is is left out.   *)

\* ALLOC_CLUSTER: the order of the search, and the free cluster it ends at.
AcStart == IF ALLOC_HINT < MAXCLUS THEN ALLOC_HINT ELSE 2
SearchPos(c) == IF c >= AcStart THEN c - AcStart ELSE c + MAXCLUS - 2 - AcStart
FreeClusters == {c \in Clusters : fat[c] = FREE}
FirstFree == CHOOSE c \in FreeClusters : \A d \in FreeClusters : SearchPos(c) <= SearchPos(d)
Searched == {c \in Clusters : FreeClusters # {} => SearchPos(c) <= SearchPos(FirstFree)}

\* FIND_FREE_DIRENT: the first free entry, and the clusters left behind for it.
Depth(d, l) == IF d = 0 THEN 0
               ELSE CHOOSE n \in 0 .. MAXCLUS : After(fat, d, n) = l[1]
FreeEntries(d) == {l \in Entries(d) : ents[l].kind = "free"}
FirstFreeEntry(d) ==
  CHOOSE l \in FreeEntries(d) : \A m \in FreeEntries(d) :
    Depth(d, l) < Depth(d, m) \/ (Depth(d, l) = Depth(d, m) /\ l[2] <= m[2])
Passed(d) == IF d = 0 THEN {}
             ELSE IF FreeEntries(d) = {} THEN Chain(fat, d)
             ELSE {After(fat, d, n) : n \in 0 .. Depth(d, FirstFreeEntry(d))}
                    \ {FirstFreeEntry(d)[1]}

\* LOCATE_SECTOR: the walk from the cached spot in the chain (any one: where it
\* is, is left open) to the op.idx-th cluster looks up every cluster it leaves.
Walked == {After(fat, slot[op.h].startclus, n - 1) : n \in op.from .. op.idx - 1}
            \intersect Clusters

FatWanted ==
  CASE op.pc = "look" -> {op.clus}
    [] op.pc = "d_find" -> Passed(op.dir)
    [] op.pc \in {"x_alloc", "m_alloc", "w_first", "w_alloc"} -> Searched
    [] op.pc \in {"x_link", "w_link"} -> {op.prev}
    [] op.pc = "w_walk" -> Walked
    [] op.pc = "free" -> {op.clus}
    [] OTHER -> {}

\* Mutant: a file is flushed without a commit when its entry names its first cluster already.
CommitPointsNewEntry ==
  {"x_done", "m_entry", "f_done"}
    \union {p \in {"s_entry"} : op.pc = p => ents[slot[op.h].dirloc].clus # slot[op.h].startclus}

\* EXTEND_DIR, DOS_MKDIR, SYNC_SLOT and FREE_CHAIN call FAT_COMMIT here.
CommitPoints == {"x_done", "m_entry", "s_entry", "f_done"}

CommitDue ==
  /\ copy2 = 0 /\ FATDIRTY # NONE
  /\ op.pc \in CommitPoints \/ \E c \in FatWanted : Sec(c) # FATDIRTY

\* The call is at p and its FAT sector can be had without a write.
Ready(p) == op.pc = p /\ copy2 = 0 /\ ~CommitDue

FatCommit1 ==
  /\ CommitDue
  /\ fat1' = [c \in Clusters |-> IF Sec(c) = FATDIRTY THEN fat[c] ELSE fat1[c]]
  /\ stale' = stale \union {FATDIRTY} /\ copy2' = 1
  /\ UNCHANGED <<ents, junk, fat, FATDIRTY, ALLOC_HINT, CWDCLUS, slot, op>>

\* Mutant: only the first copy is written.
FatCommit2Skipped ==
  /\ copy2 = 1
  /\ FATDIRTY' = NONE /\ copy2' = 0
  /\ UNCHANGED <<disk, fat, ALLOC_HINT, CWDCLUS, slot, op>>

FatCommit2 ==
  /\ copy2 = 1
  /\ stale' = stale \ {FATDIRTY} /\ FATDIRTY' = NONE /\ copy2' = 0
  /\ UNCHANGED <<fat1, ents, junk, fat, ALLOC_HINT, CWDCLUS, slot, op>>

-----------------------------------------------------------------------------
(* The calls.  A call that changes nothing (an error in its arguments) is  *)
(* no step. *)

Start(r) == op.pc = "idle" /\ op' = r
Return == op' = IdleOp
Goto(p) == op' = [op EXCEPT !.pc = p]

\* DOS_STAT, or any other walk through the directory that c belongs to.
DOS_STAT(c) ==
  /\ \E d \in Dirs \ {0} : c \in Chain(fat, d)
  /\ Start([IdleOp EXCEPT !.pc = "look", !.clus = c])
  /\ UNCHANGED <<disk, cache, CWDCLUS, slot>>

Look ==
  /\ Ready("look")
  /\ Return
  /\ UNCHANGED <<disk, cache, CWDCLUS, slot>>

DOS_CHDIR(d) ==
  /\ op.pc = "idle" /\ d \in Dirs
  /\ CWDCLUS' = d
  /\ UNCHANGED <<disk, cache, slot, op>>

\* DOS_OPEN of a file that keeps its contents: READ, or APPEND and UPDATE.
OpenKeep(h, l) ==
  /\ op.pc = "idle" /\ FreeSlot(h)
  /\ ents[l].kind = "file" /\ NotOpen(l)
  /\ slot' = [slot EXCEPT ![h] = [Closed EXCEPT !.inuse = TRUE,
                                    !.startclus = ents[l].clus, !.dirloc = l]]
  /\ UNCHANGED <<disk, cache, CWDCLUS, op>>

\* DOS_OPEN for WRITE of a file that exists.
OpenTruncate(h, l) ==
  /\ FreeSlot(h) /\ ents[l].kind = "file" /\ NotOpen(l)
  /\ Start([IdleOp EXCEPT !.pc = "o_entry", !.h = h, !.loc = l, !.clus = ents[l].clus])
  /\ UNCHANGED <<disk, cache, CWDCLUS, slot>>

\* DOS_OPEN of a file that is not in directory d.
OpenCreate(h, d) ==
  /\ FreeSlot(h) /\ d \in Dirs
  /\ Start([IdleOp EXCEPT !.pc = "d_find", !.h = h, !.dir = d, !.then = "o_entry"])
  /\ UNCHANGED <<disk, cache, CWDCLUS, slot>>

DOS_MKDIR(d) ==
  /\ d \in Dirs
  /\ Start([IdleOp EXCEPT !.pc = "d_find", !.dir = d, !.then = "m_alloc"])
  /\ UNCHANGED <<disk, cache, CWDCLUS, slot>>

\* Mutant: no CHECK_NOT_OPEN.
KillOpen(l) ==
  /\ ents[l].kind = "file"
  /\ Start([IdleOp EXCEPT !.pc = "k_entry", !.loc = l, !.clus = ents[l].clus])
  /\ UNCHANGED <<disk, cache, CWDCLUS, slot>>

DOS_KILL(l) ==
  /\ ents[l].kind = "file" /\ NotOpen(l)
  /\ Start([IdleOp EXCEPT !.pc = "k_entry", !.loc = l, !.clus = ents[l].clus])
  /\ UNCHANGED <<disk, cache, CWDCLUS, slot>>

DOS_RMDIR(l) ==
  /\ ents[l].kind = "dir" /\ ents[l].clus # CWDCLUS
  /\ \A m \in Entries(ents[l].clus) : ents[m].kind = "free"
  /\ Start([IdleOp EXCEPT !.pc = "k_entry", !.loc = l, !.clus = ents[l].clus])
  /\ UNCHANGED <<disk, cache, CWDCLUS, slot>>

\* FILE_WRITE to the k-th cluster of the file, at most one past its last.
FILE_WRITE(h, k, from) ==
  /\ slot[h].inuse
  /\ k \in 1 .. ChainLen(fat, slot[h].startclus) + 1
  /\ Start([IdleOp EXCEPT !.pc = IF slot[h].dirty = 0 THEN "w_walk" ELSE "flush",
                          !.h = h, !.idx = k, !.from = from, !.then = "w_walk"])
  /\ UNCHANGED <<disk, cache, CWDCLUS, slot>>

\* DOS_FFLUSH (then = "keep") and DOS_CLOSE (then = "close") of a writable file.
SYNC_SLOT(h, then) ==
  /\ slot[h].inuse
  /\ Start([IdleOp EXCEPT !.pc = IF slot[h].dirty = 0 THEN "s_entry" ELSE "flush",
                          !.h = h, !.then = then])
  /\ UNCHANGED <<disk, cache, CWDCLUS, slot>>

\* DOS_EXIT, once it has closed every file: a last commit.
DOS_EXIT ==
  /\ \A h \in Handles : ~slot[h].inuse
  /\ Start([IdleOp EXCEPT !.pc = "f_done"])
  /\ UNCHANGED <<disk, cache, CWDCLUS, slot>>

-----------------------------------------------------------------------------
(* The steps inside the calls. *)

\* The cluster found is marked in FATBUF; a full volume ends the call.
ALLOC_CLUSTER ==
  /\ IF FreeClusters # {}
     THEN /\ fat' = [fat EXCEPT ![FirstFree] = EOC]
          /\ FATDIRTY' = Sec(FirstFree) /\ ALLOC_HINT' = FirstFree + 1
     ELSE UNCHANGED <<fat, FATDIRTY, ALLOC_HINT>>
  /\ UNCHANGED copy2

SET_FAT_ENTRY(c, v) ==
  /\ fat' = [fat EXCEPT ![c] = v]
  /\ FATDIRTY' = Sec(c)
  /\ UNCHANGED <<copy2, ALLOC_HINT>>

\* File data goes to cluster c, whatever entries it held.
WriteData(c) ==
  /\ junk' = junk \union {c}
  /\ ents' = [l \in Loc |-> IF l[1] = c THEN Blank ELSE ents[l]]

\* ZERO_CLUSTER: every entry of c reads as free.  Until its last write c is
\* as unusable as before it.
ZERO_CLUSTER(c) ==
  /\ junk' = junk \ {c}
  /\ ents' = [l \in Loc |-> IF l[1] = c THEN Blank ELSE ents[l]]

FIND_FREE_DIRENT ==
  /\ Ready("d_find")
  /\ \/ /\ FreeEntries(op.dir) # {}
        /\ op' = [op EXCEPT !.pc = op.then, !.loc = FirstFreeEntry(op.dir)]
     \/ /\ FreeEntries(op.dir) = {} /\ op.dir = 0
        /\ Return
     \/ /\ FreeEntries(op.dir) = {} /\ op.dir # 0
        /\ op' = [op EXCEPT !.pc = "x_alloc", !.prev = LastOf(fat, op.dir)]
  /\ UNCHANGED <<disk, cache, CWDCLUS, slot>>

\* EXTEND_DIR
ExtendAlloc ==
  /\ Ready("x_alloc")
  /\ ALLOC_CLUSTER
  /\ IF FreeClusters = {} THEN Return
     ELSE op' = [op EXCEPT !.pc = "x_zero", !.clus = FirstFree]
  /\ UNCHANGED <<disk, CWDCLUS, slot>>

ExtendZero ==
  /\ Ready("x_zero")
  /\ ZERO_CLUSTER(op.clus)
  /\ Goto("x_link")
  /\ UNCHANGED <<fat1, stale, cache, CWDCLUS, slot>>

ExtendLink ==
  /\ Ready("x_link")
  /\ SET_FAT_ENTRY(op.prev, op.clus)
  /\ Goto("x_done")
  /\ UNCHANGED <<disk, CWDCLUS, slot>>

ExtendDone ==
  /\ Ready("x_done")
  /\ op' = [op EXCEPT !.pc = op.then, !.loc = <<op.clus, 1>>, !.clus = 0, !.prev = 0]
  /\ UNCHANGED <<disk, cache, CWDCLUS, slot>>

\* DOS_OPEN rewrites the entry as an empty file, then frees the old chain.
OpenEntry ==
  /\ Ready("o_entry")
  /\ ents' = [ents EXCEPT ![op.loc] = [kind |-> "file", clus |-> 0]]
  /\ op' = [op EXCEPT !.pc = IF op.clus = 0 THEN "o_init" ELSE "free", !.then = "o_init"]
  /\ UNCHANGED <<fat1, stale, junk, cache, CWDCLUS, slot>>

OpenInit ==
  /\ setup \in Setups
  /\ Ready("o_init")
  /\ slot' = [slot EXCEPT ![op.h] = [Closed EXCEPT !.inuse = TRUE, !.dirloc = op.loc]]
  /\ Return
  /\ UNCHANGED <<disk, cache, CWDCLUS>>

\* Mutant: the chain is freed before the entry is marked deleted.
KillChainFirst ==
  /\ Ready("k_entry")
  /\ IF op.clus # 0
     THEN op' = [op EXCEPT !.pc = "free", !.then = "k_entry"] /\ UNCHANGED ents
     ELSE ents' = [ents EXCEPT ![op.loc] = Blank] /\ Return
  /\ UNCHANGED <<fat1, stale, junk, cache, CWDCLUS, slot>>

\* DOS_KILL and DOS_RMDIR mark the entry deleted, then free the chain.
KillEntry ==
  /\ Ready("k_entry")
  /\ ents' = [ents EXCEPT ![op.loc] = Blank]
  /\ IF op.clus = 0 THEN Return ELSE op' = [op EXCEPT !.pc = "free"]
  /\ UNCHANGED <<fat1, stale, junk, cache, CWDCLUS, slot>>

\* Mutant: the freed chain's links are not followed.
FreeFirstOnly ==
  /\ Ready("free")
  /\ fat' = [fat EXCEPT ![op.clus] = FREE]
  /\ FATDIRTY' = Sec(op.clus)
  /\ ALLOC_HINT' = IF op.clus < ALLOC_HINT THEN op.clus ELSE ALLOC_HINT
  /\ op' = [op EXCEPT !.pc = "f_done", !.clus = 0]
  /\ UNCHANGED <<disk, copy2, CWDCLUS, slot>>

\* Mutant: the hint is lowered to the next cluster, even an end of chain.
FreeHintNext ==
  /\ Ready("free")
  /\ fat' = [fat EXCEPT ![op.clus] = FREE]
  /\ FATDIRTY' = Sec(op.clus)
  /\ ALLOC_HINT' = fat[op.clus]
  /\ op' = IF fat[op.clus] \in Clusters THEN [op EXCEPT !.clus = fat[op.clus]]
           ELSE [op EXCEPT !.pc = "f_done", !.clus = 0]
  /\ UNCHANGED <<disk, copy2, CWDCLUS, slot>>

\* FREE_CHAIN, one cluster a step.
FREE_CHAIN ==
  /\ Ready("free")
  /\ fat' = [fat EXCEPT ![op.clus] = FREE]
  /\ FATDIRTY' = Sec(op.clus)
  /\ ALLOC_HINT' = IF op.clus < ALLOC_HINT THEN op.clus ELSE ALLOC_HINT
  /\ op' = IF fat[op.clus] \in Clusters THEN [op EXCEPT !.clus = fat[op.clus]]
           ELSE [op EXCEPT !.pc = "f_done", !.clus = 0]
  /\ UNCHANGED <<disk, copy2, CWDCLUS, slot>>

FreeDone ==
  /\ Ready("f_done")
  /\ IF op.then = "idle" THEN Return ELSE Goto(op.then)
  /\ UNCHANGED <<disk, cache, CWDCLUS, slot>>

\* DOS_MKDIR.  MkdirZero stands for the "." and ".." entries too.
MkdirAlloc ==
  /\ Ready("m_alloc")
  /\ ALLOC_CLUSTER
  /\ IF FreeClusters = {} THEN Return
     ELSE op' = [op EXCEPT !.pc = "m_zero", !.clus = FirstFree]
  /\ UNCHANGED <<disk, CWDCLUS, slot>>

MkdirZero ==
  /\ Ready("m_zero")
  /\ ZERO_CLUSTER(op.clus)
  /\ Goto("m_entry")
  /\ UNCHANGED <<fat1, stale, cache, CWDCLUS, slot>>

MkdirEntry ==
  /\ Ready("m_entry")
  /\ ents' = [ents EXCEPT ![op.loc] = [kind |-> "dir", clus |-> op.clus]]
  /\ Return
  /\ UNCHANGED <<fat1, stale, junk, cache, CWDCLUS, slot>>

\* FLUSH_SLOT: the buffered sector goes out, then the write or sync goes on.
FLUSH_SLOT ==
  /\ Ready("flush")
  /\ WriteData(slot[op.h].dirty)
  /\ slot' = [slot EXCEPT ![op.h].dirty = 0]
  /\ Goto(IF op.then = "w_walk" THEN "w_walk" ELSE "s_entry")
  /\ UNCHANGED <<fat1, stale, cache, CWDCLUS>>

\* LOCATE_SECTOR finds the cluster, or where the chain has to grow.
LocateWalk ==
  /\ Ready("w_walk")
  /\ LET s == slot[op.h].startclus
     IN \/ /\ op.idx <= ChainLen(fat, s)
           /\ slot' = [slot EXCEPT ![op.h].dirty = After(fat, s, op.idx - 1)]
           /\ Return
        \/ /\ op.idx > ChainLen(fat, s)
           /\ op' = IF s = 0 THEN [op EXCEPT !.pc = "w_first"]
                    ELSE [op EXCEPT !.pc = "w_alloc", !.prev = LastOf(fat, s)]
           /\ UNCHANGED slot
  /\ UNCHANGED <<disk, cache, CWDCLUS>>

LocateFirst ==
  /\ Ready("w_first")
  /\ ALLOC_CLUSTER
  /\ Return
  /\ slot' = IF FreeClusters = {} THEN slot
             ELSE [slot EXCEPT ![op.h].startclus = FirstFree,
                               ![op.h].dirty = FirstFree]
  /\ UNCHANGED <<disk, CWDCLUS>>

LocateAlloc ==
  /\ Ready("w_alloc")
  /\ ALLOC_CLUSTER
  /\ IF FreeClusters = {} THEN Return
     ELSE op' = [op EXCEPT !.pc = "w_link", !.clus = FirstFree]
  /\ UNCHANGED <<disk, CWDCLUS, slot>>

LocateLink ==
  /\ Ready("w_link")
  /\ SET_FAT_ENTRY(op.prev, op.clus)
  /\ slot' = [slot EXCEPT ![op.h].dirty = op.clus]
  /\ Return
  /\ UNCHANGED <<disk, CWDCLUS>>

\* DOS_CLOSE frees the slot whatever happened.
Closing == IF op.then = "close" THEN [slot EXCEPT ![op.h] = Closed] ELSE slot

\* SYNC_SLOT, after its commit: the entry names the file's clusters.
SyncEntry ==
  /\ Ready("s_entry")
  /\ ents' = [ents EXCEPT ![slot[op.h].dirloc].clus = slot[op.h].startclus]
  /\ slot' = Closing
  /\ Return
  /\ UNCHANGED <<fat1, stale, junk, cache, CWDCLUS>>

-----------------------------------------------------------------------------
(* The power fails; DOS_START comes up with nothing in memory. *)
Crash ==
  /\ setup.crashes
  /\ fat' = fat1 /\ FATDIRTY' = NONE /\ copy2' = 0
  /\ ALLOC_HINT' = 2 /\ CWDCLUS' = 0
  /\ slot' = [h \in Handles |-> Closed] /\ op' = IdleOp
  /\ UNCHANGED disk

(* Writes that fail, leaving the block as it was. *)
\* FAT_COMMIT: the call ends, and FATBUF with all its changes is forgotten.
\* FREE_CHAIN has lowered the hint by then.
CommitFails ==
  /\ "fat" \in setup.failures /\ (CommitDue \/ copy2 = 1)
  /\ fat' = fat1 /\ FATDIRTY' = NONE /\ copy2' = 0
  /\ ALLOC_HINT' = IF op.pc = "free" /\ op.clus < ALLOC_HINT THEN op.clus ELSE ALLOC_HINT
  /\ slot' = IF op.pc = "s_entry" THEN Closing ELSE slot
  /\ Return
  /\ UNCHANGED <<disk, CWDCLUS>>

\* The write of an entry, or of a zeroed cluster: the call ends.
EntryFails ==
  /\ "entry" \in setup.failures
  /\ \E p \in {"x_zero", "o_entry", "k_entry", "m_zero", "m_entry", "s_entry"} : Ready(p)
  /\ slot' = IF op.pc = "s_entry" THEN Closing ELSE slot
  /\ Return
  /\ UNCHANGED <<disk, cache, CWDCLUS>>

\* FLUSH_SLOT's write: FILE_WRITE ends; SYNC_SLOT updates the entry all the same.
FlushFails ==
  /\ "data" \in setup.failures /\ Ready("flush")
  /\ IF op.then = "w_walk" THEN Return ELSE Goto("s_entry")
  /\ UNCHANGED <<disk, cache, CWDCLUS, slot>>

-----------------------------------------------------------------------------
\* A volume with at most one file on it.
Init ==
  /\ setup \in Setups
  /\ fat1 = [c \in Clusters |->
               IF c \notin setup.boot THEN FREE
               ELSE LET later == {d \in setup.boot : d > c}
                    IN IF later = {} THEN EOC
                       ELSE CHOOSE d \in later : \A e \in later : d <= e]
  /\ fat = fat1 /\ stale = {}
  /\ ents = [l \in Loc |-> IF l # <<0, 1>> \/ setup.boot = {} THEN Blank
                           ELSE [kind |-> "file",
                                 clus |-> CHOOSE c \in setup.boot : \A d \in setup.boot : c <= d]]
  /\ junk = Clusters
  /\ FATDIRTY = NONE /\ copy2 = 0 /\ ALLOC_HINT = 2 /\ CWDCLUS = 0
  /\ slot = [h \in Handles |-> Closed] /\ op = IdleOp

Call ==
  /\ op.pc = "idle"
  /\ \/ \E c \in Clusters : DOS_STAT(c)
     \/ \E d \in Dirs : DOS_CHDIR(d) \/ DOS_MKDIR(d) \/ \E h \in Handles : OpenCreate(h, d)
     \/ \E l \in Loc : DOS_KILL(l) \/ DOS_RMDIR(l)
     \/ \E h \in Handles, l \in Loc :
          OpenTruncate(h, l) \/ OpenKeep(h, l)
     \/ \E h \in Handles :
          \/ \E k \in 1 .. MAXCLUS : \E from \in 1 .. k : FILE_WRITE(h, k, from)
          \/ SYNC_SLOT(h, "keep") \/ SYNC_SLOT(h, "close")
     \/ DOS_EXIT

Step ==
  \/ FatCommit1 \/ FatCommit2
  \/ Look \/ FIND_FREE_DIRENT
  \/ ExtendAlloc \/ ExtendZero \/ ExtendLink \/ ExtendDone
  \/ OpenEntry \/ OpenInit \/ KillEntry \/ FREE_CHAIN \/ FreeDone
  \/ MkdirAlloc \/ MkdirZero \/ MkdirEntry
  \/ FLUSH_SLOT \/ LocateWalk \/ LocateFirst \/ LocateAlloc \/ LocateLink \/ SyncEntry

Next ==
  /\ Call \/ Step \/ Crash \/ CommitFails \/ EntryFails \/ FlushFails
  /\ UNCHANGED setup

Spec == Init /\ [][Next]_vars

-----------------------------------------------------------------------------
FatValue == Clusters \union {FREE, EOC}

TypeOK ==
  /\ fat1 \in [Clusters -> FatValue] /\ fat \in [Clusters -> FatValue]
  /\ stale \subseteq {Sec(c) : c \in Clusters}
  /\ ents \in [Loc -> [kind : {"free", "file", "dir"}, clus : Clusters \union {0}]]
  /\ junk \subseteq Clusters
  /\ FATDIRTY \in {Sec(c) : c \in Clusters} \union {NONE} /\ copy2 \in {0, 1}
  /\ ALLOC_HINT \in 2 .. MAXCLUS /\ CWDCLUS \in Clusters \union {0}
  /\ slot \in [Handles -> [inuse : BOOLEAN,
                           startclus : Clusters \union {0},
                           dirloc : Loc \union {<<0, 0>>},
                           dirty : Clusters \union {0}]]

(***************************************************************************)
(* On disk at every moment, so whenever the power fails: no cluster is     *)
(* shared, that is, none is named twice by the live directory entries and  *)
(* the links of the FAT (dos.asm's header: "never shared by two files").   *)
(***************************************************************************)
OneOwner ==
  /\ \A l \in Loc : ents[l].clus # 0 =>
       /\ \A m \in Loc \ {l} : ents[m].clus # ents[l].clus
       /\ \A c \in Clusters : fat1[c] # ents[l].clus
  /\ \A c \in Clusters : fat1[c] \in Clusters => \A d \in Clusters \ {c} : fat1[d] # fat1[c]

(***************************************************************************)
(* On disk at every moment: a cluster that an entry or a link names is     *)
(* marked used (dos.asm's header: never "reachable after being freed").    *)
(***************************************************************************)
NamedAllocated ==
  /\ \A l \in Loc : ents[l].clus # 0 => fat1[ents[l].clus] # FREE
  /\ \A c \in Clusters : fat1[c] \in Clusters => fat1[fat1[c]] # FREE

(***************************************************************************)
(* On disk at every moment: every cluster of a directory holds entries, so *)
(* no directory runs into a cluster of garbage.                            *)
(***************************************************************************)
DirReadable ==
  \A l \in Loc : ents[l].kind = "dir" => Chain(fat1, ents[l].clus) \intersect junk = {}

(***************************************************************************)
(* What DOS_FFLUSH or DOS_CLOSE has put in a file stays in it, across      *)
(* later calls, crashes and reboots, until the file itself is deleted or   *)
(* truncated ("so the data survives a crash from here on").  A SYNC_SLOT   *)
(* that succeeds leaves the file's entry, on disk, with all the clusters   *)
(* the program has given the file, whether the entry had to change or the  *)
(* file has only grown since; and no other step takes one away.            *)
(***************************************************************************)
Durable ==
  [][/\ SyncEntry =>
          Chain(fat1', ents'[slot[op.h].dirloc].clus) = Chain(fat, slot[op.h].startclus)
     /\ \A l \in Loc :
          ents[l].kind = "file" /\ ~(op.loc = l /\ op.pc \in {"o_entry", "k_entry"}) =>
            /\ ents'[l].kind = "file"
            /\ Chain(fat1, ents[l].clus) \subseteq Chain(fat1', ents'[l].clus)]_vars

(***************************************************************************)
(* Two open files never have a cluster in common, and no cluster of an     *)
(* open file is free to be handed out again.                               *)
(***************************************************************************)
OpenFilesApart ==
  \A h \in Handles : slot[h].inuse =>
    LET C == Chain(fat, slot[h].startclus)
    IN /\ \A c \in C : fat[c] # FREE
       /\ \A g \in Handles \ {h} : slot[g].inuse =>
            C \intersect Chain(fat, slot[g].startclus) = {}
       /\ slot[h].dirty # 0 => slot[h].dirty \in C

(***************************************************************************)
(* The current directory is always a directory that exists.                *)
(***************************************************************************)
CwdLives == CWDCLUS \in Dirs

(***************************************************************************)
(* So whenever the power fails, and whichever write fails but one of the   *)
(* FAT in the middle of a file's growth, the disk is sound.                *)
(***************************************************************************)
DiskSound == OneOwner /\ NamedAllocated /\ DirReadable /\ CwdLives

Untroubled == ~setup.crashes /\ setup.failures = {}
AllClosed == op.pc = "idle" /\ \A h \in Handles : ~slot[h].inuse

(***************************************************************************)
(* Without crashes and errors nothing leaks: when every file is closed,    *)
(* each used cluster belongs to a live file or directory, on disk.         *)
(***************************************************************************)
NoLeak ==
  AllClosed /\ Untroubled =>
    \A c \in Clusters : fat1[c] # FREE => \E l \in Loc : c \in Chain(fat1, ents[l].clus)

(***************************************************************************)
(* The second copy of the FAT never falls behind the first (FAT_COMMIT's   *)
(* comment): they agree whenever no commit is under way.                   *)
(***************************************************************************)
CopiesAgree == Untroubled /\ copy2 = 0 => stale = {}

=============================================================================
