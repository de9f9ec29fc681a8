-------------------------------- MODULE Fat --------------------------------
(***************************************************************************)
(* The FAT file system of fs/fat.c as fs/vfs.c drives it: one directory of *)
(* one cluster, the allocation table on the disk and its copy in memory,   *)
(* fat_lock, and the tasks that open, write, truncate, create, rename and  *)
(* unlink.  Every disk command is a step of its own, since the task that   *)
(* issues it sleeps; a write may fail, after which the disk may have it or *)
(* not (ata.c aborts what is under way), and the machine may stop at any   *)
(* step and mount the volume again.                                        *)
(*                                                                         *)
(* Data is kept by the cluster: a file is a sequence of blocks, and a      *)
(* cluster is one sector, which is written as a whole or not at all.  A    *)
(* write of part of a cluster, reads that fail, long names and paths of    *)
(* several components are left out; the second copy of the table only      *)
(* shows in what a failed write leaves behind.                             *)
(***************************************************************************)
EXTENDS Naturals, Sequences, FiniteSets

CONSTANTS Task,        \* processes in system calls on the volume
          Cluster,     \* numbers of the data clusters, lowest taken first
          Slot,        \* records of the directory cluster, lowest first
          Value,       \* what a program writes into a block
          Zero, None, Unknown,
          MaxSize,     \* bound: blocks of a file
          MaxFailures  \* bound: disk writes that fail and crashes

ASSUME FatAssumption ==
    /\ Cluster \subseteq Nat \ {0, 1} /\ IsFiniteSet(Cluster)
    /\ Slot \subseteq Nat /\ None \notin Slot \cup Cluster \cup Task
    /\ MaxSize \in Nat /\ MaxFailures \in Nat
    /\ Zero \notin Value

VARIABLES fat,      \* fat_ptr: the table in memory
          dfat,     \* the table on the disk
          dir,      \* the directory cluster on the disk
          data,     \* the data clusters on the disk
          lock,     \* holder of fat_lock
          pc, loc,  \* where a task is in its call, and its local variables
          file,     \* the open file of a task
          failures, \* disk writes that failed and crashes so far
          torn,     \* history: a truncate was cut short after it freed a cluster,
                    \* or a link reached only the first copy of the table
          leaky,    \* history: a failure that is known to strand clusters happened
          content,  \* history: what each file must read back
          raced     \* history: calls have overlapped that nothing keeps apart

vars == <<fat, dfat, dir, data, lock, pc, loc, file, failures, torn, leaky, content, raced>>
disk == <<dfat, dir, data>>
past == <<failures, torn, leaky>>

EOC  == 1   \* FAT_END_OF_CHAIN (1 is never a cluster)
Free == 0
Entry == [used : BOOLEAN, isdir : BOOLEAN, first : Cluster \cup {0}, size : 0..MaxSize]
NoFile == [slot |-> None, ino |-> 0, size |-> 0, pos |-> 0]
NoLocals == [kind |-> None, slot |-> None, to |-> None, cur |-> 0, at |-> None, new |-> 0,
             off |-> 0, left |-> 0, done |-> 0, val |-> Zero, freed |-> FALSE, buf |-> None]

Init == /\ fat = [c \in Cluster |-> Free] /\ dfat = fat
        /\ dir = [s \in Slot |-> [used |-> FALSE, isdir |-> FALSE, first |-> 0, size |-> 0]]
        /\ data = [c \in Cluster |-> Zero]
        /\ lock = None /\ pc = [t \in Task |-> "idle"]
        /\ loc = [t \in Task |-> NoLocals] /\ file = [t \in Task |-> NoFile]
        /\ failures = 0 /\ torn = FALSE /\ leaky = FALSE
        /\ content = [s \in Slot |-> Unknown]
        /\ raced = FALSE

----------------------------------------------------------------------------
(* Chains.  Nth(f, c, n) follows table f for n links from cluster c.       *)

Valid(c) == c \in Cluster
Nth(f, c, n) ==
    LET go[i \in Nat] == IF i = 0 THEN c
                         ELSE IF Valid(go[i - 1]) THEN f[go[i - 1]] ELSE go[i - 1]
    IN  go[n]
Chain(f, c) == {d \in Cluster : \E n \in 0..Cardinality(Cluster) : Nth(f, c, n) = d}

(* read_inode_file(): size blocks from the first cluster on, as far as the *)
(* chain goes.                                                             *)
ReadFile(first, size) ==
    LET there == {n \in 0..(size - 1) : Valid(Nth(fat, first, n))}
    IN  [i \in 1..Cardinality(there) |-> data[Nth(fat, first, i - 1)]]

(* find_free_cluster(): 0 when the volume is full.                         *)
FindFree == LET free == {c \in Cluster : fat[c] = Free}
            IN  IF free = {} THEN 0 ELSE CHOOSE c \in free : \A d \in free : c <= d

----------------------------------------------------------------------------
(* Two calls meet where the code has no lock: two programs have one file   *)
(* open to write it, and each keeps a copy of its size and first cluster,  *)
(* or a name is made while another is, or while fat_lock is held.          *)

Uses(t, s) == s \in {file[t].slot, loc[t].slot, loc[t].to}
Creating(t) == pc[t] \in {"c_mark", "c_dir", "c_prep"}
Race == \E t \in Task : \/ \E u \in Task \ {t}, s \in Slot : Uses(t, s) /\ Uses(u, s)
                        \/ Creating(t) /\ lock # None
                        \/ Creating(t) /\ \E u \in Task \ {t} : Creating(u)

Goto(t, p) == pc' = [pc EXCEPT ![t] = p]
Set(t, l) == loc' = [loc EXCEPT ![t] = l]
Return(t) == Goto(t, "idle") /\ Set(t, NoLocals)
Leave(t) == lock' = None /\ Return(t)
Fails == failures < MaxFailures /\ failures' = failures + 1
(* A directory written by a command that failed may be on the disk.        *)
InDoubt(d) == Fails /\ dir' \in {dir, d}

\* Mutant: the lock is taken although another task holds it.
AcquireMutant(t) ==
    /\ pc[t] \in {"w_lock", "t_lock", "r_lock", "n_lock"}
    /\ lock' = t
    /\ Goto(t, CASE pc[t] = "w_lock" -> "w_top" [] pc[t] = "t_lock" -> "t_free"
                 [] pc[t] = "r_lock" -> "r_read" [] pc[t] = "n_lock" -> "n_read")
    /\ UNCHANGED <<fat, disk, loc, file, past, content>>

Acquire(t) ==
    /\ pc[t] \in {"w_lock", "t_lock", "r_lock", "n_lock"}
    /\ lock = None
    /\ lock' = t
    /\ Goto(t, CASE pc[t] = "w_lock" -> "w_top" [] pc[t] = "t_lock" -> "t_free"
                 [] pc[t] = "r_lock" -> "r_read" [] pc[t] = "n_lock" -> "n_read")
    /\ UNCHANGED <<fat, disk, loc, file, past, content>>

(* write_fat_ptr(): the copies on the disk, then the table in memory.      *)
SetFat(c, v) == dfat' = [dfat EXCEPT ![c] = v] /\ fat' = [fat EXCEPT ![c] = v]
(* It gives up at the first error, before or after the copy that is read   *)
(* at the next mount.                                                      *)
SetFatFails(c, v) == Fails /\ UNCHANGED fat /\ dfat' \in {dfat, [dfat EXCEPT ![c] = v]}

----------------------------------------------------------------------------
(* open() of a file that exists, in order to write it, close() and lseek().*)
(* The directory is read without the lock, and the first cluster and size  *)
(* that the open file holds are copies.  A program that only reads changes *)
(* nothing and is no party to a race: what it finds is ReadFile.           *)

Open(t, s) ==
    /\ pc[t] = "idle" /\ file[t].slot = None
    /\ dir[s].used /\ ~dir[s].isdir
    /\ file' = [file EXCEPT ![t] = [slot |-> s, ino |-> dir[s].first, size |-> dir[s].size, pos |-> 0]]
    /\ UNCHANGED <<fat, disk, lock, pc, loc, past, content>>

Close(t) ==
    /\ pc[t] = "idle" /\ file[t].slot # None
    /\ file' = [file EXCEPT ![t] = NoFile]
    /\ UNCHANGED <<fat, disk, lock, pc, loc, past, content>>

Seek(t, p) ==
    /\ pc[t] = "idle" /\ file[t].slot # None /\ p # file[t].pos
    /\ file' = [file EXCEPT ![t].pos = p]
    /\ UNCHANGED <<fat, disk, lock, pc, loc, past, content>>

----------------------------------------------------------------------------
(* fat_write_file().  First cluster and position are read before the lock. *)

Write(t, n, v) ==
    /\ pc[t] = "idle" /\ file[t].slot # None /\ file[t].pos + n <= MaxSize
    /\ Set(t, [NoLocals EXCEPT !.kind = "write", !.cur = file[t].ino,
                               !.off = file[t].pos, !.left = n, !.val = v])
    /\ Goto(t, "w_lock")
    /\ UNCHANGED <<fat, disk, lock, file, past, content>>

(* One turn of the loop over the clusters: take the first cluster, or walk *)
(* the chain to the block and take what it lacks, one link at a time.      *)
(* loc.cur is first_cluster, loc.at the cluster reached.                   *)
WriteTurn(t) ==
    LET l == loc[t]
        at(n) == Nth(fat, l.cur, n)
        reached == Cardinality({n \in 0..l.off : Valid(at(n))})   \* blocks there are
        lacks == l.cur = 0 \/ (reached <= l.off /\ at(reached) = EOC)
    IN  /\ pc[t] = "w_top"
        /\ \/ /\ reached = l.off + 1
              /\ Goto(t, "w_data") /\ Set(t, [l EXCEPT !.at = at(l.off)])
           \/ /\ lacks /\ FindFree # 0
              /\ Goto(t, "w_zero")
              /\ Set(t, [l EXCEPT !.new = FindFree, !.at = IF reached = 0 THEN None ELSE at(reached - 1)])
           \/ /\ reached <= l.off /\ (lacks => FindFree = 0)
              /\ Goto(t, "w_end") /\ UNCHANGED loc
        /\ UNCHANGED <<fat, disk, lock, file, past, content>>

\* Mutant: a new cluster is linked with what its last owner left in it.
WriteZeroMutant(t) ==
    /\ pc[t] = "w_zero" /\ Goto(t, "w_mark")
    /\ UNCHANGED <<fat, disk, lock, loc, file, past, content>>

WriteZero(t) ==
    /\ pc[t] = "w_zero"
    /\ LET zeroed == [data EXCEPT ![loc[t].new] = Zero]
       IN  \/ data' = zeroed /\ Goto(t, "w_mark") /\ UNCHANGED failures
           \/ Fails /\ data' \in {data, zeroed} /\ Goto(t, "w_end")
    /\ UNCHANGED <<fat, dfat, dir, lock, loc, file, torn, leaky, content>>

(* The cluster is taken in the table, then linked to the chain; a link     *)
(* that fails gives it back (add_new_link_to_chain()).                     *)
WriteMark(t) ==
    /\ pc[t] = "w_mark"
    /\ \/ /\ SetFat(loc[t].new, EOC)
          /\ IF loc[t].at = None
             THEN Goto(t, "w_top") /\ Set(t, [loc[t] EXCEPT !.cur = loc[t].new])
             ELSE Goto(t, "w_link") /\ UNCHANGED loc
          /\ UNCHANGED failures
       \/ SetFatFails(loc[t].new, EOC) /\ Goto(t, "w_end") /\ UNCHANGED loc
    /\ UNCHANGED <<dir, data, lock, file, torn, leaky, content>>

WriteLink(t) ==
    /\ pc[t] = "w_link"
    /\ \/ SetFat(loc[t].at, loc[t].new) /\ Goto(t, "w_top") /\ UNCHANGED <<failures, torn>>
       \/ /\ SetFatFails(loc[t].at, loc[t].new) /\ Goto(t, "w_undo")
          /\ torn' = (dfat' # dfat)
    /\ UNCHANGED <<dir, data, lock, loc, file, leaky, content>>

\* Mutant: a cluster that could not be linked stays taken.
WriteUndoMutant(t) ==
    /\ pc[t] = "w_undo" /\ Goto(t, "w_end")
    /\ UNCHANGED <<fat, disk, lock, loc, file, past, content>>

WriteUndo(t) ==
    /\ pc[t] = "w_undo"
    /\ \/ SetFat(loc[t].new, Free) /\ UNCHANGED <<failures, leaky>>
       \/ SetFatFails(loc[t].new, Free) /\ leaky' = TRUE
    /\ Goto(t, "w_end")
    /\ UNCHANGED <<dir, data, lock, loc, file, torn, content>>

WriteData(t) ==
    /\ pc[t] = "w_data"
    /\ LET written == [data EXCEPT ![loc[t].at] = loc[t].val]
       IN  \/ /\ data' = written
              /\ Set(t, [loc[t] EXCEPT !.off = @ + 1, !.left = @ - 1, !.done = @ + 1])
              /\ Goto(t, IF loc[t].left = 1 THEN "w_end" ELSE "w_top")
              /\ UNCHANGED <<failures, content>>
           \/ /\ Fails /\ data' \in {data, written}
              /\ content' = [content EXCEPT ![file[t].slot] = Unknown]
              /\ Goto(t, "w_end") /\ UNCHANGED loc
    /\ UNCHANGED <<fat, dfat, dir, lock, file, torn, leaky>>

(* The size and the first cluster go into the open file, then into the     *)
(* directory, which is read here and written in the next step.  An error   *)
(* there makes the call return 0 although the blocks are written.  The     *)
(* first cluster of a file is forgotten when no block went into it.        *)
WriteEnd(t) ==
    /\ pc[t] = "w_end"
    /\ IF loc[t].done = 0
       THEN Leave(t) /\ leaky' = (IF loc[t].cur = file[t].ino THEN leaky ELSE TRUE) /\ UNCHANGED file
       ELSE /\ UNCHANGED leaky
            /\ file' = [file EXCEPT ![t].ino = loc[t].cur,
                          ![t].size = IF @ < file[t].pos + loc[t].done THEN file[t].pos + loc[t].done ELSE @]
            /\ Set(t, [loc[t] EXCEPT !.buf = dir]) /\ Goto(t, "w_dir") /\ UNCHANGED lock
    /\ UNCHANGED <<fat, disk, failures, torn, content>>

(* What a file holds after done blocks v at pos; a gap reads as zeroes.    *)
Overlay(c, pos, done, v) ==
    [i \in 1..(IF Len(c) < pos + done THEN pos + done ELSE Len(c)) |->
        IF i > pos /\ i <= pos + done THEN v ELSE IF i <= Len(c) THEN c[i] ELSE Zero]

WriteDir(t) ==
    LET l == loc[t]  f == file[t]
        named == [l.buf EXCEPT ![f.slot] = [@ EXCEPT !.first = f.ino, !.size = f.size]]
    IN  /\ pc[t] = "w_dir"
        /\ \/ /\ dir' = named
              /\ file' = [file EXCEPT ![t].pos = @ + l.done]
              /\ content' = [content EXCEPT ![f.slot] =
                                IF @ = Unknown THEN @ ELSE Overlay(@, f.pos, l.done, l.val)]
              /\ UNCHANGED <<failures, leaky>>
           \/ /\ InDoubt(named) /\ leaky' = TRUE /\ UNCHANGED file
              /\ content' = [content EXCEPT ![f.slot] = Unknown]
        /\ Leave(t)
        /\ UNCHANGED <<fat, dfat, data, torn>>

----------------------------------------------------------------------------
(* fat_truncate_file(): free the chain, then empty the directory entry.    *)

Truncate(t) ==
    /\ pc[t] = "idle" /\ file[t].slot # None
    /\ Set(t, [NoLocals EXCEPT !.kind = "truncate", !.cur = file[t].ino])
    /\ Goto(t, "t_lock")
    /\ UNCHANGED <<fat, disk, lock, file, past, content>>

(* One cluster of a chain that truncate or unlink gives back.              *)
FreeOne(t) ==
    /\ pc[t] \in {"t_free", "r_free"} /\ Valid(loc[t].cur)
    /\ \/ /\ SetFat(loc[t].cur, Free)
          /\ Set(t, [loc[t] EXCEPT !.cur = fat[loc[t].cur], !.freed = TRUE])
          /\ UNCHANGED <<pc, lock, past>>
       \/ /\ SetFatFails(loc[t].cur, Free)
          /\ leaky' = TRUE
          /\ torn' = (torn \/ (pc[t] = "t_free" /\ (loc[t].freed \/ dfat' # dfat)))
          /\ Leave(t) 
    /\ UNCHANGED <<dir, data, file, content>>

TruncateRead(t) ==
    /\ pc[t] = "t_free" /\ ~Valid(loc[t].cur)
    /\ Set(t, [loc[t] EXCEPT !.buf = dir]) /\ Goto(t, "t_dir")
    /\ UNCHANGED <<fat, disk, lock, file, past, content>>

TruncateDir(t) ==
    LET f == file[t]
        emptied == [loc[t].buf EXCEPT ![f.slot].first = 0, ![f.slot].size = 0]
    IN  /\ pc[t] = "t_dir"
        /\ \/ /\ dir' = emptied
              /\ file' = [file EXCEPT ![t] = [@ EXCEPT !.ino = 0, !.size = 0, !.pos = 0]]
              /\ content' = [content EXCEPT ![f.slot] = <<>>]
              /\ UNCHANGED <<failures, torn>>
           \/ /\ InDoubt(emptied) /\ torn' = loc[t].freed /\ UNCHANGED file
              /\ content' = [content EXCEPT ![f.slot] = Unknown]
        /\ Leave(t)
        /\ UNCHANGED <<fat, dfat, data, leaky>>

----------------------------------------------------------------------------
(* vfs_unlink(), vfs_rmdir() and fat_remove_file().  An open file is known *)
(* by its first cluster, and it is looked for before the lock is held.     *)

Unlink(t, s) ==
    /\ pc[t] = "idle" /\ file[t].slot = None /\ dir[s].used
    /\ \A u \in Task : file[u].slot # None => file[u].ino # dir[s].first
    /\ Set(t, [NoLocals EXCEPT !.kind = "unlink", !.slot = s, !.cur = dir[s].first])
    /\ Goto(t, "r_lock")
    /\ UNCHANGED <<fat, disk, lock, file, past, content>>

RemoveRead(t) ==
    /\ pc[t] = "r_read"
    /\ IF dir[loc[t].slot].used
       THEN Set(t, [loc[t] EXCEPT !.buf = dir]) /\ Goto(t, "r_dir") /\ UNCHANGED lock
       ELSE Leave(t)
    /\ UNCHANGED <<fat, disk, file, past, content>>

\* Mutant: the clusters go first and the name after them.
RemoveDirMutant(t) ==
    /\ pc[t] = "r_dir"
    /\ SetFat(loc[t].cur, Free)
    /\ Goto(t, "r_free")
    /\ UNCHANGED <<dir, data, lock, loc, file, past, content>>

(* The name goes first, the clusters after it.                             *)
RemoveDir(t) ==
    /\ pc[t] = "r_dir"
    /\ LET removed == [loc[t].buf EXCEPT ![loc[t].slot].used = FALSE]
       IN  \/ dir' = removed /\ Goto(t, "r_free") /\ UNCHANGED <<lock, loc, failures, leaky>>
           \/ InDoubt(removed) /\ Leave(t) /\ leaky' = (IF dir' = dir THEN leaky ELSE TRUE)
    /\ content' = [content EXCEPT ![loc[t].slot] = Unknown]
    /\ UNCHANGED <<fat, dfat, data, file, torn>>

RemoveEnd(t) ==
    /\ pc[t] = "r_free" /\ ~Valid(loc[t].cur)
    /\ Leave(t)
    /\ UNCHANGED <<fat, disk, file, past, content>>

----------------------------------------------------------------------------
(* fat_create_file() and write_directory(), which do not take fat_lock.    *)
(* kind is "file" for open() with O_CREAT, "dir" for mkdir and "rename"    *)
(* for the new name that a rename makes first.                             *)

Create(t, kind, from) ==
    LET unused == {s \in Slot : ~dir[s].used}
        to == CHOOSE s \in unused : \A r \in unused : s <= r
    IN  /\ pc[t] = "idle" /\ file[t].slot = None /\ unused # {}
        /\ IF kind = "rename" THEN from # None /\ dir[from].used ELSE from = None
        /\ kind = "dir" => FindFree # 0
        /\ Set(t, [NoLocals EXCEPT !.kind = kind, !.slot = from, !.to = to, !.buf = dir,
                                   !.new = IF kind = "dir" THEN FindFree ELSE 0])
        /\ Goto(t, IF kind = "dir" THEN "c_mark" ELSE "c_dir")
        /\ UNCHANGED <<fat, disk, lock, file, past, content>>

CreateMark(t) ==
    /\ pc[t] = "c_mark"
    /\ \/ SetFat(loc[t].new, EOC) /\ Goto(t, "c_dir") /\ UNCHANGED <<loc, failures>>
       \/ SetFatFails(loc[t].new, EOC) /\ Return(t)
    /\ UNCHANGED <<dir, data, lock, file, torn, leaky, content>>

(* open() gets its file even when the directory could not be written.      *)
CreateDir(t) ==
    LET l == loc[t]
        made == [l.buf EXCEPT ![l.to] = [used |-> TRUE, isdir |-> l.kind = "dir",
                                         first |-> l.new, size |-> 0]]
    IN  /\ pc[t] = "c_dir"
        /\ \/ /\ dir' = made
              /\ content' = [content EXCEPT ![l.to] = IF l.kind = "dir" THEN Unknown ELSE <<>>]
              /\ UNCHANGED <<failures, leaky>>
           \/ /\ InDoubt(made) /\ leaky' = TRUE
              /\ content' = [content EXCEPT ![l.to] = Unknown]
        /\ IF l.kind = "file"
           THEN Return(t) /\ file' = [file EXCEPT ![t] = [NoFile EXCEPT !.slot = l.to]]
           ELSE /\ UNCHANGED file
                /\ IF l.kind = "rename" THEN Goto(t, "n_lock") /\ UNCHANGED loc
                   ELSE IF failures' = failures THEN Goto(t, "c_prep") /\ UNCHANGED loc ELSE Return(t)
        /\ UNCHANGED <<fat, dfat, data, lock, torn>>

(* prepare_new_dir() writes the cluster with . and .. and looks at no error. *)
CreatePrepare(t) ==
    /\ pc[t] = "c_prep"
    /\ LET prepared == [data EXCEPT ![loc[t].new] = Zero]
       IN  \/ data' = prepared /\ UNCHANGED failures
           \/ Fails /\ data' \in {data, prepared}
    /\ Return(t)
    /\ UNCHANGED <<fat, dfat, dir, lock, file, torn, leaky, content>>

----------------------------------------------------------------------------
(* fat_rename_file() after it has made the new name: the record moves in   *)
(* one write of the directory.                                             *)

RenameRead(t) ==
    /\ pc[t] = "n_read"
    /\ IF dir[loc[t].slot].used
       THEN Set(t, [loc[t] EXCEPT !.buf = dir]) /\ Goto(t, "n_dir") /\ UNCHANGED lock
       ELSE Leave(t)
    /\ UNCHANGED <<fat, disk, file, past, content>>

RenameDir(t) ==
    LET l == loc[t]
        moved == [l.buf EXCEPT ![l.slot].used = FALSE, ![l.to] = l.buf[l.slot]]
    IN  /\ pc[t] = "n_dir"
        /\ \/ /\ dir' = moved
              /\ content' = [content EXCEPT ![l.to] = content[l.slot], ![l.slot] = Unknown]
              /\ UNCHANGED failures
           \/ /\ InDoubt(moved)
              /\ content' = [content EXCEPT ![l.to] = Unknown, ![l.slot] = Unknown]
        /\ Leave(t)
        /\ UNCHANGED <<fat, dfat, data, file, torn, leaky>>

----------------------------------------------------------------------------
(* The machine stops and mounts the volume again: read_fat_to_mem() takes  *)
(* the table from the disk.  What a write in progress has left is unknown, *)
(* and a truncate that had freed a cluster is torn.                        *)
Cut(t) == pc[t] \in {"w_top", "w_zero", "w_mark", "w_link", "w_undo", "w_data", "w_end", "w_dir"}

Crash ==
    /\ Fails
    /\ fat' = dfat
    /\ lock' = None /\ pc' = [t \in Task |-> "idle"]
    /\ loc' = [t \in Task |-> NoLocals] /\ file' = [t \in Task |-> NoFile]
    /\ torn' = \E t \in Task : pc[t] \in {"t_free", "t_dir"} /\ loc[t].freed
    /\ leaky' = TRUE
    /\ content' = [s \in Slot |-> IF \E t \in Task : Cut(t) /\ file[t].slot = s THEN Unknown ELSE content[s]]
    /\ UNCHANGED disk

WriteStep(t) ==
    \/ \E n \in 1..MaxSize, v \in Value : Write(t, n, v)
    \/ WriteTurn(t) \/ WriteZero(t) \/ WriteMark(t) \/ WriteLink(t) \/ WriteUndo(t)
    \/ WriteData(t) \/ WriteEnd(t) \/ WriteDir(t)

NameStep(t) ==
    \/ \E kind \in {"file", "dir", "rename"}, from \in Slot \cup {None} : Create(t, kind, from)
    \/ CreateMark(t) \/ CreateDir(t) \/ CreatePrepare(t) \/ RenameRead(t) \/ RenameDir(t)
    \/ \E s \in Slot : Unlink(t, s)
    \/ RemoveRead(t) \/ RemoveDir(t) \/ RemoveEnd(t)

(* Nothing is said of a torn volume: a record or a link names a cluster    *)
(* that is free, and the next file takes it.                               *)
Next ==
    /\ ~torn
    /\ \/ \E t \in Task :
            \/ \E s \in Slot : Open(t, s)
            \/ Close(t) \/ \E p \in 0..(MaxSize - 1) : Seek(t, p)
            \/ Acquire(t) \/ WriteStep(t) \/ NameStep(t)
            \/ Truncate(t) \/ FreeOne(t) \/ TruncateRead(t) \/ TruncateDir(t)
       \/ Crash
    /\ raced' = (raced \/ Race')

Spec == Init /\ [][Next]_vars

----------------------------------------------------------------------------
TypeOK ==
    /\ fat \in [Cluster -> Cluster \cup {Free, EOC}] /\ dfat \in [Cluster -> Cluster \cup {Free, EOC}]
    /\ dir \in [Slot -> Entry] /\ data \in [Cluster -> Value \cup {Zero}]
    /\ lock \in Task \cup {None}
    /\ \A t \in Task : file[t] = NoFile \/ (file[t].slot \in Slot /\ file[t].ino \in Cluster \cup {0}
                                            /\ file[t].size \in 0..MaxSize /\ file[t].pos \in 0..MaxSize)
    /\ \A t \in Task : (lock = t) <=> pc[t] \in {"w_top", "w_zero", "w_mark", "w_link", "w_undo", "w_data",
                                     "w_end", "w_dir", "t_free", "t_dir", "r_read", "r_dir", "r_free", "n_read", "n_dir"}

(* At every step, should the machine stop there, the records on the disk   *)
(* name chains that end, that are made of clusters in use and that share   *)
(* none: fat_write_file() links a cluster after it is marked and names it  *)
(* last, fat_remove_file() drops the name first.  Only a file whose        *)
(* truncate is under way is left out.  All this ends with the first two    *)
(* calls that meet on one file, or with a create outside fat_lock (Race):  *)
(* the code keeps neither apart, and TruncatedIsEmpty shows what follows.  *)
Truncating(s) == \E t \in Task : pc[t] \in {"t_free", "t_dir"} /\ loc[t].freed /\ file[t].slot = s
Named == {s \in Slot : dir[s].used /\ dir[s].first # 0 /\ ~Truncating(s)}

VolumeSound ==
    ~torn /\ ~raced => \A s \in Named :
        /\ EOC \in {Nth(dfat, dir[s].first, n) : n \in 0..Cardinality(Cluster)}
        /\ \A r \in Named \ {s} : Chain(dfat, dir[s].first) \cap Chain(dfat, dir[r].first) = {}

(* A file that no call is working on reads back what the calls that        *)
(* returned have written, block by block and zeroes in the gaps, also      *)
(* after a crash and whatever the other tasks did meanwhile, as long as    *)
(* there was no race.  A write that failed leaves that one file open.      *)
ReadsBack ==
    ~torn /\ ~raced => \A s \in Slot :
        (dir[s].used /\ content[s] # Unknown /\ \A t \in Task : file[t].slot = s => pc[t] = "idle")
            => ReadFile(dir[s].first, dir[s].size) = content[s]

(* No cluster is lost, not when the volume fills up in the middle of a     *)
(* write, nor by a disk error from which the code goes back: between the   *)
(* calls that hold fat_lock, each cluster in use is on the chain of a      *)
(* name.  leaky says where the code does lose some.                        *)
NothingLost ==
    (~leaky /\ ~raced /\ lock = None /\ \A t \in Task : pc[t] # "c_dir")
        => \A c \in Cluster : fat[c] # Free => \E s \in Slot : dir[s].used /\ c \in Chain(fat, dir[s].first)

(* fat.c:560: a truncate releases the complete chain, "then updates that   *)
(* entry atomically while holding fat_lock".                               *)
TruncatedIsEmpty ==
    (failures = 0 /\ lock = None)
        => \A s \in Slot : dir[s].used /\ ~dir[s].isdir /\ content[s] = <<>> => dir[s].first = 0
============================================================================
