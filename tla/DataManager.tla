---------------------------- MODULE DataManager -----------------------------
(***************************************************************************)
(* util/datamanager.lua and atomic_append of util-src/pposix.c: the files  *)
(* of one user's key-value store ("dat") and of one of the user's lists    *)
(* ("list").  The server writes both; prosodyctl, a process of its own,    *)
(* may write the key-value store at the same time.  Every system call may  *)
(* fail, and a process may die between any two of them.                    *)
(*                                                                         *)
(* What is written, a stored table or an item of a list, takes two pieces  *)
(* on disk, so that a file can end in the middle of one.                   *)
(***************************************************************************)
EXTENDS Naturals, Sequences, FiniteSetsExt

CONSTANTS Procs,        \* processes that store; Main appends to the list
          Main,
          Tables,       \* tables stored, Empty among them
          Empty,
          MaxItems,     \* bound on list items ever appended
          StoreFeatures \* "crash", "denied", "close": failures looked at

ASSUME StoreAssumption ==
    Main \in Procs /\ IsFiniteSet(Procs) /\ Empty \in Tables /\ MaxItems \in Nat

Names == {"dat", "dat~", "list", "list~"}
Mut_Scratch(name) == name
Scratch(name) == IF name = "dat" THEN "dat~" ELSE "list~"

VARIABLES dir,          \* file name -> inode, 0 if there is no such file
          inode,        \* inode -> its pieces
          proc,         \* what each process is doing
          items,        \* items appended so far
          acked,        \* items that the list must hold, oldest first
          flaw          \* events after which less is promised

storeVars == <<dir, inode, proc, items, acked, flaw>>

Inodes == 1..2 * Cardinality(Procs) + 2

Resting == [at |-> "idle", op |-> "none", name |-> "dat", data |-> <<>>, val |-> Empty,
            ino |-> 0, pos |-> 0, n |-> 0, retry |-> FALSE]

(* The two pieces of a table or an item. *)
Pieces(x) == <<<<x, 1>>, <<x, 2>>>>
Whole(xs) == [k \in 1..2 * Len(xs) |-> <<xs[(k + 1) \div 2], IF k % 2 = 1 THEN 1 ELSE 2>>]

Go(p, step) == proc' = [proc EXCEPT ![p].at = step]
Return(p, result) == proc' = [proc EXCEPT ![p] = [Resting EXCEPT !.at = result]]

FreeInode == Min(Inodes \ ({dir[m] : m \in Names} \cup {proc[p].ino : p \in Procs}))

(* write(2) at offset pos: the file grows, with a hole if it was truncated. *)
WriteAt(s, pos, piece) ==
    [k \in 1..(IF Len(s) > pos THEN Len(s) ELSE pos + 1) |->
        IF k = pos + 1 THEN piece ELSE IF k <= Len(s) THEN s[k] ELSE <<"hole", 0>>]

File(name) == IF dir[name] = 0 THEN <<>> ELSE inode[dir[name]]
-----------------------------------------------------------------------------
(* store, list_store and list_append begin.  Nothing new is begun after two *)
(* processes have shared a scratch file: no property speaks of it.          *)
Begin(p, op, name, val, data) ==
    /\ proc[p].at \in {"idle", "ok", "failed", "raised"} /\ "shared" \notin flaw
    /\ proc' = [proc EXCEPT ![p] = [Resting EXCEPT
            !.at = IF op = "append" THEN "r+" ELSE "open", !.op = op, !.name = name,
            !.val = val, !.data = data]]
    /\ UNCHANGED <<dir, inode, acked, flaw>>

store(p) ==
    \E v \in Tables : Begin(p, "store", "dat", v, Pieces(v)) /\ UNCHANGED items

list_append(p) ==
    /\ items < MaxItems /\ p = Main
    /\ items' = items + 1
    /\ Begin(p, "append", "list", items + 1, Pieces(items + 1))

(* mod_offline and others replace a list by a part of it. *)
list_store(p) ==
    /\ p = Main
    /\ \E m \in 0..Len(acked) : LET kept == SubSeq(acked, m + 1, Len(acked)) IN
          Begin(p, "replace", "list", kept, Whole(kept))
    /\ UNCHANGED items
-----------------------------------------------------------------------------
(* atomic_store.  io_open(scratch, "w") truncates a scratch file that       *)
(* another process has open.                                                *)
OpenScratch(p) ==
    LET s == Scratch(proc[p].name)
        shared == \E q \in Procs \ {p} : proc[q].at \in {"write", "close", "rename"}
                                         /\ Scratch(proc[q].name) = s
        ino == IF dir[s] = 0 THEN FreeInode ELSE dir[s]
    IN
    /\ proc[p].at = "open"
    /\ dir' = [dir EXCEPT ![s] = ino]
    /\ inode' = [inode EXCEPT ![ino] = <<>>]
    /\ proc' = [proc EXCEPT ![p].at = "write", ![p].ino = ino, ![p].n = 0, ![p].pos = 0]
    /\ flaw' = IF shared THEN flaw \cup {"shared"} ELSE flaw
    /\ UNCHANGED <<items, acked>>

WriteScratch(p) ==
    /\ proc[p].at = "write"
    /\ IF proc[p].n = Len(proc[p].data)
       THEN Go(p, "close") /\ UNCHANGED inode
       ELSE /\ inode' = [inode EXCEPT ![proc[p].ino] =
                            WriteAt(@, proc[p].n, proc[p].data[proc[p].n + 1])]
            /\ proc' = [proc EXCEPT ![p].n = @ + 1]
    /\ UNCHANGED <<dir, items, acked, flaw>>

CloseScratch(p) ==
    /\ proc[p].at = "close"
    /\ proc' = [proc EXCEPT ![p].at = "rename", ![p].ino = 0]
    /\ UNCHANGED <<dir, inode, items, acked, flaw>>

(* Names change; p has closed its file, and an inode nobody refers to is    *)
(* free.                                                                    *)
Link(p, d) ==
    /\ dir' = d
    /\ inode' = [k \in Inodes |->
            IF (\E m \in Names : d[m] = k) \/ \E q \in Procs \ {p} : proc[q].ino = k
            THEN inode[k] ELSE <<>>]

(* What follows atomic_store in the three callers.  store tries once more   *)
(* after a failure, and removes the file of an empty table either way.      *)
Finish(p, ok, d) ==
    LET empty == IF proc[p].op = "store" THEN proc[p].val = Empty
                 ELSE ok /\ proc[p].data = <<>>
        again == proc[p].op = "store" /\ ~ok /\ ~proc[p].retry
    IN  /\ Link(p, IF empty THEN [d EXCEPT ![proc[p].name] = 0] ELSE d)
        /\ IF again
           THEN proc' = [proc EXCEPT ![p].at = "open", ![p].retry = TRUE, ![p].ino = 0]
           ELSE Return(p, IF ok THEN "ok" ELSE "failed")

(* io_open, write or close fails; the last two remove the scratch file.     *)
ScratchFails(p) ==
    /\ proc[p].at \in {"open", "write", "close"}
    /\ Finish(p, FALSE, IF proc[p].at = "open" THEN dir
                        ELSE [dir EXCEPT ![Scratch(proc[p].name)] = 0])
    /\ UNCHANGED <<items, acked, flaw>>

Rename(p) ==
    LET name == proc[p].name
        s == Scratch(name)
        ok == dir[s] # 0
    IN
    /\ proc[p].at = "rename"
    /\ Finish(p, ok, IF ok THEN [dir EXCEPT ![name] = dir[s], ![s] = 0] ELSE dir)
    /\ acked' = CASE ok /\ proc[p].op = "replace" -> proc[p].val
                  [] ok /\ proc[p].op = "append" -> Append(acked, proc[p].val)
                  [] OTHER -> acked
    /\ UNCHANGED <<items, flaw>>
-----------------------------------------------------------------------------
(* append: a list that cannot be opened, for whatever reason, is taken for  *)
(* one that does not exist.                                                 *)
OpenList(p) ==
    /\ proc[p].at = "r+"
    /\ \/ /\ dir["list"] # 0
          /\ proc' = [proc EXCEPT ![p].at = "alloc", ![p].ino = dir["list"],
                                  ![p].pos = Len(inode[dir["list"]])]
          /\ UNCHANGED flaw
       \/ dir["list"] = 0 /\ Go(p, "open") /\ UNCHANGED flaw
       \/ /\ dir["list"] # 0 /\ "denied" \in StoreFeatures
          /\ Go(p, "open") /\ flaw' = flaw \cup {"denied"}
    /\ UNCHANGED <<dir, inode, items, acked>>

(* lc_atomic_append: fallocate works or is not there, or the call fails.    *)
Fallocate(p) ==
    /\ proc[p].at = "alloc"
    /\ Go(p, "fwrite") \/ Return(p, "failed")
    /\ UNCHANGED <<dir, inode, items, acked, flaw>>

Fwrite(p) ==
    /\ proc[p].at = "fwrite"
    /\ \/ /\ proc[p].n < Len(proc[p].data)
          /\ inode' = [inode EXCEPT ![proc[p].ino] =
                          WriteAt(@, proc[p].pos + proc[p].n, proc[p].data[proc[p].n + 1])]
          /\ proc' = [proc EXCEPT ![p].n = @ + 1]
       \/ proc[p].n = Len(proc[p].data) /\ Go(p, "fclose") /\ UNCHANGED inode
       \/ proc[p].n < Len(proc[p].data) /\ Go(p, "truncate") /\ UNCHANGED inode
    /\ UNCHANGED <<dir, items, acked, flaw>>

Mut_Truncate(p) ==
    /\ proc[p].at = "truncate" /\ Return(p, "failed")
    /\ UNCHANGED <<dir, inode, items, acked, flaw>>
Truncate(p) ==
    /\ proc[p].at = "truncate"
    /\ \/ /\ inode' = [inode EXCEPT ![proc[p].ino] = SubSeq(@, 1, proc[p].pos)]
          /\ Return(p, "failed") /\ UNCHANGED flaw
       \/ /\ UNCHANGED inode /\ Return(p, "raised") /\ flaw' = flaw \cup {"torn"}
    /\ UNCHANGED <<dir, items, acked>>

(* f:close() has nothing left to write but may still report an error. *)
CloseList(p) ==
    /\ proc[p].at = "fclose"
    /\ Return(p, "ok") \/ ("close" \in StoreFeatures /\ Return(p, "raised"))
    /\ acked' = Append(acked, proc[p].val)
    /\ UNCHANGED <<dir, inode, items, flaw>>

(* The process dies; what it wrote stays. *)
Crash(p) ==
    /\ "crash" \in StoreFeatures /\ proc[p].at \notin {"idle", "ok", "failed", "raised"}
    /\ Return(p, "idle")
    /\ flaw' = IF proc[p].at \in {"fwrite", "truncate"} /\ proc[p].n > 0
               THEN flaw \cup {"torn"} ELSE flaw
    /\ UNCHANGED <<dir, inode, items, acked>>
-----------------------------------------------------------------------------
StoreInit ==
    /\ dir = [m \in Names |-> 0] /\ inode = [k \in Inodes |-> <<>>]
    /\ proc = [p \in Procs |-> Resting] /\ items = 0 /\ acked = <<>> /\ flaw = {}

StoreStep(p) ==
    \/ OpenScratch(p) \/ WriteScratch(p) \/ CloseScratch(p) \/ ScratchFails(p) \/ Rename(p)
    \/ OpenList(p) \/ Fallocate(p) \/ Fwrite(p) \/ Truncate(p) \/ CloseList(p)
    \/ Crash(p)

StoreNext ==
    \E p \in Procs : store(p) \/ list_append(p) \/ list_store(p) \/ StoreStep(p)

StoreSpec == StoreInit /\ [][StoreNext]_storeVars
-----------------------------------------------------------------------------
(* The complete items among pieces s. list_load compiles the whole file: it *)
(* returns these when there is nothing else in it, and fails otherwise.     *)
Complete(s) == [k \in {j \in 1..Len(s) - 1 : s[j][2] = 1 /\ s[j + 1] = <<s[j][1], 2>>} |-> s[k][1]]

(* load never finds half a table: a key-value file is absent or one table   *)
(* written in full, through failures, retries and crashes, as long as no    *)
(* other process opened the same scratch file (datamanager.lua:158-181).    *)
TableWhole ==
    "shared" \notin flaw => File("dat") \in {<<>>} \cup {Pieces(v) : v \in Tables}

(* An item whose append was reported done stays in the list, once and in    *)
(* its place, until the list is replaced; a list that could not be opened   *)
(* is the exception (datamanager.lua:234-238).                              *)
AckedKept ==
    "denied" \notin flaw =>
        \E f \in [1..Len(acked) -> DOMAIN Complete(File("list"))] :
            \A j, k \in 1..Len(acked) :
                /\ Complete(File("list"))[f[k]] = acked[k]
                /\ j < k => f[j] < f[k]

(* list_load can read the list whenever no append is under way, unless a    *)
(* process died within one or the truncation failed (pposix.c:780-797).     *)
ListReadable ==
    /\ "torn" \notin flaw
    /\ \A p \in Procs : proc[p].at \notin {"fwrite", "truncate", "fclose"}
    => LET s == File("list")
       IN  \A k \in 1..Len(s) :
              IF k % 2 = 1 THEN k < Len(s) /\ s[k][2] = 1 ELSE s[k] = <<s[k - 1][1], 2>>

(* The list survives: what was acknowledged is in it and can be read.  An   *)
(* append that fails has therefore taken away no item of an earlier one     *)
(* and left nothing of its own (datamanager.lua:230-294, pposix.c:748-803). *)
ListKept == AckedKept /\ ListReadable
=============================================================================
