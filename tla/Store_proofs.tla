---------------------------- MODULE Store_proofs ----------------------------
(***************************************************************************)
(* Proofs about the files of the store (DataManager): a table is never     *)
(* found half written.  The invariant says, as long as no two processes    *)
(* have shared a scratch file, that what is under the name "dat~" is what  *)
(* the one process at work has written so far, and that no process that    *)
(* works on the list has its inode or the one of "dat" open.  The list     *)
(* keeps what was acknowledged: it is what it was up to where the append   *)
(* under way began, and nothing but that append is beyond.                 *)
(***************************************************************************)
EXTENDS DataManager, SequenceTheorems, FiniteSetTheorems, WellFoundedInduction, TLAPS

Working == {"write", "close", "rename"}
Storing(r) == r.name = "dat" /\ r.at \in Working
Prefix(v, n) == [k \in 1..n |-> <<v, k>>]

IsRec(r) == r = [at |-> r.at, op |-> r.op, name |-> r.name, data |-> r.data, val |-> r.val,
                 ino |-> r.ino, pos |-> r.pos, n |-> r.n, retry |-> r.retry]

(* The part of the invariant that a process stands for. *)
ProcOK(r, d, i) ==
    /\ IsRec(r)
    /\ r.name \in {"dat", "list"}
    /\ r.at \in {"r+", "alloc", "fwrite", "truncate", "fclose"} => r.name = "list"
    /\ r.at \in {"r+", "open"} => r.ino = 0
    /\ r.name = "list" => /\ d["dat"] # 0 => r.ino # d["dat"]
                          /\ d["dat~"] # 0 => r.ino # d["dat~"]
    /\ r.name = "dat" /\ r.at \in {"open"} \cup Working =>
          r.op = "store" /\ r.val \in Tables /\ r.data = Pieces(r.val)
    /\ r.name = "dat" /\ r.at \in {"write", "close"} => r.ino = d["dat~"]
    /\ r.name = "dat" /\ r.at \in Working => d["dat~"] # 0
    /\ r.name = "dat" /\ r.at = "write" => r.n \in 0..2 /\ i[d["dat~"]] = Prefix(r.val, r.n)
    /\ r.name = "dat" /\ r.at \in {"close", "rename"} => i[d["dat~"]] = Pieces(r.val)

(* No two names have one inode. *)
DirOK(d) ==
    /\ d \in [Names -> {0} \cup Inodes]
    /\ \A a, b \in Names : d[a] = d[b] /\ d[a] # 0 => a = b

TablesOK ==
    /\ DirOK(dir)
    /\ inode = [k \in Inodes |-> inode[k]]
    /\ proc = [p \in Procs |-> proc[p]]
    /\ \A p \in Procs : ProcOK(proc[p], dir, inode)
    /\ \A p, q \in Procs : Storing(proc[p]) /\ Storing(proc[q]) => p = q
    /\ dir["dat"] # 0 => \E v \in Tables : inode[dir["dat"]] = Pieces(v)

StoreInv == "shared" \in flaw \/ TablesOK

(* A set of numbers that is not empty has a least one. *)
LEMMA LeastExists ==
    ASSUME NEW S \in SUBSET Nat, S # {}
    PROVE  Min(S) \in S
  <1> DEFINE R == OpToRel(<, Nat)
  <1>1. IsWellFoundedOn(R, Nat)
    BY NatLessThanWellFounded
  <1>2. \A x, y \in Nat : x < y => <<x, y>> \in R
    BY DEF OpToRel
  <1> HIDE DEF R
  <1>3. PICK x \in S : \A y \in S : ~(<<y, x>> \in R)
    BY <1>1, WFMin
  <1>4. ASSUME NEW y \in S PROVE x <= y
    <2>1. x \in Nat /\ y \in Nat
      OBVIOUS
    <2>2. ~(y < x)
      BY <2>1, <1>2, <1>3
    <2> QED BY <2>1, <2>2
  <1> QED BY <1>3, <1>4 DEF Min

(* One more element, at most. *)
LEMMA OneMore ==
    ASSUME NEW S, IsFiniteSet(S), NEW x
    PROVE  /\ IsFiniteSet(S \cup {x}) /\ Cardinality(S \cup {x}) \in Nat
           /\ Cardinality(S \cup {x}) <= Cardinality(S) + 1
  <1>1. Cardinality(S) \in Nat
    BY FS_CardinalityType
  <1>2. /\ IsFiniteSet(S \cup {x})
        /\ Cardinality(S \cup {x}) = IF x \in S THEN Cardinality(S) ELSE Cardinality(S) + 1
    BY FS_AddElement
  <1> QED BY <1>1, <1>2

(* Inodes do not run out: a name without a file and the process about to    *)
(* create it refer to none.                                                 *)
LEMMA InodeIsFree ==
    ASSUME NEW p \in Procs, proc[p].ino = 0, NEW s \in Names, dir[s] = 0
    PROVE  /\ FreeInode \in Inodes
           /\ \A m \in Names : FreeInode # dir[m]
           /\ \A q \in Procs : FreeInode # proc[q].ino
  <1> DEFINE Others == Procs \ {p}
             Held == {proc[q].ino : q \in Others}
             f == [q \in Others |-> proc[q].ino]
             C == Cardinality(Procs)
             Free == Inodes \ ({dir[m] : m \in Names} \cup {proc[q].ino : q \in Procs})
  <1>1. C \in Nat /\ IsFiniteSet(Others) /\ Cardinality(Others) = C - 1
    BY StoreAssumption, FS_CardinalityType, FS_RemoveElement
  <1>2. IsFiniteSet(Held) /\ Cardinality(Held) <= C - 1
    <2>1. f \in Surjection(Others, Held)
      BY DEF Surjection
    <2> HIDE DEF f, Held, Others
    <2> QED BY <1>1, <2>1, FS_Surjection
  <1>3. \E a, b, c : Names \ {s} = {a, b, c}
    <2>1. \/ Names \ {s} = {"dat~", "list", "list~"}
          \/ Names \ {s} = {"dat", "list", "list~"}
          \/ Names \ {s} = {"dat", "dat~", "list~"}
          \/ Names \ {s} = {"dat", "dat~", "list"}
      BY DEF Names
    <2> QED BY ONLY <2>1
  <1>4. PICK a, b, c : Names \ {s} = {a, b, c}
    BY <1>3
  <1> DEFINE U == ((Held \cup {dir[a]}) \cup {dir[b]}) \cup {dir[c]}
  <1>5. IsFiniteSet(U) /\ Cardinality(U) \in Nat /\ Cardinality(U) <= C + 2
    <2> HIDE DEF Held, C
    <2>1. Cardinality(Held) \in Nat
      BY <1>2, FS_CardinalityType
    <2> DEFINE U1 == Held \cup {dir[a]}
               U2 == U1 \cup {dir[b]}
    <2>2. IsFiniteSet(U1) /\ Cardinality(U1) <= Cardinality(Held) + 1 /\ Cardinality(U1) \in Nat
      BY <1>2, OneMore
    <2> HIDE DEF U1
    <2>3. IsFiniteSet(U2) /\ Cardinality(U2) <= Cardinality(U1) + 1 /\ Cardinality(U2) \in Nat
      BY <2>2, OneMore
    <2>4. U = U2 \cup {dir[c]}
      BY DEF U1
    <2> HIDE DEF U2, U
    <2>5. IsFiniteSet(U) /\ Cardinality(U) <= Cardinality(U2) + 1 /\ Cardinality(U) \in Nat
      BY <2>3, <2>4, OneMore
    <2> QED BY <1>1, <1>2, <2>1, <2>2, <2>3, <2>5
  <1>6. C # 0
    BY StoreAssumption, FS_EmptySet
  <1>7. IsFiniteSet(Inodes) /\ Cardinality(Inodes) = 2 * C + 2
    <2> HIDE DEF C
    <2>1. Inodes = 1..(2 * C + 2)
      BY DEF Inodes, C
    <2>2. 2 * C + 2 \in Int /\ 1 \in Int /\ 2 * C + 2 >= 1
      BY <1>1
    <2> QED BY <1>1, <2>1, <2>2, FS_Interval
  <1>8. ~(Inodes \subseteq U)
    <2> HIDE DEF U, C
    <2> SUFFICES ASSUME Inodes \subseteq U PROVE FALSE
      OBVIOUS
    <2>1. Cardinality(Inodes) <= Cardinality(U)
      BY <1>5, FS_Subset
    <2> QED BY <1>1, <1>5, <1>6, <1>7, <2>1
  <1>9. Free # {}
    <2>1. PICK k \in Inodes : k \notin U
      BY <1>8
    <2>2. k # 0
      BY <2>1 DEF Inodes
    <2>3. ASSUME NEW m \in Names PROVE k # dir[m]
      <3>1. m = s \/ m \in {a, b, c}
        BY <1>4
      <3> QED BY <2>1, <2>2, <3>1
    <2>4. ASSUME NEW q \in Procs PROVE k # proc[q].ino
      BY <2>1, <2>2
    <2> QED BY <2>3, <2>4
  <1>10. Free \in SUBSET Nat
    BY <1>1 DEF Inodes
  <1>11. FreeInode = Min(Free)
    BY DEF FreeInode
  <1> HIDE DEF Free
  <1>12. FreeInode \in Free
    BY <1>9, <1>10, <1>11, LeastExists
  <1> QED BY <1>12 DEF Free

(* The parts of the invariant put together again after a step of p. *)
LEMMA Assembled ==
    ASSUME TablesOK, NEW p \in Procs, NEW r, proc' = [proc EXCEPT ![p] = r],
           DirOK(dir'), inode' = [k \in Inodes |-> inode'[k]],
           dir'["dat"] # 0 => \E v \in Tables : inode'[dir'["dat"]] = Pieces(v),
           ProcOK(r, dir', inode'),
           \A q \in Procs \ {p} : ProcOK(proc[q], dir', inode'),
           Storing(r) => \A q \in Procs \ {p} : ~Storing(proc[q])
    PROVE  TablesOK'
  <1>1. proc = [q \in Procs |-> proc[q]]
    BY DEF TablesOK
  <1>2. proc'[p] = r /\ \A q \in Procs \ {p} : proc'[q] = proc[q]
    BY <1>1
  <1>3. proc' = [q \in Procs |-> proc'[q]]
    BY <1>1
  <1>4. \A q \in Procs : ProcOK(proc'[q], dir', inode')
    BY <1>2
  <1>5. \A q, t \in Procs : Storing(proc[q]) /\ Storing(proc[t]) => q = t
    BY DEF TablesOK
  <1>6. ASSUME NEW q \in Procs, NEW t \in Procs, Storing(proc'[q]), Storing(proc'[t]) PROVE q = t
    BY <1>2, <1>5, <1>6
  <1>7. (\A q \in Procs : ProcOK(proc[q], dir, inode))'
    BY <1>4
  <1>8. (\A q, t \in Procs : Storing(proc[q]) /\ Storing(proc[t]) => q = t)'
    BY <1>6 DEF Storing
  <1> QED BY <1>3, <1>7, <1>8 DEF TablesOK, DirOK

(* A step of p that leaves the scratch file of the table alone.  The file   *)
(* of the table itself may be removed.                                      *)
Untouched(d, i, d2, i2) ==
    /\ d2["dat~"] = d["dat~"] /\ d2["dat"] \in {0, d["dat"]}
    /\ d["dat~"] # 0 => i2[d["dat~"]] = i[d["dat~"]]
    /\ d2["dat"] # 0 => i2[d["dat"]] = i[d["dat"]]

(* The files of the table are as before, or removed. *)
LEMMA Aside ==
    ASSUME TablesOK, NEW p \in Procs, NEW r, proc' = [proc EXCEPT ![p] = r],
           DirOK(dir'), inode' = [k \in Inodes |-> inode'[k]], Untouched(dir, inode, dir', inode'),
           ProcOK(r, dir', inode'), Storing(r) => Storing(proc[p])
    PROVE  TablesOK'
  <1>1. \A q \in Procs : ProcOK(proc[q], dir, inode)
    BY DEF TablesOK
  <1>2. ASSUME NEW q \in Procs PROVE ProcOK(proc[q], dir', inode')
    BY <1>1 DEF ProcOK, IsRec, Untouched, Working
  <1>3. dir'["dat"] # 0 => \E v \in Tables : inode'[dir'["dat"]] = Pieces(v)
    BY DEF TablesOK, Untouched
  <1>4. Storing(r) => \A q \in Procs \ {p} : ~Storing(proc[q])
    BY DEF TablesOK
  <1> QED BY <1>2, <1>3, <1>4, Assembled

(* A step of p on the table's own files, when no other process stores.      *)
LEMMA Own ==
    ASSUME TablesOK, NEW p \in Procs, NEW r, proc' = [proc EXCEPT ![p] = r],
           DirOK(dir'), inode' = [k \in Inodes |-> inode'[k]],
           dir'["dat"] # 0 => \E v \in Tables : inode'[dir'["dat"]] = Pieces(v),
           ProcOK(r, dir', inode'),
           \A q \in Procs \ {p} : ~Storing(proc[q]),
           \A q \in Procs : proc[q].name = "list" =>
                /\ dir'["dat"] # 0 => proc[q].ino # dir'["dat"]
                /\ dir'["dat~"] # 0 => proc[q].ino # dir'["dat~"]
    PROVE  TablesOK'
  <1>1. \A q \in Procs : ProcOK(proc[q], dir, inode)
    BY DEF TablesOK
  <1>2. ASSUME NEW q \in Procs \ {p} PROVE ProcOK(proc[q], dir', inode')
    BY <1>1 DEF ProcOK, IsRec, Storing, Working
  <1> QED BY <1>2, Assembled

(* What is left of Resting when the type of "retry" does not matter. *)
LEMMA RestingShape ==
    \E no : Resting = [at |-> "idle", op |-> "none", name |-> "dat", data |-> <<>>, val |-> Empty,
                       ino |-> 0, pos |-> 0, n |-> 0, retry |-> no]
  BY Zenon DEF Resting

(* A process that has returned asks nothing of the files. *)
LEMMA ReturnedOK ==
    ASSUME NEW result \in {"idle", "ok", "failed", "raised"}, NEW d, NEW i
    PROVE  /\ ProcOK([Resting EXCEPT !.at = result], d, i)
           /\ ~Storing([Resting EXCEPT !.at = result])
  <1> DEFINE r == [Resting EXCEPT !.at = result]
  <1>0. PICK no : Resting = [at |-> "idle", op |-> "none", name |-> "dat", data |-> <<>>, val |-> Empty,
                             ino |-> 0, pos |-> 0, n |-> 0, retry |-> no]
    BY RestingShape
  <1>1. r = [at |-> result, op |-> "none", name |-> "dat", data |-> <<>>, val |-> Empty,
             ino |-> 0, pos |-> 0, n |-> 0, retry |-> no]
    BY <1>0
  <1> HIDE DEF r
  <1>2. /\ r = [at |-> r.at, op |-> r.op, name |-> r.name, data |-> r.data, val |-> r.val,
                ino |-> r.ino, pos |-> r.pos, n |-> r.n, retry |-> r.retry]
        /\ r.at = result /\ r.name = "dat"
    BY <1>1
  <1>3. ProcOK(r, d, i) /\ ~Storing(r)
    BY <1>2 DEF ProcOK, IsRec, Storing, Working
  <1> QED BY <1>3 DEF r

(* A step of p that changes no file, or none of the table's. *)
LEMMA Elsewhere ==
    ASSUME TablesOK, NEW p \in Procs, NEW r, proc' = [proc EXCEPT ![p] = r], dir' = dir,
           \/ inode' = inode
           \/ \E x : inode' = [inode EXCEPT ![proc[p].ino] = x] /\ proc[p].name = "list",
           ProcOK(r, dir, inode), Storing(r) => Storing(proc[p])
    PROVE  TablesOK'
  <1>1. DirOK(dir') /\ inode = [k \in Inodes |-> inode[k]] /\ ProcOK(proc[p], dir, inode)
    BY DEF TablesOK
  <1>2. dir["dat"] \in {0} \cup Inodes /\ dir["dat~"] \in {0} \cup Inodes
    BY <1>1 DEF DirOK, Names
  <1>3. inode' = [k \in Inodes |-> inode'[k]] /\ \A k \in Inodes : k # proc[p].ino => inode'[k] = inode[k]
    BY <1>1
  <1>4. Untouched(dir, inode, dir', inode')
    <2>1. CASE inode' = inode
      BY <2>1 DEF Untouched
    <2>2. CASE proc[p].name = "list"
      BY <1>1, <1>2, <1>3, <2>2 DEF Untouched, ProcOK, IsRec
    <2> QED BY <2>1, <2>2
  <1>5. ProcOK(r, dir', inode')
    BY <1>4 DEF ProcOK, IsRec, Untouched, Working
  <1> QED BY <1>1, <1>3, <1>4, <1>5, Aside

(* The record of a process that begins. *)
LEMMA Begun ==
    ASSUME NEW p \in Procs, NEW op, NEW name, NEW val, NEW data, Begin(p, op, name, val, data)
    PROVE  /\ dir' = dir /\ inode' = inode /\ acked' = acked /\ flaw' = flaw
           /\ proc[p].at \in {"idle", "ok", "failed", "raised"}
           /\ \E r : /\ proc' = [proc EXCEPT ![p] = r] /\ IsRec(r)
                     /\ r.at = IF op = "append" THEN "r+" ELSE "open"
                     /\ r.op = op /\ r.name = name /\ r.val = val /\ r.data = data /\ r.ino = 0 /\ r.n = 0
  <1> PICK where : where = IF op = "append" THEN "r+" ELSE "open"
    OBVIOUS
  <1> DEFINE r == [Resting EXCEPT !.at = where, !.op = op, !.name = name, !.val = val, !.data = data]
  <1>1. /\ proc' = [proc EXCEPT ![p] = r] /\ dir' = dir /\ inode' = inode /\ acked' = acked /\ flaw' = flaw
        /\ proc[p].at \in {"idle", "ok", "failed", "raised"}
    BY DEF Begin
  <1>0. PICK no : Resting = [at |-> "idle", op |-> "none", name |-> "dat", data |-> <<>>, val |-> Empty,
                             ino |-> 0, pos |-> 0, n |-> 0, retry |-> no]
    BY RestingShape
  <1>2. r = [at |-> where, op |-> op, name |-> name, data |-> data, val |-> val,
             ino |-> 0, pos |-> 0, n |-> 0, retry |-> no]
    <2> DEFINE r1 == [Resting EXCEPT !.at = where]
               r2 == [r1 EXCEPT !.op = op]
               r3 == [r2 EXCEPT !.name = name]
               r4 == [r3 EXCEPT !.val = val]
    <2>1. r = [r4 EXCEPT !.data = data]
      OBVIOUS
    <2>2. r1 = [at |-> where, op |-> "none", name |-> "dat", data |-> <<>>, val |-> Empty,
                ino |-> 0, pos |-> 0, n |-> 0, retry |-> no]
      BY <1>0
    <2> HIDE DEF r1
    <2>3. r2 = [at |-> where, op |-> op, name |-> "dat", data |-> <<>>, val |-> Empty,
                ino |-> 0, pos |-> 0, n |-> 0, retry |-> no]
      BY <2>2
    <2> HIDE DEF r2
    <2>4. r3 = [at |-> where, op |-> op, name |-> name, data |-> <<>>, val |-> Empty,
                ino |-> 0, pos |-> 0, n |-> 0, retry |-> no]
      BY <2>3
    <2> HIDE DEF r3
    <2>5. r4 = [at |-> where, op |-> op, name |-> name, data |-> <<>>, val |-> val,
                ino |-> 0, pos |-> 0, n |-> 0, retry |-> no]
      BY <2>4
    <2> HIDE DEF r4
    <2> HIDE DEF r
    <2> QED BY <2>1, <2>5
  <1> HIDE DEF r
  <1>3. /\ r = [at |-> r.at, op |-> r.op, name |-> r.name, data |-> r.data, val |-> r.val,
                ino |-> r.ino, pos |-> r.pos, n |-> r.n, retry |-> r.retry]
        /\ r.at = IF op = "append" THEN "r+" ELSE "open"
        /\ r.op = op /\ r.name = name /\ r.val = val /\ r.data = data /\ r.ino = 0 /\ r.n = 0
    BY <1>2
  <1> QED BY <1>1, <1>3 DEF IsRec

(* store, list_append and list_store begin. *)
LEMMA BeginKeeps ==
    ASSUME TablesOK, NEW p \in Procs, NEW op, NEW name, NEW val, NEW data,
           Begin(p, op, name, val, data),
           \/ name = "list"
           \/ name = "dat" /\ op = "store" /\ val \in Tables /\ data = Pieces(val)
    PROVE  TablesOK'
  <1>1. dir' = dir /\ inode' = inode
    BY Begun
  <1>2. PICK r : /\ proc' = [proc EXCEPT ![p] = r] /\ IsRec(r)
                 /\ r.at = IF op = "append" THEN "r+" ELSE "open"
                 /\ r.op = op /\ r.name = name /\ r.val = val /\ r.data = data /\ r.ino = 0
    BY Begun
  <1>3. ProcOK(r, dir, inode) /\ ~Storing(r)
    BY <1>2 DEF ProcOK, Storing, Working
  <1> QED BY <1>1, <1>2, <1>3, Elsewhere

(* One more piece of a table. *)
LEMMA PiecesFacts ==
    ASSUME NEW v
    PROVE  /\ Prefix(v, 0) = <<>> /\ Prefix(v, 2) = Pieces(v) /\ Len(Pieces(v)) = 2
           /\ \A n \in {0, 1} : WriteAt(Prefix(v, n), n, Pieces(v)[n + 1]) = Prefix(v, n + 1)
  <1>1. Prefix(v, 0) = <<>> /\ Prefix(v, 2) = Pieces(v) /\ Len(Pieces(v)) = 2
    BY DEF Prefix, Pieces
  <1>2. ASSUME NEW n \in {0, 1}
        PROVE  WriteAt(Prefix(v, n), n, Pieces(v)[n + 1]) = Prefix(v, n + 1)
    <2>1. Len(Prefix(v, n)) = n
      BY DEF Prefix
    <2>2. Pieces(v)[n + 1] = <<v, n + 1>>
      BY DEF Pieces
    <2>3. \A k \in 1..n : Prefix(v, n)[k] = <<v, k>>
      BY DEF Prefix
    <2> QED BY <2>1, <2>2, <2>3 DEF WriteAt, Prefix
  <1> QED BY <1>1, <1>2

(* A process that stores has the scratch file to itself. *)
LEMMA Alone ==
    ASSUME TablesOK, NEW p \in Procs, Storing(proc[p])
    PROVE  \A q \in Procs \ {p} : ~Storing(proc[q])
  BY DEF TablesOK

(* A piece is written, or there is none left. *)
LEMMA WriteScratchKeeps ==
    ASSUME TablesOK, NEW p \in Procs, WriteScratch(p)
    PROVE  TablesOK'
  <1>1. ProcOK(proc[p], dir, inode) /\ DirOK(dir) /\ inode = [k \in Inodes |-> inode[k]]
    BY DEF TablesOK
  <1>2. proc[p].at = "write" /\ dir' = dir
    BY DEF WriteScratch
  <1>3. CASE proc[p].n = Len(proc[p].data)
    <2> DEFINE r == [proc[p] EXCEPT !.at = "close"]
    <2>1. proc' = [proc EXCEPT ![p] = r] /\ inode' = inode
      BY <1>3 DEF WriteScratch, Go
    <2>2. ProcOK(r, dir, inode) /\ (Storing(r) => Storing(proc[p]))
      <3>1. CASE proc[p].name = "list"
        BY <1>1, <1>2, <3>1 DEF ProcOK, IsRec, Storing, Working
      <3>2. CASE proc[p].name = "dat"
        <4>1. /\ proc[p].data = Pieces(proc[p].val) /\ proc[p].n = 2
              /\ inode[dir["dat~"]] = Pieces(proc[p].val)
          <5>1. proc[p].data = Pieces(proc[p].val)
            BY <1>1, <1>2, <3>2 DEF ProcOK, IsRec, Working
          <5>2. proc[p].n = 2
            BY <1>3, <5>1, PiecesFacts
          <5> QED BY <1>1, <1>2, <3>2, <5>1, <5>2, PiecesFacts DEF ProcOK, IsRec
        <4> QED BY <1>1, <1>2, <3>2, <4>1 DEF ProcOK, IsRec, Storing, Working
      <3> QED BY <1>1, <3>1, <3>2 DEF ProcOK, IsRec
    <2> HIDE DEF r
    <2> QED BY <1>2, <2>1, <2>2, Elsewhere
  <1>4. CASE proc[p].n # Len(proc[p].data)
    <2> DEFINE r == [proc[p] EXCEPT !.n = @ + 1]
               new == WriteAt(inode[proc[p].ino], proc[p].n, proc[p].data[proc[p].n + 1])
    <2>1. proc' = [proc EXCEPT ![p] = r] /\ inode' = [inode EXCEPT ![proc[p].ino] = new]
      BY <1>4 DEF WriteScratch
    <2>2. CASE proc[p].name = "list"
      <3>1. ProcOK(r, dir, inode) /\ ~Storing(r)
        BY <1>1, <1>2, <2>2 DEF ProcOK, IsRec, Storing, Working
      <3> HIDE DEF r, new
      <3> QED BY <1>2, <2>1, <2>2, <3>1, Elsewhere
    <2>3. CASE proc[p].name = "dat"
      <3>1. /\ proc[p].ino = dir["dat~"] /\ dir["dat~"] \in Inodes
            /\ inode[dir["dat~"]] = Prefix(proc[p].val, proc[p].n) /\ proc[p].n \in 0..2
            /\ proc[p].data = Pieces(proc[p].val) /\ proc[p].val \in Tables /\ proc[p].op = "store"
        BY <1>1, <1>2, <2>3 DEF ProcOK, IsRec, DirOK, Names, Working
      <3>2. proc[p].n \in {0, 1}
        <4>1. proc[p].n # 2
          BY <1>4, <3>1, PiecesFacts
        <4> QED BY <3>1, <4>1
      <3>3. new = Prefix(proc[p].val, proc[p].n + 1)
        BY <3>1, <3>2, PiecesFacts
      <3> HIDE DEF new
      <3>4. inode'[dir["dat~"]] = Prefix(proc[p].val, proc[p].n + 1)
        BY <1>1, <2>1, <3>1, <3>3
      <3>5. ProcOK(r, dir', inode')
        BY <1>1, <1>2, <2>3, <3>1, <3>2, <3>4 DEF ProcOK, IsRec, Working
      <3>6. inode' = [k \in Inodes |-> inode'[k]]
        BY <1>1, <2>1
      <3>7. dir'["dat"] # 0 => \E v \in Tables : inode'[dir'["dat"]] = Pieces(v)
        <4>1. dir["dat"] # 0 => dir["dat"] # dir["dat~"] /\ dir["dat"] \in Inodes
          BY <1>1 DEF DirOK, Names
        <4> QED BY <1>1, <1>2, <2>1, <3>1, <4>1 DEF TablesOK
      <3>8. \A q \in Procs \ {p} : ~Storing(proc[q])
        BY <1>2, <2>3, Alone DEF Storing, Working
      <3>9. \A q \in Procs : proc[q].name = "list" =>
                /\ dir'["dat"] # 0 => proc[q].ino # dir'["dat"]
                /\ dir'["dat~"] # 0 => proc[q].ino # dir'["dat~"]
        BY <1>2 DEF TablesOK, ProcOK, IsRec
      <3> HIDE DEF r
      <3> QED BY <1>1, <1>2, <2>1, <3>5, <3>6, <3>7, <3>8, <3>9, Own
    <2> QED BY <1>1, <2>2, <2>3 DEF ProcOK, IsRec
  <1> QED BY <1>3, <1>4

(* Setting a field leaves the others. *)
SameBut(r, s, fields) ==
    /\ "at" \in fields \/ s.at = r.at
    /\ "op" \in fields \/ s.op = r.op
    /\ "name" \in fields \/ s.name = r.name
    /\ "data" \in fields \/ s.data = r.data
    /\ "val" \in fields \/ s.val = r.val
    /\ "ino" \in fields \/ s.ino = r.ino
    /\ "pos" \in fields \/ s.pos = r.pos
    /\ "n" \in fields \/ s.n = r.n
    /\ "retry" \in fields \/ s.retry = r.retry

(* The field "at" is set. *)
LEMMA SetAt ==
    ASSUME NEW r, IsRec(r), NEW x, NEW s, s = [r EXCEPT !.at = x]
    PROVE  IsRec(s) /\ s.at = x /\ SameBut(r, s, {"at"})
  <1>1. s = [at |-> x, op |-> r.op, name |-> r.name, data |-> r.data, val |-> r.val, ino |-> r.ino, pos |-> r.pos, n |-> r.n, retry |-> r.retry]
    BY DEF IsRec
  <1> QED BY <1>1 DEF IsRec, SameBut

(* The field "ino" is set. *)
LEMMA SetIno ==
    ASSUME NEW r, IsRec(r), NEW x, NEW s, s = [r EXCEPT !.ino = x]
    PROVE  IsRec(s) /\ s.ino = x /\ SameBut(r, s, {"ino"})
  <1>1. s = [at |-> r.at, op |-> r.op, name |-> r.name, data |-> r.data, val |-> r.val, ino |-> x, pos |-> r.pos, n |-> r.n, retry |-> r.retry]
    BY DEF IsRec
  <1> QED BY <1>1 DEF IsRec, SameBut

(* The field "n" is set. *)
LEMMA SetN ==
    ASSUME NEW r, IsRec(r), NEW x, NEW s, s = [r EXCEPT !.n = x]
    PROVE  IsRec(s) /\ s.n = x /\ SameBut(r, s, {"n"})
  <1>1. s = [at |-> r.at, op |-> r.op, name |-> r.name, data |-> r.data, val |-> r.val, ino |-> r.ino, pos |-> r.pos, n |-> x, retry |-> r.retry]
    BY DEF IsRec
  <1> QED BY <1>1 DEF IsRec, SameBut

(* The field "pos" is set. *)
LEMMA SetPos ==
    ASSUME NEW r, IsRec(r), NEW x, NEW s, s = [r EXCEPT !.pos = x]
    PROVE  IsRec(s) /\ s.pos = x /\ SameBut(r, s, {"pos"})
  <1>1. s = [at |-> r.at, op |-> r.op, name |-> r.name, data |-> r.data, val |-> r.val, ino |-> r.ino, pos |-> x, n |-> r.n, retry |-> r.retry]
    BY DEF IsRec
  <1> QED BY <1>1 DEF IsRec, SameBut

(* The field "retry" is set. *)
LEMMA SetRetry ==
    ASSUME NEW r, IsRec(r), NEW x, NEW s, s = [r EXCEPT !.retry = x]
    PROVE  IsRec(s) /\ s.retry = x /\ SameBut(r, s, {"retry"})
  <1>1. s = [at |-> r.at, op |-> r.op, name |-> r.name, data |-> r.data, val |-> r.val, ino |-> r.ino, pos |-> r.pos, n |-> r.n, retry |-> x]
    BY DEF IsRec
  <1> QED BY <1>1 DEF IsRec, SameBut

(* Only the place of p changes. *)
LEMMA GoKeeps ==
    ASSUME TablesOK, NEW p \in Procs, NEW step, Go(p, step), dir' = dir,
           \/ inode' = inode
           \/ \E x : inode' = [inode EXCEPT ![proc[p].ino] = x] /\ proc[p].name = "list",
           step \in {"fwrite", "truncate", "fclose"} \/ (step = "open" /\ proc[p].ino = 0),
           proc[p].name = "list"
    PROVE  TablesOK'
  <1>1. PICK r : r = [proc[p] EXCEPT !.at = step]
    OBVIOUS
  <1>2. proc' = [proc EXCEPT ![p] = r]
    BY <1>1 DEF Go
  <1>3. ProcOK(proc[p], dir, inode)
    BY DEF TablesOK
  <1>4. IsRec(proc[p])
    BY <1>3 DEF IsRec, ProcOK
  <1>5. IsRec(r) /\ r.at = step /\ SameBut(proc[p], r, {"at"})
    BY <1>1, <1>4, SetAt
  <1>6. ProcOK(r, dir, inode) /\ ~Storing(r)
    BY <1>3, <1>5 DEF ProcOK, IsRec, SameBut, Storing
  <1> QED BY <1>2, <1>6, Elsewhere

(* p returns without a change of the table's files. *)
LEMMA ReturnKeeps ==
    ASSUME TablesOK, NEW p \in Procs, NEW result \in {"idle", "ok", "failed", "raised"},
           Return(p, result), dir' = dir,
           \/ inode' = inode
           \/ \E x : inode' = [inode EXCEPT ![proc[p].ino] = x] /\ proc[p].name = "list"
    PROVE  TablesOK'
  <1>1. PICK r : r = [Resting EXCEPT !.at = result]
    OBVIOUS
  <1>2. proc' = [proc EXCEPT ![p] = r]
    BY <1>1 DEF Return
  <1>3. ProcOK(r, dir, inode) /\ ~Storing(r)
    BY <1>1, ReturnedOK
  <1> QED BY <1>2, <1>3, Elsewhere

(* Appending to the list. *)
LEMMA AppendKeeps ==
    ASSUME TablesOK, NEW p \in Procs,
           OpenList(p) \/ Fallocate(p) \/ Fwrite(p) \/ Truncate(p) \/ CloseList(p)
    PROVE  TablesOK'
  <1>1. ProcOK(proc[p], dir, inode) /\ DirOK(dir)
    BY DEF TablesOK
  <1>2. IsRec(proc[p])
    BY <1>1 DEF IsRec, ProcOK
  <1>3. proc[p].name = "list"
    BY <1>1 DEF OpenList, Fallocate, Fwrite, Truncate, CloseList, ProcOK, IsRec
  <1>4. ASSUME OpenList(p) PROVE TablesOK'
    <2>1. CASE Go(p, "open")
      <3>1. proc[p].ino = 0
        BY <1>1, <1>4 DEF OpenList, ProcOK, IsRec
      <3> QED BY <1>3, <1>4, <2>1, <3>1, GoKeeps DEF OpenList
    <2>2. CASE dir["list"] # 0 /\ proc' = [proc EXCEPT ![p].at = "alloc", ![p].ino = dir["list"],
                                           ![p].pos = Len(inode[dir["list"]])]
      <3>1. PICK ino, pos : ino = dir["list"] /\ pos = Len(inode[dir["list"]])
        OBVIOUS
      <3>2. PICK s1, s2, r : /\ s1 = [proc[p] EXCEPT !.at = "alloc"] /\ s2 = [s1 EXCEPT !.ino = ino]
                             /\ r = [s2 EXCEPT !.pos = pos]
        OBVIOUS
      <3>3. proc' = [proc EXCEPT ![p] = r]
        BY <2>2, <3>1, <3>2 DEF TablesOK
      <3>4. IsRec(r) /\ r.at = "alloc" /\ r.ino = dir["list"] /\ SameBut(proc[p], r, {"at", "ino", "pos"})
        <4>1. IsRec(s1) /\ s1.at = "alloc" /\ SameBut(proc[p], s1, {"at"})
          BY <1>2, <3>2, SetAt
        <4>2. IsRec(s2) /\ s2.ino = ino /\ SameBut(s1, s2, {"ino"})
          BY <3>2, <4>1, SetIno
        <4>3. IsRec(r) /\ SameBut(s2, r, {"pos"})
          BY <3>2, <4>2, SetPos
        <4> QED BY ONLY <3>1, <4>1, <4>2, <4>3 DEF SameBut
      <3>5. dir["list"] # dir["dat"] /\ dir["list"] # dir["dat~"]
        BY <1>1, <2>2 DEF DirOK, Names
      <3>6. ProcOK(r, dir, inode) /\ ~Storing(r)
        BY <1>1, <1>3, <3>4, <3>5 DEF ProcOK, IsRec, SameBut, Storing
      <3> QED BY <1>4, <3>3, <3>6, Elsewhere DEF OpenList
    <2> QED BY <1>4, <2>1, <2>2 DEF OpenList
  <1>5. ASSUME Fallocate(p) PROVE TablesOK'
    BY <1>3, <1>5, GoKeeps, ReturnKeeps DEF Fallocate
  <1>6. ASSUME Fwrite(p) PROVE TablesOK'
    <2>1. CASE Go(p, "fclose") \/ Go(p, "truncate")
      BY <1>3, <1>6, <2>1, GoKeeps DEF Fwrite
    <2>2. CASE proc' = [proc EXCEPT ![p].n = @ + 1]
      <3>1. PICK r : r = [proc[p] EXCEPT !.n = @ + 1]
        OBVIOUS
      <3>2. proc' = [proc EXCEPT ![p] = r]
        BY <2>2, <3>1
      <3>3. IsRec(r) /\ SameBut(proc[p], r, {"n"})
        BY <1>2, <3>1, SetN
      <3>4. ProcOK(r, dir, inode) /\ ~Storing(r)
        BY <1>1, <1>3, <3>3 DEF ProcOK, IsRec, SameBut, Storing
      <3> QED BY <1>3, <1>6, <3>2, <3>4, Elsewhere DEF Fwrite
    <2> QED BY <1>6, <2>1, <2>2 DEF Fwrite
  <1>7. ASSUME Truncate(p) PROVE TablesOK'
    BY <1>3, <1>7, ReturnKeeps DEF Truncate
  <1>8. ASSUME CloseList(p) PROVE TablesOK'
    BY <1>8, ReturnKeeps DEF CloseList
  <1> QED BY <1>4, <1>5, <1>6, <1>7, <1>8

(* The scratch file is closed. *)
LEMMA CloseScratchKeeps ==
    ASSUME TablesOK, NEW p \in Procs, CloseScratch(p)
    PROVE  TablesOK'
  <1>1. ProcOK(proc[p], dir, inode)
    BY DEF TablesOK
  <1>2. IsRec(proc[p])
    BY <1>1 DEF IsRec, ProcOK
  <1>3. PICK s1, r : s1 = [proc[p] EXCEPT !.at = "rename"] /\ r = [s1 EXCEPT !.ino = 0]
    OBVIOUS
  <1>4. /\ proc' = [proc EXCEPT ![p] = r] /\ dir' = dir /\ inode' = inode /\ proc[p].at = "close"
    BY <1>3 DEF CloseScratch, TablesOK
  <1>5. IsRec(s1) /\ s1.at = "rename" /\ SameBut(proc[p], s1, {"at"})
    BY <1>2, <1>3, SetAt
  <1>6. IsRec(r) /\ r.ino = 0 /\ SameBut(s1, r, {"ino"})
    BY <1>3, <1>5, SetIno
  <1>7. r.at = "rename" /\ SameBut(proc[p], r, {"at", "ino"})
    BY ONLY <1>5, <1>6 DEF SameBut
  <1>8. ProcOK(r, dir, inode) /\ (Storing(r) => Storing(proc[p]))
    BY <1>1, <1>4, <1>6, <1>7 DEF ProcOK, IsRec, SameBut, Storing, Working
  <1> QED BY <1>4, <1>8, Elsewhere

(* The scratch file is created or emptied. *)
LEMMA ScratchOpened ==
    ASSUME NEW p \in Procs, DirOK(dir), inode = [k \in Inodes |-> inode[k]],
           proc = [q \in Procs |-> proc[q]], IsRec(proc[p]), proc[p].name \in {"dat", "list"},
           proc[p].ino = 0, OpenScratch(p)
    PROVE  \E s, ino, r :
              /\ s = (IF proc[p].name = "dat" THEN "dat~" ELSE "list~") /\ s = Scratch(proc[p].name)
              /\ ino \in Inodes /\ ino # 0 /\ \A m \in Names \ {s} : ino # dir[m]
              /\ ino = dir[s] \/ \A q \in Procs : ino # proc[q].ino
              /\ DirOK(dir') /\ dir'[s] = ino /\ \A m \in Names \ {s} : dir'[m] = dir[m]
              /\ inode' = [k \in Inodes |-> inode'[k]] /\ inode'[ino] = <<>>
              /\ \A k \in Inodes \ {ino} : inode'[k] = inode[k]
              /\ proc' = [proc EXCEPT ![p] = r]
              /\ IsRec(r) /\ r.at = "write" /\ r.ino = ino /\ r.n = 0
              /\ SameBut(proc[p], r, {"at", "ino", "n", "pos"})
  <1> DEFINE s == Scratch(proc[p].name)
             ino == IF dir[s] = 0 THEN FreeInode ELSE dir[s]
  <1>1. /\ proc[p].at = "open" /\ dir' = [dir EXCEPT ![s] = ino] /\ inode' = [inode EXCEPT ![ino] = <<>>]
        /\ proc' = [proc EXCEPT ![p].at = "write", ![p].ino = ino, ![p].n = 0, ![p].pos = 0]
    BY DEF OpenScratch
  <1>2. s \in Names
    BY DEF Scratch, Names
  <1>3. /\ ino \in Inodes
        /\ \A m \in Names \ {s} : ino # dir[m]
        /\ ino = dir[s] \/ \A q \in Procs : ino # proc[q].ino
    <2>1. CASE dir[s] = 0
      BY <1>2, <2>1, InodeIsFree
    <2>2. CASE dir[s] # 0
      BY <1>2, <2>2 DEF DirOK
    <2> QED BY <2>1, <2>2
  <1>4. s = IF proc[p].name = "dat" THEN "dat~" ELSE "list~"
    BY DEF Scratch
  <1> HIDE DEF s, ino
  <1>5. 0 \notin Inodes
    BY DEF Inodes
  <1>6. DirOK(dir') /\ dir'[s] = ino /\ \A m \in Names \ {s} : dir'[m] = dir[m]
    BY <1>1, <1>2, <1>3, <1>5 DEF DirOK
  <1>7. /\ inode' = [k \in Inodes |-> inode'[k]] /\ inode'[ino] = <<>>
        /\ \A k \in Inodes \ {ino} : inode'[k] = inode[k]
    BY <1>1, <1>3
  <1>8. PICK s1, s2, s3, r : /\ s1 = [proc[p] EXCEPT !.at = "write"] /\ s2 = [s1 EXCEPT !.ino = ino]
                              /\ s3 = [s2 EXCEPT !.n = 0] /\ r = [s3 EXCEPT !.pos = 0]
    OBVIOUS
  <1>9. proc' = [proc EXCEPT ![p] = r]
    BY <1>1, <1>8
  <1>10. IsRec(r) /\ r.at = "write" /\ r.ino = ino /\ r.n = 0 /\ SameBut(proc[p], r, {"at", "ino", "n", "pos"})
    <2>1. IsRec(s1) /\ s1.at = "write" /\ SameBut(proc[p], s1, {"at"})
      BY <1>8, SetAt
    <2>2. IsRec(s2) /\ s2.ino = ino /\ SameBut(s1, s2, {"ino"})
      BY ONLY <1>8, <2>1, SetIno
    <2>3. IsRec(s3) /\ s3.n = 0 /\ SameBut(s2, s3, {"n"})
      BY ONLY <1>8, <2>2, SetN
    <2>4. IsRec(r) /\ SameBut(s3, r, {"pos"})
      BY ONLY <1>8, <2>3, SetPos
    <2> QED BY ONLY <2>1, <2>2, <2>3, <2>4 DEF SameBut
  <1> QED BY <1>3, <1>4, <1>5, <1>6, <1>7, <1>9, <1>10 DEF s

(* Unless another process was at work on it, the table is as sound as       *)
(* before.                                                                  *)
LEMMA OpenScratchKeeps ==
    ASSUME TablesOK, NEW p \in Procs, OpenScratch(p), "shared" \notin flaw'
    PROVE  TablesOK'
  <1>1. ProcOK(proc[p], dir, inode) /\ DirOK(dir) /\ inode = [k \in Inodes |-> inode[k]]
        /\ proc = [q \in Procs |-> proc[q]]
    BY DEF TablesOK
  <1>2. IsRec(proc[p]) /\ proc[p].name \in {"dat", "list"} /\ proc[p].at = "open" /\ proc[p].ino = 0
    BY <1>1 DEF IsRec, ProcOK, OpenScratch
  <1>3. ~\E q \in Procs \ {p} : proc[q].at \in Working /\ Scratch(proc[q].name) = Scratch(proc[p].name)
    BY DEF OpenScratch, Working
  <1>4. PICK s, ino, r :
              /\ s = (IF proc[p].name = "dat" THEN "dat~" ELSE "list~") /\ s = Scratch(proc[p].name)
              /\ ino \in Inodes /\ ino # 0 /\ \A m \in Names \ {s} : ino # dir[m]
              /\ ino = dir[s] \/ \A q \in Procs : ino # proc[q].ino
              /\ DirOK(dir') /\ dir'[s] = ino /\ \A m \in Names \ {s} : dir'[m] = dir[m]
              /\ inode' = [k \in Inodes |-> inode'[k]] /\ inode'[ino] = <<>>
              /\ \A k \in Inodes \ {ino} : inode'[k] = inode[k]
              /\ proc' = [proc EXCEPT ![p] = r]
              /\ IsRec(r) /\ r.at = "write" /\ r.ino = ino /\ r.n = 0
              /\ SameBut(proc[p], r, {"at", "ino", "n", "pos"})
    BY <1>1, <1>2, ScratchOpened
  <1>5. CASE proc[p].name = "list"
    <2>1. s = "list~" /\ dir'["dat"] = dir["dat"] /\ dir'["dat~"] = dir["dat~"]
      BY <1>4, <1>5 DEF Names
    <2>2. ino # dir["dat"] /\ ino # dir["dat~"]
      BY <1>4, <2>1 DEF Names
    <2>3. dir["dat"] \in {0} \cup Inodes /\ dir["dat~"] \in {0} \cup Inodes
      BY <1>1 DEF DirOK, Names
    <2>4. Untouched(dir, inode, dir', inode')
      BY <1>4, <2>1, <2>2, <2>3 DEF Untouched
    <2>5. ProcOK(r, dir', inode') /\ ~Storing(r)
      BY <1>4, <1>5, <2>1, <2>2 DEF ProcOK, IsRec, SameBut, Storing
    <2> QED BY <1>4, <2>4, <2>5, Aside
  <1>6. CASE proc[p].name = "dat"
    <2>1. s = "dat~" /\ dir'["dat"] = dir["dat"] /\ dir'["dat~"] = ino /\ ino # dir["dat"]
      BY <1>4, <1>6 DEF Names
    <2>2. proc[p].op = "store" /\ proc[p].val \in Tables /\ proc[p].data = Pieces(proc[p].val)
      BY ONLY <1>1, <1>2, <1>6 DEF ProcOK, IsRec
    <2>3. inode'[ino] = Prefix(r.val, 0)
      BY <1>4, PiecesFacts
    <2>4. ino # 0
      BY <1>4
    <2>5. ProcOK(r, dir', inode')
      BY <1>4, <1>6, <2>1, <2>2, <2>3, <2>4 DEF ProcOK, IsRec, SameBut
    <2>6. \A q \in Procs \ {p} : ~Storing(proc[q])
      BY ONLY <1>3, <1>6 DEF Storing, Scratch
    <2>7. dir'["dat"] # 0 => \E v \in Tables : inode'[dir'["dat"]] = Pieces(v)
      <3>1. dir["dat"] # 0 => dir["dat"] \in Inodes \ {ino}
        BY <1>1, <2>1 DEF DirOK, Names
      <3> QED BY <1>4, <2>1, <3>1 DEF TablesOK
    <2>8. \A q \in Procs : proc[q].name = "list" =>
                /\ dir'["dat"] # 0 => proc[q].ino # dir'["dat"]
                /\ dir'["dat~"] # 0 => proc[q].ino # dir'["dat~"]
      BY <1>4, <2>1, <2>4 DEF TablesOK, ProcOK, IsRec
    <2> QED BY <1>4, <2>5, <2>6, <2>7, <2>8, Own
  <1> QED BY <1>2, <1>5, <1>6

(* What follows atomic_store: the names become e, which may lack the file   *)
(* itself, and p starts over or returns.                                    *)
Ending(p, d, e) ==
    /\ e = d \/ e = [d EXCEPT ![proc[p].name] = 0]
    /\ Link(p, e)
    /\ \/ /\ proc[p].op = "store"
          /\ proc' = [proc EXCEPT ![p].at = "open", ![p].retry = TRUE, ![p].ino = 0]
       \/ Return(p, "ok") \/ Return(p, "failed")

(* A list of nothing has no file. *)
Emptied(p, d, e) == e = IF proc[p].data = <<>> THEN [d EXCEPT ![proc[p].name] = 0] ELSE d

(* Both ways to end are of this form. *)
LEMMA ScratchFailsEnds ==
    ASSUME NEW p \in Procs, ScratchFails(p)
    PROVE  \E d, e : /\ d = IF proc[p].at = "open" THEN dir
                            ELSE [dir EXCEPT ![Scratch(proc[p].name)] = 0]
                     /\ Ending(p, d, e) /\ (proc[p].op # "store" => e = d)
  <1> DEFINE d == IF proc[p].at = "open" THEN dir ELSE [dir EXCEPT ![Scratch(proc[p].name)] = 0]
  <1>1. Finish(p, FALSE, d)
    BY DEF ScratchFails
  <1> HIDE DEF d
  <1>2. \E e : Ending(p, d, e) /\ (proc[p].op # "store" => e = d)
    BY <1>1 DEF Finish, Ending
  <1> QED BY <1>2 DEF d

(* The other one. *)
LEMMA RenameEnds ==
    ASSUME NEW p \in Procs, Rename(p), NEW s, s = Scratch(proc[p].name), NEW d,
           d = IF dir[s] # 0 THEN [dir EXCEPT ![proc[p].name] = dir[s], ![s] = 0] ELSE dir
    PROVE  \E e : Ending(p, d, e) /\ (proc[p].op # "store" /\ dir[s] # 0 => Emptied(p, d, e))
  <1>1. Finish(p, dir[s] # 0, d)
    BY DEF Rename
  <1> QED BY ONLY <1>1 DEF Finish, Ending, Emptied

(* An ending leaves nothing of p behind. *)
LEMMA EndingFacts ==
    ASSUME TablesOK, NEW p \in Procs, proc[p].at \in {"open"} \cup Working,
           NEW d, DirOK(d), NEW e, Ending(p, d, e)
    PROVE  /\ \E r : /\ proc' = [proc EXCEPT ![p] = r] /\ ~Storing(r)
                     /\ \A f, i : ProcOK(r, f, i)
           /\ dir' = e /\ DirOK(e) /\ inode' = [k \in Inodes |-> inode'[k]]
           /\ \A m \in Names : e[m] # 0 => inode'[e[m]] = inode[e[m]] /\ e[m] \in Inodes
           /\ \A m \in Names : e[m] = d[m] \/ (m = proc[p].name /\ e[m] = 0)
  <1>1. ProcOK(proc[p], dir, inode)
    BY DEF TablesOK
  <1>2. IsRec(proc[p]) /\ proc[p].name \in {"dat", "list"}
    BY <1>1 DEF IsRec, ProcOK
  <1>3. DirOK(e) /\ \A m \in Names : e[m] = d[m] \/ (m = proc[p].name /\ e[m] = 0)
    BY <1>2 DEF Ending, DirOK, Names
  <1>4. dir' = e /\ inode' = [k \in Inodes |-> inode'[k]]
    BY DEF Ending, Link
  <1>5. ASSUME NEW m \in Names, e[m] # 0
        PROVE  inode'[e[m]] = inode[e[m]] /\ e[m] \in Inodes
    <2>1. e[m] \in Inodes
      BY <1>3, <1>5 DEF DirOK
    <2>2. inode' = [k \in Inodes |->
            IF (\E n \in Names : e[n] = k) \/ \E q \in Procs \ {p} : proc[q].ino = k
            THEN inode[k] ELSE <<>>]
      BY DEF Ending, Link
    <2> QED BY <2>1, <2>2
  <1>6. \E r : /\ proc' = [proc EXCEPT ![p] = r] /\ ~Storing(r)
               /\ \A f, i : ProcOK(r, f, i)
    <2>1. ASSUME NEW result \in {"ok", "failed"}, Return(p, result)
          PROVE  \E r : /\ proc' = [proc EXCEPT ![p] = r] /\ ~Storing(r)
                        /\ \A f, i : ProcOK(r, f, i)
      <3>1. PICK r : r = [Resting EXCEPT !.at = result]
        OBVIOUS
      <3>2. proc' = [proc EXCEPT ![p] = r]
        BY <2>1, <3>1 DEF Return
      <3>3. ~Storing(r) /\ \A f, i : ProcOK(r, f, i)
        BY <3>1, ReturnedOK
      <3> QED BY <3>2, <3>3
    <2>2. CASE proc' = [proc EXCEPT ![p].at = "open", ![p].retry = TRUE, ![p].ino = 0]
      <3>1. PICK yes : yes = TRUE
        OBVIOUS
      <3>2. PICK s1, s2, r : /\ s1 = [proc[p] EXCEPT !.at = "open"] /\ s2 = [s1 EXCEPT !.retry = yes]
                             /\ r = [s2 EXCEPT !.ino = 0]
        OBVIOUS
      <3>3. proc' = [proc EXCEPT ![p] = r]
        BY <2>2, <3>1, <3>2 DEF TablesOK
      <3>4. IsRec(s1) /\ s1.at = "open" /\ SameBut(proc[p], s1, {"at"})
        BY <1>2, <3>2, SetAt
      <3>5. IsRec(s2) /\ SameBut(s1, s2, {"retry"})
        BY <3>2, <3>4, SetRetry
      <3>6. IsRec(r) /\ r.ino = 0 /\ SameBut(s2, r, {"ino"})
        BY <3>2, <3>5, SetIno
      <3>7. r.at = "open" /\ SameBut(proc[p], r, {"at", "retry", "ino"})
        BY ONLY <3>4, <3>5, <3>6 DEF SameBut
      <3>8. proc[p].name = "dat" => proc[p].op = "store" /\ proc[p].val \in Tables
                                    /\ proc[p].data = Pieces(proc[p].val)
        BY <1>1 DEF ProcOK, IsRec
      <3>9. ASSUME NEW f, NEW i PROVE ProcOK(r, f, i)
        BY <1>2, <3>6, <3>7, <3>8 DEF ProcOK, IsRec, SameBut, Working
      <3>10. ~Storing(r)
        BY <3>7 DEF Storing, Working
      <3> QED BY <3>3, <3>9, <3>10
    <2> QED BY <2>1, <2>2 DEF Ending
  <1> QED BY <1>3, <1>4, <1>5, <1>6

(* The end of a process that stored the list, or had not begun to write. *)
LEMMA EndAside ==
    ASSUME TablesOK, NEW p \in Procs, proc[p].at \in {"open"} \cup Working,
           NEW d, DirOK(d), NEW e, Ending(p, d, e),
           d["dat"] = dir["dat"], d["dat~"] = dir["dat~"]
    PROVE  TablesOK'
  <1>1. PICK r : /\ proc' = [proc EXCEPT ![p] = r] /\ ~Storing(r)
                 /\ \A f, i : ProcOK(r, f, i)
    BY EndingFacts
  <1>2. dir' = e /\ DirOK(e) /\ inode' = [k \in Inodes |-> inode'[k]]
    BY EndingFacts
  <1>3. /\ \A m \in Names : e[m] # 0 => inode'[e[m]] = inode[e[m]]
        /\ \A m \in Names : e[m] = d[m] \/ (m = proc[p].name /\ e[m] = 0)
    BY EndingFacts
  <1>4. proc[p].name \in {"dat", "list"}
    BY DEF TablesOK, ProcOK, IsRec
  <1>5. Untouched(dir, inode, e, inode')
    BY <1>3, <1>4 DEF Untouched, Names
  <1> QED BY <1>1, <1>2, <1>5, Aside

(* The end of a process that had the scratch file of the table. *)
LEMMA EndOwn ==
    ASSUME TablesOK, NEW p \in Procs, Storing(proc[p]), NEW d, DirOK(d), NEW e, Ending(p, d, e),
           d["dat~"] = 0, d["dat"] \in {dir["dat"], dir["dat~"]},
           d["dat"] # 0 => \E v \in Tables : inode[d["dat"]] = Pieces(v)
    PROVE  TablesOK'
  <1>0. proc[p].at \in {"open"} \cup Working
    BY DEF Storing
  <1>1. PICK r : /\ proc' = [proc EXCEPT ![p] = r] /\ ~Storing(r)
                 /\ \A f, i : ProcOK(r, f, i)
    BY <1>0, EndingFacts
  <1>2. dir' = e /\ DirOK(e) /\ inode' = [k \in Inodes |-> inode'[k]]
    BY <1>0, EndingFacts
  <1>3. /\ \A m \in Names : e[m] # 0 => inode'[e[m]] = inode[e[m]]
        /\ \A m \in Names : e[m] = d[m] \/ (m = proc[p].name /\ e[m] = 0)
    BY <1>0, EndingFacts
  <1>4. e["dat~"] = 0 /\ e["dat"] \in {0, d["dat"]} /\ (e["dat"] # 0 => inode'[e["dat"]] = inode[e["dat"]])
    BY <1>3 DEF Names, Storing
  <1>5. e["dat"] # 0 => \E v \in Tables : inode'[e["dat"]] = Pieces(v)
    BY <1>4
  <1>6. \A q \in Procs \ {p} : ~Storing(proc[q])
    BY Alone
  <1>7. \A q \in Procs : proc[q].name = "list" =>
                /\ e["dat"] # 0 => proc[q].ino # e["dat"]
                /\ e["dat~"] # 0 => proc[q].ino # e["dat~"]
    BY <1>4 DEF TablesOK, ProcOK, IsRec
  <1> QED BY <1>1, <1>2, <1>5, <1>6, <1>7, Own

(* io_open, write or close fails. *)
LEMMA ScratchFailsKeeps ==
    ASSUME TablesOK, NEW p \in Procs, ScratchFails(p)
    PROVE  TablesOK'
  <1>1. ProcOK(proc[p], dir, inode) /\ DirOK(dir) /\ proc[p].name \in {"dat", "list"}
    BY DEF TablesOK, ProcOK, IsRec
  <1>2. proc[p].at \in {"open", "write", "close"}
    BY DEF ScratchFails
  <1>3. CASE proc[p].at = "open"
    <2>1. PICK e : Ending(p, dir, e)
      BY <1>3, ScratchFailsEnds
    <2> QED BY <1>1, <1>3, <2>1, EndAside
  <1>4. CASE proc[p].at \in {"write", "close"}
    <2> DEFINE d == [dir EXCEPT ![Scratch(proc[p].name)] = 0]
    <2>1. PICK e : Ending(p, d, e)
      BY <1>4, ScratchFailsEnds
    <2>2. DirOK(d) /\ proc[p].at \in Working
      BY <1>1, <1>4 DEF DirOK, Names, Scratch, Working
    <2>3. CASE proc[p].name = "list"
      <3>1. d["dat"] = dir["dat"] /\ d["dat~"] = dir["dat~"]
        BY <1>1, <2>3 DEF DirOK, Names, Scratch
      <3> HIDE DEF d
      <3> QED BY <2>1, <2>2, <3>1, EndAside
    <2>4. CASE proc[p].name = "dat"
      <3>1. d["dat"] = dir["dat"] /\ d["dat~"] = 0
        BY <1>1, <2>4 DEF DirOK, Names, Scratch
      <3>2. Storing(proc[p])
        BY <2>2, <2>4 DEF Storing
      <3>3. d["dat"] # 0 => \E v \in Tables : inode[d["dat"]] = Pieces(v)
        BY <3>1 DEF TablesOK
      <3> HIDE DEF d
      <3> QED BY <2>1, <2>2, <3>1, <3>2, <3>3, EndOwn
    <2> QED BY <1>1, <2>3, <2>4
  <1> QED BY <1>2, <1>3, <1>4

(* The scratch file becomes the file. *)
LEMMA RenameKeeps ==
    ASSUME TablesOK, NEW p \in Procs, Rename(p)
    PROVE  TablesOK'
  <1> DEFINE s == Scratch(proc[p].name)
             d == IF dir[s] # 0 THEN [dir EXCEPT ![proc[p].name] = dir[s], ![s] = 0] ELSE dir
  <1>1. ProcOK(proc[p], dir, inode) /\ DirOK(dir) /\ proc[p].name \in {"dat", "list"}
    BY DEF TablesOK, ProcOK, IsRec
  <1>2. proc[p].at = "rename" /\ proc[p].at \in Working
    BY DEF Rename, Working
  <1>3. PICK e : Ending(p, d, e)
    <2>1. PICK t, c : t = s /\ c = d
      OBVIOUS
    <2>2. t = Scratch(proc[p].name) /\ c = IF dir[t] # 0 THEN [dir EXCEPT ![proc[p].name] = dir[t], ![t] = 0] ELSE dir
      BY <2>1
    <2>3. \E e : Ending(p, c, e)
      BY ONLY <2>2, RenameEnds, p \in Procs, Rename(p)
    <2> QED BY <2>1, <2>3
  <1>4. CASE proc[p].name = "list"
    <2>1. s = "list~"
      BY <1>4 DEF Scratch
    <2> HIDE DEF s
    <2>2. DirOK(d) /\ d["dat"] = dir["dat"] /\ d["dat~"] = dir["dat~"]
      BY <1>1, <1>4, <2>1 DEF DirOK, Names
    <2> HIDE DEF d
    <2> QED BY <1>2, <1>3, <2>2, EndAside
  <1>5. CASE proc[p].name = "dat"
    <2>1. s = "dat~"
      BY <1>5 DEF Scratch
    <2> HIDE DEF s
    <2>2. dir["dat~"] # 0 /\ inode[dir["dat~"]] = Pieces(proc[p].val) /\ proc[p].val \in Tables
      BY <1>1, <1>2, <1>5 DEF ProcOK, IsRec
    <2>3. DirOK(d) /\ d["dat"] = dir["dat~"] /\ d["dat~"] = 0
      BY <1>1, <1>5, <2>1, <2>2 DEF DirOK, Names
    <2>4. Storing(proc[p])
      BY <1>2, <1>5 DEF Storing
    <2> HIDE DEF d
    <2> QED BY <1>3, <2>2, <2>3, <2>4, EndOwn
  <1> QED BY <1>1, <1>4, <1>5

(* A process dies. *)
LEMMA CrashKeeps ==
    ASSUME TablesOK, NEW p \in Procs, Crash(p)
    PROVE  TablesOK'
  BY ReturnKeeps DEF Crash

(* One step of any process. *)
LEMMA StoreStepKeeps ==
    ASSUME StoreInv, [StoreNext]_storeVars
    PROVE  StoreInv'
  <1>1. CASE UNCHANGED storeVars
    BY <1>1 DEF storeVars, StoreInv, TablesOK
  <1>2. ASSUME NEW p \in Procs, store(p) \/ list_append(p) \/ list_store(p) \/ StoreStep(p)
        PROVE  StoreInv'
    <2>1. "shared" \in flaw => "shared" \in flaw'
      <3>1. CASE store(p) \/ list_append(p) \/ list_store(p)
        BY <3>1 DEF store, list_append, list_store, Begin
      <3>2. CASE StoreStep(p)
        BY <3>2 DEF StoreStep, OpenScratch, WriteScratch, CloseScratch, ScratchFails, Rename, OpenList,
                    Fallocate, Fwrite, Truncate, CloseList, Crash
      <3> QED BY <1>2, <3>1, <3>2
    <2>2. ASSUME TablesOK, "shared" \notin flaw' PROVE TablesOK'
      <3>1. CASE store(p)
        BY <2>2, <3>1, BeginKeeps DEF store
      <3>2. CASE list_append(p)
        BY <2>2, <3>2, BeginKeeps DEF list_append
      <3>3. CASE list_store(p)
        BY <2>2, <3>3, BeginKeeps DEF list_store
      <3>4. CASE StoreStep(p)
        BY <2>2, <3>4, OpenScratchKeeps, WriteScratchKeeps, CloseScratchKeeps, ScratchFailsKeeps,
           RenameKeeps, AppendKeeps, CrashKeeps DEF StoreStep
      <3> QED BY <1>2, <3>1, <3>2, <3>3, <3>4
    <2> QED BY <2>1, <2>2 DEF StoreInv
  <1> QED BY <1>1, <1>2 DEF StoreNext

(* load never finds half a table: a key-value file is absent or one table   *)
(* written in full, through failures, retries and crashes of any number of  *)
(* processes, as long as no two of them had the same scratch file open      *)
(* (atomic_store and store, datamanager.lua:158-228).                       *)
THEOREM TableWholeHolds == StoreSpec => []TableWhole
  <1>1. StoreInit => StoreInv
    <2> SUFFICES ASSUME StoreInit PROVE StoreInv
      OBVIOUS
    <2>1. ASSUME NEW p \in Procs PROVE ProcOK(proc[p], dir, inode) /\ ~Storing(proc[p])
      <3>1. proc[p] = Resting /\ IsRec(Resting) /\ Resting.at = "idle" /\ Resting.name = "dat"
        BY RestingShape DEF StoreInit, IsRec
      <3> QED BY <3>1 DEF ProcOK, IsRec, Storing, Working
    <2>2. DirOK(dir) /\ dir["dat"] = 0
      BY DEF StoreInit, DirOK, Names
    <2>3. proc = [p \in Procs |-> proc[p]] /\ inode = [k \in Inodes |-> inode[k]]
      BY DEF StoreInit
    <2> QED BY <2>1, <2>2, <2>3 DEF StoreInv, TablesOK
  <1>2. StoreInv /\ [StoreNext]_storeVars => StoreInv'
    BY StoreStepKeeps
  <1>3. StoreInv => TableWhole
    BY DEF StoreInv, TablesOK, TableWhole, File
  <1> QED BY <1>1, <1>2, <1>3, PTL DEF StoreSpec
-----------------------------------------------------------------------------
(* The list.  An append writes in place, so that what the file holds beyond *)
(* its base is the append under way, and the base is what counts.           *)
Appending == {"alloc", "fwrite", "truncate", "fclose"}
PieceSet == Nat \X (1..2)

(* The first n pieces of s are whole items. *)
Readable(s, n) ==
    \A k \in 1..n : IF k % 2 = 1 THEN k < n /\ s[k][2] = 1 ELSE s[k] = <<s[k - 1][1], 2>>

(* The items of a are whole, and in order, within the first n pieces of s.  *)
Fits(f, s, n, a) ==
    /\ f \in [1..Len(a) -> 1..n]
    /\ \A k \in 1..Len(a) : f[k] < n /\ s[f[k]][1] = a[k] /\ s[f[k]][2] = 1 /\ s[f[k] + 1] = <<a[k], 2>>
    /\ \A j, k \in 1..Len(a) : j < k => f[j] < f[k]

Holds(s, n, a) == \E f : Fits(f, s, n, a)

(* Only the first n pieces matter, and more of them do no harm. *)
LEMMA HoldsOn ==
    ASSUME NEW n \in Nat, NEW m \in Nat, n <= m, NEW s, NEW t, \A k \in 1..n : t[k] = s[k],
           NEW a \in Seq(Nat), Holds(s, n, a)
    PROVE  Holds(t, m, a)
  <1>1. PICK f : Fits(f, s, n, a)
    BY DEF Holds
  <1>2. f \in [1..Len(a) -> 1..n] /\ \A k \in 1..Len(a) : f[k] \in 1..n /\ f[k] < n
    BY <1>1 DEF Fits
  <1>3. \A k \in 1..Len(a) : t[f[k]] = s[f[k]] /\ t[f[k] + 1] = s[f[k] + 1] /\ f[k] \in 1..m /\ f[k] < m
    <2> SUFFICES ASSUME NEW k \in 1..Len(a)
                 PROVE  t[f[k]] = s[f[k]] /\ t[f[k] + 1] = s[f[k] + 1] /\ f[k] \in 1..m /\ f[k] < m
      OBVIOUS
    <2>1. PICK x \in 1..n : x = f[k] /\ x < n
      BY <1>2
    <2>2. x + 1 \in 1..n /\ x \in 1..m /\ x < m
      BY ONLY <2>1, n \in Nat, m \in Nat, n <= m
    <2> QED BY <2>1, <2>2
  <1>4. f \in [1..Len(a) -> 1..m]
    BY <1>2, <1>3
  <1>5. Fits(f, t, m, a)
    BY ONLY <1>1, <1>3, <1>4 DEF Fits
  <1> QED BY <1>5 DEF Holds

(* One more item. *)
LEMMA HoldsNext ==
    ASSUME NEW n \in Nat, NEW s, NEW a \in Seq(Nat), NEW x \in Nat, Holds(s, n, a),
           s[n + 1] = <<x, 1>>, s[n + 2] = <<x, 2>>
    PROVE  Holds(s, n + 2, Append(a, x))
  <1>1. PICK f : Fits(f, s, n, a)
    BY DEF Holds
  <1>2. PICK b, L : b = Append(a, x) /\ L = Len(a)
    OBVIOUS
  <1>3. /\ L \in Nat /\ b \in Seq(Nat) /\ Len(b) = L + 1 /\ b[L + 1] = x /\ \A k \in 1..L : b[k] = a[k]
    BY <1>2, AppendProperties, LenProperties
  <1>4. f \in [1..L -> 1..n] /\ \A k \in 1..L : f[k] \in 1..n /\ f[k] < n
    BY <1>1, <1>2 DEF Fits
  <1>5. PICK g : g = [k \in 1..L + 1 |-> IF k = L + 1 THEN n + 1 ELSE f[k]]
    OBVIOUS
  <1>6. \A k \in 1..L + 1 : k = L + 1 \/ k \in 1..L
    BY <1>3
  <1>7. g[L + 1] = n + 1 /\ \A k \in 1..L : g[k] = f[k] /\ k # L + 1 /\ k \in 1..L + 1
    <2>1. L + 1 \in 1..L + 1 /\ \A k \in 1..L : k # L + 1 /\ k \in 1..L + 1
      BY <1>3
    <2> QED BY ONLY <1>5, <2>1
  <1>8. \A k \in 1..L : f[k] \in 1..n + 2 /\ f[k] < n + 2 /\ f[k] < n + 1
    <2> SUFFICES ASSUME NEW k \in 1..L PROVE f[k] \in 1..n + 2 /\ f[k] < n + 2 /\ f[k] < n + 1
      OBVIOUS
    <2>1. PICK y \in 1..n : y = f[k]
      BY <1>4
    <2>2. y \in 1..n + 2 /\ y < n + 2 /\ y < n + 1
      BY <2>1
    <2> QED BY <2>1, <2>2
  <1>9. n + 1 \in 1..n + 2 /\ n + 1 < n + 2 /\ n + 1 + 1 = n + 2
    OBVIOUS
  <1>10. g \in [1..Len(b) -> 1..n + 2]
    <2>1. \A k \in 1..L + 1 : g[k] \in 1..n + 2
      BY ONLY <1>6, <1>7, <1>8, <1>9
    <2> QED BY ONLY <1>3, <1>5, <2>1
  <1>11. ASSUME NEW k \in 1..Len(b)
         PROVE  g[k] < n + 2 /\ s[g[k]][1] = b[k] /\ s[g[k]][2] = 1 /\ s[g[k] + 1] = <<b[k], 2>>
    <2>1. CASE k = L + 1
      <3>1. g[k] = n + 1 /\ b[k] = x
        BY ONLY <1>3, <1>7, <2>1
      <3>2. s[n + 1][1] = x /\ s[n + 1][2] = 1
        OBVIOUS
      <3> QED BY <1>9, <3>1, <3>2
    <2>2. CASE k \in 1..L
      <3>1. g[k] = f[k] /\ b[k] = a[k] /\ f[k] < n + 2
        BY ONLY <1>3, <1>7, <1>8, <2>2
      <3>2. s[f[k]][1] = a[k] /\ s[f[k]][2] = 1 /\ s[f[k] + 1] = <<a[k], 2>>
        BY ONLY <1>1, <1>2, <2>2 DEF Fits
      <3> QED BY ONLY <3>1, <3>2
    <2> QED BY <1>3, <1>6, <2>1, <2>2
  <1>12. ASSUME NEW j \in 1..Len(b), NEW k \in 1..Len(b), j < k PROVE g[j] < g[k]
    <2>1. j \in 1..L
      BY <1>3, <1>12
    <2>2. CASE k = L + 1
      BY ONLY <1>7, <1>8, <2>1, <2>2
    <2>3. CASE k \in 1..L
      <3>1. f[j] < f[k]
        BY ONLY <1>1, <1>2, <1>12, <2>1, <2>3 DEF Fits
      <3> QED BY ONLY <1>7, <2>1, <2>3, <3>1
    <2> QED BY <1>3, <1>6, <2>2, <2>3
  <1>13. Fits(g, s, n + 2, b)
    BY ONLY <1>10, <1>11, <1>12 DEF Fits
  <1> QED BY <1>2, <1>13 DEF Holds

(* Whether they can be read depends on the first n pieces only. *)
LEMMA ReadableOn ==
    ASSUME NEW n \in Nat, NEW s, NEW t, \A k \in 1..n : t[k] = s[k], Readable(s, n)
    PROVE  Readable(t, n)
  <1> SUFFICES ASSUME NEW k \in 1..n
               PROVE  IF k % 2 = 1 THEN k < n /\ t[k][2] = 1 ELSE t[k] = <<t[k - 1][1], 2>>
    BY DEF Readable
  <1>1. IF k % 2 = 1 THEN k < n /\ s[k][2] = 1 ELSE s[k] = <<s[k - 1][1], 2>>
    BY DEF Readable
  <1>2. k % 2 # 1 => k - 1 \in 1..n
    OBVIOUS
  <1> QED BY <1>1, <1>2

(* One more item to read. *)
LEMMA ReadableNext ==
    ASSUME NEW n \in Nat, NEW s, NEW x, Readable(s, n), s[n + 1] = <<x, 1>>, s[n + 2] = <<x, 2>>
    PROVE  Readable(s, n + 2)
  <1>1. n % 2 = 0
    <2>1. CASE n = 0
      BY <2>1
    <2>2. CASE n # 0
      <3>1. n \in 1..n /\ ~(n < n)
        BY <2>2
      <3>2. n % 2 # 1
        BY <3>1 DEF Readable
      <3> QED BY <3>2
    <2> QED BY <2>1, <2>2
  <1>2. (n + 1) % 2 = 1 /\ (n + 2) % 2 = 0 /\ n + 2 - 1 = n + 1 /\ n + 1 < n + 2
    BY <1>1
  <1>3. s[n + 1][1] = x /\ s[n + 1][2] = 1
    OBVIOUS
  <1>4. ASSUME NEW k \in 1..n + 2
        PROVE  IF k % 2 = 1 THEN k < n + 2 /\ s[k][2] = 1 ELSE s[k] = <<s[k - 1][1], 2>>
    <2>1. CASE k = n + 1
      BY <1>2, <1>3, <2>1
    <2>2. CASE k = n + 2
      BY <1>2, <1>3, <2>2
    <2>3. CASE k \in 1..n
      <3>1. IF k % 2 = 1 THEN k < n /\ s[k][2] = 1 ELSE s[k] = <<s[k - 1][1], 2>>
        BY <2>3 DEF Readable
      <3>2. k < n + 2
        BY <2>3
      <3> QED BY <3>1, <3>2
    <2>4. k = n + 1 \/ k = n + 2 \/ k \in 1..n
      OBVIOUS
    <2> QED BY <2>1, <2>2, <2>3, <2>4
  <1> QED BY <1>4 DEF Readable

(* A function on 1..n is a sequence of that length. *)
LEMMA SizeOf ==
    ASSUME NEW S, NEW n \in Nat, NEW t \in [1..n -> S]
    PROVE  t \in Seq(S) /\ Len(t) = n
  <1>1. t \in Seq(S)
    BY SeqDef
  <1>2. Len(t) \in Nat /\ DOMAIN t = 1..Len(t) /\ DOMAIN t = 1..n
    BY <1>1, LenProperties
  <1>3. PICK m \in Nat : m = Len(t)
    BY <1>2
  <1>4. 1..m = 1..n
    BY <1>2, <1>3
  <1>5. m = n
    <2>1. CASE m > n
      <3>1. m \in 1..m /\ m \notin 1..n
        BY <2>1
      <3> QED BY <1>4, <3>1
    <2>2. CASE n > m
      <3>1. n \in 1..n /\ n \notin 1..m
        BY <2>2
      <3> QED BY <1>4, <3>1
    <2> QED BY <2>1, <2>2
  <1> QED BY <1>1, <1>3, <1>5

(* What list_store writes. *)
LEMMA WholeFacts ==
    ASSUME NEW a \in Seq(Nat)
    PROVE  /\ Whole(a) \in Seq(PieceSet) /\ Len(Whole(a)) = 2 * Len(a)
           /\ Holds(Whole(a), 2 * Len(a), a) /\ Readable(Whole(a), 2 * Len(a))
  <1>1. PICK w, L : w = Whole(a) /\ L = Len(a)
    OBVIOUS
  <1>2. L \in Nat /\ \A k \in 1..L : a[k] \in Nat
    BY <1>1, LenProperties, ElementOfSeq
  <1>3. w = [k \in 1..2 * L |-> <<a[(k + 1) \div 2], IF k % 2 = 1 THEN 1 ELSE 2>>]
    BY <1>1 DEF Whole
  <1>4. \A k \in 1..2 * L : w[k] = <<a[(k + 1) \div 2], IF k % 2 = 1 THEN 1 ELSE 2>>
    BY ONLY <1>3
  <1>5. \A k \in 1..2 * L : (k + 1) \div 2 \in 1..L
    BY <1>2
  <1>6. \A k \in 1..2 * L : w[k] \in PieceSet
    <2> SUFFICES ASSUME NEW k \in 1..2 * L PROVE w[k] \in PieceSet
      OBVIOUS
    <2>1. PICK x \in Nat : x = a[(k + 1) \div 2]
      BY <1>2, <1>5
    <2>2. w[k] = <<x, 1>> \/ w[k] = <<x, 2>>
      BY <1>4, <2>1
    <2>3. <<x, 1>> \in PieceSet /\ <<x, 2>> \in PieceSet
      BY DEF PieceSet
    <2> QED BY ONLY <2>2, <2>3
  <1>7. w \in Seq(PieceSet) /\ Len(w) = 2 * L
    <2>1. 2 * L \in Nat
      BY <1>2
    <2>2. w \in [1..2 * L -> PieceSet]
      BY ONLY <1>3, <1>6
    <2> QED BY ONLY <2>1, <2>2, SizeOf
  <1>8. ASSUME NEW k \in 1..L
        PROVE  /\ 2 * k - 1 \in 1..2 * L /\ 2 * k - 1 < 2 * L /\ w[2 * k - 1] = <<a[k], 1>>
               /\ w[2 * k - 1 + 1] = <<a[k], 2>>
    <2>1. /\ 2 * k - 1 \in 1..2 * L /\ 2 * k - 1 < 2 * L /\ (2 * k - 1) % 2 = 1 /\ (2 * k - 1 + 1) \div 2 = k
          /\ 2 * k \in 1..2 * L /\ (2 * k) % 2 # 1 /\ (2 * k + 1) \div 2 = k /\ 2 * k - 1 + 1 = 2 * k
      BY <1>2
    <2> QED BY ONLY <1>4, <2>1
  <1>9. Holds(w, 2 * L, a)
    <2>1. PICK f : f = [k \in 1..L |-> 2 * k - 1]
      OBVIOUS
    <2>2. \A k \in 1..L : f[k] = 2 * k - 1
      BY ONLY <2>1
    <2>3. f \in [1..L -> 1..2 * L]
      BY ONLY <1>8, <2>1
    <2>4. \A j, k \in 1..L : j < k => 2 * j - 1 < 2 * k - 1
      BY <1>2
    <2>5. \A k \in 1..L : f[k] < 2 * L /\ w[f[k]] = <<a[k], 1>> /\ w[f[k] + 1] = <<a[k], 2>>
      BY ONLY <1>8, <2>2
    <2>6. \A k \in 1..L : w[f[k]][1] = a[k] /\ w[f[k]][2] = 1
      BY ONLY <2>5
    <2>7. Fits(f, w, 2 * L, a)
      BY ONLY <1>1, <2>2, <2>3, <2>4, <2>5, <2>6 DEF Fits
    <2> QED BY <2>7 DEF Holds
  <1>10. Readable(w, 2 * L)
    <2> SUFFICES ASSUME NEW k \in 1..2 * L
                 PROVE  IF k % 2 = 1 THEN k < 2 * L /\ w[k][2] = 1 ELSE w[k] = <<w[k - 1][1], 2>>
      BY DEF Readable
    <2>1. CASE k % 2 = 1
      <3>1. w[k] = <<a[(k + 1) \div 2], 1>>
        BY ONLY <1>4, <2>1, k \in 1..2 * L
      <3>2. k < 2 * L
        <4>1. (2 * L) % 2 = 0
          BY <1>2
        <4>2. k # 2 * L
          BY <2>1, <4>1
        <4> QED BY <1>2, <4>2
      <3> QED BY <2>1, <3>1, <3>2
    <2>2. CASE k % 2 # 1
      <3>1. k - 1 \in 1..2 * L /\ (k - 1) % 2 = 1 /\ (k - 1 + 1) \div 2 = (k + 1) \div 2
        BY <1>2, <2>2
      <3>2. w[k - 1] = <<a[(k + 1) \div 2], 1>> /\ w[k] = <<a[(k + 1) \div 2], 2>>
        BY <1>4, <2>2, <3>1
      <3> QED BY <2>2, <3>2
    <2> QED BY <2>1, <2>2
  <1> QED BY <1>1, <1>7, <1>9, <1>10

(* What an append writes. *)
LEMMA ItemFacts ==
    ASSUME NEW x \in Nat
    PROVE  /\ Pieces(x) \in Seq(PieceSet) /\ Len(Pieces(x)) = 2
           /\ Pieces(x)[1] = <<x, 1>> /\ Pieces(x)[2] = <<x, 2>>
           /\ \A k \in 1..2 : Pieces(x)[k] = <<x, k>>
  <1>1. <<x, 1>> \in PieceSet /\ <<x, 2>> \in PieceSet
    BY DEF PieceSet
  <1>2. \A k \in 1..2 : k = 1 \/ k = 2
    OBVIOUS
  <1> QED BY <1>1, <1>2 DEF Pieces

(* Writing at the end appends. *)
LEMMA WriteAtEnd ==
    ASSUME NEW s \in Seq(PieceSet), NEW piece \in PieceSet, NEW n, n = Len(s), NEW t, t = WriteAt(s, n, piece)
    PROVE  t \in Seq(PieceSet) /\ Len(t) = n + 1 /\ t[n + 1] = piece /\ \A k \in 1..n : t[k] = s[k]
  <1>1. n \in Nat /\ \A k \in 1..n : s[k] \in PieceSet
    BY LenProperties, ElementOfSeq
  <1>2. t = [k \in 1..n + 1 |-> IF k = n + 1 THEN piece ELSE IF k <= n THEN s[k] ELSE <<"hole", 0>>]
    BY <1>1 DEF WriteAt
  <1>3. \A k \in 1..n + 1 : k = n + 1 \/ (k \in 1..n /\ k <= n /\ k # n + 1)
    BY <1>1
  <1>4. n + 1 \in 1..n + 1 /\ \A k \in 1..n : k \in 1..n + 1 /\ k <= n /\ k # n + 1
    BY <1>1
  <1>5. t[n + 1] = piece /\ \A k \in 1..n : t[k] = s[k]
    BY ONLY <1>2, <1>4
  <1>6. t \in [1..n + 1 -> PieceSet]
    <2>1. \A k \in 1..n + 1 : t[k] \in PieceSet
      BY <1>1, <1>3, <1>5
    <2> QED BY ONLY <1>2, <2>1
  <1>7. t \in Seq(PieceSet) /\ Len(t) = n + 1
    <2>1. n + 1 \in Nat
      BY <1>1
    <2> QED BY ONLY <1>6, <2>1, SizeOf
  <1> QED BY <1>5, <1>7

(* The pieces under the name of the list. *)
Stored(d, i) == IF d["list"] = 0 THEN <<>> ELSE i[d["list"]]

(* Where the list ends, but for what an append is adding. *)
Base(r, s) == IF r.at \in Appending THEN r.pos ELSE Len(s)

(* What a process may have to do with the list: only Main works on it, and  *)
(* no process that stores a table has one of its files open.                *)
Clean(p, r, d) ==
    /\ IsRec(r)
    /\ r.name \in {"dat", "list"}
    /\ r.name = "list" => p = Main /\ r.op \in {"append", "replace"}
    /\ r.name = "dat" => r.op \in {"none", "store"}
    /\ r.at \in Appending \cup {"r+"} => r.name = "list"
    /\ r.at \in {"r+", "open"} => r.ino = 0
    /\ r.name = "dat" => /\ d["list"] # 0 => r.ino # d["list"]
                         /\ d["list~"] # 0 => r.ino # d["list~"]

FilesOK ==
    /\ DirOK(dir)
    /\ inode = [k \in Inodes |-> inode[k]]
    /\ proc = [p \in Procs |-> proc[p]]
    /\ \A p \in Procs : Clean(p, proc[p], dir)

(* What an append has written beyond the base. *)
AppendOK(r, d, s) ==
    /\ r.at \in Appending \cup {"r+"} => r.op = "append" /\ r.val \in Nat /\ r.data = Pieces(r.val)
    /\ r.at = "r+" => r.n = 0
    /\ r.at \in Appending =>
          /\ d["list"] # 0 /\ r.ino = d["list"]
          /\ r.pos \in Nat /\ r.n \in 0..2 /\ Len(s) = r.pos + r.n
          /\ r.at = "alloc" => r.n = 0
          /\ r.at = "fclose" => r.n = 2
          /\ \A k \in 1..r.n : s[r.pos + k] = <<r.val, k>>

(* What is in the scratch file of the list. *)
ScratchOK(r, d, i, fl) ==
    r.name = "list" /\ r.at \in {"open"} \cup Working =>
        /\ r.op = "append" => /\ r.val \in Nat /\ r.data = Pieces(r.val)
                              /\ "denied" \notin fl => d["list"] = 0
        /\ r.op = "replace" => r.val \in Seq(Nat) /\ r.data = Whole(r.val)
        /\ r.at # "open" => d["list~"] # 0
        /\ r.at \in {"write", "close"} => r.ino = d["list~"]
        /\ r.at = "write" => /\ r.n \in 0..Len(r.data)
                             /\ i[d["list~"]] \in Seq(PieceSet) /\ Len(i[d["list~"]]) = r.n
                             /\ \A k \in 1..r.n : i[d["list~"]][k] = r.data[k]
        /\ r.at \in {"close", "rename"} => i[d["list~"]] = r.data

(* The base holds what was acknowledged and can be read. *)
ContentOK(n, s, a, fl) ==
    /\ s \in Seq(PieceSet)
    /\ "denied" \notin fl => Holds(s, n, a)
    /\ "torn" \notin fl => Readable(s, n)

MainOK(r, d, i, a, fl) ==
    /\ AppendOK(r, d, Stored(d, i))
    /\ ScratchOK(r, d, i, fl)
    /\ ContentOK(Base(r, Stored(d, i)), Stored(d, i), a, fl)

ListInv ==
    /\ FilesOK
    /\ acked \in Seq(Nat) /\ items \in Nat
    /\ MainOK(proc[Main], dir, inode, acked, flaw)

(* The parts put together again after a step of p. *)
LEMMA ListAssembled ==
    ASSUME ListInv, NEW p \in Procs, NEW r, proc' = [proc EXCEPT ![p] = r],
           DirOK(dir'), inode' = [k \in Inodes |-> inode'[k]], Clean(p, r, dir'),
           \A q \in Procs \ {p} : \A m \in {"list", "list~"} :
               proc[q].name = "dat" /\ dir'[m] # 0 => proc[q].ino # dir'[m],
           acked' \in Seq(Nat), items' \in Nat,
           p = Main => MainOK(r, dir', inode', acked', flaw'),
           p # Main => MainOK(proc[Main], dir', inode', acked', flaw')
    PROVE  ListInv'
  <1>1. proc = [q \in Procs |-> proc[q]] /\ \A q \in Procs : Clean(q, proc[q], dir)
    BY DEF ListInv, FilesOK
  <1>2. proc'[p] = r /\ \A q \in Procs \ {p} : proc'[q] = proc[q]
    BY <1>1
  <1>3. proc' = [q \in Procs |-> proc'[q]]
    BY <1>1
  <1>4. ASSUME NEW q \in Procs PROVE Clean(q, proc'[q], dir')
    <2>1. CASE q = p
      BY <1>2, <2>1
    <2>2. CASE q # p
      <3>1. Clean(q, proc[q], dir) /\ proc'[q] = proc[q]
        BY <1>1, <1>2, <2>2
      <3>2. Clean(q, proc[q], dir')
        BY <2>2, <3>1 DEF Clean, IsRec
      <3> QED BY <3>1, <3>2
    <2> QED BY <2>1, <2>2
  <1>5. MainOK(proc'[Main], dir', inode', acked', flaw')
    BY <1>2, StoreAssumption
  <1>6. (\A q \in Procs : Clean(q, proc[q], dir))'
    BY <1>4
  <1>7. FilesOK'
    BY <1>3, <1>6 DEF FilesOK, DirOK
  <1> QED BY <1>5, <1>7 DEF ListInv

(* What the list's writer stands for does not change with other files. *)
LEMMA MainKept ==
    ASSUME NEW r, NEW d, NEW i, NEW a, NEW fl, MainOK(r, d, i, a, fl),
           NEW d2, NEW i2, NEW fl2, fl \subseteq fl2, d2["list"] = d["list"],
           d["list"] # 0 => i2[d["list"]] = i[d["list"]],
           r.name = "list" => /\ d2["list~"] = d["list~"]
                              /\ d["list~"] # 0 => i2[d["list~"]] = i[d["list~"]]
    PROVE  MainOK(r, d2, i2, a, fl2)
  <1>1. Stored(d2, i2) = Stored(d, i)
    BY DEF Stored
  <1>2. ScratchOK(r, d2, i2, fl2)
    BY DEF MainOK, ScratchOK, Working
  <1>3. AppendOK(r, d2, Stored(d, i))
    BY DEF MainOK, AppendOK
  <1>4. ContentOK(Base(r, Stored(d, i)), Stored(d, i), a, fl2)
    BY DEF MainOK, ContentOK
  <1> QED BY <1>1, <1>2, <1>3, <1>4 DEF MainOK

(* Who is done with the list, before or after, stands for the file only. *)
LEMMA MainRests ==
    ASSUME NEW r, NEW d, NEW i, NEW a, NEW fl, MainOK(r, d, i, a, fl), r.at \notin Appending,
           NEW r2, r2.name = "dat", r2.at \notin Appending \cup {"r+"}
    PROVE  MainOK(r2, d, i, a, fl)
  <1>1. Base(r2, Stored(d, i)) = Base(r, Stored(d, i))
    BY DEF Base
  <1>2. ScratchOK(r2, d, i, fl)
    BY DEF ScratchOK
  <1>3. AppendOK(r2, d, Stored(d, i))
    BY DEF AppendOK
  <1> QED BY <1>1, <1>2, <1>3 DEF MainOK

(* A step of p that touches neither the list nor the scratch file of a      *)
(* process at work on it, after which p is not at work on the list.         *)
LEMMA AwayKeeps ==
    ASSUME ListInv, NEW p \in Procs, NEW r, proc' = [proc EXCEPT ![p] = r],
           DirOK(dir'), inode' = [k \in Inodes |-> inode'[k]], Clean(p, r, dir'),
           r.name = "dat", proc[p].at \notin Appending,
           dir'["list"] = dir["list"], dir["list"] # 0 => inode'[dir["list"]] = inode[dir["list"]],
           \/ /\ dir'["list~"] = dir["list~"]
              /\ dir["list~"] # 0 => inode'[dir["list~"]] = inode[dir["list~"]]
           \/ p = Main /\ dir'["list~"] = 0,
           acked' = acked, items' = items, flaw \subseteq flaw'
    PROVE  ListInv'
  <1>1. FilesOK /\ acked \in Seq(Nat) /\ items \in Nat /\ MainOK(proc[Main], dir, inode, acked, flaw)
    BY DEF ListInv
  <1>2. \A q \in Procs \ {p} : \A m \in {"list", "list~"} :
               proc[q].name = "dat" /\ dir'[m] # 0 => proc[q].ino # dir'[m]
    <2>1. \A q \in Procs : Clean(q, proc[q], dir)
      BY <1>1 DEF FilesOK
    <2> SUFFICES ASSUME NEW q \in Procs \ {p}, proc[q].name = "dat"
                 PROVE  /\ dir'["list"] # 0 => proc[q].ino # dir'["list"]
                        /\ dir'["list~"] # 0 => proc[q].ino # dir'["list~"]
      OBVIOUS
    <2>2. /\ dir["list"] # 0 => proc[q].ino # dir["list"]
          /\ dir["list~"] # 0 => proc[q].ino # dir["list~"]
      BY <2>1 DEF Clean
    <2>3. dir'["list~"] \in {0, dir["list~"]}
      OBVIOUS
    <2> QED BY <2>2, <2>3
  <1>3. r.at \notin Appending \cup {"r+"}
    BY DEF Clean, IsRec
  <1>4. CASE p = Main
    <2>1. MainOK(r, dir, inode, acked, flaw)
      BY ONLY <1>1, <1>3, <1>4, r.name = "dat", proc[p].at \notin Appending, MainRests
    <2>2. MainOK(r, dir', inode', acked, flaw')
      BY <2>1, MainKept
    <2> QED BY <1>1, <1>2, <1>4, <2>2, ListAssembled
  <1>5. CASE p # Main
    <2>1. MainOK(proc[Main], dir', inode', acked, flaw')
      BY <1>1, <1>5, MainKept
    <2> QED BY <1>1, <1>2, <1>5, <2>1, ListAssembled
  <1> QED BY <1>4, <1>5

(* A process that has returned has nothing to do with the list. *)
LEMMA ReturnedClean ==
    ASSUME NEW result \in {"idle", "ok", "failed", "raised"}, NEW r, r = [Resting EXCEPT !.at = result]
    PROVE  r.name = "dat" /\ r.at = result /\ \A p, d : Clean(p, r, d)
  <1>1. PICK no : Resting = [at |-> "idle", op |-> "none", name |-> "dat", data |-> <<>>, val |-> Empty,
                             ino |-> 0, pos |-> 0, n |-> 0, retry |-> no]
    BY RestingShape
  <1>2. r = [at |-> result, op |-> "none", name |-> "dat", data |-> <<>>, val |-> Empty,
             ino |-> 0, pos |-> 0, n |-> 0, retry |-> no]
    BY <1>1
  <1>3. IsRec(r) /\ r.at = result /\ r.op = "none" /\ r.name = "dat" /\ r.ino = 0
    BY ONLY <1>2 DEF IsRec
  <1>4. r.at \notin Appending \cup {"r+", "open"}
    BY ONLY <1>3, result \in {"idle", "ok", "failed", "raised"} DEF Appending
  <1> QED BY ONLY <1>3, <1>4 DEF Clean

(* p returns; it was not appending. *)
LEMMA ListReturn ==
    ASSUME ListInv, NEW p \in Procs, NEW result \in {"idle", "ok", "failed", "raised"}, Return(p, result),
           proc[p].at \notin Appending, UNCHANGED <<dir, inode, items, acked>>, flaw \subseteq flaw'
    PROVE  ListInv'
  <1>1. PICK r : r = [Resting EXCEPT !.at = result] /\ proc' = [proc EXCEPT ![p] = r]
    BY DEF Return
  <1>2. r.name = "dat" /\ Clean(p, r, dir')
    BY <1>1, ReturnedClean
  <1>3. DirOK(dir') /\ inode' = [k \in Inodes |-> inode'[k]]
    BY DEF ListInv, FilesOK
  <1> QED BY <1>1, <1>2, <1>3, AwayKeeps

(* A step of Main that leaves the names as they are. *)
LEMMA MainStep ==
    ASSUME ListInv, NEW r, proc' = [proc EXCEPT ![Main] = r], dir' = dir,
           inode' = [k \in Inodes |-> inode'[k]], Clean(Main, r, dir),
           acked' \in Seq(Nat), items' \in Nat, MainOK(r, dir, inode', acked', flaw')
    PROVE  ListInv'
  <1>1. DirOK(dir) /\ \A q \in Procs : Clean(q, proc[q], dir)
    BY DEF ListInv, FilesOK
  <1>2. \A q \in Procs \ {Main} : \A m \in {"list", "list~"} :
               proc[q].name = "dat" /\ dir'[m] # 0 => proc[q].ino # dir'[m]
    BY <1>1 DEF Clean
  <1> QED BY <1>1, <1>2, ListAssembled, StoreAssumption

(* Main goes on to something else, and no file has changed. *)
LEMMA MainMoves ==
    ASSUME NEW r, NEW d, NEW i, NEW a, NEW fl, MainOK(r, d, i, a, fl), r.at \notin Appending,
           NEW r2, NEW fl2, fl \subseteq fl2, Base(r2, Stored(d, i)) = Len(Stored(d, i)),
           AppendOK(r2, d, Stored(d, i)), ScratchOK(r2, d, i, fl2)
    PROVE  MainOK(r2, d, i, a, fl2)
  <1>1. Base(r2, Stored(d, i)) = Base(r, Stored(d, i))
    BY DEF Base
  <1>2. ContentOK(Base(r2, Stored(d, i)), Stored(d, i), a, fl2)
    BY <1>1 DEF MainOK, ContentOK
  <1> QED BY <1>2 DEF MainOK

(* store begins. *)
LEMMA StoreBegins ==
    ASSUME ListInv, NEW p \in Procs, store(p)
    PROVE  ListInv'
  <1>1. PICK v \in Tables : Begin(p, "store", "dat", v, Pieces(v)) /\ items' = items
    BY DEF store
  <1>2. /\ dir' = dir /\ inode' = inode /\ acked' = acked /\ flaw' = flaw
        /\ proc[p].at \in {"idle", "ok", "failed", "raised"}
    BY <1>1, Begun
  <1>3. PICK r : /\ proc' = [proc EXCEPT ![p] = r] /\ IsRec(r) /\ r.at = "open"
                 /\ r.op = "store" /\ r.name = "dat" /\ r.ino = 0
    BY <1>1, Begun
  <1>4. Clean(p, r, dir') /\ proc[p].at \notin Appending
    BY <1>2, <1>3 DEF Clean, Appending
  <1>5. DirOK(dir') /\ inode' = [k \in Inodes |-> inode'[k]]
    BY <1>2 DEF ListInv, FilesOK
  <1> QED BY <1>1, <1>2, <1>3, <1>4, <1>5, AwayKeeps

(* list_append begins. *)
LEMMA AppendBegins ==
    ASSUME ListInv, NEW p \in Procs, list_append(p)
    PROVE  ListInv'
  <1>1. PICK x : x = items + 1
    OBVIOUS
  <1>2. p = Main /\ items' = x /\ x \in Nat /\ Begin(Main, "append", "list", x, Pieces(x))
    BY <1>1 DEF list_append, ListInv
  <1>3. /\ dir' = dir /\ inode' = inode /\ acked' = acked /\ flaw' = flaw
        /\ proc[Main].at \in {"idle", "ok", "failed", "raised"}
    BY <1>2, Begun
  <1>4. PICK r : /\ proc' = [proc EXCEPT ![Main] = r] /\ IsRec(r) /\ r.at = "r+"
                 /\ r.op = "append" /\ r.name = "list" /\ r.val = x /\ r.data = Pieces(x) /\ r.ino = 0 /\ r.n = 0
    BY <1>2, Begun
  <1>5. Clean(Main, r, dir) /\ proc[Main].at \notin Appending /\ r.at \notin Appending
    BY <1>3, <1>4 DEF Clean, Appending
  <1>6. MainOK(proc[Main], dir, inode, acked, flaw) /\ inode = [k \in Inodes |-> inode[k]] /\ acked \in Seq(Nat)
    BY DEF ListInv, FilesOK
  <1>7. AppendOK(r, dir, Stored(dir, inode))
    BY ONLY <1>2, <1>4, <1>5 DEF AppendOK
  <1>8. ScratchOK(r, dir, inode, flaw)
    BY ONLY <1>4 DEF ScratchOK, Working
  <1>9. MainOK(r, dir, inode, acked, flaw)
    BY ONLY <1>5, <1>6, <1>7, <1>8, MainMoves DEF Base
  <1> QED BY <1>2, <1>3, <1>4, <1>5, <1>6, <1>9, MainStep

(* list_store begins. *)
LEMMA ReplaceBegins ==
    ASSUME ListInv, NEW p \in Procs, list_store(p)
    PROVE  ListInv'
  <1>1. acked \in Seq(Nat) /\ items \in Nat
    BY DEF ListInv
  <1>2. PICK m, kept :
            /\ m \in 0..Len(acked) /\ kept = SubSeq(acked, m + 1, Len(acked)) /\ p = Main /\ items' = items
            /\ Begin(Main, "replace", "list", kept, Whole(kept))
    BY DEF list_store
  <1>3. kept \in Seq(Nat)
    <2>1. Len(acked) \in Nat /\ \A k \in 1..Len(acked) : acked[k] \in Nat
      BY <1>1, LenProperties, ElementOfSeq
    <2> QED BY <1>1, <1>2, <2>1, SubSeqProperties
  <1>4. /\ dir' = dir /\ inode' = inode /\ acked' = acked /\ flaw' = flaw
        /\ proc[Main].at \in {"idle", "ok", "failed", "raised"}
    BY <1>2, Begun, StoreAssumption
  <1>5. PICK r : /\ proc' = [proc EXCEPT ![Main] = r] /\ IsRec(r) /\ r.at = "open"
                 /\ r.op = "replace" /\ r.name = "list" /\ r.val = kept /\ r.data = Whole(kept) /\ r.ino = 0
    <2>1. PICK w : w = Whole(kept)
      OBVIOUS
    <2>2. Main \in Procs /\ Begin(Main, "replace", "list", kept, w)
      BY <1>2, <2>1, StoreAssumption
    <2>3. \E r : /\ proc' = [proc EXCEPT ![Main] = r] /\ IsRec(r)
                 /\ r.at = IF "replace" = "append" THEN "r+" ELSE "open"
                 /\ r.op = "replace" /\ r.name = "list" /\ r.val = kept /\ r.data = w /\ r.ino = 0 /\ r.n = 0
      BY ONLY <2>2, Begun
    <2> QED BY ONLY <2>1, <2>3
  <1>6. Clean(Main, r, dir) /\ proc[Main].at \notin Appending /\ r.at \notin Appending \cup {"r+"}
    BY <1>4, <1>5 DEF Clean, Appending
  <1>7. MainOK(proc[Main], dir, inode, acked, flaw) /\ inode = [k \in Inodes |-> inode[k]]
    BY DEF ListInv, FilesOK
  <1>8. AppendOK(r, dir, Stored(dir, inode))
    BY ONLY <1>6 DEF AppendOK
  <1>9. ScratchOK(r, dir, inode, flaw)
    BY ONLY <1>3, <1>5 DEF ScratchOK, Working
  <1>10. MainOK(r, dir, inode, acked, flaw)
    BY ONLY <1>6, <1>7, <1>8, <1>9, MainMoves DEF Base
  <1> QED BY <1>1, <1>2, <1>4, <1>5, <1>6, <1>7, <1>10, MainStep

(* The part of the invariant that a step of p starts from. *)
LEMMA ListParts ==
    ASSUME ListInv, NEW p \in Procs
    PROVE  /\ DirOK(dir) /\ inode = [k \in Inodes |-> inode[k]] /\ proc = [q \in Procs |-> proc[q]]
           /\ \A q \in Procs : Clean(q, proc[q], dir)
           /\ IsRec(proc[p]) /\ proc[p].name \in {"dat", "list"} /\ (proc[p].name = "list" => p = Main)
           /\ acked \in Seq(Nat) /\ items \in Nat /\ MainOK(proc[Main], dir, inode, acked, flaw)
           /\ dir["list"] \in {0} \cup Inodes /\ dir["list~"] \in {0} \cup Inodes /\ 0 \notin Inodes
           /\ dir["list"] # 0 => dir["list~"] # dir["list"]
  <1>1. /\ DirOK(dir) /\ inode = [k \in Inodes |-> inode[k]] /\ proc = [q \in Procs |-> proc[q]]
        /\ \A q \in Procs : Clean(q, proc[q], dir)
        /\ acked \in Seq(Nat) /\ items \in Nat /\ MainOK(proc[Main], dir, inode, acked, flaw)
    BY DEF ListInv, FilesOK
  <1>2. Clean(p, proc[p], dir)
    BY <1>1
  <1>3. IsRec(proc[p]) /\ proc[p].name \in {"dat", "list"} /\ (proc[p].name = "list" => p = Main)
    BY ONLY <1>2 DEF Clean
  <1>4. 0 \notin Inodes
    BY DEF Inodes
  <1>5. /\ dir["list"] \in {0} \cup Inodes /\ dir["list~"] \in {0} \cup Inodes
        /\ dir["list"] # 0 => dir["list~"] # dir["list"]
    BY ONLY <1>1 DEF DirOK, Names
  <1> QED BY <1>1, <1>3, <1>4, <1>5

(* io_open of a scratch file: the list keeps its file. *)
LEMMA OpenScratchList ==
    ASSUME ListInv, NEW p \in Procs, OpenScratch(p)
    PROVE  ListInv'
  <1>1. /\ DirOK(dir) /\ inode = [k \in Inodes |-> inode[k]] /\ proc = [q \in Procs |-> proc[q]]
        /\ \A q \in Procs : Clean(q, proc[q], dir)
        /\ IsRec(proc[p]) /\ proc[p].name \in {"dat", "list"} /\ (proc[p].name = "list" => p = Main)
        /\ acked \in Seq(Nat) /\ items \in Nat /\ MainOK(proc[Main], dir, inode, acked, flaw)
    BY ListParts
  <1>2. dir["list"] \in {0} \cup Inodes /\ dir["list~"] \in {0} \cup Inodes
    BY ListParts
  <1>3. /\ proc[p].at = "open" /\ items' = items /\ acked' = acked /\ flaw \subseteq flaw'
        /\ proc[p].at \notin Appending /\ proc[p].ino = 0
    BY <1>1 DEF OpenScratch, Appending, Clean, IsRec
  <1>4. PICK s, ino, r :
              /\ s = (IF proc[p].name = "dat" THEN "dat~" ELSE "list~") /\ s = Scratch(proc[p].name)
              /\ ino \in Inodes /\ ino # 0 /\ \A m \in Names \ {s} : ino # dir[m]
              /\ ino = dir[s] \/ \A q \in Procs : ino # proc[q].ino
              /\ DirOK(dir') /\ dir'[s] = ino /\ \A m \in Names \ {s} : dir'[m] = dir[m]
              /\ inode' = [k \in Inodes |-> inode'[k]] /\ inode'[ino] = <<>>
              /\ \A k \in Inodes \ {ino} : inode'[k] = inode[k]
              /\ proc' = [proc EXCEPT ![p] = r]
              /\ IsRec(r) /\ r.at = "write" /\ r.ino = ino /\ r.n = 0
              /\ SameBut(proc[p], r, {"at", "ino", "n", "pos"})
    BY ONLY <1>1, <1>3, ScratchOpened, OpenScratch(p), p \in Procs
  <1>5. /\ r.name = proc[p].name /\ r.op = proc[p].op /\ r.val = proc[p].val /\ r.data = proc[p].data
        /\ r.at \notin Appending \cup {"r+"}
    BY ONLY <1>4 DEF SameBut, Appending
  <1>6. CASE proc[p].name = "dat"
    <2>1. /\ s = "dat~" /\ dir'["list"] = dir["list"] /\ dir'["list~"] = dir["list~"]
          /\ ino # dir["list"] /\ ino # dir["list~"]
      BY ONLY <1>4, <1>6 DEF Names
    <2>2. /\ dir["list"] # 0 => inode'[dir["list"]] = inode[dir["list"]]
          /\ dir["list~"] # 0 => inode'[dir["list~"]] = inode[dir["list~"]]
      BY ONLY <1>2, <1>4, <2>1
    <2>3. Clean(p, r, dir')
      <3>1. proc[p].op \in {"none", "store"}
        BY <1>1, <1>6 DEF Clean, IsRec
      <3> QED BY ONLY <1>4, <1>5, <1>6, <2>1, <3>1 DEF Clean
    <2> QED BY ONLY ListInv, p \in Procs, <1>3, <1>4, <1>5, <1>6, <2>1, <2>2, <2>3, AwayKeeps
  <1>7. CASE proc[p].name = "list"
    <2>1. /\ s = "list~" /\ dir'["list"] = dir["list"] /\ dir'["list~"] = ino /\ ino # dir["list"] /\ p = Main
      BY ONLY <1>1, <1>4, <1>7 DEF Names
    <2>2. dir["list"] # 0 => inode'[dir["list"]] = inode[dir["list"]]
      BY ONLY <1>2, <1>4, <2>1
    <2>3. Stored(dir', inode') = Stored(dir, inode)
      BY ONLY <2>1, <2>2 DEF Stored
    <2>4. Clean(p, r, dir')
      <3>1. proc[p].op \in {"append", "replace"}
        BY <1>1, <1>7 DEF Clean, IsRec
      <3> QED BY ONLY <1>4, <1>5, <1>7, <2>1, <3>1 DEF Clean
    <2>5. \A q \in Procs \ {p} : \A m \in {"list", "list~"} :
               proc[q].name = "dat" /\ dir'[m] # 0 => proc[q].ino # dir'[m]
      <3> SUFFICES ASSUME NEW q \in Procs \ {p}, proc[q].name = "dat"
                   PROVE  /\ dir'["list"] # 0 => proc[q].ino # dir'["list"]
                          /\ dir'["list~"] # 0 => proc[q].ino # dir'["list~"]
        OBVIOUS
      <3>1. /\ dir["list"] # 0 => proc[q].ino # dir["list"]
            /\ dir["list~"] # 0 => proc[q].ino # dir["list~"]
        BY <1>1 DEF Clean
      <3> QED BY ONLY <1>4, <2>1, <3>1, q \in Procs \ {p}
    <2>6. ContentOK(Base(r, Stored(dir, inode)), Stored(dir, inode), acked, flaw')
      <3>1. ContentOK(Len(Stored(dir, inode)), Stored(dir, inode), acked, flaw)
        BY ONLY <1>1, <1>3, <2>1 DEF MainOK, Base
      <3>2. ContentOK(Len(Stored(dir, inode)), Stored(dir, inode), acked, flaw')
        BY ONLY <1>3, <3>1 DEF ContentOK
      <3> QED BY ONLY <1>5, <3>2 DEF Base
    <2>7. AppendOK(r, dir', Stored(dir, inode))
      BY ONLY <1>5 DEF AppendOK
    <2>8. ScratchOK(r, dir', inode', flaw')
      <3>1. ScratchOK(proc[p], dir, inode, flaw)
        BY ONLY <1>1, <2>1 DEF MainOK
      <3>2. /\ r.op = "append" => /\ r.val \in Nat /\ r.data = Pieces(r.val)
                                  /\ "denied" \notin flaw => dir["list"] = 0
            /\ r.op = "replace" => r.val \in Seq(Nat) /\ r.data = Whole(r.val)
        BY ONLY <1>3, <1>5, <1>7, <3>1 DEF ScratchOK
      <3>3. r.op \in {"append", "replace"}
        BY ONLY <1>5, <1>7, <2>4 DEF Clean
      <3>4. r.data \in Seq(PieceSet)
        BY ONLY <3>2, <3>3, ItemFacts, WholeFacts
      <3>5. r.n \in 0..Len(r.data)
        <4>1. Len(r.data) \in Nat
          BY ONLY <3>4, LenProperties
        <4> QED BY <1>4, <4>1
      <3>6. <<>> \in Seq(PieceSet) /\ Len(<<>>) = 0
        BY EmptySeq
      <3>7. 1..0 = {}
        OBVIOUS
      <3>8. inode'[dir'["list~"]] = <<>> /\ dir'["list~"] # 0 /\ r.ino = dir'["list~"] /\ r.n = 0 /\ r.at = "write"
        BY ONLY <1>4, <2>1
      <3>9. /\ inode'[dir'["list~"]] \in Seq(PieceSet) /\ Len(inode'[dir'["list~"]]) = r.n
            /\ \A k \in 1..r.n : inode'[dir'["list~"]][k] = r.data[k]
        BY ONLY <3>6, <3>7, <3>8
      <3> QED BY ONLY <1>3, <2>1, <3>2, <3>5, <3>8, <3>9 DEF ScratchOK
    <2>9. MainOK(r, dir', inode', acked', flaw')
      BY ONLY <1>3, <2>3, <2>6, <2>7, <2>8 DEF MainOK
    <2> QED BY ONLY ListInv, p \in Procs, <1>1, <1>3, <1>4, <2>1, <2>4, <2>5, <2>9, ListAssembled
  <1> QED BY <1>1, <1>6, <1>7

(* A step on the scratch file of the table leaves the list alone. *)
LEMMA TableStep ==
    ASSUME ListInv, NEW p \in Procs, proc[p].name = "dat", NEW r, proc' = [proc EXCEPT ![p] = r],
           IsRec(r), r.name = "dat", r.op = proc[p].op, r.ino \in {0, proc[p].ino},
           r.at \in Working, dir' = dir,
           inode' = inode \/ \E x : inode' = [inode EXCEPT ![proc[p].ino] = x],
           UNCHANGED <<items, acked, flaw>>
    PROVE  ListInv'
  <1>1. /\ DirOK(dir) /\ inode = [k \in Inodes |-> inode[k]] /\ Clean(p, proc[p], dir)
        /\ dir["list"] \in {0} \cup Inodes /\ dir["list~"] \in {0} \cup Inodes
    BY ListParts
  <1>2. Clean(p, r, dir')
    BY <1>1 DEF Clean, Working, Appending
  <1>3. proc[p].at \notin Appending
    BY <1>1 DEF Clean
  <1>4. inode' = [k \in Inodes |-> inode'[k]] /\ \A k \in Inodes : k # proc[p].ino => inode'[k] = inode[k]
    BY ONLY <1>1, inode' = inode \/ \E x : inode' = [inode EXCEPT ![proc[p].ino] = x]
  <1>5. /\ dir["list"] # 0 => inode'[dir["list"]] = inode[dir["list"]]
        /\ dir["list~"] # 0 => inode'[dir["list~"]] = inode[dir["list~"]]
    BY <1>1, <1>4 DEF Clean
  <1>6. DirOK(dir')
    BY <1>1
  <1> QED BY <1>2, <1>3, <1>4, <1>5, <1>6, AwayKeeps

(* What the data of Main are, at work on the scratch file of the list. *)
LEMMA ListData ==
    ASSUME ListInv, proc[Main].name = "list", proc[Main].at \in {"open"} \cup Working
    PROVE  /\ proc[Main].op \in {"append", "replace"} /\ proc[Main].data \in Seq(PieceSet)
           /\ ScratchOK(proc[Main], dir, inode, flaw)
           /\ ContentOK(Len(Stored(dir, inode)), Stored(dir, inode), acked, flaw)
           /\ AppendOK(proc[Main], dir, Stored(dir, inode))
  <1>1. Clean(Main, proc[Main], dir) /\ MainOK(proc[Main], dir, inode, acked, flaw)
    BY ListParts, StoreAssumption
  <1>2. proc[Main].op \in {"append", "replace"}
    BY ONLY <1>1, proc[Main].name = "list" DEF Clean
  <1>3. ScratchOK(proc[Main], dir, inode, flaw) /\ AppendOK(proc[Main], dir, Stored(dir, inode))
    BY ONLY <1>1 DEF MainOK
  <1>4. proc[Main].at \notin Appending
    BY DEF Working, Appending
  <1>5. ContentOK(Len(Stored(dir, inode)), Stored(dir, inode), acked, flaw)
    BY ONLY <1>1, <1>4 DEF MainOK, Base
  <1>6. /\ proc[Main].op = "append" => proc[Main].val \in Nat /\ proc[Main].data = Pieces(proc[Main].val)
        /\ proc[Main].op = "replace" => proc[Main].val \in Seq(Nat) /\ proc[Main].data = Whole(proc[Main].val)
    BY <1>3 DEF ScratchOK
  <1>7. proc[Main].data \in Seq(PieceSet)
    BY ONLY <1>2, <1>6, ItemFacts, WholeFacts
  <1> QED BY <1>2, <1>3, <1>5, <1>7

(* A step on the scratch file of the list leaves the list itself alone. *)
LEMMA ListScratchStep ==
    ASSUME ListInv, proc[Main].name = "list", proc[Main].at \in Working, NEW r,
           proc' = [proc EXCEPT ![Main] = r], IsRec(r), r.name = "list", r.op = proc[Main].op,
           r.at \in Working, dir' = dir, inode' = [k \in Inodes |-> inode'[k]],
           dir["list"] # 0 => inode'[dir["list"]] = inode[dir["list"]],
           ScratchOK(r, dir, inode', flaw), UNCHANGED <<items, acked, flaw>>
    PROVE  ListInv'
  <1>1. acked \in Seq(Nat) /\ items \in Nat
    BY DEF ListInv
  <1>2. /\ proc[Main].op \in {"append", "replace"}
        /\ ContentOK(Len(Stored(dir, inode)), Stored(dir, inode), acked, flaw)
    BY ListData
  <1>3. r.at \notin Appending \cup {"r+", "open"}
    BY DEF Working, Appending
  <1>4. Clean(Main, r, dir)
    BY <1>2, <1>3 DEF Clean
  <1>5. Stored(dir, inode') = Stored(dir, inode)
    BY DEF Stored
  <1>6. AppendOK(r, dir, Stored(dir, inode))
    BY ONLY <1>3 DEF AppendOK
  <1>7. Base(r, Stored(dir, inode)) = Len(Stored(dir, inode))
    BY ONLY <1>3 DEF Base
  <1>8. MainOK(r, dir, inode', acked', flaw')
    BY <1>2, <1>5, <1>6, <1>7 DEF MainOK
  <1> QED BY <1>1, <1>4, <1>8, MainStep

(* A piece is written to a scratch file, or there is none left. *)
LEMMA WriteScratchList ==
    ASSUME ListInv, NEW p \in Procs, WriteScratch(p)
    PROVE  ListInv'
  <1>1. /\ inode = [k \in Inodes |-> inode[k]] /\ IsRec(proc[p])
        /\ proc[p].name \in {"dat", "list"} /\ (proc[p].name = "list" => p = Main)
        /\ dir["list"] \in {0} \cup Inodes /\ dir["list~"] \in {0} \cup Inodes
        /\ dir["list"] # 0 => dir["list~"] # dir["list"]
    BY ListParts
  <1>2. proc[p].at = "write" /\ dir' = dir /\ UNCHANGED <<items, acked, flaw>>
    BY DEF WriteScratch
  <1>3. CASE proc[p].n = Len(proc[p].data)
    <2>1. PICK r : r = [proc[p] EXCEPT !.at = "close"]
      OBVIOUS
    <2>2. proc' = [proc EXCEPT ![p] = r] /\ inode' = inode
      BY <1>3, <2>1 DEF WriteScratch, Go
    <2>3. IsRec(r) /\ r.at = "close" /\ SameBut(proc[p], r, {"at"})
      BY ONLY <1>1, <2>1, SetAt
    <2>4. /\ r.name = proc[p].name /\ r.op = proc[p].op /\ r.val = proc[p].val /\ r.data = proc[p].data
          /\ r.ino = proc[p].ino /\ r.at \in Working
      BY ONLY <2>3 DEF SameBut, Working
    <2>5. CASE proc[p].name = "dat"
      BY <1>2, <2>2, <2>3, <2>4, <2>5, TableStep
    <2>6. CASE proc[p].name = "list"
      <3>1. p = Main /\ proc[Main].at \in Working
        BY <1>1, <1>2, <2>6 DEF Working
      <3>2. proc[p].data \in Seq(PieceSet) /\ ScratchOK(proc[p], dir, inode, flaw)
        BY <2>6, <3>1, ListData
      <3>3. PICK f : f = inode[dir["list~"]]
        OBVIOUS
      <3>4. /\ proc[p].n \in 0..Len(proc[p].data) /\ f \in Seq(PieceSet) /\ Len(f) = proc[p].n
            /\ \A k \in 1..proc[p].n : f[k] = proc[p].data[k]
        BY ONLY <1>2, <2>6, <3>2, <3>3 DEF ScratchOK, Working
      <3>5. f = proc[p].data
        BY ONLY <1>3, <3>2, <3>4, SeqEqual
      <3>6. ScratchOK(r, dir, inode', flaw)
        BY ONLY <1>2, <2>2, <2>3, <2>4, <2>6, <3>2, <3>3, <3>5 DEF ScratchOK, Working
      <3>7. dir["list"] # 0 => inode'[dir["list"]] = inode[dir["list"]]
        BY <2>2
      <3> QED BY ONLY ListInv, <1>1, <1>2, <2>2, <2>3, <2>4, <2>6, <3>1, <3>6, <3>7, ListScratchStep
    <2> QED BY <1>1, <2>5, <2>6
  <1>4. CASE proc[p].n # Len(proc[p].data)
    <2>1. PICK r, new : /\ r = [proc[p] EXCEPT !.n = @ + 1]
                        /\ new = WriteAt(inode[proc[p].ino], proc[p].n, proc[p].data[proc[p].n + 1])
      OBVIOUS
    <2>2. proc' = [proc EXCEPT ![p] = r] /\ inode' = [inode EXCEPT ![proc[p].ino] = new]
      BY <1>4, <2>1 DEF WriteScratch
    <2>3. IsRec(r) /\ r.n = proc[p].n + 1 /\ SameBut(proc[p], r, {"n"})
      BY ONLY <1>1, <2>1, SetN
    <2>4. /\ r.name = proc[p].name /\ r.op = proc[p].op /\ r.val = proc[p].val /\ r.data = proc[p].data
          /\ r.ino = proc[p].ino /\ r.at = "write" /\ r.at \in Working
      BY ONLY <1>2, <2>3 DEF SameBut, Working
    <2>5. CASE proc[p].name = "dat"
      BY <1>2, <2>2, <2>3, <2>4, <2>5, TableStep
    <2>6. CASE proc[p].name = "list"
      <3>1. p = Main /\ proc[Main].at \in Working
        BY <1>1, <1>2, <2>6 DEF Working
      <3>2. proc[p].data \in Seq(PieceSet) /\ ScratchOK(proc[p], dir, inode, flaw)
        BY <2>6, <3>1, ListData
      <3>3. PICK f, j, n : f = inode[dir["list~"]] /\ j = dir["list~"] /\ n = proc[p].n
        OBVIOUS
      <3>4. /\ n \in 0..Len(proc[p].data) /\ f \in Seq(PieceSet) /\ Len(f) = n /\ j # 0 /\ proc[p].ino = j
            /\ \A k \in 1..n : f[k] = proc[p].data[k]
        BY ONLY <1>2, <2>6, <3>2, <3>3 DEF ScratchOK, Working
      <3>5. n + 1 \in 1..Len(proc[p].data) /\ n \in Nat /\ n + 1 \in 0..Len(proc[p].data)
        <4>1. Len(proc[p].data) \in Nat
          BY ONLY <3>2, LenProperties
        <4> QED BY <1>4, <3>3, <3>4, <4>1
      <3>6. PICK x : x = proc[p].data[n + 1] /\ x \in PieceSet
        BY ONLY <3>2, <3>5, ElementOfSeq
      <3>7. new \in Seq(PieceSet) /\ Len(new) = n + 1 /\ new[n + 1] = x /\ \A k \in 1..n : new[k] = f[k]
        <4>1. new = WriteAt(f, n, x)
          BY ONLY <2>1, <3>3, <3>4, <3>6
        <4>2. f \in Seq(PieceSet) /\ n = Len(f) /\ x \in PieceSet
          BY ONLY <3>4, <3>6
        <4> QED BY ONLY <4>1, <4>2, WriteAtEnd
      <3>8. \A k \in 1..n + 1 : new[k] = proc[p].data[k]
        <4>1. \A k \in 1..n + 1 : k = n + 1 \/ k \in 1..n
          BY <3>5
        <4> QED BY ONLY <3>4, <3>6, <3>7, <4>1
      <3>9. inode'[j] = new /\ inode' = [k \in Inodes |-> inode'[k]] /\ \A k \in Inodes : k # j => inode'[k] = inode[k]
        BY ONLY <1>1, <2>2, <3>3, <3>4
      <3>10. ScratchOK(r, dir, inode', flaw)
        BY ONLY <1>2, <2>3, <2>4, <2>6, <3>2, <3>3, <3>4, <3>5, <3>7, <3>8, <3>9 DEF ScratchOK, Working
      <3>11. dir["list"] # 0 => inode'[dir["list"]] = inode[dir["list"]]
        BY ONLY <1>1, <3>3, <3>9
      <3> QED BY ONLY ListInv, <1>2, <2>2, <2>3, <2>4, <2>6, <3>1, <3>9, <3>10, <3>11, ListScratchStep
    <2> QED BY <1>1, <2>5, <2>6
  <1> QED BY <1>3, <1>4

(* A scratch file is closed. *)
LEMMA CloseScratchList ==
    ASSUME ListInv, NEW p \in Procs, CloseScratch(p)
    PROVE  ListInv'
  <1>1. /\ inode = [k \in Inodes |-> inode[k]] /\ IsRec(proc[p]) /\ proc = [q \in Procs |-> proc[q]]
        /\ proc[p].name \in {"dat", "list"} /\ (proc[p].name = "list" => p = Main)
    BY ListParts
  <1>2. PICK s1, r : s1 = [proc[p] EXCEPT !.at = "rename"] /\ r = [s1 EXCEPT !.ino = 0]
    OBVIOUS
  <1>3. /\ proc' = [proc EXCEPT ![p] = r] /\ dir' = dir /\ inode' = inode /\ proc[p].at = "close"
        /\ UNCHANGED <<items, acked, flaw>>
    BY <1>1, <1>2 DEF CloseScratch
  <1>4. IsRec(s1) /\ s1.at = "rename" /\ SameBut(proc[p], s1, {"at"})
    BY ONLY <1>1, <1>2, SetAt
  <1>5. IsRec(r) /\ r.ino = 0 /\ SameBut(s1, r, {"ino"})
    BY ONLY <1>2, <1>4, SetIno
  <1>6. /\ r.name = proc[p].name /\ r.op = proc[p].op /\ r.val = proc[p].val /\ r.data = proc[p].data
        /\ r.at = "rename" /\ r.at \in Working
    BY ONLY <1>4, <1>5 DEF SameBut, Working
  <1>7. CASE proc[p].name = "dat"
    BY <1>3, <1>5, <1>6, <1>7, TableStep
  <1>8. CASE proc[p].name = "list"
    <2>1. p = Main /\ proc[Main].at \in Working
      BY <1>1, <1>3, <1>8 DEF Working
    <2>2. ScratchOK(proc[p], dir, inode, flaw)
      BY <1>8, <2>1, ListData
    <2>3. ScratchOK(r, dir, inode', flaw)
      BY ONLY <1>3, <1>6, <1>8, <2>2 DEF ScratchOK, Working
    <2>4. inode' = [k \in Inodes |-> inode'[k]]
      BY <1>1, <1>3
    <2>5. dir["list"] # 0 => inode'[dir["list"]] = inode[dir["list"]]
      BY <1>3
    <2> QED BY ONLY ListInv, <1>3, <1>5, <1>6, <1>8, <2>1, <2>3, <2>4, <2>5, ListScratchStep
  <1> QED BY <1>1, <1>7, <1>8

(* An ending leaves p with nothing to do with the list. *)
LEMMA EndingClean ==
    ASSUME ListInv, NEW p \in Procs, NEW d, DirOK(d), NEW e, Ending(p, d, e)
    PROVE  /\ \E r : proc' = [proc EXCEPT ![p] = r] /\ r.name = "dat" /\ \A f : Clean(p, r, f)
           /\ dir' = e /\ DirOK(e) /\ inode' = [k \in Inodes |-> inode'[k]]
           /\ \A m \in Names : e[m] # 0 => inode'[e[m]] = inode[e[m]]
           /\ \A m \in Names : e[m] = d[m] \/ (m = proc[p].name /\ e[m] = 0)
  <1>1. /\ IsRec(proc[p]) /\ proc[p].name \in {"dat", "list"} /\ proc = [q \in Procs |-> proc[q]]
        /\ Clean(p, proc[p], dir)
    BY ListParts
  <1>2. DirOK(e) /\ \A m \in Names : e[m] = d[m] \/ (m = proc[p].name /\ e[m] = 0)
    BY <1>1 DEF Ending, DirOK, Names
  <1>3. dir' = e /\ inode' = [k \in Inodes |-> inode'[k]]
    BY DEF Ending, Link
  <1>4. ASSUME NEW m \in Names, e[m] # 0 PROVE inode'[e[m]] = inode[e[m]]
    <2>1. e[m] \in Inodes
      BY <1>2, <1>4 DEF DirOK
    <2>2. inode' = [k \in Inodes |->
            IF (\E n \in Names : e[n] = k) \/ \E q \in Procs \ {p} : proc[q].ino = k
            THEN inode[k] ELSE <<>>]
      BY DEF Ending, Link
    <2> QED BY <2>1, <2>2
  <1>5. \E r : proc' = [proc EXCEPT ![p] = r] /\ r.name = "dat" /\ \A f : Clean(p, r, f)
    <2>1. ASSUME NEW result \in {"ok", "failed"}, Return(p, result)
          PROVE  \E r : proc' = [proc EXCEPT ![p] = r] /\ r.name = "dat" /\ \A f : Clean(p, r, f)
      <3>1. PICK r : r = [Resting EXCEPT !.at = result] /\ proc' = [proc EXCEPT ![p] = r]
        BY <2>1 DEF Return
      <3> QED BY <3>1, ReturnedClean
    <2>2. CASE /\ proc[p].op = "store"
               /\ proc' = [proc EXCEPT ![p].at = "open", ![p].retry = TRUE, ![p].ino = 0]
      <3>1. PICK yes : yes = TRUE
        OBVIOUS
      <3>2. PICK s1, s2, r : /\ s1 = [proc[p] EXCEPT !.at = "open"] /\ s2 = [s1 EXCEPT !.retry = yes]
                             /\ r = [s2 EXCEPT !.ino = 0]
        OBVIOUS
      <3>3. proc' = [proc EXCEPT ![p] = r]
        BY <1>1, <2>2, <3>1, <3>2
      <3>4. IsRec(s1) /\ s1.at = "open" /\ SameBut(proc[p], s1, {"at"})
        BY ONLY <1>1, <3>2, SetAt
      <3>5. IsRec(s2) /\ SameBut(s1, s2, {"retry"})
        BY ONLY <3>2, <3>4, SetRetry
      <3>6. IsRec(r) /\ r.ino = 0 /\ SameBut(s2, r, {"ino"})
        BY ONLY <3>2, <3>5, SetIno
      <3>7. r.at = "open" /\ r.name = proc[p].name /\ r.op = "store"
        BY ONLY <2>2, <3>4, <3>5, <3>6 DEF SameBut
      <3>8. r.name = "dat"
        BY ONLY <1>1, <2>2, <3>7 DEF Clean
      <3>9. ASSUME NEW f PROVE Clean(p, r, f)
        BY ONLY <3>6, <3>7, <3>8 DEF Clean, Appending
      <3> QED BY <3>3, <3>8, <3>9
    <2> QED BY <2>1, <2>2 DEF Ending
  <1> QED BY <1>2, <1>3, <1>4, <1>5

(* An ending that leaves the list as it is. *)
LEMMA EndAway ==
    ASSUME ListInv, NEW p \in Procs, proc[p].at \notin Appending, NEW d, DirOK(d), NEW e, Ending(p, d, e),
           e["list"] = dir["list"], e["list~"] = dir["list~"] \/ (p = Main /\ e["list~"] = 0),
           UNCHANGED <<items, acked, flaw>>
    PROVE  ListInv'
  <1>1. PICK r : proc' = [proc EXCEPT ![p] = r] /\ r.name = "dat" /\ \A f : Clean(p, r, f)
    BY EndingClean
  <1>2. /\ dir' = e /\ DirOK(e) /\ inode' = [k \in Inodes |-> inode'[k]]
        /\ \A m \in Names : e[m] # 0 => inode'[e[m]] = inode[e[m]]
    BY EndingClean
  <1>3. /\ dir["list"] # 0 => inode'[dir["list"]] = inode[dir["list"]]
        /\ e["list~"] # 0 => inode'[e["list~"]] = inode[e["list~"]]
    BY <1>2 DEF Names
  <1>4. /\ dir'["list"] = dir["list"] /\ DirOK(dir') /\ Clean(p, r, dir')
        /\ \/ /\ dir'["list~"] = dir["list~"]
              /\ dir["list~"] # 0 => inode'[dir["list~"]] = inode[dir["list~"]]
           \/ p = Main /\ dir'["list~"] = 0
    BY <1>1, <1>2, <1>3
  <1> QED BY <1>1, <1>2, <1>3, <1>4, AwayKeeps

(* io_open, write or close of a scratch file fails. *)
LEMMA ScratchFailsList ==
    ASSUME ListInv, NEW p \in Procs, ScratchFails(p)
    PROVE  ListInv'
  <1>1. /\ DirOK(dir) /\ proc[p].name \in {"dat", "list"} /\ (proc[p].name = "list" => p = Main)
        /\ Clean(p, proc[p], dir)
    BY ListParts
  <1>2. proc[p].at \notin Appending /\ UNCHANGED <<items, acked, flaw>>
    BY DEF ScratchFails, Appending
  <1>3. PICK d, e : /\ d = IF proc[p].at = "open" THEN dir ELSE [dir EXCEPT ![Scratch(proc[p].name)] = 0]
                    /\ Ending(p, d, e) /\ (proc[p].op # "store" => e = d)
    BY ScratchFailsEnds
  <1>4. DirOK(d) /\ d["list"] = dir["list"]
    BY ONLY <1>1, <1>3 DEF DirOK, Names, Scratch
  <1>5. \A m \in Names : e[m] = d[m] \/ (m = proc[p].name /\ e[m] = 0)
    <2>1. DirOK(d) /\ Ending(p, d, e)
      BY <1>3, <1>4
    <2> QED BY ONLY ListInv, p \in Procs, <2>1, EndingClean
  <1>6. CASE proc[p].name = "dat"
    <2>1. d["list~"] = dir["list~"]
      BY ONLY <1>1, <1>3, <1>6 DEF DirOK, Names, Scratch
    <2>2. e["list"] = dir["list"] /\ e["list~"] = dir["list~"]
      BY ONLY <1>4, <1>5, <1>6, <2>1 DEF Names
    <2> QED BY <1>2, <1>3, <1>4, <2>2, EndAway
  <1>7. CASE proc[p].name = "list"
    <2>1. p = Main /\ e = d
      BY ONLY <1>1, <1>3, <1>7 DEF Clean
    <2>2. d["list~"] \in {0, dir["list~"]}
      BY ONLY <1>1, <1>3, <1>7 DEF DirOK, Names, Scratch
    <2> QED BY <1>2, <1>3, <1>4, <2>1, <2>2, EndAway
  <1> QED BY <1>1, <1>6, <1>7

(* A list of nothing. *)
LEMMA NothingRead ==
    ASSUME NEW s
    PROVE  Readable(s, 0)
  BY DEF Readable

(* The scratch file, complete, takes the place of the list. *)
LEMMA Replaced ==
    ASSUME NEW r, NEW d, NEW i, NEW a \in Seq(Nat), NEW fl, r.name = "list", r.at = "rename",
           r.op \in {"append", "replace"}, ScratchOK(r, d, i, fl),
           ContentOK(Len(Stored(d, i)), Stored(d, i), a, fl),
           NEW b, b = CASE r.op = "replace" -> r.val [] r.op = "append" -> Append(a, r.val) [] OTHER -> a
    PROVE  b \in Seq(Nat) /\ ContentOK(Len(r.data), r.data, b, fl)
  <1>1. CASE r.op = "replace"
    <2>1. r.val \in Seq(Nat) /\ r.data = Whole(r.val) /\ b = r.val
      BY <1>1 DEF ScratchOK, Working
    <2>2. /\ Whole(b) \in Seq(PieceSet) /\ Len(Whole(b)) = 2 * Len(b)
          /\ Holds(Whole(b), 2 * Len(b), b) /\ Readable(Whole(b), 2 * Len(b))
      BY ONLY <2>1, WholeFacts
    <2> QED BY ONLY <2>1, <2>2 DEF ContentOK
  <1>2. CASE r.op = "append"
    <2>1. PICK x : x = r.val
      OBVIOUS
    <2>2. /\ x \in Nat /\ r.data = Pieces(x) /\ b = Append(a, x) /\ ("denied" \notin fl => d["list"] = 0)
      BY <1>2, <2>1 DEF ScratchOK, Working
    <2>3. /\ Pieces(x) \in Seq(PieceSet) /\ Len(Pieces(x)) = 2
          /\ Pieces(x)[1] = <<x, 1>> /\ Pieces(x)[2] = <<x, 2>>
      BY ONLY <2>2, ItemFacts
    <2>4. PICK t : t = Pieces(x)
      OBVIOUS
    <2>5. t[0 + 1] = <<x, 1>> /\ t[0 + 2] = <<x, 2>> /\ 0 + 2 = 2 /\ 0 \in Nat /\ 0 <= 0 /\ 1..0 = {}
      BY ONLY <2>3, <2>4
    <2>6. Readable(t, 2)
      BY ONLY <2>5, NothingRead, ReadableNext
    <2>7. "denied" \notin fl => Holds(t, 2, b)
      <3> SUFFICES ASSUME "denied" \notin fl PROVE Holds(t, 2, b)
        OBVIOUS
      <3>1. Stored(d, i) = <<>> /\ Len(<<>>) = 0
        BY <2>2 DEF Stored
      <3>2. Holds(<<>>, 0, a)
        BY <3>1 DEF ContentOK
      <3>3. Holds(t, 0, a)
        BY ONLY <2>5, <3>2, HoldsOn, a \in Seq(Nat)
      <3>4. Holds(t, 2, Append(a, x))
        BY ONLY <2>2, <2>5, <3>3, HoldsNext, a \in Seq(Nat)
      <3> QED BY <2>2, <3>4
    <2>8. b \in Seq(Nat)
      BY ONLY <2>2, AppendProperties, a \in Seq(Nat)
    <2>9. t \in Seq(PieceSet) /\ Len(t) = 2 /\ t = r.data
      BY ONLY <2>2, <2>3, <2>4
    <2> QED BY ONLY <2>6, <2>7, <2>8, <2>9 DEF ContentOK
  <1> QED BY <1>1, <1>2

(* A scratch file takes the place of its file. *)
LEMMA RenameList ==
    ASSUME ListInv, NEW p \in Procs, Rename(p)
    PROVE  ListInv'
  <1>1. /\ DirOK(dir) /\ proc[p].name \in {"dat", "list"} /\ (proc[p].name = "list" => p = Main)
        /\ \A q \in Procs : Clean(q, proc[q], dir)
        /\ acked \in Seq(Nat) /\ items \in Nat
    BY ListParts
  <1>2. /\ proc[p].at = "rename" /\ proc[p].at \notin Appending /\ proc[p].at \in Working
        /\ items' = items /\ flaw' = flaw
    BY DEF Rename, Appending, Working
  <1>3. PICK s, d : /\ s = Scratch(proc[p].name)
                    /\ d = IF dir[s] # 0 THEN [dir EXCEPT ![proc[p].name] = dir[s], ![s] = 0] ELSE dir
    OBVIOUS
  <1>4. s = IF proc[p].name = "dat" THEN "dat~" ELSE "list~"
    BY ONLY <1>3 DEF Scratch
  <1>5. PICK e : Ending(p, d, e) /\ (proc[p].op # "store" /\ dir[s] # 0 => Emptied(p, d, e))
    BY ONLY <1>3, RenameEnds, Rename(p), p \in Procs
  <1>6. acked' = CASE dir[s] # 0 /\ proc[p].op = "replace" -> proc[p].val
                  [] dir[s] # 0 /\ proc[p].op = "append" -> Append(acked, proc[p].val)
                  [] OTHER -> acked
    BY <1>3 DEF Rename
  <1>7. DirOK(d)
    BY ONLY <1>1, <1>3, <1>4 DEF DirOK, Names
  <1>8. PICK r : proc' = [proc EXCEPT ![p] = r] /\ r.name = "dat" /\ \A f : Clean(p, r, f)
    BY ONLY ListInv, p \in Procs, <1>5, <1>7, EndingClean
  <1>9. /\ dir' = e /\ DirOK(e) /\ inode' = [k \in Inodes |-> inode'[k]]
        /\ \A m \in Names : e[m] # 0 => inode'[e[m]] = inode[e[m]]
        /\ \A m \in Names : e[m] = d[m] \/ (m = proc[p].name /\ e[m] = 0)
    BY ONLY ListInv, p \in Procs, <1>5, <1>7, EndingClean
  <1>10. CASE proc[p].name = "dat"
    <2>1. d["list"] = dir["list"] /\ d["list~"] = dir["list~"]
      BY ONLY <1>1, <1>3, <1>4, <1>10 DEF DirOK, Names
    <2>2. e["list"] = dir["list"] /\ e["list~"] = dir["list~"]
      BY ONLY <1>9, <1>10, <2>1 DEF Names
    <2>3. proc[p].op \in {"none", "store"}
      BY ONLY <1>1, <1>10, p \in Procs DEF Clean
    <2>4. acked' = acked
      BY ONLY <1>6, <2>3
    <2> QED BY <1>2, <1>5, <1>7, <2>2, <2>4, EndAway
  <1>11. CASE proc[p].name = "list"
    <2>1. p = Main /\ s = "list~"
      BY ONLY <1>1, <1>4, <1>11
    <2>2. /\ proc[p].op \in {"append", "replace"} /\ proc[p].data \in Seq(PieceSet)
          /\ ScratchOK(proc[p], dir, inode, flaw)
          /\ ContentOK(Len(Stored(dir, inode)), Stored(dir, inode), acked, flaw)
      BY ONLY ListInv, <1>2, <1>11, <2>1, ListData
    <2>3. dir["list~"] # 0 /\ inode[dir["list~"]] = proc[p].data
      BY ONLY <1>2, <1>11, <2>2 DEF ScratchOK, Working
    <2>4. d["list"] = dir["list~"] /\ d["list~"] = 0
      BY ONLY <1>1, <1>3, <1>11, <2>1, <2>3 DEF DirOK, Names
    <2>5. proc[p].op # "store" /\ dir[s] # 0
      BY ONLY <2>1, <2>2, <2>3
    <2>6. /\ e["list~"] = 0 /\ (proc[p].data = <<>> => e["list"] = 0)
          /\ (proc[p].data # <<>> => e["list"] = dir["list~"])
      <3>1. CASE proc[p].data = <<>>
        <4>1. e = [d EXCEPT !["list"] = 0]
          BY ONLY <1>5, <1>11, <2>5, <3>1 DEF Emptied
        <4> QED BY ONLY <1>7, <2>4, <3>1, <4>1 DEF DirOK, Names
      <3>2. CASE proc[p].data # <<>>
        BY ONLY <1>5, <2>4, <2>5, <3>2 DEF Emptied
      <3> QED BY <3>1, <3>2
    <2>7. Stored(dir', inode') = proc[p].data
      <3>1. e["list"] # 0 => inode'[e["list"]] = inode[e["list"]]
        BY ONLY <1>9 DEF Names
      <3> QED BY ONLY <1>9, <2>3, <2>6, <3>1 DEF Stored
    <2>8. PICK b : b = acked'
      OBVIOUS
    <2>9. b = CASE proc[p].op = "replace" -> proc[p].val [] proc[p].op = "append" -> Append(acked, proc[p].val)
                [] OTHER -> acked
      BY ONLY <1>6, <2>2, <2>5, <2>8
    <2>10. b \in Seq(Nat) /\ ContentOK(Len(proc[p].data), proc[p].data, b, flaw)
      BY ONLY <1>1, <1>2, <1>11, <2>2, <2>9, Replaced
    <2>11. Clean(p, r, dir')
      BY <1>8
    <2>12. r.at \notin Appending \cup {"r+"}
      BY ONLY <1>8, <2>11 DEF Clean
    <2>13. MainOK(r, dir', inode', b, flaw)
      <3>1. AppendOK(r, dir', proc[p].data)
        BY ONLY <2>12 DEF AppendOK
      <3>2. ScratchOK(r, dir', inode', flaw)
        BY ONLY <1>8 DEF ScratchOK
      <3>3. Base(r, proc[p].data) = Len(proc[p].data)
        BY ONLY <2>12 DEF Base
      <3> QED BY ONLY <2>7, <2>10, <3>1, <3>2, <3>3 DEF MainOK
    <2>14. \A q \in Procs \ {p} : \A m \in {"list", "list~"} :
               proc[q].name = "dat" /\ dir'[m] # 0 => proc[q].ino # dir'[m]
      <3> SUFFICES ASSUME NEW q \in Procs \ {p}, proc[q].name = "dat"
                   PROVE  /\ dir'["list"] # 0 => proc[q].ino # dir'["list"]
                          /\ dir'["list~"] # 0 => proc[q].ino # dir'["list~"]
        OBVIOUS
      <3>1. dir["list~"] # 0 => proc[q].ino # dir["list~"]
        BY <1>1 DEF Clean
      <3> QED BY ONLY <1>9, <2>6, <3>1
    <2>15. DirOK(dir') /\ inode' = [k \in Inodes |-> inode'[k]] /\ acked' \in Seq(Nat) /\ items' \in Nat
           /\ MainOK(r, dir', inode', acked', flaw')
      BY <1>1, <1>2, <1>9, <2>8, <2>10, <2>13
    <2> QED BY ONLY ListInv, p \in Procs, <1>8, <2>1, <2>11, <2>14, <2>15, ListAssembled
  <1> QED BY <1>1, <1>10, <1>11

(* What an append under way starts from. *)
LEMMA AppendParts ==
    ASSUME ListInv, NEW p \in Procs, proc[p].at \in Appending
    PROVE  /\ p = Main /\ proc[p].name = "list" /\ IsRec(proc[p]) /\ Clean(Main, proc[Main], dir)
           /\ proc[p].op = "append" /\ proc[p].val \in Nat /\ proc[p].data = Pieces(proc[p].val)
           /\ dir["list"] \in Inodes /\ dir["list"] # 0 /\ proc[p].ino = dir["list"]
           /\ inode = [k \in Inodes |-> inode[k]] /\ acked \in Seq(Nat) /\ items \in Nat
           /\ \E s : /\ s = inode[dir["list"]] /\ s = Stored(dir, inode) /\ s \in Seq(PieceSet)
                     /\ ContentOK(proc[p].pos, s, acked, flaw)
                     /\ proc[p].pos \in Nat /\ proc[p].n \in 0..2 /\ Len(s) = proc[p].pos + proc[p].n
                     /\ proc[p].at = "alloc" => proc[p].n = 0
                     /\ proc[p].at = "fclose" => proc[p].n = 2
                     /\ \A k \in 1..proc[p].n : s[proc[p].pos + k] = <<proc[p].val, k>>
  <1>1. /\ inode = [k \in Inodes |-> inode[k]] /\ acked \in Seq(Nat) /\ items \in Nat
        /\ Clean(p, proc[p], dir) /\ MainOK(proc[Main], dir, inode, acked, flaw)
        /\ dir["list"] \in {0} \cup Inodes /\ IsRec(proc[p])
    BY ListParts
  <1>2. proc[p].name = "list" /\ p = Main
    BY ONLY <1>1, proc[p].at \in Appending DEF Clean
  <1>3. PICK s : s = Stored(dir, inode)
    OBVIOUS
  <1>4. AppendOK(proc[p], dir, s) /\ ContentOK(proc[p].pos, s, acked, flaw)
    BY ONLY <1>1, <1>2, <1>3, proc[p].at \in Appending DEF MainOK, Base
  <1>5. /\ proc[p].op = "append" /\ proc[p].val \in Nat /\ proc[p].data = Pieces(proc[p].val)
        /\ dir["list"] # 0 /\ proc[p].ino = dir["list"]
        /\ proc[p].pos \in Nat /\ proc[p].n \in 0..2 /\ Len(s) = proc[p].pos + proc[p].n
        /\ proc[p].at = "alloc" => proc[p].n = 0
        /\ proc[p].at = "fclose" => proc[p].n = 2
        /\ \A k \in 1..proc[p].n : s[proc[p].pos + k] = <<proc[p].val, k>>
    BY ONLY <1>4, proc[p].at \in Appending DEF AppendOK
  <1>6. s = inode[dir["list"]] /\ s \in Seq(PieceSet)
    BY ONLY <1>3, <1>4, <1>5 DEF Stored, ContentOK
  <1> QED BY ONLY <1>1, <1>2, <1>3, <1>4, <1>5, <1>6

(* Main returns from an append: the file holds what it is to hold. *)
LEMMA AppendReturns ==
    ASSUME ListInv, NEW p \in Procs, proc[p].at \in Appending,
           NEW result \in {"idle", "ok", "failed", "raised"}, Return(p, result), dir' = dir, items' = items,
           inode' = [k \in Inodes |-> inode'[k]], NEW s, s = inode'[dir["list"]], acked' \in Seq(Nat),
           ContentOK(Len(s), s, acked', flaw')
    PROVE  ListInv'
  <1>1. p = Main /\ dir["list"] # 0 /\ items \in Nat
    BY AppendParts
  <1>2. PICK r : r = [Resting EXCEPT !.at = result] /\ proc' = [proc EXCEPT ![Main] = r]
    BY <1>1 DEF Return
  <1>3. r.name = "dat" /\ r.at = result /\ Clean(Main, r, dir)
    BY ONLY <1>2, ReturnedClean, result \in {"idle", "ok", "failed", "raised"}
  <1>4. r.at \notin Appending \cup {"r+"}
    BY ONLY <1>3 DEF Clean
  <1>5. Stored(dir, inode') = s
    BY <1>1 DEF Stored
  <1>6. AppendOK(r, dir, s) /\ ScratchOK(r, dir, inode', flaw') /\ Base(r, s) = Len(s)
    BY ONLY <1>3, <1>4 DEF AppendOK, ScratchOK, Base
  <1>7. MainOK(r, dir, inode', acked', flaw')
    BY ONLY <1>5, <1>6, ContentOK(Len(s), s, acked', flaw') DEF MainOK
  <1> QED BY <1>1, <1>2, <1>3, <1>7, MainStep

(* Main goes on with an append: s is what the file becomes. *)
LEMMA AppendGoesOn ==
    ASSUME ListInv, NEW p \in Procs, proc[p].at \in Appending, NEW r, proc' = [proc EXCEPT ![p] = r],
           IsRec(r), SameBut(proc[p], r, {"at", "n"}), r.at \in Appending, r.n \in 0..2,
           r.at = "alloc" => r.n = 0, r.at = "fclose" => r.n = 2,
           NEW s \in Seq(PieceSet), s = inode'[dir["list"]], Len(s) = proc[p].pos + r.n,
           \A k \in 1..r.n : s[proc[p].pos + k] = <<proc[p].val, k>>,
           inode' = [k \in Inodes |-> inode'[k]], ContentOK(proc[p].pos, s, acked, flaw),
           UNCHANGED <<dir, items, acked, flaw>>
    PROVE  ListInv'
  <1>1. /\ p = Main /\ proc[p].name = "list" /\ Clean(Main, proc[Main], dir) /\ proc[p].op = "append"
        /\ proc[p].val \in Nat /\ proc[p].data = Pieces(proc[p].val) /\ dir["list"] # 0
        /\ proc[p].ino = dir["list"] /\ acked \in Seq(Nat) /\ items \in Nat
    BY AppendParts
  <1>2. proc[p].pos \in Nat
    BY AppendParts
  <1>3. /\ r.name = proc[p].name /\ r.op = proc[p].op /\ r.val = proc[p].val /\ r.data = proc[p].data
        /\ r.ino = proc[p].ino /\ r.pos = proc[p].pos
    BY ONLY SameBut(proc[p], r, {"at", "n"}) DEF SameBut
  <1>4. r.at \notin {"r+", "open"} \cup Working
    BY ONLY r.at \in Appending DEF Appending, Working
  <1>5. Clean(Main, r, dir)
    BY <1>1, <1>3, <1>4 DEF Clean
  <1>6. Stored(dir, inode') = s
    BY <1>1 DEF Stored
  <1>7. AppendOK(r, dir, s)
    BY <1>1, <1>2, <1>3, <1>4 DEF AppendOK
  <1>8. ScratchOK(r, dir, inode', flaw)
    BY ONLY <1>4 DEF ScratchOK
  <1>9. Base(r, s) = proc[p].pos
    BY <1>3 DEF Base
  <1>10. MainOK(r, dir, inode', acked', flaw')
    BY <1>6, <1>7, <1>8, <1>9 DEF MainOK
  <1> QED BY <1>1, <1>5, <1>10, MainStep

(* append opens the list, or takes it for one that does not exist. *)
LEMMA OpenListList ==
    ASSUME ListInv, NEW p \in Procs, OpenList(p)
    PROVE  ListInv'
  <1>1. /\ inode = [k \in Inodes |-> inode[k]] /\ acked \in Seq(Nat) /\ items \in Nat
        /\ Clean(p, proc[p], dir) /\ MainOK(proc[Main], dir, inode, acked, flaw)
        /\ IsRec(proc[p]) /\ proc = [q \in Procs |-> proc[q]]
    BY ListParts
  <1>2. proc[p].at = "r+" /\ UNCHANGED <<dir, inode, items, acked>> /\ proc[p].at \notin Appending
    BY DEF OpenList, Appending
  <1>3. p = Main /\ proc[p].name = "list" /\ proc[p].ino = 0
    BY ONLY <1>1, <1>2 DEF Clean
  <1>4. PICK s : s = Stored(dir, inode)
    OBVIOUS
  <1>5. proc[p].op = "append" /\ proc[p].val \in Nat /\ proc[p].data = Pieces(proc[p].val) /\ proc[p].n = 0
    BY ONLY <1>1, <1>2, <1>3 DEF MainOK, AppendOK
  <1>6. s \in Seq(PieceSet) /\ Len(s) \in Nat
    <2>1. s \in Seq(PieceSet)
      BY ONLY <1>1, <1>4 DEF MainOK, ContentOK
    <2> QED BY ONLY <2>1, LenProperties
  <1>7. CASE /\ dir["list"] # 0
             /\ proc' = [proc EXCEPT ![p].at = "alloc", ![p].ino = dir["list"],
                                     ![p].pos = Len(inode[dir["list"]])]
             /\ UNCHANGED flaw
    <2>1. PICK ino, pos : ino = dir["list"] /\ pos = Len(inode[dir["list"]])
      OBVIOUS
    <2>2. PICK s1, s2, r : /\ s1 = [proc[p] EXCEPT !.at = "alloc"] /\ s2 = [s1 EXCEPT !.ino = ino]
                           /\ r = [s2 EXCEPT !.pos = pos]
      OBVIOUS
    <2>3. proc' = [proc EXCEPT ![p] = r]
      BY <1>1, <1>7, <2>1, <2>2
    <2>4. IsRec(s1) /\ s1.at = "alloc" /\ SameBut(proc[p], s1, {"at"})
      BY ONLY <1>1, <2>2, SetAt
    <2>5. IsRec(s2) /\ s2.ino = ino /\ SameBut(s1, s2, {"ino"})
      BY ONLY <2>2, <2>4, SetIno
    <2>6. IsRec(r) /\ r.pos = pos /\ SameBut(s2, r, {"pos"})
      BY ONLY <2>2, <2>5, SetPos
    <2>7. /\ r.at = "alloc" /\ r.ino = ino /\ r.name = proc[p].name /\ r.op = proc[p].op /\ r.val = proc[p].val
          /\ r.data = proc[p].data /\ r.n = proc[p].n
      BY ONLY <2>4, <2>5, <2>6 DEF SameBut
    <2>8. pos = Len(s)
      BY ONLY <1>4, <1>7, <2>1 DEF Stored
    <2>9. Clean(Main, r, dir)
      BY ONLY <1>3, <1>5, <2>6, <2>7 DEF Clean
    <2>10. r.at \in Appending /\ r.at \notin {"open"} \cup Working
      BY ONLY <2>7 DEF Appending, Working
    <2>11. AppendOK(r, dir, s)
      <3>1. pos \in Nat /\ Len(s) = pos + 0 /\ 0 \in 0..2 /\ 1..0 = {}
        BY <1>6, <2>8
      <3> QED BY ONLY <1>5, <1>7, <2>1, <2>6, <2>7, <3>1 DEF AppendOK
    <2>12. ScratchOK(r, dir, inode, flaw)
      BY ONLY <2>10 DEF ScratchOK
    <2>13. Base(r, s) = Len(s)
      BY ONLY <2>6, <2>8, <2>10 DEF Base
    <2>14. MainOK(r, dir, inode, acked, flaw)
      BY ONLY <1>1, <1>2, <1>3, <1>4, <2>11, <2>12, <2>13, MainMoves
    <2> QED BY ONLY ListInv, <1>1, <1>2, <1>3, <1>7, <2>3, <2>9, <2>14, MainStep
  <1>8. CASE Go(p, "open") /\ flaw \subseteq flaw' /\ (dir["list"] = 0 \/ "denied" \in flaw')
    <2>1. PICK r : r = [proc[p] EXCEPT !.at = "open"] /\ proc' = [proc EXCEPT ![p] = r]
      BY <1>8 DEF Go
    <2>2. IsRec(r) /\ r.at = "open" /\ SameBut(proc[p], r, {"at"})
      BY ONLY <1>1, <2>1, SetAt
    <2>3. /\ r.ino = proc[p].ino /\ r.name = proc[p].name /\ r.op = proc[p].op /\ r.val = proc[p].val
          /\ r.data = proc[p].data
      BY ONLY <2>2 DEF SameBut
    <2>4. r.at \notin Appending \cup {"r+"}
      BY ONLY <2>2 DEF Appending
    <2>5. Clean(Main, r, dir)
      BY ONLY <1>3, <1>5, <2>2, <2>3, <2>4 DEF Clean
    <2>6. AppendOK(r, dir, s) /\ Base(r, s) = Len(s)
      BY ONLY <2>4 DEF AppendOK, Base
    <2>7. ScratchOK(r, dir, inode, flaw')
      BY ONLY <1>5, <1>8, <2>2, <2>3 DEF ScratchOK
    <2>8. MainOK(r, dir, inode, acked, flaw')
      BY ONLY <1>1, <1>2, <1>3, <1>4, <1>8, <2>6, <2>7, MainMoves
    <2> QED BY ONLY ListInv, <1>1, <1>2, <1>3, <2>1, <2>5, <2>8, MainStep
  <1> QED BY <1>7, <1>8 DEF OpenList

(* Space is reserved, or cannot be. *)
LEMMA FallocateList ==
    ASSUME ListInv, NEW p \in Procs, Fallocate(p)
    PROVE  ListInv'
  <1>1. proc[p].at = "alloc" /\ proc[p].at \in Appending /\ UNCHANGED <<dir, inode, items, acked, flaw>>
    BY DEF Fallocate, Appending
  <1>2. inode = [k \in Inodes |-> inode[k]] /\ acked \in Seq(Nat) /\ IsRec(proc[p])
    BY <1>1, AppendParts
  <1>3. PICK s : /\ s = inode[dir["list"]] /\ s \in Seq(PieceSet) /\ ContentOK(proc[p].pos, s, acked, flaw)
                 /\ proc[p].pos \in Nat /\ proc[p].n = 0 /\ Len(s) = proc[p].pos + proc[p].n
                 /\ \A k \in 1..proc[p].n : s[proc[p].pos + k] = <<proc[p].val, k>>
    BY <1>1, AppendParts
  <1>4. s = inode'[dir["list"]] /\ inode' = [k \in Inodes |-> inode'[k]] /\ acked' \in Seq(Nat)
    BY <1>1, <1>2, <1>3
  <1>5. CASE Go(p, "fwrite")
    <2>1. PICK r : r = [proc[p] EXCEPT !.at = "fwrite"] /\ proc' = [proc EXCEPT ![p] = r]
      BY <1>5 DEF Go
    <2>2. IsRec(r) /\ r.at = "fwrite" /\ SameBut(proc[p], r, {"at"})
      BY ONLY <1>2, <2>1, SetAt
    <2>3. r.at \in Appending /\ r.n = proc[p].n /\ SameBut(proc[p], r, {"at", "n"}) /\ r.n \in 0..2
      BY ONLY <1>3, <2>2 DEF SameBut, Appending
    <2>4. /\ r.at # "alloc" /\ r.at # "fclose" /\ Len(s) = proc[p].pos + r.n
          /\ \A k \in 1..r.n : s[proc[p].pos + k] = <<proc[p].val, k>>
      BY ONLY <1>3, <2>2, <2>3
    <2> QED BY ONLY ListInv, p \in Procs, <1>1, <1>3, <1>4, <2>1, <2>2, <2>3, <2>4, AppendGoesOn
  <1>6. CASE Return(p, "failed")
    <2>1. ContentOK(Len(s), s, acked', flaw')
      <3>1. Len(s) = proc[p].pos
        BY <1>3
      <3> QED BY <1>1, <1>3, <3>1
    <2> QED BY ONLY ListInv, p \in Procs, <1>1, <1>4, <1>6, <2>1, AppendReturns
  <1> QED BY <1>5, <1>6 DEF Fallocate

(* Pieces are written after the base; at the end of the item, or before it, *)
(* the writing stops.                                                       *)
LEMMA FwriteList ==
    ASSUME ListInv, NEW p \in Procs, Fwrite(p)
    PROVE  ListInv'
  <1>1. proc[p].at = "fwrite" /\ proc[p].at \in Appending /\ UNCHANGED <<dir, items, acked, flaw>>
    BY DEF Fwrite, Appending
  <1>2. /\ inode = [k \in Inodes |-> inode[k]] /\ acked \in Seq(Nat) /\ IsRec(proc[p])
        /\ dir["list"] \in Inodes /\ proc[p].ino = dir["list"] /\ proc[p].val \in Nat
        /\ proc[p].data = Pieces(proc[p].val)
    BY <1>1, AppendParts
  <1>3. PICK s : /\ s = inode[dir["list"]] /\ s \in Seq(PieceSet) /\ ContentOK(proc[p].pos, s, acked, flaw)
                 /\ proc[p].pos \in Nat /\ proc[p].n \in 0..2 /\ Len(s) = proc[p].pos + proc[p].n
                 /\ \A k \in 1..proc[p].n : s[proc[p].pos + k] = <<proc[p].val, k>>
    BY <1>1, AppendParts
  <1>4. PICK x, n, pos : x = proc[p].val /\ n = proc[p].n /\ pos = proc[p].pos
    OBVIOUS
  <1>5. /\ Pieces(x) \in Seq(PieceSet) /\ Len(Pieces(x)) = 2 /\ \A k \in 1..2 : Pieces(x)[k] = <<x, k>>
    BY ONLY <1>2, <1>4, ItemFacts
  <1>6. ASSUME NEW step \in {"fclose", "truncate"}, Go(p, step), inode' = inode, step = "fclose" => n = 2
        PROVE  ListInv'
    <2>1. PICK r : r = [proc[p] EXCEPT !.at = step] /\ proc' = [proc EXCEPT ![p] = r]
      BY <1>6 DEF Go
    <2>2. IsRec(r) /\ r.at = step /\ SameBut(proc[p], r, {"at"})
      <3>1. IsRec(proc[p]) /\ r = [proc[p] EXCEPT !.at = step]
        BY <1>2, <2>1
      <3> QED BY ONLY <3>1, SetAt
    <2>3. /\ r.at \in Appending /\ r.n = proc[p].n /\ SameBut(proc[p], r, {"at", "n"})
          /\ r.at # "alloc" /\ (r.at = "fclose" => r.n = 2)
      BY ONLY <1>4, <1>6, <2>2 DEF SameBut, Appending
    <2>4. s = inode'[dir["list"]] /\ inode' = [k \in Inodes |-> inode'[k]]
      BY ONLY <1>2, <1>3, <1>6
    <2>5. /\ r.n \in 0..2 /\ Len(s) = proc[p].pos + r.n /\ s \in Seq(PieceSet)
          /\ \A k \in 1..r.n : s[proc[p].pos + k] = <<proc[p].val, k>>
      BY ONLY <1>3, <2>3
    <2> QED BY ONLY ListInv, p \in Procs, <1>1, <1>3, <2>1, <2>2, <2>3, <2>4, <2>5, AppendGoesOn
  <1>7. CASE /\ proc[p].n < Len(proc[p].data)
             /\ inode' = [inode EXCEPT ![proc[p].ino] =
                          WriteAt(@, proc[p].pos + proc[p].n, proc[p].data[proc[p].n + 1])]
             /\ proc' = [proc EXCEPT ![p].n = @ + 1]
    <2>1. PICK r : r = [proc[p] EXCEPT !.n = @ + 1]
      OBVIOUS
    <2>2. proc' = [proc EXCEPT ![p] = r]
      BY ONLY <1>7, <2>1
    <2>3. IsRec(r) /\ r.n = n + 1 /\ SameBut(proc[p], r, {"n"})
      <3>1. IsRec(proc[p]) /\ r = [proc[p] EXCEPT !.n = n + 1]
        BY <1>2, <1>4, <2>1
      <3> QED BY ONLY <3>1, SetN
    <2>4. /\ r.at = "fwrite" /\ r.at \in Appending /\ SameBut(proc[p], r, {"at", "n"})
      BY ONLY <1>1, <2>3 DEF SameBut
    <2>5. n \in 0..1 /\ n + 1 \in 1..2 /\ n + 1 \in 0..2 /\ pos + n + 1 = pos + (n + 1)
      BY <1>2, <1>3, <1>4, <1>5, <1>7
    <2>6. PICK y : y = <<x, n + 1>> /\ y = Pieces(x)[n + 1] /\ y \in PieceSet
      BY ONLY <1>5, <2>5, ElementOfSeq
    <2>7. PICK t : t = WriteAt(s, pos + n, y)
      OBVIOUS
    <2>8. t = inode'[dir["list"]] /\ inode' = [k \in Inodes |-> inode'[k]]
      <3>1. inode' = [inode EXCEPT ![dir["list"]] = t]
        BY ONLY <1>2, <1>3, <1>4, <1>7, <2>6, <2>7
      <3> QED BY ONLY <1>2, <3>1
    <2>9. t \in Seq(PieceSet) /\ Len(t) = pos + n + 1 /\ t[pos + n + 1] = y /\ \A k \in 1..pos + n : t[k] = s[k]
      <3>1. PICK m : m = pos + n
        OBVIOUS
      <3>2. m = Len(s) /\ t = WriteAt(s, m, y) /\ s \in Seq(PieceSet) /\ y \in PieceSet
        BY ONLY <1>3, <1>4, <2>6, <2>7, <3>1
      <3>3. t \in Seq(PieceSet) /\ Len(t) = m + 1 /\ t[m + 1] = y /\ \A k \in 1..m : t[k] = s[k]
        BY ONLY <3>2, WriteAtEnd
      <3> QED BY ONLY <3>1, <3>3
    <2>10. \A k \in 1..r.n : t[proc[p].pos + k] = <<proc[p].val, k>>
      <3> SUFFICES ASSUME NEW k \in 1..n + 1 PROVE t[pos + k] = <<x, k>>
        BY <1>4, <2>3
      <3>1. CASE k = n + 1
        BY ONLY <2>5, <2>6, <2>9, <3>1
      <3>2. CASE k \in 1..n
        <4>1. pos + k \in 1..pos + n
          BY <1>3, <1>4, <3>2
        <4> QED BY ONLY <1>3, <1>4, <2>9, <3>2, <4>1
      <3>3. k = n + 1 \/ k \in 1..n
        BY <2>5
      <3> QED BY <3>1, <3>2, <3>3
    <2>11. ContentOK(pos, t, acked, flaw)
      <3>1. \A k \in 1..pos : t[k] = s[k]
        <4>1. \A k \in 1..pos : k \in 1..pos + n
          BY <1>3, <1>4
        <4> QED BY ONLY <2>9, <4>1
      <3>2. pos \in Nat /\ pos <= pos
        BY <1>3, <1>4
      <3>3. ("denied" \notin flaw => Holds(s, pos, acked)) /\ ("torn" \notin flaw => Readable(s, pos))
        BY ONLY <1>3, <1>4 DEF ContentOK
      <3>4. "denied" \notin flaw => Holds(t, pos, acked)
        BY ONLY <1>2, <3>1, <3>2, <3>3, HoldsOn
      <3>5. "torn" \notin flaw => Readable(t, pos)
        BY ONLY <3>1, <3>2, <3>3, ReadableOn
      <3> QED BY ONLY <2>9, <3>4, <3>5 DEF ContentOK
    <2>12. /\ r.n \in 0..2 /\ Len(t) = proc[p].pos + r.n /\ ContentOK(proc[p].pos, t, acked, flaw)
           /\ r.at # "alloc" /\ r.at # "fclose"
      BY ONLY <1>4, <2>3, <2>4, <2>5, <2>9, <2>11
    <2> QED BY ONLY ListInv, p \in Procs, <1>1, <2>2, <2>3, <2>4, <2>8, <2>9, <2>10, <2>12, AppendGoesOn
  <1>8. CASE proc[p].n = Len(proc[p].data) /\ Go(p, "fclose") /\ UNCHANGED inode
    <2>1. n = 2
      BY ONLY <1>2, <1>4, <1>5, <1>8
    <2> QED BY ONLY <1>6, <1>8, <2>1
  <1>9. CASE Go(p, "truncate") /\ UNCHANGED inode
    BY ONLY <1>6, <1>9
  <1> QED BY <1>7, <1>8, <1>9 DEF Fwrite

(* Beyond the base there may be more, as long as it is known to be torn. *)
LEMMA LongerHolds ==
    ASSUME NEW s \in Seq(PieceSet), NEW n \in Nat, n <= Len(s), NEW a \in Seq(Nat), NEW fl,
           ContentOK(n, s, a, fl), NEW fl2, fl \subseteq fl2,
           "torn" \notin fl2 => Readable(s, Len(s))
    PROVE  ContentOK(Len(s), s, a, fl2)
  <1>1. Len(s) \in Nat
    BY LenProperties
  <1>2. PICK m \in Nat : m = Len(s) /\ n <= m
    BY <1>1
  <1>3. "denied" \notin fl2 => Holds(s, n, a)
    BY DEF ContentOK
  <1>4. "denied" \notin fl2 => Holds(s, m, a)
    BY ONLY <1>2, <1>3, HoldsOn, n \in Nat, a \in Seq(Nat)
  <1> QED BY <1>2, <1>4 DEF ContentOK

(* A failed append takes back what it wrote, or the list is torn. *)
LEMMA TruncateList ==
    ASSUME ListInv, NEW p \in Procs, Truncate(p)
    PROVE  ListInv'
  <1>1. proc[p].at = "truncate" /\ proc[p].at \in Appending /\ UNCHANGED <<dir, items, acked>>
    BY DEF Truncate, Appending
  <1>2. /\ inode = [k \in Inodes |-> inode[k]] /\ acked \in Seq(Nat)
        /\ dir["list"] \in Inodes /\ proc[p].ino = dir["list"]
    BY <1>1, AppendParts
  <1>3. PICK s : /\ s = inode[dir["list"]] /\ s \in Seq(PieceSet) /\ ContentOK(proc[p].pos, s, acked, flaw)
                 /\ proc[p].pos \in Nat /\ proc[p].n \in 0..2 /\ Len(s) = proc[p].pos + proc[p].n
    BY <1>1, AppendParts
  <1>4. PICK pos \in Nat : pos = proc[p].pos /\ pos <= Len(s)
    BY <1>3
  <1>5. CASE /\ inode' = [inode EXCEPT ![proc[p].ino] = SubSeq(@, 1, proc[p].pos)]
             /\ Return(p, "failed") /\ UNCHANGED flaw
    <2>1. PICK t : t = SubSeq(s, 1, pos)
      OBVIOUS
    <2>2. t = inode'[dir["list"]] /\ inode' = [k \in Inodes |-> inode'[k]]
      <3>1. inode' = [inode EXCEPT ![dir["list"]] = t]
        BY ONLY <1>2, <1>3, <1>4, <1>5, <2>1
      <3> QED BY ONLY <1>2, <3>1
    <2>3. t \in Seq(PieceSet) /\ Len(t) = pos /\ \A k \in 1..pos : t[k] = s[k]
      <3>1. Len(s) \in Nat
        BY ONLY <1>3, LenProperties
      <3>2. \A k \in 1..pos : s[k] \in PieceSet
        <4>1. \A k \in 1..pos : k \in 1..Len(s)
          BY <1>4, <3>1
        <4> QED BY ONLY <1>3, <4>1, ElementOfSeq
      <3>3. t = [k \in 1..pos |-> s[k]]
        BY <1>3, <1>4, <2>1, <3>1
      <3>4. t \in [1..pos -> PieceSet]
        BY ONLY <3>2, <3>3
      <3> QED BY ONLY <1>4, <3>3, <3>4, SizeOf
    <2>4. ContentOK(Len(t), t, acked', flaw')
      <3>1. ("denied" \notin flaw => Holds(s, pos, acked)) /\ ("torn" \notin flaw => Readable(s, pos))
        BY ONLY <1>3, <1>4 DEF ContentOK
      <3>2. pos <= pos
        OBVIOUS
      <3>3. "denied" \notin flaw => Holds(t, pos, acked)
        BY ONLY <1>2, <1>4, <2>3, <3>1, <3>2, HoldsOn
      <3>4. "torn" \notin flaw => Readable(t, pos)
        BY ONLY <1>4, <2>3, <3>1, ReadableOn
      <3> QED BY ONLY <1>1, <1>5, <2>3, <3>3, <3>4 DEF ContentOK
    <2>5. acked' \in Seq(Nat)
      BY <1>1, <1>2
    <2> QED BY ONLY ListInv, p \in Procs, <1>1, <1>5, <2>2, <2>4, <2>5, AppendReturns
  <1>6. CASE UNCHANGED inode /\ Return(p, "raised") /\ flaw' = flaw \cup {"torn"}
    <2>1. s = inode'[dir["list"]] /\ inode' = [k \in Inodes |-> inode'[k]] /\ acked' \in Seq(Nat)
      BY <1>1, <1>2, <1>3, <1>6
    <2>2. flaw \subseteq flaw' /\ "torn" \in flaw'
      BY <1>6
    <2>3. ContentOK(Len(s), s, acked, flaw')
      BY ONLY <1>2, <1>3, <1>4, <2>2, LongerHolds
    <2>4. ContentOK(Len(s), s, acked', flaw')
      BY <1>1, <2>3
    <2> QED BY ONLY ListInv, p \in Procs, <1>1, <1>6, <2>1, <2>4, AppendReturns
  <1> QED BY <1>5, <1>6 DEF Truncate

(* An item written in full, whether it is acknowledged or not. *)
LEMMA WrittenInFull ==
    ASSUME ListInv, NEW p \in Procs, proc[p].at = "fclose"
    PROVE  \E s : /\ s = inode[dir["list"]]
                  /\ ContentOK(Len(s), s, acked, flaw)
                  /\ ContentOK(Len(s), s, Append(acked, proc[p].val), flaw)
  <1>1. proc[p].at \in Appending
    BY DEF Appending
  <1>2. acked \in Seq(Nat) /\ proc[p].val \in Nat
    BY <1>1, AppendParts
  <1>3. PICK s : /\ s = inode[dir["list"]] /\ s \in Seq(PieceSet) /\ ContentOK(proc[p].pos, s, acked, flaw)
                 /\ proc[p].pos \in Nat /\ proc[p].n = 2 /\ Len(s) = proc[p].pos + proc[p].n
                 /\ \A k \in 1..proc[p].n : s[proc[p].pos + k] = <<proc[p].val, k>>
    BY <1>1, AppendParts
  <1>4. PICK pos, x : pos \in Nat /\ pos = proc[p].pos /\ Len(s) = pos + 2 /\ x = proc[p].val
    BY <1>3
  <1>5. s[pos + 1] = <<x, 1>> /\ s[pos + 2] = <<x, 2>> /\ pos <= Len(s)
    <2>1. 1 \in 1..2 /\ 2 \in 1..2
      OBVIOUS
    <2>2. pos <= Len(s)
      BY <1>4
    <2> QED BY ONLY <1>3, <1>4, <2>1, <2>2
  <1>6. ("denied" \notin flaw => Holds(s, pos, acked)) /\ ("torn" \notin flaw => Readable(s, pos))
    BY ONLY <1>3, <1>4 DEF ContentOK
  <1>7. "torn" \notin flaw => Readable(s, pos + 2)
    BY ONLY <1>4, <1>5, <1>6, ReadableNext
  <1>8. "denied" \notin flaw => Holds(s, pos + 2, Append(acked, x))
    BY ONLY <1>2, <1>4, <1>5, <1>6, HoldsNext
  <1>9. ContentOK(Len(s), s, Append(acked, x), flaw)
    BY ONLY <1>3, <1>4, <1>7, <1>8 DEF ContentOK
  <1>10. ContentOK(Len(s), s, acked, flaw)
    <2>1. "torn" \notin flaw => Readable(s, Len(s))
      BY ONLY <1>4, <1>7
    <2>2. flaw \subseteq flaw /\ ContentOK(pos, s, acked, flaw)
      BY ONLY <1>3, <1>4
    <2> QED BY ONLY <1>2, <1>3, <1>4, <1>5, <2>1, <2>2, LongerHolds
  <1> QED BY <1>3, <1>4, <1>9, <1>10

(* The item is acknowledged. *)
LEMMA CloseListList ==
    ASSUME ListInv, NEW p \in Procs, CloseList(p)
    PROVE  ListInv'
  <1>1. /\ proc[p].at = "fclose" /\ proc[p].at \in Appending /\ UNCHANGED <<dir, inode, items, flaw>>
        /\ acked' = Append(acked, proc[p].val)
    BY DEF CloseList, Appending
  <1>2. inode = [k \in Inodes |-> inode[k]] /\ acked \in Seq(Nat) /\ proc[p].val \in Nat
    BY <1>1, AppendParts
  <1>3. PICK s : s = inode[dir["list"]] /\ ContentOK(Len(s), s, Append(acked, proc[p].val), flaw)
    BY <1>1, WrittenInFull
  <1>4. acked' \in Seq(Nat)
    BY ONLY <1>1, <1>2, AppendProperties
  <1>5. /\ s = inode'[dir["list"]] /\ inode' = [k \in Inodes |-> inode'[k]]
        /\ ContentOK(Len(s), s, acked', flaw')
    BY <1>1, <1>2, <1>3
  <1>6. \E result \in {"ok", "raised"} : Return(p, result)
    BY DEF CloseList
  <1> QED BY ONLY ListInv, p \in Procs, <1>1, <1>4, <1>5, <1>6, AppendReturns

(* A process dies. *)
LEMMA CrashList ==
    ASSUME ListInv, NEW p \in Procs, Crash(p)
    PROVE  ListInv'
  <1>1. /\ Return(p, "idle") /\ UNCHANGED <<dir, inode, items, acked>> /\ flaw \subseteq flaw'
        /\ proc[p].at \in {"fwrite", "truncate"} /\ proc[p].n > 0 => "torn" \in flaw'
    BY DEF Crash
  <1>2. CASE proc[p].at \notin Appending
    BY <1>1, <1>2, ListReturn
  <1>3. CASE proc[p].at \in Appending
    <2>1. inode = [k \in Inodes |-> inode[k]] /\ acked \in Seq(Nat)
      BY <1>3, AppendParts
    <2>2. PICK s : /\ s = inode[dir["list"]] /\ s \in Seq(PieceSet) /\ ContentOK(proc[p].pos, s, acked, flaw)
                   /\ proc[p].pos \in Nat /\ proc[p].n \in 0..2 /\ Len(s) = proc[p].pos + proc[p].n
                   /\ proc[p].at = "alloc" => proc[p].n = 0
                   /\ proc[p].at = "fclose" => proc[p].n = 2
      BY <1>3, AppendParts
    <2>3. PICK pos \in Nat : pos = proc[p].pos /\ pos <= Len(s) /\ (proc[p].n = 0 => Len(s) = pos)
      BY <2>2
    <2>4. "torn" \notin flaw' => Readable(s, Len(s))
      <3> SUFFICES ASSUME "torn" \notin flaw' PROVE Readable(s, Len(s))
        OBVIOUS
      <3>1. CASE proc[p].at = "fclose"
        <4>1. ContentOK(Len(s), s, acked, flaw)
          BY <2>2, <3>1, WrittenInFull
        <4> QED BY <1>1, <4>1 DEF ContentOK
      <3>2. CASE proc[p].at # "fclose"
        <4>1. proc[p].n = 0
          BY <1>1, <1>3, <2>2, <3>2 DEF Appending
        <4>2. ContentOK(Len(s), s, acked, flaw)
          BY ONLY <2>2, <2>3, <4>1
        <4> QED BY <1>1, <4>2 DEF ContentOK
      <3> QED BY <3>1, <3>2
    <2>5. ContentOK(pos, s, acked, flaw) /\ flaw \subseteq flaw'
      BY ONLY <1>1, <2>2, <2>3
    <2>6. ContentOK(Len(s), s, acked, flaw')
      BY ONLY <2>1, <2>2, <2>3, <2>4, <2>5, LongerHolds
    <2>7. /\ s = inode'[dir["list"]] /\ inode' = [k \in Inodes |-> inode'[k]] /\ acked' \in Seq(Nat)
          /\ ContentOK(Len(s), s, acked', flaw')
      BY <1>1, <2>1, <2>2, <2>6
    <2> QED BY ONLY ListInv, p \in Procs, <1>1, <1>3, <2>7, AppendReturns
  <1> QED BY <1>2, <1>3

(* One step of any process. *)
LEMMA ListStepKeeps ==
    ASSUME ListInv, [StoreNext]_storeVars
    PROVE  ListInv'
  <1>1. CASE UNCHANGED storeVars
    BY <1>1 DEF storeVars, ListInv, FilesOK, DirOK
  <1>2. ASSUME NEW p \in Procs, store(p) \/ list_append(p) \/ list_store(p) \/ StoreStep(p)
        PROVE  ListInv'
    BY <1>2, StoreBegins, AppendBegins, ReplaceBegins, OpenScratchList, WriteScratchList, CloseScratchList,
       ScratchFailsList, RenameList, OpenListList, FallocateList, FwriteList, TruncateList, CloseListList,
       CrashList DEF StoreStep
  <1> QED BY <1>1, <1>2 DEF StoreNext

(* Nothing is stored and nothing is promised. *)
LEMMA ListInit ==
    ASSUME StoreInit
    PROVE  ListInv
  <1>1. DirOK(dir) /\ dir["list"] = 0 /\ inode = [k \in Inodes |-> inode[k]] /\ proc = [p \in Procs |-> proc[p]]
    BY DEF StoreInit, DirOK, Names
  <1>2. PICK r : r = [Resting EXCEPT !.at = "idle"]
    OBVIOUS
  <1>3. r = Resting
    <2>1. PICK no : Resting = [at |-> "idle", op |-> "none", name |-> "dat", data |-> <<>>, val |-> Empty,
                               ino |-> 0, pos |-> 0, n |-> 0, retry |-> no]
      BY RestingShape
    <2> QED BY <1>2, <2>1
  <1>4. r.name = "dat" /\ r.at = "idle" /\ \A p, d : Clean(p, r, d)
    BY ONLY <1>2, ReturnedClean
  <1>5. \A p \in Procs : proc[p] = r
    BY <1>3 DEF StoreInit
  <1>6. FilesOK
    BY <1>1, <1>4, <1>5 DEF FilesOK
  <1>7. acked = <<>> /\ acked \in Seq(Nat) /\ items \in Nat /\ Len(acked) = 0
    BY EmptySeq DEF StoreInit
  <1>8. r.at \notin Appending \cup {"r+"}
    BY <1>4 DEF Appending
  <1>9. PICK s : s = Stored(dir, inode) /\ s = <<>> /\ s \in Seq(PieceSet) /\ Len(s) = 0
    BY <1>1, EmptySeq DEF Stored
  <1>10. AppendOK(r, dir, s) /\ ScratchOK(r, dir, inode, flaw) /\ Base(r, s) = 0
    BY ONLY <1>4, <1>8, <1>9 DEF AppendOK, ScratchOK, Base
  <1>11. Holds(s, 0, acked)
    <2>1. PICK f : f = [k \in 1..0 |-> 0]
      OBVIOUS
    <2>2. 1..0 = {}
      OBVIOUS
    <2>3. f \in [1..Len(acked) -> 1..0] /\ 1..Len(acked) = {}
      BY <1>7, <2>1, <2>2
    <2>4. Fits(f, s, 0, acked)
      BY ONLY <2>3 DEF Fits
    <2> QED BY <2>4 DEF Holds
  <1>12. ContentOK(0, s, acked, flaw)
    BY <1>9, <1>11, NothingRead DEF ContentOK
  <1>13. MainOK(r, dir, inode, acked, flaw)
    BY ONLY <1>9, <1>10, <1>12 DEF MainOK
  <1> QED BY <1>5, <1>6, <1>7, <1>13, StoreAssumption DEF ListInv

(* What the invariant says of the list in the file. *)
LEMMA ListInvKeeps ==
    ASSUME ListInv
    PROVE  ListKept
  <1>1. MainOK(proc[Main], dir, inode, acked, flaw) /\ acked \in Seq(Nat)
    BY DEF ListInv
  <1>2. PICK s : s = File("list")
    OBVIOUS
  <1>3. s = Stored(dir, inode)
    BY <1>2 DEF File, Stored
  <1>4. PICK n : n = Base(proc[Main], s)
    OBVIOUS
  <1>5. ContentOK(n, s, acked, flaw) /\ AppendOK(proc[Main], dir, s)
    BY ONLY <1>1, <1>3, <1>4 DEF MainOK
  <1>6. s \in Seq(PieceSet) /\ Len(s) \in Nat
    <2>1. s \in Seq(PieceSet)
      BY ONLY <1>5 DEF ContentOK
    <2> QED BY ONLY <2>1, LenProperties
  <1>7. n \in Nat /\ n <= Len(s) /\ (proc[Main].at \notin {"fwrite", "truncate", "fclose"} => n = Len(s))
    <2>1. CASE proc[Main].at \in Appending
      <3>1. /\ proc[Main].pos \in Nat /\ proc[Main].n \in 0..2 /\ Len(s) = proc[Main].pos + proc[Main].n
            /\ proc[Main].at = "alloc" => proc[Main].n = 0
        BY ONLY <1>5, <2>1 DEF AppendOK
      <3>2. n = proc[Main].pos
        BY ONLY <1>4, <2>1 DEF Base
      <3>3. proc[Main].at \notin {"fwrite", "truncate", "fclose"} => proc[Main].at = "alloc"
        BY ONLY <2>1 DEF Appending
      <3> QED BY <3>1, <3>2, <3>3
    <2>2. CASE proc[Main].at \notin Appending
      <3>1. n = Len(s)
        BY ONLY <1>4, <2>2 DEF Base
      <3> QED BY <1>6, <3>1
    <2> QED BY <2>1, <2>2
  <1>8. AckedKept
    <2> SUFFICES ASSUME "denied" \notin flaw
                 PROVE  \E f \in [1..Len(acked) -> DOMAIN Complete(s)] :
                            \A j, k \in 1..Len(acked) :
                                /\ Complete(s)[f[k]] = acked[k]
                                /\ j < k => f[j] < f[k]
      BY <1>2 DEF AckedKept
    <2>1. PICK f : Fits(f, s, n, acked)
      BY <1>5 DEF ContentOK, Holds
    <2>2. PICK D : D = {j \in 1..Len(s) - 1 : s[j][2] = 1 /\ s[j + 1] = <<s[j][1], 2>>}
      OBVIOUS
    <2>3. DOMAIN Complete(s) = D /\ \A j \in D : Complete(s)[j] = s[j][1]
      BY <2>2 DEF Complete
    <2>4. ASSUME NEW k \in 1..Len(acked) PROVE f[k] \in D /\ s[f[k]][1] = acked[k]
      <3>1. PICK x : x = f[k]
        OBVIOUS
      <3>2. x \in 1..n /\ x < n /\ s[x][1] = acked[k] /\ s[x][2] = 1 /\ s[x + 1] = <<acked[k], 2>>
        BY ONLY <2>1, <3>1, k \in 1..Len(acked) DEF Fits
      <3>3. x \in 1..Len(s) - 1
        BY <1>6, <1>7, <3>2
      <3>4. x \in D
        BY ONLY <2>2, <3>2, <3>3
      <3> QED BY ONLY <3>1, <3>2, <3>4
    <2>5. f \in [1..Len(acked) -> D]
      <3>1. f \in [1..Len(acked) -> 1..n]
        BY ONLY <2>1 DEF Fits
      <3> QED BY ONLY <2>4, <3>1
    <2>6. \A j, k \in 1..Len(acked) : j < k => f[j] < f[k]
      BY ONLY <2>1 DEF Fits
    <2>7. \A k \in 1..Len(acked) : Complete(s)[f[k]] = acked[k]
      BY ONLY <2>3, <2>4
    <2> QED BY ONLY <2>3, <2>5, <2>6, <2>7
  <1>9. ListReadable
    <2> SUFFICES ASSUME "torn" \notin flaw,
                        \A p \in Procs : proc[p].at \notin {"fwrite", "truncate", "fclose"}
                 PROVE  \A k \in 1..Len(s) :
                          IF k % 2 = 1 THEN k < Len(s) /\ s[k][2] = 1 ELSE s[k] = <<s[k - 1][1], 2>>
      BY <1>2 DEF ListReadable
    <2>1. n = Len(s)
      BY <1>7, StoreAssumption
    <2>2. Readable(s, n)
      BY <1>5 DEF ContentOK
    <2> QED BY ONLY <2>1, <2>2 DEF Readable
  <1> QED BY <1>8, <1>9 DEF ListKept

(* An item whose append was reported done stays in the list, once and in    *)
(* its place, until the list is replaced, and the list can be read: a       *)
(* failed append, a retry or a crash takes nothing away, however many       *)
(* processes store tables meanwhile; except after a list that could not be  *)
(* opened, and, for reading, an append that was cut short for good          *)
(* (append and list_append, datamanager.lua:230-294, pposix.c:748-803).     *)
THEOREM ListKeptHolds == StoreSpec => []ListKept
  <1>1. StoreInit => ListInv
    BY ListInit
  <1>2. ListInv /\ [StoreNext]_storeVars => ListInv'
    BY ListStepKeeps
  <1>3. ListInv => ListKept
    BY ListInvKeeps
  <1> QED BY <1>1, <1>2, <1>3, PTL DEF StoreSpec
====
